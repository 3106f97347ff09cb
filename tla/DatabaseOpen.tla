----------------------------- MODULE DatabaseOpen -----------------------------
(***************************************************************************)
(* ContactsDatabase::open, in several connections of several processes     *)
(* that may be of different releases: who finds no file creates it and its *)
(* tables, the first connection to the semaphores of a file owns it and    *)
(* upgrades its schema, the others look whether the schema is theirs.      *)
(* A file has an identity, since one that is removed stays with those who  *)
(* have it open.  A connection takes the semaphores of the file that the   *)
(* path names when it attaches to them (ftok).                             *)
(***************************************************************************)
EXTENDS Integers

CONSTANTS Connection, Process,
          processOf,      \* the process of each connection
          schemaVersion,  \* currentSchemaVersion of each process
          MaxFile,        \* bound on the files ever created
          MaxCount        \* bound on the connections of a process that are counted

ASSUME OpenAssumption ==
  /\ processOf \in [Connection -> Process]
  /\ schemaVersion \in [Process -> Nat \ {0}]
  /\ MaxFile \in Nat \ {0} /\ MaxCount \in Nat \ {0}

VARIABLES
  directory,     \* the file that the path names; 0 if there is none
  files,         \* how many were ever created
  version,       \* user_version of each file; 0 if it has no tables
  semaphore,     \* the three values for each file, and for the key of no file
  undo,          \* the kernel's SEM_UNDO adjustments
  connection,    \* what each connection is doing
  deserted,      \* history: nobody may be left to prepare the file in the directory
  raced,         \* history: two connections set out to create the file at once
  recounted,     \* history: keys whose count was set after it was used
  unset,         \* history: keys whose semaphores nobody is left to set
  overtaken      \* history: connections that were ready while an owner was at work

database == <<directory, files, version>>
kernel == <<semaphore, undo>>
history == <<deserted, raced, recounted, unset, overtaken>>
vars == <<database, kernel, connection, history>>

File == 1..MaxFile
Key == 0..MaxFile
Ownership == 0
Connections == 1
WriteAccess == 2
Semaphores == {Ownership, Connections, WriteAccess}
Values == [Semaphores -> Int]
initialValues == [i \in Semaphores |-> IF i = Connections THEN 0 ELSE 1]
\* There are no semaphores for the file yet.
NoValues == [i \in Semaphores |-> -1]

Closed == [pc |-> "closed", file |-> 0, key |-> 0, secondary |-> FALSE, preexisting |-> FALSE, owner |-> FALSE,
           next |-> Ownership]
Locations == {"closed", "open", "prepare", "remove", "attach", "set", "own", "value", "count", "lock",
              "upgrade", "version", "transient", "ready"}

TypeOK ==
  /\ directory \in 0..files /\ files \in 0..MaxFile
  /\ version \in [File -> {0} \cup {schemaVersion[p] : p \in Process}]
  /\ semaphore \in [Key -> Values] /\ undo \in [Key -> [Process -> Values]]
  /\ \A k \in Key : semaphore[k] # NoValues => \A i \in Semaphores : semaphore[k][i] >= 0
  /\ connection \in [Connection -> [pc : Locations, file : 0..files, key : 0..files, secondary : BOOLEAN,
                                    preexisting : BOOLEAN, owner : BOOLEAN, next : Semaphores]]
  /\ deserted \in BOOLEAN /\ recounted \subseteq Key /\ unset \subseteq Key
  /\ raced \in BOOLEAN /\ overtaken \subseteq Connection

At(c, l) == connection[c].pc = l
F(c) == connection[c].file
K(c) == connection[c].key
P(c) == processOf[c]
Schema(c) == schemaVersion[P(c)]

\* No file, or one of some release without anybody using it.
Init ==
  /\ files \in {0, 1}
  /\ directory = files
  /\ version \in {v \in [File -> {0} \cup {schemaVersion[p] : p \in Process}] :
                    \A f \in File : v[f] = 0 <=> f > files}
  /\ semaphore = [k \in Key |-> NoValues]
  /\ undo = [k \in Key |-> [p \in Process |-> [i \in Semaphores |-> 0]]]
  /\ connection = [c \in Connection |-> Closed]
  /\ deserted = FALSE /\ raced = FALSE /\ recounted = {} /\ unset = {} /\ overtaken = {}

Goto(c, l) == connection' = [connection EXCEPT ![c].pc = l]

\* Mutant: it does not wait.
DecrementAtOnce(c, i) ==
  /\ semaphore' = [semaphore EXCEPT ![K(c)][i] = @ - 1]
  /\ undo' = [undo EXCEPT ![K(c)][P(c)][i] = @ + 1]

\* semop with SEM_UNDO.
Decrement(c, i) ==
  /\ semaphore[K(c)][i] > 0
  /\ semaphore' = [semaphore EXCEPT ![K(c)][i] = @ - 1]
  /\ undo' = [undo EXCEPT ![K(c)][P(c)][i] = @ + 1]
Increment(c, i) ==
  /\ semaphore' = [semaphore EXCEPT ![K(c)][i] = @ + 1]
  /\ undo' = [undo EXCEPT ![K(c)][P(c)][i] = @ - 1]

Undone(value, adjustment) == IF value + adjustment < 0 THEN 0 ELSE value + adjustment

(***************************************************************************)
(* The file and its tables.                                                *)
(***************************************************************************)
\* Connections that are to create the tables.
Preparing(c) == ~connection[c].preexisting /\ connection[c].pc \in {"open", "prepare", "remove"}

\* Whether there is a file; a secondary connection, that of a synchronous engine,
\* gives up if there is none.
FindFile(c, secondary) ==
  /\ At(c, "closed")
  /\ \A k \in Key : -undo[k][P(c)][Connections] < MaxCount
  /\ directory = 0 => ~secondary
  /\ connection' = [connection EXCEPT ![c] =
                      [Closed EXCEPT !.pc = "open", !.secondary = secondary, !.preexisting = directory # 0]]
  /\ raced' = (raced \/ (directory = 0 /\ \E d \in Connection : Preparing(d)))
  /\ UNCHANGED <<database, kernel, deserted, recounted, unset, overtaken>>

\* SQLite creates an empty file if there is none, also for a connection that
\* had found one.
OpenFile(c) ==
  /\ At(c, "open")
  /\ directory = 0 => files < MaxFile
  /\ files' = IF directory = 0 THEN files + 1 ELSE files
  /\ directory' = IF directory = 0 THEN files' ELSE directory
  /\ connection' = [connection EXCEPT ![c].file = directory',
                      ![c].pc = IF connection[c].preexisting THEN "attach" ELSE "prepare"]
  /\ deserted' = IF directory = 0 THEN connection[c].preexisting ELSE deserted
  /\ UNCHANGED <<version, kernel, raced, recounted, unset, overtaken>>

\* In one transaction.
PrepareDatabase(c) ==
  /\ At(c, "prepare")
  /\ version[F(c)] = 0
  /\ version' = [version EXCEPT ![F(c)] = Schema(c)]
  /\ Goto(c, "attach")
  /\ UNCHANGED <<directory, files, kernel, history>>

\* SQLite's lock is not to be had in time, a table exists, or another error.
PreparationFails(c) ==
  /\ At(c, "prepare")
  /\ Goto(c, "remove")
  /\ UNCHANGED <<database, kernel, history>>

\* Whatever file has the name by now.
RemoveFile(c) ==
  /\ At(c, "remove")
  /\ directory' = 0
  /\ deserted' = FALSE
  /\ connection' = [connection EXCEPT ![c] = Closed]
  /\ UNCHANGED <<files, version, kernel, raced, recounted, unset, overtaken>>

(***************************************************************************)
(* The semaphores and the ownership.                                       *)
(***************************************************************************)
\* The kernel creates all values as 0.
AttachSemaphores(c) ==
  /\ At(c, "attach")
  /\ connection' = [connection EXCEPT ![c].key = directory,
                      ![c].pc = IF semaphore[directory] = NoValues THEN "set" ELSE "own"]
  /\ semaphore' = IF semaphore[directory] = NoValues
                  THEN [semaphore EXCEPT ![directory] = [i \in Semaphores |-> 0]] ELSE semaphore
  /\ UNCHANGED <<database, undo, history>>

\* semctl sets one value at a time and clears the adjustments to it.
SetValue(c) ==
  LET i == connection[c].next
  IN  /\ At(c, "set")
      /\ semaphore' = [semaphore EXCEPT ![K(c)][i] = initialValues[i]]
      /\ undo' = [undo EXCEPT ![K(c)] = [p \in Process |-> [@[p] EXCEPT ![i] = 0]]]
      /\ connection' = IF i + 1 \in Semaphores THEN [connection EXCEPT ![c].next = i + 1]
                       ELSE [connection EXCEPT ![c].pc = "own", ![c].next = Ownership]
      /\ recounted' = IF i = Connections /\ semaphore[K(c)][i] > 0 THEN recounted \cup {K(c)} ELSE recounted
      /\ UNCHANGED <<database, deserted, raced, unset, overtaken>>

DecrementOwnership(c) ==
  /\ At(c, "own")
  /\ Decrement(c, Ownership)
  /\ Goto(c, "value")
  /\ UNCHANGED <<database, history>>

\* Only the first connection in the first process is the owner.
ReadConnections(c) ==
  /\ At(c, "value")
  /\ connection' = [connection EXCEPT ![c].pc = "count", ![c].owner = semaphore[K(c)][Connections] = 0]
  /\ UNCHANGED <<database, kernel, history>>

\* Mutant: whoever is not the owner upgrades, too.
UpgradesAlways(c) == ~connection[c].secondary

Upgrades(c) == connection[c].owner /\ ~connection[c].secondary

\* The connection is counted, and the ownership released.  That the file existed
\* and that the connection is secondary does not matter any more.
IncrementConnections(c) ==
  /\ At(c, "count")
  /\ semaphore' = [semaphore EXCEPT ![K(c)][Connections] = @ + 1, ![K(c)][Ownership] = @ + 1]
  /\ undo' = [undo EXCEPT ![K(c)][P(c)][Connections] = @ - 1, ![K(c)][P(c)][Ownership] = @ - 1]
  /\ connection' = [connection EXCEPT ![c].preexisting = FALSE, ![c].secondary = FALSE,
       ![c].pc = IF ~connection[c].preexisting THEN "transient" ELSE IF Upgrades(c) THEN "lock" ELSE "version"]
  /\ UNCHANGED <<database, history>>

(***************************************************************************)
(* The schema.                                                             *)
(***************************************************************************)
Lock(c) ==
  /\ At(c, "lock")
  /\ Decrement(c, WriteAccess)
  /\ Goto(c, "upgrade")
  /\ UNCHANGED <<database, history>>

\* All steps in one transaction; then the lock is released.  The first step fails
\* if there are no tables; a newer schema is left as it is.
UpgradeDatabase(c) ==
  /\ At(c, "upgrade")
  /\ version[F(c)] # 0
  /\ version' = [version EXCEPT ![F(c)] = IF @ < Schema(c) THEN Schema(c) ELSE @]
  /\ Increment(c, WriteAccess)
  /\ Goto(c, "transient")
  /\ UNCHANGED <<directory, files, history>>

\* Mutant: the lock is kept.
UpgradeFailsLocked(c) ==
  /\ At(c, "upgrade")
  /\ connection' = [connection EXCEPT ![c] = Closed]
  /\ UNCHANGED <<database, kernel, history>>

\* The integrity check, SQLite's lock, a step of the upgrade or its commit fails.
UpgradeFails(c) ==
  /\ At(c, "upgrade")
  /\ Increment(c, WriteAccess)
  /\ connection' = [connection EXCEPT ![c] = Closed]
  /\ UNCHANGED <<database, history>>

CheckVersion(c) ==
  /\ At(c, "version")
  /\ version[F(c)] = Schema(c)
  /\ Goto(c, "transient")
  /\ UNCHANGED <<database, kernel, history>>

\* An owner that has yet to upgrade the file f.
OwnerAtWork(f, c) ==
  F(c) = f /\ (At(c, "lock") \/ At(c, "upgrade") \/ (At(c, "count") /\ Upgrades(c)))

OpenTransientStore(c) ==
  /\ At(c, "transient")
  /\ Goto(c, "ready")
  /\ overtaken' = IF \E d \in Connection : OwnerAtWork(F(c), d) THEN overtaken \cup {c} ELSE overtaken
  /\ UNCHANGED <<database, kernel, deserted, raced, recounted, unset>>

\* Mutant: every failure removes the file.
OpenFailsAndRemoves(c) ==
  /\ connection[c].pc \in {"open", "version", "transient"} \/ (At(c, "attach") /\ connection[c].preexisting)
  /\ connection' = [connection EXCEPT ![c] = Closed]
  /\ directory' = 0
  /\ UNCHANGED <<files, version, kernel, history>>

\* SQLite does not open or configure the file, the version is another, or there
\* is no transient store.
OpenFails(c) ==
  /\ connection[c].pc \in {"open", "version", "transient"} \/ (At(c, "attach") /\ connection[c].preexisting)
  /\ connection' = [connection EXCEPT ![c] = Closed]
  /\ UNCHANGED <<database, kernel, history>>

\* The connection is closed; its process stays counted until it ends.
Close(c) ==
  /\ At(c, "ready")
  /\ connection' = [connection EXCEPT ![c] = Closed]
  /\ overtaken' = overtaken \ {c}
  /\ UNCHANGED <<database, kernel, deserted, raced, recounted, unset>>

\* A process ends, or dies, at any point.
Exit(p) ==
  LET ends == {c \in Connection : P(c) = p}
  IN  /\ \E k \in Key : undo[k][p] # [i \in Semaphores |-> 0]
         \/ \E c \in ends : ~At(c, "closed")
      /\ connection' = [c \in Connection |-> IF c \in ends THEN Closed ELSE connection[c]]
      /\ semaphore' = [k \in Key |-> [i \in Semaphores |->
                         IF semaphore[k] = NoValues THEN -1 ELSE Undone(semaphore[k][i], undo[k][p][i])]]
      /\ undo' = [k \in Key |-> [undo[k] EXCEPT ![p] = [i \in Semaphores |-> 0]]]
      /\ deserted' = (deserted \/ \E c \in ends : Preparing(c) /\ F(c) = directory /\ directory # 0)
      /\ unset' = unset \cup {K(c) : c \in {d \in ends : At(d, "set")}}
      /\ overtaken' = overtaken \ ends
      /\ UNCHANGED <<database, raced, recounted>>

Step(c) ==
  \/ OpenFile(c) \/ PrepareDatabase(c) \/ PreparationFails(c) \/ RemoveFile(c)
  \/ AttachSemaphores(c) \/ SetValue(c) \/ DecrementOwnership(c) \/ ReadConnections(c)
  \/ IncrementConnections(c) \/ Lock(c) \/ UpgradeDatabase(c) \/ UpgradeFails(c)
  \/ CheckVersion(c) \/ OpenTransientStore(c) \/ OpenFails(c)

Next ==
  \/ \E c \in Connection : (\E secondary \in BOOLEAN : FindFile(c, secondary)) \/ Step(c) \/ Close(c)
  \/ \E p \in Process : Exit(p)

Spec == Init /\ [][Next]_vars
-----------------------------------------------------------------------------
(***************************************************************************)
(* Properties                                                              *)
(***************************************************************************)
Ready(c) == At(c, "ready")

\* Between lock() and unlock() of open() there is one connection to the file that
\* the path names, whoever has created the semaphores and whoever has died.  Only
\* a file that was removed meanwhile can have two, one of which attached to the
\* semaphores before and one after; it has no tables, if nobody raced to create it.
UpgradeExcludes ==
  \A c, d \in Connection : At(c, "upgrade") /\ At(d, "upgrade") /\ c # d =>
    /\ K(c) # K(d)
    /\ F(c) = F(d) => F(c) # directory /\ (raced \/ version[F(c)] = 0)

\* A connection that is open has its tables, of its own release or of a newer
\* one, also when another process died while it created or upgraded them.
ReadyIsPrepared == \A c \in Connection : Ready(c) => version[F(c)] >= Schema(c)

\* "Only the first process to connect to the semaphore is the owner"
\* (contactsdatabase.cpp:3214): if its count is not lost, a file has one owner
\* until all have ended that ever had it open.
OneOwner ==
  \A c, d \in Connection :
    connection[c].owner /\ connection[d].owner /\ F(c) = F(d) /\ K(c) = K(d) /\ K(c) \notin recounted => c = d

\* "another process with an open database connection is preventing upgrade"
\* (contactsdatabase.cpp:3464): the schema does not change under an open connection,
\* except one that became ready when the owner was at work already, if
\* the count was lost, or if two were to create the file.
SchemaStable ==
  [][\A c \in Connection :
       Ready(c) /\ Ready(c)' /\ K(c) \notin recounted /\ version'[F(c)] # version[F(c)]
         => c \in overtaken \/ raced]_vars

\* The file of an open connection is the one that others will find, unless two
\* connections were to create it at once: one of them then fails and removes it.
ReadyIsFound == ~raced => \A c \in Connection : Ready(c) => F(c) = directory

\* Where there is a file without tables somebody is about to create them or to
\* remove it, unless its creator died or it was created by a connection that had
\* found the one before: from then on nobody can open it.
NotBricked ==
  directory # 0 /\ version[directory] = 0 =>
    deserted \/ \E c \in Connection : Preparing(c) /\ F(c) = directory

\* Where there is a file, it is the one of those who have it open, prepared or
\* about to be.
FilesSound == ReadyIsPrepared /\ ReadyIsFound /\ NotBricked

\* "We rely on undo semantics to release locked semaphores on process failure"
\* (contactsdatabase.cpp:3202): who waits in open() for a semaphore that is at zero
\* waits for a connection that is on its way to release it, however others
\* have failed, closed or died, except when the process died that was setting
\* the semaphores.
WaitersAreServed ==
  \A c \in Connection : K(c) \notin unset =>
    /\ At(c, "own") /\ semaphore[K(c)][Ownership] = 0 =>
         \E d \in Connection : K(d) = K(c) /\ connection[d].pc \in {"set", "value", "count"}
    /\ At(c, "lock") /\ semaphore[K(c)][WriteAccess] = 0 =>
         \E d \in Connection : K(d) = K(c) /\ connection[d].pc \in {"set", "upgrade"}

\* The semaphores do what they are for: one owner, one upgrade, nobody stuck.
OneUpgrades == OneOwner /\ UpgradeExcludes /\ WaitersAreServed
=============================================================================
