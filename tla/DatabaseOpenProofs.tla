-------------------------- MODULE DatabaseOpenProofs --------------------------
(***************************************************************************)
(* The opening of the database by any number of connections in any number  *)
(* of processes and releases, with any number of files.  FInv is about the *)
(* files: where the tables are, who creates them, and that who has the     *)
(* file of the directory has its semaphores.  OInv adds the semaphores:    *)
(* two are locks whose holder the kernel knows, the third is the sum of    *)
(* what the kernel would undo, so that a count of zero tells the owner     *)
(* that nobody else has come through.                                      *)
(***************************************************************************)
EXTENDS DatabaseOpen, FiniteSetTheorems, TLAPS

(***************************************************************************)
(* The inductive invariant, part by part.                                  *)
(***************************************************************************)
Opening(n) ==
  [pc : Locations, file : 0..n, key : 0..n, secondary : BOOLEAN, preexisting : BOOLEAN,
   owner : BOOLEAN, next : Semaphores]

Version == {0} \cup {schemaVersion[p] : p \in Process}

FileTypes ==
  /\ files \in 0..MaxFile /\ directory \in 0..files
  /\ version \in [File -> Version]

SemaphoreTypes ==
  /\ semaphore \in [Key -> Values] /\ undo \in [Key -> [Process -> Values]]
  /\ \A k \in Key : semaphore[k] # NoValues => \A i \in Semaphores : semaphore[k][i] >= 0

HistoryTypes ==
  /\ deserted \in BOOLEAN /\ raced \in BOOLEAN /\ recounted \subseteq Key /\ unset \subseteq Key
  /\ overtaken \subseteq Connection

LEMMA Types ==
  TypeOK <=> /\ FileTypes /\ SemaphoreTypes /\ HistoryTypes
             /\ connection \in [Connection -> Opening(files)]
BY DEF TypeOK, FileTypes, SemaphoreTypes, HistoryTypes, Opening, Version

\* It has attached to the semaphores of its key; its process is counted there.
HasKey(c) ==
  connection[c].pc \in {"set", "own", "value", "count", "lock", "upgrade", "version", "transient", "ready"}
Counted(c) == connection[c].pc \in {"lock", "upgrade", "version", "transient", "ready"}

\* It has a file where it needs one, and the semaphores of the file in the
\* directory if that is its file; what it has prepared or checked is of its
\* release or newer.
PlaceSound(c) ==
  /\ connection[c].pc \in {"closed", "open"} <=> F(c) = 0
  /\ connection[c].pc \in {"prepare", "remove"} => ~connection[c].preexisting
  /\ HasKey(c) => semaphore[K(c)] # NoValues
  /\ HasKey(c) /\ F(c) = directory => K(c) = directory
  /\ ~connection[c].preexisting /\ connection[c].pc \in {"attach", "set", "own", "value", "count"} =>
       version[F(c)] >= Schema(c)
  /\ connection[c].pc \in {"transient", "ready"} => version[F(c)] >= Schema(c)

Places == \A c \in Connection : PlaceSound(c)

LEMMA Constants ==
  /\ 0 \in Key /\ File \subseteq Key /\ MaxFile \in Nat
  /\ \A f \in 0..MaxFile : f \in Key /\ (f # 0 => f \in File)
  /\ \A v \in Version : v \in Nat
  /\ \A c \in Connection : P(c) \in Process /\ Schema(c) \in Version /\ Schema(c) \in Nat /\ Schema(c) > 0
  /\ initialValues \in Values /\ NoValues \in Values
  /\ NoValues[Ownership] = -1 /\ NoValues[Connections] = -1 /\ NoValues[WriteAccess] = -1
BY OpenAssumption DEF Key, File, Version, P, Schema, initialValues, NoValues, Values, Semaphores,
   Ownership, Connections, WriteAccess

(***************************************************************************)
(* What a step of a connection does to its own record.                     *)
(***************************************************************************)
OnlyConnection(c) ==
  /\ connection' \in [Connection -> Opening(files')]
  /\ \A d \in Connection \ {c} : connection'[d] = connection[d]

LEMMA ClosedOpening == ASSUME NEW n \in Nat PROVE Closed \in Opening(n)
BY DEF Closed, Opening, Locations, Semaphores, Ownership

\* The program counter moves and nothing else.
Moves(c, l) ==
  /\ connection'[c].pc = l
  /\ F(c)' = F(c) /\ K(c)' = K(c) /\ connection'[c].next = connection[c].next
  /\ connection'[c].preexisting = connection[c].preexisting
  /\ connection'[c].secondary = connection[c].secondary /\ connection'[c].owner = connection[c].owner

LEMMA Moved ==
  ASSUME connection \in [Connection -> Opening(files)], NEW c \in Connection, NEW l \in Locations,
         Goto(c, l), UNCHANGED files
  PROVE  OnlyConnection(c) /\ Moves(c, l)
BY DEF Opening, Goto, OnlyConnection, Moves, F, K

LEMMA Shut ==
  ASSUME connection \in [Connection -> Opening(files)], files \in Nat, NEW c \in Connection,
         connection' = [connection EXCEPT ![c] = Closed], UNCHANGED files
  PROVE  OnlyConnection(c) /\ connection'[c] = Closed
BY ClosedOpening DEF OnlyConnection

LEMMA FindFileEffect ==
  ASSUME TypeOK, NEW c \in Connection, NEW secondary \in BOOLEAN, FindFile(c, secondary)
  PROVE  /\ OnlyConnection(c)
         /\ connection'[c].pc = "open" /\ F(c)' = 0 /\ K(c)' = 0 /\ connection'[c].next = Ownership
         /\ ~connection'[c].owner /\ connection'[c].preexisting = (directory # 0)
<1> DEFINE x == [Closed EXCEPT !.pc = "open", !.secondary = secondary, !.preexisting = directory # 0]
<1>1. files \in Nat /\ connection \in [Connection -> Opening(files)]
  BY Types, Constants DEF FileTypes
<1>2. Closed \in Opening(files)
  BY <1>1, ClosedOpening
<1>3. x \in Opening(files)
  BY <1>2 DEF Opening, Locations
<1>4. /\ x.pc = "open" /\ x.file = 0 /\ x.key = 0 /\ x.next = Ownership /\ ~x.owner
      /\ x.preexisting = (directory # 0)
  BY DEF Closed
<1>5. connection' = [connection EXCEPT ![c] = x] /\ UNCHANGED files
  BY DEF FindFile, database
<1> HIDE DEF x
<1>6. connection'[c] = x /\ OnlyConnection(c)
  BY <1>1, <1>3, <1>5 DEF OnlyConnection
<1> QED BY <1>4, <1>6 DEF F, K

LEMMA OpenFileEffect ==
  ASSUME TypeOK, NEW c \in Connection, OpenFile(c)
  PROVE  /\ files' \in 0..MaxFile /\ directory' \in 1..files' /\ files <= files'
         /\ directory # 0 => UNCHANGED <<directory, files, deserted>>
         /\ directory = 0 => files' = files + 1 /\ directory' = files' /\ deserted' = connection[c].preexisting
         /\ OnlyConnection(c)
         /\ connection'[c].pc = IF connection[c].preexisting THEN "attach" ELSE "prepare"
         /\ F(c)' = directory' /\ K(c)' = K(c) /\ connection'[c].next = connection[c].next
         /\ connection'[c].owner = connection[c].owner /\ connection'[c].preexisting = connection[c].preexisting
<1>1. files \in 0..MaxFile /\ directory \in 0..files /\ connection \in [Connection -> Opening(files)]
  BY Types DEF FileTypes
<1>2. /\ files' \in 0..MaxFile /\ directory' \in 1..files' /\ files <= files'
      /\ directory # 0 => UNCHANGED <<directory, files, deserted>>
      /\ directory = 0 => files' = files + 1 /\ directory' = files' /\ deserted' = connection[c].preexisting
  BY <1>1, Constants DEF OpenFile
<1>3. \A n \in 0..files : n \in 0..files'
  BY <1>1, <1>2
<1>4. Opening(files) \subseteq Opening(files')
  BY <1>3 DEF Opening
<1>5. connection[c] \in Opening(files') /\ directory' \in 0..files'
  BY <1>1, <1>2, <1>4
<1> DEFINE l == IF connection[c].preexisting THEN "attach" ELSE "prepare"
           x == [connection[c] EXCEPT !.file = directory', !.pc = l]
<1>6. l \in Locations
  BY DEF Locations
<1>7. connection' = [connection EXCEPT ![c] = x]
  BY <1>1 DEF OpenFile
<1> HIDE DEF l
<1>8. /\ x \in Opening(files') /\ x.pc = l /\ x.file = directory' /\ x.key = connection[c].key
      /\ x.next = connection[c].next /\ x.owner = connection[c].owner /\ x.preexisting = connection[c].preexisting
  BY <1>5, <1>6 DEF Opening
<1> HIDE DEF x
<1>9. connection'[c] = x /\ OnlyConnection(c)
  BY <1>1, <1>4, <1>7, <1>8 DEF OnlyConnection
<1> QED BY <1>2, <1>8, <1>9 DEF F, K, l

LEMMA AttachEffect ==
  ASSUME TypeOK, NEW c \in Connection, AttachSemaphores(c)
  PROVE  /\ OnlyConnection(c)
         /\ connection'[c].pc = IF semaphore[directory] = NoValues THEN "set" ELSE "own"
         /\ K(c)' = directory /\ F(c)' = F(c) /\ connection'[c].next = connection[c].next
         /\ connection'[c].owner = connection[c].owner /\ connection'[c].preexisting = connection[c].preexisting
<1>1. files \in 0..MaxFile /\ directory \in 0..files /\ connection \in [Connection -> Opening(files)]
  BY Types DEF FileTypes
<1> DEFINE l == IF semaphore[directory] = NoValues THEN "set" ELSE "own"
           x == [connection[c] EXCEPT !.key = directory, !.pc = l]
<1>2. l \in Locations
  BY DEF Locations
<1>3. connection' = [connection EXCEPT ![c] = x] /\ UNCHANGED files
  BY <1>1 DEF AttachSemaphores, database
<1> HIDE DEF l
<1>4. /\ x \in Opening(files) /\ x.pc = l /\ x.file = connection[c].file /\ x.key = directory
      /\ x.next = connection[c].next /\ x.owner = connection[c].owner /\ x.preexisting = connection[c].preexisting
  BY <1>1, <1>2 DEF Opening
<1> HIDE DEF x
<1>5. connection'[c] = x /\ OnlyConnection(c)
  BY <1>1, <1>3, <1>4 DEF OnlyConnection
<1> QED BY <1>4, <1>5 DEF F, K, l

LEMMA SetEffect ==
  ASSUME TypeOK, NEW c \in Connection, SetValue(c)
  PROVE  /\ OnlyConnection(c)
         /\ connection[c].next \in Semaphores
         /\ IF connection[c].next = WriteAccess
            THEN connection'[c].pc = "own" /\ connection'[c].next = Ownership
            ELSE connection'[c].pc = "set" /\ connection'[c].next = connection[c].next + 1
         /\ K(c)' = K(c) /\ F(c)' = F(c)
         /\ connection'[c].owner = connection[c].owner /\ connection'[c].preexisting = connection[c].preexisting
<1>1. connection \in [Connection -> Opening(files)] /\ UNCHANGED files
  BY Types DEF SetValue, database
<1>2. connection[c].next \in Semaphores /\ connection[c] \in Opening(files)
  BY <1>1 DEF Opening
<1> DEFINE i == connection[c].next
<1>3. /\ i \in {Ownership, Connections} <=> i + 1 \in Semaphores
      /\ i = WriteAccess <=> i + 1 \notin Semaphores
  BY <1>2 DEF Semaphores, Ownership, Connections, WriteAccess
<1>4. CASE i # WriteAccess
  <2> DEFINE x == [connection[c] EXCEPT !.next = i + 1]
  <2>1. connection' = [connection EXCEPT ![c] = x]
    BY <1>1, <1>3, <1>4 DEF SetValue
  <2>2. /\ x \in Opening(files) /\ x.pc = connection[c].pc /\ x.file = connection[c].file
        /\ x.key = connection[c].key /\ x.next = i + 1 /\ x.owner = connection[c].owner
        /\ x.preexisting = connection[c].preexisting
    BY <1>2, <1>3, <1>4 DEF Opening
  <2> HIDE DEF x
  <2>3. connection'[c] = x /\ OnlyConnection(c)
    BY <1>1, <2>1, <2>2 DEF OnlyConnection
  <2> QED BY <1>2, <1>4, <2>2, <2>3 DEF F, K, SetValue, At
<1>5. CASE i = WriteAccess
  <2> DEFINE x == [connection[c] EXCEPT !.pc = "own", !.next = Ownership]
  <2>1. connection' = [connection EXCEPT ![c] = x]
    BY <1>1, <1>3, <1>5 DEF SetValue
  <2>2. /\ x \in Opening(files) /\ x.pc = "own" /\ x.file = connection[c].file
        /\ x.key = connection[c].key /\ x.next = Ownership /\ x.owner = connection[c].owner
        /\ x.preexisting = connection[c].preexisting
    BY <1>2 DEF Opening, Locations, Semaphores
  <2> HIDE DEF x
  <2>3. connection'[c] = x /\ OnlyConnection(c)
    BY <1>1, <2>1, <2>2 DEF OnlyConnection
  <2> QED BY <1>2, <1>5, <2>2, <2>3 DEF F, K
<1> QED BY <1>4, <1>5

LEMMA ReadEffect ==
  ASSUME TypeOK, NEW c \in Connection, ReadConnections(c)
  PROVE  /\ OnlyConnection(c)
         /\ connection'[c].pc = "count" /\ K(c)' = K(c) /\ F(c)' = F(c)
         /\ connection'[c].next = connection[c].next
         /\ connection'[c].owner = (semaphore[K(c)][Connections] = 0)
         /\ connection'[c].preexisting = connection[c].preexisting
<1>1. connection \in [Connection -> Opening(files)] /\ UNCHANGED files
  BY Types DEF ReadConnections, database
<1> DEFINE o == semaphore[K(c)][Connections] = 0
           x == [connection[c] EXCEPT !.pc = "count", !.owner = o]
<1>2. connection' = [connection EXCEPT ![c] = x] /\ connection[c] \in Opening(files)
  BY <1>1 DEF ReadConnections
<1>3. /\ x \in Opening(files) /\ x.pc = "count" /\ x.file = connection[c].file /\ x.key = connection[c].key
      /\ x.next = connection[c].next /\ x.preexisting = connection[c].preexisting
      /\ x.owner = o
  BY <1>2 DEF Opening, Locations
<1> HIDE DEF x, o
<1>4. connection'[c] = x /\ OnlyConnection(c)
  BY <1>1, <1>2, <1>3 DEF OnlyConnection
<1> QED BY <1>3, <1>4 DEF F, K, o

LEMMA CountEffect ==
  ASSUME TypeOK, NEW c \in Connection, IncrementConnections(c)
  PROVE  /\ OnlyConnection(c)
         /\ connection'[c].pc = IF ~connection[c].preexisting THEN "transient"
                                ELSE IF Upgrades(c) THEN "lock" ELSE "version"
         /\ K(c)' = K(c) /\ F(c)' = F(c) /\ connection'[c].next = connection[c].next
         /\ connection'[c].owner = connection[c].owner
<1>1. connection \in [Connection -> Opening(files)] /\ UNCHANGED files
  BY Types DEF IncrementConnections, database
<1> DEFINE l == IF ~connection[c].preexisting THEN "transient" ELSE IF Upgrades(c) THEN "lock" ELSE "version"
           x == [connection[c] EXCEPT !.preexisting = FALSE, !.secondary = FALSE, !.pc = l]
<1>2. l \in Locations
  BY DEF Locations
<1>3. connection' = [connection EXCEPT ![c] = x] /\ connection[c] \in Opening(files)
  BY <1>1 DEF IncrementConnections
<1> HIDE DEF l
<1>4. /\ x \in Opening(files) /\ x.pc = l /\ x.file = connection[c].file /\ x.key = connection[c].key
      /\ x.next = connection[c].next /\ x.owner = connection[c].owner
  BY <1>2, <1>3 DEF Opening
<1> HIDE DEF x
<1>5. connection'[c] = x /\ OnlyConnection(c)
  BY <1>1, <1>3, <1>4 DEF OnlyConnection
<1> QED BY <1>4, <1>5 DEF F, K, l

\* The others in a process that ends go nowhere.
LEMMA ExitEffect ==
  ASSUME TypeOK, NEW p \in Process, Exit(p)
  PROVE  /\ connection' \in [Connection -> Opening(files')]
         /\ \A c \in Connection : connection'[c] = IF P(c) = p THEN Closed ELSE connection[c]
<1>1. connection \in [Connection -> Opening(files)] /\ UNCHANGED files /\ files \in Nat
  BY Types, Constants DEF Exit, database, FileTypes
<1>2. Closed \in Opening(files)
  BY <1>1, ClosedOpening
<1> QED BY <1>1, <1>2 DEF Exit

(***************************************************************************)
(* What a step does to the semaphores.                                     *)
(***************************************************************************)
Becomes(k, i, value) ==
  \A l \in Key, j \in Semaphores : semaphore'[l][j] = IF l = k /\ j = i THEN value ELSE semaphore[l][j]
UndoBecomes(k, p, i, value) ==
  \A l \in Key, q \in Process, j \in Semaphores :
    undo'[l][q][j] = IF l = k /\ q = p /\ j = i THEN value ELSE undo[l][q][j]

\* Semaphores that there are stay.
SemaphoresStay == \A k \in Key : semaphore[k] # NoValues => semaphore'[k] # NoValues

LEMMA NoneOrAll ==
  ASSUME SemaphoreTypes, NEW k \in Key
  PROVE  /\ semaphore[k] \in Values
         /\ \A i \in Semaphores : semaphore[k][i] \in Int /\ semaphore[k][i] >= -1
         /\ \A i \in Semaphores : (semaphore[k] = NoValues <=> semaphore[k][i] = -1)
         /\ \A i \in Semaphores : (semaphore[k] # NoValues <=> semaphore[k][i] >= 0)
BY DEF SemaphoreTypes, Values, NoValues

LEMMA Decremented ==
  ASSUME SemaphoreTypes, NEW c \in Connection, NEW i \in Semaphores, K(c) \in Key, Decrement(c, i)
  PROVE  /\ SemaphoreTypes' /\ SemaphoresStay
         /\ semaphore[K(c)][i] > 0
         /\ Becomes(K(c), i, semaphore[K(c)][i] - 1)
         /\ UndoBecomes(K(c), P(c), i, undo[K(c)][P(c)][i] + 1)
<1>1. P(c) \in Process
  BY Constants
<1>2. semaphore' \in [Key -> Values] /\ undo' \in [Key -> [Process -> Values]]
  BY <1>1 DEF SemaphoreTypes, Values, Decrement
<1>3. Becomes(K(c), i, semaphore[K(c)][i] - 1)
  BY DEF SemaphoreTypes, Values, Decrement, Becomes
<1>4. UndoBecomes(K(c), P(c), i, undo[K(c)][P(c)][i] + 1)
  BY <1>1 DEF SemaphoreTypes, Values, Decrement, UndoBecomes
<1>5. semaphore[K(c)][i] > 0
  BY DEF Decrement
<1>6. \A k \in Key, j \in Semaphores : semaphore[k] # NoValues => semaphore'[k][j] >= 0
  BY <1>3, <1>5, NoneOrAll DEF Becomes
<1>7. SemaphoresStay /\ \A k \in Key : semaphore[k] = NoValues => k # K(c)
  BY <1>5, <1>6, NoneOrAll DEF SemaphoresStay, NoValues, Semaphores
<1>8. \A k \in Key : semaphore[k] = NoValues => semaphore'[k] = semaphore[k]
  BY <1>7 DEF Decrement, SemaphoreTypes
<1> QED BY <1>2, <1>3, <1>4, <1>5, <1>6, <1>7, <1>8 DEF SemaphoreTypes

LEMMA Incremented ==
  ASSUME SemaphoreTypes, NEW c \in Connection, NEW i \in Semaphores, K(c) \in Key,
         semaphore[K(c)] # NoValues, Increment(c, i)
  PROVE  /\ SemaphoreTypes' /\ SemaphoresStay
         /\ Becomes(K(c), i, semaphore[K(c)][i] + 1)
         /\ UndoBecomes(K(c), P(c), i, undo[K(c)][P(c)][i] - 1)
<1>1. P(c) \in Process
  BY Constants
<1>2. semaphore' \in [Key -> Values] /\ undo' \in [Key -> [Process -> Values]]
  BY <1>1 DEF SemaphoreTypes, Values, Increment
<1>3. Becomes(K(c), i, semaphore[K(c)][i] + 1)
  BY DEF SemaphoreTypes, Values, Increment, Becomes
<1>4. UndoBecomes(K(c), P(c), i, undo[K(c)][P(c)][i] - 1)
  BY <1>1 DEF SemaphoreTypes, Values, Increment, UndoBecomes
<1>5. \A k \in Key, j \in Semaphores : semaphore[k] # NoValues => semaphore'[k][j] >= 0
  BY <1>3, NoneOrAll DEF Becomes
<1>6. SemaphoresStay
  BY <1>5 DEF SemaphoresStay, NoValues, Semaphores
<1>7. \A k \in Key : semaphore[k] = NoValues => semaphore'[k] = semaphore[k]
  BY DEF Increment, SemaphoreTypes
<1> QED BY <1>2, <1>3, <1>4, <1>5, <1>6, <1>7 DEF SemaphoreTypes

\* IncrementConnections adds to two values at once.
LEMMA CountIncremented ==
  ASSUME SemaphoreTypes, NEW c \in Connection, K(c) \in Key, semaphore[K(c)] # NoValues, IncrementConnections(c)
  PROVE  /\ SemaphoreTypes' /\ SemaphoresStay
         /\ \A k \in Key, i \in Semaphores :
              semaphore'[k][i] = IF k = K(c) /\ i # WriteAccess THEN semaphore[k][i] + 1 ELSE semaphore[k][i]
         /\ \A k \in Key, p \in Process, i \in Semaphores :
              undo'[k][p][i] = IF k = K(c) /\ p = P(c) /\ i # WriteAccess THEN undo[k][p][i] - 1 ELSE undo[k][p][i]
<1>1. P(c) \in Process
  BY Constants
<1>2. Connections # Ownership /\ Connections # WriteAccess /\ Ownership # WriteAccess
      /\ Semaphores = {Ownership, Connections, WriteAccess}
  BY DEF Semaphores, Ownership, Connections, WriteAccess
<1>3. semaphore \in [Key -> Values] /\ undo \in [Key -> [Process -> Values]]
  BY DEF SemaphoreTypes
<1>4. /\ semaphore' \in [Key -> Values]
      /\ \A k \in Key, i \in Semaphores :
           semaphore'[k][i] = IF k = K(c) /\ i # WriteAccess THEN semaphore[k][i] + 1 ELSE semaphore[k][i]
      /\ \A k \in Key : k # K(c) => semaphore'[k] = semaphore[k]
  BY <1>2, <1>3 DEF Values, IncrementConnections
<1>5. /\ undo' \in [Key -> [Process -> Values]]
      /\ \A k \in Key, p \in Process, i \in Semaphores :
           undo'[k][p][i] = IF k = K(c) /\ p = P(c) /\ i # WriteAccess THEN undo[k][p][i] - 1 ELSE undo[k][p][i]
  BY <1>1, <1>2, <1>3 DEF Values, IncrementConnections
<1>6. \A k \in Key, j \in Semaphores : semaphore[k] # NoValues => semaphore'[k][j] >= 0
  BY <1>4, NoneOrAll
<1>7. SemaphoresStay
  BY <1>6 DEF SemaphoresStay, NoValues, Semaphores
<1>8. \A k \in Key : semaphore[k] = NoValues => semaphore'[k] = semaphore[k]
  BY <1>4
<1> QED BY <1>4, <1>5, <1>6, <1>7, <1>8 DEF SemaphoreTypes

LEMMA ValueSet ==
  ASSUME SemaphoreTypes, NEW c \in Connection, K(c) \in Key, connection[c].next \in Semaphores,
         semaphore[K(c)] # NoValues, SetValue(c)
  PROVE  /\ SemaphoreTypes' /\ SemaphoresStay
         /\ Becomes(K(c), connection[c].next, initialValues[connection[c].next])
         /\ \A k \in Key, p \in Process, i \in Semaphores :
              undo'[k][p][i] = IF k = K(c) /\ i = connection[c].next THEN 0 ELSE undo[k][p][i]
<1> DEFINE i == connection[c].next
<1>1. semaphore \in [Key -> Values] /\ undo \in [Key -> [Process -> Values]]
  BY DEF SemaphoreTypes
<1>2. initialValues[i] \in Int /\ initialValues[i] >= 0
  BY DEF initialValues
<1>3. /\ semaphore' = [semaphore EXCEPT ![K(c)][i] = initialValues[i]]
      /\ undo' = [undo EXCEPT ![K(c)] = [p \in Process |-> [@[p] EXCEPT ![i] = 0]]]
  BY DEF SetValue
<1> HIDE DEF i
<1>4. i \in Semaphores
  BY DEF i
<1>5. semaphore' \in [Key -> Values] /\ Becomes(K(c), i, initialValues[i])
  BY <1>1, <1>2, <1>3, <1>4 DEF Becomes, Values
<1>6. undo' \in [Key -> [Process -> Values]]
  BY <1>1, <1>3, <1>4 DEF Values
<1>7. \A k \in Key, p \in Process, j \in Semaphores :
        undo'[k][p][j] = IF k = K(c) /\ j = i THEN 0 ELSE undo[k][p][j]
  BY <1>1, <1>3, <1>4 DEF Values
<1>8. \A k \in Key, j \in Semaphores : semaphore[k] # NoValues => semaphore'[k][j] >= 0
  BY <1>2, <1>5, NoneOrAll DEF Becomes
<1>9. SemaphoresStay
  BY <1>8 DEF SemaphoresStay, NoValues, Semaphores
<1>10. \A k \in Key : semaphore[k] = NoValues => semaphore'[k] = semaphore[k]
  BY <1>1, <1>3
<1> QED BY <1>5, <1>6, <1>7, <1>8, <1>9, <1>10 DEF SemaphoreTypes, i

\* The first at the semaphores of a file creates them.
LEMMA SemaphoresCreated ==
  ASSUME SemaphoreTypes, directory \in Key, NEW c \in Connection, AttachSemaphores(c)
  PROVE  /\ SemaphoreTypes' /\ SemaphoresStay /\ UNCHANGED undo
         /\ semaphore'[directory] # NoValues
         /\ semaphore[directory] # NoValues => UNCHANGED semaphore
         /\ semaphore[directory] = NoValues =>
              \A k \in Key, i \in Semaphores : semaphore'[k][i] = IF k = directory THEN 0 ELSE semaphore[k][i]
<1> DEFINE zero == [i \in Semaphores |-> 0]
<1>1. zero \in Values /\ zero # NoValues /\ \A i \in Semaphores : zero[i] = 0
  BY DEF Values, NoValues, Semaphores
<1>2. /\ semaphore[directory] = NoValues => semaphore' = [semaphore EXCEPT ![directory] = zero]
      /\ semaphore[directory] # NoValues => semaphore' = semaphore
      /\ undo' = undo
  BY DEF AttachSemaphores
<1> HIDE DEF zero
<1>3. CASE semaphore[directory] # NoValues
  BY <1>2, <1>3 DEF SemaphoreTypes, SemaphoresStay
<1>4. CASE semaphore[directory] = NoValues
  <2>1. semaphore' \in [Key -> Values] /\ semaphore'[directory] = zero
        /\ \A k \in Key : k # directory => semaphore'[k] = semaphore[k]
    BY <1>1, <1>2, <1>4 DEF SemaphoreTypes
  <2>2. SemaphoresStay
    BY <1>1, <2>1 DEF SemaphoresStay
  <2>3. SemaphoreTypes'
    BY <1>1, <1>2, <2>1 DEF SemaphoreTypes
  <2> QED BY <1>1, <1>2, <1>4, <2>1, <2>2, <2>3
<1> QED BY <1>3, <1>4

\* The kernel undoes what the process did.
LEMMA ProcessUndone ==
  ASSUME SemaphoreTypes, NEW p \in Process, Exit(p)
  PROVE  /\ SemaphoreTypes' /\ SemaphoresStay
         /\ \A k \in Key, i \in Semaphores : semaphore[k] # NoValues =>
              semaphore'[k][i] = Undone(semaphore[k][i], undo[k][p][i])
         /\ \A k \in Key : semaphore[k] = NoValues => semaphore'[k] = NoValues
         /\ \A k \in Key, q \in Process, i \in Semaphores :
              undo'[k][q][i] = IF q = p THEN 0 ELSE undo[k][q][i]
<1> DEFINE value(k, i) == IF semaphore[k] = NoValues THEN -1 ELSE Undone(semaphore[k][i], undo[k][p][i])
<1>1. semaphore' = [k \in Key |-> [i \in Semaphores |-> value(k, i)]]
  BY DEF Exit
<1>2. \A k \in Key, i \in Semaphores :
        /\ value(k, i) \in Int
        /\ semaphore[k] # NoValues => value(k, i) >= 0 /\ value(k, i) = Undone(semaphore[k][i], undo[k][p][i])
        /\ semaphore[k] = NoValues => value(k, i) = -1
  BY DEF SemaphoreTypes, Values, Undone
<1> HIDE DEF value
<1>3. semaphore' \in [Key -> Values] /\ \A k \in Key, i \in Semaphores : semaphore'[k][i] = value(k, i)
  BY <1>1, <1>2 DEF Values
<1>4. \A k \in Key : semaphore[k] = NoValues => semaphore'[k] = NoValues
  BY <1>1, <1>2 DEF NoValues
<1>5. SemaphoresStay
  BY <1>2, <1>3 DEF SemaphoresStay, NoValues, Semaphores
<1>6. /\ undo' \in [Key -> [Process -> Values]]
      /\ \A k \in Key, q \in Process, i \in Semaphores :
           undo'[k][q][i] = IF q = p THEN 0 ELSE undo[k][q][i]
  <2> DEFINE zero == [i \in Semaphores |-> 0]
  <2>1. zero \in Values /\ \A i \in Semaphores : zero[i] = 0
    BY DEF Values
  <2>2. undo' = [k \in Key |-> [undo[k] EXCEPT ![p] = zero]]
    BY DEF Exit
  <2> HIDE DEF zero
  <2> QED BY <2>1, <2>2 DEF SemaphoreTypes
<1> QED BY <1>2, <1>3, <1>4, <1>5, <1>6 DEF SemaphoreTypes

(***************************************************************************)
(* Type correctness, and where the connections are.                        *)
(***************************************************************************)
LEMMA ConnectionTypes ==
  ASSUME TypeOK, NEW c \in Connection
  PROVE  /\ connection[c] \in Opening(files) /\ connection[c].pc \in Locations
         /\ F(c) \in 0..files /\ F(c) \in Key /\ K(c) \in 0..files /\ K(c) \in Key
         /\ F(c) # 0 => F(c) \in File
         /\ directory \in Key /\ connection[c].next \in Semaphores /\ connection[c].preexisting \in BOOLEAN
<1>1. files \in 0..MaxFile /\ directory \in 0..files /\ connection \in [Connection -> Opening(files)]
  BY Types DEF FileTypes
<1>2. \A n \in 0..files : n \in 0..MaxFile
  BY <1>1, Constants
<1>3. connection[c] \in Opening(files)
  BY <1>1
<1>4. /\ connection[c].pc \in Locations /\ F(c) \in 0..files /\ K(c) \in 0..files
      /\ connection[c].next \in Semaphores /\ connection[c].preexisting \in BOOLEAN
  BY <1>3 DEF Opening, F, K
<1> QED BY <1>1, <1>2, <1>3, <1>4, Constants

VersionsGrow == \A f \in File : version'[f] >= version[f]

\* What every step keeps.
StepTypes ==
  /\ FileTypes' /\ SemaphoreTypes' /\ HistoryTypes' /\ connection' \in [Connection -> Opening(files')]
  /\ SemaphoresStay /\ VersionsGrow /\ files <= files'

LEMMA DatabaseUnchanged ==
  ASSUME TypeOK, UNCHANGED database
  PROVE  FileTypes' /\ VersionsGrow /\ files <= files'
<1>1. UNCHANGED <<directory, files, version>> /\ FileTypes
  BY Types DEF database
<1>2. files \in Nat /\ \A f \in File : version[f] \in Nat
  BY <1>1, Constants DEF FileTypes
<1> QED BY <1>1, <1>2 DEF FileTypes, VersionsGrow

LEMMA KernelUnchanged ==
  ASSUME TypeOK, UNCHANGED kernel
  PROVE  SemaphoreTypes' /\ SemaphoresStay
BY Types DEF kernel, SemaphoreTypes, SemaphoresStay

LEMMA VersionSet ==
  ASSUME TypeOK, NEW c \in Connection, F(c) \in File, NEW v \in Version, v >= version[F(c)],
         version' = [version EXCEPT ![F(c)] = v], UNCHANGED <<directory, files>>
  PROVE  /\ FileTypes' /\ VersionsGrow /\ files <= files'
         /\ \A f \in File : version'[f] = IF f = F(c) THEN v ELSE version[f]
<1>1. FileTypes /\ files \in Nat /\ \A f \in File : version[f] \in Nat
  BY Types, Constants DEF FileTypes
<1>2. version' \in [File -> Version] /\ \A f \in File : version'[f] = IF f = F(c) THEN v ELSE version[f]
  BY <1>1 DEF FileTypes
<1> QED BY <1>1, <1>2 DEF FileTypes, VersionsGrow

LEMMA PrepareVersion ==
  ASSUME TypeOK, Places, NEW c \in Connection, PrepareDatabase(c)
  PROVE  /\ F(c) \in File /\ version[F(c)] = 0 /\ UNCHANGED <<directory, files>>
         /\ FileTypes' /\ VersionsGrow /\ files <= files'
         /\ \A f \in File : version'[f] = IF f = F(c) THEN Schema(c) ELSE version[f]
<1>1. F(c) \in File
  BY ConnectionTypes DEF Places, PlaceSound, PrepareDatabase, At
<1>2. Schema(c) \in Version /\ Schema(c) >= version[F(c)]
  BY Constants DEF PrepareDatabase
<1> QED BY <1>1, <1>2, VersionSet DEF PrepareDatabase

LEMMA UpgradeVersion ==
  ASSUME TypeOK, Places, NEW c \in Connection, UpgradeDatabase(c)
  PROVE  /\ F(c) \in File /\ version[F(c)] # 0 /\ UNCHANGED <<directory, files>>
         /\ FileTypes' /\ VersionsGrow /\ files <= files' /\ version'[F(c)] >= Schema(c)
         /\ \A f \in File : f # F(c) => version'[f] = version[f]
<1>1. F(c) \in File
  BY ConnectionTypes DEF Places, PlaceSound, UpgradeDatabase, At
<1> DEFINE v == IF version[F(c)] < Schema(c) THEN Schema(c) ELSE version[F(c)]
<1>2. version[F(c)] \in Version /\ version[F(c)] \in Nat
  BY <1>1, Types, Constants DEF FileTypes
<1>3. v \in Version /\ v >= version[F(c)] /\ v >= Schema(c)
  BY <1>2, Constants
<1>4. version' = [version EXCEPT ![F(c)] = v] /\ UNCHANGED <<directory, files>> /\ version[F(c)] # 0
  BY DEF UpgradeDatabase
<1> HIDE DEF v
<1> QED BY <1>1, <1>3, <1>4, VersionSet

LEMMA FindFileTypes ==
  ASSUME TypeOK, NEW c \in Connection, NEW secondary \in BOOLEAN, FindFile(c, secondary)
  PROVE  StepTypes
<1>1. UNCHANGED <<deserted, recounted, unset, overtaken>> /\ UNCHANGED database /\ UNCHANGED kernel
  BY DEF FindFile
<1>2. raced' \in BOOLEAN
  BY DEF FindFile
<1>3. HistoryTypes'
  BY <1>1, <1>2, Types DEF HistoryTypes
<1> QED BY <1>1, <1>3, DatabaseUnchanged, KernelUnchanged, FindFileEffect DEF StepTypes, OnlyConnection

LEMMA OpenFileTypes ==
  ASSUME TypeOK, NEW c \in Connection, OpenFile(c)
  PROVE  StepTypes
<1>1. UNCHANGED <<raced, recounted, unset, overtaken>> /\ UNCHANGED version /\ UNCHANGED kernel
  BY DEF OpenFile
<1>2. deserted' \in BOOLEAN
  BY OpenFileEffect, ConnectionTypes, Types DEF HistoryTypes
<1>3. HistoryTypes'
  BY <1>1, <1>2, Types DEF HistoryTypes
<1>4. FileTypes' /\ VersionsGrow /\ files <= files'
  <2>1. FileTypes /\ \A f \in File : version[f] \in Nat
    BY Types, Constants DEF FileTypes
  <2>2. directory' \in 0..files' /\ files' \in 0..MaxFile /\ files <= files'
    BY OpenFileEffect
  <2> QED BY <1>1, <2>1, <2>2 DEF FileTypes, VersionsGrow
<1> QED BY <1>1, <1>3, <1>4, KernelUnchanged, OpenFileEffect DEF StepTypes, OnlyConnection

LEMMA NextTypes ==
  ASSUME TypeOK, Places, Next
  PROVE  StepTypes
<1>1. ASSUME NEW c \in Connection, NEW secondary \in BOOLEAN, FindFile(c, secondary) PROVE StepTypes
  BY <1>1, FindFileTypes
<1>2. ASSUME NEW c \in Connection, OpenFile(c) PROVE StepTypes
  BY <1>2, OpenFileTypes
<1> USE Types DEF StepTypes
<1>3. ASSUME NEW c \in Connection, PrepareDatabase(c) PROVE StepTypes
  BY <1>3, PrepareVersion, KernelUnchanged, Moved
     DEF PrepareDatabase, history, HistoryTypes, Locations, OnlyConnection
<1>4. ASSUME NEW c \in Connection, PreparationFails(c) PROVE StepTypes
  BY <1>4, DatabaseUnchanged, KernelUnchanged, Moved
     DEF PreparationFails, history, HistoryTypes, Locations, OnlyConnection, database
<1>5. ASSUME NEW c \in Connection, RemoveFile(c) PROVE StepTypes
  <2>1. FileTypes /\ files \in Nat /\ \A f \in File : version[f] \in Nat
    BY Constants DEF FileTypes
  <2>2. FileTypes' /\ VersionsGrow /\ files <= files'
    BY <1>5, <2>1 DEF RemoveFile, FileTypes, VersionsGrow
  <2> QED BY <1>5, <2>1, <2>2, KernelUnchanged, Shut DEF RemoveFile, HistoryTypes, OnlyConnection
<1>6. ASSUME NEW c \in Connection, AttachSemaphores(c) PROVE StepTypes
  BY <1>6, DatabaseUnchanged, SemaphoresCreated, AttachEffect, ConnectionTypes
     DEF AttachSemaphores, history, HistoryTypes, OnlyConnection
<1>7. ASSUME NEW c \in Connection, SetValue(c) PROVE StepTypes
  <2>1. K(c) \in Key /\ connection[c].next \in Semaphores /\ semaphore[K(c)] # NoValues
    BY <1>7, ConnectionTypes DEF Places, PlaceSound, HasKey, SetValue, At
  <2>2. HistoryTypes'
    BY <1>7, <2>1 DEF SetValue, HistoryTypes
  <2>3. UNCHANGED database
    BY <1>7 DEF SetValue
  <2> QED BY <1>7, <2>1, <2>2, <2>3, DatabaseUnchanged, ValueSet, SetEffect DEF OnlyConnection
<1>8. ASSUME NEW c \in Connection, DecrementOwnership(c) PROVE StepTypes
  BY <1>8, DatabaseUnchanged, Decremented, Moved, ConnectionTypes
     DEF DecrementOwnership, history, HistoryTypes, Locations, OnlyConnection, database, Semaphores
<1>9. ASSUME NEW c \in Connection, ReadConnections(c) PROVE StepTypes
  BY <1>9, DatabaseUnchanged, KernelUnchanged, ReadEffect DEF ReadConnections, history, HistoryTypes, OnlyConnection
<1>10. ASSUME NEW c \in Connection, IncrementConnections(c) PROVE StepTypes
  <2>1. K(c) \in Key /\ semaphore[K(c)] # NoValues
    BY <1>10, ConnectionTypes DEF Places, PlaceSound, HasKey, IncrementConnections, At
  <2> QED BY <1>10, <2>1, DatabaseUnchanged, CountIncremented, CountEffect
          DEF IncrementConnections, history, HistoryTypes, OnlyConnection
<1>11. ASSUME NEW c \in Connection, Lock(c) PROVE StepTypes
  BY <1>11, DatabaseUnchanged, Decremented, Moved, ConnectionTypes
     DEF Lock, history, HistoryTypes, Locations, OnlyConnection, database, Semaphores
<1>12. ASSUME NEW c \in Connection, UpgradeDatabase(c) PROVE StepTypes
  <2>1. K(c) \in Key /\ semaphore[K(c)] # NoValues
    BY <1>12, ConnectionTypes DEF Places, PlaceSound, HasKey, UpgradeDatabase, At
  <2> QED BY <1>12, <2>1, UpgradeVersion, Incremented, Moved
          DEF UpgradeDatabase, history, HistoryTypes, Locations, OnlyConnection, Semaphores
<1>13. ASSUME NEW c \in Connection, UpgradeFails(c) PROVE StepTypes
  <2>1. K(c) \in Key /\ semaphore[K(c)] # NoValues /\ files \in Nat
    BY <1>13, ConnectionTypes, Constants DEF Places, PlaceSound, HasKey, UpgradeFails, At, FileTypes
  <2> QED BY <1>13, <2>1, DatabaseUnchanged, Incremented, Shut
          DEF UpgradeFails, history, HistoryTypes, OnlyConnection, Semaphores, database
<1>14. ASSUME NEW c \in Connection, CheckVersion(c) PROVE StepTypes
  BY <1>14, DatabaseUnchanged, KernelUnchanged, Moved
     DEF CheckVersion, history, HistoryTypes, Locations, OnlyConnection, database
<1>15. ASSUME NEW c \in Connection, OpenTransientStore(c) PROVE StepTypes
  BY <1>15, DatabaseUnchanged, KernelUnchanged, Moved
     DEF OpenTransientStore, HistoryTypes, Locations, OnlyConnection, database
<1>16. ASSUME NEW c \in Connection, OpenFails(c) PROVE StepTypes
  <2>1. files \in Nat
    BY Constants DEF FileTypes
  <2> QED BY <1>16, <2>1, DatabaseUnchanged, KernelUnchanged, Shut
          DEF OpenFails, history, HistoryTypes, OnlyConnection, database
<1>17. ASSUME NEW c \in Connection, Close(c) PROVE StepTypes
  <2>1. files \in Nat
    BY Constants DEF FileTypes
  <2> QED BY <1>17, <2>1, DatabaseUnchanged, KernelUnchanged, Shut
          DEF Close, HistoryTypes, OnlyConnection, database
<1>18. ASSUME NEW p \in Process, Exit(p) PROVE StepTypes
  <2>1. deserted' \in BOOLEAN
    BY <1>18 DEF Exit
  <2>2. unset' \subseteq Key
    BY <1>18, ConnectionTypes DEF Exit, HistoryTypes
  <2>3. overtaken' \subseteq Connection /\ UNCHANGED <<raced, recounted>> /\ UNCHANGED database
    BY <1>18 DEF Exit, HistoryTypes
  <2>4. HistoryTypes'
    BY <2>1, <2>2, <2>3 DEF HistoryTypes
  <2> QED BY <1>18, <2>3, <2>4, DatabaseUnchanged, ProcessUndone, ExitEffect
<1> QED
  BY <1>1, <1>2, <1>3, <1>4, <1>5, <1>6, <1>7, <1>8, <1>9, <1>10, <1>11, <1>12, <1>13, <1>14, <1>15, <1>16,
     <1>17, <1>18 DEF Next, Step

LEMMA OthersPlace ==
  ASSUME TypeOK, StepTypes, NEW d \in Connection, PlaceSound(d), connection'[d] = connection[d],
         directory' \in {directory, 0, files + 1}
  PROVE  PlaceSound(d)'
<1>1. K(d) \in Key /\ F(d) \in 0..files /\ (F(d) # 0 => F(d) \in File) /\ Schema(d) \in Nat
  BY ConnectionTypes, Constants
<1>2. F(d)' = F(d) /\ K(d)' = K(d) /\ (HasKey(d)' <=> HasKey(d))
  BY DEF F, K, HasKey
<1>3. semaphore[K(d)] # NoValues => semaphore'[K(d)] # NoValues
  BY <1>1 DEF StepTypes, SemaphoresStay
<1>4. files \in Nat /\ F(d) # files + 1
  BY <1>1, Types, Constants DEF FileTypes
<1>5. F(d) # 0 /\ F(d) = directory' => F(d) = directory /\ directory' = directory
  BY <1>4
<1>6. HasKey(d) => F(d) # 0
  BY DEF PlaceSound, HasKey
<1>7. F(d) # 0 /\ version[F(d)] >= Schema(d) => version'[F(d)] >= Schema(d)
  <2>1. F(d) # 0 => version[F(d)] \in Nat /\ version'[F(d)] \in Nat /\ version'[F(d)] >= version[F(d)]
    BY <1>1, Types, Constants DEF StepTypes, VersionsGrow, FileTypes
  <2> QED BY <1>1, <2>1
<1>8. Schema(d)' = Schema(d)
  BY DEF Schema, P
<1> QED BY <1>2, <1>3, <1>5, <1>6, <1>7, <1>8 DEF PlaceSound

\* A closed connection is nowhere.
LEMMA ClosedPlace ==
  ASSUME NEW c \in Connection, connection[c] = Closed
  PROVE  PlaceSound(c) /\ connection[c].pc = "closed" /\ ~connection[c].owner /\ connection[c].next = Ownership
         /\ ~HasKey(c) /\ F(c) = 0
BY DEF PlaceSound, HasKey, F, Closed

LEMMA OthersPlaces ==
  ASSUME TypeOK, Places, StepTypes, NEW c \in Connection, OnlyConnection(c), PlaceSound(c)',
         directory' \in {directory, 0, files + 1}
  PROVE  Places'
BY OthersPlace DEF Places, OnlyConnection

LEMMA NextPlaces ==
  ASSUME TypeOK, Places, Next
  PROVE  Places'
<1>1. StepTypes
  BY NextTypes
<1>2. files \in Nat /\ connection \in [Connection -> Opening(files)]
  BY Types, Constants DEF FileTypes
<1>3. ASSUME NEW c \in Connection, NEW secondary \in BOOLEAN, FindFile(c, secondary) PROVE Places'
  <2>1. PlaceSound(c)'
    BY <1>3, FindFileEffect DEF PlaceSound, HasKey
  <2> QED BY <1>1, <1>3, <2>1, OthersPlaces, FindFileEffect DEF FindFile, database
<1>4. ASSUME NEW c \in Connection, OpenFile(c) PROVE Places'
  <2>1. directory' \in 1..files' /\ directory' # 0 /\ directory' \in {directory, files + 1}
    BY <1>2, <1>4, OpenFileEffect
  <2>2. PlaceSound(c)'
    BY <1>4, <2>1, OpenFileEffect DEF PlaceSound, HasKey
  <2> QED BY <1>1, <1>4, <2>1, <2>2, OthersPlaces, OpenFileEffect
<1>5. ASSUME NEW c \in Connection, PrepareDatabase(c) PROVE Places'
  <2>1. At(c, "prepare") /\ PlaceSound(c) /\ OnlyConnection(c) /\ Moves(c, "attach")
    BY <1>2, <1>5, Moved DEF PrepareDatabase, Locations, Places
  <2>2. F(c) \in File /\ version'[F(c)] = Schema(c) /\ UNCHANGED directory
    BY <1>5, PrepareVersion
  <2>3. PlaceSound(c)'
    BY <2>1, <2>2, Constants DEF PlaceSound, HasKey, Moves, At, Schema, P
  <2> QED BY <1>1, <2>1, <2>2, <2>3, OthersPlaces
<1>6. ASSUME NEW c \in Connection, PreparationFails(c) PROVE Places'
  <2>1. At(c, "prepare") /\ PlaceSound(c) /\ OnlyConnection(c) /\ Moves(c, "remove") /\ UNCHANGED directory
    BY <1>2, <1>6, Moved DEF PreparationFails, Locations, Places, database
  <2>2. PlaceSound(c)'
    BY <2>1 DEF PlaceSound, HasKey, Moves, At
  <2> QED BY <1>1, <2>1, <2>2, OthersPlaces
<1>7. ASSUME NEW c \in Connection, RemoveFile(c) PROVE Places'
  <2>1. OnlyConnection(c) /\ connection'[c] = Closed /\ directory' = 0
    BY <1>2, <1>7, Shut DEF RemoveFile
  <2>2. PlaceSound(c)'
    BY <2>1 DEF PlaceSound, HasKey, F, Closed
  <2> QED BY <1>1, <2>1, <2>2, OthersPlaces
<1>8. ASSUME NEW c \in Connection, AttachSemaphores(c) PROVE Places'
  <2>1. At(c, "attach") /\ PlaceSound(c) /\ UNCHANGED <<directory, version>>
    BY <1>8 DEF AttachSemaphores, Places, database
  <2>2. semaphore'[directory] # NoValues
    BY <1>8, SemaphoresCreated, ConnectionTypes, Types
  <2>3. PlaceSound(c)'
    BY <1>8, <2>1, <2>2, AttachEffect DEF PlaceSound, HasKey, At, Schema, P
  <2> QED BY <1>1, <1>8, <2>1, <2>3, OthersPlaces, AttachEffect
<1>9. ASSUME NEW c \in Connection, SetValue(c) PROVE Places'
  <2>1. At(c, "set") /\ PlaceSound(c) /\ UNCHANGED <<directory, version>>
    BY <1>9 DEF SetValue, Places, database
  <2>2. K(c) \in Key /\ (semaphore[K(c)] # NoValues => semaphore'[K(c)] # NoValues)
    BY <1>1, ConnectionTypes DEF StepTypes, SemaphoresStay
  <2>3. connection'[c].pc \in {"set", "own"} /\ K(c)' = K(c) /\ F(c)' = F(c)
        /\ connection'[c].preexisting = connection[c].preexisting
    BY <1>9, SetEffect
  <2>4. PlaceSound(c)'
    BY <2>1, <2>2, <2>3 DEF PlaceSound, HasKey, At, Schema, P
  <2> QED BY <1>1, <1>9, <2>1, <2>4, OthersPlaces, SetEffect
<1>10. ASSUME NEW c \in Connection, DecrementOwnership(c) PROVE Places'
  <2>1. /\ At(c, "own") /\ PlaceSound(c) /\ OnlyConnection(c) /\ Moves(c, "value")
        /\ UNCHANGED <<directory, version>>
    BY <1>2, <1>10, Moved DEF DecrementOwnership, Locations, Places, database
  <2>2. K(c) \in Key /\ (semaphore[K(c)] # NoValues => semaphore'[K(c)] # NoValues)
    BY <1>1, ConnectionTypes DEF StepTypes, SemaphoresStay
  <2>3. PlaceSound(c)'
    BY <2>1, <2>2 DEF PlaceSound, HasKey, Moves, At, Schema, P
  <2> QED BY <1>1, <2>1, <2>3, OthersPlaces
<1>11. ASSUME NEW c \in Connection, ReadConnections(c) PROVE Places'
  <2>1. At(c, "value") /\ PlaceSound(c) /\ UNCHANGED <<directory, version, semaphore>>
    BY <1>11 DEF ReadConnections, Places, database, kernel
  <2>2. PlaceSound(c)'
    BY <1>11, <2>1, ReadEffect DEF PlaceSound, HasKey, At, Schema, P
  <2> QED BY <1>1, <1>11, <2>1, <2>2, OthersPlaces, ReadEffect
<1>12. ASSUME NEW c \in Connection, IncrementConnections(c) PROVE Places'
  <2>1. At(c, "count") /\ PlaceSound(c) /\ UNCHANGED <<directory, version>>
    BY <1>12 DEF IncrementConnections, Places, database
  <2>2. K(c) \in Key /\ (semaphore[K(c)] # NoValues => semaphore'[K(c)] # NoValues)
    BY <1>1, ConnectionTypes DEF StepTypes, SemaphoresStay
  <2>3. /\ connection'[c].pc = "transient" \/ connection'[c].pc \in {"lock", "version"}
        /\ connection'[c].pc = "transient" => ~connection[c].preexisting
        /\ K(c)' = K(c) /\ F(c)' = F(c)
    BY <1>12, CountEffect
  <2>4. PlaceSound(c)'
    BY <2>1, <2>2, <2>3 DEF PlaceSound, HasKey, At, Schema, P
  <2> QED BY <1>1, <1>12, <2>1, <2>4, OthersPlaces, CountEffect
<1>13. ASSUME NEW c \in Connection, Lock(c) PROVE Places'
  <2>1. At(c, "lock") /\ PlaceSound(c) /\ OnlyConnection(c) /\ Moves(c, "upgrade") /\ UNCHANGED <<directory, version>>
    BY <1>2, <1>13, Moved DEF Lock, Locations, Places, database
  <2>2. K(c) \in Key /\ (semaphore[K(c)] # NoValues => semaphore'[K(c)] # NoValues)
    BY <1>1, ConnectionTypes DEF StepTypes, SemaphoresStay
  <2>3. PlaceSound(c)'
    BY <2>1, <2>2 DEF PlaceSound, HasKey, Moves, At, Schema, P
  <2> QED BY <1>1, <2>1, <2>3, OthersPlaces
<1>14. ASSUME NEW c \in Connection, UpgradeDatabase(c) PROVE Places'
  <2>1. At(c, "upgrade") /\ PlaceSound(c) /\ OnlyConnection(c) /\ Moves(c, "transient")
    BY <1>2, <1>14, Moved, UpgradeVersion DEF UpgradeDatabase, Locations, Places
  <2>2. K(c) \in Key /\ (semaphore[K(c)] # NoValues => semaphore'[K(c)] # NoValues)
    BY <1>1, ConnectionTypes DEF StepTypes, SemaphoresStay
  <2>3. version'[F(c)] >= Schema(c) /\ UNCHANGED directory
    BY <1>14, UpgradeVersion
  <2>4. PlaceSound(c)'
    BY <2>1, <2>2, <2>3 DEF PlaceSound, HasKey, Moves, At, Schema, P
  <2> QED BY <1>1, <2>1, <2>3, <2>4, OthersPlaces
<1>15. ASSUME NEW c \in Connection, UpgradeFails(c) \/ OpenFails(c) \/ Close(c) PROVE Places'
  <2>1. connection' = [connection EXCEPT ![c] = Closed] /\ UNCHANGED <<directory, files>>
    BY <1>15 DEF UpgradeFails, OpenFails, Close, database
  <2>2. OnlyConnection(c) /\ connection'[c] = Closed
    BY <1>2, <2>1, Shut
  <2>3. PlaceSound(c)'
    BY <2>2 DEF PlaceSound, HasKey, F, Closed
  <2> QED BY <1>1, <2>1, <2>2, <2>3, OthersPlaces
<1>16. ASSUME NEW c \in Connection, CheckVersion(c) PROVE Places'
  <2>1. /\ At(c, "version") /\ PlaceSound(c) /\ OnlyConnection(c) /\ Moves(c, "transient")
        /\ UNCHANGED <<directory, version, semaphore>> /\ version[F(c)] = Schema(c)
    BY <1>2, <1>16, Moved DEF CheckVersion, Locations, Places, database, kernel
  <2>2. PlaceSound(c)'
    BY <2>1, Constants DEF PlaceSound, HasKey, Moves, At, Schema, P
  <2> QED BY <1>1, <2>1, <2>2, OthersPlaces
<1>17. ASSUME NEW c \in Connection, OpenTransientStore(c) PROVE Places'
  <2>1. /\ At(c, "transient") /\ PlaceSound(c) /\ OnlyConnection(c) /\ Moves(c, "ready")
        /\ UNCHANGED <<directory, version, semaphore>>
    BY <1>2, <1>17, Moved DEF OpenTransientStore, Locations, Places, database, kernel
  <2>2. PlaceSound(c)'
    BY <2>1 DEF PlaceSound, HasKey, Moves, At, Schema, P
  <2> QED BY <1>1, <2>1, <2>2, OthersPlaces
<1>18. ASSUME NEW p \in Process, Exit(p) PROVE Places'
  <2> SUFFICES ASSUME NEW c \in Connection PROVE PlaceSound(c)'
    BY DEF Places
  <2>1. UNCHANGED directory
    BY <1>18 DEF Exit, database
  <2>2. CASE P(c) = p
    <3>1. connection'[c] = Closed
      BY <1>18, <2>2, ExitEffect
    <3> QED BY <3>1 DEF PlaceSound, HasKey, F, Closed
  <2>3. CASE P(c) # p
    BY <1>1, <1>18, <2>1, <2>3, ExitEffect, OthersPlace DEF Places
  <2> QED BY <2>2, <2>3
<1> QED
  BY <1>3, <1>4, <1>5, <1>6, <1>7, <1>8, <1>9, <1>10, <1>11, <1>12, <1>13, <1>14, <1>15, <1>16, <1>17, <1>18
  DEF Next, Step

(***************************************************************************)
(* The creation of the file.                                               *)
(***************************************************************************)
\* As long as no two have set out to create a file, the tables are in the file of
\* the directory, and who is to create it is alone, without any tables anywhere.
CreatorIsAlone ==
  /\ \A f \in File : version[f] # 0 => f = directory
  /\ \A c \in Connection : Preparing(c) =>
       /\ \A f \in File : version[f] = 0
       /\ connection[c].pc \in {"prepare", "remove"} => F(c) = directory
       /\ \A d \in Connection : Preparing(d) => c = d

Creation == ~raced => CreatorIsAlone

\* A step after which nobody prepares who did not before, and that leaves the files alone.
LEMMA CreationUntouched ==
  ASSUME Creation, UNCHANGED <<directory, version, raced>>,
         \A c \in Connection : Preparing(c)' => Preparing(c) /\ connection'[c] = connection[c]
  PROVE  Creation'
BY DEF Creation, CreatorIsAlone, F

LEMMA BrickUntouched ==
  ASSUME NotBricked, UNCHANGED <<directory, version, deserted>>,
         \A c \in Connection : Preparing(c) /\ F(c) = directory => Preparing(c)' /\ F(c)' = F(c)
  PROVE  NotBricked'
BY DEF NotBricked

\* Only a connection that moves from or to the creation of the file changes who prepares.
LEMMA NobodyPrepares ==
  ASSUME NEW c \in Connection, OnlyConnection(c), ~Preparing(c)', ~Preparing(c)
  PROVE  \A d \in Connection : /\ Preparing(d)' => Preparing(d) /\ connection'[d] = connection[d]
                               /\ Preparing(d) => Preparing(d)' /\ F(d)' = F(d)
BY DEF OnlyConnection, Preparing, F

CreationInv == Creation /\ NotBricked

LEMMA CreationQuiet ==
  ASSUME CreationInv, NEW c \in Connection, OnlyConnection(c), UNCHANGED <<directory, version, deserted, raced>>,
         ~Preparing(c)', ~Preparing(c)
  PROVE  CreationInv'
BY CreationUntouched, BrickUntouched, NobodyPrepares DEF CreationInv

LEMMA NextCreation ==
  ASSUME TypeOK, Places, CreationInv, Next
  PROVE  CreationInv'
<1>1. Creation /\ NotBricked
  BY DEF CreationInv
<1>2. /\ files \in Nat /\ connection \in [Connection -> Opening(files)] /\ directory \in 0..files
      /\ \A f \in File : version[f] \in Nat
  BY Types, Constants DEF FileTypes
<1>3. ASSUME NEW c \in Connection, NEW secondary \in BOOLEAN, FindFile(c, secondary) PROVE CreationInv'
  <2>1. /\ At(c, "closed") /\ UNCHANGED <<directory, files, version, deserted>> /\ OnlyConnection(c)
        /\ raced' = (raced \/ (directory = 0 /\ \E d \in Connection : Preparing(d)))
        /\ connection'[c].pc = "open" /\ connection'[c].preexisting = (directory # 0)
    BY <1>3, FindFileEffect DEF FindFile, database
  <2>2. ~Preparing(c) /\ (Preparing(c)' <=> directory = 0)
        /\ \A d \in Connection \ {c} : connection'[d] = connection[d] /\ (Preparing(d)' <=> Preparing(d))
    BY <2>1 DEF Preparing, At, OnlyConnection
  <2>3. NotBricked'
    BY <1>1, <2>1, <2>2 DEF NotBricked, F
  <2>4. Creation'
    <3> SUFFICES ASSUME ~raced' PROVE CreatorIsAlone'
      BY DEF Creation
    <3>1. ~raced /\ (directory = 0 => \A d \in Connection : ~Preparing(d))
      BY <2>1
    <3>2. \A f \in File : version[f] # 0 => f = directory
      BY <1>1, <3>1 DEF Creation, CreatorIsAlone
    <3>3. CASE directory = 0
      <4>1. \A f \in File : version'[f] = 0
        BY <2>1, <3>2, <3>3 DEF File
      <4> QED BY <2>1, <2>2, <3>1, <3>3, <4>1 DEF CreatorIsAlone
    <3>4. CASE directory # 0
      BY <1>1, <2>1, <2>2, <3>1, <3>2, <3>4 DEF Creation, CreatorIsAlone, F
    <3> QED BY <3>3, <3>4
  <2> QED BY <2>3, <2>4 DEF CreationInv
<1>4. ASSUME NEW c \in Connection, OpenFile(c) PROVE CreationInv'
  <2>1. /\ At(c, "open") /\ UNCHANGED <<version, raced>> /\ PlaceSound(c)
    BY <1>4 DEF OpenFile, Places
  <2>2. /\ OnlyConnection(c) /\ F(c)' = directory' /\ connection'[c].preexisting = connection[c].preexisting
        /\ connection'[c].pc = IF connection[c].preexisting THEN "attach" ELSE "prepare"
        /\ directory # 0 => UNCHANGED <<directory, deserted>>
        /\ directory = 0 => deserted' = connection[c].preexisting
        /\ directory' # 0
    BY <1>4, OpenFileEffect
  <2>3. (Preparing(c)' <=> Preparing(c)) /\ (Preparing(c) <=> ~connection[c].preexisting)
        /\ \A d \in Connection \ {c} : /\ connection'[d] = connection[d] /\ F(d)' = F(d)
                                       /\ (Preparing(d)' <=> Preparing(d))
    BY <2>1, <2>2 DEF Preparing, At, OnlyConnection, F
  <2>4. F(c) = 0
    BY <2>1 DEF PlaceSound, At
  <2>5. NotBricked'
    <3>1. CASE directory = 0
      BY <2>2, <2>3, <3>1 DEF NotBricked
    <3>2. CASE directory # 0
      BY <1>1, <2>1, <2>2, <2>3, <2>4, <3>2 DEF NotBricked
    <3> QED BY <3>1, <3>2
  <2>6. Creation'
    <3> SUFFICES ASSUME ~raced' PROVE CreatorIsAlone'
      BY DEF Creation
    <3>1. ~raced
      BY <2>1
    <3>2. \A f \in File : version[f] # 0 => f = directory
      BY <1>1, <3>1 DEF Creation, CreatorIsAlone
    <3>3. \A f \in File : version'[f] # 0 => f = directory'
      BY <2>1, <2>2, <3>2 DEF File
    <3>4. ASSUME NEW d \in Connection, Preparing(d)', connection'[d].pc \in {"prepare", "remove"}
          PROVE  F(d)' = directory'
      <4>1. CASE d = c
        BY <2>2, <4>1
      <4>2. CASE d # c
        <5>1. Preparing(d) /\ F(d) = directory /\ F(d)' = F(d)
          BY <1>1, <2>3, <3>1, <3>4, <4>2 DEF Creation, CreatorIsAlone
        <5>2. F(d) # 0
          BY <2>3, <3>4, <4>2 DEF Places, PlaceSound
        <5> QED BY <2>2, <5>1, <5>2
      <4> QED BY <4>1, <4>2
    <3> QED BY <1>1, <2>1, <2>3, <3>1, <3>3, <3>4 DEF Creation, CreatorIsAlone
  <2> QED BY <2>5, <2>6 DEF CreationInv
<1>5. ASSUME NEW c \in Connection, PrepareDatabase(c) PROVE CreationInv'
  <2>1. At(c, "prepare") /\ PlaceSound(c) /\ OnlyConnection(c) /\ Moves(c, "attach") /\ UNCHANGED <<raced, deserted>>
    BY <1>2, <1>5, Moved DEF PrepareDatabase, Locations, Places, history
  <2>2. /\ F(c) \in File /\ UNCHANGED directory /\ Schema(c) # 0
        /\ \A f \in File : version'[f] = IF f = F(c) THEN Schema(c) ELSE version[f]
    BY <1>5, PrepareVersion, Constants
  <2>3. Preparing(c) /\ ~Preparing(c)'
        /\ \A d \in Connection \ {c} : connection'[d] = connection[d] /\ F(d)' = F(d) /\ (Preparing(d)' <=> Preparing(d))
    BY <2>1 DEF Preparing, At, OnlyConnection, F, Moves, PlaceSound
  <2>4. NotBricked'
    <3> SUFFICES ASSUME directory # 0, version'[directory] = 0
                 PROVE  deserted \/ \E d \in Connection : Preparing(d)' /\ F(d)' = directory
      BY <2>1, <2>2 DEF NotBricked
    <3>1. directory \in File /\ directory # F(c) /\ version[directory] = 0
      BY <1>2, <2>2, Types, Constants DEF FileTypes
    <3> QED BY <1>1, <2>3, <3>1 DEF NotBricked
  <2>5. Creation'
    <3> SUFFICES ASSUME ~raced PROVE CreatorIsAlone'
      BY <2>1 DEF Creation
    <3>1. F(c) = directory /\ (\A f \in File : version[f] = 0) /\ \A d \in Connection : Preparing(d) => c = d
      BY <1>1, <2>1, <2>3 DEF Creation, CreatorIsAlone, At
    <3> QED BY <2>2, <2>3, <3>1 DEF CreatorIsAlone
  <2> QED BY <2>4, <2>5 DEF CreationInv
<1>6. ASSUME NEW c \in Connection, PreparationFails(c) PROVE CreationInv'
  <2>1. /\ At(c, "prepare") /\ PlaceSound(c) /\ OnlyConnection(c) /\ Moves(c, "remove")
        /\ UNCHANGED <<directory, version, raced, deserted>>
    BY <1>2, <1>6, Moved DEF PreparationFails, Locations, Places, database, history
  <2>2. \A d \in Connection : /\ F(d)' = F(d) /\ (Preparing(d)' <=> Preparing(d))
                              /\ (d # c => connection'[d] = connection[d])
    BY <2>1 DEF Preparing, At, OnlyConnection, F, Moves, PlaceSound
  <2>3. NotBricked'
    BY <1>1, <2>1, <2>2 DEF NotBricked
  <2>4. Creation'
    BY <1>1, <2>1, <2>2 DEF Creation, CreatorIsAlone, At
  <2> QED BY <2>3, <2>4 DEF CreationInv
<1>7. ASSUME NEW c \in Connection, RemoveFile(c) PROVE CreationInv'
  <2>1. /\ At(c, "remove") /\ PlaceSound(c) /\ OnlyConnection(c) /\ connection'[c] = Closed
        /\ directory' = 0 /\ UNCHANGED <<version, raced>>
    BY <1>2, <1>7, Shut DEF RemoveFile, Places
  <2>2. Preparing(c) /\ ~Preparing(c)'
        /\ \A d \in Connection \ {c} : connection'[d] = connection[d] /\ (Preparing(d)' <=> Preparing(d))
    BY <2>1 DEF Preparing, At, OnlyConnection, PlaceSound, Closed
  <2>3. NotBricked'
    BY <2>1 DEF NotBricked
  <2>4. Creation'
    BY <1>1, <2>1, <2>2 DEF Creation, CreatorIsAlone
  <2> QED BY <2>3, <2>4 DEF CreationInv
<1>8. ASSUME NEW c \in Connection, UpgradeDatabase(c) PROVE CreationInv'
  <2>1. At(c, "upgrade") /\ OnlyConnection(c) /\ Moves(c, "transient") /\ UNCHANGED <<directory, raced, deserted>>
    BY <1>2, <1>8, Moved DEF UpgradeDatabase, Locations, history
  <2>2. F(c) \in File /\ version[F(c)] # 0 /\ version'[F(c)] # 0 /\ \A f \in File : f # F(c) => version'[f] = version[f]
    <3>1. version'[F(c)] >= Schema(c) /\ F(c) \in File /\ version[F(c)] # 0
          /\ (\A f \in File : f # F(c) => version'[f] = version[f]) /\ FileTypes'
      BY <1>8, UpgradeVersion
    <3>2. version'[F(c)] \in Nat /\ Schema(c) \in Nat /\ Schema(c) > 0
      BY <3>1, Constants DEF FileTypes
    <3> QED BY <3>1, <3>2
  <2>3. \A d \in Connection : /\ Preparing(d)' => Preparing(d) /\ connection'[d] = connection[d]
                              /\ Preparing(d) => Preparing(d)' /\ F(d)' = F(d)
    BY <2>1, NobodyPrepares DEF Preparing, At, Moves
  <2>4. NotBricked'
    <3> SUFFICES ASSUME directory # 0, version'[directory] = 0
                 PROVE  deserted \/ \E d \in Connection : Preparing(d)' /\ F(d)' = directory
      BY <2>1 DEF NotBricked
    <3>1. directory \in File /\ version[directory] = 0
      BY <1>2, <2>2, Types, Constants DEF FileTypes
    <3> QED BY <1>1, <2>3, <3>1 DEF NotBricked
  <2>5. Creation'
    BY <1>1, <2>1, <2>2, <2>3 DEF Creation, CreatorIsAlone, F
  <2> QED BY <2>4, <2>5 DEF CreationInv
<1>9. ASSUME NEW c \in Connection,
             \/ AttachSemaphores(c) \/ SetValue(c) \/ DecrementOwnership(c) \/ ReadConnections(c)
             \/ IncrementConnections(c) \/ Lock(c) \/ UpgradeFails(c) \/ CheckVersion(c)
             \/ OpenTransientStore(c) \/ Close(c)
      PROVE  CreationInv'
  <2>1. UNCHANGED <<directory, files, version, deserted, raced>>
    BY <1>9 DEF AttachSemaphores, SetValue, DecrementOwnership, ReadConnections, IncrementConnections, Lock,
       UpgradeFails, CheckVersion, OpenTransientStore, Close, database, history
  <2>2. ~Preparing(c)
    BY <1>9 DEF AttachSemaphores, SetValue, DecrementOwnership, ReadConnections, IncrementConnections, Lock,
       UpgradeFails, CheckVersion, OpenTransientStore, Close, At, Preparing
  <2>3. OnlyConnection(c) /\ ~Preparing(c)'
    <3>1. CASE AttachSemaphores(c)
      BY <3>1, AttachEffect DEF Preparing
    <3>2. CASE SetValue(c)
      BY <3>2, SetEffect DEF Preparing
    <3>3. CASE ReadConnections(c)
      BY <3>3, ReadEffect DEF Preparing
    <3>4. CASE IncrementConnections(c)
      BY <3>4, CountEffect DEF Preparing
    <3>5. CASE DecrementOwnership(c) \/ Lock(c) \/ CheckVersion(c)
      <4>1. PICK l \in {"value", "upgrade", "transient"} : Goto(c, l)
        BY <3>5 DEF DecrementOwnership, Lock, CheckVersion
      <4>2. l \in Locations
        BY DEF Locations
      <4> QED BY <1>2, <2>1, <4>1, <4>2, Moved DEF Moves, Preparing
    <3>6. CASE OpenTransientStore(c)
      BY <1>2, <2>1, <3>6, Moved DEF OpenTransientStore, Moves, Preparing, Locations
    <3>7. CASE UpgradeFails(c) \/ Close(c)
      <4>1. connection' = [connection EXCEPT ![c] = Closed]
        BY <3>7 DEF UpgradeFails, Close
      <4> QED BY <1>2, <2>1, <4>1, Shut DEF Closed, Preparing
    <3> QED BY <1>9, <3>1, <3>2, <3>3, <3>4, <3>5, <3>6, <3>7
  <2> QED BY <2>1, <2>2, <2>3, CreationQuiet
<1>10. ASSUME NEW c \in Connection, OpenFails(c) PROVE CreationInv'
  <2>1. /\ UNCHANGED <<directory, files, version, deserted, raced>>
        /\ connection' = [connection EXCEPT ![c] = Closed]
        /\ connection[c].pc \in {"open", "version", "transient"} \/ (At(c, "attach") /\ connection[c].preexisting)
    BY <1>10 DEF OpenFails, database, history
  <2>2. OnlyConnection(c) /\ connection'[c] = Closed
    BY <1>2, <2>1, Shut
  <2>3. ~Preparing(c)' /\ \A d \in Connection \ {c} : connection'[d] = connection[d]
    BY <2>2 DEF Preparing, Closed, OnlyConnection
  <2>4. Preparing(c) => F(c) = 0
    BY <2>1 DEF Preparing, At, Places, PlaceSound
  <2>5. Creation'
    BY <1>1, <2>1, <2>3, CreationUntouched DEF Preparing
  <2>6. NotBricked'
    BY <1>1, <2>1, <2>3, <2>4 DEF NotBricked, Preparing, F
  <2> QED BY <2>5, <2>6 DEF CreationInv
<1>11. ASSUME NEW p \in Process, Exit(p) PROVE CreationInv'
  <2>1. /\ UNCHANGED <<directory, version, raced>>
        /\ \A c \in Connection : connection'[c] = IF P(c) = p THEN Closed ELSE connection[c]
    BY <1>11, ExitEffect DEF Exit, database
  <2>2. \A c \in Connection : Preparing(c)' => Preparing(c) /\ connection'[c] = connection[c]
    BY <2>1 DEF Preparing, Closed
  <2>3. Creation'
    BY <1>1, <2>1, <2>2, CreationUntouched
  <2>4. deserted' = (deserted \/ \E c \in Connection : P(c) = p /\ Preparing(c) /\ F(c) = directory /\ directory # 0)
    BY <1>11 DEF Exit
  <2>5. NotBricked'
    BY <1>1, <2>1, <2>4 DEF NotBricked, Preparing, F
  <2> QED BY <2>3, <2>5 DEF CreationInv
<1> QED
  BY <1>3, <1>4, <1>5, <1>6, <1>7, <1>8, <1>9, <1>10, <1>11 DEF Next, Step

FInv == TypeOK /\ Places /\ CreationInv

LEMMA InitFiles == ASSUME Init PROVE FInv
<1>1. files \in 0..MaxFile /\ directory = files /\ version \in [File -> Version]
      /\ \A f \in File : version[f] = 0 <=> f > files
  BY Constants, OpenAssumption DEF Init, Version
<1>2. FileTypes
  BY <1>1, Constants DEF FileTypes
<1>3. SemaphoreTypes
  BY Constants DEF Init, SemaphoreTypes, Values
<1>4. HistoryTypes
  BY DEF Init, HistoryTypes
<1>5. connection \in [Connection -> Opening(files)] /\ \A c \in Connection : connection[c] = Closed
  BY <1>1, Constants, ClosedOpening DEF Init
<1>6. TypeOK
  BY <1>2, <1>3, <1>4, <1>5, Types
<1>7. Places
  BY <1>5, ClosedPlace DEF Places
<1>8. \A c \in Connection : ~Preparing(c)
  BY <1>5, ClosedPlace DEF Preparing
<1>9. NotBricked
  <2>1. directory # 0 => directory \in File /\ ~(directory > files)
    BY <1>1, Constants
  <2> QED BY <1>1, <2>1 DEF NotBricked
<1>10. Creation
  <2>1. \A f \in File : version[f] # 0 => f = directory
    BY <1>1, Constants DEF Init, File
  <2> QED BY <1>8, <2>1 DEF Creation, CreatorIsAlone
<1> QED BY <1>6, <1>7, <1>9, <1>10 DEF FInv, CreationInv

LEMMA NextFiles == ASSUME FInv, Next PROVE FInv'
<1>1. TypeOK'
  BY NextTypes, Types DEF FInv, StepTypes, TypeOK, FileTypes, SemaphoreTypes, HistoryTypes, Opening, Version
<1> QED BY <1>1, NextPlaces, NextCreation DEF FInv

LEMMA FilesStutter == ASSUME FInv, UNCHANGED vars PROVE FInv'
BY DEF FInv, vars, database, kernel, history, TypeOK, Places, PlaceSound, CreationInv, Creation, CreatorIsAlone,
   NotBricked, Preparing, F, K, P, Schema, HasKey

\* The inductive invariant of the files: whatever the connections do and whoever
\* dies, each has the file and the keys it should, and an empty file in the directory is
\* on its way to its tables.
THEOREM FilesInvariance == Spec => []FInv
<1>1. Init => FInv
  BY InitFiles
<1>2. FInv /\ [Next]_vars => FInv'
  BY NextFiles, FilesStutter
<1> QED BY <1>1, <1>2, PTL DEF Spec

\* The types of the variables.
THEOREM TypeInvariant == Spec => []TypeOK
BY FilesInvariance, PTL DEF FInv

\* A connection that is open has a prepared file, which is the one that others
\* will find if nobody raced to create it; and an empty file in the directory is being prepared.
THEOREM FilesAreSound == Spec => []FilesSound
<1>1. FInv => FilesSound
  <2> SUFFICES ASSUME FInv PROVE FilesSound
    OBVIOUS
  <2>1. ReadyIsPrepared
    BY DEF FInv, Places, PlaceSound, ReadyIsPrepared, Ready, At
  <2>2. ReadyIsFound
    <3> SUFFICES ASSUME ~raced, NEW c \in Connection, Ready(c) PROVE F(c) = directory
      BY DEF ReadyIsFound
    <3>1. F(c) \in File /\ version[F(c)] >= Schema(c)
      BY ConnectionTypes DEF FInv, Places, PlaceSound, Ready, At
    <3>2. version[F(c)] \in Nat
      BY <3>1, Types, Constants DEF FInv, FileTypes
    <3>3. version[F(c)] # 0
      BY <3>1, <3>2, Constants
    <3> QED BY <3>1, <3>3 DEF FInv, CreationInv, Creation, CreatorIsAlone
  <2> QED BY <2>1, <2>2 DEF FilesSound, FInv, CreationInv
<1> QED BY <1>1, FilesInvariance, PTL

(***************************************************************************)
(* The ownership and the write lock.                                       *)
(***************************************************************************)
Locks == {Ownership, WriteAccess}

Holder(c, k, i) ==
  K(c) = k /\ IF i = Ownership THEN connection[c].pc \in {"value", "count"} ELSE connection[c].pc = "upgrade"
ToSet(c, k, i) == K(c) = k /\ connection[c].pc = "set" /\ connection[c].next <= i

\* The semaphore i of the key k is a lock, of which the kernel knows the holder; it is
\* not to be had before it was set, and it is set unless who was to do so has died.
LockSound(k, i) ==
  /\ \A c, d \in Connection : Holder(c, k, i) /\ Holder(d, k, i) => c = d
  /\ \A c \in Connection : Holder(c, k, i) => semaphore[k][i] = 0
  /\ \A p \in Process : undo[k][p][i] = IF \E c \in Connection : Holder(c, k, i) /\ P(c) = p THEN 1 ELSE 0
  /\ semaphore[k][i] <= 1
  /\ \A c, d \in Connection : ToSet(c, k, i) => semaphore[k][i] = 0 /\ ~Holder(d, k, i)
  /\ semaphore[k][i] = 0 /\ k \notin unset => \E c \in Connection : Holder(c, k, i) \/ ToSet(c, k, i)

LocksSound == \A k \in Key, i \in Locks : LockSound(k, i)

\* One connection at most sets the values of a key.
Setters ==
  /\ \A c \in Connection : connection[c].pc # "set" => connection[c].next = Ownership
  /\ \A c, d \in Connection : connection[c].pc = "set" /\ connection[d].pc = "set" /\ K(c) = K(d) => c = d

LInv == FInv /\ Setters /\ LocksSound

Same(c, k, i) == (Holder(c, k, i)' <=> Holder(c, k, i)) /\ (ToSet(c, k, i)' <=> ToSet(c, k, i))

LEMMA LockIndex == Locks \subseteq Semaphores /\ Ownership # WriteAccess
BY DEF Locks, Semaphores, Ownership, WriteAccess

LEMMA OthersSame ==
  ASSUME NEW c \in Connection, OnlyConnection(c), NEW d \in Connection, d # c, NEW k, NEW i
  PROVE  Same(d, k, i)
BY DEF OnlyConnection, Same, Holder, ToSet, K

LEMMA LockKept ==
  ASSUME NEW k \in Key, NEW i \in Locks, LockSound(k, i),
         semaphore'[k][i] = semaphore[k][i], \A p \in Process : undo'[k][p][i] = undo[k][p][i],
         k \in unset => k \in unset', \A c \in Connection : Same(c, k, i)
  PROVE  LockSound(k, i)'
BY DEF LockSound, Same, P

LEMMA LockAcquired ==
  ASSUME SemaphoreTypes, NEW k \in Key, NEW i \in Locks, LockSound(k, i), NEW c \in Connection, OnlyConnection(c),
         ~ToSet(c, k, i), ~ToSet(c, k, i)', Holder(c, k, i)',
         semaphore[k][i] > 0, semaphore'[k][i] = semaphore[k][i] - 1,
         \A p \in Process : undo'[k][p][i] = IF p = P(c) THEN undo[k][p][i] + 1 ELSE undo[k][p][i]
  PROVE  LockSound(k, i)'
<1>1. semaphore[k][i] = 1 /\ semaphore'[k][i] = 0
  BY LockIndex, NoneOrAll DEF LockSound
<1>2. \A d \in Connection : ~Holder(d, k, i) /\ ~ToSet(d, k, i)
  BY <1>1 DEF LockSound
<1>3. \A d \in Connection : (Holder(d, k, i)' <=> d = c) /\ ~ToSet(d, k, i)'
  BY <1>2, OthersSame DEF Same
<1>4. \A p \in Process : undo[k][p][i] = 0
  BY <1>2 DEF LockSound
<1>5. \A p \in Process : undo'[k][p][i] = IF \E d \in Connection : Holder(d, k, i)' /\ P(d) = p THEN 1 ELSE 0
  BY <1>3, <1>4
<1> QED BY <1>1, <1>3, <1>5 DEF LockSound, P

LEMMA LockReleased ==
  ASSUME SemaphoreTypes, NEW k \in Key, NEW i \in Locks, LockSound(k, i), NEW c \in Connection, OnlyConnection(c),
         Holder(c, k, i), ~ToSet(c, k, i)', ~Holder(c, k, i)',
         semaphore'[k][i] = semaphore[k][i] + 1,
         \A p \in Process : undo'[k][p][i] = IF p = P(c) THEN undo[k][p][i] - 1 ELSE undo[k][p][i]
  PROVE  LockSound(k, i)'
<1>1. semaphore[k][i] = 0 /\ semaphore'[k][i] = 1
  BY DEF LockSound
<1>2. \A d \in Connection : (Holder(d, k, i) <=> d = c) /\ ~ToSet(d, k, i)
  BY DEF LockSound
<1>3. \A d \in Connection : ~Holder(d, k, i)' /\ ~ToSet(d, k, i)'
  BY <1>2, OthersSame DEF Same
<1>4. \A p \in Process : undo[k][p][i] = IF p = P(c) THEN 1 ELSE 0
  BY <1>2 DEF LockSound
<1>5. \A p \in Process : undo'[k][p][i] = 0
  BY <1>4
<1> QED BY <1>1, <1>3, <1>5 DEF LockSound

LEMMA LockSet ==
  ASSUME NEW k \in Key, NEW i \in Locks, LockSound(k, i), NEW c \in Connection, OnlyConnection(c),
         ToSet(c, k, i), ~ToSet(c, k, i)', ~Holder(c, k, i)',
         \A d \in Connection : d # c => ~ToSet(d, k, i),
         semaphore'[k][i] = 1, \A p \in Process : undo'[k][p][i] = 0
  PROVE  LockSound(k, i)'
<1>1. \A d \in Connection : ~Holder(d, k, i)
  BY DEF LockSound
<1>2. \A d \in Connection : ~Holder(d, k, i)' /\ ~ToSet(d, k, i)'
  BY <1>1, OthersSame DEF Same
<1> QED BY <1>2 DEF LockSound

LEMMA LockCreated ==
  ASSUME NEW k \in Key, NEW i \in Locks, LockSound(k, i), NEW c \in Connection, OnlyConnection(c),
         ToSet(c, k, i)', \A d \in Connection : ~Holder(d, k, i) /\ ~ToSet(d, k, i), ~Holder(c, k, i)',
         semaphore'[k][i] = 0, UNCHANGED undo
  PROVE  LockSound(k, i)'
<1>1. \A d \in Connection : ~Holder(d, k, i)' /\ (d # c => ~ToSet(d, k, i)')
  BY OthersSame DEF Same
<1>2. \A p \in Process : undo[k][p][i] = 0
  BY DEF LockSound
<1> QED BY <1>1, <1>2 DEF LockSound

\* A process that dies frees the lock if one of its connections had it, and only then.
LEMMA LockUndone ==
  ASSUME SemaphoreTypes, NEW k \in Key, NEW i \in Locks, LockSound(k, i), NEW p \in Process,
         \A c \in Connection : IF P(c) = p THEN ~Holder(c, k, i)' /\ ~ToSet(c, k, i)' ELSE Same(c, k, i),
         \A c \in Connection : P(c) = p /\ ToSet(c, k, i) => k \in unset',
         k \in unset => k \in unset',
         semaphore[k] # NoValues => semaphore'[k][i] = Undone(semaphore[k][i], undo[k][p][i]),
         semaphore[k] = NoValues => semaphore'[k] = NoValues,
         \A q \in Process : undo'[k][q][i] = IF q = p THEN 0 ELSE undo[k][q][i]
  PROVE  LockSound(k, i)'
<1>1. semaphore[k][i] \in Int /\ semaphore[k][i] >= -1 /\ semaphore[k][i] <= 1
      /\ (semaphore[k] = NoValues <=> semaphore[k][i] = -1)
  BY LockIndex, NoneOrAll DEF LockSound
<1>2. \A q \in Process : undo'[k][q][i] = IF \E d \in Connection : Holder(d, k, i)' /\ P(d) = q THEN 1 ELSE 0
  BY DEF LockSound, Same
<1>3. CASE \E c \in Connection : Holder(c, k, i) /\ P(c) = p
  <2>1. PICK c \in Connection : Holder(c, k, i) /\ P(c) = p
    BY <1>3
  <2>2. undo[k][p][i] = 1 /\ semaphore[k][i] = 0
    BY <2>1 DEF LockSound
  <2>3. semaphore'[k][i] = 1
    BY <1>1, <2>2 DEF Undone
  <2>4. \A d \in Connection : ~Holder(d, k, i)' /\ ~ToSet(d, k, i)'
    BY <2>1 DEF LockSound, Same
  <2> QED BY <1>2, <2>3, <2>4 DEF LockSound, P
<1>4. CASE ~\E c \in Connection : Holder(c, k, i) /\ P(c) = p
  <2>1. undo[k][p][i] = 0
    BY <1>4 DEF LockSound
  <2>2. semaphore'[k][i] = semaphore[k][i]
    <3>1. CASE semaphore[k] = NoValues
      BY <3>1
    <3>2. CASE semaphore[k] # NoValues
      <4>1. semaphore[k][i] >= 0
        BY <3>2, LockIndex, NoneOrAll
      <4> QED BY <1>1, <2>1, <3>2, <4>1 DEF Undone
    <3> QED BY <3>1, <3>2
  <2>3. \A d \in Connection : (Holder(d, k, i)' <=> Holder(d, k, i)) /\ (ToSet(d, k, i)' => ToSet(d, k, i))
    BY <1>4 DEF Same
  <2>4. k \notin unset' => \A d \in Connection : ToSet(d, k, i) => ToSet(d, k, i)'
    BY DEF Same
  <2>5. semaphore'[k][i] = 0 /\ k \notin unset' => \E d \in Connection : Holder(d, k, i)' \/ ToSet(d, k, i)'
    BY <2>2, <2>3, <2>4 DEF LockSound
  <2> QED BY <1>1, <1>2, <2>2, <2>3, <2>5 DEF LockSound, P
<1> QED BY <1>3, <1>4

\* Where a connection has, or will have, something to do with a lock.
Engaged(c) == connection[c].pc \in {"set", "value", "count", "upgrade"}

LEMMA NotEngaged ==
  ASSUME NEW c \in Connection, ~Engaged(c), ~Engaged(c)', NEW k, NEW i \in Locks
  PROVE  Same(c, k, i) /\ ~Holder(c, k, i) /\ ~ToSet(c, k, i) /\ ~Holder(c, k, i)' /\ ~ToSet(c, k, i)'
BY DEF Engaged, Same, Holder, ToSet

LEMMA SettersKept ==
  ASSUME Setters, NEW c \in Connection, OnlyConnection(c), connection'[c].pc # "set",
         connection'[c].next = Ownership
  PROVE  Setters'
BY DEF Setters, OnlyConnection, K

LEMMA LocksQuiet ==
  ASSUME LInv, NEW c \in Connection, OnlyConnection(c), ~Engaged(c), ~Engaged(c)', connection'[c].next = Ownership,
         UNCHANGED <<semaphore, undo, unset>>
  PROVE  Setters' /\ LocksSound'
<1>1. Setters'
  BY SettersKept DEF LInv, Engaged
<1>2. ASSUME NEW k \in Key, NEW i \in Locks PROVE LockSound(k, i)'
  <2>1. \A d \in Connection : Same(d, k, i)
    BY OthersSame, NotEngaged
  <2> QED BY <2>1, LockKept DEF LInv, LocksSound
<1> QED BY <1>1, <1>2 DEF LocksSound

\* The step takes the lock i of its key or gives it back, and no other.
LEMMA OneLock ==
  ASSUME LInv, NEW c \in Connection, OnlyConnection(c), UNCHANGED unset, NEW i \in Locks, NEW k \in Key,
         connection[c].pc # "set", connection'[c].pc # "set", connection'[c].next = Ownership,
         \A l \in Key, j \in Locks : l # k \/ j # i => Same(c, l, j),
         NEW p \in Process, NEW value, NEW adjustment, Becomes(k, i, value), UndoBecomes(k, p, i, adjustment),
         LockSound(k, i)'
  PROVE  Setters' /\ LocksSound'
<1>1. Setters'
  BY SettersKept DEF LInv
<1>2. ASSUME NEW l \in Key, NEW j \in Locks PROVE LockSound(l, j)'
  <2>1. CASE l = k /\ j = i
    BY <2>1
  <2>2. CASE l # k \/ j # i
    <3>1. \A d \in Connection : Same(d, l, j)
      BY <2>2, OthersSame
    <3>2. semaphore'[l][j] = semaphore[l][j] /\ \A q \in Process : undo'[l][q][j] = undo[l][q][j]
      BY <2>2, LockIndex DEF Becomes, UndoBecomes
    <3> QED BY <3>1, <3>2, LockKept DEF LInv, LocksSound
  <2> QED BY <2>1, <2>2
<1> QED BY <1>1, <1>2 DEF LocksSound

LEMMA LockTaken ==
  ASSUME LInv, NEW c \in Connection, NEW i \in Locks, Decrement(c, i), OnlyConnection(c), UNCHANGED unset,
         ~Engaged(c) \/ connection[c].pc = "lock", K(c)' = K(c), connection'[c].next = connection[c].next,
         connection'[c].pc = IF i = Ownership THEN "value" ELSE "upgrade"
  PROVE  Setters' /\ LocksSound'
<1> PICK k \in Key : k = K(c)
  BY ConnectionTypes DEF LInv, FInv
<1>1. SemaphoreTypes /\ LockSound(k, i) /\ P(c) \in Process /\ i \in Semaphores
  BY Types, Constants, LockIndex DEF LInv, FInv, LocksSound
<1>2. /\ semaphore[k][i] > 0
      /\ Becomes(k, i, semaphore[k][i] - 1)
      /\ UndoBecomes(k, P(c), i, undo[k][P(c)][i] + 1)
  BY <1>1, Decremented
<1>3. connection[c].next = Ownership /\ connection'[c].next = Ownership
  BY DEF LInv, Setters, Engaged
<1>4. \A l \in Key, j \in Locks : l # k \/ j # i => Same(c, l, j)
  BY LockIndex DEF Same, Holder, ToSet, Locks, Engaged
<1>5. ~ToSet(c, k, i) /\ ~ToSet(c, k, i)' /\ Holder(c, k, i)'
  BY LockIndex DEF ToSet, Holder, Locks, Engaged
<1>6. /\ semaphore'[k][i] = semaphore[k][i] - 1
      /\ \A p \in Process : undo'[k][p][i] = IF p = P(c) THEN undo[k][p][i] + 1 ELSE undo[k][p][i]
  BY <1>1, <1>2 DEF Becomes, UndoBecomes
<1>7. LockSound(k, i)'
  BY <1>1, <1>2, <1>5, <1>6, LockAcquired
<1> QED BY <1>1, <1>2, <1>3, <1>4, <1>7, OneLock DEF Engaged

\* The write lock is given back by a connection that has it.
LEMMA WriteAccessGiven ==
  ASSUME LInv, NEW c \in Connection, At(c, "upgrade"), Increment(c, WriteAccess), OnlyConnection(c), UNCHANGED unset,
         ~Engaged(c)', connection'[c].next = Ownership
  PROVE  Setters' /\ LocksSound'
<1> PICK k \in Key : k = K(c)
  BY ConnectionTypes DEF LInv, FInv
<1>1. SemaphoreTypes /\ LockSound(k, WriteAccess) /\ P(c) \in Process /\ WriteAccess \in Semaphores
      /\ semaphore[k] # NoValues
  BY Types, Constants, LockIndex DEF LInv, FInv, LocksSound, Locks, Places, PlaceSound, HasKey, At
<1>2. /\ Becomes(k, WriteAccess, semaphore[k][WriteAccess] + 1)
      /\ UndoBecomes(k, P(c), WriteAccess, undo[k][P(c)][WriteAccess] - 1)
  BY <1>1, Incremented
<1>3. \A l \in Key, j \in Locks : l # k \/ j # WriteAccess => Same(c, l, j)
  BY LockIndex DEF Same, Holder, ToSet, Locks, Engaged, At
<1>4. Holder(c, k, WriteAccess) /\ ~ToSet(c, k, WriteAccess)' /\ ~Holder(c, k, WriteAccess)'
  BY LockIndex DEF ToSet, Holder, Engaged, At
<1>5. /\ semaphore'[k][WriteAccess] = semaphore[k][WriteAccess] + 1
      /\ \A p \in Process : undo'[k][p][WriteAccess] =
           IF p = P(c) THEN undo[k][p][WriteAccess] - 1 ELSE undo[k][p][WriteAccess]
  BY <1>1, <1>2 DEF Becomes, UndoBecomes
<1>6. LockSound(k, WriteAccess)'
  BY <1>1, <1>4, <1>5, LockReleased DEF Locks
<1> QED BY <1>1, <1>2, <1>3, <1>6, OneLock DEF Engaged, At, Locks

LEMMA IncrementConnectionsLocks ==
  ASSUME LInv, NEW c \in Connection, IncrementConnections(c)
  PROVE  Setters' /\ LocksSound'
<1>1. TypeOK /\ SemaphoreTypes /\ P(c) \in Process
  BY Types, Constants DEF LInv, FInv
<1> PICK k \in Key : k = K(c)
  BY ConnectionTypes DEF LInv, FInv
<1>2. At(c, "count") /\ UNCHANGED unset /\ semaphore[k] # NoValues
  BY DEF IncrementConnections, history, LInv, FInv, Places, PlaceSound, HasKey, At
<1>3. OnlyConnection(c) /\ ~Engaged(c)' /\ K(c)' = k /\ connection'[c].next = Ownership
  BY <1>1, <1>2, CountEffect DEF Engaged, LInv, Setters, At
<1>4. /\ \A l \in Key, i \in Semaphores :
           semaphore'[l][i] = IF l = k /\ i # WriteAccess THEN semaphore[l][i] + 1 ELSE semaphore[l][i]
      /\ \A l \in Key, p \in Process, i \in Semaphores :
           undo'[l][p][i] = IF l = k /\ p = P(c) /\ i # WriteAccess THEN undo[l][p][i] - 1 ELSE undo[l][p][i]
  BY <1>1, <1>2, CountIncremented
<1>5. Setters'
  BY <1>3, SettersKept DEF LInv, Engaged
<1>6. ASSUME NEW l \in Key, NEW j \in Locks PROVE LockSound(l, j)'
  <2>1. LockSound(l, j) /\ j \in Semaphores
    BY LockIndex DEF LInv, LocksSound
  <2>2. CASE l = k /\ j = Ownership
    <3>1. /\ semaphore'[l][j] = semaphore[l][j] + 1
          /\ \A p \in Process : undo'[l][p][j] = IF p = P(c) THEN undo[l][p][j] - 1 ELSE undo[l][p][j]
      BY <1>4, <2>1, <2>2, LockIndex
    <3>2. Holder(c, l, j) /\ ~ToSet(c, l, j)' /\ ~Holder(c, l, j)'
      BY <1>2, <1>3, <2>2 DEF Holder, ToSet, Engaged, At
    <3> QED BY <1>1, <1>3, <2>1, <3>1, <3>2, LockReleased
  <2>3. CASE ~(l = k /\ j = Ownership)
    <3>1. semaphore'[l][j] = semaphore[l][j] /\ \A p \in Process : undo'[l][p][j] = undo[l][p][j]
      BY <1>4, <2>1, <2>3 DEF Locks
    <3>2. Same(c, l, j)
      BY <1>2, <1>3, <2>3, LockIndex DEF Same, Holder, ToSet, Locks, Engaged, At
    <3>3. \A d \in Connection : Same(d, l, j)
      BY <1>3, <3>2, OthersSame
    <3> QED BY <1>2, <2>1, <3>1, <3>3, LockKept
  <2> QED BY <2>2, <2>3
<1> QED BY <1>5, <1>6 DEF LocksSound

LEMMA SetValueLocks ==
  ASSUME LInv, NEW c \in Connection, SetValue(c)
  PROVE  Setters' /\ LocksSound'
<1>1. TypeOK /\ SemaphoreTypes
  BY Types DEF LInv, FInv
<1> PICK k \in Key, n \in Semaphores : k = K(c) /\ n = connection[c].next
  BY ConnectionTypes DEF LInv, FInv
<1>2. At(c, "set") /\ UNCHANGED unset /\ semaphore[k] # NoValues
  BY DEF SetValue, LInv, FInv, Places, PlaceSound, HasKey, At
<1>3. /\ OnlyConnection(c) /\ K(c)' = k
      /\ IF n = WriteAccess THEN connection'[c].pc = "own" /\ connection'[c].next = Ownership
         ELSE connection'[c].pc = "set" /\ connection'[c].next = n + 1
  BY <1>1, SetEffect
<1>4. /\ Becomes(k, n, initialValues[n])
      /\ \A l \in Key, p \in Process, i \in Semaphores :
           undo'[l][p][i] = IF l = k /\ i = n THEN 0 ELSE undo[l][p][i]
  BY <1>1, <1>2, ValueSet
<1>5. \A d \in Connection : d # c /\ connection[d].pc = "set" => K(d) # k
  BY <1>2 DEF LInv, Setters, At
<1>6. Setters'
  BY <1>2, <1>3, <1>5 DEF LInv, Setters, OnlyConnection, K, At
<1>7. ASSUME NEW l \in Key, NEW j \in Locks PROVE LockSound(l, j)'
  <2>1. LockSound(l, j) /\ j \in Semaphores
    BY LockIndex DEF LInv, LocksSound
  <2>2. CASE l = k /\ j = n
    <3>1. semaphore'[l][j] = 1 /\ \A p \in Process : undo'[l][p][j] = 0
      <4>1. initialValues[j] = 1
        BY <2>1 DEF initialValues, Locks, Ownership, Connections, WriteAccess
      <4>2. semaphore'[l][j] = initialValues[n] /\ \A p \in Process : undo'[l][p][j] = 0
        BY <1>4, <2>1, <2>2 DEF Becomes
      <4> QED BY <2>2, <4>1, <4>2
    <3>2. ToSet(c, l, j) /\ ~ToSet(c, l, j)' /\ ~Holder(c, l, j)'
      BY <1>2, <1>3, <2>2 DEF ToSet, Holder, At, Locks, Ownership, WriteAccess
    <3>3. \A d \in Connection : d # c => ~ToSet(d, l, j)
      BY <1>5, <2>2 DEF ToSet
    <3> QED BY <1>3, <2>1, <3>1, <3>2, <3>3, LockSet
  <2>3. CASE ~(l = k /\ j = n)
    <3>1. semaphore'[l][j] = semaphore[l][j] /\ \A p \in Process : undo'[l][p][j] = undo[l][p][j]
      BY <1>4, <2>1, <2>3 DEF Becomes
    <3>2. Same(c, l, j)
      <4>1. (ToSet(c, l, j)' <=> ToSet(c, l, j))
        BY <1>2, <1>3, <2>3 DEF ToSet, At, Locks, Semaphores, Ownership, Connections, WriteAccess
      <4>2. (Holder(c, l, j)' <=> Holder(c, l, j))
        BY <1>2, <1>3 DEF Holder, At
      <4> QED BY <4>1, <4>2 DEF Same
    <3>3. \A d \in Connection : Same(d, l, j)
      BY <1>3, <3>2, OthersSame
    <3> QED BY <1>2, <2>1, <3>1, <3>3, LockKept
  <2> QED BY <2>2, <2>3
<1> QED BY <1>6, <1>7 DEF LocksSound

LEMMA AttachSemaphoresLocks ==
  ASSUME LInv, NEW c \in Connection, AttachSemaphores(c)
  PROVE  Setters' /\ LocksSound'
<1>1. TypeOK /\ SemaphoreTypes
  BY Types DEF LInv, FInv
<1> PICK k \in Key : k = directory
  BY <1>1, ConnectionTypes
<1>2. At(c, "attach") /\ UNCHANGED <<unset, undo>>
  BY DEF AttachSemaphores, history
<1>3. /\ OnlyConnection(c) /\ K(c)' = k /\ connection'[c].next = Ownership
      /\ connection'[c].pc = IF semaphore[k] = NoValues THEN "set" ELSE "own"
  BY <1>1, <1>2, AttachEffect DEF LInv, Setters, At
<1>4. /\ semaphore[k] # NoValues => UNCHANGED semaphore
      /\ semaphore[k] = NoValues =>
           \A l \in Key, i \in Semaphores : semaphore'[l][i] = IF l = k THEN 0 ELSE semaphore[l][i]
  BY <1>1, SemaphoresCreated
<1>5. semaphore[k] = NoValues => \A d \in Connection : K(d) = k => ~Engaged(d)
  BY DEF LInv, FInv, Places, PlaceSound, HasKey, Engaged
<1>6. ~Engaged(c)
  BY <1>2 DEF At, Engaged
<1>7. Setters'
  BY <1>2, <1>3, <1>5 DEF LInv, Setters, OnlyConnection, K, At, Engaged
<1>8. ASSUME NEW l \in Key, NEW j \in Locks PROVE LockSound(l, j)'
  <2>1. LockSound(l, j) /\ j \in Semaphores
    BY LockIndex DEF LInv, LocksSound
  <2>2. CASE l = k /\ semaphore[k] = NoValues
    <3>1. ToSet(c, l, j)' /\ ~Holder(c, l, j)'
      BY <1>3, <2>2 DEF ToSet, Holder, Locks, Ownership, WriteAccess
    <3>2. \A d \in Connection : ~Holder(d, l, j) /\ ~ToSet(d, l, j)
      BY <1>5, <2>2 DEF ToSet, Holder, Engaged
    <3>3. semaphore'[l][j] = 0
      BY <1>4, <2>1, <2>2
    <3> QED BY <1>2, <1>3, <2>1, <3>1, <3>2, <3>3, LockCreated
  <2>3. CASE ~(l = k /\ semaphore[k] = NoValues)
    <3>1. semaphore'[l][j] = semaphore[l][j]
      BY <1>4, <2>1, <2>3
    <3>2. Same(c, l, j)
      BY <1>3, <1>6, <2>3 DEF Same, ToSet, Holder, Engaged
    <3>3. \A d \in Connection : Same(d, l, j)
      BY <1>3, <3>2, OthersSame
    <3> QED BY <1>2, <2>1, <3>1, <3>3, LockKept
  <2> QED BY <2>2, <2>3
<1> QED BY <1>7, <1>8 DEF LocksSound

LEMMA ExitLocks ==
  ASSUME LInv, NEW p \in Process, Exit(p)
  PROVE  Setters' /\ LocksSound'
<1>1. TypeOK /\ SemaphoreTypes
  BY Types DEF LInv, FInv
<1>2. \A c \in Connection : connection'[c] = IF P(c) = p THEN Closed ELSE connection[c]
  BY <1>1, ExitEffect
<1>3. Closed.pc = "closed" /\ Closed.next = Ownership
  BY DEF Closed
<1>4. Setters'
  BY <1>2, <1>3 DEF LInv, Setters, K
<1>5. unset \subseteq unset' /\ \A c \in Connection : P(c) = p /\ At(c, "set") => K(c) \in unset'
  BY DEF Exit
<1>6. ASSUME NEW k \in Key, NEW i \in Locks PROVE LockSound(k, i)'
  <2>1. LockSound(k, i) /\ i \in Semaphores
    BY LockIndex DEF LInv, LocksSound
  <2>2. \A c \in Connection : IF P(c) = p THEN ~Holder(c, k, i)' /\ ~ToSet(c, k, i)' ELSE Same(c, k, i)
    BY <1>2, <1>3 DEF Holder, ToSet, Same, K
  <2>3. \A c \in Connection : P(c) = p /\ ToSet(c, k, i) => k \in unset'
    BY <1>5 DEF ToSet, At
  <2>4. /\ semaphore[k] # NoValues => semaphore'[k][i] = Undone(semaphore[k][i], undo[k][p][i])
        /\ semaphore[k] = NoValues => semaphore'[k] = NoValues
        /\ \A q \in Process : undo'[k][q][i] = IF q = p THEN 0 ELSE undo[k][q][i]
    BY <1>1, <2>1, ProcessUndone
  <2>5. semaphore[k] = NoValues => semaphore'[k][i] = semaphore[k][i]
    BY <2>4
  <2> QED BY <1>1, <1>5, <2>1, <2>2, <2>3, <2>4, LockUndone
<1> QED BY <1>4, <1>6 DEF LocksSound

LEMMA ReadConnectionsLocks ==
  ASSUME LInv, NEW c \in Connection, ReadConnections(c)
  PROVE  Setters' /\ LocksSound'
<1>1. At(c, "value") /\ UNCHANGED <<semaphore, undo, unset>>
  BY DEF ReadConnections, kernel, history
<1>2. OnlyConnection(c) /\ connection'[c].pc = "count" /\ K(c)' = K(c) /\ connection'[c].next = Ownership
  BY <1>1, ReadEffect DEF LInv, FInv, Setters, At
<1>3. ASSUME NEW k \in Key, NEW i \in Locks PROVE LockSound(k, i)'
  <2>1. Same(c, k, i)
    BY <1>1, <1>2 DEF Same, Holder, ToSet, At
  <2>2. \A d \in Connection : Same(d, k, i)
    BY <1>2, <2>1, OthersSame
  <2> QED BY <1>1, <2>2, LockKept DEF LInv, LocksSound
<1> QED BY <1>2, <1>3, SettersKept DEF LInv, LocksSound

LEMMA NextLocks ==
  ASSUME LInv, Next
  PROVE  Setters' /\ LocksSound'
<1>1. TypeOK /\ Places /\ files \in Nat /\ connection \in [Connection -> Opening(files)]
  BY Types, Constants DEF LInv, FInv, FileTypes
<1>2. ASSUME NEW c \in Connection, NEW secondary \in BOOLEAN, FindFile(c, secondary) PROVE Setters' /\ LocksSound'
  BY <1>1, <1>2, FindFileEffect, LocksQuiet DEF FindFile, kernel, Engaged, At
<1>3. ASSUME NEW c \in Connection, OpenFile(c) PROVE Setters' /\ LocksSound'
  <2>1. At(c, "open") /\ UNCHANGED <<semaphore, undo, unset>> /\ connection[c].next = Ownership
    BY <1>3 DEF OpenFile, kernel, LInv, Setters, At
  <2> QED BY <1>1, <1>3, <2>1, OpenFileEffect, LocksQuiet DEF Engaged, At
<1>4. ASSUME NEW c \in Connection,
             \/ PrepareDatabase(c) \/ PreparationFails(c) \/ CheckVersion(c) \/ OpenTransientStore(c)
      PROVE  Setters' /\ LocksSound'
  <2>1. /\ UNCHANGED <<semaphore, undo, unset, files>> /\ ~Engaged(c) /\ connection[c].pc # "set"
    BY <1>4 DEF PrepareDatabase, PreparationFails, CheckVersion, OpenTransientStore, kernel, history, database,
       Engaged, At
  <2>2. PICK l \in {"attach", "remove", "transient", "ready"} : Goto(c, l)
    BY <1>4 DEF PrepareDatabase, PreparationFails, CheckVersion, OpenTransientStore
  <2>3. l \in Locations
    BY DEF Locations
  <2>4. OnlyConnection(c) /\ Moves(c, l)
    BY <1>1, <2>1, <2>2, <2>3, Moved
  <2>5. ~Engaged(c)' /\ connection'[c].next = Ownership
    BY <2>1, <2>4 DEF Moves, Engaged, LInv, Setters
  <2> QED BY <2>1, <2>4, <2>5, LocksQuiet
<1>5. ASSUME NEW c \in Connection, RemoveFile(c) \/ OpenFails(c) \/ Close(c) PROVE Setters' /\ LocksSound'
  <2>1. /\ UNCHANGED <<semaphore, undo, unset, files>> /\ ~Engaged(c)
        /\ connection' = [connection EXCEPT ![c] = Closed]
    BY <1>5 DEF RemoveFile, OpenFails, Close, kernel, history, database, Engaged, At
  <2>2. OnlyConnection(c) /\ connection'[c] = Closed
    BY <1>1, <2>1, Shut
  <2>3. ~Engaged(c)' /\ connection'[c].next = Ownership
    BY <2>2 DEF Closed, Engaged
  <2> QED BY <2>1, <2>2, <2>3, LocksQuiet
<1>6. ASSUME NEW c \in Connection, DecrementOwnership(c) PROVE Setters' /\ LocksSound'
  <2>1. At(c, "own") /\ OnlyConnection(c) /\ Moves(c, "value") /\ UNCHANGED unset /\ Decrement(c, Ownership)
    BY <1>1, <1>6, Moved DEF DecrementOwnership, Locations, database, history
  <2> QED BY <2>1, LockTaken DEF Moves, Engaged, At, Locks
<1>7. ASSUME NEW c \in Connection, Lock(c) PROVE Setters' /\ LocksSound'
  <2>1. At(c, "lock") /\ OnlyConnection(c) /\ Moves(c, "upgrade") /\ UNCHANGED unset /\ Decrement(c, WriteAccess)
    BY <1>1, <1>7, Moved DEF Lock, Locations, database, history
  <2> QED BY <2>1, LockTaken, LockIndex DEF Moves, Engaged, At, Locks
<1>8. ASSUME NEW c \in Connection, UpgradeDatabase(c) PROVE Setters' /\ LocksSound'
  <2>1. /\ At(c, "upgrade") /\ OnlyConnection(c) /\ Moves(c, "transient") /\ UNCHANGED unset
        /\ Increment(c, WriteAccess)
    BY <1>1, <1>8, Moved DEF UpgradeDatabase, Locations, history
  <2>2. ~Engaged(c)' /\ connection'[c].next = Ownership
    BY <2>1 DEF Moves, Engaged, LInv, Setters, At
  <2> QED BY <2>1, <2>2, WriteAccessGiven
<1>9. ASSUME NEW c \in Connection, UpgradeFails(c) PROVE Setters' /\ LocksSound'
  <2>1. /\ At(c, "upgrade") /\ OnlyConnection(c) /\ connection'[c] = Closed /\ UNCHANGED unset
        /\ Increment(c, WriteAccess)
    BY <1>1, <1>9, Shut DEF UpgradeFails, database, history
  <2>2. ~Engaged(c)' /\ connection'[c].next = Ownership
    BY <2>1 DEF Closed, Engaged
  <2> QED BY <2>1, <2>2, WriteAccessGiven
<1> QED
  BY <1>2, <1>3, <1>4, <1>5, <1>6, <1>7, <1>8, <1>9, AttachSemaphoresLocks, SetValueLocks, ReadConnectionsLocks,
     IncrementConnectionsLocks, ExitLocks DEF Next, Step

(***************************************************************************)
(* The count of the connections: the sum of what the kernel would undo.    *)
(***************************************************************************)
\* The increments that the kernel would undo, each by itself.
Tokens(u) == {t \in Process \X (Nat \ {0}) : t[2] <= -u[t[1]]}

LEMMA NoTokens ==
  ASSUME NEW u \in [Process -> Int], \A p \in Process : u[p] = 0
  PROVE  IsFiniteSet(Tokens(u)) /\ Cardinality(Tokens(u)) = 0
<1>1. Tokens(u) = {}
  BY DEF Tokens
<1> QED BY <1>1, FS_EmptySet

LEMMA TokensTell ==
  ASSUME NEW u \in [Process -> Int], IsFiniteSet(Tokens(u)), Cardinality(Tokens(u)) = 0, NEW p \in Process
  PROVE  u[p] >= 0
<1>1. Tokens(u) = {}
  BY FS_EmptySet
<1>2. u[p] < 0 => <<p, 1>> \in Tokens(u)
  BY DEF Tokens
<1> QED BY <1>1, <1>2

LEMMA TokenAdded ==
  ASSUME NEW u \in [Process -> Int], NEW v \in [Process -> Int], NEW p \in Process, u[p] <= 0, v[p] = u[p] - 1,
         \A q \in Process : q # p => v[q] = u[q], IsFiniteSet(Tokens(u))
  PROVE  IsFiniteSet(Tokens(v)) /\ Cardinality(Tokens(v)) = Cardinality(Tokens(u)) + 1
<1> DEFINE t == <<p, 1 - u[p]>>
<1>1. t \in Process \X (Nat \ {0}) /\ t \notin Tokens(u)
  BY DEF Tokens
<1>2. ASSUME NEW x \in Process \X (Nat \ {0}) PROVE x \in Tokens(v) <=> x \in Tokens(u) \/ x = t
  <2>1. PICK q \in Process, n \in Nat \ {0} : x = <<q, n>>
    BY <1>2
  <2>2. (x \in Tokens(v) <=> n <= -v[q]) /\ (x \in Tokens(u) <=> n <= -u[q]) /\ (x = t <=> q = p /\ n = 1 - u[p])
    BY <2>1 DEF Tokens
  <2>3. CASE q = p
    <3>1. u[p] \in Int /\ v[p] \in Int
      OBVIOUS
    <3> QED BY <2>2, <2>3, <3>1
  <2>4. CASE q # p
    BY <2>2, <2>4
  <2> QED BY <2>3, <2>4
<1>3. Tokens(v) = Tokens(u) \cup {t}
  BY <1>1, <1>2 DEF Tokens
<1> QED BY <1>1, <1>3, FS_AddElement

LEMMA TokensOf ==
  ASSUME NEW p, NEW n \in Nat
  PROVE  IsFiniteSet({p} \X (1..n)) /\ Cardinality({p} \X (1..n)) = n
<1>1. IsFiniteSet(1..n) /\ Cardinality(1..n) = n
  BY FS_Interval
<1>2. IsFiniteSet({p}) /\ Cardinality({p}) = 1
  BY FS_Singleton
<1> QED BY <1>1, <1>2, FS_Product

LEMMA TokensRemoved ==
  ASSUME NEW u \in [Process -> Int], NEW v \in [Process -> Int], NEW p \in Process, u[p] <= 0, v[p] = 0,
         \A q \in Process : q # p => v[q] = u[q], IsFiniteSet(Tokens(u))
  PROVE  IsFiniteSet(Tokens(v)) /\ Cardinality(Tokens(v)) = Cardinality(Tokens(u)) + u[p]
<1> DEFINE own == {p} \X (1..(-u[p]))
<1>1. -u[p] \in Nat
  OBVIOUS
<1>2. IsFiniteSet(own) /\ Cardinality(own) = -u[p]
  BY <1>1, TokensOf
<1>3. own \subseteq Process \X (Nat \ {0})
  BY <1>1
<1>4. ASSUME NEW x \in Process \X (Nat \ {0}) PROVE x \in Tokens(u) <=> x \in Tokens(v) \/ x \in own
  <2>1. PICK q \in Process, n \in Nat \ {0} : x = <<q, n>>
    BY <1>4
  <2>2. (x \in Tokens(v) <=> n <= -v[q]) /\ (x \in Tokens(u) <=> n <= -u[q]) /\ (x \in own <=> q = p /\ n <= -u[p])
    BY <1>1, <2>1 DEF Tokens
  <2>3. CASE q = p
    BY <2>2, <2>3
  <2>4. CASE q # p
    BY <2>2, <2>4
  <2> QED BY <2>3, <2>4
<1>5. Tokens(v) \cap own = {}
  BY DEF Tokens
<1> HIDE DEF own
<1>6. Tokens(u) = Tokens(v) \cup own
  BY <1>3, <1>4 DEF Tokens
<1>7. IsFiniteSet(Tokens(v))
  BY <1>6, FS_Subset
<1>8. Cardinality(Tokens(u)) = Cardinality(Tokens(v)) + Cardinality(own) - Cardinality(Tokens(v) \cap own)
  BY <1>2, <1>6, <1>7, FS_Union
<1>9. Cardinality(Tokens(v)) \in Nat /\ Cardinality(Tokens(v) \cap own) = 0
  BY <1>5, <1>7, FS_CardinalityType, FS_EmptySet
<1> QED BY <1>1, <1>2, <1>7, <1>8, <1>9

Adjustments(k) == [p \in Process |-> undo[k][p][Connections]]

CountSound(k) ==
  /\ \A p \in Process : undo[k][p][Connections] <= 0
  /\ IsFiniteSet(Tokens(Adjustments(k)))
  /\ IF semaphore[k] = NoValues THEN \A p \in Process : undo[k][p][Connections] = 0
     ELSE semaphore[k][Connections] = Cardinality(Tokens(Adjustments(k)))

CountsSound == \A k \in Key : CountSound(k)

LEMMA AdjustmentsOf ==
  ASSUME SemaphoreTypes, NEW k \in Key
  PROVE  Adjustments(k) \in [Process -> Int] /\ \A p \in Process : Adjustments(k)[p] = undo[k][p][Connections]
BY DEF SemaphoreTypes, Adjustments, Values, Semaphores

\* A count of zero: nobody has counted.
LEMMA NobodyCounted ==
  ASSUME SemaphoreTypes, NEW k \in Key, CountSound(k), semaphore[k] # NoValues, semaphore[k][Connections] = 0,
         NEW p \in Process
  PROVE  undo[k][p][Connections] = 0
<1>1. Adjustments(k) \in [Process -> Int] /\ Adjustments(k)[p] = undo[k][p][Connections]
  BY AdjustmentsOf
<1>2. Adjustments(k)[p] >= 0 /\ Adjustments(k)[p] <= 0
  BY <1>1, TokensTell DEF CountSound
<1> QED BY <1>1, <1>2

LEMMA CountKept ==
  ASSUME NEW k \in Key, CountSound(k), semaphore'[k][Connections] = semaphore[k][Connections],
         semaphore'[k] = NoValues <=> semaphore[k] = NoValues,
         \A p \in Process : undo'[k][p][Connections] = undo[k][p][Connections]
  PROVE  CountSound(k)'
<1>1. Adjustments(k)' = Adjustments(k)
  BY DEF Adjustments
<1> QED BY <1>1 DEF CountSound

\* What a step may do to the count of k.
LEMMA CountIsZero ==
  ASSUME SemaphoreTypes', NEW k \in Key, semaphore'[k] # NoValues, semaphore'[k][Connections] = 0,
         \A p \in Process : undo'[k][p][Connections] = 0
  PROVE  CountSound(k)'
<1>1. Adjustments(k)' \in [Process -> Int] /\ \A p \in Process : Adjustments(k)'[p] = 0
  BY DEF SemaphoreTypes, Adjustments, Values, Semaphores
<1>2. IsFiniteSet(Tokens(Adjustments(k)')) /\ Cardinality(Tokens(Adjustments(k)')) = 0
  BY <1>1, NoTokens
<1> QED BY <1>2 DEF CountSound

LEMMA CountGrows ==
  ASSUME SemaphoreTypes, SemaphoreTypes', NEW k \in Key, CountSound(k), NEW p \in Process,
         semaphore[k] # NoValues, semaphore'[k] # NoValues,
         semaphore'[k][Connections] = semaphore[k][Connections] + 1,
         \A q \in Process : undo'[k][q][Connections] =
           IF q = p THEN undo[k][q][Connections] - 1 ELSE undo[k][q][Connections]
  PROVE  CountSound(k)'
<1>1. Adjustments(k) \in [Process -> Int] /\ \A q \in Process : Adjustments(k)[q] = undo[k][q][Connections]
  BY AdjustmentsOf
<1> DEFINE v == Adjustments(k)'
<1>2. v \in [Process -> Int] /\ \A q \in Process : v[q] = undo'[k][q][Connections]
  BY DEF SemaphoreTypes, Adjustments, Values, Semaphores
<1> HIDE DEF v
<1>3. Adjustments(k)[p] <= 0 /\ v[p] = Adjustments(k)[p] - 1
      /\ \A q \in Process : q # p => v[q] = Adjustments(k)[q]
  BY <1>1, <1>2 DEF CountSound
<1>4. IsFiniteSet(Tokens(v)) /\ Cardinality(Tokens(v)) = Cardinality(Tokens(Adjustments(k))) + 1
  BY <1>1, <1>2, <1>3, TokenAdded DEF CountSound
<1>5. \A q \in Process : undo'[k][q][Connections] <= 0
  BY <1>1, <1>2, <1>3 DEF CountSound
<1> QED BY <1>4, <1>5 DEF CountSound, v

LEMMA CountUndone ==
  ASSUME SemaphoreTypes, SemaphoreTypes', NEW k \in Key, CountSound(k), NEW p \in Process,
         semaphore[k] # NoValues, semaphore'[k] # NoValues,
         semaphore'[k][Connections] = Undone(semaphore[k][Connections], undo[k][p][Connections]),
         \A q \in Process : undo'[k][q][Connections] = IF q = p THEN 0 ELSE undo[k][q][Connections]
  PROVE  CountSound(k)'
<1>1. Adjustments(k) \in [Process -> Int] /\ \A q \in Process : Adjustments(k)[q] = undo[k][q][Connections]
  BY AdjustmentsOf
<1> DEFINE v == Adjustments(k)'
<1>2. v \in [Process -> Int] /\ \A q \in Process : v[q] = undo'[k][q][Connections]
  BY DEF SemaphoreTypes, Adjustments, Values, Semaphores
<1> HIDE DEF v
<1>3. Adjustments(k)[p] <= 0 /\ v[p] = 0 /\ \A q \in Process : q # p => v[q] = Adjustments(k)[q]
  BY <1>1, <1>2 DEF CountSound
<1>4. IsFiniteSet(Tokens(v)) /\ Cardinality(Tokens(v)) = Cardinality(Tokens(Adjustments(k))) + Adjustments(k)[p]
  BY <1>1, <1>2, <1>3, TokensRemoved DEF CountSound
<1>5. Cardinality(Tokens(v)) \in Nat
  BY <1>4, FS_CardinalityType
<1>6. Undone(semaphore[k][Connections], undo[k][p][Connections]) = Cardinality(Tokens(v))
  BY <1>1, <1>4, <1>5 DEF CountSound, Undone
<1>7. \A q \in Process : undo'[k][q][Connections] <= 0
  BY <1>1, <1>2, <1>3 DEF CountSound
<1> QED BY <1>4, <1>6, <1>7 DEF CountSound, v

LEMMA LockStepKeepsCounts ==
  ASSUME CountsSound, SemaphoreTypes, SemaphoreTypes', SemaphoresStay, NEW k \in Key, semaphore[k] # NoValues,
         NEW i \in Semaphores, i # Connections, NEW p, NEW value, NEW adjustment,
         Becomes(k, i, value), UndoBecomes(k, p, i, adjustment)
  PROVE  CountsSound'
<1> SUFFICES ASSUME NEW l \in Key PROVE CountSound(l)'
  BY DEF CountsSound
<1>1. Connections \in Semaphores
  BY DEF Semaphores
<1>2. semaphore'[l][Connections] = semaphore[l][Connections]
      /\ \A q \in Process : undo'[l][q][Connections] = undo[l][q][Connections]
  BY <1>1 DEF Becomes, UndoBecomes
<1>3. semaphore'[l] = NoValues <=> semaphore[l] = NoValues
  <2>1. semaphore[l] = NoValues <=> semaphore[l][Connections] = -1
    BY <1>1, NoneOrAll
  <2>2. semaphore'[l] = NoValues <=> semaphore'[l][Connections] = -1
    <3>1. semaphore'[l] # NoValues => semaphore'[l][Connections] >= 0
      BY <1>1 DEF SemaphoreTypes
    <3> QED BY <3>1, Constants
  <2> QED BY <1>2, <2>1, <2>2
<1> QED BY <1>2, <1>3, CountKept DEF CountsSound

LEMMA KernelKeepsCounts ==
  ASSUME CountsSound, UNCHANGED kernel
  PROVE  CountsSound'
BY CountKept DEF CountsSound, kernel

LEMMA NextCounts ==
  ASSUME FInv, CountsSound, Next
  PROVE  CountsSound'
<1>1. /\ TypeOK /\ Places /\ SemaphoreTypes /\ SemaphoreTypes' /\ SemaphoresStay
      /\ {Ownership, Connections, WriteAccess} = Semaphores
      /\ Connections # Ownership /\ Connections # WriteAccess
  BY Types, NextTypes DEF FInv, StepTypes, Semaphores, Ownership, Connections, WriteAccess
<1>2. ASSUME NEW c \in Connection, HasKey(c) PROVE K(c) \in Key /\ semaphore[K(c)] # NoValues
  BY <1>1, <1>2, ConnectionTypes DEF Places, PlaceSound
<1>3. ASSUME NEW c \in Connection,
             \/ \E secondary \in BOOLEAN : FindFile(c, secondary)
             \/ OpenFile(c) \/ PrepareDatabase(c) \/ PreparationFails(c) \/ RemoveFile(c) \/ ReadConnections(c)
             \/ CheckVersion(c) \/ OpenTransientStore(c) \/ OpenFails(c) \/ Close(c)
      PROVE  CountsSound'
  <2>1. UNCHANGED kernel
    BY <1>3 DEF FindFile, OpenFile, PrepareDatabase, PreparationFails, RemoveFile, ReadConnections, CheckVersion,
       OpenTransientStore, OpenFails, Close
  <2> QED BY <2>1, KernelKeepsCounts
<1>4. ASSUME NEW c \in Connection, DecrementOwnership(c) PROVE CountsSound'
  <2>1. HasKey(c) /\ Decrement(c, Ownership)
    BY <1>4 DEF DecrementOwnership, HasKey, At
  <2> QED BY <1>1, <1>2, <2>1, Decremented, LockStepKeepsCounts
<1>5. ASSUME NEW c \in Connection, Lock(c) PROVE CountsSound'
  <2>1. HasKey(c) /\ Decrement(c, WriteAccess)
    BY <1>5 DEF Lock, HasKey, At
  <2> QED BY <1>1, <1>2, <2>1, Decremented, LockStepKeepsCounts
<1>6. ASSUME NEW c \in Connection, UpgradeDatabase(c) \/ UpgradeFails(c) PROVE CountsSound'
  <2>1. HasKey(c) /\ Increment(c, WriteAccess)
    BY <1>6 DEF UpgradeDatabase, UpgradeFails, HasKey, At
  <2> QED BY <1>1, <1>2, <2>1, Incremented, LockStepKeepsCounts
<1>7. ASSUME NEW c \in Connection, IncrementConnections(c) PROVE CountsSound'
  <2>1. HasKey(c) /\ P(c) \in Process
    BY <1>7, Constants DEF IncrementConnections, HasKey, At
  <2>2. /\ \A k \in Key, i \in Semaphores :
             semaphore'[k][i] = IF k = K(c) /\ i # WriteAccess THEN semaphore[k][i] + 1 ELSE semaphore[k][i]
        /\ \A k \in Key, p \in Process, i \in Semaphores :
             undo'[k][p][i] = IF k = K(c) /\ p = P(c) /\ i # WriteAccess THEN undo[k][p][i] - 1 ELSE undo[k][p][i]
        /\ \A k \in Key : k # K(c) => semaphore'[k] = semaphore[k]
    BY <1>1, <1>2, <1>7, <2>1, CountIncremented DEF IncrementConnections, SemaphoreTypes
  <2> SUFFICES ASSUME NEW k \in Key PROVE CountSound(k)'
    BY DEF CountsSound
  <2>3. CASE k = K(c)
    BY <1>1, <1>2, <2>1, <2>2, <2>3, CountGrows DEF CountsSound, SemaphoresStay
  <2>4. CASE k # K(c)
    BY <1>1, <2>2, <2>4, CountKept DEF CountsSound
  <2> QED BY <2>3, <2>4
<1>8. ASSUME NEW c \in Connection, SetValue(c) PROVE CountsSound'
  <2>1. HasKey(c) /\ connection[c].next \in Semaphores
    BY <1>1, <1>8, ConnectionTypes DEF SetValue, HasKey, At
  <2> PICK k \in Key, n \in Semaphores : k = K(c) /\ n = connection[c].next
    BY <1>2, <2>1
  <2>2. /\ semaphore[k] # NoValues /\ Becomes(k, n, initialValues[n])
        /\ \A l \in Key, p \in Process, i \in Semaphores :
             undo'[l][p][i] = IF l = k /\ i = n THEN 0 ELSE undo[l][p][i]
    BY <1>1, <1>2, <1>8, <2>1, ValueSet
  <2>3. \A l \in Key : l # k => semaphore'[l] = semaphore[l]
    BY <1>1, <1>8 DEF SetValue, SemaphoreTypes
  <2> SUFFICES ASSUME NEW l \in Key PROVE CountSound(l)'
    BY DEF CountsSound
  <2>4. CASE l = k /\ n = Connections
    <3>1. semaphore'[l] # NoValues
      BY <1>1, <2>2, <2>4 DEF SemaphoresStay
    <3>2. initialValues[Connections] = 0
      BY <1>1 DEF initialValues
    <3>3. semaphore'[l][Connections] = 0 /\ \A p \in Process : undo'[l][p][Connections] = 0
      BY <1>1, <2>2, <2>4, <3>2 DEF Becomes
    <3> QED BY <1>1, <3>1, <3>3, CountIsZero
  <2>5. CASE l = k /\ n # Connections
    <3>1. semaphore'[l] # NoValues /\ semaphore[l] # NoValues
      BY <1>1, <2>2, <2>5 DEF SemaphoresStay
    <3> QED BY <1>1, <2>2, <2>5, <3>1, CountKept DEF CountsSound, Becomes
  <2>6. CASE l # k
    BY <1>1, <2>2, <2>3, <2>6, CountKept DEF CountsSound
  <2> QED BY <2>4, <2>5, <2>6
<1>9. ASSUME NEW c \in Connection, AttachSemaphores(c) PROVE CountsSound'
  <2>1. directory \in Key
    BY <1>1, ConnectionTypes
  <2>2. CASE semaphore[directory] # NoValues
    BY <1>1, <1>9, <2>1, <2>2, SemaphoresCreated, KernelKeepsCounts DEF kernel
  <2>3. CASE semaphore[directory] = NoValues
    <3> SUFFICES ASSUME NEW l \in Key PROVE CountSound(l)'
      BY DEF CountsSound
    <3>1. UNCHANGED undo /\ semaphore'[directory] # NoValues
          /\ \A k \in Key, i \in Semaphores : semaphore'[k][i] = IF k = directory THEN 0 ELSE semaphore[k][i]
      BY <1>1, <1>9, <2>1, <2>3, SemaphoresCreated
    <3>2. \A k \in Key : k # directory => semaphore'[k] = semaphore[k]
      BY <1>1, <1>9, <2>3 DEF AttachSemaphores, SemaphoreTypes
    <3>3. CASE l = directory
      <4>1. \A p \in Process : undo'[l][p][Connections] = 0
        BY <2>3, <3>1, <3>3 DEF CountsSound, CountSound
      <4>2. semaphore'[l] # NoValues /\ semaphore'[l][Connections] = 0
        BY <1>1, <3>1, <3>3
      <4> QED BY <1>1, <4>1, <4>2, CountIsZero
    <3>4. CASE l # directory
      BY <3>1, <3>2, <3>4, CountKept DEF CountsSound
    <3> QED BY <3>3, <3>4
  <2> QED BY <2>2, <2>3
<1>10. ASSUME NEW p \in Process, Exit(p) PROVE CountsSound'
  <2> SUFFICES ASSUME NEW k \in Key PROVE CountSound(k)'
    BY DEF CountsSound
  <2>1. /\ semaphore[k] # NoValues =>
             semaphore'[k][Connections] = Undone(semaphore[k][Connections], undo[k][p][Connections])
        /\ semaphore[k] = NoValues => semaphore'[k] = NoValues
        /\ \A q \in Process : undo'[k][q][Connections] = IF q = p THEN 0 ELSE undo[k][q][Connections]
    BY <1>1, <1>10, ProcessUndone
  <2>2. CASE semaphore[k] # NoValues
    BY <1>1, <2>1, <2>2, CountUndone DEF CountsSound, SemaphoresStay
  <2>3. CASE semaphore[k] = NoValues
    <3>1. \A q \in Process : undo'[k][q][Connections] = undo[k][q][Connections]
      BY <2>1, <2>3 DEF CountsSound, CountSound
    <3> QED BY <2>1, <2>3, <3>1, CountKept DEF CountsSound
  <2> QED BY <2>2, <2>3
<1> QED
  BY <1>3, <1>4, <1>5, <1>6, <1>7, <1>8, <1>9, <1>10 DEF Next, Step

(***************************************************************************)
(* The owners.                                                             *)
(***************************************************************************)
Owns(c) == connection[c].owner
AtWork(c) == connection[c].pc \in {"lock", "upgrade"} \/ (connection[c].pc = "count" /\ Upgrades(c))
CountKnown(c) == K(c) \notin recounted

\* Who was counted is known to the kernel, and an owner has found the count at
\* zero: it is the only one of its key, and who is ready while it is at work was so before.
OwnersSound ==
  /\ \A c \in Connection :
       /\ Owns(c) => connection[c].pc = "count" \/ Counted(c)
       /\ connection[c].pc \in {"lock", "upgrade"} => Owns(c)
       /\ Counted(c) /\ CountKnown(c) => undo[K(c)][P(c)][Connections] < 0
  /\ \A c, d \in Connection :
       /\ Owns(c) /\ Owns(d) /\ K(c) = K(d) /\ CountKnown(c) => c = d
       /\ Ready(c) /\ CountKnown(c) /\ K(c) = K(d) /\ F(c) = F(d) /\ AtWork(d) => c \in overtaken

OInv == LInv /\ CountsSound /\ OwnersSound

LEMMA WorkOf == ASSUME NEW c, NEW f PROVE OwnerAtWork(f, c) <=> F(c) = f /\ AtWork(c)
BY DEF OwnerAtWork, AtWork, At

CountsNotLost ==
  /\ recounted \subseteq recounted'
  /\ \A k \in Key \ recounted', p \in Process : undo[k][p][Connections] < 0 => undo'[k][p][Connections] < 0

\* What most steps leave to a connection, or take from it.
NoGain(c) ==
  /\ Owns(c)' => Owns(c) /\ K(c)' = K(c) /\ (connection'[c].pc = "count" \/ Counted(c)')
  /\ connection'[c].pc \in {"lock", "upgrade"} => Owns(c)'
  /\ Counted(c)' /\ CountKnown(c)' => undo'[K(c)'][P(c)][Connections] < 0
  /\ Ready(c)' => Ready(c) /\ K(c)' = K(c) /\ F(c)' = F(c) /\ (c \in overtaken => c \in overtaken')
  /\ AtWork(c)' => AtWork(c) /\ K(c)' = K(c) /\ F(c)' = F(c)

LEMMA OwnersKept ==
  ASSUME OwnersSound, recounted \subseteq recounted', \A c \in Connection : NoGain(c)
  PROVE  OwnersSound'
BY DEF OwnersSound, NoGain, CountKnown, P

\* A connection that the step does not move.
LEMMA OthersGain ==
  ASSUME TypeOK, OwnersSound, CountsNotLost, NEW d \in Connection, connection'[d] = connection[d],
         d \in overtaken => d \in overtaken'
  PROVE  NoGain(d)
<1>1. /\ Owns(d)' = Owns(d) /\ K(d)' = K(d) /\ F(d)' = F(d) /\ (Counted(d)' <=> Counted(d))
      /\ (Ready(d)' <=> Ready(d)) /\ (AtWork(d)' <=> AtWork(d))
  BY DEF Owns, K, F, Counted, Ready, At, AtWork, Upgrades
<1>2. K(d) \in Key /\ P(d) \in Process
  BY ConnectionTypes, Constants
<1>3. CountKnown(d)' => CountKnown(d)
  BY <1>1 DEF CountKnown, CountsNotLost
<1>4. Counted(d)' /\ CountKnown(d)' => undo'[K(d)'][P(d)][Connections] < 0
  BY <1>1, <1>2, <1>3 DEF OwnersSound, CountsNotLost, CountKnown
<1> QED BY <1>1, <1>4 DEF OwnersSound, NoGain

LEMMA OneGains ==
  ASSUME TypeOK, OwnersSound, CountsNotLost, NEW c \in Connection, OnlyConnection(c), NoGain(c),
         \A d \in Connection : d # c /\ d \in overtaken => d \in overtaken'
  PROVE  OwnersSound'
BY OthersGain, OwnersKept DEF OnlyConnection, CountsNotLost

\* Semaphores other than the count do not matter to the owners.
LEMMA LockStepKeepsCount ==
  ASSUME UNCHANGED recounted, NEW i \in Semaphores, i # Connections, NEW k, NEW p, NEW adjustment,
         UndoBecomes(k, p, i, adjustment)
  PROVE  CountsNotLost
BY DEF CountsNotLost, UndoBecomes, Semaphores

\* Who moves on without becoming an owner, or being counted, or ready.
LEMMA Idles ==
  ASSUME NEW c \in Connection, ~Owns(c)', ~Counted(c)', ~Ready(c)', ~AtWork(c)'
  PROVE  NoGain(c)
BY DEF NoGain, Counted

LEMMA ClosedIdles ==
  ASSUME NEW c \in Connection, connection'[c] = Closed
  PROVE  NoGain(c)
<1>1. connection'[c].pc = "closed" /\ ~connection'[c].owner
  BY DEF Closed
<1> QED BY <1>1, Idles DEF Owns, Counted, Ready, At, AtWork

\* The owner finds nobody counted.
LEMMA ReadConnectionsOwners ==
  ASSUME OInv, NEW c \in Connection, ReadConnections(c)
  PROVE  OwnersSound'
<1>1. /\ TypeOK /\ SemaphoreTypes /\ At(c, "value") /\ UNCHANGED <<semaphore, undo, recounted, overtaken>>
      /\ LocksSound /\ CountsSound /\ OwnersSound /\ Places
  BY Types DEF OInv, LInv, FInv, ReadConnections, kernel, history
<1> PICK k \in Key : k = K(c)
  BY <1>1, ConnectionTypes
<1>2. /\ OnlyConnection(c) /\ connection'[c].pc = "count" /\ K(c)' = k
      /\ Owns(c)' = (semaphore[k][Connections] = 0)
  BY <1>1, ReadEffect DEF Owns
<1>3. \A d \in Connection \ {c} :
        /\ Owns(d)' = Owns(d) /\ K(d)' = K(d) /\ F(d)' = F(d) /\ (Counted(d)' <=> Counted(d))
        /\ (Ready(d)' <=> Ready(d)) /\ (AtWork(d)' <=> AtWork(d)) /\ connection'[d].pc = connection[d].pc
  BY <1>2 DEF OnlyConnection, Owns, K, F, Counted, Ready, At, AtWork, Upgrades
<1>4. ASSUME Owns(c)', k \notin recounted, NEW d \in Connection, K(d) = k PROVE ~Counted(d)
  <2>1. semaphore[k] # NoValues
    BY <1>1 DEF Places, PlaceSound, HasKey, At
  <2>2. P(d) \in Process
    BY Constants
  <2>3. undo[k][P(d)][Connections] = 0
    BY <1>1, <1>2, <1>4, <2>1, <2>2, NobodyCounted DEF CountsSound
  <2> QED BY <1>1, <1>4, <2>3 DEF OwnersSound, CountKnown
<1>5. ASSUME NEW d \in Connection, K(d) = k, connection[d].pc = "count" PROVE FALSE
  <2>1. LockSound(k, Ownership) /\ Holder(d, k, Ownership) /\ Holder(c, k, Ownership)
    BY <1>1, <1>5 DEF LocksSound, Locks, Holder, At
  <2>2. c = d
    BY <2>1 DEF LockSound
  <2> QED BY <1>1, <1>5, <2>2 DEF At
<1>6. ASSUME Owns(c)', k \notin recounted, NEW d \in Connection, K(d) = k PROVE ~Owns(d)
  BY <1>1, <1>4, <1>5, <1>6 DEF OwnersSound
<1>7. ~Counted(c)' /\ ~Ready(c)' /\ (AtWork(c)' => Owns(c)')
  BY <1>2 DEF Counted, Ready, At, AtWork, Upgrades, Owns
<1>8. \A d \in Connection : CountKnown(d)' <=> K(d)' \notin recounted
  BY <1>1 DEF CountKnown
<1>9. \A d \in Connection : (Ready(d) => Counted(d))
  BY DEF Ready, At, Counted
<1>10. ASSUME NEW d \in Connection
       PROVE  /\ Owns(d)' => connection'[d].pc = "count" \/ Counted(d)'
              /\ connection'[d].pc \in {"lock", "upgrade"} => Owns(d)'
              /\ Counted(d)' /\ CountKnown(d)' => undo'[K(d)'][P(d)][Connections] < 0
  BY <1>1, <1>2, <1>3, <1>7, <1>8 DEF OwnersSound, CountKnown
<1>11. ASSUME NEW d \in Connection, NEW e \in Connection, Owns(d)', Owns(e)', K(d)' = K(e)', CountKnown(d)'
       PROVE  d = e
  BY <1>1, <1>2, <1>3, <1>6, <1>8, <1>11 DEF OwnersSound, CountKnown
<1>12. ASSUME NEW d \in Connection, NEW e \in Connection, Ready(d)', CountKnown(d)', K(d)' = K(e)', F(d)' = F(e)',
              AtWork(e)'
       PROVE  d \in overtaken'
  <2>1. d # c
    BY <1>7, <1>12
  <2>2. CASE e = c
    BY <1>2, <1>3, <1>4, <1>7, <1>8, <1>9, <1>12, <2>1, <2>2
  <2>3. CASE e # c
    BY <1>1, <1>3, <1>8, <1>12, <2>1, <2>3 DEF OwnersSound, CountKnown
  <2> QED BY <2>2, <2>3
<1>13. \A d \in Connection : P(d)' = P(d)
  BY DEF P
<1> QED BY <1>10, <1>11, <1>12, <1>13 DEF OwnersSound

LEMMA IncrementConnectionsOwners ==
  ASSUME OInv, NEW c \in Connection, IncrementConnections(c)
  PROVE  OwnersSound'
<1>1. /\ TypeOK /\ SemaphoreTypes /\ At(c, "count") /\ UNCHANGED <<recounted, overtaken>>
      /\ CountsSound /\ OwnersSound /\ Places /\ K(c) \in Key /\ P(c) \in Process
  BY Types, ConnectionTypes, Constants DEF OInv, LInv, FInv, IncrementConnections, history
<1>2. /\ OnlyConnection(c) /\ K(c)' = K(c) /\ F(c)' = F(c) /\ Owns(c)' = Owns(c)
      /\ connection'[c].pc = IF ~connection[c].preexisting THEN "transient"
                             ELSE IF Upgrades(c) THEN "lock" ELSE "version"
  BY <1>1, CountEffect DEF Owns
<1>3. semaphore[K(c)] # NoValues
  BY <1>1 DEF Places, PlaceSound, HasKey, At
<1>4. \A k \in Key, p \in Process : undo'[k][p][Connections] =
        IF k = K(c) /\ p = P(c) THEN undo[k][p][Connections] - 1 ELSE undo[k][p][Connections]
  BY <1>1, <1>3, CountIncremented DEF Semaphores, Connections, WriteAccess
<1>5. \A k \in Key, p \in Process : undo[k][p][Connections] \in Int /\ undo[k][p][Connections] <= 0
  BY <1>1 DEF CountsSound, CountSound, SemaphoreTypes, Values, Semaphores
<1>6. CountsNotLost
  BY <1>1, <1>4, <1>5 DEF CountsNotLost
<1>7. undo'[K(c)][P(c)][Connections] < 0
  BY <1>1, <1>4, <1>5
<1>8. /\ connection'[c].pc \in {"lock", "upgrade"} => Upgrades(c)
      /\ Counted(c)' /\ ~Ready(c)' /\ (AtWork(c)' => AtWork(c))
  BY <1>1, <1>2 DEF Counted, Ready, At, AtWork
<1>9. NoGain(c)
  BY <1>2, <1>7, <1>8 DEF NoGain, Upgrades, Owns
<1> QED BY <1>1, <1>2, <1>6, <1>9, OneGains

LEMMA OpenTransientStoreOwners ==
  ASSUME OInv, NEW c \in Connection, OpenTransientStore(c)
  PROVE  OwnersSound'
<1>1. /\ TypeOK /\ At(c, "transient") /\ UNCHANGED <<undo, recounted, files>> /\ OwnersSound
      /\ connection \in [Connection -> Opening(files)] /\ Goto(c, "ready")
  BY Types DEF OInv, LInv, FInv, OpenTransientStore, kernel, database
<1>2. OnlyConnection(c) /\ Moves(c, "ready")
  BY <1>1, Moved DEF Locations
<1>3. overtaken \subseteq overtaken'
      /\ ((\E d \in Connection : F(d) = F(c) /\ AtWork(d)) => c \in overtaken')
  BY WorkOf DEF OpenTransientStore
<1>4. Owns(c)' = Owns(c) /\ K(c)' = K(c) /\ F(c)' = F(c) /\ Counted(c)' /\ Counted(c) /\ ~AtWork(c)' /\ ~AtWork(c)
  BY <1>1, <1>2 DEF Moves, Owns, Counted, AtWork, At
<1>5. \A d \in Connection \ {c} :
        /\ Owns(d)' = Owns(d) /\ K(d)' = K(d) /\ F(d)' = F(d) /\ (Counted(d)' <=> Counted(d))
        /\ (Ready(d)' <=> Ready(d)) /\ (AtWork(d)' <=> AtWork(d)) /\ connection'[d].pc = connection[d].pc
  BY <1>2 DEF OnlyConnection, Owns, K, F, Counted, Ready, At, AtWork, Upgrades
<1>6. \A d \in Connection : (CountKnown(d)' <=> CountKnown(d)) /\ K(d)' = K(d) /\ F(d)' = F(d) /\ P(d)' = P(d)
                            /\ Owns(d)' = Owns(d) /\ (Counted(d)' <=> Counted(d)) /\ (AtWork(d)' <=> AtWork(d))
  BY <1>1, <1>4, <1>5 DEF CountKnown, P
<1>7. connection'[c].pc = "ready"
  BY <1>2 DEF Moves
<1>8. ASSUME NEW d \in Connection
      PROVE  /\ Owns(d)' => connection'[d].pc = "count" \/ Counted(d)'
             /\ connection'[d].pc \in {"lock", "upgrade"} => Owns(d)'
             /\ Counted(d)' /\ CountKnown(d)' => undo'[K(d)'][P(d)'][Connections] < 0
  BY <1>1, <1>4, <1>5, <1>6, <1>7 DEF OwnersSound
<1>9. ASSUME NEW d \in Connection, NEW e \in Connection, Owns(d)', Owns(e)', K(d)' = K(e)', CountKnown(d)'
      PROVE  d = e
  BY <1>1, <1>6, <1>9 DEF OwnersSound
<1>10. ASSUME NEW d \in Connection, NEW e \in Connection, Ready(d)', CountKnown(d)', K(d)' = K(e)', F(d)' = F(e)',
              AtWork(e)'
       PROVE  d \in overtaken'
  BY <1>1, <1>3, <1>5, <1>6, <1>10 DEF OwnersSound
<1> QED BY <1>8, <1>9, <1>10 DEF OwnersSound

\* A count that is set to zero after somebody has counted is lost; one that was zero is not.
LEMMA SetValueOwners ==
  ASSUME OInv, NEW c \in Connection, SetValue(c)
  PROVE  OwnersSound'
<1>1. /\ TypeOK /\ SemaphoreTypes /\ At(c, "set") /\ UNCHANGED overtaken
      /\ CountsSound /\ OwnersSound /\ Places /\ K(c) \in Key /\ connection[c].next \in Semaphores
  BY Types, ConnectionTypes DEF OInv, LInv, FInv, SetValue
<1>2. semaphore[K(c)] # NoValues
  BY <1>1 DEF Places, PlaceSound, HasKey, At
<1>3. /\ recounted' = IF connection[c].next = Connections /\ semaphore[K(c)][Connections] > 0
                      THEN recounted \cup {K(c)} ELSE recounted
      /\ \A k \in Key, p \in Process : undo'[k][p][Connections] =
           IF k = K(c) /\ connection[c].next = Connections THEN 0 ELSE undo[k][p][Connections]
  <2>1. \A k \in Key, p \in Process, i \in Semaphores :
          undo'[k][p][i] = IF k = K(c) /\ i = connection[c].next THEN 0 ELSE undo[k][p][i]
    BY <1>1, <1>2, ValueSet
  <2> QED BY <2>1 DEF SetValue, Semaphores
<1>4. semaphore[K(c)][Connections] >= 0 /\ semaphore[K(c)][Connections] \in Int
  BY <1>1, <1>2, NoneOrAll DEF Semaphores
<1>5. CountsNotLost
  <2> SUFFICES ASSUME NEW k \in Key \ recounted', NEW p \in Process, undo[k][p][Connections] < 0
               PROVE  undo'[k][p][Connections] < 0
    BY <1>3 DEF CountsNotLost
  <2>1. k = K(c) => semaphore[k][Connections] # 0
    BY <1>1, <1>2, NobodyCounted DEF CountsSound
  <2> QED BY <1>3, <1>4, <2>1
<1>6. OnlyConnection(c) /\ Owns(c)' = Owns(c) /\ connection'[c].pc \in {"set", "own"}
  BY <1>1, SetEffect DEF Owns
<1>7. NoGain(c)
  <2>1. ~Owns(c)
    BY <1>1 DEF OwnersSound, Counted, At
  <2> QED BY <1>6, <2>1, Idles DEF Counted, Ready, At, AtWork
<1> QED BY <1>1, <1>5, <1>6, <1>7, OneGains

LEMMA ExitOwners ==
  ASSUME OInv, NEW p \in Process, Exit(p)
  PROVE  OwnersSound'
<1>1. TypeOK /\ SemaphoreTypes /\ UNCHANGED recounted /\ OwnersSound
  BY Types DEF OInv, LInv, FInv, Exit
<1>2. \A c \in Connection : connection'[c] = IF P(c) = p THEN Closed ELSE connection[c]
  BY <1>1, ExitEffect
<1>3. \A k \in Key, q \in Process : q # p => undo'[k][q][Connections] = undo[k][q][Connections]
  BY <1>1, ProcessUndone DEF Semaphores
<1>4. ASSUME NEW c \in Connection PROVE NoGain(c)
  <2>1. CASE P(c) = p
    BY <1>2, <2>1, ClosedIdles
  <2>2. CASE P(c) # p
    <3>1. connection'[c] = connection[c] /\ (c \in overtaken => c \in overtaken')
      BY <1>2, <2>2 DEF Exit
    <3>2. /\ Owns(c)' = Owns(c) /\ K(c)' = K(c) /\ F(c)' = F(c) /\ (Counted(c)' <=> Counted(c))
          /\ (Ready(c)' <=> Ready(c)) /\ (AtWork(c)' <=> AtWork(c)) /\ (CountKnown(c)' <=> CountKnown(c))
      BY <1>1, <3>1 DEF Owns, K, F, Counted, Ready, At, AtWork, Upgrades, CountKnown
    <3>3. undo'[K(c)][P(c)][Connections] = undo[K(c)][P(c)][Connections]
      BY <1>1, <1>3, <2>2, ConnectionTypes, Constants
    <3> QED BY <1>1, <3>1, <3>2, <3>3 DEF OwnersSound, NoGain
  <2> QED BY <2>1, <2>2
<1> QED BY <1>1, <1>4, OwnersKept

LEMMA NextOwners ==
  ASSUME OInv, Next
  PROVE  OwnersSound'
<1>1. /\ TypeOK /\ Places /\ SemaphoreTypes /\ OwnersSound /\ files \in Nat
      /\ connection \in [Connection -> Opening(files)]
      /\ {Ownership, Connections, WriteAccess} = Semaphores
      /\ Connections # Ownership /\ Connections # WriteAccess
  BY Types, Constants DEF OInv, LInv, FInv, FileTypes, Semaphores, Ownership, Connections, WriteAccess
<1>2. UNCHANGED <<undo, recounted>> => CountsNotLost
  BY DEF CountsNotLost
<1>3. ASSUME NEW c \in Connection, HasKey(c) PROVE K(c) \in Key /\ semaphore[K(c)] # NoValues
  BY <1>1, <1>3, ConnectionTypes DEF Places, PlaceSound
<1>4. ASSUME NEW c \in Connection, NEW secondary \in BOOLEAN, FindFile(c, secondary) PROVE OwnersSound'
  <2>1. CountsNotLost /\ UNCHANGED overtaken
    BY <1>2, <1>4 DEF FindFile, kernel
  <2>2. OnlyConnection(c) /\ NoGain(c)
    BY <1>1, <1>4, FindFileEffect, Idles DEF Owns, Counted, Ready, At, AtWork
  <2> QED BY <1>1, <2>1, <2>2, OneGains
<1>5. ASSUME NEW c \in Connection, OpenFile(c) PROVE OwnersSound'
  <2>1. CountsNotLost /\ UNCHANGED overtaken /\ ~Owns(c)
    BY <1>1, <1>2, <1>5 DEF OpenFile, kernel, OwnersSound, Counted, At
  <2>2. OnlyConnection(c) /\ NoGain(c)
    BY <1>1, <1>5, <2>1, OpenFileEffect, Idles DEF Owns, Counted, Ready, At, AtWork
  <2> QED BY <1>1, <2>1, <2>2, OneGains
<1>6. ASSUME NEW c \in Connection, AttachSemaphores(c) PROVE OwnersSound'
  <2>1. CountsNotLost /\ UNCHANGED overtaken /\ ~Owns(c)
    BY <1>1, <1>2, <1>6 DEF AttachSemaphores, history, OwnersSound, Counted, At
  <2>2. OnlyConnection(c) /\ NoGain(c)
    BY <1>1, <1>6, <2>1, AttachEffect, Idles DEF Owns, Counted, Ready, At, AtWork
  <2> QED BY <1>1, <2>1, <2>2, OneGains
<1>7. ASSUME NEW c \in Connection, PrepareDatabase(c) \/ PreparationFails(c) PROVE OwnersSound'
  <2>1. CountsNotLost /\ UNCHANGED <<overtaken, files>> /\ ~Owns(c)
    BY <1>1, <1>2, <1>7 DEF PrepareDatabase, PreparationFails, history, kernel, database, OwnersSound, Counted, At
  <2>2. PICK l \in {"attach", "remove"} : Goto(c, l)
    BY <1>7 DEF PrepareDatabase, PreparationFails
  <2>3. OnlyConnection(c) /\ Moves(c, l)
    BY <1>1, <2>1, <2>2, Moved DEF Locations
  <2>4. NoGain(c)
    BY <2>1, <2>3, Idles DEF Moves, Owns, Counted, Ready, At, AtWork
  <2> QED BY <1>1, <2>1, <2>3, <2>4, OneGains
<1>8. ASSUME NEW c \in Connection, RemoveFile(c) \/ OpenFails(c) \/ Close(c) PROVE OwnersSound'
  <2>1. /\ CountsNotLost /\ UNCHANGED files /\ connection' = [connection EXCEPT ![c] = Closed]
        /\ \A d \in Connection : d # c /\ d \in overtaken => d \in overtaken'
    BY <1>2, <1>8 DEF RemoveFile, OpenFails, Close, kernel, history, database
  <2>2. OnlyConnection(c) /\ NoGain(c)
    BY <1>1, <2>1, Shut, ClosedIdles
  <2> QED BY <1>1, <2>1, <2>2, OneGains
<1>9. ASSUME NEW c \in Connection, DecrementOwnership(c) PROVE OwnersSound'
  <2>1. /\ HasKey(c) /\ ~Owns(c) /\ Decrement(c, Ownership) /\ Goto(c, "value")
        /\ UNCHANGED <<overtaken, recounted, files>>
    BY <1>1, <1>9 DEF DecrementOwnership, HasKey, history, database, OwnersSound, Counted, At
  <2>2. CountsNotLost
    BY <1>1, <1>3, <2>1, Decremented, LockStepKeepsCount
  <2>3. OnlyConnection(c) /\ Moves(c, "value")
    BY <1>1, <2>1, Moved DEF Locations
  <2>4. NoGain(c)
    BY <2>1, <2>3, Idles DEF Moves, Owns, Counted, Ready, At, AtWork
  <2> QED BY <1>1, <2>1, <2>2, <2>3, <2>4, OneGains
<1>10. ASSUME NEW c \in Connection, OnlyConnection(c), CountsNotLost, UNCHANGED <<overtaken, recounted>>,
              NEW l \in {"upgrade", "transient"}, Moves(c, l), connection[c].pc \in {"lock", "upgrade", "version"},
              l = "upgrade" => connection[c].pc = "lock"
       PROVE  OwnersSound'
  <2>1. Owns(c)' = Owns(c) /\ K(c)' = K(c) /\ F(c)' = F(c) /\ Counted(c) /\ Counted(c)' /\ ~Ready(c)'
        /\ (AtWork(c)' => AtWork(c)) /\ (connection'[c].pc \in {"lock", "upgrade"} => Owns(c))
    BY <1>1, <1>10 DEF Moves, Owns, Counted, Ready, At, AtWork, OwnersSound
  <2>2. Counted(c)' /\ CountKnown(c)' => undo'[K(c)'][P(c)][Connections] < 0
    BY <1>1, <1>10, <2>1, ConnectionTypes, Constants DEF OwnersSound, CountsNotLost, CountKnown
  <2>3. NoGain(c)
    BY <2>1, <2>2 DEF NoGain
  <2> QED BY <1>1, <1>10, <2>3, OneGains
<1>11. ASSUME NEW c \in Connection, Lock(c) PROVE OwnersSound'
  <2>1. /\ HasKey(c) /\ At(c, "lock") /\ Decrement(c, WriteAccess) /\ Goto(c, "upgrade")
        /\ UNCHANGED <<overtaken, recounted, files>>
    BY <1>11 DEF Lock, HasKey, history, database, At
  <2>2. CountsNotLost
    BY <1>1, <1>3, <2>1, Decremented, LockStepKeepsCount
  <2>3. OnlyConnection(c) /\ Moves(c, "upgrade")
    BY <1>1, <2>1, Moved DEF Locations
  <2> QED BY <1>10, <2>1, <2>2, <2>3 DEF At
<1>12. ASSUME NEW c \in Connection, UpgradeDatabase(c) PROVE OwnersSound'
  <2>1. /\ HasKey(c) /\ At(c, "upgrade") /\ Increment(c, WriteAccess) /\ Goto(c, "transient")
        /\ UNCHANGED <<overtaken, recounted, files>>
    BY <1>12 DEF UpgradeDatabase, HasKey, history, At
  <2>2. CountsNotLost
    BY <1>1, <1>3, <2>1, Incremented, LockStepKeepsCount
  <2>3. OnlyConnection(c) /\ Moves(c, "transient")
    BY <1>1, <2>1, Moved DEF Locations
  <2> QED BY <1>10, <2>1, <2>2, <2>3 DEF At
<1>13. ASSUME NEW c \in Connection, UpgradeFails(c) PROVE OwnersSound'
  <2>1. /\ HasKey(c) /\ Increment(c, WriteAccess) /\ connection' = [connection EXCEPT ![c] = Closed]
        /\ UNCHANGED <<overtaken, recounted, files>>
    BY <1>13 DEF UpgradeFails, HasKey, history, At, database
  <2>2. CountsNotLost
    BY <1>1, <1>3, <2>1, Incremented, LockStepKeepsCount
  <2>3. OnlyConnection(c) /\ NoGain(c)
    BY <1>1, <2>1, Shut, ClosedIdles
  <2> QED BY <1>1, <2>1, <2>2, <2>3, OneGains
<1>14. ASSUME NEW c \in Connection, CheckVersion(c) PROVE OwnersSound'
  <2>1. At(c, "version") /\ Goto(c, "transient") /\ UNCHANGED <<undo, overtaken, recounted, files>>
    BY <1>14 DEF CheckVersion, history, database, kernel
  <2>2. OnlyConnection(c) /\ Moves(c, "transient")
    BY <1>1, <2>1, Moved DEF Locations
  <2> QED BY <1>2, <1>10, <2>1, <2>2 DEF At
<1> QED
  BY <1>4, <1>5, <1>6, <1>7, <1>8, <1>9, <1>11, <1>12, <1>13, <1>14, ReadConnectionsOwners, SetValueOwners,
     IncrementConnectionsOwners, OpenTransientStoreOwners, ExitOwners DEF Next, Step

\* The inductive invariant of the semaphores: two locks and a count, whoever creates
\* them, fails or dies.
THEOREM SemaphoresInvariance == Spec => []OInv
<1>1. Init => OInv
  <2> SUFFICES ASSUME Init, FInv PROVE OInv
    BY InitFiles
  <2>1. /\ \A c \in Connection : connection[c] = Closed
        /\ SemaphoreTypes /\ semaphore = [k \in Key |-> NoValues]
        /\ \A k \in Key, p \in Process, i \in Semaphores : undo[k][p][i] = 0
    BY Types DEF Init, FInv
  <2>2. \A c \in Connection : connection[c].pc = "closed" /\ ~connection[c].owner /\ connection[c].next = Ownership
    BY <2>1, ClosedPlace
  <2>3. Setters
    BY <2>2 DEF Setters
  <2>4. LocksSound
    <3> SUFFICES ASSUME NEW k \in Key, NEW i \in Locks PROVE LockSound(k, i)
      BY DEF LocksSound
    <3>1. \A c \in Connection : ~Holder(c, k, i) /\ ~ToSet(c, k, i)
      BY <2>2 DEF Holder, ToSet
    <3>2. semaphore[k][i] = -1 /\ i \in Semaphores
      BY <2>1, LockIndex DEF NoValues
    <3> QED BY <2>1, <3>1, <3>2 DEF LockSound
  <2>5. CountsSound
    <3> SUFFICES ASSUME NEW k \in Key PROVE CountSound(k)
      BY DEF CountsSound
    <3>1. \A p \in Process : undo[k][p][Connections] = 0
      BY <2>1 DEF Semaphores
    <3>2. IsFiniteSet(Tokens(Adjustments(k)))
      BY <2>1, <3>1, AdjustmentsOf, NoTokens
    <3> QED BY <2>1, <3>1, <3>2 DEF CountSound
  <2>6. OwnersSound
    BY <2>2 DEF OwnersSound, Owns, Counted, Ready, At
  <2> QED BY <2>3, <2>4, <2>5, <2>6 DEF OInv, LInv
<1>2. OInv /\ [Next]_vars => OInv'
  <2> SUFFICES ASSUME OInv, [Next]_vars PROVE OInv'
    OBVIOUS
  <2>1. CASE Next
    BY <2>1, NextFiles, NextLocks, NextCounts, NextOwners DEF OInv, LInv
  <2>2. CASE UNCHANGED vars
    <3>1. FInv'
      BY <2>2, FilesStutter DEF OInv, LInv
    <3>2. Setters' /\ LocksSound'
      BY <2>2 DEF OInv, LInv, vars, kernel, history, Setters, LocksSound, LockSound, Holder, ToSet, K, P
    <3>3. CountsSound'
      BY <2>2, KernelKeepsCounts DEF OInv, vars
    <3>4. OwnersSound'
      BY <2>2 DEF OInv, vars, kernel, history, OwnersSound, Owns, Counted, CountKnown, Ready, At, AtWork, Upgrades,
         K, F, P
    <3> QED BY <3>1, <3>2, <3>3, <3>4 DEF OInv, LInv
  <2> QED BY <2>1, <2>2
<1> QED BY <1>1, <1>2, PTL DEF Spec

\* The semaphores of open() do what they are for, in any number of processes that
\* open, fail, close and die: one owner, one upgrade, nobody waits for a lock
\* that nobody has.
THEOREM OneConnectionUpgrades == Spec => []OneUpgrades
<1>1. OInv => OneUpgrades
  <2> SUFFICES ASSUME OInv PROVE OneUpgrades
    OBVIOUS
  <2>1. OneOwner
    BY DEF OInv, OwnersSound, Owns, CountKnown, OneOwner
  <2>2. UpgradeExcludes
    <3> SUFFICES ASSUME NEW c \in Connection, NEW d \in Connection, At(c, "upgrade"), At(d, "upgrade"), c # d
                 PROVE  /\ K(c) # K(d)
                        /\ F(c) = F(d) => F(c) # directory /\ (raced \/ version[F(c)] = 0)
      BY DEF UpgradeExcludes
    <3>1. K(c) # K(d)
      <4>1. K(c) \in Key
        BY ConnectionTypes DEF OInv, LInv, FInv
      <4>2. LockSound(K(c), WriteAccess)
        BY <4>1 DEF OInv, LInv, LocksSound, Locks
      <4>3. Holder(c, K(c), WriteAccess) /\ (K(d) = K(c) => Holder(d, K(c), WriteAccess))
        BY LockIndex DEF Holder, At
      <4> QED BY <4>2, <4>3 DEF LockSound
    <3>2. F(c) = F(d) => F(c) # directory
      BY <3>1 DEF OInv, LInv, FInv, Places, PlaceSound, HasKey, At
    <3>3. F(c) \in File
      BY ConnectionTypes DEF OInv, LInv, FInv, Places, PlaceSound, At
    <3> QED BY <3>1, <3>2, <3>3 DEF OInv, LInv, FInv, CreationInv, Creation, CreatorIsAlone
  <2>3. WaitersAreServed
    <3> SUFFICES ASSUME NEW c \in Connection, K(c) \notin unset
                 PROVE  /\ At(c, "own") /\ semaphore[K(c)][Ownership] = 0 =>
                             \E d \in Connection : K(d) = K(c) /\ connection[d].pc \in {"set", "value", "count"}
                        /\ At(c, "lock") /\ semaphore[K(c)][WriteAccess] = 0 =>
                             \E d \in Connection : K(d) = K(c) /\ connection[d].pc \in {"set", "upgrade"}
      BY DEF WaitersAreServed
    <3>1. K(c) \in Key
      BY ConnectionTypes DEF OInv, LInv, FInv
    <3>2. LockSound(K(c), Ownership) /\ LockSound(K(c), WriteAccess)
      BY <3>1 DEF OInv, LInv, LocksSound, Locks
    <3> QED BY <3>2, LockIndex DEF LockSound, Holder, ToSet
  <2> QED BY <2>1, <2>2, <2>3 DEF OneUpgrades
<1> QED BY <1>1, SemaphoresInvariance, PTL

\* Nobody changes the schema of a file under a connection that is ready,
\* unless the connection became ready while the owner was at work, the count was lost,
\* or two had set out to create the file.
THEOREM SchemaIsStable == Spec => SchemaStable
<1>1. OInv /\ [Next]_vars =>
        \A c \in Connection :
          Ready(c) /\ Ready(c)' /\ K(c) \notin recounted /\ version'[F(c)] # version[F(c)]
            => c \in overtaken \/ raced
  <2> SUFFICES ASSUME OInv, [Next]_vars, NEW c \in Connection, Ready(c), K(c) \notin recounted,
                      version'[F(c)] # version[F(c)], ~raced
               PROVE  c \in overtaken
    OBVIOUS
  <2>1. TypeOK /\ Places /\ Creation /\ FileTypes
    BY Types DEF OInv, LInv, FInv, CreationInv
  <2>2. F(c) \in File /\ version[F(c)] >= Schema(c)
    BY <2>1, ConnectionTypes DEF Places, PlaceSound, Ready, At
  <2>3. version[F(c)] # 0
    <3>1. version[F(c)] \in Nat /\ Schema(c) \in Nat /\ Schema(c) > 0
      BY <2>1, <2>2, Constants DEF FileTypes
    <3> QED BY <2>2, <3>1
  <2>4. F(c) = directory /\ K(c) = directory
    BY <2>1, <2>2, <2>3 DEF Creation, CreatorIsAlone, Places, PlaceSound, HasKey, Ready, At
  <2>5. PICK d \in Connection : PrepareDatabase(d) \/ UpgradeDatabase(d)
    BY DEF Next, Step, vars, database, FindFile, OpenFile, PreparationFails, RemoveFile, AttachSemaphores, SetValue,
       DecrementOwnership, ReadConnections, IncrementConnections, Lock, UpgradeFails, CheckVersion,
       OpenTransientStore, OpenFails, Close, Exit
  <2>6. CASE PrepareDatabase(d)
    <3>1. version[F(d)] = 0 /\ \A f \in File : version'[f] = IF f = F(d) THEN Schema(d) ELSE version[f]
      BY <2>1, <2>6, PrepareVersion
    <3> QED BY <2>2, <2>3, <3>1
  <2>7. CASE UpgradeDatabase(d)
    <3>1. \A f \in File : f # F(d) => version'[f] = version[f]
      BY <2>1, <2>7, UpgradeVersion
    <3>2. F(c) = F(d) /\ At(d, "upgrade")
      BY <2>2, <2>7, <3>1 DEF UpgradeDatabase
    <3>3. K(d) = K(c)
      BY <2>1, <2>4, <3>2 DEF Places, PlaceSound, HasKey, At
    <3> QED BY <3>2, <3>3 DEF OInv, OwnersSound, CountKnown, AtWork, At
  <2> QED BY <2>5, <2>6, <2>7
<1> QED BY <1>1, SemaphoresInvariance, PTL DEF Spec, SchemaStable
===============================================================================
