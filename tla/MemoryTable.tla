----------------------------- MODULE MemoryTable -----------------------------
(***************************************************************************)
(* The table that ContactsTransientStore keeps in shared memory: at its    *)
(* lower end a sorted index of keys, at its upper end a heap of blocks     *)
(* that grows down towards the index, with a free list.  Each operation is *)
(* under the store's data semaphore and thus one step; a migration to a    *)
(* new region is taken key by key.  The contents of a block are kept by    *)
(* its offset, so blocks that overlapped would show in HeapSound.          *)
(***************************************************************************)
EXTENDS Naturals, FiniteSets, Sequences, SequencesExt

CONSTANTS Key,         \* the ids of contacts
          Value,       \* what is stored for them
          DataSize,    \* the bytes of each value
          TableSizes,  \* the sizes of regions, rounded down to the alignment
          Garbage      \* what a block that was deallocated holds

IndexElementSize == 8
IndexOffset == 16        \* offsetof(TableMetadata, index)
AllocationHeader == 4    \* offsetof(Allocation, data)
MinimumAllocation == 8   \* sizeof(Allocation)
Width16 == 65536         \* Allocation::size and dataSize are quint16

ASSUME MemoryAssumption ==
  /\ Key \subseteq Nat /\ IsFiniteSet(Key)
  /\ DataSize \in [Value -> Nat]
  /\ Garbage \notin Value
  /\ \A s \in TableSizes : s \in Nat /\ s > IndexOffset + IndexElementSize /\ s % 4 = 0

VARIABLES table,     \* the table in use
          other,     \* the one a migration writes, NoTable without one
          migrating  \* the keys it has not inserted yet

vars == <<table, other, migrating>>

NoTable == [size |-> 0]

\* MemoryTable(base, size, initialize = true)
NewTable(size) ==
  [size |-> size, index |-> <<>>, freeOffset |-> size, freeList |-> <<>>,
   block |-> <<>>, content |-> <<>>]

Keys(t) == DOMAIN t.index
Offsets(t) == DOMAIN t.block

IsTable(t) ==
  /\ DOMAIN t = {"size", "index", "freeOffset", "freeList", "block", "content"}
  /\ t.size \in TableSizes /\ t.freeOffset \in Nat
  /\ Keys(t) \subseteq Key
  /\ \A k \in Keys(t) : t.index[k] \in Offsets(t)
  /\ t.freeList \in Seq(Offsets(t))
  /\ DOMAIN t.content = Offsets(t)
  /\ \A o \in Offsets(t) :
        o \in Nat /\ t.block[o] \in Nat /\ t.content[o].value \in Value \cup {Garbage}
        /\ t.content[o].length \in Nat

TypeOK ==
  /\ IsTable(table)
  /\ other = NoTable \/ IsTable(other)
  /\ migrating \in SUBSET Keys(table)

\* f with y at x, where the provers do not know TLC's :> and @@.
Extended(f, x, y) == [z \in DOMAIN f \cup {x} |-> IF z = x THEN y ELSE f[z]]

(***************************************************************************)
(* The allocator.                                                          *)
(***************************************************************************)
RoundUp(n, m) == ((n + m - 1) \div m) * m

RequiredSpace(n) == IF AllocationHeader + n > MinimumAllocation THEN AllocationHeader + n ELSE MinimumAllocation
AllocationSize(n) == RoundUp(RequiredSpace(n), 4)

IndexEnd(t) == IndexOffset + IndexElementSize * Cardinality(Keys(t))
FreeSpace(t) == t.freeOffset - IndexEnd(t)
IndexSpace(indexRequired) == IF indexRequired THEN IndexElementSize ELSE 0

\* The places in the free list of the blocks that are large enough, and the
\* first one of the smallest.
Fits(t, n) == {j \in DOMAIN t.freeList : t.block[t.freeList[j]] >= AllocationSize(n)}
BestFit(t, n) ==
  LET Better(i, j) ==
        LET I == t.block[t.freeList[i]]
            J == t.block[t.freeList[j]]
        IN  I < J \/ (I = J /\ i <= j)
  IN  CHOOSE j \in Fits(t, n) : \A i \in Fits(t, n) : Better(j, i)

\* Mutant: the space that the index needs is not counted.
AllocatableWithoutIndex(t, n, indexRequired) ==
  Fits(t, n) # {} \/ FreeSpace(t) >= AllocationSize(n)

\* Mutant: an allocation is never refused.
AllocatableAlways(t, n, indexRequired) == TRUE

\* An allocation needs space for the index even if the free list serves it.
Allocatable(t, n, indexRequired) ==
  /\ FreeSpace(t) >= IndexSpace(indexRequired)
  /\ Fits(t, n) # {} \/ FreeSpace(t) >= AllocationSize(n) + IndexSpace(indexRequired)

AllocatedOffset(t, n) ==
  IF Fits(t, n) # {} THEN t.freeList[BestFit(t, n)] ELSE t.freeOffset - AllocationSize(n)

\* Mutant: a block of the free list stays there.
AllocatedStillFree(t, n) ==
  LET o == AllocatedOffset(t, n)
  IN  IF Fits(t, n) # {} THEN t
      ELSE [t EXCEPT !.freeOffset = o,
                     !.block = Extended(@, o, AllocationSize(n)),
                     !.content = Extended(@, o, [value |-> Garbage, length |-> 0])]

\* A block of the free list is not divided.
Allocated(t, n) ==
  LET o == AllocatedOffset(t, n)
  IN  IF Fits(t, n) # {}
      THEN [t EXCEPT !.freeList = RemoveAt(@, BestFit(t, n))]
      ELSE [t EXCEPT !.freeOffset = o,
                     !.block = Extended(@, o, AllocationSize(n) % Width16),
                     !.content = Extended(@, o, [value |-> Garbage, length |-> 0])]

\* The offset of the next free block overwrites the data.
Deallocated(t, o) ==
  [t EXCEPT !.freeList = <<o>> \o @, !.content[o] = [value |-> Garbage, length |-> 0]]

(***************************************************************************)
(* Insertion and removal.                                                  *)
(***************************************************************************)
\* Mutant: the header of the block is not counted.
InPlaceWithoutHeader(t, k, v) ==
  k \in Keys(t) /\ t.block[t.index[k]] >= DataSize[v]

\* A value that fits the block it replaces is written there.
InPlace(t, k, v) ==
  k \in Keys(t) /\ t.block[t.index[k]] >= RequiredSpace(DataSize[v])

Insertable(t, k, v) ==
  InPlace(t, k, v) \/ Allocatable(t, DataSize[v], k \notin Keys(t))

\* updateValue
Updated(t, o, v) ==
  [t EXCEPT !.content[o] = [value |-> v, length |-> DataSize[v] % Width16]]

Inserted(t, k, v) ==
  IF InPlace(t, k, v) THEN Updated(t, t.index[k], v)
  ELSE LET o == AllocatedOffset(t, DataSize[v])
           a == Allocated(t, DataSize[v])
           d == IF k \in Keys(t) THEN Deallocated(a, t.index[k]) ELSE a
       IN  Updated([d EXCEPT !.index = Extended(@, k, o)], o, v)

Removed(t, k) ==
  [Deallocated(t, t.index[k]) EXCEPT !.index = [l \in Keys(t) \ {k} |-> t.index[l]]]

Init ==
  /\ \E size \in TableSizes : table = NewTable(size)
  /\ other = NoTable
  /\ migrating = {}

\* An insertion that fails changes nothing.
InsertKey(k, v) ==
  /\ other = NoTable
  /\ Insertable(table, k, v)
  /\ table' = Inserted(table, k, v)
  /\ UNCHANGED <<other, migrating>>

RemoveKey(k) ==
  /\ other = NoTable
  /\ k \in Keys(table)
  /\ table' = Removed(table, k)
  /\ UNCHANGED <<other, migrating>>

(***************************************************************************)
(* Migration of what is live to a new table, in the order of the index; on *)
(* an error the new table is given up.                                     *)
(***************************************************************************)
BeginMigration(size) ==
  /\ other = NoTable
  /\ other' = NewTable(size)
  /\ migrating' = Keys(table)
  /\ UNCHANGED table

NextKey == CHOOSE k \in migrating : \A l \in migrating : k <= l
NextValue == table.content[table.index[NextKey]].value

MigrateNext ==
  /\ migrating # {}
  /\ Insertable(other, NextKey, NextValue)
  /\ other' = Inserted(other, NextKey, NextValue)
  /\ migrating' = migrating \ {NextKey}
  /\ UNCHANGED table

MigrationFails ==
  /\ migrating # {}
  /\ ~Insertable(other, NextKey, NextValue)
  /\ other' = NoTable
  /\ migrating' = {}
  /\ UNCHANGED table

EndMigration ==
  /\ other # NoTable
  /\ migrating = {}
  /\ table' = other
  /\ other' = NoTable
  /\ UNCHANGED migrating

Next ==
  \/ \E k \in Key : RemoveKey(k) \/ \E v \in Value : InsertKey(k, v)
  \/ \E size \in TableSizes : BeginMigration(size)
  \/ MigrateNext \/ MigrationFails \/ EndMigration

Spec == Init /\ [][Next]_vars

-----------------------------------------------------------------------------
(***************************************************************************)
(* Properties                                                              *)
(***************************************************************************)
Used(t) == {t.index[k] : k \in Keys(t)}
Free(t) == {t.freeList[j] : j \in DOMAIN t.freeList}

\* Blocks lie in the heap and apart from each other.
BlocksApart(t) ==
  /\ \A o \in Offsets(t) : t.freeOffset <= o /\ o + t.block[o] <= t.size
  /\ \A o, p \in Offsets(t) : o < p => o + t.block[o] <= p

\* "Ensure that the data allocation does not overlap the index space"
\* (memorytable.cpp:228), nor another block: no sequence of insertions,
\* removals and migrations lets two values share memory.
HeapApart(t) == IndexEnd(t) <= t.freeOffset /\ BlocksApart(t)

\* Each block is that of one key or once in the free list, and never both.
Owned(t) ==
  /\ Used(t) \cap Free(t) = {}
  /\ Used(t) \cup Free(t) = Offsets(t)
  /\ \A k, l \in Keys(t) : t.index[k] = t.index[l] => k = l
  /\ \A i, j \in DOMAIN t.freeList : t.freeList[i] = t.freeList[j] => i = j

\* "Q_ASSERT(allocation->size >= requiredSpace(valueSize))"
\* (memorytable.cpp:400): a block has room for the value that it holds.
AllocationsHold(t) ==
  \A k \in Keys(t) : t.block[t.index[k]] >= RequiredSpace(DataSize[t.content[t.index[k]].value])

\* No two values share memory, no block is leaked, freed twice or used after it
\* was freed, and none is too small, in the table and in the one it migrates to,
\* whatever was inserted, replaced, removed and migrated before.
HeapSound == \A t \in {table, other} \ {NoTable} : HeapApart(t) /\ Owned(t) /\ AllocationsHold(t)

\* A migration to a table that is not smaller succeeds, however fragmented the
\* old one is: reallocateTable counts on it.
MigrationSucceeds ==
  [][other # NoTable /\ other.size >= table.size => ~MigrationFails]_vars

\* The value of each key, as value() returns it.
Read(k) ==
  IF k \notin Keys(table) THEN Garbage
  ELSE LET c == table.content[table.index[k]]
       IN  IF c.value \in Value /\ c.length = DataSize[c.value] THEN c.value ELSE Garbage

\* The table is the map that its users take it for, and a migration does not
\* change what is in it.
Map == INSTANCE TableMap WITH NoValue <- Garbage, map <- [k \in Key |-> Read(k)]
ImplementsMap == Map!Spec
=============================================================================
