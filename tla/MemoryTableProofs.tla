-------------------------- MODULE MemoryTableProofs --------------------------
(***************************************************************************)
(* Theorems about MemoryTable, for any keys, values and regions: the types *)
(* of its state, that blocks never overlap and are never leaked or freed   *)
(* twice, and that the table implements the map of TableMap.  A block has  *)
(* room for its value, and the map is implemented, if no value needs a     *)
(* block of 64 KiB or more: the theorems that need it say SmallValues.     *)
(***************************************************************************)
EXTENDS MemoryTable, SequenceTheorems, FiniteSetTheorems, WellFoundedInduction, TLAPS

(***************************************************************************)
(* Lists in which nothing occurs twice, as the free lists are.             *)
(***************************************************************************)
Occurs(x, s) == \E k \in DOMAIN s : s[k] = x

\* Nothing occurs twice in the list.
Once(s) == \A j, k \in DOMAIN s : s[j] = s[k] => j = k

\* One list after another: what occurs in either.
LEMMA ConcatList ==
  ASSUME NEW S, NEW s \in Seq(S), NEW t \in Seq(S)
  PROVE  /\ s \o t \in Seq(S)
         /\ \A x : Occurs(x, s \o t) <=> Occurs(x, s) \/ Occurs(x, t)
         /\ Once(s) /\ Once(t) /\ (\A x \in S : ~(Occurs(x, s) /\ Occurs(x, t))) => Once(s \o t)
<1> DEFINE u == s \o t
<1>1. /\ u \in Seq(S) /\ Len(u) = Len(s) + Len(t)
      /\ \A k \in DOMAIN s : k \in DOMAIN u /\ u[k] = s[k]
      /\ \A k \in DOMAIN t : k + Len(s) \in DOMAIN u /\ u[k + Len(s)] = t[k]
  OBVIOUS
<1>2. \A k \in DOMAIN u : k \in DOMAIN s \/ (k - Len(s) \in DOMAIN t /\ u[k] = t[k - Len(s)])
  OBVIOUS
<1>3. Len(s) \in Nat /\ DOMAIN s \subseteq Int /\ DOMAIN t \subseteq Int /\ DOMAIN u \subseteq Int
  BY <1>1
<1>4. \A k \in DOMAIN s : s[k] \in S
  OBVIOUS
<1> HIDE DEF u
<1>5. ASSUME NEW x PROVE Occurs(x, u) <=> Occurs(x, s) \/ Occurs(x, t)
  BY <1>1, <1>2 DEF Occurs
<1>6. ASSUME Once(s), Once(t), \A x \in S : ~(Occurs(x, s) /\ Occurs(x, t))
      PROVE  Once(u)
  <2> SUFFICES ASSUME NEW j \in DOMAIN u, NEW k \in DOMAIN u, u[j] = u[k] PROVE j = k
    BY DEF Once
  <2>1. CASE j \in DOMAIN s /\ k \in DOMAIN s
    BY <2>1, <1>1, <1>6 DEF Once
  <2>2. CASE j - Len(s) \in DOMAIN t /\ u[j] = t[j - Len(s)] /\ k - Len(s) \in DOMAIN t /\ u[k] = t[k - Len(s)]
    <3>1. j - Len(s) = k - Len(s)
      BY <2>2, <1>6 DEF Once
    <3> QED BY <3>1, <1>3
  <2>3. CASE j \in DOMAIN s /\ k - Len(s) \in DOMAIN t /\ u[k] = t[k - Len(s)]
    BY <2>3, <1>1, <1>4, <1>6 DEF Occurs
  <2>4. CASE k \in DOMAIN s /\ j - Len(s) \in DOMAIN t /\ u[j] = t[j - Len(s)]
    BY <2>4, <1>1, <1>4, <1>6 DEF Occurs
  <2> QED BY <2>1, <2>2, <2>3, <2>4, <1>2
<1> QED BY <1>1, <1>5, <1>6 DEF u

\* One element removed: it occurs no more, the others do.
LEMMA RemovedList ==
  ASSUME NEW S, NEW s \in Seq(S), NEW k \in DOMAIN s, Once(s)
  PROVE  /\ RemoveAt(s, k) \in Seq(S) /\ Once(RemoveAt(s, k))
         /\ \A x : Occurs(x, RemoveAt(s, k)) <=> Occurs(x, s) /\ x # s[k]
<1> DEFINE p == SubSeq(s, 1, k - 1)
           q == SubSeq(s, k + 1, Len(s))
           u == p \o q
<1>1. k \in 1..Len(s) /\ DOMAIN s = 1..Len(s) /\ Len(s) \in Nat
  OBVIOUS
<1>2. RemoveAt(s, k) = u
  BY DEF RemoveAt
<1>3. u = p \o q
  OBVIOUS
<1> HIDE DEF u
<1>4. \A j \in 1..Len(s) : s[j] \in S
  OBVIOUS
<1>5. p \in Seq(S) /\ Len(p) = k - 1 /\ \A j \in 1..(k - 1) : p[j] = s[j]
  <2>1. \A j \in 1..(k - 1) : s[j] \in S
    BY <1>1, <1>4
  <2>2. /\ p \in Seq(S)
        /\ Len(p) = IF 1 <= k - 1 THEN k - 1 - 1 + 1 ELSE 0
        /\ \A j \in 1..(k - 1 - 1 + 1) : p[j] = s[1 + j - 1]
    BY <1>1, <2>1, SubSeqProperties
  <2> QED BY <1>1, <2>2
<1>6. q \in Seq(S) /\ Len(q) = Len(s) - k /\ \A j \in 1..(Len(s) - k) : q[j] = s[j + k]
  <2>1. \A j \in (k + 1)..Len(s) : s[j] \in S
    BY <1>1, <1>4
  <2>2. /\ q \in Seq(S)
        /\ Len(q) = IF k + 1 <= Len(s) THEN Len(s) - (k + 1) + 1 ELSE 0
        /\ \A j \in 1..(Len(s) - (k + 1) + 1) : q[j] = s[(k + 1) + j - 1]
    BY <1>1, <2>1, SubSeqProperties
  <2> HIDE DEF q
  <2>3. Len(q) = Len(s) - k
    <3>1. Len(q) = IF k + 1 <= Len(s) THEN Len(s) - (k + 1) + 1 ELSE 0
      BY <2>2
    <3> QED BY <1>1, <3>1
  <2>4. ASSUME NEW j \in 1..(Len(s) - k) PROVE q[j] = s[j + k]
    <3>1. j \in 1..(Len(s) - (k + 1) + 1) /\ (k + 1) + j - 1 = j + k
      BY <1>1
    <3>2. q[j] = s[(k + 1) + j - 1]
      BY <2>2, <3>1
    <3> QED BY <3>1, <3>2
  <2> QED BY <2>2, <2>3, <2>4
<1> HIDE DEF p, q
<1>7. /\ u \in Seq(S) /\ Len(u) = Len(s) - 1 /\ DOMAIN u = 1..(Len(s) - 1)
      /\ \A i \in 1..(Len(s) - 1) : u[i] = IF i <= k - 1 THEN p[i] ELSE q[i - (k - 1)]
  <2>1. /\ u \in Seq(S) /\ Len(u) = Len(p) + Len(q)
        /\ \A i \in 1..(Len(p) + Len(q)) : u[i] = IF i <= Len(p) THEN p[i] ELSE q[i - Len(p)]
    BY <1>3, <1>5, <1>6, ConcatProperties
  <2>2. DOMAIN u = 1..Len(u)
    BY <2>1
  <2> QED BY <1>1, <1>5, <1>6, <2>1, <2>2
<1>8. \A j \in 1..(k - 1) : u[j] = s[j]
  <2> SUFFICES ASSUME NEW j \in 1..(k - 1) PROVE u[j] = s[j]
    OBVIOUS
  <2>1. j \in 1..(Len(s) - 1) /\ j <= k - 1
    BY <1>1
  <2>2. u[j] = p[j]
    BY <1>7, <2>1
  <2> QED BY <1>5, <2>2
<1>9. \A j \in k..(Len(s) - 1) : u[j] = s[j + 1]
  <2> SUFFICES ASSUME NEW j \in k..(Len(s) - 1) PROVE u[j] = s[j + 1]
    OBVIOUS
  <2>1. j \in 1..(Len(s) - 1) /\ ~(j <= k - 1) /\ j - (k - 1) \in 1..(Len(s) - k) /\ j - (k - 1) + k = j + 1
    BY <1>1
  <2>2. u[j] = q[j - (k - 1)]
    BY <1>7, <2>1
  <2>3. q[j - (k - 1)] = s[j - (k - 1) + k]
    BY <1>6, <2>1
  <2> QED BY <2>1, <2>2, <2>3
<1>10. \A j \in DOMAIN u : \E i \in DOMAIN s : /\ u[j] = s[i] /\ i # k
                                               /\ i = IF j < k THEN j ELSE j + 1
  BY <1>1, <1>7, <1>8, <1>9
<1>11. Once(u)
  <2> SUFFICES ASSUME NEW i \in DOMAIN u, NEW j \in DOMAIN u, u[i] = u[j] PROVE i = j
    BY DEF Once
  <2>1. (IF i < k THEN i ELSE i + 1) = (IF j < k THEN j ELSE j + 1)
    BY <1>10 DEF Once
  <2> QED BY <1>1, <1>7, <2>1
<1>12. ASSUME NEW x, Occurs(x, u) PROVE Occurs(x, s) /\ x # s[k]
  BY <1>1, <1>10, <1>12 DEF Once, Occurs
<1>13. ASSUME NEW x, Occurs(x, s), x # s[k] PROVE Occurs(x, u)
  <2> PICK j \in DOMAIN s : s[j] = x
    BY <1>13 DEF Occurs
  <2>1. CASE j < k
    BY <2>1, <1>1, <1>7, <1>8 DEF Occurs
  <2>2. CASE j > k
    <3>1. j - 1 \in k..(Len(s) - 1) /\ j - 1 \in DOMAIN u
      BY <2>2, <1>1, <1>7
    <3>2. u[j - 1] = s[j]
      BY <3>1, <1>9, <1>1
    <3> QED BY <3>1, <3>2 DEF Occurs
  <2> QED BY <2>1, <2>2, <1>1, <1>13
<1> QED BY <1>2, <1>7, <1>11, <1>12, <1>13

(***************************************************************************)
(* Numbers.                                                                *)
(***************************************************************************)
LEMMA Least ==
  ASSUME NEW T, T \subseteq Nat, T # {}
  PROVE  \E x \in T : \A y \in T : x <= y
<1> DEFINE less == {p \in Nat \X Nat : p[1] < p[2]}
<1>1. IsWellFoundedOn(less, Nat)
  BY NatLessThanWellFounded DEF OpToRel
<1>2. \A x, y \in Nat : <<y, x>> \notin less => x <= y
  OBVIOUS
<1> HIDE DEF less
<1>3. \E x \in T : \A y \in T : <<y, x>> \notin less
  BY <1>1, WFMin
<1> QED BY <1>2, <1>3

LEMMA Sizes ==
  ASSUME NEW n \in Nat
  PROVE  /\ RequiredSpace(n) \in Nat /\ RequiredSpace(n) >= n + AllocationHeader
         /\ AllocationSize(n) \in Nat /\ AllocationSize(n) >= RequiredSpace(n)
         /\ AllocationSize(n) > 0
<1>1. /\ RequiredSpace(n) \in Nat /\ RequiredSpace(n) >= n + AllocationHeader
      /\ RequiredSpace(n) > 0
  BY DEF RequiredSpace, AllocationHeader, MinimumAllocation
<1>2. \A m \in Nat : ((m + 4 - 1) \div 4) * 4 \in Nat /\ ((m + 4 - 1) \div 4) * 4 >= m
  OBVIOUS
<1> QED BY <1>1, <1>2 DEF AllocationSize, RoundUp

LEMMA Remainder ==
  ASSUME NEW n \in Nat
  PROVE  /\ n % Width16 \in Nat /\ n % Width16 <= n
         /\ n < Width16 => n % Width16 = n
BY DEF Width16

(***************************************************************************)
(* The block that an allocation returns.                                   *)
(***************************************************************************)
LEMMA FreeBlocks ==
  ASSUME NEW t, IsTable(t), NEW j \in DOMAIN t.freeList
  PROVE  /\ t.freeList[j] \in Offsets(t) /\ j \in Nat
         /\ t.block[t.freeList[j]] \in Nat
<1>1. t.freeList \in Seq(Offsets(t)) /\ \A o \in Offsets(t) : t.block[o] \in Nat
  BY DEF IsTable
<1> QED BY <1>1

LEMMA BestFitIsFit ==
  ASSUME NEW t, IsTable(t), NEW n, Fits(t, n) # {}
  PROVE  BestFit(t, n) \in Fits(t, n)
<1> DEFINE F == Fits(t, n)
           size(j) == t.block[t.freeList[j]]
           best(j) == \A i \in F : size(j) < size(i) \/ (size(j) = size(i) /\ j <= i)
<1>1. F \subseteq DOMAIN t.freeList /\ F # {}
  BY DEF Fits
<1>2. \A j \in F : j \in Nat /\ size(j) \in Nat
  BY <1>1, FreeBlocks
<1>3. PICK s \in {size(j) : j \in F} : \A r \in {size(j) : j \in F} : s <= r
  <2>1. {size(j) : j \in F} \subseteq Nat /\ {size(j) : j \in F} # {}
    BY <1>1, <1>2
  <2> QED BY <2>1, Least
<1>4. PICK k \in {j \in F : size(j) = s} : \A j \in {i \in F : size(i) = s} : k <= j
  <2>1. {j \in F : size(j) = s} \subseteq Nat /\ {j \in F : size(j) = s} # {}
    BY <1>2, <1>3
  <2> QED BY <2>1, Least
<1>5. k \in F /\ best(k)
  BY <1>2, <1>3, <1>4
<1>6. BestFit(t, n) = CHOOSE j \in F : best(j)
  BY DEF BestFit
<1> HIDE DEF best, F
<1> QED BY <1>5, <1>6 DEF F

(***************************************************************************)
(* What an allocation returns: offset o in the table a.                    *)
(***************************************************************************)
LEMMA AllocationFrame ==
  ASSUME NEW t, IsTable(t), NEW n
  PROVE  /\ DOMAIN Allocated(t, n) = DOMAIN t
         /\ Allocated(t, n).size = t.size /\ Allocated(t, n).index = t.index
BY DEF Allocated, IsTable

LEMMA FittingBlock ==
  ASSUME NEW t, IsTable(t), Owned(t), NEW n \in Nat, Fits(t, n) # {},
         NEW o, o = AllocatedOffset(t, n), NEW a, a = Allocated(t, n)
  PROVE  /\ o \in Offsets(t) /\ o \notin Used(t)
         /\ t.block[o] >= AllocationSize(n)
         /\ a.freeOffset = t.freeOffset /\ a.block = t.block /\ a.content = t.content
         /\ a.freeList \in Seq(Offsets(t)) /\ Once(a.freeList)
         /\ \A p : Occurs(p, a.freeList) <=> Occurs(p, t.freeList) /\ p # o
<1> DEFINE j == BestFit(t, n)
<1>1. j \in DOMAIN t.freeList /\ t.block[t.freeList[j]] >= AllocationSize(n)
  BY BestFitIsFit DEF Fits
<1>2. o = t.freeList[j] /\ a = [t EXCEPT !.freeList = RemoveAt(t.freeList, j)]
  BY DEF AllocatedOffset, Allocated
<1> HIDE DEF j
<1>3. o \in Offsets(t) /\ o \in Free(t) /\ o \notin Used(t)
  BY <1>1, <1>2, FreeBlocks DEF Owned, Free
<1>4. t.freeList \in Seq(Offsets(t)) /\ Once(t.freeList)
  BY DEF IsTable, Owned, Once
<1>5. /\ a.freeList = RemoveAt(t.freeList, j)
      /\ a.freeOffset = t.freeOffset /\ a.block = t.block /\ a.content = t.content
  BY <1>2 DEF IsTable
<1>6. /\ a.freeList \in Seq(Offsets(t)) /\ Once(a.freeList)
      /\ \A p : Occurs(p, a.freeList) <=> Occurs(p, t.freeList) /\ p # o
  BY <1>1, <1>2, <1>4, <1>5, RemovedList
<1> QED BY <1>1, <1>2, <1>3, <1>5, <1>6

LEMMA FreshBlock ==
  ASSUME NEW t, IsTable(t), BlocksApart(t), Owned(t), NEW n \in Nat, Fits(t, n) = {},
         AllocationSize(n) <= t.freeOffset, t.freeOffset <= t.size,
         NEW o, o = AllocatedOffset(t, n), NEW a, a = Allocated(t, n)
  PROVE  /\ o \in Nat /\ o \notin Offsets(t) /\ o = t.freeOffset - AllocationSize(n)
         /\ a.freeOffset = o /\ a.freeList = t.freeList
         /\ DOMAIN a.block = Offsets(t) \cup {o} /\ DOMAIN a.content = Offsets(t) \cup {o}
         /\ a.block[o] = AllocationSize(n) % Width16
         /\ a.content[o] = [value |-> Garbage, length |-> 0]
         /\ \A p \in Offsets(t) : a.block[p] = t.block[p] /\ a.content[p] = t.content[p]
         /\ BlocksApart(a) /\ a.freeOffset <= a.size
<1>1. /\ t.freeOffset \in Nat /\ DOMAIN t.content = Offsets(t)
      /\ \A p \in Offsets(t) : p \in Nat /\ t.block[p] \in Nat
  BY DEF IsTable
<1>2. /\ AllocationSize(n) \in Nat /\ AllocationSize(n) > 0
      /\ AllocationSize(n) % Width16 \in Nat /\ AllocationSize(n) % Width16 <= AllocationSize(n)
  BY Sizes, Remainder
<1>3. /\ o = t.freeOffset - AllocationSize(n) /\ o \in Nat /\ o < t.freeOffset
  BY <1>1, <1>2 DEF AllocatedOffset
<1>4. o \notin Offsets(t)
  BY <1>1, <1>3 DEF BlocksApart
<1>5. /\ a.freeOffset = o /\ a.freeList = t.freeList /\ a.size = t.size
      /\ a.block = Extended(t.block, o, AllocationSize(n) % Width16)
      /\ a.content = Extended(t.content, o, [value |-> Garbage, length |-> 0])
  BY <1>3 DEF Allocated, AllocatedOffset, IsTable
<1>6. /\ DOMAIN a.block = Offsets(t) \cup {o}
      /\ a.block[o] = AllocationSize(n) % Width16
      /\ \A p \in Offsets(t) : a.block[p] = t.block[p]
  BY <1>4, <1>5 DEF Extended, Offsets
<1>7. /\ DOMAIN a.content = Offsets(t) \cup {o}
      /\ a.content[o] = [value |-> Garbage, length |-> 0]
      /\ \A p \in Offsets(t) : a.content[p] = t.content[p]
  BY <1>1, <1>4, <1>5 DEF Extended, Offsets
<1>8. BlocksApart(a) /\ a.freeOffset <= a.size
  <2>1. t.size \in Nat
    BY MemoryAssumption DEF IsTable
  <2>2. /\ \A p \in Offsets(t) : t.freeOffset <= p /\ p + t.block[p] <= t.size
        /\ \A p, q \in Offsets(t) : p < q => p + t.block[p] <= q
    BY DEF BlocksApart
  <2>3. o + a.block[o] <= t.freeOffset /\ t.freeOffset <= t.size /\ a.block[o] \in Nat
    BY <1>1, <1>2, <1>3, <1>6
  <2>4. Offsets(a) = Offsets(t) \cup {o}
    BY <1>6 DEF Offsets
  <2>5. \A p \in Offsets(a) : a.freeOffset <= p /\ p + a.block[p] <= a.size
    BY <1>1, <1>3, <1>5, <1>6, <2>1, <2>2, <2>3, <2>4
  <2>6. \A p, q \in Offsets(a) : p < q => p + a.block[p] <= q
    BY <1>1, <1>3, <1>6, <2>2, <2>3, <2>4
  <2>7. a.freeOffset <= a.size
    BY <1>1, <1>3, <1>5, <2>1
  <2> QED BY <2>5, <2>6, <2>7 DEF BlocksApart
<1> QED BY <1>3, <1>4, <1>5, <1>6, <1>7, <1>8

(***************************************************************************)
(* A table whose blocks are laid out soundly, and what is in them.         *)
(***************************************************************************)
Laid(t) == IsTable(t) /\ HeapApart(t) /\ Owned(t) /\ t.freeOffset <= t.size

LEMMA AllocatedBlock ==
  ASSUME NEW t, Laid(t), NEW n \in Nat, NEW b \in BOOLEAN, Allocatable(t, n, b),
         NEW o, o = AllocatedOffset(t, n), NEW a, a = Allocated(t, n)
  PROVE  /\ o \in Nat /\ o \notin Used(t)
         /\ DOMAIN a = DOMAIN t /\ a.size = t.size /\ a.index = t.index
         /\ Offsets(a) = Offsets(t) \cup {o} /\ DOMAIN a.content = Offsets(t) \cup {o}
         /\ a.freeOffset \in Nat /\ a.freeOffset <= a.size
         /\ IndexEnd(t) + IndexSpace(b) <= a.freeOffset
         /\ a.freeList \in Seq(Offsets(t)) /\ Once(a.freeList)
         /\ \A p : Occurs(p, a.freeList) <=> Occurs(p, t.freeList) /\ p # o
         /\ \A p \in Offsets(t) : a.block[p] = t.block[p] /\ a.content[p] = t.content[p]
         /\ a.block[o] \in Nat
         /\ AllocationSize(n) < Width16 => a.block[o] >= RequiredSpace(n)
         /\ a.content[o].value \in Value \cup {Garbage} /\ a.content[o].length \in Nat
         /\ BlocksApart(a)
<1>1. /\ IsTable(t) /\ BlocksApart(t) /\ Owned(t) /\ t.freeOffset <= t.size
      /\ t.freeOffset \in Nat /\ t.freeList \in Seq(Offsets(t)) /\ Once(t.freeList)
      /\ DOMAIN t.content = Offsets(t)
      /\ \A p \in Offsets(t) : p \in Nat /\ t.block[p] \in Nat
            /\ t.content[p].value \in Value \cup {Garbage} /\ t.content[p].length \in Nat
  BY DEF Laid, HeapApart, IsTable, Owned, Once
<1>2. IndexEnd(t) \in Nat /\ IndexSpace(b) \in Nat
  <2>1. Keys(t) \subseteq Key /\ IsFiniteSet(Key)
    BY <1>1, MemoryAssumption DEF IsTable
  <2>2. Cardinality(Keys(t)) \in Nat
    BY <2>1, FS_Subset, FS_CardinalityType
  <2> QED BY <2>2 DEF IndexEnd, IndexSpace, IndexOffset, IndexElementSize
<1>3. /\ AllocationSize(n) \in Nat /\ AllocationSize(n) >= RequiredSpace(n) /\ RequiredSpace(n) \in Nat
      /\ AllocationSize(n) % Width16 \in Nat
      /\ AllocationSize(n) < Width16 => AllocationSize(n) % Width16 = AllocationSize(n)
  BY Sizes, Remainder
<1>4. DOMAIN a = DOMAIN t /\ a.size = t.size /\ a.index = t.index
  BY <1>1, AllocationFrame
<1>5. /\ IndexEnd(t) + IndexSpace(b) <= t.freeOffset
      /\ Fits(t, n) # {} \/ IndexEnd(t) + IndexSpace(b) <= t.freeOffset - AllocationSize(n)
  BY <1>1, <1>2, <1>3 DEF Allocatable, FreeSpace
<1>6. CASE Fits(t, n) # {}
  <2>1. /\ o \in Offsets(t) /\ o \notin Used(t)
        /\ t.block[o] >= AllocationSize(n)
        /\ a.freeOffset = t.freeOffset /\ a.block = t.block /\ a.content = t.content
        /\ a.freeList \in Seq(Offsets(t)) /\ Once(a.freeList)
        /\ \A p : Occurs(p, a.freeList) <=> Occurs(p, t.freeList) /\ p # o
    <3>1. IsTable(t) /\ Owned(t)
      BY <1>1
    <3> QED BY <3>1, <1>6, FittingBlock
  <2>2. BlocksApart(a) /\ Offsets(a) = Offsets(t) /\ a.freeOffset <= a.size
    <3>1. Offsets(a) = Offsets(t) /\ a.freeOffset <= a.size
      BY <1>1, <1>4, <2>1 DEF Offsets
    <3>2. BlocksApart(a) <=> BlocksApart(t)
      BY <1>4, <2>1, <3>1 DEF BlocksApart
    <3> QED BY <1>1, <3>1, <3>2
  <2>3. a.block[o] \in Nat /\ a.block[o] >= RequiredSpace(n)
    BY <1>1, <1>3, <2>1
  <2> QED BY <1>1, <1>4, <1>5, <2>1, <2>2, <2>3
<1>7. CASE Fits(t, n) = {}
  <2>1. AllocationSize(n) <= t.freeOffset
    BY <1>1, <1>2, <1>3, <1>5, <1>7
  <2>2. /\ o \in Nat /\ o \notin Offsets(t) /\ o = t.freeOffset - AllocationSize(n)
        /\ a.freeOffset = o /\ a.freeList = t.freeList
        /\ DOMAIN a.block = Offsets(t) \cup {o} /\ DOMAIN a.content = Offsets(t) \cup {o}
        /\ a.block[o] = AllocationSize(n) % Width16
        /\ a.content[o] = [value |-> Garbage, length |-> 0]
        /\ \A p \in Offsets(t) : a.block[p] = t.block[p] /\ a.content[p] = t.content[p]
        /\ BlocksApart(a) /\ a.freeOffset <= a.size
    BY <1>1, <1>7, <2>1, FreshBlock
  <2>3. o \notin Used(t) /\ ~Occurs(o, t.freeList)
    BY <1>1, <2>2 DEF IsTable, Used, Occurs
  <2>4. \A p : Occurs(p, a.freeList) <=> Occurs(p, t.freeList) /\ p # o
    BY <2>2, <2>3
  <2>5. /\ a.block[o] \in Nat
        /\ AllocationSize(n) < Width16 => a.block[o] >= RequiredSpace(n)
        /\ a.content[o].value \in Value \cup {Garbage} /\ a.content[o].length \in Nat
    BY <1>3, <2>2
  <2>6. Offsets(a) = Offsets(t) \cup {o}
    BY <2>2 DEF Offsets
  <2>7. IndexEnd(t) + IndexSpace(b) <= a.freeOffset
    BY <1>5, <1>7, <2>2
  <2> QED BY <1>1, <1>4, <2>2, <2>3, <2>4, <2>5, <2>6, <2>7
<1> QED BY <1>6, <1>7

\* Every value fits the 16 bits of Allocation::size.
SmallValues == \A v \in Value : AllocationSize(DataSize[v]) < Width16

\* Each key has a value, with the length that updateValue wrote.
Written(t) ==
  \A k \in Keys(t) : LET c == t.content[t.index[k]]
                     IN  c.value \in Value /\ c.length = DataSize[c.value] % Width16

SoundTable(t) == Laid(t) /\ Written(t) /\ (SmallValues => AllocationsHold(t))

\* The keys in K have in u what they have in t.
Kept(t, u, K) ==
  \A k \in K : /\ k \in Keys(t) /\ k \in Keys(u)
               /\ u.content[u.index[k]] = t.content[t.index[k]]
               /\ u.block[u.index[k]] = t.block[t.index[k]]

Holds(t, k, v) ==
  /\ k \in Keys(t)
  /\ t.content[t.index[k]] = [value |-> v, length |-> DataSize[v] % Width16]
  /\ SmallValues => t.block[t.index[k]] >= RequiredSpace(DataSize[v])

LEMMA UpdatedInPlace ==
  ASSUME NEW t, Laid(t), NEW k, NEW v \in Value, InPlace(t, k, v),
         NEW u, u = Updated(t, t.index[k], v)
  PROVE  Laid(u) /\ Keys(u) = Keys(t) /\ Kept(t, u, Keys(t) \ {k}) /\ Holds(u, k, v)
<1> DEFINE o == t.index[k]
<1>1. /\ k \in Keys(t) /\ o \in Offsets(t) /\ t.block[o] >= RequiredSpace(DataSize[v])
      /\ DOMAIN t.content = Offsets(t)
      /\ \A l \in Keys(t) \ {k} : t.index[l] \in Offsets(t) /\ t.index[l] # o
  BY DEF Laid, IsTable, Owned, InPlace
<1>2. DataSize[v] % Width16 \in Nat
  BY Remainder, MemoryAssumption
<1>3. /\ DOMAIN u = DOMAIN t /\ u.size = t.size /\ u.index = t.index /\ u.block = t.block
      /\ u.freeOffset = t.freeOffset /\ u.freeList = t.freeList
      /\ DOMAIN u.content = Offsets(t)
      /\ u.content[o] = [value |-> v, length |-> DataSize[v] % Width16]
      /\ \A p \in Offsets(t) \ {o} : u.content[p] = t.content[p]
  BY <1>1 DEF Updated, Laid, IsTable
<1> HIDE DEF o
<1>4. Keys(u) = Keys(t) /\ Offsets(u) = Offsets(t)
  BY <1>3 DEF Keys, Offsets
<1>5. IsTable(u)
  <2>1. \A p \in Offsets(t) : u.content[p].value \in Value \cup {Garbage} /\ u.content[p].length \in Nat
    <3>1. \A p \in Offsets(t) : t.content[p].value \in Value \cup {Garbage} /\ t.content[p].length \in Nat
      BY DEF IsTable, Laid
    <3> QED BY <1>2, <1>3, <3>1
  <2>2. /\ DOMAIN u = {"size", "index", "freeOffset", "freeList", "block", "content"}
        /\ u.size \in TableSizes /\ u.freeOffset \in Nat
    BY <1>3 DEF IsTable, Laid
  <2> QED BY <1>1, <1>3, <1>4, <2>1, <2>2 DEF IsTable, Laid
<1>6. HeapApart(u) /\ u.freeOffset <= u.size
  <2>1. BlocksApart(u) <=> BlocksApart(t)
    BY <1>3, <1>4 DEF BlocksApart
  <2>2. IndexEnd(u) = IndexEnd(t)
    BY <1>4 DEF IndexEnd
  <2> QED BY <1>3, <2>1, <2>2 DEF Laid, HeapApart
<1>7. Owned(u)
  <2>1. Used(u) = Used(t) /\ Free(u) = Free(t)
    BY <1>3, <1>4 DEF Used, Free
  <2> QED BY <1>3, <1>4, <2>1 DEF Laid, Owned
<1>8. Kept(t, u, Keys(t) \ {k})
  BY <1>1, <1>3, <1>4 DEF Kept
<1>9. Holds(u, k, v)
  BY <1>1, <1>3, <1>4 DEF Holds, o
<1> QED BY <1>4, <1>5, <1>6, <1>7, <1>8, <1>9 DEF Laid

\* What the list of free blocks must be for the blocks of u to be owned.
LEMMA OwnedBlocks ==
  ASSUME NEW u, DOMAIN u.freeList \subseteq Nat,
         \A k, l \in Keys(u) : u.index[k] = u.index[l] => k = l,
         \A k \in Keys(u) : u.index[k] \in Offsets(u) /\ ~Occurs(u.index[k], u.freeList),
         \A p \in Offsets(u) : Occurs(p, u.freeList) \/ \E k \in Keys(u) : u.index[k] = p,
         \A p : Occurs(p, u.freeList) => p \in Offsets(u),
         Once(u.freeList)
  PROVE  Owned(u)
<1>1. \A p : p \in Free(u) <=> Occurs(p, u.freeList)
  BY DEF Free, Occurs
<1>2. \A p : p \in Used(u) <=> \E k \in Keys(u) : u.index[k] = p
  BY DEF Used
<1>3. Used(u) \cap Free(u) = {} /\ Used(u) \cup Free(u) = Offsets(u)
  BY <1>1, <1>2
<1> QED BY <1>3 DEF Owned, Once

LEMMA OwnersOf ==
  ASSUME NEW t, Laid(t)
  PROVE  /\ \A k, l \in Keys(t) : t.index[k] = t.index[l] => k = l
         /\ \A k \in Keys(t) : t.index[k] \in Offsets(t) /\ t.index[k] \in Used(t)
                               /\ ~Occurs(t.index[k], t.freeList)
         /\ \A p \in Offsets(t) : Occurs(p, t.freeList) \/ \E k \in Keys(t) : t.index[k] = p
         /\ \A p : Occurs(p, t.freeList) => p \in Offsets(t)
         /\ t.freeList \in Seq(Offsets(t)) /\ Once(t.freeList)
<1>1. IsTable(t) /\ Owned(t)
  BY DEF Laid
<1>2. \A p : p \in Free(t) <=> Occurs(p, t.freeList)
  BY DEF Free, Occurs
<1>3. \A p : p \in Used(t) <=> \E k \in Keys(t) : t.index[k] = p
  BY DEF Used
<1>4. \A k \in Keys(t) : t.index[k] \in Offsets(t)
  BY <1>1 DEF IsTable
<1>5. t.freeList \in Seq(Offsets(t)) /\ Once(t.freeList)
  BY <1>1 DEF IsTable, Owned, Once
<1> QED BY <1>1, <1>2, <1>3, <1>4, <1>5 DEF Owned

LEMMA IndexSize ==
  ASSUME NEW t, IsTable(t), NEW k \in Key, NEW u, Keys(u) = Keys(t) \cup {k}
  PROVE  /\ IndexEnd(t) \in Nat
         /\ IndexEnd(u) = IndexEnd(t) + IndexSpace(k \notin Keys(t))
<1>1. IsFiniteSet(Keys(t)) /\ Cardinality(Keys(t)) \in Nat
  BY MemoryAssumption, FS_Subset, FS_CardinalityType DEF IsTable
<1>2. Cardinality(Keys(u)) = IF k \in Keys(t) THEN Cardinality(Keys(t)) ELSE Cardinality(Keys(t)) + 1
  BY <1>1, FS_AddElement
<1> QED BY <1>1, <1>2 DEF IndexEnd, IndexSpace, IndexOffset, IndexElementSize

LEMMA NewBlock ==
  ASSUME NEW t, Laid(t), NEW k \in Key, NEW v \in Value, ~InPlace(t, k, v),
         Allocatable(t, DataSize[v], k \notin Keys(t)),
         NEW u, u = Inserted(t, k, v)
  PROVE  /\ Laid(u) /\ Keys(u) = Keys(t) \cup {k}
         /\ Kept(t, u, Keys(t) \ {k}) /\ Holds(u, k, v)
<1> DEFINE n == DataSize[v]
           o == AllocatedOffset(t, n)
           a == Allocated(t, n)
           old == t.index[k]
           b == k \notin Keys(t)
<1>1. n \in Nat /\ n % Width16 \in Nat /\ b \in BOOLEAN
  BY Remainder, MemoryAssumption
<1>2. u = Updated([(IF k \in Keys(t) THEN Deallocated(a, old) ELSE a) EXCEPT !.index = Extended(@, k, o)], o, v)
  BY DEF Inserted
<1>3. /\ IsTable(t)
      /\ k \in Keys(t) => old \in Offsets(t)
      /\ DOMAIN t.content = Offsets(t)
  BY DEF Laid, IsTable
<1>4. /\ o \in Nat /\ o \notin Used(t)
      /\ DOMAIN a = DOMAIN t /\ a.size = t.size /\ a.index = t.index
      /\ Offsets(a) = Offsets(t) \cup {o} /\ DOMAIN a.content = Offsets(t) \cup {o}
      /\ a.freeOffset \in Nat /\ a.freeOffset <= a.size
      /\ IndexEnd(t) + IndexSpace(b) <= a.freeOffset
      /\ a.freeList \in Seq(Offsets(t)) /\ Once(a.freeList)
      /\ \A p : Occurs(p, a.freeList) <=> Occurs(p, t.freeList) /\ p # o
      /\ \A p \in Offsets(t) : a.block[p] = t.block[p] /\ a.content[p] = t.content[p]
      /\ a.block[o] \in Nat
      /\ AllocationSize(n) < Width16 => a.block[o] >= RequiredSpace(n)
      /\ a.content[o].value \in Value \cup {Garbage} /\ a.content[o].length \in Nat
      /\ BlocksApart(a)
  <2>1. o = AllocatedOffset(t, n) /\ a = Allocated(t, n)
    OBVIOUS
  <2> HIDE DEF o, a, n, b
  <2>2. Laid(t) /\ Allocatable(t, n, b)
    BY DEF n, b
  <2> QED BY <1>1, <2>1, <2>2, AllocatedBlock
<1> HIDE DEF o, a
<1>5. k \in Keys(t) => old # o
  BY <1>4, OwnersOf
<1>6. /\ DOMAIN u = DOMAIN t /\ u.size = t.size /\ u.freeOffset = a.freeOffset
      /\ u.block = a.block
      /\ u.index = Extended(t.index, k, o)
      /\ u.freeList = IF k \in Keys(t) THEN <<old>> \o a.freeList ELSE a.freeList
      /\ DOMAIN u.content = Offsets(t) \cup {o}
      /\ u.content[o] = [value |-> v, length |-> n % Width16]
      /\ k \in Keys(t) => u.content[old] = [value |-> Garbage, length |-> 0]
      /\ \A p \in Offsets(t) \ {o, old} : u.content[p] = t.content[p]
      /\ k \notin Keys(t) => \A p \in Offsets(t) \ {o} : u.content[p] = t.content[p]
  <2> DEFINE d == IF k \in Keys(t) THEN Deallocated(a, old) ELSE a
  <2>1. /\ DOMAIN d = DOMAIN t /\ d.size = t.size /\ d.freeOffset = a.freeOffset
        /\ d.block = a.block /\ d.index = t.index
        /\ d.freeList = IF k \in Keys(t) THEN <<old>> \o a.freeList ELSE a.freeList
    BY <1>3, <1>4 DEF Deallocated, IsTable
  <2>2. /\ DOMAIN d.content = Offsets(t) \cup {o}
        /\ k \in Keys(t) => d.content[old] = [value |-> Garbage, length |-> 0]
        /\ \A p \in Offsets(t) \ {o, old} : d.content[p] = t.content[p]
        /\ k \notin Keys(t) => \A p \in Offsets(t) \ {o} : d.content[p] = t.content[p]
    <3>1. CASE k \in Keys(t)
      <4>1. d.content = [a.content EXCEPT ![old] = [value |-> Garbage, length |-> 0]]
        BY <1>3, <1>4, <3>1 DEF Deallocated, IsTable
      <4> QED BY <1>3, <1>4, <3>1, <4>1
    <3>2. CASE k \notin Keys(t)
      BY <1>3, <1>4, <3>2
    <3> QED BY <3>1, <3>2
  <2> HIDE DEF d
  <2>3. u = Updated([d EXCEPT !.index = Extended(@, k, o)], o, v)
    BY <1>2 DEF d
  <2>4. /\ DOMAIN u = DOMAIN d /\ u.size = d.size /\ u.freeOffset = d.freeOffset
        /\ u.block = d.block /\ u.freeList = d.freeList
        /\ u.index = Extended(d.index, k, o)
        /\ u.content = [d.content EXCEPT ![o] = [value |-> v, length |-> n % Width16]]
    BY <1>3, <2>1, <2>3 DEF Updated, IsTable
  <2> QED BY <1>3, <1>5, <2>1, <2>2, <2>4
<1>7. /\ Keys(u) = Keys(t) \cup {k} /\ Offsets(u) = Offsets(t) \cup {o}
      /\ u.index[k] = o /\ \A l \in Keys(t) \ {k} : u.index[l] = t.index[l]
  BY <1>4, <1>6 DEF Keys, Offsets, Extended
<1>8. /\ \A l, m \in Keys(t) : t.index[l] = t.index[m] => l = m
      /\ \A l \in Keys(t) : t.index[l] \in Offsets(t) /\ t.index[l] # o
                            /\ ~Occurs(t.index[l], t.freeList)
      /\ \A p \in Offsets(t) : Occurs(p, t.freeList) \/ \E l \in Keys(t) : t.index[l] = p
      /\ \A p : Occurs(p, t.freeList) => p \in Offsets(t)
  BY <1>4, OwnersOf
<1>9. /\ u.freeList \in Seq(Offsets(u)) /\ Once(u.freeList)
      /\ \A p : Occurs(p, u.freeList) <=> (Occurs(p, t.freeList) /\ p # o) \/ (k \in Keys(t) /\ p = old)
  <2>1. CASE k \in Keys(t)
    <3>1. <<old>> \in Seq(Offsets(t)) /\ Once(<<old>>) /\ \A p : Occurs(p, <<old>>) <=> p = old
      BY <1>3, <2>1 DEF Once, Occurs
    <3>2. ~Occurs(old, a.freeList)
      BY <1>4, <1>8, <2>1
    <3>3. /\ <<old>> \o a.freeList \in Seq(Offsets(t)) /\ Once(<<old>> \o a.freeList)
          /\ \A p : Occurs(p, <<old>> \o a.freeList) <=> p = old \/ Occurs(p, a.freeList)
      <4> DEFINE f == a.freeList
                 h == <<old>>
      <4>1. f \in Seq(Offsets(t)) /\ Once(f) /\ h \in Seq(Offsets(t)) /\ Once(h)
        BY <1>4, <3>1
      <4>2. /\ \A x \in Offsets(t) : ~(Occurs(x, h) /\ Occurs(x, f))
            /\ \A x : Occurs(x, h) <=> x = old
        BY <3>1, <3>2
      <4> HIDE DEF f, h
      <4>3. /\ h \o f \in Seq(Offsets(t)) /\ Once(h \o f)
            /\ \A p : Occurs(p, h \o f) <=> Occurs(p, h) \/ Occurs(p, f)
        BY <4>1, <4>2, ConcatList
      <4> QED BY <4>2, <4>3 DEF f, h
    <3>4. u.freeList = <<old>> \o a.freeList
      BY <1>6, <2>1
    <3> QED BY <1>4, <1>7, <2>1, <3>3, <3>4
  <2>2. CASE k \notin Keys(t)
    BY <1>4, <1>6, <1>7, <2>2
  <2> QED BY <2>1, <2>2
<1>10. Owned(u)
  <2>1. DOMAIN u.freeList \subseteq Nat
    BY <1>9
  <2>2. \A l, m \in Keys(u) : u.index[l] = u.index[m] => l = m
    BY <1>7, <1>8
  <2>3. \A l \in Keys(u) : u.index[l] \in Offsets(u) /\ ~Occurs(u.index[l], u.freeList)
    BY <1>5, <1>7, <1>8, <1>9
  <2>4. \A p \in Offsets(u) : Occurs(p, u.freeList) \/ \E l \in Keys(u) : u.index[l] = p
    BY <1>7, <1>8, <1>9
  <2>5. \A p : Occurs(p, u.freeList) => p \in Offsets(u)
    BY <1>3, <1>7, <1>8, <1>9
  <2> QED BY <1>9, <2>1, <2>2, <2>3, <2>4, <2>5, OwnedBlocks
<1>11. HeapApart(u) /\ u.freeOffset <= u.size
  <2>1. BlocksApart(u)
    <3>1. Offsets(u) = Offsets(a)
      BY <1>4, <1>7
    <3> QED BY <1>4, <1>6, <3>1 DEF BlocksApart
  <2>2. IndexEnd(u) = IndexEnd(t) + IndexSpace(b)
    BY <1>3, <1>7, IndexSize
  <2> QED BY <1>4, <1>6, <2>1, <2>2 DEF HeapApart
<1>12. IsTable(u)
  <2>1. \A p \in Offsets(t) : p \in Nat /\ t.block[p] \in Nat
           /\ t.content[p].value \in Value \cup {Garbage} /\ t.content[p].length \in Nat
    BY <1>3 DEF IsTable
  <2>2. \A p \in Offsets(u) : p \in Nat /\ u.block[p] \in Nat
    BY <1>4, <1>6, <1>7, <2>1
  <2>3. \A p \in Offsets(u) : u.content[p].value \in Value \cup {Garbage} /\ u.content[p].length \in Nat
    BY <1>1, <1>6, <1>7, <2>1
  <2>4. /\ DOMAIN u = {"size", "index", "freeOffset", "freeList", "block", "content"}
        /\ u.size \in TableSizes /\ u.freeOffset \in Nat
        /\ Keys(u) \subseteq Key /\ DOMAIN u.content = Offsets(u)
    BY <1>3, <1>4, <1>6, <1>7 DEF IsTable
  <2>5. \A l \in Keys(u) : u.index[l] \in Offsets(u)
    BY <1>7, <1>8
  <2> QED BY <1>9, <2>2, <2>3, <2>4, <2>5 DEF IsTable
<1>13. Kept(t, u, Keys(t) \ {k})
  BY <1>4, <1>6, <1>7, <1>8 DEF Kept
<1>14. Holds(u, k, v)
  <2>1. SmallValues => a.block[o] >= RequiredSpace(n)
    BY <1>4 DEF SmallValues
  <2> QED BY <1>6, <1>7, <2>1 DEF Holds
<1> QED BY <1>7, <1>10, <1>11, <1>12, <1>13, <1>14 DEF Laid

LEMMA InsertedTable ==
  ASSUME NEW t, SoundTable(t), NEW k \in Key, NEW v \in Value, Insertable(t, k, v),
         NEW u, u = Inserted(t, k, v)
  PROVE  /\ SoundTable(u) /\ Keys(u) = Keys(t) \cup {k}
         /\ Kept(t, u, Keys(t) \ {k}) /\ Holds(u, k, v)
<1>1. /\ Laid(u) /\ Keys(u) = Keys(t) \cup {k}
      /\ Kept(t, u, Keys(t) \ {k}) /\ Holds(u, k, v)
  <2>1. CASE InPlace(t, k, v)
    <3>1. u = Updated(t, t.index[k], v) /\ Laid(t) /\ k \in Keys(t)
      BY <2>1 DEF Inserted, SoundTable, InPlace
    <3>2. /\ Laid(u) /\ Keys(u) = Keys(t)
          /\ Kept(t, u, Keys(t) \ {k}) /\ Holds(u, k, v)
      BY <2>1, <3>1, UpdatedInPlace
    <3>3. Keys(t) = Keys(t) \cup {k}
      BY <3>1
    <3> QED BY <3>2, <3>3
  <2>2. CASE ~InPlace(t, k, v)
    <3>1. Laid(t) /\ Allocatable(t, DataSize[v], k \notin Keys(t))
      BY <2>2 DEF Insertable, SoundTable
    <3> QED BY <2>2, <3>1, NewBlock
  <2> QED BY <2>1, <2>2
<1>2. Written(u)
  BY <1>1 DEF SoundTable, Written, Kept, Holds
<1>3. SmallValues => AllocationsHold(u)
  BY <1>1 DEF SoundTable, AllocationsHold, Kept, Holds
<1> QED BY <1>1, <1>2, <1>3 DEF SoundTable

LEMMA RemovedTable ==
  ASSUME NEW t, SoundTable(t), NEW k \in Keys(t), NEW u, u = Removed(t, k)
  PROVE  SoundTable(u) /\ Keys(u) = Keys(t) \ {k} /\ Kept(t, u, Keys(t) \ {k})
<1> DEFINE old == t.index[k]
<1>1. /\ IsTable(t) /\ Laid(t) /\ old \in Offsets(t)
      /\ DOMAIN t.content = Offsets(t)
  BY DEF SoundTable, Laid, IsTable
<1>2. /\ \A l, m \in Keys(t) : t.index[l] = t.index[m] => l = m
      /\ \A l \in Keys(t) : t.index[l] \in Offsets(t) /\ ~Occurs(t.index[l], t.freeList)
      /\ \A p \in Offsets(t) : Occurs(p, t.freeList) \/ \E l \in Keys(t) : t.index[l] = p
      /\ \A p : Occurs(p, t.freeList) => p \in Offsets(t)
      /\ t.freeList \in Seq(Offsets(t)) /\ Once(t.freeList)
  BY <1>1, OwnersOf
<1>3. /\ DOMAIN u = DOMAIN t /\ u.size = t.size /\ u.freeOffset = t.freeOffset
      /\ u.block = t.block
      /\ u.index = [l \in Keys(t) \ {k} |-> t.index[l]]
      /\ u.freeList = <<old>> \o t.freeList
      /\ u.content = [t.content EXCEPT ![old] = [value |-> Garbage, length |-> 0]]
  BY <1>1 DEF Removed, Deallocated, IsTable
<1>4. /\ Keys(u) = Keys(t) \ {k} /\ Offsets(u) = Offsets(t) /\ DOMAIN u.content = Offsets(t)
      /\ \A l \in Keys(u) : u.index[l] = t.index[l] /\ t.index[l] # old
      /\ \A p \in Offsets(t) \ {old} : u.content[p] = t.content[p]
      /\ u.content[old] = [value |-> Garbage, length |-> 0]
  BY <1>1, <1>2, <1>3 DEF Keys, Offsets
<1>5. /\ u.freeList \in Seq(Offsets(u)) /\ Once(u.freeList)
      /\ \A p : Occurs(p, u.freeList) <=> Occurs(p, t.freeList) \/ p = old
  <2> DEFINE f == t.freeList
             h == <<old>>
  <2>1. f \in Seq(Offsets(t)) /\ Once(f) /\ h \in Seq(Offsets(t)) /\ Once(h)
    BY <1>1, <1>2 DEF Once
  <2>2. /\ \A x \in Offsets(t) : ~(Occurs(x, h) /\ Occurs(x, f))
        /\ \A x : Occurs(x, h) <=> x = old
    BY <1>2 DEF Occurs
  <2>3. u.freeList = h \o f
    BY <1>3
  <2> HIDE DEF f, h
  <2>4. /\ h \o f \in Seq(Offsets(t)) /\ Once(h \o f)
        /\ \A p : Occurs(p, h \o f) <=> Occurs(p, h) \/ Occurs(p, f)
    BY <2>1, <2>2, ConcatList
  <2> QED BY <1>4, <2>2, <2>3, <2>4 DEF f
<1>6. Owned(u)
  <2>1. DOMAIN u.freeList \subseteq Nat
    BY <1>5
  <2>2. \A l, m \in Keys(u) : u.index[l] = u.index[m] => l = m
    BY <1>2, <1>4
  <2>3. \A l \in Keys(u) : u.index[l] \in Offsets(u) /\ ~Occurs(u.index[l], u.freeList)
    BY <1>2, <1>4, <1>5
  <2>4. \A p \in Offsets(u) : Occurs(p, u.freeList) \/ \E l \in Keys(u) : u.index[l] = p
    BY <1>2, <1>4, <1>5
  <2>5. \A p : Occurs(p, u.freeList) => p \in Offsets(u)
    BY <1>1, <1>2, <1>4, <1>5
  <2> QED BY <1>5, <2>1, <2>2, <2>3, <2>4, <2>5, OwnedBlocks
<1>7. HeapApart(u) /\ u.freeOffset <= u.size
  <2>1. BlocksApart(u) <=> BlocksApart(t)
    BY <1>3, <1>4 DEF BlocksApart
  <2>2. IndexEnd(u) <= IndexEnd(t) /\ IndexEnd(u) \in Nat /\ IndexEnd(t) \in Nat
    <3>1. IsFiniteSet(Keys(t)) /\ Cardinality(Keys(t)) \in Nat
      BY <1>1, MemoryAssumption, FS_Subset, FS_CardinalityType DEF IsTable
    <3>2. Cardinality(Keys(u)) = Cardinality(Keys(t)) - 1 /\ Cardinality(Keys(u)) \in Nat
      BY <1>4, <3>1, FS_RemoveElement, FS_CardinalityType
    <3> QED BY <3>1, <3>2 DEF IndexEnd, IndexOffset, IndexElementSize
  <2>3. HeapApart(t) /\ t.freeOffset <= t.size /\ t.freeOffset \in Nat
    BY <1>1 DEF Laid, IsTable
  <2> QED BY <1>3, <2>1, <2>2, <2>3 DEF HeapApart
<1>8. IsTable(u)
  <2>1. \A p \in Offsets(t) : p \in Nat /\ t.block[p] \in Nat
           /\ t.content[p].value \in Value \cup {Garbage} /\ t.content[p].length \in Nat
    BY <1>1 DEF IsTable
  <2>2. \A p \in Offsets(u) : p \in Nat /\ u.block[p] \in Nat
           /\ u.content[p].value \in Value \cup {Garbage} /\ u.content[p].length \in Nat
    BY <1>3, <1>4, <2>1
  <2>3. /\ DOMAIN u = {"size", "index", "freeOffset", "freeList", "block", "content"}
        /\ u.size \in TableSizes /\ u.freeOffset \in Nat
        /\ Keys(u) \subseteq Key /\ DOMAIN u.content = Offsets(u)
        /\ \A l \in Keys(u) : u.index[l] \in Offsets(u)
    BY <1>1, <1>2, <1>3, <1>4 DEF IsTable
  <2> QED BY <1>5, <2>2, <2>3 DEF IsTable
<1>9. Kept(t, u, Keys(t) \ {k})
  BY <1>2, <1>3, <1>4 DEF Kept
<1>10. Written(u) /\ (SmallValues => AllocationsHold(u))
  BY <1>4, <1>9 DEF SoundTable, Written, AllocationsHold, Kept
<1> QED BY <1>4, <1>6, <1>7, <1>8, <1>9, <1>10 DEF Laid, SoundTable

(***************************************************************************)
(* The inductive invariant: sound tables, and in the one that a migration  *)
(* writes, what it has copied of the one in use.                           *)
(***************************************************************************)
ValueAt(t, k) == t.content[t.index[k]].value

Copied ==
  /\ SoundTable(other)
  /\ Keys(other) = Keys(table) \ migrating
  /\ \A k \in Keys(other) : ValueAt(other, k) = ValueAt(table, k)

MInv ==
  /\ SoundTable(table)
  /\ migrating \subseteq Keys(table)
  /\ other = NoTable => migrating = {}
  /\ other # NoTable => Copied

LEMMA NoTableIsNone ==
  ASSUME NEW t, SoundTable(t)
  PROVE  t # NoTable
BY DEF SoundTable, Laid, IsTable, NoTable

LEMMA EmptyTable ==
  ASSUME NEW size \in TableSizes
  PROVE  SoundTable(NewTable(size)) /\ Keys(NewTable(size)) = {}
<1> DEFINE t == NewTable(size)
<1>1. /\ DOMAIN t = {"size", "index", "freeOffset", "freeList", "block", "content"}
      /\ t.size = size /\ t.freeOffset = size /\ t.freeList = <<>>
      /\ Keys(t) = {} /\ Offsets(t) = {} /\ DOMAIN t.content = {}
  BY DEF NewTable, Keys, Offsets
<1>2. size \in Nat /\ size > IndexOffset + IndexElementSize
  BY MemoryAssumption
<1> HIDE DEF t
<1>3. IsTable(t)
  BY <1>1, <1>2 DEF IsTable
<1>4. IndexEnd(t) <= t.freeOffset /\ t.freeOffset <= t.size
  BY <1>1, <1>2, FS_EmptySet DEF IndexEnd, IndexOffset, IndexElementSize
<1>5. BlocksApart(t) /\ Written(t) /\ AllocationsHold(t)
  BY <1>1 DEF BlocksApart, Written, AllocationsHold
<1>6. Owned(t)
  BY <1>1 DEF Owned, Used, Free
<1> QED BY <1>1, <1>3, <1>4, <1>5, <1>6 DEF SoundTable, Laid, HeapApart, t

LEMMA NextKeyIsMigrating ==
  ASSUME MInv, migrating # {}
  PROVE  NextKey \in migrating
<1>1. migrating \subseteq Nat
  BY MemoryAssumption DEF MInv, SoundTable, Laid, IsTable
<1> QED BY <1>1, Least DEF NextKey

LEMMA Initially == Init => MInv
BY EmptyTable DEF Init, MInv, SoundTable, Keys, NoTable

(***************************************************************************)
(* One step per action.                                                    *)
(***************************************************************************)
LEMMA InsertStep ==
  ASSUME MInv, NEW k \in Key, NEW v \in Value, InsertKey(k, v)
  PROVE  MInv'
<1>1. SoundTable(table)' /\ other = NoTable /\ other' = NoTable /\ migrating' = {}
  BY InsertedTable DEF MInv, InsertKey
<1> QED BY <1>1 DEF MInv

LEMMA RemoveStep ==
  ASSUME MInv, NEW k \in Key, RemoveKey(k)
  PROVE  MInv'
<1>1. SoundTable(table)' /\ other = NoTable /\ other' = NoTable /\ migrating' = {}
  BY RemovedTable DEF MInv, RemoveKey
<1> QED BY <1>1 DEF MInv

LEMMA BeginStep ==
  ASSUME MInv, NEW size \in TableSizes, BeginMigration(size)
  PROVE  MInv'
<1>1. SoundTable(other)' /\ Keys(other)' = {} /\ other' # NoTable
  BY EmptyTable, NoTableIsNone DEF BeginMigration
<1> QED BY <1>1 DEF MInv, Copied, BeginMigration

LEMMA MigrateStep ==
  ASSUME MInv, MigrateNext
  PROVE  MInv'
<1> DEFINE k == NextKey
           v == NextValue
<1>1. k \in migrating /\ k \in Keys(table) /\ k \in Key /\ v \in Value
      /\ v = ValueAt(table, k)
  BY NextKeyIsMigrating DEF MInv, MigrateNext, SoundTable, Laid, IsTable, Written, ValueAt, NextValue
<1>2. Copied /\ other # NoTable /\ SoundTable(other)
  BY DEF MInv, MigrateNext, Copied
<1>3. /\ Insertable(other, k, v) /\ other' = Inserted(other, k, v)
      /\ migrating' = migrating \ {k} /\ table' = table
  BY DEF MigrateNext
<1> HIDE DEF k, v
<1>4. /\ SoundTable(other') /\ Keys(other') = Keys(other) \cup {k}
      /\ Kept(other, other', Keys(other) \ {k}) /\ Holds(other', k, v)
  BY <1>1, <1>2, <1>3, InsertedTable
<1>5. Keys(other') = Keys(table) \ migrating'
  BY <1>1, <1>2, <1>3, <1>4 DEF Copied
<1>6. \A l \in Keys(other') : ValueAt(other', l) = ValueAt(table, l)
  BY <1>1, <1>2, <1>4 DEF Copied, Kept, Holds, ValueAt
<1>7. other' # NoTable
  BY <1>4, NoTableIsNone
<1> QED BY <1>3, <1>4, <1>5, <1>6, <1>7 DEF MInv, Copied, ValueAt, Keys

LEMMA GiveUpStep ==
  ASSUME MInv, MigrationFails
  PROVE  MInv'
BY DEF MInv, MigrationFails

LEMMA EndStep ==
  ASSUME MInv, EndMigration
  PROVE  MInv'
BY DEF MInv, EndMigration, Copied

LEMMA StutterStep ==
  ASSUME MInv, UNCHANGED vars
  PROVE  MInv'
BY DEF MInv, vars, Copied, ValueAt, Keys

-----------------------------------------------------------------------------
(***************************************************************************)
(* The theorems.                                                           *)
(***************************************************************************)
\* MInv holds in every state.
THEOREM Invariance == Spec => []MInv
<1>1. MInv /\ [Next]_vars => MInv'
  <2> SUFFICES ASSUME MInv, [Next]_vars PROVE MInv'
    OBVIOUS
  <2>1. CASE \E k \in Key : RemoveKey(k)
    BY <2>1, RemoveStep
  <2>2. CASE \E k \in Key : \E v \in Value : InsertKey(k, v)
    BY <2>2, InsertStep
  <2>3. CASE \E size \in TableSizes : BeginMigration(size)
    BY <2>3, BeginStep
  <2>4. CASE MigrateNext
    BY <2>4, MigrateStep
  <2>5. CASE MigrationFails
    BY <2>5, GiveUpStep
  <2>6. CASE EndMigration
    BY <2>6, EndStep
  <2>7. CASE UNCHANGED vars
    BY <2>7, StutterStep
  <2> QED BY <2>1, <2>2, <2>3, <2>4, <2>5, <2>6, <2>7 DEF Next
<1> QED BY <1>1, Initially, PTL DEF Spec

\* The variables have their types.
THEOREM TypeInvariant == Spec => []TypeOK
<1>1. MInv => TypeOK
  BY DEF MInv, Copied, SoundTable, Laid, TypeOK
<1> QED BY <1>1, Invariance, PTL

\* The blocks of a table lie in the heap and apart, and each is that of one
\* key or once in the free list, for values of every size: even the size of a
\* block that does not fit its 16 bits lets no block overlap another.
THEOREM BlocksAreApart ==
  Spec => [](\A t \in {table, other} \ {NoTable} : HeapApart(t) /\ Owned(t))
<1>1. MInv => \A t \in {table, other} \ {NoTable} : HeapApart(t) /\ Owned(t)
  BY DEF MInv, Copied, SoundTable, Laid
<1> QED BY <1>1, Invariance, PTL

\* If the sizes of all values fit, each block also has room for its value.
THEOREM HeapIsSound ==
  ASSUME SmallValues
  PROVE  Spec => []HeapSound
<1>1. MInv => HeapSound
  BY DEF MInv, Copied, SoundTable, Laid, HeapSound
<1> QED BY <1>1, Invariance, PTL

LEMMA ReadValue ==
  ASSUME SmallValues, NEW t, SoundTable(t), NEW k \in Keys(t)
  PROVE  LET c == t.content[t.index[k]]
         IN  /\ c.value \in Value /\ c.length = DataSize[c.value]
             /\ c.value = ValueAt(t, k)
<1> DEFINE v == t.content[t.index[k]].value
<1>1. v \in Value /\ t.content[t.index[k]].length = DataSize[v] % Width16
  BY DEF SoundTable, Written
<1> HIDE DEF v
<1>2. DataSize[v] \in Nat /\ AllocationSize(DataSize[v]) < Width16
  BY <1>1, MemoryAssumption DEF SmallValues
<1>3. DataSize[v] < Width16
  BY <1>2, Sizes DEF AllocationHeader, Width16
<1>4. DataSize[v] % Width16 = DataSize[v]
  BY <1>2, <1>3, Remainder
<1> QED BY <1>1, <1>4 DEF v, ValueAt

LEMMA ReadIs ==
  ASSUME SmallValues, SoundTable(table)
  PROVE  \A k \in Key : Read(k) = IF k \in Keys(table) THEN ValueAt(table, k) ELSE Garbage
BY ReadValue DEF Read

LEMMA ReadIsNext ==
  ASSUME SmallValues, SoundTable(table)'
  PROVE  \A k \in Key : Read(k)' = IF k \in Keys(table') THEN ValueAt(table', k) ELSE Garbage
BY ReadValue DEF Read

\* What is stored, as the abstract specification has it.
stored == [k \in Key |-> Read(k)]

LEMMA StoredInitially == ASSUME SmallValues, Init PROVE Map!Init
<1>1. \A k \in Key : Read(k) = Garbage
  BY EmptyTable DEF Init, Read
<1> QED BY <1>1 DEF Map!Init

LEMMA StoredStep ==
  ASSUME SmallValues, MInv, MInv', [Next]_vars
  PROVE  [Map!Next]_stored
<1>1. /\ \A k \in Key : Read(k) = IF k \in Keys(table) THEN ValueAt(table, k) ELSE Garbage
      /\ \A k \in Key : Read(k)' = IF k \in Keys(table') THEN ValueAt(table', k) ELSE Garbage
  BY ReadIs, ReadIsNext DEF MInv
<1>2. ASSUME NEW k \in Key, RemoveKey(k) PROVE Map!Remove(k)
  <2>1. Keys(table') = Keys(table) \ {k} /\ Kept(table, table', Keys(table) \ {k})
    BY <1>2, RemovedTable DEF MInv, RemoveKey
  <2>2. \A l \in Key : Read(l)' = IF l = k THEN Garbage ELSE Read(l)
    BY <1>1, <2>1 DEF Kept, ValueAt
  <2> QED BY <2>2 DEF Map!Remove
<1>3. ASSUME NEW k \in Key, NEW v \in Value, InsertKey(k, v) PROVE Map!Insert(k, v)
  <2>1. /\ Keys(table') = Keys(table) \cup {k} /\ Kept(table, table', Keys(table) \ {k})
        /\ Holds(table', k, v)
    BY <1>3, InsertedTable DEF MInv, InsertKey
  <2>2. \A l \in Key : Read(l)' = IF l = k THEN v ELSE Read(l)
    BY <1>1, <2>1 DEF Kept, Holds, ValueAt
  <2> QED BY <2>2 DEF Map!Insert
<1>4. ASSUME EndMigration PROVE stored' = stored
  <2>1. table' = other /\ Keys(other) = Keys(table) /\ \A k \in Keys(other) : ValueAt(other, k) = ValueAt(table, k)
    BY <1>4 DEF EndMigration, MInv, Copied
  <2>2. \A k \in Key : Read(k)' = Read(k)
    BY <1>1, <2>1
  <2> QED BY <2>2 DEF stored
<1>5. ASSUME table' = table PROVE stored' = stored
  <2>1. \A k \in Key : Read(k)' = Read(k)
    BY <1>1, <1>5
  <2> QED BY <2>1 DEF stored
<1>6. table' = table \/ EndMigration \/ \E k \in Key : RemoveKey(k) \/ \E v \in Value : InsertKey(k, v)
  BY DEF Next, vars, BeginMigration, MigrateNext, MigrationFails
<1> QED BY <1>2, <1>3, <1>4, <1>5, <1>6 DEF Map!Next

\* If the sizes of all values fit, the table implements the map of TableMap:
\* an insertion or a removal changes what is read of its key alone, and a
\* migration, done or given up, changes nothing.
THEOREM ActsAsMap ==
  ASSUME SmallValues
  PROVE  Spec => ImplementsMap
<1>1. Init => Map!Init
  BY StoredInitially
<1>2. MInv /\ MInv' /\ [Next]_vars => [Map!Next]_stored
  BY StoredStep
<1>3. MInv /\ MInv' /\ [Next]_vars => [Map!Next]_([k \in Key |-> Read(k)])
  BY <1>2 DEF stored
<1> QED BY <1>1, <1>3, Invariance, PTL DEF Spec, ImplementsMap, Map!Spec
==============================================================================
