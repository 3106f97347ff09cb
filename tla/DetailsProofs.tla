--------------------------- MODULE DetailsProofs ---------------------------
(***************************************************************************)
(* The details of a contact, for any types, masks, and any number of       *)
(* edits, saves and rows: the tables stay typed, the change flags tell all *)
(* that the server lacks, a save leaves unchanged details alone, and its   *)
(* delta forgets no detail and takes none twice.  What a save does is      *)
(* followed from its delta, which names rows of the old details that are   *)
(* left over, through the steps it takes, each of which flags the row it   *)
(* writes to.                                                              *)
(***************************************************************************)
EXTENDS Details, FiniteSetTheorems, SequenceTheorems, WellFoundedInduction, TLAPS

-----------------------------------------------------------------------------
\* Numbers: a least one, what holds up to a last one, and the ascending list
\* of some of them.

\* Any naturals have a least one.
LEMMA Least ==
  ASSUME NEW T, T \subseteq Nat, T # {}
  PROVE  \E x \in T : \A y \in T : x <= y
<1> DEFINE less == {p \in Nat \X Nat : p[1] < p[2]}
<1>1. IsWellFoundedOn(less, Nat)
  BY NatLessThanWellFounded DEF OpToRel
<1>2. \A x, y \in Nat : <<y, x>> \notin less => x <= y
  OBVIOUS
<1> HIDE DEF less
<1>3. \E x \in T : \A y \in T : <<y, x>> \notin less
  BY <1>1, WFMin
<1> QED BY <1>2, <1>3

\* What holds of 0, and of n + 1 if of n, holds of all numbers up to a last one.
LEMMA UpTo ==
  ASSUME NEW N \in Nat, NEW S, 0 \in S, \A n \in 0..N : n # 0 /\ n - 1 \in S => n \in S
  PROVE  \A n \in 0..N : n \in S
<1> SUFFICES ASSUME NEW n \in 0..N, n \notin S PROVE FALSE
  OBVIOUS
<1> DEFINE T == {m \in 0..N : m \notin S}
<1>1. T \subseteq Nat /\ T # {}
  OBVIOUS
<1>2. PICK m \in T : \A y \in T : m <= y
  <2> HIDE DEF T
  <2> QED BY <1>1, Least
<1>3. m # 0
  OBVIOUS
<1>4. m - 1 \in 0..N /\ m - 1 \notin T
  BY <1>2, <1>3
<1> QED BY <1>3, <1>4

-----------------------------------------------------------------------------
(***************************************************************************)
(* The numbers of a set in their order.                                    *)
(***************************************************************************)
\* The rank of a number counts those up to it.
UpToIn(S, i) == {j \in S : j <= i}

LEMMA RankIs == ASSUME NEW S, NEW i PROVE Rank(S, i) = Cardinality(UpToIn(S, i))
BY DEF Rank, UpToIn

\* The number at every rank.
LEMMA RankIsThere ==
  ASSUME NEW S, S \subseteq Nat, IsFiniteSet(S), NEW n \in 1..Cardinality(S)
  PROVE  \E i \in S : Rank(S, i) = n
<1> DEFINE N == Cardinality(S)
           f == [i \in S |-> Rank(S, i)]
<1>1. N \in Nat
  BY FS_CardinalityType
<1>2. \A i \in S : IsFiniteSet(UpToIn(S, i)) /\ Rank(S, i) \in 0..N
  <2> SUFFICES ASSUME NEW i \in S PROVE IsFiniteSet(UpToIn(S, i)) /\ Rank(S, i) \in 0..N
    OBVIOUS
  <2>1. UpToIn(S, i) \in SUBSET S
    BY DEF UpToIn
  <2>2. IsFiniteSet(UpToIn(S, i)) /\ Cardinality(UpToIn(S, i)) <= N /\ Cardinality(UpToIn(S, i)) \in Nat
    <3> HIDE DEF N
    <3>1. IsFiniteSet(UpToIn(S, i)) /\ Cardinality(UpToIn(S, i)) <= Cardinality(S)
      BY <2>1, FS_Subset
    <3> QED BY <3>1, FS_CardinalityType DEF N
  <2> QED BY <1>1, <2>2, RankIs
<1>3. \A i \in S : Rank(S, i) # 0
  <2> SUFFICES ASSUME NEW i \in S, Rank(S, i) = 0 PROVE FALSE
    OBVIOUS
  <2>1. i \in UpToIn(S, i)
    <3>1. i <= i
      OBVIOUS
    <3> QED BY <3>1 DEF UpToIn
  <2>2. Cardinality(UpToIn(S, i)) = 0
    BY RankIs
  <2> QED BY <1>2, <2>1, <2>2, FS_EmptySet
<1>4. \A i, k \in S : i < k => Rank(S, i) # Rank(S, k)
  <2> SUFFICES ASSUME NEW i \in S, NEW k \in S, i < k, Rank(S, i) = Rank(S, k) PROVE FALSE
    OBVIOUS
  <2>1. UpToIn(S, i) \in SUBSET UpToIn(S, k)
    <3>1. \A j \in S : j <= i => j <= k
      OBVIOUS
    <3> QED BY <3>1 DEF UpToIn
  <2>4. k <= k /\ ~(k <= i)
    OBVIOUS
  <2>5. k \in UpToIn(S, k) /\ k \notin UpToIn(S, i)
    BY <2>4 DEF UpToIn
  <2>2. Cardinality(UpToIn(S, k)) = Cardinality(UpToIn(S, i))
    BY RankIs
  <2>3. UpToIn(S, k) = UpToIn(S, i)
    BY <1>2, <2>1, <2>2, FS_Subset
  <2> QED BY <2>5, <2>3
<1>5. f \in Injection(S, 1..N)
  <2>1. f \in [S -> 1..N]
    BY <1>1, <1>2, <1>3
  <2>2. \A i, k \in S : f[i] = f[k] => i = k
    BY <1>4
  <2> QED BY <2>1, <2>2 DEF Injection, IsInjective
<1>6. IsFiniteSet(1..N) /\ Cardinality(1..N) = N
  BY <1>1, FS_Interval
<1>7. f \in Surjection(S, 1..N)
  <2> HIDE DEF f
  <2> QED BY <1>5, <1>6, FS_Injection DEF N
<1>8. PICK i \in S : f[i] = n
  BY <1>7 DEF Surjection
<1> QED BY <1>8

\* They are a list of its elements, each once.
LEMMA AscendingList ==
  ASSUME NEW S, S \subseteq Nat, IsFiniteSet(S)
  PROVE  /\ Ascending(S) \in [1..Cardinality(S) -> S]
         /\ \A m, n \in 1..Cardinality(S) : Ascending(S)[m] = Ascending(S)[n] => m = n
<1>1. \A n \in 1..Cardinality(S) : Ascending(S)[n] \in S /\ Rank(S, Ascending(S)[n]) = n
  <2> SUFFICES ASSUME NEW n \in 1..Cardinality(S)
               PROVE  Ascending(S)[n] \in S /\ Rank(S, Ascending(S)[n]) = n
    OBVIOUS
  <2>1. \E i \in S : Rank(S, i) = n
    BY RankIsThere
  <2>2. Ascending(S)[n] = CHOOSE i \in S : Rank(S, i) = n
    BY DEF Ascending
  <2> QED BY <2>1, <2>2
<1>2. Ascending(S) = [n \in 1..Cardinality(S) |-> Ascending(S)[n]]
  <2> DEFINE a == [n \in 1..Cardinality(S) |-> CHOOSE i \in S : Rank(S, i) = n]
  <2>1. a = [n \in 1..Cardinality(S) |-> a[n]]
    OBVIOUS
  <2> QED BY <2>1 DEF Ascending
<1> HIDE DEF Ascending
<1>3. Ascending(S) \in [1..Cardinality(S) -> S]
  BY <1>1, <1>2
<1>4. \A m, n \in 1..Cardinality(S) : Ascending(S)[m] = Ascending(S)[n] => m = n
  BY <1>1
<1> QED BY <1>3, <1>4

\* Some of the numbers of an interval are finitely many.
LEMMA FiniteNumbers ==
  ASSUME NEW n \in Nat, NEW S, S \subseteq 1..n
  PROVE  IsFiniteSet(S) /\ Cardinality(S) \in Nat
<1>1. IsFiniteSet(1..n)
  BY FS_Interval
<1> QED BY <1>1, FS_Subset, FS_CardinalityType

\* So they are for positions of a list.
LEMMA AscendingPositions ==
  ASSUME NEW n \in Nat, NEW S, S \subseteq 1..n
  PROVE  /\ Ascending(S) \in Seq(S)
         /\ \A j, k \in DOMAIN Ascending(S) : Ascending(S)[j] = Ascending(S)[k] => j = k
<1>0. IsFiniteSet(S) /\ Cardinality(S) \in Nat
  BY FiniteNumbers
<1>1. IsFiniteSet(S) /\ Cardinality(S) \in Nat /\ S \subseteq Nat
  BY <1>0
<1>2. /\ Ascending(S) \in [1..Cardinality(S) -> S]
      /\ \A j, k \in 1..Cardinality(S) : Ascending(S)[j] = Ascending(S)[k] => j = k
  BY <1>1, AscendingList
<1> QED BY <1>1, <1>2

\* Last first, they are listed too.
LEMMA LastFirstPositions ==
  ASSUME NEW n \in Nat, NEW S, S \subseteq 1..n
  PROVE  LastFirst(S) \in Seq(S)
<1>0. IsFiniteSet(S) /\ Cardinality(S) \in Nat
  BY FiniteNumbers
<1>1. IsFiniteSet(S) /\ Cardinality(S) \in Nat /\ S \subseteq Nat
  BY <1>0
<1>2. Ascending(S) \in [1..Cardinality(S) -> S]
  BY <1>1, AscendingList
<1>3. \A k \in 1..Cardinality(S) : Ascending(S)[Cardinality(S) + 1 - k] \in S
  <2> SUFFICES ASSUME NEW k \in 1..Cardinality(S) PROVE Ascending(S)[Cardinality(S) + 1 - k] \in S
    OBVIOUS
  <2>1. Cardinality(S) + 1 - k \in 1..Cardinality(S)
    BY <1>1
  <2> QED BY <1>2, <2>1
<1>4. LastFirst(S) \in [1..Cardinality(S) -> S]
  BY <1>3 DEF LastFirst
<1> QED BY <1>1, <1>4

-----------------------------------------------------------------------------
\* The tables and the conversions: what is written and read is of the type.

\* The columns that are bound are those of the table; a type of presences is at one place.
Agree(i) == DOMAIN detailInfo[i][3] = ToSet(detailInfo[i][2])
Named(i, t) == detailInfo[i][1] = t
LEMMA Tables ==
  \A i \in 1..26 : Agree(i) /\ (Named(i, "Presence") => i = 19) /\ (Named(i, "GlobalPresence") => i = 25)
<1>1. Agree(1) /\ Named(1, "Address")
  BY DEF Agree, Named, detailInfo, Addresses, BoundAddress, As, ++, ToSet
<1>2. Agree(2) /\ Named(2, "Anniversary")
  BY DEF Agree, Named, detailInfo, Anniversaries, BoundAnniversary, As, ++, ToSet
<1>3. Agree(3) /\ Named(3, "Avatar")
  BY DEF Agree, Named, detailInfo, Avatars, BoundAvatar, As, ++, ToSet
<1>4. Agree(4) /\ Named(4, "Birthday")
  BY DEF Agree, Named, detailInfo, Birthdays, BoundBirthday, As, ++, ToSet
<1>5. Agree(5) /\ Named(5, "DisplayLabel")
  BY DEF Agree, Named, detailInfo, DisplayLabels, BoundDisplayLabel, As, ++, ToSet
<1>6. Agree(6) /\ Named(6, "EmailAddress")
  BY DEF Agree, Named, detailInfo, EmailAddresses, BoundEmailAddress, As, ++, ToSet
<1>7. Agree(7) /\ Named(7, "Family")
  BY DEF Agree, Named, detailInfo, Families, BoundFamily, As, ++, ToSet
<1>8. Agree(8) /\ Named(8, "Favorite")
  BY DEF Agree, Named, detailInfo, Favorites, BoundFavorite, As, ++, ToSet
<1>9. Agree(9) /\ Named(9, "Gender")
  BY DEF Agree, Named, detailInfo, Genders, BoundGender, As, ++, ToSet
<1>10. Agree(10) /\ Named(10, "GeoLocation")
  <2>1. Named(10, "GeoLocation") /\ detailInfo[10][2] = GeoLocations /\ detailInfo[10][3] = BoundGeoLocation
    BY DEF Named, detailInfo
  <2>2. DOMAIN BoundGeoLocation =
          {"label", "latitude", "longitude", "accuracy", "altitude", "altitudeAccuracy", "heading",
           "speed", "timestamp"}
    BY DEF BoundGeoLocation, As, ++
  <2>3. DOMAIN GeoLocations = 1..9
    BY DEF GeoLocations
  <2>4. \A k \in 1..9 : GeoLocations[k] \in DOMAIN BoundGeoLocation
    BY <2>2 DEF GeoLocations
  <2>5. \A c \in DOMAIN BoundGeoLocation : \E k \in 1..9 : GeoLocations[k] = c
    BY <2>2 DEF GeoLocations
  <2> QED BY <2>1, <2>3, <2>4, <2>5 DEF Agree, ToSet
<1>11. Agree(11) /\ Named(11, "Guid")
  BY DEF Agree, Named, detailInfo, Guids, BoundGuid, As, ++, ToSet
<1>12. Agree(12) /\ Named(12, "Hobby")
  BY DEF Agree, Named, detailInfo, Hobbies, BoundHobby, As, ++, ToSet
<1>13. Agree(13) /\ Named(13, "Name")
  BY DEF Agree, Named, detailInfo, Names, BoundName, As, ++, ToSet
<1>14. Agree(14) /\ Named(14, "Nickname")
  BY DEF Agree, Named, detailInfo, Nicknames, BoundNickname, As, ++, ToSet
<1>15. Agree(15) /\ Named(15, "Note")
  BY DEF Agree, Named, detailInfo, Notes, BoundNote, As, ++, ToSet
<1>16. Agree(16) /\ Named(16, "OnlineAccount")
  <2>1. Named(16, "OnlineAccount") /\ detailInfo[16][2] = OnlineAccounts /\ detailInfo[16][3] = BoundOnlineAccount
    BY DEF Named, detailInfo
  <2>2. DOMAIN BoundOnlineAccount =
          {"accountUri", "lowerAccountUri", "protocol", "serviceProvider", "accountPath", "accountIconPath",
           "enabled", "accountDisplayName", "serviceProviderDisplayName", "capabilities", "subTypes"}
    BY DEF BoundOnlineAccount, As, ++
  <2>3. DOMAIN OnlineAccounts = 1..11
    BY DEF OnlineAccounts
  <2>4. \A k \in 1..11 : OnlineAccounts[k] \in DOMAIN BoundOnlineAccount
    BY <2>2 DEF OnlineAccounts
  <2>5. \A c \in DOMAIN BoundOnlineAccount : \E k \in 1..11 : OnlineAccounts[k] = c
    BY <2>2 DEF OnlineAccounts
  <2> QED BY <2>1, <2>3, <2>4, <2>5 DEF Agree, ToSet
<1>17. Agree(17) /\ Named(17, "Organization")
  BY DEF Agree, Named, detailInfo, Organizations, BoundOrganization, As, ++, ToSet
<1>18. Agree(18) /\ Named(18, "PhoneNumber")
  BY DEF Agree, Named, detailInfo, PhoneNumbers, BoundPhoneNumber, As, ++, ToSet
<1>19. Agree(19) /\ Named(19, "Presence")
  BY DEF Agree, Named, detailInfo, Presences, BoundPresence, As, ++, ToSet
<1>20. Agree(20) /\ Named(20, "Ringtone")
  BY DEF Agree, Named, detailInfo, Ringtones, BoundRingtone, As, ++, ToSet
<1>21. Agree(21) /\ Named(21, "SyncTarget")
  BY DEF Agree, Named, detailInfo, SyncTargets, BoundSyncTarget, As, ++, ToSet
<1>22. Agree(22) /\ Named(22, "Tag")
  BY DEF Agree, Named, detailInfo, Tags, BoundTag, As, ++, ToSet
<1>23. Agree(23) /\ Named(23, "Url")
  BY DEF Agree, Named, detailInfo, Urls, BoundUrl, As, ++, ToSet
<1>24. Agree(24) /\ Named(24, "OriginMetadata")
  BY DEF Agree, Named, detailInfo, OriginMetadata, BoundOriginMetadata, As, ++, ToSet
<1>25. Agree(25) /\ Named(25, "GlobalPresence")
  BY DEF Agree, Named, detailInfo, GlobalPresences, BoundGlobalPresence, As, ++, ToSet
<1>26. Agree(26) /\ Named(26, "ExtendedDetail")
  BY DEF Agree, Named, detailInfo, ExtendedDetails, BoundExtendedDetail, As, ++, ToSet
<1> SUFFICES ASSUME NEW i \in 1..26
             PROVE  Agree(i) /\ (Named(i, "Presence") => i = 19) /\ (Named(i, "GlobalPresence") => i = 25)
  OBVIOUS
<1>27. \/ i = 1 \/ i = 2 \/ i = 3 \/ i = 4 \/ i = 5 \/ i = 6 \/ i = 7 \/ i = 8 \/ i = 9
       \/ i = 10 \/ i = 11 \/ i = 12 \/ i = 13 \/ i = 14 \/ i = 15 \/ i = 16 \/ i = 17 \/ i = 18
       \/ i = 19 \/ i = 20 \/ i = 21 \/ i = 22 \/ i = 23 \/ i = 24 \/ i = 25 \/ i = 26
  OBVIOUS
<1>28. Agree(i)
  BY <1>1, <1>2, <1>3, <1>4, <1>5, <1>6, <1>7, <1>8, <1>9, <1>10, <1>11, <1>12, <1>13, <1>14,
     <1>15, <1>16, <1>17, <1>18, <1>19, <1>20, <1>21, <1>22, <1>23, <1>24, <1>25, <1>26, <1>27
<1>29. Named(i, "Presence") => i = 19
  BY <1>1, <1>2, <1>3, <1>4, <1>5, <1>6, <1>7, <1>8, <1>9, <1>10, <1>11, <1>12, <1>13, <1>14,
     <1>15, <1>16, <1>17, <1>18, <1>19, <1>20, <1>21, <1>22, <1>23, <1>24, <1>25, <1>26, <1>27 DEF Named
<1>30. Named(i, "GlobalPresence") => i = 25
  BY <1>1, <1>2, <1>3, <1>4, <1>5, <1>6, <1>7, <1>8, <1>9, <1>10, <1>11, <1>12, <1>13, <1>14,
     <1>15, <1>16, <1>17, <1>18, <1>19, <1>20, <1>21, <1>22, <1>23, <1>24, <1>25, <1>26, <1>27 DEF Named
<1> QED BY <1>28, <1>29, <1>30

\* What Info says of a type comes from one entry of the list.
PlaceOf(t) == CHOOSE i \in DOMAIN detailInfo : detailInfo[i][1] = t

LEMMA InfoOf ==
  ASSUME NEW t \in TypeNames
  PROVE  /\ PlaceOf(t) \in 1..26 /\ Named(PlaceOf(t), t)
         /\ Info[t].columns = detailInfo[PlaceOf(t)][2]
         /\ Info[t].bound = detailInfo[PlaceOf(t)][3]
         /\ Info[t].fields = FieldsOf(detailInfo[PlaceOf(t)][3])
<1>1. DOMAIN detailInfo = 1..26
  BY DEF detailInfo
<1>2. TypeNames = {detailInfo[i][1] : i \in DOMAIN detailInfo}
  BY DEF TypeNames, Info, Described
<1>3. \E i \in DOMAIN detailInfo : detailInfo[i][1] = t
  BY <1>2
<1>4. PlaceOf(t) \in DOMAIN detailInfo /\ detailInfo[PlaceOf(t)][1] = t
  BY <1>3 DEF PlaceOf
<1>5. /\ Info[t].columns = detailInfo[PlaceOf(t)][2]
      /\ Info[t].bound = detailInfo[PlaceOf(t)][3]
      /\ Info[t].fields = FieldsOf(detailInfo[PlaceOf(t)][3])
  BY <1>2 DEF Info, Described, PlaceOf
<1> QED BY <1>1, <1>4, <1>5 DEF Named

\* Every column of a type is bound.
LEMMA ColumnsBound ==
  ASSUME NEW t \in TypeNames
  PROVE  DOMAIN Info[t].bound = ToSet(Info[t].columns)
<1>1. /\ PlaceOf(t) \in 1..26
      /\ Info[t].columns = detailInfo[PlaceOf(t)][2]
      /\ Info[t].bound = detailInfo[PlaceOf(t)][3]
  BY InfoOf
<1>2. Agree(PlaceOf(t))
  BY <1>1, Tables
<1> QED BY <1>1, <1>2 DEF Agree

\* Every type has the fields of table Details.
LEMMA CommonFields ==
  ASSUME NEW t \in TypeNames
  PROVE  Common \subseteq Info[t].fields
<1>1. Info[t].fields = FieldsOf(detailInfo[PlaceOf(t)][3])
  BY InfoOf
<1> QED BY <1>1 DEF FieldsOf

\* A presence and the global presence have the same fields.
LEMMA PresenceFields ==
  ASSUME "Presence" \in TypeNames, "GlobalPresence" \in TypeNames
  PROVE  Info["GlobalPresence"].fields = Info["Presence"].fields
<1>1. /\ PlaceOf("Presence") \in 1..26 /\ Named(PlaceOf("Presence"), "Presence")
      /\ Info["Presence"].fields = FieldsOf(detailInfo[PlaceOf("Presence")][3])
  BY InfoOf
<1>2. /\ PlaceOf("GlobalPresence") \in 1..26 /\ Named(PlaceOf("GlobalPresence"), "GlobalPresence")
      /\ Info["GlobalPresence"].fields = FieldsOf(detailInfo[PlaceOf("GlobalPresence")][3])
  BY InfoOf
<1>3. PlaceOf("Presence") = 19 /\ PlaceOf("GlobalPresence") = 25
  BY <1>1, <1>2, Tables
<1>4. detailInfo[19][3] = BoundPresence /\ detailInfo[25][3] = BoundGlobalPresence
  BY DEF detailInfo
<1>5. BoundPresence = BoundGlobalPresence
  BY DEF BoundPresence, BoundGlobalPresence
<1> QED BY <1>1, <1>2, <1>3, <1>4, <1>5

-----------------------------------------------------------------------------
(***************************************************************************)
(* Conversions turn values into values.                                    *)
(***************************************************************************)
LEMMA SomeValues == {"unset", "zero", "plain", "other", "rough", "null"} \subseteq Values
BY DEF Values

\* What is written of a value and what is read of one are values.
LEMMA WriteTyped ==
  ASSUME NEW conversion, NEW v \in Values
  PROVE  Write(conversion, v) \in Values
BY DEF Write, Values

LEMMA ReadTyped ==
  ASSUME NEW conversion, NEW v \in Values
  PROVE  ReadAs(conversion, v) \in Values
BY DEF ReadAs, Values

ColumnsOf(t) == Common \cup ToSet(Info[t].columns)

\* The row of a detail has the columns of its type.
LEMMA RowTyped ==
  ASSUME NEW t \in TypeNames, NEW has \in TypedValues(t)
  PROVE  RowOf(t, has) \in [ColumnsOf(t) -> Values]
<1> DEFINE info == Info[t]
           common == [c \in Common |-> IF has[c] = "unset" THEN "zero" ELSE has[c]]
           own == [c \in DOMAIN info.bound |-> IF c \in info.fields THEN Write(info.bound[c], has[c]) ELSE "null"]
<1>1. RowOf(t, has) = common ++ own
  BY DEF RowOf, RowIn
<1>2. Common \subseteq info.fields /\ DOMAIN info.bound = ToSet(info.columns)
  BY CommonFields, ColumnsBound
<1>3. \A f \in info.fields : has[f] \in Values
  BY DEF TypedValues
<1>4. common \in [Common -> Values]
  BY <1>2, <1>3, SomeValues
<1>5. own \in [ToSet(info.columns) -> Values]
  <2>1. \A c \in info.fields : Write(info.bound[c], has[c]) \in Values
    BY <1>3, WriteTyped
  <2>2. \A c \in DOMAIN info.bound : own[c] \in Values
    BY <2>1, SomeValues
  <2> QED BY <1>2, <2>2
<1> HIDE DEF common, own
<1>6. common ++ own \in [Common \cup ToSet(info.columns) -> Values]
  BY <1>4, <1>5 DEF ++
<1> QED BY <1>1, <1>6 DEF ColumnsOf

\* What is read of a row has the fields of its type.
LEMMA ReadRowTyped ==
  ASSUME NEW t \in TypeNames, NEW row \in [ColumnsOf(t) -> Values]
  PROVE  ReadRow(t, row) \in TypedValues(t)
<1> DEFINE info == Info[t]
           stored(at) == IF at[1] = info.type /\ at[2] \in DOMAIN row THEN row[at[2]] ELSE "null"
           position(f) == {i \in DOMAIN info.sets : info.sets[i][1] = f}
           value(f) == IF f = "linkedDetailUris" /\ row[f] = "rough" THEN "plain"
                       ELSE IF f \in Common THEN IF row[f] = "zero" THEN "unset" ELSE row[f]
                       ELSE IF position(f) = {} THEN "unset"
                       ELSE LET i == CHOOSE i \in position(f) : TRUE
                            IN  ReadAs(info.sets[i][2], stored(info.columnAt[i]))
<1>1. ReadRow(t, row) = [f \in info.fields |-> value(f)]
  BY DEF ReadRow, FieldsIn
<1>2. \A at : stored(at) \in Values
  BY SomeValues
<1>3. \A f \in Common : row[f] \in Values
  BY DEF ColumnsOf
<1> HIDE DEF stored, position
<1>4. ASSUME NEW f PROVE value(f) \in Values
  <2>1. CASE f \in Common
    BY <2>1, <1>3, SomeValues
  <2>2. CASE f \notin Common
    <3>1. f # "linkedDetailUris"
      BY <2>2 DEF Common
    <3>2. \A i : ReadAs(info.sets[i][2], stored(info.columnAt[i])) \in Values
      BY <1>2, ReadTyped
    <3> QED BY <2>2, <3>1, <3>2, SomeValues
  <2> QED BY <2>1, <2>2
<1> HIDE DEF value
<1> QED BY <1>1, <1>4 DEF TypedValues

-----------------------------------------------------------------------------
\* A fold over a list as a recursive function; pairing the details that have
\* the ids of each other.

\* N steps from v, each by g from its number and from where the last led.
IsRun(p, N, v, g) == p = [n \in 0..N |-> IF n = 0 THEN v ELSE g[<<n, p[n - 1]>>]]

\* Steps that lead from V to V can be taken one after the other.
LEMMA Iterates ==
  ASSUME NEW N \in Nat, NEW V, NEW v \in V, NEW g \in [(1..N) \X V -> V]
  PROVE  \E p \in [0..N -> V] : IsRun(p, N, v, g)
<1> DEFINE S == {k \in 0..N : \E p \in [0..k -> V] : IsRun(p, k, v, g)}
<1>1. 0 \in S
  <2> DEFINE p == [n \in 0..0 |-> v]
  <2>1. IsRun(p, 0, v, g)
    BY DEF IsRun
  <2>2. p \in [0..0 -> V]
    OBVIOUS
  <2>3. 0 \in 0..N
    OBVIOUS
  <2> HIDE DEF p
  <2> QED BY <2>1, <2>2, <2>3
<1>2. ASSUME NEW k \in 0..N, k # 0, k - 1 \in S PROVE k \in S
  <2>1. PICK p \in [0..(k - 1) -> V] : IsRun(p, k - 1, v, g)
    BY <1>2
  <2> DEFINE q == [n \in 0..k |-> IF n = k THEN g[<<k, p[k - 1]>>] ELSE p[n]]
  <2>2. k \in 1..N /\ k - 1 \in 0..(k - 1) /\ p[k - 1] \in V
    BY <1>2
  <2>3. g[<<k, p[k - 1]>>] \in V
    BY <2>2
  <2>4. \A n \in 0..k : n # k => n \in 0..(k - 1) /\ p[n] \in V
    BY <1>2
  <2>5. q \in [0..k -> V]
    BY <2>3, <2>4
  <2>6. ASSUME NEW n \in 0..k PROVE q[n] = IF n = 0 THEN v ELSE g[<<n, q[n - 1]>>]
    <3>1. CASE n = k
      <4>1. k - 1 \in 0..k /\ k - 1 # k
        BY <1>2
      <4>2. q[k - 1] = p[k - 1]
        BY <4>1
      <4>3. q[k] = g[<<k, p[k - 1]>>]
        BY <1>2
      <4> HIDE DEF q
      <4> QED BY <4>2, <4>3, <3>1, <1>2
    <3>2. CASE n # k /\ n = 0
      <4>1. q[n] = p[n] /\ n \in 0..(k - 1)
        BY <3>2, <2>4
      <4>2. p[n] = v
        BY <4>1, <3>2, <2>1 DEF IsRun
      <4> HIDE DEF q
      <4> QED BY <4>1, <4>2, <3>2
    <3>3. CASE n # k /\ n # 0
      <4>1. q[n] = p[n] /\ n \in 0..(k - 1)
        BY <3>3, <2>4
      <4>2. p[n] = g[<<n, p[n - 1]>>]
        BY <4>1, <3>3, <2>1 DEF IsRun
      <4>3. n - 1 \in 0..k /\ n - 1 # k
        BY <3>3, <1>2
      <4>4. q[n - 1] = p[n - 1]
        BY <4>3
      <4> HIDE DEF q
      <4> QED BY <4>1, <4>2, <4>4, <3>3
    <3> QED BY <3>1, <3>2, <3>3
  <2>7. q = [n \in 0..k |-> q[n]]
    OBVIOUS
  <2> HIDE DEF q
  <2>8. IsRun(q, k, v, g)
    BY <2>6, <2>7 DEF IsRun
  <2> QED BY <2>5, <2>8
<1> HIDE DEF S
<1>3. \A n \in 0..N : n \in S
  BY <1>1, <1>2, UpTo
<1>4. N \in S
  BY <1>3
<1> QED BY <1>4 DEF S

\* Any positions have a last one.
LEMMA Greatest ==
  ASSUME NEW n \in Nat, NEW S, S \subseteq 1..n, S # {}
  PROVE  \E x \in S : \A y \in S : y <= x
<1> DEFINE T == {n - x : x \in S}
<1>1. \A x \in S : n - x \in Nat
  OBVIOUS
<1>2. PICK t \in T : \A u \in T : t <= u
  <2>1. T \subseteq Nat /\ T # {}
    BY <1>1
  <2> HIDE DEF T
  <2> QED BY <2>1, Least
<1>3. PICK x \in S : t = n - x
  OBVIOUS
<1>4. \A y \in S : n - y \in T
  OBVIOUS
<1> HIDE DEF T
<1>5. \A y \in S : y <= x
  BY <1>2, <1>3, <1>4
<1> QED BY <1>5
-----------------------------------------------------------------------------
(***************************************************************************)
(* What a delta is made of.                                                *)
(***************************************************************************)
\* Pairs of positions, and what is left, when only some old details are left over.
Pairs(A, new) == A \X DOMAIN new
Lefts(A, new) == [old : SUBSET A, new : SUBSET DOMAIN new, pairs : Seq(Pairs(A, new))]
UnmatchedOld(old, new) ==
  {i \in DOMAIN old :
     \A j \in DOMAIN new : detailPairExactlyMatches(old[i], new[j]) =>
                           \E k \in DOMAIN old : k > i /\ detailPairExactlyMatches(old[k], new[j])}

\* What matches exactly leaves positions of both lists.
LEMMA UnmatchedLefts ==
  ASSUME NEW old, NEW new
  PROVE  Unmatched(old, new) \in Lefts(UnmatchedOld(old, new), new)
<1>1. /\ Unmatched(old, new).old = UnmatchedOld(old, new)
      /\ Unmatched(old, new).new \in SUBSET DOMAIN new
      /\ Unmatched(old, new).pairs = <<>>
  BY DEF Unmatched, UnmatchedOld
<1>2. Unmatched(old, new) = [old |-> Unmatched(old, new).old, new |-> Unmatched(old, new).new,
                             pairs |-> Unmatched(old, new).pairs]
  BY DEF Unmatched
<1>3. <<>> \in Seq(Pairs(UnmatchedOld(old, new), new))
  OBVIOUS
<1> QED BY <1>1, <1>2, <1>3 DEF Lefts

\* So does pairing one detail with one of its id.
LEMMA PairByIdLefts ==
  ASSUME NEW old, NEW S, NEW new \in Seq(S), NEW A, NEW i, NEW left \in Lefts(A, new)
  PROVE  PairById(old, new, i, left) \in Lefts(A, new)
<1> DEFINE same == {j \in left.new : /\ i \in left.old /\ old[i].id > 0
                                     /\ new[j].id = old[i].id /\ new[j].type = old[i].type}
           last == CHOOSE j \in same : \A k \in same : k <= j
<1>1. /\ left.old \subseteq A /\ left.new \subseteq DOMAIN new /\ left.pairs \in Seq(Pairs(A, new))
      /\ DOMAIN new = 1..Len(new) /\ Len(new) \in Nat
  BY DEF Lefts
<1>2. PairById(old, new, i, left) =
        IF same = {} THEN left
        ELSE [old |-> left.old \ {i}, new |-> left.new \ {last}, pairs |-> Append(left.pairs, <<i, last>>)]
  BY DEF PairById
<1>3. CASE same = {}
  BY <1>2, <1>3
<1>4. CASE same # {}
  <2>1. same \subseteq 1..Len(new) /\ i \in left.old
    BY <1>1, <1>4
  <2>2. \E j \in same : \A k \in same : k <= j
    <3> HIDE DEF same
    <3> QED BY <1>1, <1>4, <2>1, Greatest
  <2>3. last \in same
    BY <2>2
  <2>4. last \in DOMAIN new /\ i \in A
    BY <2>1, <2>3, <1>1
  <2> HIDE DEF same, last
  <2>5. Append(left.pairs, <<i, last>>) \in Seq(Pairs(A, new))
    BY <1>1, <2>4 DEF Pairs
  <2>6. left.old \ {i} \in SUBSET A /\ left.new \ {last} \in SUBSET DOMAIN new
    BY <1>1
  <2> QED BY <1>2, <1>4, <2>5, <2>6 DEF Lefts
<1> QED BY <1>3, <1>4

\* The recursion that pairs by id.
IsPairing(old, new, p) ==
  p = [n \in 0..Len(old) |->
         IF n = 0 THEN Unmatched(old, new) ELSE PairById(old, new, Len(old) + 1 - n, p[n - 1])]

\* Its steps.
LEMMA PairedSteps ==
  ASSUME NEW S, NEW old \in Seq(S), NEW new \in Seq(S)
  PROVE  \E q : /\ PairedById(old, new) = q[Len(old)] /\ q[0] = Unmatched(old, new)
                /\ \A n \in 1..Len(old) : q[n] = PairById(old, new, Len(old) + 1 - n, q[n - 1])
<1> DEFINE N == Len(old)
           V == Lefts(UnmatchedOld(old, new), new)
           v == Unmatched(old, new)
           g == [x \in (1..N) \X V |-> PairById(old, new, N + 1 - x[1], x[2])]
<1>1. N \in Nat /\ v \in V
  BY UnmatchedLefts
<1>2. \A i : \A left \in V : PairById(old, new, i, left) \in V
  BY PairByIdLefts
<1>3. \A n \in 1..N : \A left \in V : g[<<n, left>>] = PairById(old, new, N + 1 - n, left)
  OBVIOUS
<1>4. g \in [(1..N) \X V -> V]
  BY <1>2
<1> HIDE DEF N, V, v, g
<1>5. PICK p \in [0..N -> V] : IsRun(p, N, v, g)
  BY <1>1, <1>4, Iterates
<1>6. \A n \in 0..N : n # 0 => n - 1 \in 0..N /\ n \in 1..N
  BY <1>1
<1>7. \A n \in 0..N : n # 0 => g[<<n, p[n - 1]>>] = PairById(old, new, N + 1 - n, p[n - 1])
  BY <1>3, <1>5, <1>6
<1>8. p = [n \in 0..N |-> IF n = 0 THEN v ELSE PairById(old, new, N + 1 - n, p[n - 1])]
  BY <1>5, <1>7 DEF IsRun
<1>9. IsPairing(old, new, p)
  BY <1>8 DEF IsPairing, N, v
<1> DEFINE q == CHOOSE q : IsPairing(old, new, q)
<1>10. IsPairing(old, new, q)
  BY <1>9
<1>11. PairedById(old, new) = q[Len(old)]
  BY DEF PairedById, IsPairing
<1> HIDE DEF q
<1>12. \A n \in 0..N : q[n] = IF n = 0 THEN v ELSE PairById(old, new, N + 1 - n, q[n - 1])
  BY <1>10 DEF IsPairing, N, v
<1>13. 0 \in 0..N /\ \A n \in 1..N : n \in 0..N /\ n # 0
  BY <1>1
<1>14. q[0] = v /\ \A n \in 1..N : q[n] = PairById(old, new, N + 1 - n, q[n - 1])
  BY <1>12, <1>13
<1> QED BY <1>11, <1>14 DEF N, v

\* What holds before any pairing by id, and after each step, holds after all.
LEMMA PairedHolds ==
  ASSUME NEW S, NEW old \in Seq(S), NEW new \in Seq(S), NEW T, Unmatched(old, new) \in T,
         \A i : \A left \in T : PairById(old, new, i, left) \in T
  PROVE  PairedById(old, new) \in T
<1> DEFINE N == Len(old)
<1>1. PICK q : /\ PairedById(old, new) = q[N] /\ q[0] = Unmatched(old, new)
               /\ \A n \in 1..N : q[n] = PairById(old, new, N + 1 - n, q[n - 1])
  BY PairedSteps
<1> DEFINE there == {n \in 0..N : q[n] \in T}
<1>2. N \in Nat
  OBVIOUS
<1> HIDE DEF N
<1>3. 0 \in there
  BY <1>1, <1>2
<1>4. \A n \in 0..N : n # 0 /\ n - 1 \in there => n \in there
  <2> SUFFICES ASSUME NEW n \in 0..N, n # 0, q[n - 1] \in T PROVE q[n] \in T
    OBVIOUS
  <2>1. n \in 1..N
    BY <1>2
  <2> QED BY <1>1, <2>1
<1> HIDE DEF there
<1>5. \A n \in 0..N : n \in there
  BY <1>2, <1>3, <1>4, UpTo
<1>6. N \in there
  BY <1>2, <1>5
<1> QED BY <1>1, <1>6 DEF there

\* And so does pairing all of them.
LEMMA PairedLefts ==
  ASSUME NEW S, NEW old \in Seq(S), NEW new \in Seq(S)
  PROVE  PairedById(old, new) \in Lefts(UnmatchedOld(old, new), new)
<1> DEFINE T == Lefts(UnmatchedOld(old, new), new)
<1>1. Unmatched(old, new) \in T
  BY UnmatchedLefts
<1>2. \A i : \A left \in T : PairById(old, new, i, left) \in T
  BY PairByIdLefts
<1> HIDE DEF T
<1>3. PairedById(old, new) \in T
  BY <1>1, <1>2, PairedHolds
<1> QED BY <1>3 DEF T

-----------------------------------------------------------------------------
\* determineModifications, which recurs on what is left over: it exists, and
\* pairs the details that were left.

\* What determineModifications makes of the positions that are left.
Rest(left, p) == <<left[1] \ {p[1]}, left[2] \ {p[2]}>>
Extended(f, left, p) == {<<p>> \o rest : rest \in f[Rest(left, p)]}
Modified(old, new, f, left) ==
  IF Closest(old, new, left) = {} THEN {<<>>}
  ELSE UNION {Extended(f, left, p) : p \in Closest(old, new, left)}
Left(old, new) == (SUBSET DOMAIN old) \X (SUBSET DOMAIN new)
IsModifications(old, new, f) == f = [left \in Left(old, new) |-> Modified(old, new, f, left)]

\* The closest of what is left are positions that are left.
LEMMA ClosestPairs ==
  ASSUME NEW old, NEW new, NEW left
  PROVE  Closest(old, new, left) \subseteq left[1] \X left[2]
BY DEF Closest

\* What determineModifications is, if there is such a function.
LEMMA ModificationsUnfold ==
  ASSUME NEW old, NEW new, \E f : IsModifications(old, new, f)
  PROVE  IsModifications(old, new, determineModifications(old, new))
<1> DEFINE q == CHOOSE f : IsModifications(old, new, f)
<1>1. IsModifications(old, new, q)
  OBVIOUS
<1>2. determineModifications(old, new) = q
  BY DEF determineModifications, IsModifications, Modified, Extended, Rest, Left
<1> QED BY <1>1, <1>2

\* A pair taken, less is left.
LEMMA RestSmaller ==
  ASSUME NEW S, NEW old \in Seq(S), NEW new, NEW left \in Left(old, new), NEW p \in left[1] \X left[2]
  PROVE  /\ Rest(left, p) \in Left(old, new)
         /\ IsFiniteSet(left[1]) /\ Cardinality(left[1]) \in Nat
         /\ Cardinality(Rest(left, p)[1]) = Cardinality(left[1]) - 1
<1>1. Len(old) \in Nat /\ left[1] \subseteq 1..Len(old) /\ p[1] \in left[1]
  BY DEF Left
<1>2. IsFiniteSet(left[1]) /\ Cardinality(left[1]) \in Nat
  BY <1>1, FiniteNumbers
<1>3. Cardinality(left[1] \ {p[1]}) = Cardinality(left[1]) - 1
  BY <1>1, <1>2, FS_RemoveElement
<1>4. Rest(left, p) \in Left(old, new) /\ Rest(left, p)[1] = left[1] \ {p[1]}
  BY DEF Rest, Left
<1> QED BY <1>2, <1>3, <1>4

\* There is such a function: by induction on how many old details are left.
LEMMA ModificationsExist ==
  ASSUME NEW S, NEW old \in Seq(S), NEW new
  PROVE  \E f : IsModifications(old, new, f)
<1> DEFINE Small(k) == {left \in Left(old, new) : Cardinality(left[1]) <= k}
           IsThere(k) == \E f : f = [left \in Small(k) |-> Modified(old, new, f, left)]
           N == Len(old)
           T == {k \in 0..N : IsThere(k)}
<1>1. N \in Nat
  OBVIOUS
<1>2. \A left \in Left(old, new) : /\ IsFiniteSet(left[1]) /\ Cardinality(left[1]) \in Nat
                                   /\ Cardinality(left[1]) <= N
  <2> SUFFICES ASSUME NEW left \in Left(old, new)
               PROVE  IsFiniteSet(left[1]) /\ Cardinality(left[1]) \in Nat /\ Cardinality(left[1]) <= N
    OBVIOUS
  <2>1. left[1] \in SUBSET (1..N)
    BY DEF Left
  <2>2. IsFiniteSet(1..N) /\ Cardinality(1..N) = N
    BY <1>1, FS_Interval
  <2> HIDE DEF N
  <2> QED BY <2>1, <2>2, FS_Subset, FS_CardinalityType
<1>3. \A left \in Left(old, new) : \A p \in Closest(old, new, left) :
        /\ Rest(left, p) \in Left(old, new)
        /\ Cardinality(Rest(left, p)[1]) = Cardinality(left[1]) - 1
  <2> SUFFICES ASSUME NEW left \in Left(old, new), NEW p \in Closest(old, new, left)
               PROVE  /\ Rest(left, p) \in Left(old, new)
                      /\ Cardinality(Rest(left, p)[1]) = Cardinality(left[1]) - 1
    OBVIOUS
  <2>1. p \in left[1] \X left[2]
    BY ClosestPairs
  <2> QED BY <2>1, RestSmaller
<1>4. 0 \in T
  <2> DEFINE f == [left \in Small(0) |-> {<<>>}]
  <2>1. ASSUME NEW left \in Small(0) PROVE Modified(old, new, f, left) = {<<>>}
    <3>1. left \in Left(old, new) /\ Cardinality(left[1]) = 0
      BY <1>2, <2>1
    <3>2. left[1] = {}
      BY <1>2, <3>1, FS_EmptySet
    <3>3. Closest(old, new, left) = {}
      BY <3>2, ClosestPairs
    <3> QED BY <3>3 DEF Modified
  <2>2. f = [left \in Small(0) |-> f[left]] /\ \A left \in Small(0) : f[left] = {<<>>}
    OBVIOUS
  <2> HIDE DEF f, Small
  <2>3. f = [left \in Small(0) |-> Modified(old, new, f, left)]
    BY <2>1, <2>2
  <2>4. IsThere(0)
    BY <2>3
  <2>5. 0 \in 0..N
    BY <1>1
  <2> QED BY <2>4, <2>5
<1>5. ASSUME NEW k \in 0..N, k # 0, k - 1 \in T PROVE k \in T
  <2>1. PICK f : f = [left \in Small(k - 1) |-> Modified(old, new, f, left)]
    BY <1>5
  <2> DEFINE g == [left \in Small(k) |-> Modified(old, new, f, left)]
  <2>2. \A left \in Small(k) : \A p \in Closest(old, new, left) : Rest(left, p) \in Small(k - 1)
    <3> SUFFICES ASSUME NEW left \in Small(k), NEW p \in Closest(old, new, left)
                 PROVE  Rest(left, p) \in Small(k - 1)
      OBVIOUS
    <3>1. /\ Rest(left, p) \in Left(old, new)
          /\ Cardinality(Rest(left, p)[1]) = Cardinality(left[1]) - 1
          /\ Cardinality(left[1]) \in Nat /\ Cardinality(left[1]) <= k
      BY <1>2, <1>3
    <3>2. Cardinality(Rest(left, p)[1]) <= k - 1
      BY <3>1
    <3> QED BY <3>1, <3>2
  <2>3. \A left \in Small(k - 1) : left \in Small(k)
    <3> SUFFICES ASSUME NEW left \in Small(k - 1) PROVE left \in Small(k)
      OBVIOUS
    <3>1. left \in Left(old, new) /\ Cardinality(left[1]) \in Nat /\ Cardinality(left[1]) <= k - 1
      BY <1>2
    <3>2. Cardinality(left[1]) <= k
      BY <3>1
    <3> QED BY <3>1, <3>2
  <2> HIDE DEF Small
  <2>4. \A left \in Small(k - 1) : g[left] = f[left]
    BY <2>1, <2>3
  <2>5. ASSUME NEW left \in Small(k) PROVE Modified(old, new, g, left) = Modified(old, new, f, left)
    <3> HIDE DEF g
    <3>1. \A p \in Closest(old, new, left) : g[Rest(left, p)] = f[Rest(left, p)]
      BY <2>2, <2>4
    <3>2. \A p \in Closest(old, new, left) : Extended(g, left, p) = Extended(f, left, p)
      BY <3>1 DEF Extended
    <3>3. {Extended(g, left, p) : p \in Closest(old, new, left)}
          = {Extended(f, left, p) : p \in Closest(old, new, left)}
      BY <3>2
    <3> QED BY <3>3 DEF Modified
  <2>6. g = [left \in Small(k) |-> g[left]] /\ \A left \in Small(k) : g[left] = Modified(old, new, f, left)
    OBVIOUS
  <2> HIDE DEF g
  <2>7. g = [left \in Small(k) |-> Modified(old, new, g, left)]
    BY <2>5, <2>6
  <2> QED BY <2>7
<1>6. Left(old, new) = Small(N)
  BY <1>2
<1> HIDE DEF T, Small, N
<1>7. \A k \in 0..N : k \in T
  BY <1>1, <1>4, <1>5, UpTo
<1>8. IsThere(N)
  BY <1>1, <1>7 DEF T
<1> QED BY <1>6, <1>8 DEF IsModifications

\* What holds of what is left when it holds whichever closest two are taken, always holds.
LEMMA LeftHolds ==
  ASSUME NEW S, NEW old \in Seq(S), NEW new, NEW T,
         \A x \in Left(old, new) : (\A p \in Closest(old, new, x) : Rest(x, p) \in T) => x \in T
  PROVE  \A x \in Left(old, new) : x \in T
<1> DEFINE N == Len(old)
           Fit(k) == {x \in Left(old, new) : Cardinality(x[1]) = k}
           there == {k \in 0..N : \A x \in Fit(k) : x \in T}
<1>1. N \in Nat
  OBVIOUS
<1>2. ASSUME NEW x \in Left(old, new), NEW p \in Closest(old, new, x)
      PROVE  /\ Rest(x, p) \in Left(old, new) /\ Cardinality(x[1]) \in Nat
             /\ Cardinality(Rest(x, p)[1]) = Cardinality(x[1]) - 1
  <2>1. p \in x[1] \X x[2]
    BY ClosestPairs
  <2> QED BY <2>1, RestSmaller
<1>3. 0 \in there
  <2>1. ASSUME NEW x \in Fit(0) PROVE x \in T
    <3>1. Len(old) \in Nat /\ x[1] \subseteq 1..Len(old)
      BY DEF Left
    <3>2. IsFiniteSet(x[1]) /\ Cardinality(x[1]) = 0
      BY <3>1, FiniteNumbers
    <3>3. x[1] = {}
      BY <3>2, FS_EmptySet
    <3>4. Closest(old, new, x) = {}
      BY <3>3, ClosestPairs
    <3> QED BY <3>4
  <2>2. 0 \in 0..N
    BY <1>1
  <2> QED BY <2>1, <2>2
<1>4. ASSUME NEW k \in 0..N, k # 0, k - 1 \in there PROVE k \in there
  <2>1. ASSUME NEW x \in Fit(k) PROVE x \in T
    <3>1. ASSUME NEW p \in Closest(old, new, x) PROVE Rest(x, p) \in T
      <4>1. Rest(x, p) \in Fit(k - 1)
        BY <1>2
      <4> QED BY <4>1, <1>4
    <3> QED BY <3>1
  <2> QED BY <2>1
<1> HIDE DEF there, N, Fit
<1>5. \A k \in 0..N : k \in there
  BY <1>1, <1>3, <1>4, UpTo
<1> SUFFICES ASSUME NEW x \in Left(old, new) PROVE x \in T
  OBVIOUS
<1>6. x \in Fit(Cardinality(x[1])) /\ Cardinality(x[1]) \in 0..N
  <2>1. x[1] \in SUBSET (1..N) /\ N \in Nat
    BY DEF Left, N
  <2>2. IsFiniteSet(1..N) /\ Cardinality(1..N) = N
    BY <1>1, FS_Interval
  <2>3. Cardinality(x[1]) \in Nat /\ Cardinality(x[1]) <= N
    BY <2>1, <2>2, FS_Subset, FS_CardinalityType
  <2> QED BY <2>1, <2>3 DEF Fit
<1> QED BY <1>5, <1>6 DEF there

\* The pairs of what is left: none, or a closest two and the pairs of the rest.
IsNextModification(old, new, x, more) ==
  \/ Closest(old, new, x) = {} /\ more = <<>>
  \/ \E p \in Closest(old, new, x) : \E rest \in determineModifications(old, new)[Rest(x, p)] :
       more = <<p>> \o rest

LEMMA ModificationsAre ==
  ASSUME NEW S, NEW old \in Seq(S), NEW new, NEW x \in Left(old, new),
         NEW more \in determineModifications(old, new)[x]
  PROVE  IsNextModification(old, new, x, more)
<1> DEFINE f == determineModifications(old, new)
<1>1. IsModifications(old, new, f)
  BY ModificationsExist, ModificationsUnfold
<1> HIDE DEF f
<1>2. f[x] = Modified(old, new, f, x)
  BY <1>1 DEF IsModifications
<1>3. more \in Modified(old, new, f, x)
  BY <1>2 DEF f
<1>4. CASE Closest(old, new, x) = {}
  BY <1>3, <1>4 DEF Modified, IsNextModification
<1>5. CASE Closest(old, new, x) # {}
  <2>1. more \in UNION {Extended(f, x, p) : p \in Closest(old, new, x)}
    BY <1>3, <1>5 DEF Modified
  <2>2. PICK p \in Closest(old, new, x) : more \in Extended(f, x, p)
    BY <2>1
  <2> QED BY <2>2 DEF Extended, f, IsNextModification
<1> QED BY <1>4, <1>5

\* They pair old details that were left with new ones.
LEMMA ModificationsPairs ==
  ASSUME NEW S, NEW old \in Seq(S), NEW new, NEW A, NEW left \in Left(old, new), left[1] \subseteq A
  PROVE  determineModifications(old, new)[left] \subseteq Seq(Pairs(A, new))
<1> DEFINE f == determineModifications(old, new)
           T == {x \in Left(old, new) : x[1] \subseteq A => f[x] \subseteq Seq(Pairs(A, new))}
<1>1. ASSUME NEW x \in Left(old, new), \A p \in Closest(old, new, x) : Rest(x, p) \in T PROVE x \in T
  <2> SUFFICES ASSUME x[1] \subseteq A, NEW more \in f[x] PROVE more \in Seq(Pairs(A, new))
    OBVIOUS
  <2>1. CASE more = <<>>
    <3>1. <<>> \in Seq(Pairs(A, new))
      OBVIOUS
    <3> QED BY <2>1, <3>1
  <2>2. ASSUME NEW p \in Closest(old, new, x), NEW rest \in f[Rest(x, p)], more = <<p>> \o rest
        PROVE  more \in Seq(Pairs(A, new))
    <3>1. p \in x[1] \X x[2]
      BY ClosestPairs
    <3>2. p \in Pairs(A, new)
      BY <3>1 DEF Left, Pairs
    <3>3. Rest(x, p)[1] \subseteq A
      BY DEF Rest
    <3>4. rest \in Seq(Pairs(A, new))
      BY <1>1, <2>2, <3>3
    <3>5. <<p>> \o rest \in Seq(Pairs(A, new))
      <4> HIDE DEF f, T
      <4> QED BY <3>2, <3>4
    <3> QED BY <2>2, <3>5
  <2>3. \/ more = <<>>
        \/ \E p \in Closest(old, new, x) : \E rest \in f[Rest(x, p)] : more = <<p>> \o rest
    <3>1. more \in determineModifications(old, new)[x]
      OBVIOUS
    <3>2. IsNextModification(old, new, x, more)
      BY <3>1, ModificationsAre
    <3> QED BY <3>2 DEF IsNextModification
  <2> QED BY <2>1, <2>2, <2>3
<1> HIDE DEF T
<1>2. left \in T
  BY <1>1, LeftHolds
<1> QED BY <1>2 DEF T

-----------------------------------------------------------------------------
\* The delta and its steps name rows of old details and positions of new ones.

\* A list of some values is one of more.
LEMMA WiderList == ASSUME NEW S, NEW T, S \subseteq T, NEW s \in Seq(S) PROVE s \in Seq(T)
OBVIOUS

\* The rows that a delta may name: those of the old details that are left over.
IdsOf(old, new) ==
  {old[i].id : i \in UnmatchedOld(old, new)}
  \cup {constructModification(old[p[1]], new[p[2]]) : p \in Pairs(UnmatchedOld(old, new), new)}
IsChange(ids, new, m) == m.at \in DOMAIN new /\ m.id \in ids
IsDelta(old, new, delta) ==
  /\ delta.deletions \in Seq(UnmatchedOld(old, new))
  /\ delta.additions \in Seq(DOMAIN new)
  /\ Len(delta.modifications) \in Nat
  /\ DOMAIN delta.modifications = 1..Len(delta.modifications)
  /\ \A n \in DOMAIN delta.modifications : IsChange(IdsOf(old, new), new, delta.modifications[n])

\* Every delta is sound: its ids are those of old details that were left.
LEMMA DeltaSound ==
  ASSUME NEW S, NEW old \in Seq(S), NEW new \in Seq(S), NEW delta \in determineContactDetailDelta(old, new)
  PROVE  IsDelta(old, new, delta)
<1> DEFINE byId == PairedById(old, new)
           A == UnmatchedOld(old, new)
           Taken(pairs, k) == {pairs[n][k] : n \in DOMAIN pairs}
           change(p) == [at |-> p[2], id |-> constructModification(old[p[1]], new[p[2]])]
           Mods(pairs) == [n \in DOMAIN pairs |-> change(pairs[n])]
<1>1. byId \in Lefts(A, new)
  BY PairedLefts
<1> HIDE DEF byId
<1>2. byId.old \subseteq A /\ byId.new \subseteq DOMAIN new /\ byId.pairs \in Seq(Pairs(A, new))
  BY <1>1 DEF Lefts
<1>3. A \subseteq DOMAIN old /\ DOMAIN old = 1..Len(old) /\ Len(old) \in Nat
      /\ DOMAIN new = 1..Len(new) /\ Len(new) \in Nat
  BY DEF UnmatchedOld
<1>4. <<byId.old, byId.new>> \in Left(old, new)
  BY <1>2, <1>3 DEF Left
<1>5. determineModifications(old, new)[<<byId.old, byId.new>>] \subseteq Seq(Pairs(A, new))
  BY <1>2, <1>4, ModificationsPairs
<1>6. PICK more \in determineModifications(old, new)[<<byId.old, byId.new>>] :
        delta = [modifications |-> Mods(byId.pairs \o more),
                 deletions |-> LastFirst(byId.old \ Taken(byId.pairs \o more, 1)),
                 additions |-> LastFirst(byId.new \ Taken(byId.pairs \o more, 2))]
  BY DEF determineContactDetailDelta, byId
<1> DEFINE pairs == byId.pairs \o more
<1>7. pairs \in Seq(Pairs(A, new))
  BY <1>2, <1>5
<1>8. /\ delta.modifications = Mods(pairs)
      /\ delta.deletions = LastFirst(byId.old \ Taken(pairs, 1))
      /\ delta.additions = LastFirst(byId.new \ Taken(pairs, 2))
  BY <1>6
<1> HIDE DEF pairs, Taken
<1>9. delta.deletions \in Seq(A)
  <2> DEFINE gone == byId.old \ Taken(pairs, 1)
  <2>1. gone \subseteq 1..Len(old) /\ gone \subseteq A
    BY <1>2, <1>3
  <2>4. delta.deletions = LastFirst(gone)
    BY <1>8
  <2> HIDE DEF gone
  <2>2. LastFirst(gone) \in Seq(gone)
    BY <1>3, <2>1, LastFirstPositions
  <2>3. LastFirst(gone) \in Seq(A)
    <3> HIDE DEF A
    <3> QED BY <2>1, <2>2, WiderList
  <2> QED BY <2>4, <2>3
<1>10. delta.additions \in Seq(DOMAIN new)
  <2> DEFINE more2 == byId.new \ Taken(pairs, 2)
  <2>1. more2 \subseteq 1..Len(new) /\ more2 \subseteq DOMAIN new
    BY <1>2, <1>3
  <2> HIDE DEF more2
  <2>2. LastFirst(more2) \in Seq(more2)
    BY <1>3, <2>1, LastFirstPositions
  <2>3. LastFirst(more2) \in Seq(DOMAIN new)
    BY <2>1, <2>2
  <2> QED BY <1>8, <2>3 DEF more2
<1>11. \A p \in Pairs(A, new) : IsChange(IdsOf(old, new), new, change(p))
  <2> SUFFICES ASSUME NEW p \in Pairs(A, new) PROVE IsChange(IdsOf(old, new), new, change(p))
    OBVIOUS
  <2>1. change(p).at \in DOMAIN new
    BY DEF Pairs
  <2>2. change(p).id = constructModification(old[p[1]], new[p[2]])
    OBVIOUS
  <2>3. change(p).id \in IdsOf(old, new)
    BY <2>2 DEF IdsOf
  <2> QED BY <2>1, <2>3 DEF IsChange
<1>12. /\ Len(pairs) \in Nat /\ DOMAIN pairs = 1..Len(pairs)
       /\ \A n \in DOMAIN pairs : pairs[n] \in Pairs(A, new)
  BY <1>7
<1>13. /\ DOMAIN delta.modifications = DOMAIN pairs
       /\ \A n \in DOMAIN pairs : delta.modifications[n] = change(pairs[n])
  BY <1>8
<1> HIDE DEF change
<1>14. Len(delta.modifications) = Len(pairs)
  <2>1. delta.modifications = [n \in 1..Len(pairs) |-> change(pairs[n])]
    BY <1>8, <1>12
  <2> QED BY <2>1, <1>12
<1>15. \A n \in DOMAIN delta.modifications : IsChange(IdsOf(old, new), new, delta.modifications[n])
  BY <1>11, <1>12, <1>13
<1> QED BY <1>9, <1>10, <1>12, <1>13, <1>14, <1>15 DEF IsDelta

-----------------------------------------------------------------------------
\* The steps of a delta.
IsStep(ids, list, step) ==
  /\ step.do \in {"delete", "modify", "add"}
  /\ step.do # "add" => step.id \in ids
  /\ step.do # "delete" => step.at \in DOMAIN list
AreSteps(ids, list, steps) ==
  /\ Len(steps) \in Nat
  /\ \A n \in 1..Len(steps) : IsStep(ids, list, steps[n])

\* Its steps are too.
LEMMA StepsSound ==
  ASSUME NEW S, NEW old \in Seq(S), NEW list \in Seq(S), NEW delta, IsDelta(old, list, delta)
  PROVE  AreSteps(IdsOf(old, list), list, Steps(list, old, delta))
<1> DEFINE ids == IdsOf(old, list)
           All == {step \in [do : {"delete", "modify", "add"},
                             type : {old[i].type : i \in DOMAIN old} \cup {list[i].type : i \in DOMAIN list},
                             id : ids \cup {0}, at : DOMAIN list \cup {0}] : IsStep(ids, list, step)}
           deletes == [n \in DOMAIN delta.deletions |->
              [do |-> "delete", type |-> old[delta.deletions[n]].type, id |-> old[delta.deletions[n]].id, at |-> 0]]
           modifies == [n \in DOMAIN delta.modifications |->
              [do |-> "modify", type |-> list[delta.modifications[n].at].type,
               id |-> delta.modifications[n].id, at |-> delta.modifications[n].at]]
           adds == [n \in DOMAIN delta.additions |->
              [do |-> "add", type |-> list[delta.additions[n]].type, id |-> 0, at |-> delta.additions[n]]]
<1>1. deletes \in Seq(All)
  <2>1. ASSUME NEW n \in DOMAIN delta.deletions PROVE deletes[n] \in All
    <3>1. delta.deletions[n] \in UnmatchedOld(old, list) /\ delta.deletions[n] \in DOMAIN old
      BY DEF IsDelta, UnmatchedOld
    <3>2. old[delta.deletions[n]].id \in ids
      BY <3>1 DEF IdsOf
    <3> HIDE DEF ids
    <3> QED BY <3>1, <3>2 DEF IsStep
  <2> DEFINE N == Len(delta.deletions)
  <2>2. N \in Nat /\ DOMAIN delta.deletions = 1..N
    BY DEF IsDelta
  <2> HIDE DEF N
  <2>3. deletes = [n \in 1..N |-> deletes[n]]
    BY <2>2
  <2> HIDE DEF All, deletes
  <2>4. \A n \in 1..N : deletes[n] \in All
    BY <2>1, <2>2
  <2> QED BY <2>2, <2>3, <2>4
<1>2. modifies \in Seq(All)
  <2>1. ASSUME NEW n \in DOMAIN delta.modifications PROVE modifies[n] \in All
    <3>1. delta.modifications[n].at \in DOMAIN list /\ delta.modifications[n].id \in ids
      BY DEF IsDelta, IsChange
    <3> HIDE DEF ids
    <3> QED BY <3>1 DEF IsStep
  <2> DEFINE N == Len(delta.modifications)
  <2>2. N \in Nat /\ DOMAIN delta.modifications = 1..N
    BY DEF IsDelta
  <2> HIDE DEF N
  <2>3. modifies = [n \in 1..N |-> modifies[n]]
    BY <2>2
  <2> HIDE DEF All, modifies
  <2>4. \A n \in 1..N : modifies[n] \in All
    BY <2>1, <2>2
  <2> QED BY <2>2, <2>3, <2>4
<1>3. adds \in Seq(All)
  <2>1. ASSUME NEW n \in DOMAIN delta.additions PROVE adds[n] \in All
    <3>1. delta.additions[n] \in DOMAIN list
      BY DEF IsDelta
    <3> HIDE DEF ids
    <3> QED BY <3>1 DEF IsStep
  <2> DEFINE N == Len(delta.additions)
  <2>2. N \in Nat /\ DOMAIN delta.additions = 1..N
    BY DEF IsDelta
  <2> HIDE DEF N
  <2>3. adds = [n \in 1..N |-> adds[n]]
    BY <2>2
  <2> HIDE DEF All, adds
  <2>4. \A n \in 1..N : adds[n] \in All
    BY <2>1, <2>2
  <2> QED BY <2>2, <2>3, <2>4
<1>4. Steps(list, old, delta) = (deletes \o modifies) \o adds
  BY DEF Steps
<1> HIDE DEF deletes, modifies, adds
<1>5. Steps(list, old, delta) \in Seq(All)
  <2> HIDE DEF All
  <2> QED BY <1>1, <1>2, <1>3, <1>4
<1>6. \A step \in All : IsStep(ids, list, step)
  OBVIOUS
<1> HIDE DEF All
<1> QED BY <1>5, <1>6 DEF AreSteps

-----------------------------------------------------------------------------
\* A row that is written to once more: its flags, and the rows around it.

\* Rows of some types, or none: what is unhandled is flagged, and none is before a fetch.
RowSet(T) ==
  {None} \cup {r \in UNION {TypedRow(t) : t \in T} : /\ r.unhandled \subseteq r.flags
                                                     /\ r.unhandled # {} => records}
\* Details with any row, those that a write adds beyond the bound included.
DetailsOf(t) == [type : {t}, id : Nat, created : Nat, modified : Nat, has : TypedValues(t)]
DetailSet(T) == UNION {DetailsOf(t) : t \in T}

\* What becomes of the flags of a row that is written to.
Marked(r, s) ==
  /\ r.flags \subseteq s.flags /\ s.flags # {}
  /\ IF records THEN /\ r.unhandled \subseteq s.unhandled /\ s.unhandled # {}
                     /\ s.flags \ r.flags \subseteq s.unhandled
     ELSE s.unhandled = r.unhandled
Kept(r, s) ==
  IF r = None THEN s = None ELSE s # None /\ s.type = r.type /\ (s = r \/ Marked(r, s))
Fresh(s) ==
  /\ s # None
  /\ "added" \in s.flags
  /\ s.unhandled = IF records THEN s.flags ELSE {}

\* Such a row is one of a type.
LEMMA RowKnown ==
  ASSUME NEW T, T \subseteq TypeNames, NEW r \in RowSet(T), r # None
  PROVE  \E t \in T : r \in TypedRow(t)
BY DEF RowSet

\* A row q, the row r with new columns perhaps, is marked by a flag that is set.
LEMMA FlagSound ==
  ASSUME NEW T, T \subseteq TypeNames, records \in BOOLEAN, NEW r, NEW q \in RowSet(T), q # None,
         q.flags = r.flags, q.unhandled = r.unhandled, q.type = r.type, NEW flag \in Flags
  PROVE  /\ Flag(q, flag) \in RowSet(T) /\ Flag(q, flag) # None
         /\ Flag(q, flag).type = r.type
         /\ Marked(r, Flag(q, flag))
         /\ Fresh(r) => Fresh(Flag(q, flag))
<1> DEFINE s == Flag(q, flag)
<1>1. PICK t \in T : q \in TypedRow(t)
  BY RowKnown
<1>2. q.unhandled \subseteq q.flags /\ (q.unhandled # {} => records)
  BY DEF RowSet
<1>3. /\ s.type = q.type /\ s.columns = q.columns /\ s.created = q.created /\ s.modified = q.modified
      /\ s.flags = q.flags \cup {flag}
      /\ s.unhandled = IF records THEN q.unhandled \cup {flag} ELSE q.unhandled
      /\ s = [type |-> s.type, columns |-> s.columns, created |-> s.created, modified |-> s.modified,
              flags |-> s.flags, unhandled |-> s.unhandled]
  <2> DEFINE F == q.flags \cup {flag}
             U == IF records THEN q.unhandled \cup {flag} ELSE q.unhandled
  <2>1. s = [q EXCEPT !.flags = F, !.unhandled = U]
    BY DEF Flag
  <2> HIDE DEF F, U, s
  <2>2. /\ s.type = q.type /\ s.columns = q.columns /\ s.created = q.created /\ s.modified = q.modified
        /\ s.flags = F /\ s.unhandled = U
        /\ s = [type |-> s.type, columns |-> s.columns, created |-> s.created, modified |-> s.modified,
                flags |-> s.flags, unhandled |-> s.unhandled]
    BY <1>1, <2>1 DEF TypedRow
  <2> QED BY <2>2 DEF F, U
<1> HIDE DEF s
<1>4. s.flags \in SUBSET Flags /\ s.unhandled \in SUBSET Flags
  <2>1. q.flags \in SUBSET Flags /\ q.unhandled \in SUBSET Flags
    BY <1>1 DEF TypedRow
  <2> QED BY <2>1, <1>3
<1>5. s \in TypedRow(t)
  <2>1. /\ s.type \in {t} /\ s.columns \in [Common \cup ToSet(Info[t].columns) -> Values]
        /\ s.created \in Nat /\ s.modified \in Nat
    BY <1>1, <1>3 DEF TypedRow
  <2> DEFINE c == s.columns
             f == s.flags
             u == s.unhandled
             a == s.type
             b == s.created
             m == s.modified
  <2>2. s = [type |-> a, columns |-> c, created |-> b, modified |-> m, flags |-> f, unhandled |-> u]
    BY <1>3
  <2>3. a \in {t} /\ c \in [Common \cup ToSet(Info[t].columns) -> Values] /\ b \in Nat /\ m \in Nat
        /\ f \in SUBSET Flags /\ u \in SUBSET Flags
    BY <2>1, <1>4
  <2> HIDE DEF a, b, c, m, f, u
  <2> QED BY <2>2, <2>3 DEF TypedRow
<1>6. s.unhandled \subseteq s.flags /\ (s.unhandled # {} => records)
  BY <1>2, <1>3
<1>7. s # None
  BY <1>5, NoneAssumption
<1>8. s \in RowSet(T)
  BY <1>5, <1>6 DEF RowSet
<1>9. Marked(r, s)
  <2>1. r.flags \subseteq s.flags /\ s.flags # {}
    BY <1>3
  <2>2. CASE records
    BY <2>1, <2>2, <1>3 DEF Marked
  <2>3. CASE ~records
    BY <2>1, <2>3, <1>3 DEF Marked
  <2> QED BY <2>2, <2>3
<1>10. ASSUME Fresh(r) PROVE Fresh(s)
  <2>1. "added" \in s.flags
    BY <1>10, <1>3 DEF Fresh
  <2>2. CASE records
    BY <2>1, <2>2, <1>3, <1>7, <1>10 DEF Fresh
  <2>3. CASE ~records
    BY <2>1, <2>3, <1>3, <1>7, <1>10 DEF Fresh
  <2> QED BY <2>2, <2>3
<1> QED BY <1>3, <1>7, <1>8, <1>9, <1>10 DEF s

\* What two writes one after the other leave.
LEMMA KeptTwice ==
  ASSUME NEW r, NEW s, NEW u, Kept(r, s), s # None, u # None, u.type = s.type, Marked(s, u), records \in BOOLEAN
  PROVE  Kept(r, u)
<1>1. r # None /\ s.type = r.type /\ (s = r \/ Marked(r, s))
  BY DEF Kept
<1>2. CASE s = r
  BY <1>1, <1>2 DEF Kept
<1>3. CASE Marked(r, s)
  <2>1. CASE records
    <3>1. u.flags \ r.flags \subseteq u.unhandled
      BY <1>3, <2>1 DEF Marked
    <3> QED BY <3>1, <1>1, <1>3, <2>1 DEF Kept, Marked
  <2>2. CASE ~records
    BY <1>1, <1>3, <2>2 DEF Kept, Marked
  <2> QED BY <2>1, <2>2
<1> QED BY <1>1, <1>2, <1>3

-----------------------------------------------------------------------------
\* What a write leaves of the rows R: of these it writes only to those with the
\* ids, and the ones it adds are flagged as added.
SoundRows(R, ids, list) ==
  /\ Len(list) >= Len(R)
  /\ \A i \in 1..Len(R) : Kept(R[i], list[i]) /\ (i \notin ids => list[i] = R[i])
  /\ \A i \in 1..Len(list) : i > Len(R) => Fresh(list[i])
\* And of a copy with that many details.
SoundCopy(length, many, list) ==
  /\ Len(list) = length
  /\ \A n \in 1..length : list[n].id <= MaxRows \/ list[n].id <= many

\* One row replaced by one that it may become.
LEMMA RowReplaced ==
  ASSUME NEW T, T \subseteq TypeNames, records \in BOOLEAN,
         NEW R, Len(R) \in Nat, NEW ids, NEW list \in Seq(RowSet(T)), SoundRows(R, ids, list),
         NEW i \in DOMAIN list, i \in ids, list[i] # None,
         NEW s \in RowSet(T), s # None, s.type = list[i].type, Marked(list[i], s), Fresh(list[i]) => Fresh(s)
  PROVE  /\ [list EXCEPT ![i] = s] \in Seq(RowSet(T))
         /\ Len([list EXCEPT ![i] = s]) = Len(list)
         /\ SoundRows(R, ids, [list EXCEPT ![i] = s])
<1> DEFINE new == [list EXCEPT ![i] = s]
<1>1. new \in Seq(RowSet(T)) /\ Len(new) = Len(list) /\ DOMAIN list = 1..Len(list) /\ Len(list) \in Nat
  OBVIOUS
<1>2. \A j \in 1..Len(list) : new[j] = IF j = i THEN s ELSE list[j]
  OBVIOUS
<1> HIDE DEF new
<1>3. ASSUME NEW j \in 1..Len(R) PROVE Kept(R[j], new[j]) /\ (j \notin ids => new[j] = R[j])
  <2>1. j \in 1..Len(list) /\ Kept(R[j], list[j]) /\ (j \notin ids => list[j] = R[j])
    BY <1>1 DEF SoundRows
  <2>2. CASE j = i
    <3>1. new[j] = s
      BY <1>2, <2>1, <2>2
    <3>2. Kept(R[j], s)
      BY <2>1, <2>2, KeptTwice
    <3> QED BY <3>1, <3>2, <2>2
  <2>3. CASE j # i
    BY <1>2, <2>1, <2>3
  <2> QED BY <2>2, <2>3
<1>4. ASSUME NEW j \in 1..Len(list), j > Len(R) PROVE Fresh(new[j])
  <2>1. Fresh(list[j])
    BY <1>4 DEF SoundRows
  <2> QED BY <2>1, <1>2
<1>5. SoundRows(R, ids, new)
  BY <1>1, <1>3, <1>4 DEF SoundRows
<1> QED BY <1>1, <1>5 DEF new

\* One row added.
LEMMA RowAppended ==
  ASSUME NEW T, NEW R, Len(R) \in Nat, NEW ids, NEW list \in Seq(RowSet(T)), SoundRows(R, ids, list),
         NEW s \in RowSet(T), Fresh(s)
  PROVE  /\ Append(list, s) \in Seq(RowSet(T))
         /\ Len(Append(list, s)) = Len(list) + 1
         /\ SoundRows(R, ids, Append(list, s))
<1> DEFINE new == Append(list, s)
<1>1. new \in Seq(RowSet(T)) /\ Len(new) = Len(list) + 1 /\ Len(list) \in Nat
  OBVIOUS
<1>2. \A j \in 1..(Len(list) + 1) : new[j] = IF j = Len(list) + 1 THEN s ELSE list[j]
  OBVIOUS
<1> HIDE DEF new
<1>3. ASSUME NEW j \in 1..Len(R) PROVE Kept(R[j], new[j]) /\ (j \notin ids => new[j] = R[j])
  <2>1. j \in 1..Len(list) /\ Kept(R[j], list[j]) /\ (j \notin ids => list[j] = R[j])
    BY <1>1 DEF SoundRows
  <2>2. new[j] = list[j]
    BY <1>1, <1>2, <2>1
  <2> QED BY <2>1, <2>2
<1>4. ASSUME NEW j \in 1..(Len(list) + 1), j > Len(R) PROVE Fresh(new[j])
  <2>1. CASE j = Len(list) + 1
    BY <1>2, <2>1
  <2>2. CASE j # Len(list) + 1
    <3>1. j \in 1..Len(list)
      BY <1>1, <2>2
    <3>2. Fresh(list[j])
      BY <3>1, <1>4 DEF SoundRows
    <3> QED BY <3>2, <1>2, <2>2
  <2> QED BY <2>1, <2>2
<1>5. Len(new) >= Len(R)
  BY <1>1 DEF SoundRows
<1>6. SoundRows(R, ids, new)
  BY <1>1, <1>3, <1>4, <1>5 DEF SoundRows
<1> QED BY <1>1, <1>6 DEF new

\* The id of a row set in a detail of the copy.
LEMMA IdWritten ==
  ASSUME NEW T, NEW length \in Nat, NEW many \in Nat, NEW more \in Nat, many <= more,
         NEW list \in Seq(DetailSet(T)), SoundCopy(length, many, list), NEW at \in 1..length,
         NEW id \in Nat, id <= MaxRows \/ id <= more
  PROVE  /\ [list EXCEPT ![at].id = id] \in Seq(DetailSet(T))
         /\ SoundCopy(length, more, [list EXCEPT ![at].id = id])
<1> DEFINE new == [list EXCEPT ![at].id = id]
           d == [list[at] EXCEPT !.id = id]
<1>1. Len(list) = length /\ DOMAIN list = 1..length /\ list[at] \in DetailSet(T)
  BY DEF SoundCopy
<1>2. PICK t \in T : list[at] \in DetailsOf(t)
  BY <1>1 DEF DetailSet
<1>3. d \in DetailsOf(t) /\ d.id = id
  BY <1>2 DEF DetailsOf
<1>4. d \in DetailSet(T)
  BY <1>3 DEF DetailSet
<1>5. new = [list EXCEPT ![at] = d]
  OBVIOUS
<1> HIDE DEF d, new
<1>6. new \in Seq(DetailSet(T)) /\ Len(new) = length
  BY <1>1, <1>4, <1>5
<1>7. \A n \in 1..length : new[n] = IF n = at THEN d ELSE list[n]
  BY <1>1, <1>5
<1>8. ASSUME NEW n \in 1..length PROVE new[n].id <= MaxRows \/ new[n].id <= more
  <2>1. CASE n = at
    BY <2>1, <1>3, <1>7
  <2>2. CASE n # at
    <3>1. list[n] \in DetailSet(T)
      BY <1>1
    <3>2. list[n].id \in Nat
      BY <3>1 DEF DetailSet, DetailsOf
    <3>3. list[n].id <= MaxRows \/ list[n].id <= many
      BY DEF SoundCopy
    <3>4. list[n].id <= MaxRows \/ list[n].id <= more
      BY <3>2, <3>3
    <3> QED BY <3>4, <1>7, <2>2
  <2> QED BY <2>1, <2>2
<1>9. SoundCopy(length, more, new)
  BY <1>6, <1>8 DEF SoundCopy
<1> QED BY <1>6, <1>9 DEF new

-----------------------------------------------------------------------------
\* The three steps: a row deleted, one written to, one added.

\* The states that a write of the rows R reaches, if it writes only to those with the ids.
WriteStates == {"going", "stopped", "failed"}
Writes(T, R, length, ids) ==
  {w \in [rows : Seq(RowSet(T)), copy : Seq(DetailSet(T)), state : WriteStates] :
     SoundRows(R, ids, w.rows) /\ SoundCopy(length, Len(w.rows), w.copy)}

\* deleteDetail.
LEMMA DeleteSound ==
  ASSUME NEW T, T \subseteq TypeNames, records \in BOOLEAN, NEW R, Len(R) \in Nat, NEW ids, NEW length \in Nat,
         NEW w \in Writes(T, R, length, ids), NEW id \in ids
  PROVE  deleteDetail(w, id) \in Writes(T, R, length, ids)
<1>1. /\ w \in [rows : Seq(RowSet(T)), copy : Seq(DetailSet(T)), state : WriteStates]
      /\ SoundRows(R, ids, w.rows) /\ SoundCopy(length, Len(w.rows), w.copy)
  BY DEF Writes
<1>2. CASE w.state = "going" /\ id # 0 /\ Exists(w, id)
  <2> DEFINE s == Flag(w.rows[id], "deleted")
             list == [w.rows EXCEPT ![id] = s]
             u == [w EXCEPT !.rows = list]
  <2>1. deleteDetail(w, id) = u
    BY <1>2 DEF deleteDetail
  <2>2. id \in DOMAIN w.rows /\ w.rows[id] # None /\ w.rows \in Seq(RowSet(T))
    BY <1>1, <1>2 DEF Exists
  <2>3. w.rows[id] \in RowSet(T) /\ "deleted" \in Flags
    BY <2>2 DEF Flags
  <2>4. /\ s \in RowSet(T) /\ s # None /\ s.type = w.rows[id].type
        /\ Marked(w.rows[id], s) /\ (Fresh(w.rows[id]) => Fresh(s))
    BY <2>2, <2>3, FlagSound
  <2> HIDE DEF s
  <2>5. list \in Seq(RowSet(T)) /\ Len(list) = Len(w.rows) /\ SoundRows(R, ids, list)
    BY <1>1, <2>2, <2>4, RowReplaced
  <2> HIDE DEF list
  <2>6. /\ u \in [rows : Seq(RowSet(T)), copy : Seq(DetailSet(T)), state : WriteStates]
        /\ u.rows = list /\ u.copy = w.copy
    BY <1>1, <2>5
  <2>7. u \in Writes(T, R, length, ids)
    BY <2>6, <2>5, <1>1 DEF Writes
  <2> QED BY <2>1, <2>7
<1>3. CASE w.state = "going" /\ id = 0
  <2> DEFINE u == [w EXCEPT !.state = "stopped"]
  <2>1. deleteDetail(w, id) = u
    BY <1>3 DEF deleteDetail
  <2>2. /\ u \in [rows : Seq(RowSet(T)), copy : Seq(DetailSet(T)), state : WriteStates]
        /\ u.rows = w.rows /\ u.copy = w.copy
    BY <1>1 DEF WriteStates
  <2> QED BY <2>1, <2>2, <1>1 DEF Writes
<1>4. CASE ~(w.state = "going" /\ (id = 0 \/ Exists(w, id)))
  <2>1. deleteDetail(w, id) = w
    BY <1>4 DEF deleteDetail
  <2> QED BY <2>1
<1> QED BY <1>2, <1>3, <1>4

\* A row with the columns of a detail.
Rewritten(row, d, stamp) == [row EXCEPT !.columns = RowOf(d.type, d.has), !.modified = stamp]

\* It is one of its type still, with the flags it had.
LEMMA RewrittenSound ==
  ASSUME NEW T, T \subseteq TypeNames, records \in BOOLEAN, NEW row \in RowSet(T), row # None,
         NEW d \in DetailSet(T), row.type = d.type, NEW stamp \in Nat
  PROVE  /\ Rewritten(row, d, stamp) \in RowSet(T) /\ Rewritten(row, d, stamp) # None
         /\ Rewritten(row, d, stamp).flags = row.flags
         /\ Rewritten(row, d, stamp).unhandled = row.unhandled
         /\ Rewritten(row, d, stamp).type = row.type
<1>1. PICK t \in T : row \in TypedRow(t)
  BY RowKnown
<1>2. PICK dt \in T : d \in DetailsOf(dt)
  BY DEF DetailSet
<1>3. d.type = t /\ dt = t /\ d.has \in TypedValues(t) /\ t \in TypeNames
  BY <1>1, <1>2 DEF TypedRow, DetailsOf
<1> DEFINE c == RowOf(d.type, d.has)
           s == [row EXCEPT !.columns = c, !.modified = stamp]
<1>4. c \in [Common \cup ToSet(Info[t].columns) -> Values]
  BY <1>3, RowTyped DEF ColumnsOf
<1>5. Rewritten(row, d, stamp) = s
  BY DEF Rewritten
<1> HIDE DEF c
<1>6. s \in TypedRow(t) /\ s.flags = row.flags /\ s.unhandled = row.unhandled /\ s.type = row.type
  BY <1>1, <1>4 DEF TypedRow
<1> HIDE DEF s
<1>7. row.unhandled \subseteq row.flags /\ (row.unhandled # {} => records)
  BY DEF RowSet
<1>8. s \in RowSet(T) /\ s # None
  BY <1>3, <1>6, <1>7, NoneAssumption DEF RowSet
<1> QED BY <1>5, <1>6, <1>8

\* ModifyDetail: its row may be gone, or of another type, or the write fails.
LEMMA ModifySound ==
  ASSUME NEW T, T \subseteq TypeNames, records \in BOOLEAN, NEW R, Len(R) \in Nat,
         NEW ids, ids \subseteq 0..MaxRows, NEW length \in Nat,
         NEW w \in Writes(T, R, length, ids), NEW change, change.id \in ids, change.at \in 1..length, NEW stamp \in Nat
  PROVE  ModifyDetail(w, change, stamp) \in Writes(T, R, length, ids)
<1>1. /\ w \in [rows : Seq(RowSet(T)), copy : Seq(DetailSet(T)), state : WriteStates]
      /\ SoundRows(R, ids, w.rows) /\ SoundCopy(length, Len(w.rows), w.copy)
  BY DEF Writes
<1> DEFINE d == w.copy[change.at]
           id == change.id
           list == [w.copy EXCEPT ![change.at].id = id]
           s == Flag(Rewritten(w.rows[id], d, stamp), "modified")
           written == [w.rows EXCEPT ![id] = s]
           hit == Exists(w, id) /\ w.rows[id].type = d.type
           new == IF hit THEN written ELSE w.rows
           u == [w EXCEPT !.copy = list, !.rows = new]
<1>2. CASE w.state # "going"
  <2>1. ModifyDetail(w, change, stamp) = w
    BY <1>2 DEF ModifyDetail
  <2> QED BY <2>1
<1>3. CASE w.state = "going" /\ id = 0
  <2> DEFINE v == [w EXCEPT !.state = "stopped"]
  <2>1. ModifyDetail(w, change, stamp) = v
    BY <1>3 DEF ModifyDetail
  <2>2. /\ v \in [rows : Seq(RowSet(T)), copy : Seq(DetailSet(T)), state : WriteStates]
        /\ v.rows = w.rows /\ v.copy = w.copy
    BY <1>1 DEF WriteStates
  <2> QED BY <2>1, <2>2, <1>1 DEF Writes
<1>5. CASE w.state = "going" /\ id # 0 /\ d.type \in NotUpdatable
  <2> DEFINE v == [w EXCEPT !.state = "failed"]
  <2>1. ModifyDetail(w, change, stamp) = v
    BY <1>5 DEF ModifyDetail
  <2>2. /\ v \in [rows : Seq(RowSet(T)), copy : Seq(DetailSet(T)), state : WriteStates]
        /\ v.rows = w.rows /\ v.copy = w.copy
    BY <1>1 DEF WriteStates
  <2> QED BY <2>1, <2>2, <1>1 DEF Writes
<1>4. CASE w.state = "going" /\ id # 0 /\ d.type \notin NotUpdatable
  <2>1. ModifyDetail(w, change, stamp) = u
    <3>1. CASE hit
      <4>1. ModifyDetail(w, change, stamp) = [[w EXCEPT !.copy[change.at].id = id] EXCEPT !.rows = written]
        BY <1>4, <3>1 DEF ModifyDetail, Rewritten
      <4>2. new = written
        BY <3>1
      <4> HIDE DEF list, written, new, hit
      <4> QED BY <4>1, <4>2, <1>1 DEF list
    <3>2. CASE ~hit
      <4>1. ModifyDetail(w, change, stamp) = [w EXCEPT !.copy = list]
        BY <1>4, <3>2 DEF ModifyDetail
      <4>2. new = w.rows
        BY <3>2
      <4> HIDE DEF list, written, new, hit
      <4> QED BY <4>1, <4>2, <1>1
    <3> QED BY <3>1, <3>2
  <2>2. Len(w.rows) \in Nat /\ id \in Nat /\ id <= MaxRows /\ DOMAIN w.copy = 1..length /\ d \in DetailSet(T)
    <3>1. Len(w.rows) \in Nat
      BY <1>1
    <3>4. id \in 0..MaxRows
      OBVIOUS
    <3>2. Len(w.copy) = length /\ w.copy \in Seq(DetailSet(T))
      BY <1>1 DEF SoundCopy
    <3>3. DOMAIN w.copy = 1..length /\ d \in DetailSet(T)
      BY <3>2
    <3> QED BY <3>1, <3>3, <3>4, RowsAssumption
  <2>3. list \in Seq(DetailSet(T)) /\ SoundCopy(length, Len(w.rows), list)
    <3> DEFINE many == Len(w.rows)
    <3>1. many \in Nat /\ many <= many /\ SoundCopy(length, many, w.copy) /\ w.copy \in Seq(DetailSet(T))
      BY <1>1, <2>2
    <3> HIDE DEF many
    <3>2. list \in Seq(DetailSet(T)) /\ SoundCopy(length, many, list)
      BY <2>2, <3>1, IdWritten
    <3> QED BY <3>2 DEF many
  <2>4. /\ new \in Seq(RowSet(T)) /\ Len(new) = Len(w.rows)
        /\ SoundRows(R, ids, new)
    <3>1. CASE ~hit
      BY <3>1, <1>1
    <3>2. CASE hit
      <4>1. id \in DOMAIN w.rows /\ w.rows[id] # None /\ w.rows \in Seq(RowSet(T)) /\ w.rows[id].type = d.type
        BY <3>2, <1>1 DEF Exists
      <4>2. w.rows[id] \in RowSet(T) /\ "modified" \in Flags
        BY <4>1 DEF Flags
      <4> DEFINE q == Rewritten(w.rows[id], d, stamp)
      <4>3. /\ q \in RowSet(T) /\ q # None /\ q.flags = w.rows[id].flags
            /\ q.unhandled = w.rows[id].unhandled /\ q.type = w.rows[id].type
        <5> HIDE DEF d, id
        <5> QED BY <2>2, <4>1, <4>2, RewrittenSound
      <4> HIDE DEF q
      <4>4. s = Flag(q, "modified")
        BY DEF q
      <4> HIDE DEF s
      <4>5. /\ s \in RowSet(T) /\ s # None /\ s.type = w.rows[id].type
            /\ Marked(w.rows[id], s) /\ (Fresh(w.rows[id]) => Fresh(s))
        BY <4>2, <4>3, <4>4, FlagSound
      <4>6. written \in Seq(RowSet(T)) /\ Len(written) = Len(w.rows) /\ SoundRows(R, ids, written)
        BY <1>1, <4>1, <4>5, RowReplaced
      <4>7. new = written
        BY <3>2
      <4> HIDE DEF written, new
      <4> QED BY <4>6, <4>7
    <3> QED BY <3>1, <3>2
  <2> HIDE DEF list, new
  <2>5. /\ u \in [rows : Seq(RowSet(T)), copy : Seq(DetailSet(T)), state : WriteStates]
        /\ u.rows = new /\ u.copy = list
    BY <1>1, <2>3, <2>4
  <2> HIDE DEF u
  <2>6. u \in Writes(T, R, length, ids)
    BY <2>3, <2>4, <2>5 DEF Writes
  <2> QED BY <2>1, <2>6
<1> QED BY <1>2, <1>3, <1>4, <1>5

\* The row of a new detail.
NewRow(d, stamp) ==
  [type |-> d.type, columns |-> RowOf(d.type, d.has), created |-> stamp, modified |-> stamp,
   flags |-> {}, unhandled |-> {}]

\* It is one of its type, flagged as added.
LEMMA NewRowSound ==
  ASSUME NEW T, T \subseteq TypeNames, records \in BOOLEAN, NEW d \in DetailSet(T), NEW stamp \in Nat
  PROVE  Flag(NewRow(d, stamp), "added") \in RowSet(T) /\ Fresh(Flag(NewRow(d, stamp), "added"))
<1>1. PICK t \in T : d \in DetailsOf(t)
  BY DEF DetailSet
<1>2. d.type = t /\ d.has \in TypedValues(t) /\ t \in TypeNames
  BY <1>1 DEF DetailsOf
<1> DEFINE q == NewRow(d, stamp)
           c == RowOf(d.type, d.has)
           s == Flag(q, "added")
<1>3. c \in [Common \cup ToSet(Info[t].columns) -> Values]
  BY <1>2, RowTyped DEF ColumnsOf
<1>4. q = [type |-> t, columns |-> c, created |-> stamp, modified |-> stamp, flags |-> {}, unhandled |-> {}]
  BY <1>2 DEF NewRow
<1> HIDE DEF c, q
<1>5. q \in TypedRow(t) /\ q.flags = {} /\ q.unhandled = {}
  BY <1>3, <1>4 DEF TypedRow
<1>6. q \in RowSet(T) /\ q # None
  BY <1>2, <1>5, NoneAssumption DEF RowSet
<1>7. s \in RowSet(T) /\ s # None
  <2>1. "added" \in Flags
    BY DEF Flags
  <2> QED BY <1>6, <2>1, FlagSound
<1>8. s.flags = {"added"} /\ s.unhandled = IF records THEN {"added"} ELSE {}
  <2> DEFINE F == q.flags \cup {"added"}
             U == IF records THEN q.unhandled \cup {"added"} ELSE q.unhandled
  <2>1. s = [q EXCEPT !.flags = F, !.unhandled = U]
    BY DEF Flag
  <2> HIDE DEF F, U, s
  <2>2. s.flags = F /\ s.unhandled = U
    BY <1>4, <2>1
  <2>3. F = {"added"}
    BY <1>5 DEF F
  <2>4. U = IF records THEN {"added"} ELSE {}
    BY <1>5 DEF U
  <2> QED BY <2>2, <2>3, <2>4
<1> HIDE DEF s
<1>9. Fresh(s)
  BY <1>7, <1>8 DEF Fresh
<1> QED BY <1>7, <1>9 DEF s, q

\* AddDetail: at the end of the table, unless the contact has one that excludes it.
LEMMA AddSound ==
  ASSUME NEW T, T \subseteq TypeNames, records \in BOOLEAN, NEW R, Len(R) \in Nat, NEW ids, NEW length \in Nat,
         NEW w \in Writes(T, R, length, ids), NEW at \in 1..length, NEW stamp \in Nat
  PROVE  AddDetail(w, at, stamp) \in Writes(T, R, length, ids)
<1>1. /\ w \in [rows : Seq(RowSet(T)), copy : Seq(DetailSet(T)), state : WriteStates]
      /\ SoundRows(R, ids, w.rows) /\ SoundCopy(length, Len(w.rows), w.copy)
  BY DEF Writes
<1> DEFINE d == w.copy[at]
           full == d.type \in UniqueContact /\ \E i \in DOMAIN w.rows : w.rows[i] # None /\ w.rows[i].type = d.type
           s == Flag(NewRow(d, stamp), "added")
           many == Len(w.rows)
           more == Len(w.rows) + 1
           list == [w.copy EXCEPT ![at].id = more]
           new == Append(w.rows, s)
           u == [w EXCEPT !.copy = list, !.rows = new]
<1>2. CASE w.state # "going"
  <2>1. AddDetail(w, at, stamp) = w
    BY <1>2 DEF AddDetail
  <2> QED BY <2>1
<1>3. CASE w.state = "going" /\ full
  <2> DEFINE v == [w EXCEPT !.state = "failed"]
  <2>1. AddDetail(w, at, stamp) = v
    BY <1>3 DEF AddDetail
  <2>2. /\ v \in [rows : Seq(RowSet(T)), copy : Seq(DetailSet(T)), state : WriteStates]
        /\ v.rows = w.rows /\ v.copy = w.copy
    BY <1>1 DEF WriteStates
  <2> QED BY <2>1, <2>2, <1>1 DEF Writes
<1>4. CASE w.state = "going" /\ ~full
  <2>1. AddDetail(w, at, stamp) = u
    BY <1>4 DEF AddDetail, NewRow
  <2>2. /\ many \in Nat /\ more \in Nat /\ many <= more /\ more <= more
        /\ DOMAIN w.copy = 1..length /\ d \in DetailSet(T)
    BY <1>1 DEF SoundCopy
  <2>3. s \in RowSet(T) /\ Fresh(s)
    <3> HIDE DEF d
    <3> QED BY <2>2, NewRowSound
  <2> HIDE DEF s, d, full
  <2>4. new \in Seq(RowSet(T)) /\ Len(new) = more /\ SoundRows(R, ids, new)
    BY <1>1, <2>3, RowAppended
  <2>5. list \in Seq(DetailSet(T)) /\ SoundCopy(length, more, list)
    <3>1. SoundCopy(length, many, w.copy) /\ w.copy \in Seq(DetailSet(T))
      BY <1>1
    <3> HIDE DEF many, more
    <3> QED BY <2>2, <3>1, IdWritten
  <2> HIDE DEF list, new, more
  <2>6. /\ u \in [rows : Seq(RowSet(T)), copy : Seq(DetailSet(T)), state : WriteStates]
        /\ u.rows = new /\ u.copy = list
    BY <1>1, <2>4, <2>5
  <2> HIDE DEF u
  <2>7. u \in Writes(T, R, length, ids)
    BY <2>4, <2>5, <2>6 DEF Writes
  <2> QED BY <2>1, <2>7
<1> QED BY <1>2, <1>3, <1>4

-----------------------------------------------------------------------------
\* The steps of a type, and all types: what a whole write leaves.

\* The stamps are times.
LEMMA StampIsTime ==
  ASSUME saves \in Nat, NEW times, NEW n \in Nat
  PROVE  StampOf(times, n) \in Nat
BY DEF StampOf

\* Every step leaves a state of a write.
LEMMA StepSound ==
  ASSUME NEW T, T \subseteq TypeNames, records \in BOOLEAN, saves \in Nat, NEW R, Len(R) \in Nat,
         NEW ids, ids \subseteq 0..MaxRows, NEW S, NEW list \in Seq(S),
         NEW w \in Writes(T, R, Len(list), ids), NEW step, IsStep(ids, list, step), NEW times
  PROVE  Step(w, step, times) \in Writes(T, R, Len(list), ids)
<1> DEFINE length == Len(list)
           V == Writes(T, R, length, ids)
           stamp == StampOf(times, step.at)
<1>1. length \in Nat /\ DOMAIN list = 1..length
  OBVIOUS
<1> HIDE DEF length
<1>2. CASE step.do = "delete"
  <2>1. Step(w, step, times) = deleteDetail(w, step.id)
    BY <1>2 DEF Step
  <2>2. step.id \in ids
    BY <1>2 DEF IsStep
  <2>3. deleteDetail(w, step.id) \in V
    BY <1>1, <2>2, DeleteSound DEF length
  <2> QED BY <2>1, <2>3 DEF length
<1>3. CASE step.do = "modify"
  <2>1. Step(w, step, times) = ModifyDetail(w, step, stamp)
    BY <1>3 DEF Step
  <2>2. step.id \in ids /\ step.at \in 1..length
    BY <1>1, <1>3 DEF IsStep
  <2>3. stamp \in Nat
    BY <1>1, <2>2, StampIsTime
  <2> HIDE DEF stamp
  <2>4. ModifyDetail(w, step, stamp) \in V
    BY <1>1, <2>2, <2>3, ModifySound DEF length
  <2> QED BY <2>1, <2>4 DEF length
<1>4. CASE step.do = "add"
  <2>1. Step(w, step, times) = AddDetail(w, step.at, stamp)
    BY <1>4 DEF Step
  <2>2. step.at \in 1..length
    BY <1>1, <1>4 DEF IsStep
  <2>3. stamp \in Nat
    BY <1>1, <2>2, StampIsTime
  <2> HIDE DEF stamp
  <2>4. AddDetail(w, step.at, stamp) \in V
    BY <1>1, <2>2, <2>3, AddSound DEF length
  <2> QED BY <2>1, <2>4 DEF length
<1> QED BY <1>2, <1>3, <1>4 DEF IsStep

\* The steps of a type that are taken one after the other.
Taken(steps, t, times, n, w) == IF Due(steps, n, t) THEN Step(w, steps[n], times) ELSE w
\* The recursion of writeDetails.
IsWriting(w, t, steps, times, p) ==
  p = [n \in 0..Len(steps) |-> IF n = 0 THEN w ELSE Taken(steps, t, times, n, p[n - 1])]

\* So do the steps of a type.
LEMMA WriteDetailsSound ==
  ASSUME NEW T, T \subseteq TypeNames, records \in BOOLEAN, saves \in Nat, NEW R, Len(R) \in Nat,
         NEW ids, ids \subseteq 0..MaxRows, NEW S, NEW list \in Seq(S),
         NEW w \in Writes(T, R, Len(list), ids), NEW steps, AreSteps(ids, list, steps), NEW times, NEW t
  PROVE  writeDetails(w, t, steps, times) \in Writes(T, R, Len(list), ids)
<1> DEFINE N == Len(steps)
           V == Writes(T, R, Len(list), ids)
           g == [x \in (1..N) \X V |-> Taken(steps, t, times, x[1], x[2])]
<1>1. N \in Nat /\ w \in V
  BY DEF AreSteps
<1>2. \A n \in 1..N : \A u \in V : Taken(steps, t, times, n, u) \in V
  <2> SUFFICES ASSUME NEW n \in 1..N, NEW u \in V PROVE Taken(steps, t, times, n, u) \in V
    OBVIOUS
  <2>1. IsStep(ids, list, steps[n])
    BY DEF AreSteps
  <2>2. Step(u, steps[n], times) \in V
    BY <2>1, StepSound
  <2> HIDE DEF V
  <2> QED BY <2>2 DEF Taken
<1>3. \A n \in 1..N : \A u \in V : g[<<n, u>>] = Taken(steps, t, times, n, u)
  OBVIOUS
<1>4. g \in [(1..N) \X V -> V]
  BY <1>2
<1> HIDE DEF N, V, g
<1>5. PICK p \in [0..N -> V] : IsRun(p, N, w, g)
  BY <1>1, <1>4, Iterates
<1>6. \A n \in 0..N : n # 0 => n - 1 \in 0..N /\ n \in 1..N
  BY <1>1
<1>7. \A n \in 0..N : n # 0 => g[<<n, p[n - 1]>>] = Taken(steps, t, times, n, p[n - 1])
  BY <1>3, <1>5, <1>6
<1>8. p = [n \in 0..N |-> IF n = 0 THEN w ELSE Taken(steps, t, times, n, p[n - 1])]
  BY <1>5, <1>7 DEF IsRun
<1>9. IsWriting(w, t, steps, times, p)
  BY <1>8 DEF IsWriting, N
<1> DEFINE q == CHOOSE q : IsWriting(w, t, steps, times, q)
<1>10. IsWriting(w, t, steps, times, q)
  BY <1>9
<1>11. writeDetails(w, t, steps, times) = q[Len(steps)]
  BY DEF writeDetails, IsWriting, Taken
<1> HIDE DEF q
<1>12. \A n \in 0..N : q[n] = IF n = 0 THEN w ELSE Taken(steps, t, times, n, q[n - 1])
  BY <1>10 DEF IsWriting, N
<1> DEFINE X == {n \in 0..N : q[n] \in V}
<1>13. 0 \in X
  BY <1>1, <1>12
<1>14. \A n \in 0..N : n # 0 /\ n - 1 \in X => n \in X
  BY <1>2, <1>12
<1> HIDE DEF X
<1>15. \A n \in 0..N : n \in X
  BY <1>1, <1>13, <1>14, UpTo
<1>16. N \in X
  BY <1>1, <1>15
<1> QED BY <1>11, <1>16 DEF X, N, V

\* And so are the types.
TypeTaken(mask, steps, times, n, w) ==
  IF Wanted(mask, WriteOrder[n]) THEN writeDetails(w, WriteOrder[n], steps, times) ELSE w
Begun(list) == [rows |-> rows, copy |-> list, state |-> "going"]
\* The recursion of write.
IsWhole(list, mask, steps, times, p) ==
  p = [n \in 0..Len(WriteOrder) |-> IF n = 0 THEN Begun(list) ELSE TypeTaken(mask, steps, times, n, p[n - 1])]

LEMMA WriteOrderLength == Len(WriteOrder) \in Nat
BY DEF WriteOrder

\* A whole write leaves the rows that a delta does not name, and flags the others.
LEMMA WriteSound ==
  ASSUME NEW T, T \subseteq TypeNames, records \in BOOLEAN, saves \in Nat, NEW R, Len(R) \in Nat,
         NEW ids, ids \subseteq 0..MaxRows, NEW S, NEW list \in Seq(S),
         Begun(list) \in Writes(T, R, Len(list), ids),
         NEW old, NEW delta, AreSteps(ids, list, Steps(list, old, delta)), NEW times, NEW mask
  PROVE  write(list, old, delta, mask, times) \in Writes(T, R, Len(list), ids)
<1> DEFINE steps == Steps(list, old, delta)
           N == Len(WriteOrder)
           V == Writes(T, R, Len(list), ids)
           g == [x \in (1..N) \X V |-> TypeTaken(mask, steps, times, x[1], x[2])]
<1>1. N \in Nat /\ Begun(list) \in V
  BY WriteOrderLength
<1>2. \A n \in 1..N : \A u \in V : TypeTaken(mask, steps, times, n, u) \in V
  <2> SUFFICES ASSUME NEW n \in 1..N, NEW u \in V PROVE TypeTaken(mask, steps, times, n, u) \in V
    OBVIOUS
  <2> DEFINE t == WriteOrder[n]
  <2> HIDE DEF steps, t
  <2>2. writeDetails(u, t, steps, times) \in V
    BY WriteDetailsSound DEF steps
  <2> HIDE DEF V
  <2> QED BY <2>2 DEF TypeTaken, t
<1>3. \A n \in 1..N : \A u \in V : g[<<n, u>>] = TypeTaken(mask, steps, times, n, u)
  OBVIOUS
<1>4. g \in [(1..N) \X V -> V]
  BY <1>2
<1> HIDE DEF N, V, g, steps
<1>5. PICK p \in [0..N -> V] : IsRun(p, N, Begun(list), g)
  BY <1>1, <1>4, Iterates
<1>6. \A n \in 0..N : n # 0 => n - 1 \in 0..N /\ n \in 1..N
  BY <1>1
<1>7. \A n \in 0..N : n # 0 => g[<<n, p[n - 1]>>] = TypeTaken(mask, steps, times, n, p[n - 1])
  BY <1>3, <1>5, <1>6
<1>8. p = [n \in 0..N |-> IF n = 0 THEN Begun(list) ELSE TypeTaken(mask, steps, times, n, p[n - 1])]
  BY <1>5, <1>7 DEF IsRun
<1>9. IsWhole(list, mask, steps, times, p)
  BY <1>8 DEF IsWhole, N
<1> DEFINE q == CHOOSE q : IsWhole(list, mask, steps, times, q)
<1>10. IsWhole(list, mask, steps, times, q)
  BY <1>9
<1>11. write(list, old, delta, mask, times) = q[Len(WriteOrder)]
  BY DEF write, IsWhole, TypeTaken, Begun, steps
<1> HIDE DEF q
<1>12. \A n \in 0..N : q[n] = IF n = 0 THEN Begun(list) ELSE TypeTaken(mask, steps, times, n, q[n - 1])
  BY <1>10 DEF IsWhole, N
<1> DEFINE X == {n \in 0..N : q[n] \in V}
<1>13. 0 \in X
  BY <1>1, <1>12
<1>14. \A n \in 0..N : n # 0 /\ n - 1 \in X => n \in X
  BY <1>2, <1>12
<1> HIDE DEF X
<1>15. \A n \in 0..N : n \in X
  BY <1>1, <1>13, <1>14, UpTo
<1>16. N \in X
  BY <1>1, <1>15
<1> QED BY <1>11, <1>16 DEF X, N, V

\* At first nothing was written.
LEMMA BegunSound ==
  ASSUME NEW T, NEW ids, rows \in Seq(RowSet(T)), NEW list \in Seq(DetailSet(T)),
         \A n \in DOMAIN list : list[n].id <= MaxRows
  PROVE  Begun(list) \in Writes(T, rows, Len(list), ids)
<1> DEFINE u == Begun(list)
<1>1. /\ u \in [rows : Seq(RowSet(T)), copy : Seq(DetailSet(T)), state : WriteStates]
      /\ u.rows = rows /\ u.copy = list
  BY DEF Begun, WriteStates
<1>2. Len(rows) \in Nat /\ DOMAIN list = 1..Len(list)
  OBVIOUS
<1>3. SoundRows(rows, ids, rows)
  <2>1. \A i \in 1..Len(rows) : Kept(rows[i], rows[i])
    BY DEF Kept
  <2>2. \A i \in 1..Len(rows) : ~(i > Len(rows))
    BY <1>2
  <2> QED BY <1>2, <2>1, <2>2 DEF SoundRows
<1>4. SoundCopy(Len(list), Len(rows), list)
  BY <1>2 DEF SoundCopy
<1> HIDE DEF u
<1> QED BY <1>1, <1>3, <1>4 DEF Writes, u

-----------------------------------------------------------------------------
\* What the contact has, shown and masked, is a list of details.

\* Details whose row is in the table.
GoodSet(T) == UNION {TypedDetail(t) : t \in T}

\* They are those of the details whose row is in the table.
LEMMA GoodDetails ==
  ASSUME NEW T
  PROVE  /\ GoodSet(T) \subseteq DetailSet(T)
         /\ \A d \in GoodSet(T) : d.id \in 0..MaxRows
         /\ \A d \in DetailSet(T) : d.id <= MaxRows => d \in GoodSet(T)
<1>1. ASSUME NEW d \in GoodSet(T) PROVE d \in DetailSet(T) /\ d.id \in 0..MaxRows
  <2>1. PICK t \in T : d \in TypedDetail(t)
    BY DEF GoodSet
  <2>2. d \in DetailsOf(t) /\ d.id \in 0..MaxRows
    BY <2>1, RowsAssumption DEF TypedDetail, DetailsOf
  <2> QED BY <2>2 DEF DetailSet
<1>2. ASSUME NEW d \in DetailSet(T), d.id <= MaxRows PROVE d \in GoodSet(T)
  <2>1. PICK t \in T : d \in DetailsOf(t)
    BY DEF DetailSet
  <2>2. d.id \in 0..MaxRows
    BY <1>2, <2>1, RowsAssumption DEF DetailsOf
  <2>3. d \in TypedDetail(t)
    BY <2>1, <2>2 DEF TypedDetail, DetailsOf
  <2> QED BY <2>3 DEF GoodSet
<1> QED BY <1>1, <1>2

\* Lists of details as the type invariant has them.
LEMMA ListsAre ==
  ASSUME NEW list
  PROVE  AreDetails(list) <=> list \in Seq(GoodSet(mix.types))
<1>1. ASSUME AreDetails(list) PROVE list \in Seq(GoodSet(mix.types))
  <2>1. list \in Seq(ToSet(list)) /\ \A d \in ToSet(list) : d \in GoodSet(mix.types)
    BY <1>1 DEF AreDetails, IsList, GoodSet
  <2> DEFINE A == ToSet(list)
             B == GoodSet(mix.types)
  <2>2. list \in Seq(A) /\ A \subseteq B
    BY <2>1
  <2> HIDE DEF A, B
  <2> QED BY <2>2, WiderList DEF B
<1>2. ASSUME list \in Seq(GoodSet(mix.types)) PROVE AreDetails(list)
  <2> DEFINE B == GoodSet(mix.types)
  <2>1. list \in Seq(B)
    BY <1>2
  <2> HIDE DEF B
  <2>2. DOMAIN list = 1..Len(list) /\ Len(list) \in Nat /\ list = [i \in 1..Len(list) |-> list[i]]
    BY <2>1
  <2>3. \A i \in DOMAIN list : list[i] \in ToSet(list) /\ list[i] \in B
    BY <2>1 DEF ToSet
  <2>4. IsList(list)
    BY <2>2, <2>3 DEF IsList
  <2>5. \A d \in ToSet(list) : d \in B
    BY <2>3 DEF ToSet
  <2> QED BY <2>4, <2>5 DEF AreDetails, B, GoodSet
<1> QED BY <1>1, <1>2

\* Rows as the type invariant has them.
RowsOK ==
  /\ IsList(rows) /\ Len(rows) <= MaxRows
  /\ \A i \in DOMAIN rows :
       rows[i] # None =>
         /\ \E t \in mix.types : rows[i] \in TypedRow(t)
         /\ rows[i].unhandled \subseteq rows[i].flags
         /\ rows[i].unhandled # {} => records

\* They are a list of rows of the types.
LEMMA RowsAre == RowsOK <=> rows \in Seq(RowSet(mix.types)) /\ Len(rows) <= MaxRows
<1> DEFINE B == RowSet(mix.types)
           A == ToSet(rows)
<1>1. ASSUME RowsOK PROVE rows \in Seq(B)
  <2>1. rows \in Seq(A) /\ DOMAIN rows = 1..Len(rows)
    BY <1>1 DEF RowsOK, IsList
  <2>2. \A i \in DOMAIN rows : rows[i] \in B
    BY <1>1 DEF RowsOK, RowSet
  <2>3. A \subseteq B
    BY <2>2 DEF ToSet
  <2> HIDE DEF A, B
  <2> QED BY <2>1, <2>3, WiderList
<1>2. ASSUME rows \in Seq(B), Len(rows) <= MaxRows PROVE RowsOK
  <2> HIDE DEF B
  <2>1. DOMAIN rows = 1..Len(rows) /\ Len(rows) \in Nat /\ rows = [i \in 1..Len(rows) |-> rows[i]]
    BY <1>2
  <2>2. \A i \in DOMAIN rows : rows[i] \in ToSet(rows) /\ rows[i] \in B
    BY <1>2 DEF ToSet
  <2>3. IsList(rows)
    BY <2>1, <2>2 DEF IsList
  <2> QED BY <1>2, <2>2, <2>3 DEF RowsOK, B, RowSet
<1>3. RowsOK => Len(rows) <= MaxRows
  BY DEF RowsOK
<1> QED BY <1>1, <1>2, <1>3

\* What is read of a row is a detail of its type.
LEMMA ReadingTyped ==
  ASSUME NEW T, T \subseteq TypeNames, NEW table, NEW i \in 1..MaxRows, table[i] \in RowSet(T), table[i] # None
  PROVE  /\ Reading(table, i) \in GoodSet(T)
         /\ \E t \in T : table[i].type = t /\ Reading(table, i) \in TypedDetail(t)
         /\ \E t \in T : table[i].type = t /\ Reading(table, i).has \in TypedValues(t)
<1>1. PICK t \in T : table[i] \in TypedRow(t)
  BY RowKnown
<1> DEFINE row == table[i]
           has == ReadRow(row.type, row.columns)
<1>2. row.type = t /\ row.columns \in [ColumnsOf(t) -> Values] /\ row.created \in Nat /\ row.modified \in Nat
  BY <1>1 DEF TypedRow, ColumnsOf
<1>3. has \in TypedValues(t) /\ t \in TypeNames
  BY <1>2, ReadRowTyped
<1>4. Reading(table, i) = [type |-> row.type, id |-> i, created |-> row.created, modified |-> row.modified, has |-> has]
  BY DEF Reading
<1> HIDE DEF has
<1>5. i \in 0..MaxRows
  OBVIOUS
<1> HIDE DEF row
<1>6. Reading(table, i) \in TypedDetail(t) /\ Reading(table, i).has \in TypedValues(t)
  BY <1>2, <1>3, <1>4, <1>5 DEF TypedDetail
<1>7. Reading(table, i) \in GoodSet(T)
  BY <1>6 DEF GoodSet
<1> QED BY <1>2, <1>6, <1>7 DEF row

\* What is shown of the contact: its transient details, and of the live rows of other types a reading each.
Stored == IF transient = None THEN <<>> ELSE transient
Others == {i \in Live : rows[i].type \notin {Stored[n].type : n \in DOMAIN Stored}}

\* These rows in ascending order.
LEMMA OthersListed ==
  ASSUME NEW S, rows \in Seq(S)
  PROVE  /\ Ascending(Others) \in Seq(Others)
         /\ Others \subseteq 1..Len(rows)
         /\ Shown = Stored \o [n \in DOMAIN Ascending(Others) |-> Reading(rows, Ascending(Others)[n])]
<1>1. Others \subseteq 1..Len(rows) /\ Len(rows) \in Nat
  BY DEF Others, Live
<1>2. Ascending(Others) \in Seq(Others)
  BY <1>1, AscendingPositions
<1>3. Shown = Stored \o [n \in DOMAIN Ascending(Others) |-> Reading(rows, Ascending(Others)[n])]
  BY DEF Shown, Stored, Others
<1> QED BY <1>1, <1>2, <1>3

\* A list made of another, element by element.
LEMMA MappedList ==
  ASSUME NEW S, NEW s \in Seq(S), NEW V, NEW r, \A n \in DOMAIN s : r[n] \in V, r = [n \in DOMAIN s |-> r[n]]
  PROVE  r \in Seq(V) /\ Len(r) = Len(s)
OBVIOUS

\* It is a list of details of the contact's types.
LEMMA ShownTyped ==
  ASSUME NEW T, T \subseteq TypeNames, rows \in Seq(RowSet(T)), Len(rows) <= MaxRows,
         transient # None => transient \in Seq(GoodSet(T))
  PROVE  Shown \in Seq(GoodSet(T))
<1> DEFINE others == Ascending(Others)
           readings == [n \in DOMAIN others |-> Reading(rows, others[n])]
<1>1. others \in Seq(Others) /\ Others \subseteq 1..Len(rows) /\ Shown = Stored \o readings
  BY OthersListed
<1> HIDE DEF others
<1>2. ASSUME NEW n \in DOMAIN others PROVE readings[n] \in GoodSet(T)
  <2>1. others[n] \in Others /\ others[n] \in 1..MaxRows /\ others[n] \in DOMAIN rows
    <3>1. others[n] \in Others
      BY <1>1
    <3>2. Len(rows) \in Nat /\ DOMAIN rows = 1..Len(rows)
      OBVIOUS
    <3>3. others[n] \in 1..Len(rows)
      BY <1>1, <3>1
    <3> QED BY <3>1, <3>2, <3>3, RowsAssumption
  <2>2. rows[others[n]] # None /\ rows[others[n]] \in RowSet(T)
    BY <2>1 DEF Others, Live
  <2>3. Reading(rows, others[n]) \in GoodSet(T)
    BY <2>1, <2>2, ReadingTyped
  <2> QED BY <2>3
<1>3. readings = [n \in DOMAIN others |-> readings[n]]
  OBVIOUS
<1> HIDE DEF readings
<1>4. readings \in Seq(GoodSet(T))
  BY <1>1, <1>2, <1>3, MappedList
<1>5. Stored \in Seq(GoodSet(T))
  BY DEF Stored
<1> QED BY <1>1, <1>4, <1>5

\* The details that a mask names.
LEMMA MaskedTyped ==
  ASSUME NEW S, NEW list \in Seq(S), NEW mask
  PROVE  Masked(list, mask) \in Seq(S)
<1> DEFINE chosen == {n \in DOMAIN list : list[n].type \in mask \/ generatorType(list[n].type) \in mask}
           named == Ascending(chosen)
           r == [n \in DOMAIN named |-> list[named[n]]]
<1>1. chosen \subseteq 1..Len(list) /\ Len(list) \in Nat
  OBVIOUS
<1>2. Masked(list, mask) = r
  BY DEF Masked
<1> HIDE DEF chosen
<1>3. named \in Seq(chosen)
  BY <1>1, AscendingPositions
<1> HIDE DEF named
<1>4. ASSUME NEW n \in DOMAIN named PROVE r[n] \in S
  <2>1. named[n] \in chosen
    BY <1>3
  <2>2. named[n] \in 1..Len(list)
    BY <1>1, <2>1
  <2> QED BY <2>2
<1>5. r = [n \in DOMAIN named |-> r[n]]
  OBVIOUS
<1> HIDE DEF r
<1> QED BY <1>2, <1>3, <1>4, <1>5, MappedList

-----------------------------------------------------------------------------
\* The global presence.

\* A detail with no fields is one of its type.
LEMMA BlankTyped ==
  ASSUME NEW T, NEW t \in T
  PROVE  /\ NoFields(t) \in TypedValues(t)
         /\ BlankOf(t) \in TypedDetail(t)
         /\ BlankOf(t) \in GoodSet(T)
<1>1. NoFields(t) \in TypedValues(t)
  BY SomeValues DEF NoFields, TypedValues
<1>2. BlankOf(t) \in TypedDetail(t)
  BY <1>1, RowsAssumption DEF BlankOf, TypedDetail
<1> QED BY <1>1, <1>2 DEF GoodSet

\* States of presences are ordered by numbers.
LEMMA PresenceOrdered == \A p : presenceOrder(p) \in Nat
BY DEF presenceOrder

\* There is a best presence: of those in the best state, the first one.
LEMMA BestPresence ==
  ASSUME NEW S, NEW list \in Seq(S), NEW known, known \subseteq DOMAIN list, known # {},
         \A n \in known : ~Empty(list[n])
  PROVE  \E n \in known : \A m \in known : /\ ~betterPresence(list[m], list[n])
                                           /\ m < n => betterPresence(list[n], list[m])
<1> DEFINE Orders == {presenceOrder(list[n]) : n \in known}
<1>1. Orders \subseteq Nat /\ Orders # {}
  BY PresenceOrdered
<1>2. PICK o \in Orders : \A x \in Orders : o <= x
  <2> HIDE DEF Orders
  <2> QED BY <1>1, Least
<1> DEFINE best == {n \in known : presenceOrder(list[n]) = o}
<1>3. best \subseteq Nat /\ best # {}
  OBVIOUS
<1>4. PICK n \in best : \A m \in best : n <= m
  <2> HIDE DEF best
  <2> QED BY <1>3, Least
<1>5. n \in known /\ presenceOrder(list[n]) = o /\ o \in Nat
  BY <1>1, <1>2
<1>6. ASSUME NEW m \in known
      PROVE  ~betterPresence(list[m], list[n]) /\ (m < n => betterPresence(list[n], list[m]))
  <2>1. presenceOrder(list[m]) \in Nat /\ o <= presenceOrder(list[m])
    BY <1>2, PresenceOrdered
  <2>2. ~betterPresence(list[m], list[n])
    BY <1>5, <2>1 DEF betterPresence
  <2>3. ASSUME m < n PROVE betterPresence(list[n], list[m])
    <3>1. m \notin best
      <4>1. m \in Nat /\ n \in Nat /\ ~(n <= m)
        BY <1>3, <1>4, <2>3
      <4> QED BY <1>4, <4>1
    <3>2. presenceOrder(list[m]) # o
      BY <3>1
    <3>3. presenceOrder(list[n]) < presenceOrder(list[m])
      BY <1>5, <2>1, <3>2
    <3> QED BY <3>3 DEF betterPresence
  <2> QED BY <2>2, <2>3
<1> QED BY <1>5, <1>6

\* It is a presence.
LEMMA BestPresenceTyped ==
  ASSUME NEW T, NEW list \in Seq(GoodSet(T)), "Presence" \in T
  PROVE  bestPresence(list) \in TypedDetail("Presence")
<1> DEFINE known == {n \in OfType(list, "Presence") : ~Empty(list[n])}
           n == CHOOSE n \in known : \A m \in known : /\ ~betterPresence(list[m], list[n])
                                                      /\ m < n => betterPresence(list[n], list[m])
<1>1. CASE known = {}
  <2>1. bestPresence(list) = BlankOf("Presence")
    BY <1>1 DEF bestPresence
  <2> QED BY <2>1, BlankTyped
<1>2. CASE known # {}
  <2>1. bestPresence(list) = list[n]
    BY <1>2 DEF bestPresence
  <2>2. known \subseteq DOMAIN list /\ \A k \in known : ~Empty(list[k]) /\ list[k].type = "Presence"
    BY DEF OfType
  <2>3. \E k \in known : \A m \in known : /\ ~betterPresence(list[m], list[k])
                                          /\ m < k => betterPresence(list[k], list[m])
    <3> HIDE DEF known
    <3> QED BY <1>2, <2>2, BestPresence
  <2>4. n \in known
    BY <2>3
  <2> HIDE DEF n, known
  <2>5. list[n] \in GoodSet(T) /\ list[n].type = "Presence"
    BY <2>2, <2>4
  <2>6. PICK t \in T : list[n] \in TypedDetail(t)
    BY <2>5 DEF GoodSet
  <2>7. t = "Presence"
    BY <2>5, <2>6 DEF TypedDetail
  <2> QED BY <2>1, <2>6, <2>7
<1> QED BY <1>1, <1>2

\* What the global presence takes of the best one.
Merging(best, old) ==
  [f \in DOMAIN old |->
     IF f \in {"presenceState", "timestamp", "nickname", "customMessage", "presenceStateText"}
     THEN IF best.has[f] = "unset" THEN "zero" ELSE best.has[f]
     ELSE old[f]]

\* What the global presence becomes is of its type.
LEMMA MergingTyped ==
  ASSUME "Presence" \in TypeNames, "GlobalPresence" \in TypeNames,
         NEW best \in TypedDetail("Presence"), NEW old \in TypedValues("GlobalPresence")
  PROVE  Merging(best, old) \in TypedValues("GlobalPresence")
<1>1. Info["GlobalPresence"].fields = Info["Presence"].fields
  BY PresenceFields
<1>2. DOMAIN old = Info["GlobalPresence"].fields /\ \A f \in Info["GlobalPresence"].fields : old[f] \in Values
  BY DEF TypedValues
<1>3. best.has \in [Info["GlobalPresence"].fields -> Values]
  BY <1>1 DEF TypedDetail, TypedValues
<1>4. \A f \in Info["GlobalPresence"].fields :
        (IF f \in {"presenceState", "timestamp", "nickname", "customMessage", "presenceStateText"}
         THEN IF best.has[f] = "unset" THEN "zero" ELSE best.has[f]
         ELSE old[f]) \in Values
  BY <1>2, <1>3, SomeValues
<1> QED BY <1>2, <1>4 DEF Merging, TypedValues

\* Of a list after something was done to its details of one type: the others are all there.
KeepsOthers(list, t, new) ==
  \A n \in DOMAIN list : list[n].type # t => \E m \in DOMAIN new : new[m] = list[n]

\* One element removed, the others are there.
LEMMA RemovedFromList ==
  ASSUME NEW S, NEW s \in Seq(S), NEW k \in DOMAIN s
  PROVE  /\ RemoveAt(s, k) \in Seq(S)
         /\ \A n \in DOMAIN s : n # k => \E m \in DOMAIN RemoveAt(s, k) : RemoveAt(s, k)[m] = s[n]
<1> DEFINE p == SubSeq(s, 1, k - 1)
           q == SubSeq(s, k + 1, Len(s))
           u == p \o q
<1>1. k \in 1..Len(s) /\ DOMAIN s = 1..Len(s) /\ Len(s) \in Nat
  OBVIOUS
<1>2. RemoveAt(s, k) = u
  BY DEF RemoveAt
<1>3. p \in Seq(S) /\ Len(p) = k - 1 /\ \A j \in 1..(k - 1) : p[j] = s[j]
  BY <1>1
<1>4. q \in Seq(S) /\ Len(q) = Len(s) - k /\ \A j \in 1..(Len(s) - k) : q[j] = s[j + k]
  BY <1>1
<1> HIDE DEF p, q
<1>5. u \in Seq(S) /\ DOMAIN u = 1..(Len(s) - 1)
  <2>1. p \in Seq(S) /\ q \in Seq(S)
    BY <1>3, <1>4
  <2>2. u \in Seq(S) /\ Len(u) = Len(p) + Len(q) /\ DOMAIN u = 1..Len(u)
    BY <2>1
  <2>3. Len(u) = Len(s) - 1
    BY <1>1, <1>3, <1>4, <2>2
  <2> QED BY <2>2, <2>3
<1>6. \A j \in 1..(k - 1) : u[j] = s[j]
  BY <1>1, <1>3, <1>4
<1>7. \A j \in 1..(Len(s) - k) : u[k - 1 + j] = s[j + k]
  BY <1>1, <1>3, <1>4
<1> HIDE DEF u
<1>8. ASSUME NEW n \in DOMAIN s, n # k PROVE \E m \in DOMAIN u : u[m] = s[n]
  <2>1. CASE n < k
    <3>1. n \in 1..(k - 1) /\ n \in DOMAIN u
      BY <1>1, <1>5, <2>1
    <3> QED BY <3>1, <1>6
  <2>2. CASE n > k
    <3>1. n - k \in 1..(Len(s) - k) /\ k - 1 + (n - k) = n - 1 /\ (n - k) + k = n /\ n - 1 \in DOMAIN u
      BY <1>1, <1>5, <2>2
    <3>2. u[n - 1] = s[n]
      BY <3>1, <1>7
    <3> QED BY <3>1, <3>2
  <2> QED BY <1>1, <1>8, <2>1, <2>2
<1> QED BY <1>2, <1>5, <1>8

\* The global presence brought up to date.
LEMMA GlobalPresenceSound ==
  ASSUME NEW T, T \subseteq TypeNames, "Presence" \in T => "GlobalPresence" \in T,
         NEW list \in Seq(GoodSet(T))
  PROVE  /\ updateGlobalPresence(list) \in Seq(GoodSet(T))
         /\ KeepsOthers(list, "GlobalPresence", updateGlobalPresence(list))
<1> DEFINE best == bestPresence(list)
           global == OfType(list, "GlobalPresence")
           first == CHOOSE n \in global : \A m \in global : n <= m
           some == OfType(list, "Presence") # {}
           blank == BlankOf("GlobalPresence")
           removed == RemoveAt(list, first)
           added == Append(list, [blank EXCEPT !.has = Merging(best, @)])
           merged == [list EXCEPT ![first].has = Merging(best, @)]
           new == updateGlobalPresence(list)
<1>1. /\ ~some /\ global = {} => new = list
      /\ ~some /\ global # {} => new = removed
      /\ some /\ global = {} => new = added
      /\ some /\ global # {} => new = merged
  BY DEF updateGlobalPresence, Merging
<1>2. ASSUME some PROVE "Presence" \in T /\ best \in TypedDetail("Presence")
  <2>1. PICK n \in DOMAIN list : list[n].type = "Presence"
    BY <1>2 DEF OfType
  <2>2. list[n] \in GoodSet(T)
    OBVIOUS
  <2>3. "Presence" \in T
    BY <2>1, <2>2 DEF GoodSet, TypedDetail
  <2> QED BY <2>3, BestPresenceTyped
<1>3. ASSUME global # {} PROVE first \in DOMAIN list /\ list[first].type = "GlobalPresence"
  <2>1. global \subseteq Nat /\ global # {}
    BY <1>3 DEF OfType
  <2>2. \E n \in global : \A m \in global : n <= m
    <3> HIDE DEF global
    <3> QED BY <2>1, Least
  <2>3. first \in global
    BY <2>2
  <2> HIDE DEF first
  <2> QED BY <2>3 DEF OfType
<1> HIDE DEF new, best, global, first, some, blank
<1>4. CASE ~some /\ global = {}
  BY <1>1, <1>4 DEF KeepsOthers, new
<1>5. CASE ~some /\ global # {}
  <2>1. first \in DOMAIN list /\ list[first].type = "GlobalPresence"
    BY <1>3, <1>5
  <2>2. /\ removed \in Seq(GoodSet(T))
        /\ \A n \in DOMAIN list : n # first => \E m \in DOMAIN removed : removed[m] = list[n]
    BY <2>1, RemovedFromList
  <2> HIDE DEF removed
  <2>3. \A n \in DOMAIN list : list[n].type # "GlobalPresence" => \E m \in DOMAIN removed : removed[m] = list[n]
    BY <2>1, <2>2
  <2> QED BY <1>1, <1>5, <2>2, <2>3 DEF KeepsOthers, new
<1>6. CASE some /\ global = {}
  <2> DEFINE d == [blank EXCEPT !.has = Merging(best, @)]
  <2>1. "Presence" \in T /\ "GlobalPresence" \in T /\ best \in TypedDetail("Presence")
    BY <1>2, <1>6
  <2>2. blank \in TypedDetail("GlobalPresence")
    BY <2>1, BlankTyped DEF blank
  <2>3. blank.has \in TypedValues("GlobalPresence")
    BY <2>2 DEF TypedDetail
  <2>4. Merging(best, blank.has) \in TypedValues("GlobalPresence")
    BY <2>1, <2>3, MergingTyped
  <2>5. d \in TypedDetail("GlobalPresence")
    BY <2>2, <2>4 DEF TypedDetail
  <2>6. d \in GoodSet(T)
    BY <2>1, <2>5 DEF GoodSet
  <2>7. added = Append(list, d)
    OBVIOUS
  <2> HIDE DEF d, added
  <2>8. added \in Seq(GoodSet(T)) /\ \A n \in DOMAIN list : n \in DOMAIN added /\ added[n] = list[n]
    BY <2>6, <2>7
  <2> QED BY <1>1, <1>6, <2>8 DEF KeepsOthers, new
<1>7. CASE some /\ global # {}
  <2> DEFINE d == [list[first] EXCEPT !.has = Merging(best, @)]
  <2>1. "Presence" \in T /\ "GlobalPresence" \in T /\ best \in TypedDetail("Presence")
    BY <1>2, <1>7
  <2>2. first \in DOMAIN list /\ list[first].type = "GlobalPresence"
    BY <1>3, <1>7
  <2>3. list[first] \in TypedDetail("GlobalPresence")
    <3>1. list[first] \in GoodSet(T)
      BY <2>2
    <3> QED BY <3>1, <2>2 DEF GoodSet, TypedDetail
  <2>4. list[first].has \in TypedValues("GlobalPresence")
    BY <2>3 DEF TypedDetail
  <2>5. Merging(best, list[first].has) \in TypedValues("GlobalPresence")
    BY <2>1, <2>4, MergingTyped
  <2>6. d \in TypedDetail("GlobalPresence")
    BY <2>3, <2>5 DEF TypedDetail
  <2>7. d \in GoodSet(T)
    BY <2>1, <2>6 DEF GoodSet
  <2>8. merged = [list EXCEPT ![first] = d]
    OBVIOUS
  <2> HIDE DEF d, merged
  <2>9. merged \in Seq(GoodSet(T)) /\ \A n \in DOMAIN list : n \in DOMAIN merged /\ (n # first => merged[n] = list[n])
    BY <2>2, <2>7, <2>8
  <2>10. \A n \in DOMAIN list : list[n].type # "GlobalPresence" => merged[n] = list[n] /\ n \in DOMAIN merged
    BY <2>2, <2>9
  <2> QED BY <1>1, <1>7, <2>9, <2>10 DEF KeepsOthers, new
<1> QED BY <1>4, <1>5, <1>6, <1>7

\* What update leaves of the copy before it writes.
LEMMA PreparedSound ==
  ASSUME NEW T, T \subseteq TypeNames, "Presence" \in T => "GlobalPresence" \in T,
         copy \in Seq(GoodSet(T)), NEW mask
  PROVE  /\ Prepared(mask) \in Seq(GoodSet(T))
         /\ KeepsOthers(copy, "GlobalPresence", Prepared(mask))
<1>1. CASE Prepared(mask) = copy
  BY <1>1 DEF KeepsOthers
<1>2. CASE Prepared(mask) = updateGlobalPresence(copy)
  BY <1>2, GlobalPresenceSound
<1> QED BY <1>1, <1>2 DEF Prepared

-----------------------------------------------------------------------------
\* The row of a detail that is kept as it was read is not named.

\* The ids that a delta may name are rows, or 0.
LEMMA IdsAreRows ==
  ASSUME NEW T, NEW old \in Seq(GoodSet(T)), NEW new \in Seq(GoodSet(T))
  PROVE  IdsOf(old, new) \subseteq 0..MaxRows
<1>1. \A i \in DOMAIN old : old[i].id \in 0..MaxRows
  BY GoodDetails
<1>2. \A j \in DOMAIN new : new[j].id \in 0..MaxRows
  BY GoodDetails
<1>3. \A i \in UnmatchedOld(old, new) : i \in DOMAIN old
  BY DEF UnmatchedOld
<1>4. ASSUME NEW p \in Pairs(UnmatchedOld(old, new), new)
      PROVE  constructModification(old[p[1]], new[p[2]]) \in 0..MaxRows
  BY <1>1, <1>2, <1>3 DEF Pairs, constructModification
<1> QED BY <1>1, <1>3, <1>4 DEF IdsOf

\* Matching exactly does not depend on the order, and a detail matches itself.
LEMMA SameValueSymmetric ==
  ASSUME NEW kinds, NEW t, NEW f, NEW a, NEW b, SameValue(kinds, t, f, a, b)
  PROVE  SameValue(kinds, t, f, b, a)
<1>1. {a, b} = {b, a}
  OBVIOUS
<1> QED BY <1>1 DEF SameValue

LEMMA MatchSymmetric ==
  ASSUME NEW a, NEW b, a.type = b.type => DOMAIN a.has = DOMAIN b.has, detailPairExactlyMatches(a, b)
  PROVE  detailPairExactlyMatches(b, a)
<1>1. /\ a.type = b.type /\ a.created = b.created /\ a.modified = b.modified
      /\ DOMAIN a.has = DOMAIN b.has
      /\ \A f \in DOMAIN a.has : SameValue({"text", "numbers"}, a.type, f, a.has[f], b.has[f])
  BY DEF detailPairExactlyMatches
<1>2. \A f \in DOMAIN b.has : SameValue({"text", "numbers"}, b.type, f, b.has[f], a.has[f])
  BY <1>1, SameValueSymmetric
<1> QED BY <1>1, <1>2 DEF detailPairExactlyMatches

LEMMA MatchReflexive ==
  ASSUME NEW a
  PROVE  detailPairExactlyMatches(a, a)
BY DEF detailPairExactlyMatches, SameValue

\* Without transient details every live row is shown once.
LEMMA ShownOnce ==
  ASSUME NEW S, rows \in Seq(S), transient = None
  PROVE  /\ \A n \in DOMAIN Shown : /\ Shown[n].id \in Live /\ Shown[n].id \in 1..Len(rows)
                                    /\ Shown[n] = Reading(rows, Shown[n].id)
         /\ \A m, n \in DOMAIN Shown : Shown[m].id = Shown[n].id => m = n
<1> DEFINE others == Ascending(Others)
           readings == [n \in DOMAIN others |-> Reading(rows, others[n])]
<1>1. others \in Seq(Others) /\ Others \subseteq 1..Len(rows) /\ Shown = Stored \o readings
  BY OthersListed
<1>2. \A j, k \in DOMAIN others : others[j] = others[k] => j = k
  <2>1. Others \subseteq 1..Len(rows) /\ Len(rows) \in Nat
    BY <1>1
  <2> QED BY <2>1, AscendingPositions
<1> HIDE DEF others
<1>3. readings \in Seq({Reading(rows, i) : i \in Others}) /\ DOMAIN readings = DOMAIN others
  <2> DEFINE V == {Reading(rows, i) : i \in Others}
  <2>1. \A n \in DOMAIN others : readings[n] \in V
    BY <1>1
  <2>2. readings = [n \in DOMAIN others |-> readings[n]] /\ DOMAIN readings = DOMAIN others
    OBVIOUS
  <2> HIDE DEF V, readings
  <2>3. readings \in Seq(V)
    BY <1>1, <2>1, <2>2, MappedList
  <2> QED BY <2>2, <2>3 DEF V
<1>4. \A n \in DOMAIN others : readings[n] = Reading(rows, others[n])
  OBVIOUS
<1> HIDE DEF readings
<1>5. Shown = readings
  <2>1. Stored = <<>>
    BY DEF Stored
  <2> QED BY <1>1, <1>3, <2>1
<1>6. \A i : Reading(rows, i).id = i
  BY DEF Reading
<1>7. \A n \in DOMAIN others : others[n] \in Others /\ others[n] \in Live /\ others[n] \in 1..Len(rows)
  BY <1>1 DEF Others
<1>8. \A n \in DOMAIN Shown : Shown[n].id = others[n] /\ Shown[n] = Reading(rows, others[n]) /\ n \in DOMAIN others
  BY <1>3, <1>4, <1>5, <1>6
<1>9. \A n \in DOMAIN Shown : /\ Shown[n].id \in Live /\ Shown[n].id \in 1..Len(rows)
                              /\ Shown[n] = Reading(rows, Shown[n].id)
  BY <1>7, <1>8
<1>10. \A m, n \in DOMAIN Shown : Shown[m].id = Shown[n].id => m = n
  BY <1>2, <1>8
<1> QED BY <1>9, <1>10

\* The row of a detail that is kept as it was read, and that none equals, is not named by the delta.
LEMMA UnchangedIsNotNamed ==
  ASSUME NEW T, T \subseteq TypeNames, "Presence" \in T => "GlobalPresence" \in T,
         rows \in Seq(RowSet(T)), Len(rows) <= MaxRows, copy \in Seq(GoodSet(T)), transient = None,
         NEW mask, NEW i \in Live, Unchanged(i)
  PROVE  i \notin IdsOf(Shown, Prepared(mask))
<1> DEFINE old == Shown
           new == Prepared(mask)
<1>1. /\ \A n \in DOMAIN old : /\ old[n].id \in Live /\ old[n].id \in 1..Len(rows)
                               /\ old[n] = Reading(rows, old[n].id)
      /\ \A m, n \in DOMAIN old : old[m].id = old[n].id => m = n
  BY ShownOnce
<1>2. KeepsOthers(copy, "GlobalPresence", new)
  BY PreparedSound
<1> HIDE DEF old, new
<1>3. Reading(rows, i).type = rows[i].type /\ rows[i].type # "GlobalPresence"
  BY DEF Unchanged, Reading, Generated
<1>4. PICK m \in DOMAIN new : new[m] = Reading(rows, i)
  <2>1. PICK c \in DOMAIN copy : copy[c] = Reading(rows, i)
    BY DEF Unchanged, ToSet
  <2> QED BY <1>2, <1>3, <2>1 DEF KeepsOthers
<1>5. ASSUME NEW p \in UnmatchedOld(old, new), old[p].id = i PROVE FALSE
  <2>1. p \in DOMAIN old /\ old[p] = Reading(rows, i)
    BY <1>1, <1>5 DEF UnmatchedOld
  <2>2. detailPairExactlyMatches(old[p], new[m])
    BY <1>4, <2>1, MatchReflexive
  <2>3. PICK k \in DOMAIN old : k > p /\ detailPairExactlyMatches(old[k], new[m])
    BY <1>4, <2>2 DEF UnmatchedOld
  <2> DEFINE j == old[k].id
  <2>4. j \in Live /\ j \in 1..Len(rows) /\ old[k] = Reading(rows, j)
    BY <1>1
  <2>5. j # i
    <3>1. k # p
      <4>1. Shown \in Seq(GoodSet(T))
        BY ShownTyped
      <4>2. p \in Nat /\ k \in Nat
        BY <2>1, <4>1 DEF old
      <4> QED BY <2>3, <4>2
    <3> QED BY <1>1, <1>5, <2>1, <3>1
  <2> HIDE DEF j
  <2>6. detailPairExactlyMatches(Reading(rows, j), Reading(rows, i))
    BY <1>4, <2>3, <2>4
  <2>7. Reading(rows, j).type = Reading(rows, i).type => DOMAIN Reading(rows, j).has = DOMAIN Reading(rows, i).has
    BY DEF Reading, ReadRow, FieldsIn
  <2>8. detailPairExactlyMatches(Reading(rows, i), Reading(rows, j))
    BY <2>6, <2>7, MatchSymmetric
  <2> QED BY <2>4, <2>5, <2>8 DEF Unchanged
<1>6. ASSUME NEW p \in Pairs(UnmatchedOld(old, new), new), constructModification(old[p[1]], new[p[2]]) = i
      PROVE  FALSE
  <2>1. p[1] \in UnmatchedOld(old, new) /\ p[1] \in DOMAIN old
    BY DEF Pairs, UnmatchedOld
  <2>2. old[p[1]].id # 0
    BY <1>1, <2>1
  <2>3. old[p[1]].id = i
    BY <1>6, <2>2 DEF constructModification
  <2> QED BY <1>5, <2>1, <2>3
<1> QED BY <1>5, <1>6 DEF IdsOf, old, new

-----------------------------------------------------------------------------
\* A durable save.

\* The contact's types are known ones.
LEMMA MixTypes ==
  ASSUME mix \in Mixes
  PROVE  /\ mix.types \subseteq TypeNames /\ ("Presence" \in mix.types => "GlobalPresence" \in mix.types)
         /\ mix.maxEdits \in Nat /\ mix.maxSaves \in Nat
BY MixesAssumption

\* What the type invariant says in the terms of the lemmas above.
LEMMA TypeFacts ==
  ASSUME TypeOK
  PROVE  /\ rows \in Seq(RowSet(mix.types)) /\ Len(rows) <= MaxRows
         /\ copy \in Seq(GoodSet(mix.types))
         /\ transient # None => transient \in Seq(GoodSet(mix.types))
         /\ records \in BOOLEAN /\ saves \in Nat /\ edits \in Nat
         /\ mix.types \subseteq TypeNames /\ ("Presence" \in mix.types => "GlobalPresence" \in mix.types)
         /\ Len(rows) \in Nat /\ DOMAIN rows = 1..Len(rows)
<1>1. rows \in Seq(RowSet(mix.types)) /\ Len(rows) <= MaxRows
  <2>1. RowsOK
    BY DEF TypeOK, RowsOK
  <2> QED BY <2>1, RowsAre
<1>2. copy \in Seq(GoodSet(mix.types))
  BY ListsAre DEF TypeOK
<1>3. transient # None => transient \in Seq(GoodSet(mix.types))
  BY ListsAre DEF TypeOK
<1>4. records \in BOOLEAN /\ saves \in Nat /\ edits \in Nat
  BY MixTypes DEF TypeOK
<1>5. mix.types \subseteq TypeNames /\ ("Presence" \in mix.types => "GlobalPresence" \in mix.types)
  BY MixTypes DEF TypeOK
<1>6. Len(rows) \in Nat /\ DOMAIN rows = 1..Len(rows)
  BY <1>1
<1> QED BY <1>1, <1>2, <1>3, <1>4, <1>5, <1>6

\* What a durable save leaves.
LEMMA DurableSound ==
  ASSUME TypeOK, NEW mask, SaveDurable(mask)
  PROVE  /\ rows' \in Seq(RowSet(mix.types)) /\ Len(rows') <= MaxRows
         /\ SoundRows(rows, IdsOf(Shown, Prepared(mask)), rows')
         /\ copy' \in Seq(GoodSet(mix.types))
<1> DEFINE T == mix.types
           old == Shown
           list == Prepared(mask)
           ids == IdsOf(old, list)
           V == Writes(T, rows, Len(list), ids)
<1>1. /\ rows \in Seq(RowSet(T)) /\ Len(rows) <= MaxRows /\ copy \in Seq(GoodSet(T))
      /\ transient # None => transient \in Seq(GoodSet(T))
      /\ records \in BOOLEAN /\ saves \in Nat
      /\ T \subseteq TypeNames /\ ("Presence" \in T => "GlobalPresence" \in T)
      /\ Len(rows) \in Nat
  BY TypeFacts
<1> HIDE DEF T
<1>2. old \in Seq(GoodSet(T))
  BY <1>1, ShownTyped
<1>3. list \in Seq(GoodSet(T))
  BY <1>1, PreparedSound
<1>4. PICK delta \in determineContactDetailDelta(old, list), times \in Times :
        LET w == write(list, old, delta, mask, times)
        IN  /\ Len(w.rows) <= MaxRows
            /\ copy' = w.copy
            /\ rows' = IF w.state = "failed" THEN rows ELSE w.rows
  BY DEF SaveDurable
<1> HIDE DEF old, list
<1> DEFINE w == write(list, old, delta, mask, times)
<1>5. IsDelta(old, list, delta)
  BY <1>2, <1>3, DeltaSound
<1>6. AreSteps(ids, list, Steps(list, old, delta))
  BY <1>2, <1>3, <1>5, StepsSound
<1>7. ids \subseteq 0..MaxRows
  BY <1>2, <1>3, IdsAreRows
<1> HIDE DEF ids
<1>8. list \in Seq(DetailSet(T)) /\ \A n \in DOMAIN list : list[n].id <= MaxRows
  <2>1. GoodSet(T) \subseteq DetailSet(T) /\ \A d \in GoodSet(T) : d.id \in 0..MaxRows
    BY GoodDetails
  <2>2. list \in Seq(DetailSet(T))
    BY <1>3, <2>1, WiderList
  <2>3. \A n \in DOMAIN list : list[n].id \in 0..MaxRows
    BY <1>3, <2>1
  <2> QED BY <2>2, <2>3, RowsAssumption
<1>9. Begun(list) \in V
  BY <1>1, <1>8, BegunSound
<1> HIDE DEF V
<1>10. w \in V
  BY <1>1, <1>3, <1>6, <1>7, <1>9, WriteSound DEF V
<1>11. /\ Len(w.rows) <= MaxRows /\ copy' = w.copy
       /\ rows' = IF w.state = "failed" THEN rows ELSE w.rows
  BY <1>4
<1> HIDE DEF w
<1>12. /\ w.rows \in Seq(RowSet(T)) /\ w.copy \in Seq(DetailSet(T))
       /\ SoundRows(rows, ids, w.rows) /\ SoundCopy(Len(list), Len(w.rows), w.copy)
  BY <1>10 DEF V, Writes
<1>13. copy' \in Seq(GoodSet(T))
  <2>1. DOMAIN w.copy = 1..Len(list) /\ Len(list) \in Nat /\ Len(w.rows) \in Nat
    BY <1>3, <1>12 DEF SoundCopy
  <2>2. ASSUME NEW n \in DOMAIN w.copy PROVE w.copy[n] \in GoodSet(T)
    <3>1. w.copy[n] \in DetailSet(T)
      BY <1>12
    <3>2. w.copy[n].id \in Nat
      BY <3>1 DEF DetailSet, DetailsOf
    <3>3. w.copy[n].id <= MaxRows \/ w.copy[n].id <= Len(w.rows)
      BY <1>12, <2>1 DEF SoundCopy
    <3>4. w.copy[n].id <= MaxRows
      BY <1>11, <2>1, <3>2, <3>3, RowsAssumption
    <3> QED BY <3>1, <3>4, GoodDetails
  <2> DEFINE c == w.copy
             B == GoodSet(T)
  <2>3. c \in Seq(DetailSet(T)) /\ \A n \in DOMAIN c : c[n] \in B
    BY <1>12, <2>2
  <2> HIDE DEF c, B
  <2>4. c \in Seq(B)
    BY <2>3
  <2> QED BY <1>11, <2>4 DEF c, B
<1>14. SoundRows(rows, ids, rows)
  <2>1. \A i \in 1..Len(rows) : Kept(rows[i], rows[i])
    BY DEF Kept
  <2>2. \A i \in 1..Len(rows) : ~(i > Len(rows))
    BY <1>1
  <2> QED BY <1>1, <2>1, <2>2 DEF SoundRows
<1>15. rows' \in Seq(RowSet(T)) /\ Len(rows') <= MaxRows /\ SoundRows(rows, ids, rows')
  <2>1. CASE w.state = "failed"
    BY <1>1, <1>11, <1>14, <2>1
  <2>2. CASE w.state # "failed"
    BY <1>11, <1>12, <2>2
  <2> QED BY <2>1, <2>2
<1> QED BY <1>13, <1>15 DEF T, ids, old, list

-----------------------------------------------------------------------------
\* The client's edits, and what the sync adaptor is told.

\* A list is one of its own elements.
LEMMA ListIsList == ASSUME NEW S, NEW s \in Seq(S) PROVE IsList(s)
<1>1. s = [i \in 1..Len(s) |-> s[i]] /\ DOMAIN s = 1..Len(s) /\ Len(s) \in Nat
  OBVIOUS
<1>2. \A i \in 1..Len(s) : s[i] \in ToSet(s)
  BY <1>1 DEF ToSet
<1> QED BY <1>1, <1>2 DEF IsList

\* So is a function on the first numbers.
LEMMA MadeList == ASSUME NEW n \in Nat, NEW s, DOMAIN s = 1..n, s = [i \in 1..n |-> s[i]] PROVE IsList(s) /\ Len(s) = n
<1>1. \A i \in 1..n : s[i] \in ToSet(s)
  BY DEF ToSet
<1>2. s \in Seq(ToSet(s))
  <2> DEFINE A == ToSet(s)
  <2>1. \A i \in 1..n : s[i] \in A
    BY <1>1
  <2> HIDE DEF A
  <2>2. s \in [1..n -> A]
    BY <2>1
  <2>3. s \in Seq(A)
    BY <2>2
  <2> QED BY <2>3 DEF A
<1>3. Len(s) = n
  BY <1>2
<1> QED BY <1>2, <1>3 DEF IsList

\* Rows of the types are as the type invariant has them.
LEMMA RowsTyped ==
  ASSUME NEW list \in Seq(RowSet(mix.types))
  PROVE  /\ IsList(list)
         /\ \A i \in DOMAIN list :
              list[i] # None =>
                /\ \E t \in mix.types : list[i] \in TypedRow(t)
                /\ list[i].unhandled \subseteq list[i].flags
                /\ list[i].unhandled # {} => records
<1>1. \A i \in DOMAIN list : list[i] \in RowSet(mix.types)
  OBVIOUS
<1> QED BY <1>1, ListIsList DEF RowSet

\* Values that a client gives a field, and a detail that it changes.
LEMMA ValuesTyped == ASSUME NEW t, NEW f PROVE ValuesOf(t, f) \subseteq Values
BY DEF ValuesOf, Values

LEMMA DetailChanged ==
  ASSUME NEW t, NEW d \in TypedDetail(t), NEW f, NEW v \in Values
  PROVE  [d EXCEPT !.has[f] = v] \in TypedDetail(t)
<1>1. d.has \in TypedValues(t)
  BY DEF TypedDetail
<1> DEFINE has == [d.has EXCEPT ![f] = v]
<1>2. has \in TypedValues(t)
  BY <1>1 DEF TypedValues
<1>3. [d EXCEPT !.has[f] = v] = [d EXCEPT !.has = has]
  OBVIOUS
<1> HIDE DEF has
<1> QED BY <1>2, <1>3 DEF TypedDetail

\* An edit leaves a list of details.
LEMMA EditTyped ==
  ASSUME TypeOK, Edit
  PROVE  copy' \in Seq(GoodSet(mix.types))
<1> DEFINE T == mix.types
           B == GoodSet(T)
<1>1. copy \in Seq(B)
  BY TypeFacts
<1>2. ASSUME NEW t \in T, NEW f, NEW v \in ValuesOf(t, f),
             copy' = Append(copy, [type |-> t, id |-> 0, created |-> 0, modified |-> 0,
                                   has |-> [NoFields(t) EXCEPT ![f] = v]])
      PROVE  copy' \in Seq(B)
  <2> DEFINE has == [NoFields(t) EXCEPT ![f] = v]
             d == [type |-> t, id |-> 0, created |-> 0, modified |-> 0, has |-> has]
  <2>1. NoFields(t) \in TypedValues(t) /\ v \in Values
    BY BlankTyped, ValuesTyped
  <2>2. has \in TypedValues(t)
    BY <2>1 DEF TypedValues
  <2>3. copy' = Append(copy, d)
    BY <1>2
  <2> HIDE DEF has
  <2>4. d \in TypedDetail(t)
    BY <2>2, RowsAssumption DEF TypedDetail
  <2>5. d \in B
    BY <2>4 DEF GoodSet
  <2> HIDE DEF d, B
  <2> QED BY <1>1, <2>3, <2>5
<1>3. ASSUME NEW n \in DOMAIN copy, NEW f, NEW v \in Values, copy' = [copy EXCEPT ![n].has[f] = v]
      PROVE  copy' \in Seq(B)
  <2> DEFINE d == [copy[n] EXCEPT !.has[f] = v]
  <2>1. copy[n] \in B
    BY <1>1
  <2>2. PICK t \in T : copy[n] \in TypedDetail(t)
    BY <2>1 DEF GoodSet
  <2>3. d \in TypedDetail(t)
    BY <2>2, DetailChanged
  <2>4. d \in B
    BY <2>3 DEF GoodSet
  <2>5. copy' = [copy EXCEPT ![n] = d]
    BY <1>3
  <2> HIDE DEF d, B
  <2> QED BY <1>1, <2>4, <2>5
<1>4. ASSUME NEW n \in DOMAIN copy, copy' = RemoveAt(copy, n) PROVE copy' \in Seq(B)
  <2> HIDE DEF B
  <2> QED BY <1>1, <1>4, RemovedFromList
<1>5. \/ \E t \in T : \E f : \E v \in ValuesOf(t, f) :
           copy' = Append(copy, [type |-> t, id |-> 0, created |-> 0, modified |-> 0,
                                 has |-> [NoFields(t) EXCEPT ![f] = v]])
      \/ \E n \in DOMAIN copy : \E f : \E v \in ValuesOf(copy[n].type, f) \cup {"unset"} :
           copy' = [copy EXCEPT ![n].has[f] = v]
      \/ \E n \in DOMAIN copy : copy' = RemoveAt(copy, n)
  BY DEF Edit
<1> SUFFICES copy' \in Seq(B)
  OBVIOUS
<1> HIDE DEF B, T
<1>6. CASE \E t \in T : \E f : \E v \in ValuesOf(t, f) :
             copy' = Append(copy, [type |-> t, id |-> 0, created |-> 0, modified |-> 0,
                                   has |-> [NoFields(t) EXCEPT ![f] = v]])
  BY <1>2, <1>6
<1>7. CASE \E n \in DOMAIN copy : \E f : \E v \in ValuesOf(copy[n].type, f) \cup {"unset"} :
             copy' = [copy EXCEPT ![n].has[f] = v]
  <2>1. PICK n \in DOMAIN copy : \E f : \E v \in ValuesOf(copy[n].type, f) \cup {"unset"} :
          copy' = [copy EXCEPT ![n].has[f] = v]
    BY <1>7
  <2>2. PICK f : \E v \in ValuesOf(copy[n].type, f) \cup {"unset"} : copy' = [copy EXCEPT ![n].has[f] = v]
    BY <2>1
  <2>3. PICK v \in ValuesOf(copy[n].type, f) \cup {"unset"} : copy' = [copy EXCEPT ![n].has[f] = v]
    BY <2>2
  <2>4. v \in Values
    BY ValuesTyped, SomeValues
  <2> QED BY <1>3, <2>3, <2>4
<1>8. CASE \E n \in DOMAIN copy : copy' = RemoveAt(copy, n)
  BY <1>4, <1>8
<1> QED BY <1>5, <1>6, <1>7, <1>8

\* What is told of a row has the fields of a type.
LEMMA ToldTyped ==
  ASSUME TypeOK, NEW i \in DOMAIN rows, Told(i) # None
  PROVE  /\ rows[i] # None /\ ~Deleted(rows[i]) /\ Told(i) = Reading(rows, i).has
         /\ \E t \in mix.types : Told(i) \in TypedValues(t)
<1>1. /\ rows \in Seq(RowSet(mix.types)) /\ Len(rows) <= MaxRows /\ mix.types \subseteq TypeNames
      /\ Len(rows) \in Nat /\ DOMAIN rows = 1..Len(rows)
  BY TypeFacts
<1>2. rows[i] # None /\ ~Deleted(rows[i]) /\ Told(i) = Reading(rows, i).has
  BY DEF Told
<1>3. i \in 1..MaxRows /\ rows[i] \in RowSet(mix.types)
  BY <1>1, RowsAssumption
<1>4. \E t \in mix.types : rows[i].type = t /\ Reading(rows, i).has \in TypedValues(t)
  BY <1>1, <1>2, <1>3, ReadingTyped
<1> QED BY <1>2, <1>4

-----------------------------------------------------------------------------
\* Type correctness.

\* Types of the parts of the state.
FetchedOK == fetched # None => /\ IsList(fetched) /\ Len(fetched) <= Len(rows)
                               /\ AreTold(fetched)
SavedOK == saved # None => saved \in [mask : mix.masks, over : BOOLEAN, transient : BOOLEAN, done : BOOLEAN]

\* The type invariant from its parts.
LEMMA TypeParts ==
  TypeOK <=> /\ mix \in Mixes
             /\ edits \in 0..mix.maxEdits /\ saves \in 0..mix.maxSaves
             /\ records \in BOOLEAN
             /\ RowsOK
             /\ AreDetails(copy)
             /\ transient # None => AreDetails(transient)
             /\ DOMAIN told = 1..MaxRows /\ AreTold(told)
             /\ FetchedOK /\ SavedOK
BY DEF TypeOK, RowsOK, FetchedOK, SavedOK

LEMMA TypeInit == Init => TypeOK
<1> SUFFICES ASSUME Init PROVE TypeOK
  OBVIOUS
<1>1. mix \in Mixes /\ mix.maxEdits \in Nat /\ mix.maxSaves \in Nat
  BY MixTypes DEF Init
<1>2. edits \in 0..mix.maxEdits /\ saves \in 0..mix.maxSaves /\ records \in BOOLEAN
  <2>1. edits = 0 /\ saves = 0 /\ records = FALSE
    BY DEF Init
  <2>2. \A n \in Nat : 0 \in 0..n
    OBVIOUS
  <2> QED BY <1>1, <2>1, <2>2
<1>3. RowsOK
  <2>1. <<>> \in Seq(RowSet(mix.types)) /\ Len(<<>>) = 0 /\ rows = <<>>
    BY DEF Init
  <2> QED BY <2>1, RowsAre, RowsAssumption
<1>4. AreDetails(copy)
  <2>1. copy \in Seq(GoodSet(mix.types))
    BY DEF Init
  <2> QED BY <2>1, ListsAre
<1>5. DOMAIN told = 1..MaxRows /\ AreTold(told)
  <2>1. DOMAIN told = 1..MaxRows /\ \A n \in 1..MaxRows : told[n] = None
    BY DEF Init
  <2> QED BY <2>1 DEF AreTold
<1>6. transient = None /\ fetched = None /\ saved = None
  BY DEF Init
<1> QED BY <1>1, <1>2, <1>3, <1>4, <1>5, <1>6, TypeParts DEF FetchedOK, SavedOK

\* What a fetch leaves of a row, and the clearing of the flags after it.
FetchedRow(i) == IF rows[i] = None THEN None ELSE [rows[i] EXCEPT !.unhandled = {}]
Gone(i) == rows[i] = None \/ ("deleted" \in rows[i].flags /\ "deleted" \notin rows[i].unhandled)
ClearedRow(i) ==
  IF Gone(i) THEN None ELSE [rows[i] EXCEPT !.flags = rows[i].unhandled, !.unhandled = {}]

\* Either is a row of its type with nothing unhandled; the second has the flags that were.
LEMMA RowFetched ==
  ASSUME NEW T, T \subseteq TypeNames, NEW i, rows[i] \in RowSet(T), rows[i] # None
  PROVE  /\ FetchedRow(i) \in RowSet(T) /\ FetchedRow(i) # None
         /\ FetchedRow(i).unhandled = {} /\ FetchedRow(i).flags = rows[i].flags
         /\ FetchedRow(i).type = rows[i].type /\ FetchedRow(i).columns = rows[i].columns
<1>1. PICK t \in T : rows[i] \in TypedRow(t)
  BY RowKnown
<1>2. PICK E : E = {}
  OBVIOUS
<1> DEFINE r == rows[i]
           s == [r EXCEPT !.unhandled = E]
<1>3. FetchedRow(i) = s
  BY <1>2 DEF FetchedRow
<1> HIDE DEF r
<1>4. E \in SUBSET Flags
  BY <1>2
<1>5. s \in TypedRow(t) /\ s.unhandled = E /\ s.flags = r.flags /\ s.type = r.type /\ s.columns = r.columns
  BY <1>1, <1>4 DEF TypedRow, r
<1> HIDE DEF s
<1>6. s # None
  BY <1>5, NoneAssumption
<1>7. s \in RowSet(T)
  BY <1>2, <1>5 DEF RowSet
<1> QED BY <1>2, <1>3, <1>5, <1>6, <1>7 DEF r

LEMMA RowCleared ==
  ASSUME NEW T, T \subseteq TypeNames, NEW i, rows[i] \in RowSet(T), ~Gone(i)
  PROVE  /\ ClearedRow(i) \in RowSet(T) /\ ClearedRow(i) # None
         /\ ClearedRow(i).unhandled = {} /\ ClearedRow(i).flags = rows[i].unhandled
         /\ ClearedRow(i).type = rows[i].type /\ ClearedRow(i).columns = rows[i].columns
<1>0. rows[i] # None
  BY DEF Gone
<1>1. PICK t \in T : rows[i] \in TypedRow(t)
  BY <1>0, RowKnown
<1>2. PICK E : E = {}
  OBVIOUS
<1> DEFINE r == rows[i]
           U == r.unhandled
           s == [r EXCEPT !.flags = U, !.unhandled = E]
<1>3. ClearedRow(i) = s
  BY <1>2 DEF ClearedRow
<1>4. E \in SUBSET Flags /\ U \in SUBSET Flags
  BY <1>1, <1>2 DEF TypedRow
<1> HIDE DEF r, U
<1>5. s \in TypedRow(t) /\ s.unhandled = E /\ s.flags = U /\ s.type = r.type /\ s.columns = r.columns
  BY <1>1, <1>4 DEF TypedRow, r
<1> HIDE DEF s
<1>6. s # None
  BY <1>5, NoneAssumption
<1>7. s \in RowSet(T)
  BY <1>2, <1>5 DEF RowSet
<1> QED BY <1>2, <1>3, <1>5, <1>6, <1>7 DEF r, U

\* The fetch.
LEMMA TypeFetch ==
  ASSUME TypeOK, FetchChanges
  PROVE  /\ RowsOK'
         /\ FetchedOK'
         /\ Len(rows') = Len(rows)
<1>1. /\ rows \in Seq(RowSet(mix.types)) /\ Len(rows) <= MaxRows /\ Len(rows) \in Nat /\ DOMAIN rows = 1..Len(rows)
      /\ mix.types \subseteq TypeNames /\ mix' = mix /\ records' = TRUE
  BY TypeFacts DEF FetchChanges
<1>2. rows' = [i \in 1..Len(rows) |-> FetchedRow(i)]
  BY <1>1 DEF FetchedRow, FetchChanges
<1>3. IsList(rows') /\ Len(rows') = Len(rows) /\ DOMAIN rows' = 1..Len(rows)
  BY <1>1, <1>2, MadeList
<1>4. ASSUME NEW i \in 1..Len(rows), rows'[i] # None
      PROVE  /\ \E t \in mix.types : rows'[i] \in TypedRow(t)
             /\ rows'[i].unhandled \subseteq rows'[i].flags
             /\ rows'[i].unhandled # {} => records'
  <2>1. rows'[i] = FetchedRow(i) /\ rows[i] \in RowSet(mix.types)
    BY <1>1, <1>2
  <2>2. rows[i] # None
    BY <1>4, <2>1 DEF FetchedRow
  <2>3. rows'[i] \in RowSet(mix.types) /\ rows'[i].unhandled = {}
    BY <1>1, <2>1, <2>2, RowFetched
  <2>4. \E t \in mix.types : rows'[i] \in TypedRow(t)
    BY <1>1, <1>4, <2>3, RowKnown
  <2> QED BY <2>3, <2>4
<1>5. RowsOK'
  BY <1>1, <1>3, <1>4 DEF RowsOK
<1>6. fetched' = [i \in 1..Len(rows) |-> Told(i)]
  BY <1>1 DEF FetchChanges
<1>7. IsList(fetched') /\ Len(fetched') = Len(rows) /\ DOMAIN fetched' = 1..Len(rows)
  BY <1>1, <1>6, MadeList
<1>8. \A i \in 1..Len(rows) : fetched'[i] # None => \E t \in mix.types : fetched'[i] \in TypedValues(t)
  BY <1>1, <1>6, ToldTyped
<1>9. AreTold(fetched)'
  BY <1>1, <1>7, <1>8 DEF AreTold
<1>10. FetchedOK'
  BY <1>1, <1>3, <1>7, <1>9 DEF FetchedOK
<1> QED BY <1>3, <1>5, <1>10

\* The clearing of the flags.
LEMMA TypeClear ==
  ASSUME TypeOK, ClearFlags
  PROVE  /\ RowsOK'
         /\ DOMAIN told' = 1..MaxRows /\ AreTold(told)'
         /\ Len(rows') = Len(rows)
<1>1. /\ rows \in Seq(RowSet(mix.types)) /\ Len(rows) <= MaxRows /\ Len(rows) \in Nat /\ DOMAIN rows = 1..Len(rows)
      /\ mix.types \subseteq TypeNames /\ mix' = mix /\ records' = records
  BY TypeFacts DEF ClearFlags
<1>2. rows' = [i \in 1..Len(rows) |-> ClearedRow(i)]
  BY <1>1 DEF ClearedRow, Gone, ClearFlags
<1>3. IsList(rows') /\ Len(rows') = Len(rows) /\ DOMAIN rows' = 1..Len(rows)
  BY <1>1, <1>2, MadeList
<1>4. ASSUME NEW i \in 1..Len(rows), rows'[i] # None
      PROVE  /\ \E t \in mix.types : rows'[i] \in TypedRow(t)
             /\ rows'[i].unhandled \subseteq rows'[i].flags
             /\ rows'[i].unhandled # {} => records'
  <2>1. rows'[i] = ClearedRow(i) /\ rows[i] \in RowSet(mix.types)
    BY <1>1, <1>2
  <2>2. ~Gone(i)
    BY <1>4, <2>1 DEF ClearedRow
  <2>3. rows'[i] \in RowSet(mix.types) /\ rows'[i].unhandled = {}
    BY <1>1, <2>1, <2>2, RowCleared
  <2>4. \E t \in mix.types : rows'[i] \in TypedRow(t)
    BY <1>1, <1>4, <2>3, RowKnown
  <2> QED BY <2>3, <2>4
<1>5. RowsOK'
  BY <1>1, <1>3, <1>4 DEF RowsOK
<1>6. DOMAIN told' = 1..MaxRows
      /\ \A i \in 1..MaxRows : told'[i] = IF i \in DOMAIN fetched THEN fetched[i] ELSE told[i]
  BY DEF ClearFlags
<1>7. /\ \A i \in 1..MaxRows : told[i] # None => \E t \in mix.types : told[i] \in TypedValues(t)
      /\ \A i \in DOMAIN fetched : fetched[i] # None => \E t \in mix.types : fetched[i] \in TypedValues(t)
  BY TypeParts DEF FetchedOK, AreTold, ClearFlags
<1>8. \A i \in 1..MaxRows : told'[i] # None => \E t \in mix.types : told'[i] \in TypedValues(t)
  BY <1>6, <1>7
<1>9. AreTold(told)'
  BY <1>1, <1>6, <1>8 DEF AreTold
<1> QED BY <1>3, <1>5, <1>6, <1>9

\* The type invariant is inductive.
LEMMA TypeNext == ASSUME TypeOK, [Next]_vars PROVE TypeOK'
<1>0. /\ mix \in Mixes
      /\ edits \in 0..mix.maxEdits /\ saves \in 0..mix.maxSaves
      /\ records \in BOOLEAN
      /\ RowsOK
      /\ AreDetails(copy)
      /\ transient # None => AreDetails(transient)
      /\ DOMAIN told = 1..MaxRows /\ AreTold(told)
      /\ FetchedOK /\ SavedOK
  BY TypeParts
<1>1. /\ rows \in Seq(RowSet(mix.types)) /\ Len(rows) <= MaxRows /\ Len(rows) \in Nat /\ DOMAIN rows = 1..Len(rows)
      /\ copy \in Seq(GoodSet(mix.types))
      /\ transient # None => transient \in Seq(GoodSet(mix.types))
      /\ mix.types \subseteq TypeNames /\ ("Presence" \in mix.types => "GlobalPresence" \in mix.types)
  BY TypeFacts
<1>2. mix.maxEdits \in Nat /\ mix.maxSaves \in Nat
  BY <1>0, MixTypes
<1> DEFINE Parts ==
       /\ mix' \in Mixes
       /\ edits' \in 0..mix'.maxEdits /\ saves' \in 0..mix'.maxSaves
       /\ records' \in BOOLEAN
       /\ RowsOK'
       /\ AreDetails(copy)'
       /\ transient' # None => AreDetails(transient)'
       /\ DOMAIN told' = 1..MaxRows /\ AreTold(told)'
       /\ FetchedOK' /\ SavedOK'
<1> SUFFICES Parts
  BY DEF Parts, TypeOK, RowsOK, FetchedOK, SavedOK
\* The parts that an action leaves alone.
<1>a. ASSUME UNCHANGED <<rows, records, mix>> PROVE RowsOK'
  BY <1>0, <1>a DEF RowsOK
<1>b. ASSUME mix' = mix, copy' \in Seq(GoodSet(mix.types)) PROVE AreDetails(copy)'
  <2>1. AreDetails(copy')
    BY <1>b, ListsAre
  <2> QED BY <2>1, <1>b DEF AreDetails
<1>c. ASSUME mix' = mix, transient' \in Seq(GoodSet(mix.types)) PROVE AreDetails(transient)'
  <2>1. AreDetails(transient')
    BY <1>c, ListsAre
  <2> QED BY <2>1, <1>c DEF AreDetails
<1>d. ASSUME UNCHANGED <<told, mix>> PROVE DOMAIN told' = 1..MaxRows /\ AreTold(told)'
  BY <1>0, <1>d DEF AreTold
<1>e. ASSUME UNCHANGED <<fetched, mix>>, Len(rows') \in Nat, Len(rows) <= Len(rows') PROVE FetchedOK'
  <2> SUFFICES ASSUME fetched # None PROVE IsList(fetched) /\ Len(fetched) <= Len(rows') /\ AreTold(fetched)'
    BY <1>e DEF FetchedOK
  <2>1. IsList(fetched) /\ Len(fetched) <= Len(rows) /\ AreTold(fetched)
    BY <1>0 DEF FetchedOK
  <2>2. Len(fetched) \in Nat
    BY <2>1 DEF IsList
  <2>3. Len(fetched) <= Len(rows')
    BY <1>1, <1>e, <2>1, <2>2
  <2> QED BY <2>1, <2>3, <1>e DEF AreTold
<1>f. ASSUME UNCHANGED <<fetched, mix, rows>> PROVE FetchedOK'
  <2>1. Len(rows') = Len(rows)
    BY <1>f
  <2> QED BY <1>1, <1>e, <1>f, <2>1
<1>g. ASSUME UNCHANGED <<transient, mix>> PROVE transient' # None => AreDetails(transient)'
  BY <1>0, <1>g DEF AreDetails
<1>h. ASSUME UNCHANGED <<copy, mix>> PROVE AreDetails(copy)'
  BY <1>0, <1>h DEF AreDetails
<1>i. ASSUME saved' = None PROVE SavedOK'
  BY <1>i DEF SavedOK
<1> HIDE DEF Parts
<1>3. CASE Read
  <2> USE <1>3 DEF Read
  <2>1. copy' \in Seq(GoodSet(mix.types))
    BY <1>1, ShownTyped
  <2> QED BY <1>0, <1>2, <1>a, <1>b, <1>d, <1>f, <1>g, <1>i, <2>1 DEF Parts
<1>4. CASE Edit
  <2>1. copy' \in Seq(GoodSet(mix.types))
    BY <1>4, EditTyped
  <2>2. edits' \in 0..mix.maxEdits
    BY <1>0, <1>2, <1>4 DEF Edit
  <2>3. UNCHANGED <<rows, transient, records, fetched, told, mix, saves>> /\ saved' = None
    BY <1>4 DEF Edit
  <2> QED BY <1>0, <1>a, <1>b, <1>d, <1>f, <1>g, <1>i, <2>1, <2>2, <2>3 DEF Parts
<1>5. CASE SaveRefused
  <2>1. saves' \in 0..mix.maxSaves
    BY <1>0, <1>2, <1>5 DEF SaveRefused
  <2>2. UNCHANGED <<rows, transient, copy, records, fetched, told, mix, edits>> /\ saved' = None
    BY <1>5 DEF SaveRefused
  <2> QED BY <1>0, <1>a, <1>d, <1>f, <1>g, <1>h, <1>i, <2>1, <2>2 DEF Parts
<1>6. ASSUME NEW mask \in mix.masks, SaveTransient(mask) PROVE Parts
  <2>1. saves' \in 0..mix.maxSaves
    BY <1>0, <1>2, <1>6 DEF SaveTransient
  <2>2. /\ UNCHANGED <<rows, records, fetched, told, mix, edits>>
        /\ copy' = Prepared(mask) /\ transient' = Masked(Prepared(mask), mask)
        /\ saved' = [mask |-> mask, over |-> transient # None, transient |-> TRUE, done |-> TRUE]
    BY <1>6 DEF SaveTransient
  <2>3. copy' \in Seq(GoodSet(mix.types))
    BY <1>1, <2>2, PreparedSound
  <2>4. transient' \in Seq(GoodSet(mix.types))
    BY <2>2, <2>3, MaskedTyped
  <2>5. SavedOK'
    BY <1>6, <2>2 DEF SavedOK
  <2> QED BY <1>0, <1>a, <1>b, <1>c, <1>d, <1>f, <2>1, <2>2, <2>3, <2>4, <2>5 DEF Parts
<1>7. ASSUME NEW mask \in mix.masks, SaveDurable(mask) PROVE Parts
  <2>1. saves' \in 0..mix.maxSaves
    BY <1>0, <1>2, <1>7 DEF SaveDurable
  <2>2. /\ UNCHANGED <<records, fetched, told, mix, edits>> /\ transient' = None
    BY <1>7 DEF SaveDurable
  <2>3. PICK success \in BOOLEAN :
          saved' = [mask |-> mask, over |-> transient # None, transient |-> FALSE, done |-> success]
    BY <1>7 DEF SaveDurable
  <2>4. /\ rows' \in Seq(RowSet(mix.types)) /\ Len(rows') <= MaxRows
        /\ SoundRows(rows, IdsOf(Shown, Prepared(mask)), rows')
        /\ copy' \in Seq(GoodSet(mix.types))
    BY <1>7, DurableSound
  <2>5. RowsOK'
    <3>1. /\ IsList(rows')
          /\ \A i \in DOMAIN rows' :
               rows'[i] # None =>
                 /\ \E t \in mix.types : rows'[i] \in TypedRow(t)
                 /\ rows'[i].unhandled \subseteq rows'[i].flags
                 /\ rows'[i].unhandled # {} => records
      BY <2>4, RowsTyped
    <3> QED BY <2>2, <2>4, <3>1 DEF RowsOK
  <2>6. FetchedOK'
    <3>1. Len(rows') \in Nat /\ Len(rows) <= Len(rows')
      BY <1>1, <2>4 DEF SoundRows
    <3> QED BY <1>e, <2>2, <3>1
  <2>7. SavedOK'
    BY <1>7, <2>2, <2>3 DEF SavedOK
  <2> QED BY <1>0, <1>b, <1>d, <2>1, <2>2, <2>4, <2>5, <2>6, <2>7 DEF Parts
<1>8. CASE FetchChanges
  <2>1. RowsOK' /\ FetchedOK'
    BY <1>8, TypeFetch
  <2>2. UNCHANGED <<transient, copy, told, mix, edits, saves>> /\ saved' = None /\ records' = TRUE
    BY <1>8 DEF FetchChanges
  <2> QED BY <1>0, <1>d, <1>g, <1>h, <1>i, <2>1, <2>2 DEF Parts
<1>9. CASE ClearFlags
  <2>1. RowsOK' /\ DOMAIN told' = 1..MaxRows /\ AreTold(told)'
    BY <1>9, TypeClear
  <2>2. UNCHANGED <<transient, copy, records, mix, edits, saves>> /\ saved' = None /\ fetched' = None
    BY <1>9 DEF ClearFlags
  <2>3. FetchedOK'
    BY <2>2 DEF FetchedOK
  <2> QED BY <1>0, <1>g, <1>h, <1>i, <2>1, <2>2, <2>3 DEF Parts
<1>10. CASE Reboot
  <2>1. UNCHANGED <<rows, records, told, mix, edits, saves>> /\ saved' = None /\ fetched' = None
        /\ transient' = None /\ copy' = <<>>
    BY <1>10 DEF Reboot
  <2>2. copy' \in Seq(GoodSet(mix.types))
    BY <2>1
  <2>3. FetchedOK'
    BY <2>1 DEF FetchedOK
  <2> QED BY <1>0, <1>a, <1>b, <1>d, <1>i, <2>1, <2>2, <2>3 DEF Parts
<1>11. CASE UNCHANGED vars
  <2>1. UNCHANGED <<rows, transient, copy, records, fetched, told, saved, mix, edits, saves>>
    BY <1>11 DEF vars
  <2>2. SavedOK'
    BY <1>0, <2>1 DEF SavedOK
  <2> QED BY <1>0, <1>a, <1>d, <1>f, <1>g, <1>h, <2>1, <2>2 DEF Parts
<1> QED BY <1>3, <1>4, <1>5, <1>6, <1>7, <1>8, <1>9, <1>10, <1>11 DEF Next

\* Every value a variable takes has its type: whatever the client edits and
\* saves, the tables hold rows of the contact's types with all their columns,
\* and what is unhandled is flagged (ContactWriter::update, writeDetails).
THEOREM TypeInvariant == Spec => []TypeOK
<1>1. Init => TypeOK
  BY TypeInit
<1>2. TypeOK /\ [Next]_vars => TypeOK'
  BY TypeNext
<1> QED BY <1>1, <1>2, PTL DEF Spec

-----------------------------------------------------------------------------
\* The flags tell what the server lacks.

\* What the sync adaptor knows between a fetch and the clearing of the flags: of
\* a row that was there at the fetch what was then read of it, unless the row
\* was written to since; the rows that were not there are flagged as added.
KnownRow(i) ==
  IF i \notin DOMAIN fetched
  THEN /\ rows[i] # None /\ told[i] = None
       /\ "added" \in rows[i].flags /\ rows[i].flags = rows[i].unhandled
  ELSE IF rows[i] = None THEN fetched[i] = None
  ELSE /\ fetched[i] = None => "deleted" \in rows[i].flags
       /\ rows[i].unhandled = {} => fetched[i] = Told(i)
       /\ "deleted" \in rows[i].flags \ rows[i].unhandled => fetched[i] = None
FetchedKnown == fetched # None => records /\ \A i \in DOMAIN rows : KnownRow(i)
\* The server has nothing of rows that are not there yet.
NewIsUntold == \A i \in 1..MaxRows : i > Len(rows) => told[i] = None
Inv == TypeOK /\ FlagsTellChanges /\ FetchedKnown /\ NewIsUntold

\* What FlagsTellChanges says of a row.
TellingRow(i) ==
  IF rows[i] = None THEN told[i] = None
  ELSE /\ rows[i].flags = {} => told[i] = Reading(rows, i).has
       /\ told[i] = None => rows[i].flags \cap {"added", "deleted"} # {}

\* What is read of a row depends on its columns only.
LEMMA ReadingIsSame ==
  ASSUME NEW i, rows'[i].type = rows[i].type, rows'[i].columns = rows[i].columns
  PROVE  Reading(rows', i).has = Reading(rows, i).has
BY DEF Reading

LEMMA InvInit == Init => Inv
<1> SUFFICES ASSUME Init PROVE Inv
  OBVIOUS
<1>1. rows = <<>> /\ fetched = None /\ \A i \in 1..MaxRows : told[i] = None
  BY DEF Init
<1>2. FlagsTellChanges
  BY <1>1 DEF FlagsTellChanges
<1> QED BY <1>1, <1>2, TypeInit DEF Inv, FetchedKnown, NewIsUntold

\* After a durable save.
LEMMA InvDurable ==
  ASSUME Inv, NEW mask, SaveDurable(mask)
  PROVE  FlagsTellChanges' /\ FetchedKnown' /\ NewIsUntold'
<1> DEFINE ids == IdsOf(Shown, Prepared(mask))
<1>1. TypeOK /\ FlagsTellChanges /\ FetchedKnown /\ NewIsUntold
  BY DEF Inv
<1>2. /\ rows' \in Seq(RowSet(mix.types)) /\ Len(rows') <= MaxRows
      /\ SoundRows(rows, ids, rows')
  BY <1>1, DurableSound
<1> HIDE DEF ids
<1>3. /\ Len(rows) \in Nat /\ DOMAIN rows = 1..Len(rows) /\ rows \in Seq(RowSet(mix.types))
      /\ Len(rows) <= MaxRows /\ records \in BOOLEAN
  BY <1>1, TypeFacts
<1>4. Len(rows') \in Nat /\ DOMAIN rows' = 1..Len(rows') /\ Len(rows) <= Len(rows')
  BY <1>2, <1>3 DEF SoundRows
<1>5. records' = records /\ fetched' = fetched /\ told' = told
  BY DEF SaveDurable
<1>6. ASSUME NEW i \in 1..Len(rows) PROVE Kept(rows[i], rows'[i]) /\ TellingRow(i)
  BY <1>1, <1>2, <1>3 DEF SoundRows, FlagsTellChanges, TellingRow
<1>7. ASSUME NEW i \in 1..Len(rows'), i \notin 1..Len(rows) PROVE Fresh(rows'[i]) /\ told[i] = None
  <2>1. i > Len(rows) /\ i \in 1..MaxRows
    BY <1>2, <1>3, <1>4, <1>7, RowsAssumption
  <2> QED BY <1>1, <1>2, <2>1 DEF SoundRows, NewIsUntold
<1>8. ASSUME NEW i \in 1..Len(rows') PROVE TellingRow(i)'
  <2>1. CASE i \in 1..Len(rows) /\ rows'[i] = rows[i]
    <3>1. TellingRow(i)
      BY <1>6, <2>1
    <3>2. rows'[i] # None => Reading(rows', i).has = Reading(rows, i).has
      BY <2>1, ReadingIsSame
    <3> QED BY <1>5, <2>1, <3>1, <3>2 DEF TellingRow
  <2>2. CASE i \in 1..Len(rows) /\ rows'[i] # rows[i]
    <3>1. TellingRow(i) /\ rows[i] # None /\ rows'[i] # None /\ Marked(rows[i], rows'[i])
      BY <1>6, <2>2 DEF Kept
    <3>2. rows'[i].flags # {} /\ rows[i].flags \subseteq rows'[i].flags
      BY <3>1 DEF Marked
    <3> QED BY <1>5, <3>1, <3>2 DEF TellingRow
  <2>3. CASE i \notin 1..Len(rows)
    <3>1. rows'[i] # None /\ "added" \in rows'[i].flags
      BY <1>7, <2>3 DEF Fresh
    <3> QED BY <3>1 DEF TellingRow
  <2> QED BY <2>1, <2>2, <2>3
<1>9. ASSUME fetched # None, NEW i \in 1..Len(rows') PROVE records /\ KnownRow(i)'
  <2>1. records /\ \A j \in 1..Len(rows) : KnownRow(j)
    BY <1>1, <1>3, <1>9 DEF FetchedKnown
  <2>2. CASE i \in 1..Len(rows) /\ rows'[i] = rows[i]
    <3>1. KnownRow(i)
      BY <2>1, <2>2
    <3>2. rows'[i] # None => Reading(rows', i).has = Reading(rows, i).has
      BY <2>2, ReadingIsSame
    <3>3. Told(i)' = Told(i)
      BY <2>2, <3>2 DEF Told, Deleted
    <3> QED BY <1>5, <2>1, <2>2, <3>1, <3>3 DEF KnownRow
  <2>3. CASE i \in 1..Len(rows) /\ rows'[i] # rows[i]
    <3>1. KnownRow(i) /\ rows[i] # None /\ rows'[i] # None /\ Marked(rows[i], rows'[i])
      BY <1>6, <2>1, <2>3 DEF Kept
    <3>2. /\ rows[i].flags \subseteq rows'[i].flags
          /\ rows[i].unhandled \subseteq rows'[i].unhandled /\ rows'[i].unhandled # {}
          /\ rows'[i].flags \ rows[i].flags \subseteq rows'[i].unhandled
      BY <2>1, <3>1 DEF Marked
    <3>3. rows'[i].unhandled \subseteq rows'[i].flags
      <4>1. rows'[i] \in RowSet(mix.types)
        BY <1>2
      <4> QED BY <3>1, <4>1 DEF RowSet
    <3>4. CASE i \notin DOMAIN fetched
      <4>1. told[i] = None /\ "added" \in rows[i].flags /\ rows[i].flags = rows[i].unhandled
        BY <3>1, <3>4 DEF KnownRow
      <4>2. "added" \in rows'[i].flags /\ rows'[i].flags = rows'[i].unhandled
        BY <3>2, <3>3, <4>1
      <4> QED BY <1>5, <2>1, <3>1, <3>4, <4>1, <4>2 DEF KnownRow
    <3>5. CASE i \in DOMAIN fetched
      <4>1. /\ fetched[i] = None => "deleted" \in rows[i].flags
            /\ "deleted" \in rows[i].flags \ rows[i].unhandled => fetched[i] = None
        BY <3>1, <3>5 DEF KnownRow
      <4>2. /\ fetched[i] = None => "deleted" \in rows'[i].flags
            /\ "deleted" \in rows'[i].flags \ rows'[i].unhandled => fetched[i] = None
        BY <3>2, <4>1
      <4> QED BY <1>5, <2>1, <3>1, <3>2, <3>5, <4>2 DEF KnownRow
    <3> QED BY <3>4, <3>5
  <2>4. CASE i \notin 1..Len(rows)
    <3>1. /\ rows'[i] # None /\ "added" \in rows'[i].flags
          /\ rows'[i].unhandled = rows'[i].flags /\ told[i] = None
      BY <1>7, <2>1, <2>4 DEF Fresh
    <3>2. i \notin DOMAIN fetched
      <4>1. IsList(fetched) /\ Len(fetched) <= Len(rows)
        BY <1>1, <1>9 DEF TypeOK
      <4>2. DOMAIN fetched = 1..Len(fetched) /\ Len(fetched) \in Nat
        BY <4>1 DEF IsList
      <4> QED BY <1>3, <2>4, <4>1, <4>2
    <3> QED BY <1>5, <2>1, <3>1, <3>2 DEF KnownRow
  <2> QED BY <2>2, <2>3, <2>4, <2>1
<1>10. FlagsTellChanges'
  BY <1>4, <1>8 DEF FlagsTellChanges, TellingRow
<1>11. FetchedKnown'
  BY <1>1, <1>4, <1>5, <1>9 DEF FetchedKnown
<1>12. NewIsUntold'
  BY <1>1, <1>3, <1>4, <1>5 DEF NewIsUntold
<1> QED BY <1>10, <1>11, <1>12

\* After a fetch the rows are these, and what was fetched is what was told of them.
LEMMA FetchedRows ==
  ASSUME TypeOK, FetchChanges
  PROVE  /\ DOMAIN rows' = 1..Len(rows) /\ Len(rows') = Len(rows) /\ DOMAIN fetched' = 1..Len(rows)
         /\ \A i \in 1..Len(rows) : rows'[i] = FetchedRow(i) /\ fetched'[i] = Told(i)
<1>1. Len(rows) \in Nat /\ DOMAIN rows = 1..Len(rows)
  BY TypeFacts
<1>2. rows' = [i \in 1..Len(rows) |-> FetchedRow(i)]
  BY <1>1 DEF FetchedRow, FetchChanges
<1>3. fetched' = [i \in 1..Len(rows) |-> Told(i)]
  BY <1>1 DEF FetchChanges
<1>4. Len(rows') = Len(rows)
  BY TypeFetch
<1> QED BY <1>2, <1>3, <1>4

\* A fetch knows all rows there are.
LEMMA InvFetch ==
  ASSUME Inv, FetchChanges
  PROVE  FlagsTellChanges' /\ FetchedKnown' /\ NewIsUntold'
<1>1. TypeOK /\ FlagsTellChanges /\ FetchedKnown /\ NewIsUntold
  BY DEF Inv
<1>2. /\ Len(rows) \in Nat /\ DOMAIN rows = 1..Len(rows) /\ rows \in Seq(RowSet(mix.types))
      /\ mix.types \subseteq TypeNames /\ Len(rows) <= MaxRows
  BY <1>1, TypeFacts
<1>3. /\ DOMAIN rows' = 1..Len(rows) /\ Len(rows') = Len(rows) /\ DOMAIN fetched' = 1..Len(rows)
      /\ \A i \in 1..Len(rows) : rows'[i] = FetchedRow(i) /\ fetched'[i] = Told(i)
  BY <1>1, FetchedRows
<1>4. records' = TRUE /\ told' = told
  BY DEF FetchChanges
<1>5. ASSUME NEW i \in 1..Len(rows), rows[i] # None
      PROVE  /\ rows'[i] # None /\ rows'[i].flags = rows[i].flags /\ rows'[i].unhandled = {}
             /\ Reading(rows', i).has = Reading(rows, i).has
             /\ Told(i)' = Told(i)
  <2>1. rows[i] \in RowSet(mix.types)
    BY <1>2
  <2>2. /\ rows'[i] # None /\ rows'[i].flags = rows[i].flags /\ rows'[i].unhandled = {}
        /\ rows'[i].type = rows[i].type /\ rows'[i].columns = rows[i].columns
    BY <1>2, <1>3, <1>5, <2>1, RowFetched
  <2>3. Reading(rows', i).has = Reading(rows, i).has
    BY <2>2, ReadingIsSame
  <2>4. Told(i)' = Told(i)
    BY <1>5, <2>2, <2>3 DEF Told, Deleted
  <2> QED BY <2>2, <2>3, <2>4
<1>6. ASSUME NEW i \in 1..Len(rows), rows[i] = None PROVE rows'[i] = None /\ fetched'[i] = None
  BY <1>3, <1>6 DEF FetchedRow, Told
<1>7. FlagsTellChanges'
  <2>1. ASSUME NEW i \in 1..Len(rows) PROVE TellingRow(i)'
    <3>1. TellingRow(i)
      BY <1>1, <1>2 DEF FlagsTellChanges, TellingRow
    <3>2. CASE rows[i] = None
      BY <1>4, <1>6, <3>1, <3>2 DEF TellingRow
    <3>3. CASE rows[i] # None
      BY <1>4, <1>5, <3>1, <3>3 DEF TellingRow
    <3> QED BY <3>2, <3>3
  <2> QED BY <1>3, <2>1 DEF FlagsTellChanges, TellingRow
<1>8. FetchedKnown'
  <2>1. ASSUME NEW i \in 1..Len(rows) PROVE KnownRow(i)'
    <3>1. CASE rows[i] = None
      BY <1>3, <1>6, <3>1 DEF KnownRow
    <3>2. CASE rows[i] # None
      <4>1. /\ rows'[i] # None /\ rows'[i].flags = rows[i].flags /\ rows'[i].unhandled = {}
            /\ fetched'[i] = Told(i)' /\ Told(i)' = Told(i)
        BY <1>3, <1>5, <3>2
      <4>2. Told(i) = None => "deleted" \in rows[i].flags
        <5>1. rows[i] \in RowSet(mix.types) /\ i \in 1..MaxRows
          BY <1>2, RowsAssumption
        <5>2. PICK t \in mix.types : Reading(rows, i).has \in TypedValues(t)
          BY <1>2, <3>2, <5>1, ReadingTyped
        <5>3. Reading(rows, i).has # None
          BY <1>2, <5>2, NoneAssumption
        <5> QED BY <3>2, <5>3 DEF Told, Deleted
      <4>3. "deleted" \in rows[i].flags => Told(i) = None
        BY DEF Told, Deleted
      <4> QED BY <1>3, <4>1, <4>2, <4>3 DEF KnownRow
    <3> QED BY <3>1, <3>2
  <2> QED BY <1>3, <1>4, <2>1 DEF FetchedKnown
<1>9. NewIsUntold'
  BY <1>1, <1>3, <1>4 DEF NewIsUntold
<1> QED BY <1>7, <1>8, <1>9

\* After the clearing they are these.
LEMMA ClearedRows ==
  ASSUME TypeOK, ClearFlags
  PROVE  /\ DOMAIN rows' = 1..Len(rows) /\ Len(rows') = Len(rows)
         /\ \A i \in 1..Len(rows) : rows'[i] = ClearedRow(i)
<1>1. Len(rows) \in Nat /\ DOMAIN rows = 1..Len(rows)
  BY TypeFacts
<1>2. rows' = [i \in 1..Len(rows) |-> ClearedRow(i)]
  BY <1>1 DEF ClearedRow, Gone, ClearFlags
<1>3. Len(rows') = Len(rows)
  BY TypeClear
<1> QED BY <1>2, <1>3

\* The clearing leaves what was written to since the fetch.
LEMMA InvClear ==
  ASSUME Inv, ClearFlags
  PROVE  FlagsTellChanges' /\ FetchedKnown' /\ NewIsUntold'
<1>1. TypeOK /\ FlagsTellChanges /\ FetchedKnown /\ NewIsUntold
  BY DEF Inv
<1>2. /\ Len(rows) \in Nat /\ DOMAIN rows = 1..Len(rows) /\ rows \in Seq(RowSet(mix.types))
      /\ mix.types \subseteq TypeNames /\ Len(rows) <= MaxRows
  BY <1>1, TypeFacts
<1>3. /\ DOMAIN rows' = 1..Len(rows) /\ Len(rows') = Len(rows)
      /\ \A i \in 1..Len(rows) : rows'[i] = ClearedRow(i)
  BY <1>1, ClearedRows
<1>4. /\ fetched # None /\ fetched' = None
      /\ \A i \in 1..MaxRows : told'[i] = IF i \in DOMAIN fetched THEN fetched[i] ELSE told[i]
  BY DEF ClearFlags
<1>5. DOMAIN fetched = 1..Len(fetched) /\ Len(fetched) \in Nat /\ Len(fetched) <= Len(rows)
  <2>1. IsList(fetched) /\ Len(fetched) <= Len(rows)
    BY <1>1, <1>4 DEF TypeOK
  <2> QED BY <2>1 DEF IsList
<1>6. ASSUME NEW i \in 1..Len(rows) PROVE TellingRow(i)'
  <2>1. KnownRow(i) /\ i \in 1..MaxRows /\ rows[i] \in RowSet(mix.types)
    BY <1>1, <1>2, <1>4, RowsAssumption DEF FetchedKnown
  <2>2. told'[i] = IF i \in DOMAIN fetched THEN fetched[i] ELSE told[i]
    BY <1>4, <2>1
  <2>3. CASE Gone(i)
    <3>1. rows'[i] = None
      BY <1>3, <2>3 DEF ClearedRow
    <3>2. told'[i] = None
      <4>1. CASE i \in DOMAIN fetched
        <5>1. fetched[i] = None
          BY <2>1, <2>3, <4>1 DEF KnownRow, Gone
        <5> QED BY <2>2, <4>1, <5>1
      <4>2. CASE i \notin DOMAIN fetched
        BY <2>1, <2>3, <4>2 DEF KnownRow, Gone
      <4> QED BY <4>1, <4>2
    <3> QED BY <3>1, <3>2 DEF TellingRow
  <2>4. CASE ~Gone(i)
    <3>1. /\ rows'[i] # None /\ rows'[i].flags = rows[i].unhandled
          /\ rows'[i].type = rows[i].type /\ rows'[i].columns = rows[i].columns
      BY <1>2, <1>3, <2>1, <2>4, RowCleared
    <3>2. Reading(rows', i).has = Reading(rows, i).has
      BY <3>1, ReadingIsSame
    <3>3. rows[i] # None /\ ("deleted" \in rows[i].flags => "deleted" \in rows[i].unhandled)
      BY <2>4 DEF Gone
    <3>4. CASE i \in DOMAIN fetched
      <4>1. /\ fetched[i] = None => "deleted" \in rows[i].flags
            /\ rows[i].unhandled = {} => fetched[i] = Told(i)
        BY <2>1, <3>3, <3>4 DEF KnownRow
      <4>2. told'[i] = fetched[i]
        BY <2>2, <3>4
      <4>3. ASSUME rows[i].unhandled = {} PROVE told'[i] = Reading(rows', i).has
        <5>1. "deleted" \notin rows[i].flags
          BY <3>3, <4>3
        <5>2. Told(i) = Reading(rows, i).has
          BY <3>3, <5>1 DEF Told, Deleted
        <5> QED BY <3>2, <4>1, <4>2, <4>3, <5>2
      <4>4. told'[i] = None => rows'[i].flags \cap {"added", "deleted"} # {}
        BY <3>1, <3>3, <4>1, <4>2
      <4> QED BY <3>1, <4>3, <4>4 DEF TellingRow
    <3>5. CASE i \notin DOMAIN fetched
      <4>1. "added" \in rows[i].unhandled
        BY <2>1, <3>5 DEF KnownRow
      <4> QED BY <3>1, <4>1 DEF TellingRow
    <3> QED BY <3>4, <3>5
  <2> QED BY <2>3, <2>4
<1>7. FlagsTellChanges'
  BY <1>3, <1>6 DEF FlagsTellChanges, TellingRow
<1>8. FetchedKnown'
  BY <1>4 DEF FetchedKnown
<1>9. NewIsUntold'
  <2>1. ASSUME NEW i \in 1..MaxRows, i > Len(rows) PROVE told'[i] = None
    <3>1. i \notin DOMAIN fetched
      BY <1>2, <1>5, <2>1
    <3>2. told[i] = None
      BY <1>1, <2>1 DEF NewIsUntold
    <3> QED BY <1>4, <3>1, <3>2
  <2> QED BY <1>3, <2>1 DEF NewIsUntold
<1> QED BY <1>7, <1>8, <1>9

\* The invariant is inductive.
LEMMA InvNext == ASSUME Inv, [Next]_vars PROVE Inv'
<1>1. TypeOK /\ FlagsTellChanges /\ FetchedKnown /\ NewIsUntold
  BY DEF Inv
<1>2. TypeOK'
  BY <1>1, TypeNext
<1>3. CASE UNCHANGED <<rows, told, records>> /\ (UNCHANGED fetched \/ fetched' = None)
  <2>1. FlagsTellChanges'
    BY <1>1, <1>3 DEF FlagsTellChanges, Reading
  <2>2. NewIsUntold'
    BY <1>1, <1>3 DEF NewIsUntold
  <2>3. FetchedKnown'
    BY <1>1, <1>3 DEF FetchedKnown, KnownRow, Told, Deleted, Reading
  <2> QED BY <1>2, <2>1, <2>2, <2>3 DEF Inv
<1>4. CASE Read \/ Edit \/ SaveRefused \/ Reboot \/ UNCHANGED vars
  BY <1>3, <1>4 DEF Read, Edit, SaveRefused, Reboot, vars
<1>5. ASSUME NEW mask \in mix.masks, SaveTransient(mask) PROVE Inv'
  BY <1>3, <1>5 DEF SaveTransient
<1>6. ASSUME NEW mask \in mix.masks, SaveDurable(mask) PROVE Inv'
  BY <1>2, <1>6, InvDurable DEF Inv
<1>7. CASE FetchChanges
  BY <1>2, <1>7, InvFetch DEF Inv
<1>8. CASE ClearFlags
  BY <1>2, <1>8, InvClear DEF Inv
<1> QED BY <1>4, <1>5, <1>6, <1>7, <1>8 DEF Next

\* The change flags of the details tell all that the server lacks, for any
\* types, masks, edits and saves before, between and after a fetch and the
\* clearing of the flags (writeDetails, clearChangeFlags).
THEOREM FlagsTell == Spec => []FlagsTellChanges
<1>1. Init => Inv
  BY InvInit
<1>2. Inv /\ [Next]_vars => Inv'
  BY InvNext
<1>3. Inv => FlagsTellChanges
  BY DEF Inv
<1> QED BY <1>1, <1>2, <1>3, PTL DEF Spec

\* Of the rows that a save shows to be unchanged.
LEMMA UnchangedStay ==
  ASSUME TypeOK, [Next]_vars, saved' # None, transient = None, NEW i \in Live, Unchanged(i)
  PROVE  rows'[i] = rows[i]
<1>1. ASSUME NEW mask \in mix.masks, SaveDurable(mask) PROVE rows'[i] = rows[i]
  <2>1. /\ SoundRows(rows, IdsOf(Shown, Prepared(mask)), rows')
    BY <1>1, DurableSound
  <2>2. /\ rows \in Seq(RowSet(mix.types)) /\ Len(rows) <= MaxRows /\ copy \in Seq(GoodSet(mix.types))
        /\ mix.types \subseteq TypeNames /\ ("Presence" \in mix.types => "GlobalPresence" \in mix.types)
        /\ DOMAIN rows = 1..Len(rows)
    BY TypeFacts
  <2>3. i \notin IdsOf(Shown, Prepared(mask))
    BY <2>2, UnchangedIsNotNamed
  <2>4. i \in 1..Len(rows)
    BY <2>2 DEF Live
  <2> QED BY <2>1, <2>3, <2>4 DEF SoundRows
<1>2. ASSUME NEW mask \in mix.masks, SaveTransient(mask) PROVE rows'[i] = rows[i]
  BY <1>2 DEF SaveTransient
<1>3. CASE Read \/ Edit \/ SaveRefused \/ FetchChanges \/ ClearFlags \/ Reboot
  BY <1>3 DEF Read, Edit, SaveRefused, FetchChanges, ClearFlags, Reboot
<1>4. CASE UNCHANGED vars
  BY <1>4 DEF vars
<1> QED BY <1>1, <1>2, <1>3, <1>4 DEF Next

\* A save leaves alone the row of every detail that the client has as it was
\* read, and that no other equals (determineContactDetailDelta, writeDetails).
THEOREM OnlyChangesWritten == Spec => NothingElseTouched
<1>1. TypeOK /\ [Next]_vars =>
        [saved' # None /\ transient = None => \A i \in Live : Unchanged(i) => rows'[i] = rows[i]]_vars
  BY UnchangedStay
<1>2. Spec => []TypeOK
  BY TypeInvariant
<1> QED BY <1>1, <1>2, PTL DEF Spec, NothingElseTouched

-----------------------------------------------------------------------------
\* A delta once more: it lists all that is left over, each once, and pairs of
\* different details put together are pairs of different details.

\* All of them are in the ascending list.
LEMMA AscendingIsOnto ==
  ASSUME NEW n \in Nat, NEW S, S \subseteq 1..n
  PROVE  \A i \in S : \E k \in 1..Cardinality(S) : Ascending(S)[k] = i
<1> DEFINE f == Ascending(S)
           N == Cardinality(S)
<1>0. IsFiniteSet(S) /\ Cardinality(S) \in Nat
  BY FiniteNumbers
<1>1. IsFiniteSet(S) /\ N \in Nat /\ S \subseteq Nat
  BY <1>0
<1>2. f \in [1..N -> S] /\ \A j, k \in 1..N : f[j] = f[k] => j = k
  BY <1>1, AscendingList
<1> HIDE DEF f
<1>3. f \in Injection(1..N, S)
  BY <1>2 DEF Injection, IsInjective
<1>4. IsFiniteSet(1..N) /\ Cardinality(1..N) = N
  <2> HIDE DEF N
  <2> QED BY <1>1, FS_Interval
<1>5. f \in Surjection(1..N, S)
  BY <1>1, <1>3, <1>4, FS_Injection
<1> QED BY <1>5 DEF Surjection, f

\* The numbers of S, last first, each once.
LEMMA LastFirstIsList ==
  ASSUME NEW n \in Nat, NEW S, S \subseteq 1..n
  PROVE  /\ LastFirst(S) \in Seq(S) /\ ToSet(LastFirst(S)) = S
         /\ \A j, k \in DOMAIN LastFirst(S) : LastFirst(S)[j] = LastFirst(S)[k] => j = k
<1> DEFINE f == Ascending(S)
           l == LastFirst(S)
           N == Cardinality(S)
<1>0. IsFiniteSet(S) /\ Cardinality(S) \in Nat
  BY FiniteNumbers
<1>1. IsFiniteSet(S) /\ N \in Nat /\ S \subseteq Nat
  BY <1>0
<1>2. f \in [1..N -> S] /\ \A j, k \in 1..N : f[j] = f[k] => j = k
  BY <1>1, AscendingList
<1>3. \A i \in S : \E k \in 1..N : f[k] = i
  BY AscendingIsOnto
<1>4. l = [k \in 1..N |-> f[N + 1 - k]]
  BY DEF LastFirst
<1> HIDE DEF f, l, N
<1>5. \A k \in 1..N : N + 1 - k \in 1..N /\ N + 1 - (N + 1 - k) = k
  BY <1>1
<1>6. DOMAIN l = 1..N /\ \A k \in 1..N : l[k] = f[N + 1 - k] /\ l[k] \in S
  BY <1>2, <1>4, <1>5
<1>7. \A j, k \in 1..N : l[j] = l[k] => j = k
  <2> SUFFICES ASSUME NEW j \in 1..N, NEW k \in 1..N, l[j] = l[k] PROVE j = k
    OBVIOUS
  <2>1. N + 1 - j = N + 1 - k
    BY <1>2, <1>5, <1>6
  <2> QED BY <1>1, <2>1
<1>8. \A i \in S : \E k \in 1..N : l[k] = i
  <2> SUFFICES ASSUME NEW i \in S PROVE \E k \in 1..N : l[k] = i
    OBVIOUS
  <2> PICK k \in 1..N : f[k] = i
    BY <1>3
  <2>1. N + 1 - k \in 1..N /\ l[N + 1 - k] = f[k]
    BY <1>5, <1>6
  <2> QED BY <2>1
<1>9. LastFirst(S) \in Seq(S)
  BY LastFirstPositions
<1>10. ToSet(l) = S
  <2>1. ToSet(l) = {l[k] : k \in 1..N}
    BY <1>6 DEF ToSet
  <2> QED BY <2>1, <1>6, <1>8
<1>11. l \in Seq(S)
  BY <1>9 DEF l
<1>12. \A j, k \in DOMAIN l : l[j] = l[k] => j = k
  BY <1>6, <1>7
<1> QED BY <1>10, <1>11, <1>12 DEF l

-----------------------------------------------------------------------------
\* A list of pairs in which each of A is paired with one of B, of its type.
IsMatching(old, new, A, B, pairs) ==
  /\ pairs \in Seq(A \X B)
  /\ \A m, n \in DOMAIN pairs : pairs[m][1] = pairs[n][1] \/ pairs[m][2] = pairs[n][2] => m = n
  /\ \A a \in A : \E n \in DOMAIN pairs : pairs[n][1] = a
  /\ \A b \in B : \E n \in DOMAIN pairs : pairs[n][2] = b
  /\ \A n \in DOMAIN pairs : old[pairs[n][1]].type = new[pairs[n][2]].type

\* The empty list pairs nothing.
LEMMA NoMatching ==
  ASSUME NEW old, NEW new
  PROVE  IsMatching(old, new, {}, {}, <<>>)
<1>1. <<>> \in Seq({} \X {}) /\ DOMAIN <<>> = {}
  OBVIOUS
<1> QED BY <1>1 DEF IsMatching

\* One pair.
LEMMA OneMatching ==
  ASSUME NEW old, NEW new, NEW a, NEW b, old[a].type = new[b].type
  PROVE  IsMatching(old, new, {a}, {b}, <<<<a, b>>>>)
<1> DEFINE s == <<<<a, b>>>>
<1>1. s \in Seq({a} \X {b}) /\ DOMAIN s = {1} /\ s[1] = <<a, b>>
  OBVIOUS
<1> HIDE DEF s
<1> QED BY <1>1 DEF IsMatching, s

\* Two of different details, one after the other.
LEMMA TwoMatchings ==
  ASSUME NEW old, NEW new, NEW A, NEW B, NEW p, IsMatching(old, new, A, B, p),
         NEW C, NEW D, NEW q, IsMatching(old, new, C, D, q), A \cap C = {}, B \cap D = {}
  PROVE  IsMatching(old, new, A \cup C, B \cup D, p \o q)
<1> DEFINE u == p \o q
           P == (A \cup C) \X (B \cup D)
<1>1. p \in Seq(A \X B) /\ q \in Seq(C \X D)
  BY DEF IsMatching
<1>2. p \in Seq(P) /\ q \in Seq(P)
  <2>1. A \X B \subseteq P /\ C \X D \subseteq P
    OBVIOUS
  <2> HIDE DEF P
  <2> QED BY <1>1, <2>1, WiderList
<1>3. /\ u \in Seq(P)
      /\ \A k \in DOMAIN p : k \in DOMAIN u /\ u[k] = p[k]
      /\ \A k \in DOMAIN q : k + Len(p) \in DOMAIN u /\ u[k + Len(p)] = q[k]
      /\ \A k \in DOMAIN u : k \in DOMAIN p \/ (k - Len(p) \in DOMAIN q /\ u[k] = q[k - Len(p)])
      /\ Len(p) \in Nat /\ DOMAIN u \subseteq Nat
  <2> HIDE DEF P
  <2>1. u \in Seq(P) /\ Len(u) = Len(p) + Len(q) /\ Len(p) \in Nat /\ Len(q) \in Nat
        /\ DOMAIN u = 1..Len(u) /\ DOMAIN p = 1..Len(p) /\ DOMAIN q = 1..Len(q)
    BY <1>2
  <2>2. \A k \in 1..Len(u) : u[k] = IF k <= Len(p) THEN p[k] ELSE q[k - Len(p)]
    BY <1>2
  <2> HIDE DEF u
  <2> QED BY <2>1, <2>2
<1>4. \A k \in DOMAIN p : p[k][1] \in A /\ p[k][2] \in B
  BY <1>1
<1>5. \A k \in DOMAIN q : q[k][1] \in C /\ q[k][2] \in D
  BY <1>1
<1> HIDE DEF u, P
<1>6. ASSUME NEW m \in DOMAIN u, NEW n \in DOMAIN u, u[m][1] = u[n][1] \/ u[m][2] = u[n][2] PROVE m = n
  <2>1. CASE m \in DOMAIN p /\ n \in DOMAIN p
    BY <1>3, <1>6, <2>1 DEF IsMatching
  <2>2. CASE m \in DOMAIN p /\ n - Len(p) \in DOMAIN q /\ u[n] = q[n - Len(p)]
    BY <1>3, <1>4, <1>5, <1>6, <2>2
  <2>3. CASE n \in DOMAIN p /\ m - Len(p) \in DOMAIN q /\ u[m] = q[m - Len(p)]
    BY <1>3, <1>4, <1>5, <1>6, <2>3
  <2>4. CASE m - Len(p) \in DOMAIN q /\ u[m] = q[m - Len(p)] /\ n - Len(p) \in DOMAIN q /\ u[n] = q[n - Len(p)]
    <3>1. m - Len(p) = n - Len(p)
      BY <1>6, <2>4 DEF IsMatching
    <3> QED BY <1>3, <3>1
  <2> QED BY <1>3, <2>1, <2>2, <2>3, <2>4
<1>7. \A a \in A \cup C : \E n \in DOMAIN u : u[n][1] = a
  BY <1>3 DEF IsMatching
<1>8. \A b \in B \cup D : \E n \in DOMAIN u : u[n][2] = b
  BY <1>3 DEF IsMatching
<1>9. \A n \in DOMAIN u : old[u[n][1]].type = new[u[n][2]].type
  <2> DEFINE fits(x) == old[x[1]].type = new[x[2]].type
  <2>1. \A n \in DOMAIN p : fits(p[n])
    BY DEF IsMatching
  <2>2. \A n \in DOMAIN q : fits(q[n])
    BY DEF IsMatching
  <2> SUFFICES ASSUME NEW n \in DOMAIN u PROVE fits(u[n])
    OBVIOUS
  <2> HIDE DEF fits
  <2>3. CASE n \in DOMAIN p
    BY <1>3, <2>1, <2>3
  <2>4. CASE n - Len(p) \in DOMAIN q /\ u[n] = q[n - Len(p)]
    BY <2>2, <2>4
  <2> QED BY <1>3, <2>3, <2>4
<1>10. u \in Seq((A \cup C) \X (B \cup D))
  BY <1>3 DEF P
<1>11. IsMatching(old, new, A \cup C, B \cup D, u)
  BY <1>6, <1>7, <1>8, <1>9, <1>10 DEF IsMatching
<1> QED BY <1>11 DEF u

-----------------------------------------------------------------------------
\* Scores: a type has finitely many fields, so some two details are closest.

-----------------------------------------------------------------------------
(***************************************************************************)
(* A type has finitely many fields, so details can be scored.              *)
(***************************************************************************)

\* A list has finitely many elements.
LEMMA ListedFinite ==
  ASSUME NEW k \in Nat, NEW s, DOMAIN s = 1..k
  PROVE  IsFiniteSet(ToSet(s))
<1> DEFINE f == [i \in 1..k |-> s[i]]
<1>1. f \in Surjection(1..k, ToSet(s))
  <2>1. f \in [1..k -> ToSet(s)]
    BY DEF ToSet
  <2>2. \A v \in ToSet(s) : \E i \in 1..k : f[i] = v
    BY DEF ToSet
  <2> HIDE DEF f
  <2> QED BY <2>1, <2>2 DEF Surjection
<1>2. IsFiniteSet(1..k)
  BY FS_Interval
<1> HIDE DEF f
<1> QED BY <1>1, <1>2, FS_Surjection

\* The number of columns of a table.
Columned(i, k) == DOMAIN detailInfo[i][2] = 1..k

\* Each table has finitely many.
LEMMA TablesFinite == \A i \in 1..26 : \E k \in Nat : Columned(i, k)
<1>1. Columned(1, 7)
  BY DEF Columned, detailInfo, Addresses
<1>2. Columned(2, 4)
  BY DEF Columned, detailInfo, Anniversaries
<1>3. Columned(3, 3)
  BY DEF Columned, detailInfo, Avatars
<1>4. Columned(4, 2)
  BY DEF Columned, detailInfo, Birthdays
<1>5. Columned(5, 3)
  BY DEF Columned, detailInfo, DisplayLabels
<1>6. Columned(6, 2)
  BY DEF Columned, detailInfo, EmailAddresses
<1>7. Columned(7, 2)
  BY DEF Columned, detailInfo, Families
<1>8. Columned(8, 1)
  BY DEF Columned, detailInfo, Favorites
<1>9. Columned(9, 1)
  BY DEF Columned, detailInfo, Genders
<1>10. Columned(10, 9)
  BY DEF Columned, detailInfo, GeoLocations
<1>11. Columned(11, 1)
  BY DEF Columned, detailInfo, Guids
<1>12. Columned(12, 1)
  BY DEF Columned, detailInfo, Hobbies
<1>13. Columned(13, 8)
  BY DEF Columned, detailInfo, Names
<1>14. Columned(14, 2)
  BY DEF Columned, detailInfo, Nicknames
<1>15. Columned(15, 1)
  BY DEF Columned, detailInfo, Notes
<1>16. Columned(16, 11)
  BY DEF Columned, detailInfo, OnlineAccounts
<1>17. Columned(17, 7)
  BY DEF Columned, detailInfo, Organizations
<1>18. Columned(18, 3)
  BY DEF Columned, detailInfo, PhoneNumbers
<1>19. Columned(19, 6)
  BY DEF Columned, detailInfo, Presences
<1>20. Columned(20, 3)
  BY DEF Columned, detailInfo, Ringtones
<1>21. Columned(21, 1)
  BY DEF Columned, detailInfo, SyncTargets
<1>22. Columned(22, 1)
  BY DEF Columned, detailInfo, Tags
<1>23. Columned(23, 2)
  BY DEF Columned, detailInfo, Urls
<1>24. Columned(24, 3)
  BY DEF Columned, detailInfo, OriginMetadata
<1>25. Columned(25, 6)
  BY DEF Columned, detailInfo, GlobalPresences
<1>26. Columned(26, 2)
  BY DEF Columned, detailInfo, ExtendedDetails
<1> SUFFICES ASSUME NEW i \in 1..26 PROVE \E k \in Nat : Columned(i, k)
  OBVIOUS
<1>27. \/ i = 1 \/ i = 2 \/ i = 3 \/ i = 4 \/ i = 5 \/ i = 6 \/ i = 7 \/ i = 8 \/ i = 9
       \/ i = 10 \/ i = 11 \/ i = 12 \/ i = 13 \/ i = 14 \/ i = 15 \/ i = 16 \/ i = 17 \/ i = 18
       \/ i = 19 \/ i = 20 \/ i = 21 \/ i = 22 \/ i = 23 \/ i = 24 \/ i = 25 \/ i = 26
  OBVIOUS
<1> QED BY <1>1, <1>2, <1>3, <1>4, <1>5, <1>6, <1>7, <1>8, <1>9, <1>10, <1>11, <1>12, <1>13, <1>14,
     <1>15, <1>16, <1>17, <1>18, <1>19, <1>20, <1>21, <1>22, <1>23, <1>24, <1>25, <1>26, <1>27

\* And each type finitely many fields.
LEMMA FinitelyManyFields ==
  ASSUME NEW t \in TypeNames
  PROVE  IsFiniteSet(Info[t].fields)
<1> DEFINE i == PlaceOf(t)
           columns == detailInfo[i][2]
           bound == detailInfo[i][3]
<1>1. i \in 1..26 /\ Info[t].fields = FieldsOf(bound)
  BY InfoOf
<1>2. Agree(i) /\ \E k \in Nat : Columned(i, k)
  BY <1>1, Tables, TablesFinite
<1>3. DOMAIN bound = ToSet(columns)
  BY <1>2 DEF Agree
<1>4. PICK k \in Nat : DOMAIN columns = 1..k
  BY <1>2 DEF Columned
<1> HIDE DEF i, columns, bound
<1>5. IsFiniteSet(DOMAIN bound)
  BY <1>3, <1>4, ListedFinite
<1>6. IsFiniteSet(Common)
  <2> DEFINE s == <<"detailUri", "linkedDetailUris", "contexts">>
  <2>1. DOMAIN s = 1..3 /\ ToSet(s) = Common
    <3>1. DOMAIN s = 1..3
      OBVIOUS
    <3>2. ToSet(s) = {s[1], s[2], s[3]}
      BY <3>1 DEF ToSet
    <3> QED BY <3>1, <3>2 DEF Common
  <2> HIDE DEF s
  <2> QED BY <2>1, ListedFinite
<1>7. FieldsOf(bound) \in SUBSET (Common \cup DOMAIN bound)
  BY DEF FieldsOf
<1>8. IsFiniteSet(Common \cup DOMAIN bound)
  BY <1>5, <1>6, FS_Union
<1>9. IsFiniteSet(FieldsOf(bound))
  BY <1>7, <1>8, FS_Subset
<1> QED BY <1>1, <1>9

\* So the fields two details differ in can be counted.
LEMMA ScoreIsNumber ==
  ASSUME NEW t \in TypeNames, NEW a, DOMAIN a.has = Info[t].fields, NEW b
  PROVE  scoreForDetailPair(a, b) \in Nat
<1> DEFINE X == {f \in DOMAIN a.has : ~SameValue({"text"}, a.type, f, a.has[f], b.has[f])}
           Y == {f \in {"created", "modified"} : a[f] # b[f]}
<1>1. X \in SUBSET Info[t].fields /\ IsFiniteSet(Info[t].fields)
  BY FinitelyManyFields
<1>2. IsFiniteSet(X)
  <2> HIDE DEF X
  <2> QED BY <1>1, FS_Subset
<1>3. IsFiniteSet({"created", "modified"})
  <2> DEFINE s == <<"created", "modified">>
  <2>1. DOMAIN s = 1..2 /\ ToSet(s) = {"created", "modified"}
    <3>1. DOMAIN s = 1..2
      OBVIOUS
    <3>2. ToSet(s) = {s[1], s[2]}
      BY <3>1 DEF ToSet
    <3> QED BY <3>1, <3>2
  <2> HIDE DEF s
  <2> QED BY <2>1, ListedFinite
<1>4. Y \in SUBSET {"created", "modified"}
  OBVIOUS
<1>5. IsFiniteSet(Y)
  <2> HIDE DEF Y
  <2> QED BY <1>3, <1>4, FS_Subset
<1>6. scoreForDetailPair(a, b) = Cardinality(X) + Cardinality(Y)
  BY DEF scoreForDetailPair
<1> HIDE DEF X, Y
<1>7. Cardinality(X) \in Nat /\ Cardinality(Y) \in Nat
  BY <1>2, <1>5, FS_CardinalityType
<1> QED BY <1>6, <1>7

\* As long as two of a type are left, there are a closest two.
LEMMA ClosestTyped ==
  ASSUME NEW old, NEW new, NEW left, NEW p \in Closest(old, new, left)
  PROVE  old[p[1]].type = new[p[2]].type
BY DEF Closest

\* When there are not, no two of one type are left.
LEMMA NoneOfAType ==
  ASSUME NEW T, T \subseteq TypeNames, NEW old \in Seq(DetailSet(T)), NEW new,
         NEW left \in Left(old, new), Closest(old, new, left) = {}
  PROVE  \A i \in left[1], j \in left[2] : old[i].type # new[j].type
<1> SUFFICES ASSUME NEW i \in left[1], NEW j \in left[2], old[i].type = new[j].type PROVE FALSE
  OBVIOUS
<1> DEFINE pairs == {p \in left[1] \X left[2] : old[p[1]].type = new[p[2]].type}
           Score(p) == scoreForDetailPair(old[p[1]], new[p[2]])
           scores == {Score(p) : p \in pairs}
<1>1. <<i, j>> \in pairs
  OBVIOUS
<1>2. \A p \in pairs : Score(p) \in Nat
  <2> SUFFICES ASSUME NEW p \in pairs PROVE Score(p) \in Nat
    OBVIOUS
  <2>1. p[1] \in DOMAIN old
    BY DEF Left
  <2>2. old[p[1]] \in DetailSet(T)
    BY <2>1
  <2>3. PICK t \in T : old[p[1]] \in DetailsOf(t)
    BY <2>2 DEF DetailSet
  <2>4. t \in TypeNames /\ DOMAIN old[p[1]].has = Info[t].fields
    BY <2>3 DEF DetailsOf, TypedValues
  <2> HIDE DEF pairs
  <2> QED BY <2>4, ScoreIsNumber
<1> HIDE DEF pairs, Score
<1>3. PICK least \in scores : \A s \in scores : least <= s
  <2>1. scores \subseteq Nat /\ scores # {}
    BY <1>1, <1>2
  <2> HIDE DEF scores
  <2> QED BY <2>1, Least
<1>4. PICK p \in pairs : least = Score(p)
  OBVIOUS
<1>5. \A q \in pairs : Score(p) <= Score(q)
  BY <1>3, <1>4
<1>6. Closest(old, new, left) = {x \in pairs : \A q \in pairs : Score(x) <= Score(q)}
  BY DEF Closest, pairs, Score
<1> QED BY <1>4, <1>5, <1>6

-----------------------------------------------------------------------------
\* Pairing by id, and pairing what is left, until no two of one type are left.

\* So far each detail that is not left any more is in one pair.
IsLeft(old, new, left) ==
  LET U == Unmatched(old, new)
  IN  /\ left.old \subseteq U.old /\ left.new \subseteq U.new
      /\ IsMatching(old, new, U.old \ left.old, U.new \ left.new, left.pairs)

\* It holds before any is paired.
LEMMA UnmatchedIsLeft ==
  ASSUME NEW old, NEW new
  PROVE  IsLeft(old, new, Unmatched(old, new))
<1> DEFINE U == Unmatched(old, new)
<1>1. U.pairs = <<>> /\ U.old \ U.old = {} /\ U.new \ U.new = {}
  BY DEF Unmatched
<1> HIDE DEF U
<1>2. IsMatching(old, new, U.old \ U.old, U.new \ U.new, U.pairs)
  BY <1>1, NoMatching
<1> QED BY <1>2 DEF IsLeft, U

\* After each pair by id.
LEMMA PairByIdIsLeft ==
  ASSUME NEW S, NEW old, NEW new \in Seq(S), NEW i, NEW left, IsLeft(old, new, left)
  PROVE  IsLeft(old, new, PairById(old, new, i, left))
<1> DEFINE U == Unmatched(old, new)
           same == {j \in left.new : /\ i \in left.old /\ old[i].id > 0
                                     /\ new[j].id = old[i].id /\ new[j].type = old[i].type}
           last == CHOOSE j \in same : \A k \in same : k <= j
           next == PairById(old, new, i, left)
<1>1. U.new \subseteq 1..Len(new) /\ Len(new) \in Nat
  BY DEF Unmatched
<1>2. next = IF same = {} THEN left
             ELSE [old |-> left.old \ {i}, new |-> left.new \ {last}, pairs |-> Append(left.pairs, <<i, last>>)]
  BY DEF PairById
<1>3. CASE same = {}
  BY <1>2, <1>3
<1>4. CASE same # {}
  <2> DEFINE A == U.old \ left.old
             B == U.new \ left.new
  <2>0. left.old \subseteq U.old /\ left.new \subseteq U.new /\ IsMatching(old, new, A, B, left.pairs)
    BY DEF IsLeft
  <2>1. same \subseteq 1..Len(new) /\ i \in left.old
    BY <1>1, <1>4, <2>0
  <2>2. \E j \in same : \A k \in same : k <= j
    <3> HIDE DEF same
    <3> QED BY <1>1, <1>4, <2>1, Greatest
  <2>3. last \in same
    BY <2>2
  <2>4. last \in left.new /\ old[i].type = new[last].type
    BY <2>3
  <2>5. next.old = left.old \ {i} /\ next.new = left.new \ {last} /\ next.pairs = Append(left.pairs, <<i, last>>)
    BY <1>2, <1>4
  <2> HIDE DEF same, last, next, U, A, B
  <2>6. IsMatching(old, new, {i}, {last}, <<<<i, last>>>>)
    BY <2>4, OneMatching
  <2>7. A \cap {i} = {} /\ B \cap {last} = {}
    BY <2>1, <2>4 DEF A, B
  <2>8. IsMatching(old, new, A \cup {i}, B \cup {last}, left.pairs \o <<<<i, last>>>>)
    BY <2>0, <2>6, <2>7, TwoMatchings
  <2>9. next.pairs = left.pairs \o <<<<i, last>>>>
    <3> DEFINE P == (A \cup {i}) \X (B \cup {last})
               x == <<i, last>>
    <3>1. left.pairs \in Seq(A \X B) /\ A \X B \subseteq P /\ x \in P
      BY <2>0 DEF IsMatching
    <3> HIDE DEF P, x
    <3>2. left.pairs \in Seq(P)
      BY <3>1, WiderList
    <3>3. Append(left.pairs, x) = left.pairs \o <<x>>
      BY <3>1, <3>2, AppendIsConcat
    <3> QED BY <2>5, <3>3 DEF x
  <2>10. U.old \ next.old = A \cup {i} /\ U.new \ next.new = B \cup {last}
    BY <2>0, <2>1, <2>4, <2>5 DEF A, B
  <2>11. IsMatching(old, new, U.old \ next.old, U.new \ next.new, next.pairs)
    BY <2>8, <2>9, <2>10
  <2>12. next.old \subseteq U.old /\ next.new \subseteq U.new
    BY <2>0, <2>5
  <2> QED BY <2>11, <2>12 DEF IsLeft, U, next
<1> QED BY <1>3, <1>4

\* And after all of them.
LEMMA PairedIsLeft ==
  ASSUME NEW S, NEW old \in Seq(S), NEW new \in Seq(S)
  PROVE  IsLeft(old, new, PairedById(old, new))
<1> DEFINE u == Unmatched(old, new)
           V == Lefts(UnmatchedOld(old, new), new)
           T == {left \in V : IsLeft(old, new, left)}
<1>1. Unmatched(old, new) \in T
  BY UnmatchedIsLeft, UnmatchedLefts
<1>2. \A i : \A left \in T : PairById(old, new, i, left) \in T
  BY PairByIdIsLeft, PairByIdLefts
<1> HIDE DEF T
<1>3. PairedById(old, new) \in T
  BY <1>1, <1>2, PairedHolds
<1> QED BY <1>3 DEF T

-----------------------------------------------------------------------------
\* Pairs of details that are left, until no two of one type are left.
Exhausts(old, new, left, A, B, pairs) ==
  /\ A \subseteq left[1] /\ B \subseteq left[2]
  /\ IsMatching(old, new, A, B, pairs)
  /\ \A i \in left[1] \ A, j \in left[2] \ B : old[i].type # new[j].type

\* A closest two, and pairs that exhaust the rest.
LEMMA MoreExhausts ==
  ASSUME NEW old, NEW new, NEW x, NEW p \in Closest(old, new, x),
         NEW A, NEW B, NEW rest, Exhausts(old, new, Rest(x, p), A, B, rest)
  PROVE  Exhausts(old, new, x, {p[1]} \cup A, {p[2]} \cup B, <<p>> \o rest)
<1>1. p \in x[1] \X x[2] /\ old[p[1]].type = new[p[2]].type
  BY DEF Closest
<1>2. p = <<p[1], p[2]>> /\ p[1] \in x[1] /\ p[2] \in x[2]
  BY <1>1
<1>3. Rest(x, p)[1] = x[1] \ {p[1]} /\ Rest(x, p)[2] = x[2] \ {p[2]}
  BY DEF Rest
<1>4. /\ A \subseteq x[1] \ {p[1]} /\ B \subseteq x[2] \ {p[2]}
      /\ IsMatching(old, new, A, B, rest)
      /\ \A i \in (x[1] \ {p[1]}) \ A, j \in (x[2] \ {p[2]}) \ B : old[i].type # new[j].type
  BY <1>3 DEF Exhausts
<1>5. IsMatching(old, new, {p[1]}, {p[2]}, <<<<p[1], p[2]>>>>)
  BY <1>1, OneMatching
<1>6. IsMatching(old, new, {p[1]}, {p[2]}, <<p>>)
  BY <1>2, <1>5
<1>7. {p[1]} \cap A = {} /\ {p[2]} \cap B = {}
  BY <1>4
<1>8. IsMatching(old, new, {p[1]} \cup A, {p[2]} \cup B, <<p>> \o rest)
  BY <1>4, <1>6, <1>7, TwoMatchings
<1>9. {p[1]} \cup A \subseteq x[1] /\ {p[2]} \cup B \subseteq x[2]
  BY <1>2, <1>4
<1>10. x[1] \ ({p[1]} \cup A) = (x[1] \ {p[1]}) \ A /\ x[2] \ ({p[2]} \cup B) = (x[2] \ {p[2]}) \ B
  OBVIOUS
<1>11. \A i \in x[1] \ ({p[1]} \cup A), j \in x[2] \ ({p[2]} \cup B) : old[i].type # new[j].type
  BY <1>4, <1>10
<1> QED BY <1>8, <1>9, <1>11 DEF Exhausts

\* determineModifications pairs in that way.
LEMMA ModificationsExhaust ==
  ASSUME NEW T, T \subseteq TypeNames, NEW old \in Seq(DetailSet(T)), NEW new, NEW left \in Left(old, new),
         NEW more \in determineModifications(old, new)[left]
  PROVE  \E A, B : Exhausts(old, new, left, A, B, more)
<1> DEFINE Done(x, m) == \E A, B : Exhausts(old, new, x, A, B, m)
           f == determineModifications(old, new)
           good == {x \in Left(old, new) : \A m \in f[x] : Done(x, m)}
<1>1. ASSUME NEW x \in Left(old, new), \A p \in Closest(old, new, x) : Rest(x, p) \in good PROVE x \in good
  <2> SUFFICES ASSUME NEW m \in f[x] PROVE Done(x, m)
    OBVIOUS
  <2>1. ASSUME Closest(old, new, x) = {}, m = <<>> PROVE Done(x, m)
    <3>1. \A i \in x[1], j \in x[2] : old[i].type # new[j].type
      BY <2>1, NoneOfAType
    <3>2. Exhausts(old, new, x, {}, {}, <<>>)
      BY <3>1, NoMatching DEF Exhausts
    <3> QED BY <2>1, <3>2
  <2>2. ASSUME NEW p \in Closest(old, new, x), NEW rest \in f[Rest(x, p)], m = <<p>> \o rest
        PROVE  Done(x, m)
    <3>1. Done(Rest(x, p), rest)
      BY <1>1, <2>2
    <3>2. PICK A, B : Exhausts(old, new, Rest(x, p), A, B, rest)
      BY <3>1
    <3>3. Exhausts(old, new, x, {p[1]} \cup A, {p[2]} \cup B, <<p>> \o rest)
      BY <3>2, MoreExhausts
    <3> QED BY <2>2, <3>3
  <2>3. IsNextModification(old, new, x, m)
    <3>1. m \in determineModifications(old, new)[x]
      OBVIOUS
    <3> QED BY <3>1, ModificationsAre
  <2> HIDE DEF Done
  <2> QED BY <2>1, <2>2, <2>3 DEF IsNextModification
<1> HIDE DEF good
<1>2. left \in good
  BY <1>1, LeftHolds
<1> QED BY <1>2 DEF good

-----------------------------------------------------------------------------
\* A delta is exact.

\* Of the details that no new one, or no old one, takes as unchanged, each old
\* one is deleted or becomes one new one of its type, in its row, each new one
\* is added or the new version of one old one, and nothing is deleted and added
\* that could have been modified.
Becomes(old, new, delta, was) ==
  LET changed == DOMAIN delta.modifications
      at(n) == delta.modifications[n].at
  IN  /\ \A m, n \in changed : was[m] = was[n] \/ at(m) = at(n) => m = n
      /\ \A n \in changed : /\ old[was[n]].type = new[at(n)].type
                            /\ delta.modifications[n].id = constructModification(old[was[n]], new[at(n)])
                            /\ was[n] \in Unmatched(old, new).old /\ at(n) \in Unmatched(old, new).new
      /\ ToSet(delta.deletions) = Unmatched(old, new).old \ {was[n] : n \in changed}
      /\ ToSet(delta.additions) = Unmatched(old, new).new \ {at(n) : n \in changed}

\* A list without repetitions.
Once(list) == \A m, n \in DOMAIN list : list[m] = list[n] => m = n

\* What determineContactDetailDelta is to return.
IsExact(old, new, delta) ==
  /\ \E was : Becomes(old, new, delta, was)
  /\ Once(delta.deletions) /\ Once(delta.additions)
  /\ \A i \in ToSet(delta.deletions), j \in ToSet(delta.additions) : old[i].type # new[j].type

\* Every delta is exact, whatever the two lists and however alike their details:
\* no detail is forgotten, written twice or both deleted and modified, a new
\* version goes to the row of an old detail of its type, and no detail is added
\* while one of its type is deleted (determineContactDetailDelta, improveDelta).
THEOREM DeltaIsExact ==
  ASSUME NEW T, T \subseteq TypeNames, NEW old \in Seq(DetailSet(T)), NEW new \in Seq(DetailSet(T)),
         NEW delta \in determineContactDetailDelta(old, new)
  PROVE  IsExact(old, new, delta)
<1> DEFINE U == Unmatched(old, new)
           byId == PairedById(old, new)
           Paired(pairs, k) == {pairs[n][k] : n \in DOMAIN pairs}
           change(p) == [at |-> p[2], id |-> constructModification(old[p[1]], new[p[2]])]
           Mods(pairs) == [n \in DOMAIN pairs |-> change(pairs[n])]
<1>1. /\ byId.old \subseteq U.old /\ byId.new \subseteq U.new
      /\ IsMatching(old, new, U.old \ byId.old, U.new \ byId.new, byId.pairs)
  BY PairedIsLeft DEF IsLeft
<1>2. U.old \subseteq 1..Len(old) /\ U.new \subseteq 1..Len(new) /\ Len(old) \in Nat /\ Len(new) \in Nat
  BY DEF Unmatched
<1>3. PICK more \in determineModifications(old, new)[<<byId.old, byId.new>>] :
        delta = [modifications |-> Mods(byId.pairs \o more),
                 deletions |-> LastFirst(byId.old \ Paired(byId.pairs \o more, 1)),
                 additions |-> LastFirst(byId.new \ Paired(byId.pairs \o more, 2))]
  BY DEF determineContactDetailDelta
<1> DEFINE pairs == byId.pairs \o more
           gone == byId.old \ Paired(pairs, 1)
           come == byId.new \ Paired(pairs, 2)
<1>4. delta.modifications = Mods(pairs) /\ delta.deletions = LastFirst(gone) /\ delta.additions = LastFirst(come)
  BY <1>3
<1> HIDE DEF U, byId
<1>5. \E A, B : Exhausts(old, new, <<byId.old, byId.new>>, A, B, more)
  <2>1. <<byId.old, byId.new>> \in Left(old, new)
    BY <1>1, <1>2 DEF Left
  <2> QED BY <2>1, ModificationsExhaust
<1>6. PICK A, B : Exhausts(old, new, <<byId.old, byId.new>>, A, B, more)
  BY <1>5
<1>7. /\ A \subseteq byId.old /\ B \subseteq byId.new /\ IsMatching(old, new, A, B, more)
      /\ \A i \in byId.old \ A, j \in byId.new \ B : old[i].type # new[j].type
  BY <1>6 DEF Exhausts
<1> DEFINE C == (U.old \ byId.old) \cup A
           D == (U.new \ byId.new) \cup B
<1>8. IsMatching(old, new, C, D, pairs)
  BY <1>1, <1>7, TwoMatchings
<1> HIDE DEF pairs, gone, come, Paired
<1>9. C \subseteq U.old /\ D \subseteq U.new
  BY <1>1, <1>7
<1>10. pairs \in Seq(C \X D) /\ \A n \in DOMAIN pairs : pairs[n][1] \in C /\ pairs[n][2] \in D
  BY <1>8 DEF IsMatching
<1>11. Paired(pairs, 1) = C /\ Paired(pairs, 2) = D
  <2>1. \A a \in C : \E n \in DOMAIN pairs : pairs[n][1] = a
    BY <1>8 DEF IsMatching
  <2>2. \A b \in D : \E n \in DOMAIN pairs : pairs[n][2] = b
    BY <1>8 DEF IsMatching
  <2> HIDE DEF C, D
  <2>3. Paired(pairs, 1) = {pairs[n][1] : n \in DOMAIN pairs} /\ Paired(pairs, 2) = {pairs[n][2] : n \in DOMAIN pairs}
    BY DEF Paired
  <2>4. Paired(pairs, 1) = C
    BY <1>10, <2>1, <2>3
  <2>5. Paired(pairs, 2) = D
    BY <1>10, <2>2, <2>3
  <2> QED BY <2>4, <2>5
<1>12. gone = byId.old \ A /\ come = byId.new \ B
  BY <1>7, <1>11 DEF gone, come
<1>13. gone = U.old \ C /\ come = U.new \ D
  BY <1>1, <1>12
<1>14. ToSet(delta.deletions) = gone /\ Once(delta.deletions)
  <2>1. gone \subseteq 1..Len(old)
    BY <1>2, <1>13
  <2> QED BY <1>2, <1>4, <2>1, LastFirstIsList DEF Once
<1>15. ToSet(delta.additions) = come /\ Once(delta.additions)
  <2>1. come \subseteq 1..Len(new)
    BY <1>2, <1>13
  <2> QED BY <1>2, <1>4, <2>1, LastFirstIsList DEF Once
<1>16. \A i \in ToSet(delta.deletions), j \in ToSet(delta.additions) : old[i].type # new[j].type
  BY <1>7, <1>12, <1>14, <1>15
<1> DEFINE was == [n \in DOMAIN pairs |-> pairs[n][1]]
           m(n) == delta.modifications[n]
<1>17. /\ DOMAIN delta.modifications = DOMAIN pairs
       /\ \A n \in DOMAIN pairs : /\ was[n] = pairs[n][1] /\ m(n).at = pairs[n][2]
                                  /\ m(n).id = constructModification(old[pairs[n][1]], new[pairs[n][2]])
  BY <1>4
<1> HIDE DEF C, D, was
<1>18. \A i, j \in DOMAIN pairs : was[i] = was[j] \/ m(i).at = m(j).at => i = j
  BY <1>8, <1>17 DEF IsMatching
<1>19. \A n \in DOMAIN pairs :
         /\ old[was[n]].type = new[m(n).at].type
         /\ m(n).id = constructModification(old[was[n]], new[m(n).at])
         /\ was[n] \in U.old /\ m(n).at \in U.new
  <2> SUFFICES ASSUME NEW n \in DOMAIN pairs
               PROVE  /\ old[was[n]].type = new[m(n).at].type
                      /\ m(n).id = constructModification(old[was[n]], new[m(n).at])
                      /\ was[n] \in U.old /\ m(n).at \in U.new
    OBVIOUS
  <2>1. old[pairs[n][1]].type = new[pairs[n][2]].type
    BY <1>8 DEF IsMatching
  <2> QED BY <1>9, <1>10, <1>17, <2>1
<1>20. C = {was[n] : n \in DOMAIN pairs} /\ D = {m(n).at : n \in DOMAIN pairs}
  BY <1>11, <1>17 DEF Paired
<1>21. Becomes(old, new, delta, was)
  BY <1>13, <1>14, <1>15, <1>17, <1>18, <1>19, <1>20 DEF Becomes, U
<1> QED BY <1>14, <1>15, <1>16, <1>21 DEF IsExact
=============================================================================
