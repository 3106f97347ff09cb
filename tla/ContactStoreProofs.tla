-------------------------- MODULE ContactStoreProofs --------------------------
(***************************************************************************)
(* Theorems about ContactStore, for any number of writers, collections and *)
(* contacts: no local change is lost but through the two ways that taint a *)
(* contact, sync never sees its own writes as local changes, and a deleted *)
(* contact is purged only when its deletion is known.                      *)
(***************************************************************************)
EXTENDS ContactStore, TLAPS

Known(i) == contactState[i] # "unused"

\* What a request names exists, and so does the collection of a contact.
References ==
  /\ \A i \in Contact : Known(i) =>
        collectionId[i] \in Collection /\ collectionState[collectionId[i]] # "unused"
  /\ \A w \in Writer : request[w] # NoRequest =>
        /\ collectionState[request[w].collection] # "unused"
        /\ \A i \in request[w].contacts : Known(i) /\ collectionId[i] = request[w].collection

\* A contact that was never inserted has no history.
Unwritten == \A i \in Contact : ~Known(i) => fresh[i] = {} /\ reported[i] = {}

\* A fetched collection records unhandled changes.
Recording == \A c \in Collection : phase[c] = "fetched" => recordUnhandled[c]

\* The contacts the guarantee covers.
Covered(i) ==
  Known(i) /\ Present(collectionId[i]) /\ i \notin remotelyDeleted \cup tainted

\* Between fetch and clear, what changed since the fetch is marked unhandled,
\* and a contact that was deleted before it has not changed since: that is
\* what lets clearing keep the former and purge the latter.
FetchedPart(i) ==
  phase[collectionId[i]] = "fetched" =>
    /\ fresh[i] \subseteq unhandledChangeFlags[i]
    /\ Deleted(i) /\ IsDeleted \notin fresh[i] => fresh[i] = {}

FlaggedPart(i) == Owed(i) # {} => Exists(i) /\ Owed(i) \subseteq changeFlags[i]

Guarantee == \A i \in Contact : Covered(i) => FetchedPart(i) /\ FlaggedPart(i)

\* No flag without a local change, other than that of a deletion.
Echoless ==
  \A i \in Contact :
    /\ changeFlags[i] \ {IsDeleted} \subseteq Owed(i)
    /\ unhandledChangeFlags[i] \ {IsDeleted} \subseteq fresh[i]

\* The inductive invariant.
IInv == TypeOK /\ References /\ Unwritten /\ Recording /\ Guarantee /\ Echoless

LEMMA Initially == Init => IInv
BY CollectionAssumption
   DEF Init, IInv, TypeOK, RowStates, References, Known, Unwritten, Recording, Guarantee, Covered,
       Echoless, Owed

(***************************************************************************)
(* The requests: they change nothing but request.                          *)
(***************************************************************************)
LEMMA BeginSaveStep ==
  ASSUME IInv, NEW w \in Writer, NEW c \in Collection, BeginSave(w, c)
  PROVE  IInv'
<1> USE DEF IInv
<1>1. TypeOK'
  BY DEF TypeOK, BeginSave, contactVars, collectionVars, history, Request, ContactsOf
<1>2. References'
  BY DEF TypeOK, References, BeginSave, contactVars, collectionVars, HasRow, Exists, ContactsOf, Known,
         NoRequest
<1>3. Unwritten' /\ Recording' /\ Guarantee' /\ Echoless'
  BY DEF BeginSave, contactVars, collectionVars, history, Known, Unwritten, Recording, Guarantee, Covered,
         FetchedPart, FlaggedPart, Echoless, Owed, Present, Exists, Deleted
<1> QED BY <1>1, <1>2, <1>3

LEMMA BeginRemoveStep ==
  ASSUME IInv, NEW w \in Writer, NEW c \in Collection, BeginRemove(w, c)
  PROVE  IInv'
<1> USE DEF IInv
<1>1. TypeOK'
  BY DEF TypeOK, BeginRemove, contactVars, collectionVars, history, Request, ContactsOf
<1>2. References'
  BY DEF TypeOK, References, BeginRemove, contactVars, collectionVars, HasRow, Exists, ContactsOf, Known,
         NoRequest
<1>3. Unwritten' /\ Recording' /\ Guarantee' /\ Echoless'
  BY DEF BeginRemove, contactVars, collectionVars, history, Known, Unwritten, Recording, Guarantee, Covered,
         FetchedPart, FlaggedPart, Echoless, Owed, Present, Exists, Deleted
<1> QED BY <1>1, <1>2, <1>3

LEMMA AbandonStep ==
  ASSUME IInv, NEW w \in Writer, Abandon(w)
  PROVE  IInv'
BY DEF IInv, TypeOK, References, Abandon, contactVars, collectionVars, history, Known, Unwritten, Recording,
       Guarantee, Covered, FetchedPart, FlaggedPart, Echoless, Owed, Present, Exists, Deleted

(***************************************************************************)
(* The transactions of local clients.                                      *)
(***************************************************************************)
LEMMA SaveStep ==
  ASSUME IInv, NEW w \in Writer, Save(w)
  PROVE  IInv'
<1> DEFINE r == request[w]
<1> USE DEF IInv
<1>1. PICK new \in IF r.creates THEN {{i} : i \in Unused} ELSE {{}} :
        /\ contactState' = [i \in Contact |-> IF i \in new THEN "row" ELSE contactState[i]]
        /\ collectionId' = [i \in Contact |-> IF i \in new THEN r.collection ELSE collectionId[i]]
        /\ changeFlags' =
             [i \in Contact |-> IF i \in new THEN {IsAdded}
                                ELSE IF i \in r.contacts THEN Updated(i, changeFlags[i])
                                ELSE changeFlags[i]]
        /\ unhandledChangeFlags' =
             [i \in Contact |->
                IF i \in new THEN Unhandled(r.record, {}, {IsAdded})
                ELSE Unhandled(r.record, unhandledChangeFlags[i],
                               IF i \in r.contacts THEN Updated(i, unhandledChangeFlags[i])
                               ELSE unhandledChangeFlags[i])]
        /\ fresh' =
             [i \in Contact |-> IF i \in new THEN {IsAdded}
                                ELSE IF i \in r.contacts THEN Updated(i, fresh[i])
                                ELSE fresh[i]]
        /\ tainted' = tainted
             \cup {i \in new \cup r.contacts : Stale(r)}
             \cup {i \in r.contacts : Deleted(i) /\ IsDeleted \in reported[i]}
  BY DEF Save
<1>2. /\ r \in Request /\ r.op = "save"
      /\ request' = [request EXCEPT ![w] = NoRequest]
      /\ UNCHANGED <<collectionVars, phase, reported, remotelyDeleted>>
      /\ \A i \in r.contacts : Exists(i)
  BY DEF Save, TypeOK, NoRequest
<1>3. r.contacts \subseteq Contact /\ r.collection \in Collection /\ r.record \in BOOLEAN
  BY <1>2 DEF Request
<1>4. \A i \in new : i \in Contact /\ ~Known(i) /\ i \notin r.contacts
  BY <1>2 DEF Unused, Known, Exists
<1>5. TypeOK'
  BY <1>1, <1>2, <1>3, <1>4
     DEF TypeOK, Updated, Unhandled, Exists, RowStates, Flags, IsAdded, IsModified, IsDeleted, collectionVars
<1>6. References'
  <2>1. collectionState' = collectionState /\ collectionState[r.collection] # "unused"
    BY <1>2 DEF References, NoRequest, collectionVars
  <2>2. ASSUME NEW i \in Contact, Known(i)'
        PROVE  collectionId'[i] \in Collection /\ collectionState[collectionId'[i]] # "unused"
    BY <2>1, <2>2, <1>1, <1>3 DEF TypeOK, References, Known
  <2>3. ASSUME NEW v \in Writer, request'[v] # NoRequest
        PROVE  /\ collectionState[request'[v].collection] # "unused"
               /\ \A i \in request'[v].contacts : Known(i)' /\ collectionId'[i] = request'[v].collection
    <3>1. request'[v] = request[v] /\ request[v].contacts \subseteq Contact
      BY <2>3, <1>2 DEF TypeOK, Request
    <3> QED BY <2>3, <3>1, <1>1, <1>4 DEF References, Known
  <2> QED BY <2>1, <2>2, <2>3 DEF References
<1>7. Unwritten' /\ Recording'
  BY <1>1, <1>2, <1>3, <1>4 DEF TypeOK, Unwritten, Recording, Known, Exists, collectionVars
<1>8. Guarantee'
  <2> SUFFICES ASSUME NEW i \in Contact, Covered(i)'
               PROVE  FetchedPart(i)' /\ FlaggedPart(i)'
    BY DEF Guarantee
  <2>1. CASE i \in new
    BY <2>1, <1>1, <1>2, <1>3, <1>4
       DEF TypeOK, Covered, FetchedPart, FlaggedPart, Owed, Known, Unwritten, Recording, Stale, Unhandled, Exists,
           Deleted, IsAdded, IsDeleted, collectionVars
  <2>2. CASE i \in r.contacts
    <3>1. Covered(i) /\ collectionId[i] = r.collection /\ ~Stale(r)
      BY <2>2, <1>1, <1>2, <1>3, <1>4
         DEF TypeOK, References, Covered, Known, Present, Exists, collectionVars, NoRequest, Request
    <3>2. ~(Deleted(i) /\ IsDeleted \in reported[i])
      BY <2>2, <1>1 DEF Covered
    <3>3. FetchedPart(i)'
      BY <2>2, <3>1, <1>1, <1>2, <1>3, <1>4
         DEF TypeOK, Guarantee, FetchedPart, Recording, Stale, Updated, Unhandled, Deleted,
             IsModified, IsDeleted, collectionVars
    <3>4. FlaggedPart(i)'
      BY <2>2, <3>1, <3>2, <1>1, <1>2, <1>3, <1>4
         DEF TypeOK, Guarantee, FlaggedPart, Owed, Updated, Exists, Deleted, IsModified, IsDeleted
    <3> QED BY <3>3, <3>4
  <2>3. CASE i \notin new /\ i \notin r.contacts
    BY <2>3, <1>1, <1>2
       DEF TypeOK, Guarantee, Covered, FetchedPart, FlaggedPart, Owed, Known, Present, Exists, Deleted,
           Unhandled, collectionVars
  <2> QED BY <2>1, <2>2, <2>3
<1>9. Echoless'
  BY <1>1, <1>2, <1>3, <1>4
     DEF TypeOK, Echoless, Owed, Updated, Unhandled, IsAdded, IsModified, IsDeleted, Unwritten
<1> QED BY <1>5, <1>6, <1>7, <1>8, <1>9

LEMMA RemoveStep ==
  ASSUME IInv, NEW w \in Writer, Remove(w)
  PROVE  IInv'
<1> DEFINE r == request[w]
           S == Removable(r.contacts)
<1> USE DEF IInv
<1>1. /\ r \in Request /\ r.op = "remove"
      /\ request' = [request EXCEPT ![w] = NoRequest]
      /\ UNCHANGED <<contactState, collectionId, collectionVars, phase, reported, remotelyDeleted>>
      /\ changeFlags' = [i \in Contact |-> IF i \in S THEN changeFlags[i] \cup {IsDeleted} ELSE changeFlags[i]]
      /\ fresh' = [i \in Contact |-> IF i \in S THEN fresh[i] \cup {IsDeleted} ELSE fresh[i]]
      /\ unhandledChangeFlags' =
           [i \in Contact |-> IF i \in S /\ r.record THEN unhandledChangeFlags[i] \cup {IsDeleted}
                              ELSE unhandledChangeFlags[i]]
      /\ tainted' = tainted \cup {i \in S : Stale(r)}
  BY DEF Remove, TypeOK, NoRequest, Unhandled
<1>2. /\ r.contacts \subseteq Contact /\ r.collection \in Collection /\ r.record \in BOOLEAN
      /\ S \subseteq Contact /\ \A i \in S : Exists(i) /\ i \in r.contacts
  BY <1>1 DEF Request, Removable
<1>3. TypeOK'
  BY <1>1, <1>2 DEF TypeOK, Exists, Flags, collectionVars
<1>4. References' /\ Unwritten' /\ Recording'
  BY <1>1, <1>2 DEF TypeOK, References, Unwritten, Recording, Known, Exists, NoRequest, collectionVars
<1>5. Guarantee'
  <2> SUFFICES ASSUME NEW i \in Contact, Covered(i)'
               PROVE  FetchedPart(i)' /\ FlaggedPart(i)'
    BY DEF Guarantee
  <2>1. Covered(i)
    BY <1>1 DEF Covered, Known, Present, collectionVars
  <2>2. CASE i \in S
    <3>1. collectionId[i] = r.collection /\ ~Stale(r)
      BY <2>2, <1>1, <1>2 DEF References, Covered, NoRequest, Request
    <3> QED
      BY <2>1, <2>2, <3>1, <1>1, <1>2
         DEF TypeOK, Guarantee, FetchedPart, FlaggedPart, Owed, Recording, Stale, Exists, Deleted, collectionVars
  <2>3. CASE i \notin S
    BY <2>1, <2>3, <1>1
       DEF TypeOK, Guarantee, FetchedPart, FlaggedPart, Owed, Exists, Deleted, collectionVars
  <2> QED BY <2>2, <2>3
<1>6. Echoless'
  BY <1>1, <1>2 DEF TypeOK, Echoless, Owed
<1> QED BY <1>3, <1>4, <1>5, <1>6

(***************************************************************************)
(* Collections.  A created one has no contacts yet; a deleted one is no    *)
(* longer covered.                                                         *)
(***************************************************************************)
LEMMA CreateCollectionStep ==
  ASSUME IInv, NEW c \in Collection, CreateCollection(c)
  PROVE  IInv'
<1> USE DEF IInv, CreateCollection, contactVars, history
<1>1. TypeOK' /\ References' /\ Unwritten' /\ Recording' /\ Echoless'
  BY DEF TypeOK, RowStates, References, Unwritten, Recording, Echoless, Known, Owed
<1>2. \A i \in Contact : Covered(i)' => Covered(i)
  BY DEF TypeOK, References, Covered, Known, Present
<1>3. Guarantee'
  BY <1>2 DEF Guarantee, FetchedPart, FlaggedPart, Owed, Exists, Deleted
<1> QED BY <1>1, <1>3

LEMMA RemoveCollectionStep ==
  ASSUME IInv, NEW c \in Collection, RemoveCollection(c)
  PROVE  IInv'
<1> USE DEF IInv, RemoveCollection
<1>1. TypeOK'
  BY DEF TypeOK, RowStates, ContactsOf, Exists, Deleted, Unhandled, Flags
<1>2. References' /\ Unwritten' /\ Recording'
  BY DEF TypeOK, References, Unwritten, Recording, Known, ContactsOf, Exists
<1>3. Guarantee'
  <2> SUFFICES ASSUME NEW i \in Contact, Covered(i)'
               PROVE  FetchedPart(i)' /\ FlaggedPart(i)'
    BY DEF Guarantee
  <2>1. Covered(i) /\ collectionId[i] # c
    BY DEF TypeOK, References, Covered, Known, Present
  <2>2. UNCHANGED <<changeFlags[i], unhandledChangeFlags[i], fresh[i]>>
    BY <2>1 DEF TypeOK, ContactsOf, Unhandled
  <2> QED BY <2>1, <2>2 DEF Guarantee, FetchedPart, FlaggedPart, Owed, Exists, Deleted
<1>4. Echoless'
  BY DEF TypeOK, Echoless, Owed, ContactsOf, Deleted, Unhandled
<1> QED BY <1>1, <1>2, <1>3, <1>4

(***************************************************************************)
(* The sync client.                                                        *)
(***************************************************************************)
LEMMA FetchStep ==
  ASSUME IInv, NEW c \in Collection, FetchContactChanges(c)
  PROVE  IInv'
<1> USE DEF IInv, FetchContactChanges
<1>1. TypeOK'
  BY DEF TypeOK, ContactsOf
<1>2. References' /\ Unwritten' /\ Recording'
  BY DEF TypeOK, References, Unwritten, Recording, Known, ContactsOf
<1>3. Guarantee'
  BY DEF TypeOK, Guarantee, Covered, FetchedPart, FlaggedPart, Owed, Known, Present, Exists, Deleted, ContactsOf
<1>4. Echoless'
  BY DEF TypeOK, Echoless, Owed, ContactsOf
<1> QED BY <1>1, <1>2, <1>3, <1>4

LEMMA SyncStopsStep ==
  ASSUME IInv, NEW c \in Collection, SyncStops(c)
  PROVE  IInv'
BY DEF IInv, TypeOK, References, SyncStops, contactVars, collectionVars, history, Known, Unwritten, Recording,
       Guarantee, Covered, FetchedPart, FlaggedPart, Echoless, Owed, Present, Exists, Deleted

\* Clearing, after a transaction that inserted the contacts new, marked the
\* contacts gone of collection c as deleted and did nothing else: the sync has
\* fetched, or the collection goes.
Clearing(c, new, gone, state, flags, collectionDeleted) ==
  /\ new \in SUBSET Unused /\ gone \in SUBSET ContactsOf(c) /\ \A i \in gone : Exists(i)
  /\ collectionDeleted \in BOOLEAN
  /\ HasRow(c)
  /\ collectionState[c] = "deleted" => collectionDeleted
  /\ collectionDeleted \/ phase[c] = "fetched"
  /\ \A i \in Contact : state[i] = IF i \in new THEN "row" ELSE contactState[i]
  /\ \A i \in Contact : flags[i] = IF i \in new THEN {}
                                  ELSE IF i \in gone THEN changeFlags[i] \cup {IsDeleted}
                                  ELSE changeFlags[i]
  /\ collectionId' = [i \in Contact |-> IF i \in new THEN c ELSE collectionId[i]]
  /\ remotelyDeleted' = remotelyDeleted \cup gone
  /\ ClearFlags(c, ContactsOf(c) \cup new, state, flags, collectionDeleted)

LEMMA ClearingStep ==
  ASSUME IInv, NEW c \in Collection, NEW new, NEW gone, NEW state, NEW flags, NEW collectionDeleted,
         Clearing(c, new, gone, state, flags, collectionDeleted)
  PROVE  IInv'
<1> DEFINE mine == ContactsOf(c) \cup new
           purged == {i \in mine : state[i] = "row" /\ Purgeable(flags[i], unhandledChangeFlags[i])}
<1> USE DEF IInv
<1>1. /\ contactState' = [i \in Contact |-> IF i \in purged THEN "purged" ELSE state[i]]
      /\ changeFlags' =
           [i \in Contact |-> IF i \in purged THEN {}
                              ELSE IF i \in mine THEN unhandledChangeFlags[i] ELSE flags[i]]
      /\ unhandledChangeFlags' = [i \in Contact |-> IF i \in mine THEN {} ELSE unhandledChangeFlags[i]]
      /\ reported' = [i \in Contact |-> IF i \in mine THEN {} ELSE reported[i]]
      /\ collectionState' = [collectionState EXCEPT ![c] = IF collectionDeleted THEN "purged" ELSE @]
      /\ phase' = [phase EXCEPT ![c] = "idle"]
      /\ UNCHANGED <<recordUnhandled, request, fresh, tainted>>
  BY DEF Clearing, ClearFlags
<1>2. /\ mine \subseteq Contact /\ purged \subseteq mine
      /\ \A i \in new : i \in Contact /\ ~Known(i)
      /\ \A i \in ContactsOf(c) : i \in Contact /\ Known(i) /\ collectionId[i] = c
      /\ \A i \in gone : i \in ContactsOf(c) /\ Exists(i)
      /\ \A i \in purged : state[i] = "row"
  BY DEF Clearing, ContactsOf, Unused, Known
<1>a. /\ collectionDeleted \in BOOLEAN
      /\ HasRow(c)
      /\ collectionState[c] = "deleted" => collectionDeleted
      /\ collectionDeleted \/ phase[c] = "fetched"
      /\ \A i \in Contact : state[i] = IF i \in new THEN "row" ELSE contactState[i]
      /\ \A i \in Contact : flags[i] = IF i \in new THEN {}
                                      ELSE IF i \in gone THEN changeFlags[i] \cup {IsDeleted}
                                      ELSE changeFlags[i]
      /\ collectionId' = [i \in Contact |-> IF i \in new THEN c ELSE collectionId[i]]
      /\ remotelyDeleted' = remotelyDeleted \cup gone
  BY DEF Clearing
<1>b. ASSUME NEW i \in Contact
      PROVE  state[i] \in RowStates /\ flags[i] \in SUBSET Flags
  <2>1. state[i] \in RowStates
    BY <1>a DEF TypeOK, RowStates
  <2>2. changeFlags[i] \in SUBSET Flags /\ IsDeleted \in Flags
    BY DEF TypeOK, Flags
  <2>3. flags[i] \in {{}, changeFlags[i], changeFlags[i] \cup {IsDeleted}}
    BY <1>a
  <2> QED BY <2>1, <2>2, <2>3
<1>c. ASSUME NEW i \in Contact, i \notin mine
      PROVE  /\ i \notin new /\ i \notin gone /\ i \notin purged
             /\ state[i] = contactState[i] /\ flags[i] = changeFlags[i]
  BY <1>c, <1>a, <1>2
<1> HIDE DEF mine, purged
<1>3. TypeOK'
  <2>1. contactState' \in [Contact -> RowStates] /\ collectionId' \in [Contact -> Collection \cup {NoCollection}]
    BY <1>1, <1>a, <1>b DEF TypeOK, RowStates
  <2>2. changeFlags' \in [Contact -> SUBSET Flags]
    BY <1>1, <1>b DEF TypeOK
  <2>3. ASSUME NEW i \in Contact, contactState'[i] # "row"
        PROVE  changeFlags'[i] = {} /\ unhandledChangeFlags'[i] = {}
    <3>1. CASE i \in purged
      BY <3>1, <1>1, <1>2
    <3>2. CASE i \notin purged /\ i \notin mine
      BY <3>2, <2>3, <1>1, <1>c DEF TypeOK
    <3>3. CASE i \notin purged /\ i \in mine
      BY <3>3, <2>3, <1>1, <1>a DEF TypeOK
    <3> QED BY <3>1, <3>2, <3>3
  <2>4. /\ collectionState' \in [Collection -> RowStates \cup {"deleted"}]
        /\ unhandledChangeFlags' \in [Contact -> SUBSET Flags]
        /\ reported' \in [Contact -> SUBSET Flags]
        /\ phase' \in [Collection -> {"idle", "fetched"}]
        /\ remotelyDeleted' \in SUBSET Contact
    BY <1>1, <1>a, <1>2 DEF TypeOK, RowStates, mine
  <2> QED
    BY <1>1, <2>1, <2>2, <2>3, <2>4 DEF TypeOK
<1>4. References'
  <2>1. \A d \in Collection : collectionState[d] # "unused" => collectionState'[d] # "unused"
    BY <1>1 DEF TypeOK
  <2>2. \A i \in Contact : Known(i) => Known(i)' /\ collectionId'[i] = collectionId[i]
    BY <1>1, <1>2, <1>a DEF Known
  <2>3. ASSUME NEW i \in Contact, Known(i)'
        PROVE  collectionId'[i] \in Collection /\ collectionState'[collectionId'[i]] # "unused"
    <3>1. CASE i \in new
      BY <3>1, <2>1, <1>a DEF HasRow
    <3>2. CASE i \notin new
      <4>1. state[i] = contactState[i]
        BY <3>2, <1>a
      <4>2. Known(i)
        BY <2>3, <4>1, <1>1, <1>2 DEF Known
      <4> QED BY <4>2, <2>1, <2>2 DEF References
    <3> QED BY <3>1, <3>2
  <2>4. ASSUME NEW w \in Writer, request'[w] # NoRequest
        PROVE  /\ collectionState'[request'[w].collection] # "unused"
               /\ \A i \in request'[w].contacts : Known(i)' /\ collectionId'[i] = request'[w].collection
    <3>1. request'[w] = request[w] /\ request[w].collection \in Collection /\ request[w].contacts \subseteq Contact
      BY <2>4, <1>1 DEF TypeOK, Request
    <3> QED BY <2>4, <3>1, <2>1, <2>2 DEF References
  <2> QED BY <2>3, <2>4 DEF References
<1>5. Unwritten' /\ Recording'
  <2>1. ASSUME NEW i \in Contact, ~Known(i)' PROVE ~Known(i)
    BY <2>1, <1>1, <1>2, <1>a DEF Known
  <2> QED
    BY <2>1, <1>1 DEF TypeOK, Unwritten, Recording
<1>6. Guarantee'
  <2> SUFFICES ASSUME NEW i \in Contact, Covered(i)'
               PROVE  FetchedPart(i)' /\ FlaggedPart(i)'
    BY DEF Guarantee
  <2>1. CASE i \in new
    <3>1. fresh'[i] = {} /\ reported'[i] = {}
      BY <2>1, <1>1, <1>2 DEF Unwritten, mine
    <3> QED BY <3>1 DEF FetchedPart, FlaggedPart, Owed
  <2>2. CASE i \notin new /\ collectionId[i] = c
    <3>1. Known(i) /\ i \in ContactsOf(c) /\ i \notin gone /\ collectionId'[i] = c
      BY <2>2, <1>1, <1>2, <1>a DEF Covered, Known, ContactsOf
    <3>2. ~collectionDeleted /\ phase[c] = "fetched" /\ Present(c)
      BY <3>1, <1>1, <1>a DEF TypeOK, Covered, Present, HasRow
    <3>3. Covered(i) /\ FetchedPart(i) /\ FlaggedPart(i)
      BY <2>2, <3>1, <3>2, <1>1, <1>a DEF Guarantee, Covered
    <3>4. FetchedPart(i)'
      BY <3>1, <1>1 DEF TypeOK, FetchedPart
    <3>5. ASSUME fresh[i] # {} PROVE Exists(i)' /\ fresh[i] \subseteq changeFlags'[i]
      <4>1. Exists(i) /\ fresh[i] \subseteq unhandledChangeFlags[i]
            /\ (IsDeleted \in changeFlags[i] => IsDeleted \in fresh[i])
        BY <2>2, <3>2, <3>3, <3>5 DEF FetchedPart, FlaggedPart, Owed, Deleted
      <4>2. flags[i] = changeFlags[i] /\ i \notin purged
        <5>1. flags[i] = changeFlags[i]
          BY <2>2, <3>1, <1>a
        <5> QED BY <5>1, <4>1 DEF purged, Purgeable
      <4>3. state[i] = contactState[i]
        BY <2>2, <1>a
      <4> QED BY <4>3, <2>2, <3>1, <4>1, <4>2, <1>1 DEF Exists, mine
    <3>6. FlaggedPart(i)'
      BY <3>1, <3>5, <1>1 DEF FlaggedPart, Owed, mine
    <3> QED BY <3>4, <3>6
  <2>3. CASE i \notin new /\ collectionId[i] # c
    <3>1. i \notin mine /\ i \notin gone /\ i \notin purged
      BY <2>3, <1>2 DEF mine
    <3>2. /\ UNCHANGED <<contactState[i], collectionId[i], changeFlags[i], unhandledChangeFlags[i], fresh[i],
                         reported[i]>>
          /\ i \in remotelyDeleted' <=> i \in remotelyDeleted
      BY <3>1, <1>1, <1>a, <1>c DEF TypeOK
    <3> QED
      BY <2>3, <3>1, <3>2, <1>1
         DEF TypeOK, Guarantee, Covered, FetchedPart, FlaggedPart, Owed, Known, Present, Exists, Deleted
  <2> QED BY <2>1, <2>2, <2>3
<1>7. Echoless'
  BY <1>1, <1>c DEF TypeOK, Echoless, Owed
<1> QED BY <1>3, <1>4, <1>5, <1>6, <1>7

\* What storeChanges does if it does not clear.
Storing(c, new, gone) ==
  /\ new \in SUBSET Unused /\ gone \in SUBSET ContactsOf(c) /\ \A i \in gone : Exists(i)
  /\ HasRow(c) /\ phase[c] = "fetched"
  /\ contactState' = [i \in Contact |-> IF i \in new THEN "row" ELSE contactState[i]]
  /\ collectionId' = [i \in Contact |-> IF i \in new THEN c ELSE collectionId[i]]
  /\ changeFlags' = [i \in Contact |-> IF i \in new THEN {}
                                       ELSE IF i \in gone THEN changeFlags[i] \cup {IsDeleted}
                                       ELSE changeFlags[i]]
  /\ remotelyDeleted' = remotelyDeleted \cup gone
  /\ UNCHANGED <<unhandledChangeFlags, collectionVars, request, phase, fresh, reported, tainted>>

LEMMA StoringStep ==
  ASSUME IInv, NEW c \in Collection, NEW new, NEW gone, Storing(c, new, gone)
  PROVE  IInv'
<1> USE DEF IInv
<1>1. /\ \A i \in new : i \in Contact /\ ~Known(i)
      /\ \A i \in gone : i \in Contact /\ Known(i) /\ Exists(i)
  BY DEF Storing, Unused, ContactsOf, Known
<1>2. TypeOK'
  <2>1. changeFlags' \in [Contact -> SUBSET Flags]
    BY DEF Storing, TypeOK, Flags
  <2>2. ASSUME NEW i \in Contact, contactState'[i] # "row"
        PROVE  changeFlags'[i] = {} /\ unhandledChangeFlags'[i] = {}
    BY <2>2, <1>1 DEF Storing, TypeOK, Exists
  <2> QED BY <2>1, <2>2, <1>1 DEF Storing, TypeOK, RowStates, collectionVars
<1>3. References' /\ Unwritten' /\ Recording'
  <2>1. \A i \in Contact : Known(i) => Known(i)' /\ collectionId'[i] = collectionId[i]
    BY <1>1 DEF Storing, Known
  <2>2. \A i \in Contact : Known(i)' => Known(i) \/ collectionId'[i] = c
    BY DEF Storing, Known
  <2>3. \A w \in Writer : request[w] # NoRequest => request[w].contacts \subseteq Contact
    BY DEF TypeOK, Request
  <2> QED BY <2>1, <2>2, <2>3 DEF Storing, References, Unwritten, Recording, HasRow, collectionVars
<1>4. Guarantee'
  <2> SUFFICES ASSUME NEW i \in Contact, Covered(i)'
               PROVE  FetchedPart(i)' /\ FlaggedPart(i)'
    BY DEF Guarantee
  <2>1. CASE i \in new
    <3>1. fresh'[i] = {} /\ reported'[i] = {}
      BY <2>1, <1>1 DEF Storing, Unwritten
    <3> QED BY <3>1 DEF FetchedPart, FlaggedPart, Owed
  <2>2. CASE i \notin new
    <3>1. i \notin gone
      BY DEF Storing, Covered
    <3>2. /\ UNCHANGED <<contactState[i], collectionId[i], changeFlags[i], unhandledChangeFlags[i],
                         fresh[i], reported[i]>>
          /\ i \notin remotelyDeleted
      BY <2>2, <3>1 DEF Storing, Covered
    <3> QED
      BY <3>2 DEF Storing, Guarantee, Covered, FetchedPart, FlaggedPart, Owed, Known, Present, Exists, Deleted,
                  collectionVars
  <2> QED BY <2>1, <2>2
<1>5. Echoless'
  BY DEF Storing, Echoless, Owed
<1> QED BY <1>2, <1>3, <1>4, <1>5

LEMMA ClearIsClearing ==
  ASSUME TypeOK, NEW c \in Collection, ClearChangeFlags(c)
  PROVE  Clearing(c, {}, {}, contactState, changeFlags, collectionState[c] = "deleted")
<1>1. collectionId' = [i \in Contact |-> IF i \in {} THEN c ELSE collectionId[i]]
  BY DEF TypeOK, ClearChangeFlags
<1>2. ContactsOf(c) \cup {} = ContactsOf(c)
  OBVIOUS
<1> QED BY <1>1, <1>2 DEF Clearing, ClearChangeFlags

\* The flags storeRemoteCollectionDeletionsLocally has set when it clears.
FlagsOfDeletion(gone) == [i \in Contact |-> IF i \in gone THEN changeFlags[i] \cup {IsDeleted} ELSE changeFlags[i]]

LEMMA CollectionDeletionIsClearing ==
  ASSUME TypeOK, NEW c \in Collection, StoreCollectionDeletion(c)
  PROVE  \E gone : Clearing(c, {}, gone, contactState, FlagsOfDeletion(gone), TRUE)
<1> DEFINE gone == {i \in ContactsOf(c) : Exists(i)}
<1>1. collectionId' = [i \in Contact |-> IF i \in {} THEN c ELSE collectionId[i]]
  BY DEF TypeOK, StoreCollectionDeletion
<1>2. ContactsOf(c) \cup {} = ContactsOf(c)
  OBVIOUS
<1>3. Clearing(c, {}, gone, contactState, FlagsOfDeletion(gone), TRUE)
  BY <1>1, <1>2 DEF Clearing, StoreCollectionDeletion, FlagsOfDeletion
<1> QED BY <1>3

LEMMA StoreChangesEffect ==
  ASSUME TypeOK, NEW c \in Collection, NEW clear \in BOOLEAN, StoreChanges(c, clear)
  PROVE  \E new, gone :
           \/ Storing(c, new, gone)
           \/ \E state, flags, collectionDeleted : Clearing(c, new, gone, state, flags, collectionDeleted)
<1>1. PICK new \in {{}} \cup {{i} : i \in Unused}, changed \in SUBSET ContactsOf(c),
           deleted \in SUBSET ContactsOf(c) : StoreChanges(c, clear)!(new, changed, deleted)
  BY DEF StoreChanges
<1> DEFINE valid == \A i \in changed \cup deleted : Exists(i) /\ ~Deleted(i)
           gone == IF valid THEN deleted ELSE {}
           state == [i \in Contact |-> IF i \in new THEN "row" ELSE contactState[i]]
           flags == [i \in Contact |-> IF i \in new THEN SyncInsertedFlags
                                       ELSE IF i \in gone THEN changeFlags[i] \cup {IsDeleted}
                                       ELSE changeFlags[i]]
<1>2. /\ new \in SUBSET Unused /\ gone \in SUBSET ContactsOf(c) /\ \A i \in gone : Exists(i)
      /\ \A i \in Contact : flags[i] = IF i \in new THEN {}
                                      ELSE IF i \in gone THEN changeFlags[i] \cup {IsDeleted}
                                      ELSE changeFlags[i]
  BY DEF SyncInsertedFlags
<1>3. /\ HasRow(c)
      /\ phase[c] = "fetched"
      /\ collectionId' = [i \in Contact |-> IF i \in new THEN c ELSE collectionId[i]]
      /\ remotelyDeleted' = remotelyDeleted \cup gone
  BY <1>1
<1>4. CASE ClearFlags(c, ContactsOf(c) \cup new, state, flags, collectionState[c] = "deleted")
  <2>1. Clearing(c, new, gone, state, flags, collectionState[c] = "deleted")
    BY <1>2, <1>3, <1>4 DEF Clearing
  <2> QED BY <2>1
<1>5. CASE /\ contactState' = state
           /\ changeFlags' = flags
           /\ UNCHANGED <<unhandledChangeFlags, collectionVars, request, phase, fresh, reported, tainted>>
  <2>1. Storing(c, new, gone)
    BY <1>2, <1>3, <1>5 DEF Storing, SyncInsertedFlags
  <2> QED BY <2>1
<1> QED
  <2> HIDE DEF state, flags
  <2> QED BY <1>1, <1>4, <1>5 DEF state, flags

LEMMA SyncStep ==
  ASSUME IInv, NEW c \in Collection,
         \/ ClearChangeFlags(c) \/ StoreCollectionDeletion(c)
         \/ \E clear \in BOOLEAN : StoreChanges(c, clear)
  PROVE  IInv'
<1>1. TypeOK
  BY DEF IInv
<1> QED
  BY <1>1, ClearIsClearing, CollectionDeletionIsClearing, StoreChangesEffect, ClearingStep, StoringStep

(***************************************************************************)
(* The theorems.                                                           *)
(***************************************************************************)
LEMMA StutterStep == IInv /\ UNCHANGED vars => IInv'
BY DEF IInv, vars, contactVars, collectionVars, history, TypeOK, References, Unwritten, Recording, Guarantee,
       Echoless, Known, Covered, FetchedPart, FlaggedPart, Owed, Present, Exists, Deleted

LEMMA Inductive == IInv /\ [Next]_vars => IInv'
<1> SUFFICES ASSUME IInv, Next PROVE IInv'
  BY StutterStep
<1>1. CASE \E w \in Writer : ClientNext(w)
  BY <1>1, BeginSaveStep, BeginRemoveStep, SaveStep, RemoveStep, AbandonStep DEF ClientNext
<1>2. CASE \E c \in Collection : CollectionNext(c)
  BY <1>2, CreateCollectionStep, RemoveCollectionStep DEF CollectionNext
<1>3. CASE \E c \in Collection : SyncNext(c)
  BY <1>3, FetchStep, SyncStep, SyncStopsStep DEF SyncNext
<1> QED BY <1>1, <1>2, <1>3 DEF Next

\* The invariant holds of every behaviour.
THEOREM Invariance == Spec => []IInv
BY Initially, Inductive, PTL DEF Spec

\* The columns, the requests and the history keep their types, and a row that
\* is gone has no flags.
THEOREM TypeInvariant == Spec => []TypeOK
<1>1. IInv => TypeOK
  BY DEF IInv
<1> QED BY Invariance, <1>1, PTL

\* For any number of clients and collections, no local change is lost between
\* fetchContactChanges and storeChanges or clearChangeFlags, other than by a
\* stale recordUnhandledChangeFlags or an undelete of a reported deletion.
THEOREM NoOtherLoss == Spec => []NothingElseLost
<1>1. IInv => NothingElseLost
  BY DEF IInv, NothingElseLost, Guarantee, Covered, FlaggedPart, Known
<1> QED BY Invariance, <1>1, PTL

\* What sync stores carries no flag of a local addition or modification.
THEOREM SyncIsSilent == Spec => []NoEcho
<1>1. IInv => NoEcho
  BY DEF IInv, NoEcho, Echoless
<1> QED BY Invariance, <1>1, PTL

(***************************************************************************)
(* How contacts end: the action property DeletionsLast.  What a save and a *)
(* clearing do to one contact is stated first, and then the part of the    *)
(* invariant that only this property needs.                                *)
(***************************************************************************)
\* Unhandled changes are recorded only in a collection that asks for it.
Recorded ==
  /\ \A w \in Writer : request[w] # NoRequest /\ request[w].record => recordUnhandled[request[w].collection]
  /\ \A i \in Contact : Known(i) /\ unhandledChangeFlags[i] # {} => recordUnhandled[collectionId[i]]

\* The deletion of a contact the guarantee covers is a local change that no
\* sync has dealt with, and an unhandled one is one that none has reported.
DeletionOwed(i) ==
  /\ Deleted(i) => IsDeleted \in Owed(i)
  /\ IsDeleted \in unhandledChangeFlags[i] => IsDeleted \in fresh[i]

DeletionsOwed == \A i \in Contact : Covered(i) => DeletionOwed(i)

\* The inductive invariant with this part.
DInv == IInv /\ Recorded /\ DeletionsOwed

\* Save leaves a contact alone, inserts it or updates it.
LEMMA SaveEffect ==
  ASSUME IInv, NEW w \in Writer, Save(w), NEW i \in Contact
  PROVE  \/ UNCHANGED <<contactState[i], collectionId[i], changeFlags[i], unhandledChangeFlags[i], fresh[i]>>
         \/ /\ ~Known(i) /\ collectionId'[i] = request[w].collection
            /\ changeFlags'[i] = {IsAdded} /\ fresh'[i] = {IsAdded}
            /\ unhandledChangeFlags'[i] = IF request[w].record THEN {IsAdded} ELSE {}
         \/ /\ i \in request[w].contacts /\ Exists(i) /\ (Deleted(i) => request[w].undelete)
            /\ UNCHANGED <<contactState[i], collectionId[i]>>
            /\ changeFlags'[i] = Updated(i, changeFlags[i]) /\ fresh'[i] = Updated(i, fresh[i])
            /\ unhandledChangeFlags'[i] = IF request[w].record THEN Updated(i, unhandledChangeFlags[i])
                                          ELSE unhandledChangeFlags[i]
            /\ Stale(request[w]) \/ (Deleted(i) /\ IsDeleted \in reported[i]) => i \in tainted'
<1> DEFINE r == request[w]
<1>1. PICK new \in IF r.creates THEN {{j} : j \in Unused} ELSE {{}} :
        /\ contactState' = [j \in Contact |-> IF j \in new THEN "row" ELSE contactState[j]]
        /\ collectionId' = [j \in Contact |-> IF j \in new THEN r.collection ELSE collectionId[j]]
        /\ changeFlags' =
             [j \in Contact |-> IF j \in new THEN {IsAdded}
                                ELSE IF j \in r.contacts THEN Updated(j, changeFlags[j])
                                ELSE changeFlags[j]]
        /\ unhandledChangeFlags' =
             [j \in Contact |->
                IF j \in new THEN Unhandled(r.record, {}, {IsAdded})
                ELSE Unhandled(r.record, unhandledChangeFlags[j],
                               IF j \in r.contacts THEN Updated(j, unhandledChangeFlags[j])
                               ELSE unhandledChangeFlags[j])]
        /\ fresh' =
             [j \in Contact |-> IF j \in new THEN {IsAdded}
                                ELSE IF j \in r.contacts THEN Updated(j, fresh[j])
                                ELSE fresh[j]]
        /\ tainted' = tainted
             \cup {j \in new \cup r.contacts : Stale(r)}
             \cup {j \in r.contacts : Deleted(j) /\ IsDeleted \in reported[j]}
  BY DEF Save
<1>2. \A j \in r.contacts : Exists(j) /\ (Deleted(j) => r.undelete)
  BY DEF Save
<1>3. CASE i \in new
  BY <1>1, <1>3 DEF Unused, Known, Unhandled
<1>4. CASE i \notin new /\ i \in r.contacts
  BY <1>1, <1>2, <1>4 DEF Unhandled
<1>5. CASE i \notin new /\ i \notin r.contacts
  BY <1>1, <1>5 DEF Unhandled
<1> QED BY <1>3, <1>4, <1>5

\* Clearing leaves a contact of another collection alone, and gives one of its
\* own the unhandled flags or purges it, if it is deleted and not unhandled.
LEMMA ClearingEffect ==
  ASSUME IInv, NEW c \in Collection, NEW new, NEW gone, NEW state, NEW flags, NEW collectionDeleted,
         Clearing(c, new, gone, state, flags, collectionDeleted), NEW i \in Contact
  PROVE  \/ /\ i \notin gone
            /\ UNCHANGED <<contactState[i], collectionId[i], changeFlags[i], unhandledChangeFlags[i], reported[i]>>
            /\ Known(i) => collectionId[i] # c
         \/ ~Known(i) /\ changeFlags'[i] = {} /\ unhandledChangeFlags'[i] = {}
         \/ /\ i \in ContactsOf(c) /\ unhandledChangeFlags'[i] = {}
            /\ UNCHANGED <<contactState[i], collectionId[i]>>
            /\ changeFlags'[i] = unhandledChangeFlags[i]
            /\ Exists(i) /\ Deleted(i) => IsDeleted \in unhandledChangeFlags[i]
         \/ /\ i \in ContactsOf(c) /\ contactState'[i] = "purged" /\ unhandledChangeFlags'[i] = {}
            /\ UNCHANGED <<collectionId[i]>>
            /\ changeFlags'[i] = {}
            /\ IsDeleted \notin unhandledChangeFlags[i]
            /\ Deleted(i) \/ i \in gone
<1> DEFINE mine == ContactsOf(c) \cup new
           purged == {j \in mine : state[j] = "row" /\ Purgeable(flags[j], unhandledChangeFlags[j])}
<1>1. /\ contactState' = [j \in Contact |-> IF j \in purged THEN "purged" ELSE state[j]]
      /\ changeFlags' =
           [j \in Contact |-> IF j \in purged THEN {}
                              ELSE IF j \in mine THEN unhandledChangeFlags[j] ELSE flags[j]]
      /\ unhandledChangeFlags' = [j \in Contact |-> IF j \in mine THEN {} ELSE unhandledChangeFlags[j]]
      /\ reported' = [j \in Contact |-> IF j \in mine THEN {} ELSE reported[j]]
  BY DEF Clearing, ClearFlags
<1>2. /\ i \in new => ~Known(i)
      /\ gone \subseteq ContactsOf(c)
      /\ i \in ContactsOf(c) <=> Known(i) /\ collectionId[i] = c
      /\ state[i] = IF i \in new THEN "row" ELSE contactState[i]
      /\ flags[i] = IF i \in new THEN {} ELSE IF i \in gone THEN changeFlags[i] \cup {IsDeleted} ELSE changeFlags[i]
      /\ collectionId'[i] = IF i \in new THEN c ELSE collectionId[i]
  BY DEF Clearing, ContactsOf, Unused, Known
<1>3. CASE i \in new
  <2>1. unhandledChangeFlags[i] = {}
    BY <1>2, <1>3 DEF IInv, TypeOK, Known
  <2> QED BY <2>1, <1>1, <1>2, <1>3
<1>4. CASE i \notin new /\ i \in purged
  BY <1>1, <1>2, <1>4 DEF Purgeable, Deleted
<1>5. CASE i \notin new /\ i \in ContactsOf(c) /\ i \notin purged
  BY <1>1, <1>2, <1>5 DEF Purgeable, Deleted, Exists
<1>6. CASE i \notin new /\ i \notin ContactsOf(c)
  BY <1>1, <1>2, <1>6
<1> QED BY <1>3, <1>4, <1>5, <1>6

LEMMA DInitially == Init => DInv
BY Initially DEF Init, DInv, Recorded, DeletionsOwed, DeletionOwed, Known, Covered, Deleted, NoRequest

LEMMA DStutterStep == DInv /\ UNCHANGED vars => DInv'
BY StutterStep DEF DInv, vars, contactVars, collectionVars, history, Recorded, DeletionsOwed, DeletionOwed,
                   Known, Covered, Owed, Present, Deleted

\* The steps that write neither a row nor a history.
LEMMA DQuietStep ==
  ASSUME DInv,
         \/ \E w \in Writer : Abandon(w) \/ \E c \in Collection : BeginSave(w, c) \/ BeginRemove(w, c)
         \/ \E c \in Collection : SyncStops(c) \/ CreateCollection(c)
  PROVE  Recorded' /\ DeletionsOwed'
<1>1. UNCHANGED <<contactVars, recordUnhandled, history>>
  BY DEF Abandon, BeginSave, BeginRemove, SyncStops, CreateCollection, collectionVars
<1>2. \A w \in Writer : request'[w] # NoRequest /\ request'[w].record =>
        \/ request[w] # NoRequest /\ request'[w] = request[w]
        \/ recordUnhandled[request'[w].collection]
  BY DEF DInv, IInv, TypeOK, Abandon, BeginSave, BeginRemove, SyncStops, CreateCollection
<1>3. Recorded'
  BY <1>1, <1>2 DEF DInv, Recorded, Known, contactVars
<1>4. \A i \in Contact : Covered(i)' => Covered(i)
  <2>1. \A d \in Collection : collectionState'[d] = collectionState[d] \/ collectionState[d] = "unused"
    BY DEF DInv, IInv, TypeOK, Abandon, BeginSave, BeginRemove, SyncStops, CreateCollection, collectionVars
  <2> QED BY <2>1, <1>1 DEF DInv, IInv, References, Covered, Known, Present, contactVars, history
<1>5. DeletionsOwed'
  BY <1>1, <1>4 DEF DInv, DeletionsOwed, DeletionOwed, Owed, Deleted, contactVars, history
<1> QED BY <1>3, <1>5

LEMMA DSaveStep ==
  ASSUME DInv, NEW w \in Writer, Save(w)
  PROVE  Recorded' /\ DeletionsOwed'
<1> DEFINE r == request[w]
<1> USE DEF DInv
<1>1. /\ r # NoRequest /\ r.record \in BOOLEAN /\ r.collection \in Collection
      /\ request' = [request EXCEPT ![w] = NoRequest]
      /\ UNCHANGED <<collectionState, recordUnhandled, reported, remotelyDeleted>>
      /\ tainted \subseteq tainted'
      /\ \A i \in r.contacts : Known(i) /\ collectionId[i] = r.collection
  BY DEF Save, NoRequest, IInv, TypeOK, Request, References, collectionVars
<1>2. Recorded'
  <2>1. ASSUME NEW i \in Contact, Known(i)', unhandledChangeFlags'[i] # {}
        PROVE  recordUnhandled[collectionId'[i]]
    BY <2>1, <1>1, SaveEffect DEF Recorded, Known, Exists
  <2> QED BY <2>1, <1>1 DEF Recorded, IInv, TypeOK
<1>3. ASSUME NEW i \in Contact, Covered(i)' PROVE DeletionOwed(i)'
  <2>1. CASE UNCHANGED <<contactState[i], collectionId[i], changeFlags[i], unhandledChangeFlags[i], fresh[i]>>
    BY <2>1, <1>1, <1>3 DEF DeletionsOwed, DeletionOwed, Owed, Deleted, Covered, Known, Present
  <2>2. CASE /\ changeFlags'[i] = {IsAdded}
             /\ unhandledChangeFlags'[i] = IF request[w].record THEN {IsAdded} ELSE {}
    BY <2>2 DEF DeletionOwed, Deleted, IsAdded, IsDeleted
  <2>3. CASE /\ i \in r.contacts /\ Exists(i)
             /\ UNCHANGED <<contactState[i], collectionId[i]>>
             /\ changeFlags'[i] = Updated(i, changeFlags[i]) /\ fresh'[i] = Updated(i, fresh[i])
             /\ unhandledChangeFlags'[i] = IF r.record THEN Updated(i, unhandledChangeFlags[i])
                                           ELSE unhandledChangeFlags[i]
             /\ Stale(r) => i \in tainted'
    <3>1. Covered(i) /\ ~Stale(r) /\ collectionId[i] = r.collection
      BY <2>3, <1>1, <1>3 DEF Covered, Known, Present
    <3>2. DeletionOwed(i)
      BY <3>1 DEF DeletionsOwed
    <3>3. r.record \/ unhandledChangeFlags[i] = {}
      BY <3>1 DEF Covered, Stale, Recorded
    <3> QED
      BY <2>3, <3>2, <3>3, <1>1 DEF DeletionOwed, Owed, Deleted, Updated, IsModified, IsDeleted
  <2> QED BY <2>1, <2>2, <2>3, SaveEffect
<1> QED BY <1>2, <1>3 DEF DeletionsOwed

LEMMA DRemoveStep ==
  ASSUME DInv, NEW w \in Writer, Remove(w)
  PROVE  Recorded' /\ DeletionsOwed'
<1> DEFINE r == request[w]
<1> USE DEF DInv
<1>1. /\ r # NoRequest
      /\ request' = [request EXCEPT ![w] = NoRequest]
      /\ UNCHANGED <<contactState, collectionId, collectionState, recordUnhandled, reported, remotelyDeleted>>
      /\ tainted \subseteq tainted'
      /\ Removable(r.contacts) \subseteq r.contacts
      /\ \A i \in r.contacts : Known(i) /\ collectionId[i] = r.collection
  BY DEF Remove, Removable, NoRequest, IInv, References, collectionVars
<1>2. ASSUME NEW i \in Contact
      PROVE  \/ UNCHANGED <<changeFlags[i], unhandledChangeFlags[i], fresh[i]>>
             \/ /\ i \in r.contacts
                /\ fresh'[i] = fresh[i] \cup {IsDeleted}
                /\ unhandledChangeFlags'[i] = unhandledChangeFlags[i] \/ r.record
  BY <1>1 DEF Remove, Unhandled
<1>3. Recorded'
  <2>1. ASSUME NEW i \in Contact, Known(i)', unhandledChangeFlags'[i] # {}
        PROVE  recordUnhandled[collectionId[i]]
    BY <2>1, <1>1, <1>2 DEF Recorded, Known
  <2> QED BY <2>1, <1>1 DEF Recorded, IInv, TypeOK
<1>4. DeletionsOwed'
  BY <1>1, <1>2 DEF DeletionsOwed, DeletionOwed, Owed, Deleted, Covered, Known, Present
<1> QED BY <1>3, <1>4

LEMMA DRemoveCollectionStep ==
  ASSUME DInv, NEW c \in Collection, RemoveCollection(c)
  PROVE  Recorded' /\ DeletionsOwed'
<1> USE DEF DInv, RemoveCollection
<1>1. Recorded'
  BY DEF Recorded, IInv, TypeOK, Unhandled, ContactsOf, Known
<1>2. ASSUME NEW i \in Contact, Covered(i)' PROVE DeletionOwed(i)'
  <2>1. Covered(i) /\ collectionId[i] # c
    BY <1>2 DEF IInv, TypeOK, References, Covered, Known, Present
  <2>2. UNCHANGED <<changeFlags[i], unhandledChangeFlags[i], fresh[i]>>
    BY <2>1 DEF IInv, TypeOK, ContactsOf, Unhandled
  <2> QED BY <2>1, <2>2 DEF DeletionsOwed, DeletionOwed, Owed, Deleted
<1> QED BY <1>1, <1>2 DEF DeletionsOwed

LEMMA DFetchStep ==
  ASSUME DInv, NEW c \in Collection, FetchContactChanges(c)
  PROVE  Recorded' /\ DeletionsOwed'
<1> USE DEF DInv, FetchContactChanges
<1>1. Recorded'
  BY DEF Recorded, IInv, TypeOK, ContactsOf, Known
<1>2. DeletionsOwed'
  BY DEF DeletionsOwed, DeletionOwed, Owed, Deleted, Covered, Known, Present, ContactsOf, IInv, TypeOK
<1> QED BY <1>1, <1>2

LEMMA DClearingStep ==
  ASSUME DInv, NEW c \in Collection, NEW new, NEW gone, NEW state, NEW flags, NEW collectionDeleted,
         Clearing(c, new, gone, state, flags, collectionDeleted)
  PROVE  /\ Recorded' /\ DeletionsOwed'
         /\ \A i \in Contact : PurgedOnceKnown(i) /\ (Exists(i) /\ Deleted(i) => Deleted(i)' \/ ~Exists(i)')
<1> USE DEF DInv
<1>1. /\ UNCHANGED <<recordUnhandled, request, fresh, tainted>>
      /\ remotelyDeleted' = remotelyDeleted \cup gone
      /\ collectionDeleted \in BOOLEAN
      /\ collectionState[c] = "deleted" => collectionDeleted
      /\ collectionDeleted \/ phase[c] = "fetched"
      /\ collectionState' = [collectionState EXCEPT ![c] = IF collectionDeleted THEN "purged" ELSE @]
  BY DEF Clearing, ClearFlags
<1>2. Recorded'
  <2>1. ASSUME NEW i \in Contact, Known(i)', unhandledChangeFlags'[i] # {}
        PROVE  recordUnhandled[collectionId'[i]]
    BY <2>1, ClearingEffect DEF Recorded, Known
  <2> QED BY <2>1, <1>1 DEF Recorded
<1>3. ASSUME NEW i \in Contact, Covered(i)', Known(i) PROVE Covered(i)
  <2>1. collectionId'[i] = collectionId[i] /\ collectionId[i] \in Collection
    BY <1>3, ClearingEffect DEF IInv, References
  <2> QED BY <2>1, <1>1, <1>3 DEF IInv, TypeOK, Covered, Present
<1>4. ASSUME NEW i \in Contact, Covered(i)' PROVE DeletionOwed(i)'
  BY <1>1, <1>3, <1>4, ClearingEffect DEF DeletionsOwed, DeletionOwed, Owed, Deleted, Known, ContactsOf, Covered
<1>5. ASSUME NEW i \in Contact PROVE PurgedOnceKnown(i)
  <2> SUFFICES ASSUME Exists(i), ~Exists(i)', i \notin tainted, i \notin remotelyDeleted',
                      Present(collectionId[i])'
               PROVE  IsDeleted \in reported[i]
    BY DEF PurgedOnceKnown
  <2>1. Known(i) /\ i \notin gone
    BY <1>1 DEF Known, Exists
  <2>2. /\ collectionId[i] = c /\ UNCHANGED <<collectionId[i]>> /\ Deleted(i)
        /\ IsDeleted \notin unhandledChangeFlags[i]
    BY <2>1, ClearingEffect DEF Exists, ContactsOf
  <2>3. Present(c) /\ phase[c] = "fetched"
    BY <2>2, <1>1 DEF IInv, TypeOK, Present
  <2>4. Covered(i)
    BY <2>1, <2>2, <2>3, <1>1 DEF Covered
  <2>5. IsDeleted \notin fresh[i] /\ IsDeleted \in Owed(i)
    BY <2>2, <2>3, <2>4 DEF IInv, Guarantee, FetchedPart, DeletionsOwed, DeletionOwed
  <2> QED BY <2>5 DEF Owed
<1>6. ASSUME NEW i \in Contact, Exists(i), Deleted(i) PROVE Deleted(i)' \/ ~Exists(i)'
  <2>1. Known(i)
    BY <1>6 DEF Known, Exists
  <2> QED BY <1>6, <2>1, ClearingEffect DEF Deleted, Exists
<1> QED BY <1>2, <1>4, <1>5, <1>6 DEF DeletionsOwed

LEMMA DStoringStep ==
  ASSUME DInv, NEW c \in Collection, NEW new, NEW gone, Storing(c, new, gone)
  PROVE  /\ Recorded' /\ DeletionsOwed'
         /\ \A i \in Contact : Exists(i) => Exists(i)' /\ (Deleted(i) => Deleted(i)')
<1> USE DEF DInv
<1>1. \A i \in new : i \in Contact /\ ~Known(i)
  BY DEF Storing, Unused, Known
<1>2. ASSUME NEW i \in Contact, i \in new
      PROVE  unhandledChangeFlags'[i] = {} /\ ~Deleted(i)'
  BY <1>1, <1>2 DEF Storing, IInv, TypeOK, Known, Deleted
<1>3. Recorded'
  <2>1. ASSUME NEW i \in Contact, Known(i)', unhandledChangeFlags'[i] # {}
        PROVE  recordUnhandled'[collectionId'[i]]
    <3>1. i \notin new
      BY <2>1, <1>2
    <3> QED BY <2>1, <3>1 DEF Storing, Recorded, Known, collectionVars
  <2> QED BY <2>1 DEF Storing, Recorded, collectionVars
<1>4. DeletionsOwed'
  BY <1>2 DEF Storing, DeletionsOwed, DeletionOwed, Owed, Covered, Known, Present, Deleted, collectionVars
<1>5. ASSUME NEW i \in Contact, Exists(i) PROVE Exists(i)' /\ (Deleted(i) => Deleted(i)')
  <2>1. i \notin new
    BY <1>1, <1>5 DEF Known, Exists
  <2> QED BY <1>5, <2>1 DEF Storing, Exists, Deleted
<1> QED BY <1>3, <1>4, <1>5

\* A step that marks no row as purged and clears no deletion.
LEMMA KeepsDeletions ==
  ASSUME NEW i \in Contact, Exists(i) => Exists(i)' /\ (Deleted(i) => Deleted(i)')
  PROVE  PurgedOnceKnown(i) /\ DeletedStaysDeleted(i)
BY DEF PurgedOnceKnown, DeletedStaysDeleted

LEMMA DeletionStep ==
  ASSUME DInv, Next
  PROVE  DInv' /\ \A i \in Contact : PurgedOnceKnown(i) /\ DeletedStaysDeleted(i)
<1> SUFFICES Recorded' /\ DeletionsOwed' /\ \A i \in Contact : PurgedOnceKnown(i) /\ DeletedStaysDeleted(i)
  BY Inductive DEF DInv
<1> USE DEF DInv
<1>1. CASE \/ \E w \in Writer : Abandon(w) \/ \E c \in Collection : BeginSave(w, c) \/ BeginRemove(w, c)
           \/ \E c \in Collection : SyncStops(c) \/ CreateCollection(c)
  <2>1. UNCHANGED contactVars
    BY <1>1 DEF Abandon, BeginSave, BeginRemove, SyncStops, CreateCollection
  <2>2. \A i \in Contact : Exists(i) => Exists(i)' /\ (Deleted(i) => Deleted(i)')
    BY <2>1 DEF contactVars, Exists, Deleted
  <2> QED BY <2>2, <1>1, DQuietStep, KeepsDeletions
<1>2. CASE \E w \in Writer : Save(w)
  <2> PICK w \in Writer : Save(w)
    BY <1>2
  <2>1. /\ request[w].op = "save" /\ request'[w] = NoRequest
    BY DEF Save, IInv, TypeOK
  <2>2. ASSUME NEW i \in Contact PROVE PurgedOnceKnown(i) /\ DeletedStaysDeleted(i)
    <3>1. Exists(i) => Exists(i)'
      BY SaveEffect DEF Known, Exists
    <3>2. Exists(i) /\ Deleted(i) => Deleted(i)' \/ (i \in request[w].contacts /\ request[w].undelete)
      BY SaveEffect DEF Known, Exists, Deleted
    <3> QED BY <3>1, <3>2, <2>1 DEF PurgedOnceKnown, DeletedStaysDeleted
  <2> QED BY <2>2, DSaveStep
<1>3. CASE \E w \in Writer : Remove(w)
  <2>1. \A i \in Contact : Exists(i) => Exists(i)' /\ (Deleted(i) => Deleted(i)')
    BY <1>3 DEF Remove, Exists, Deleted
  <2> QED BY <2>1, <1>3, DRemoveStep, KeepsDeletions
<1>4. CASE \E c \in Collection : RemoveCollection(c)
  <2>1. \A i \in Contact : Exists(i) => Exists(i)' /\ (Deleted(i) => Deleted(i)')
    BY <1>4 DEF RemoveCollection, Exists, Deleted
  <2> QED BY <2>1, <1>4, DRemoveCollectionStep, KeepsDeletions
<1>5. CASE \E c \in Collection : FetchContactChanges(c)
  <2>1. \A i \in Contact : Exists(i) => Exists(i)' /\ (Deleted(i) => Deleted(i)')
    BY <1>5 DEF FetchContactChanges, Exists, Deleted
  <2> QED BY <2>1, <1>5, DFetchStep, KeepsDeletions
<1>6. ASSUME NEW c \in Collection, NEW new, NEW gone, NEW state, NEW flags, NEW collectionDeleted,
             Clearing(c, new, gone, state, flags, collectionDeleted)
      PROVE  Recorded' /\ DeletionsOwed' /\ \A i \in Contact : PurgedOnceKnown(i) /\ DeletedStaysDeleted(i)
  BY <1>6, DClearingStep DEF DeletedStaysDeleted
<1>7. CASE \E c \in Collection : \/ ClearChangeFlags(c) \/ StoreCollectionDeletion(c)
                                  \/ \E clear \in BOOLEAN : StoreChanges(c, clear)
  <2>1. TypeOK
    BY DEF IInv
  <2>2. \A i \in Contact : PurgedOnceKnown(i) /\ DeletedStaysDeleted(i)
    BY <1>6, <1>7, <2>1, ClearIsClearing, CollectionDeletionIsClearing, StoreChangesEffect, DStoringStep,
       KeepsDeletions
  <2>3. Recorded' /\ DeletionsOwed'
    BY <1>6, <1>7, <2>1, ClearIsClearing, CollectionDeletionIsClearing, StoreChangesEffect, DStoringStep
  <2> QED BY <2>2, <2>3
<1> QED
  BY <1>1, <1>2, <1>3, <1>4, <1>5, <1>7 DEF Next, ClientNext, CollectionNext, SyncNext

\* Deletions come last, for any number of clients and collections: a row is
\* purged only when its deletion was reported to the sync, was asked for by the
\* remote side or is part of that of its collection (or the contact was written
\* in a way known to lose changes), and a deleted contact is revived only by a
\* client that asks to undelete it.
THEOREM DeletionsComeLast == Spec => DeletionsLast
<1>1. DInv /\ [Next]_vars => DInv'
  BY DeletionStep, DStutterStep
<1>2. DInv /\ [Next]_vars => [\A i \in Contact : PurgedOnceKnown(i) /\ DeletedStaysDeleted(i)]_vars
  BY DeletionStep
<1> QED BY DInitially, <1>1, <1>2, PTL DEF Spec, DeletionsLast
=============================================================================
