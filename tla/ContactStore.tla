----------------------------- MODULE ContactStore -----------------------------
(***************************************************************************)
(* Collections and contacts as ContactWriter keeps them for two-way sync:  *)
(* the change flags, the flags of the changes a running sync has not       *)
(* handled, and the operations of local clients and of one sync client per *)
(* collection.  Everything a transaction does is one step (Transactions    *)
(* says when that is so); what save and remove read before they begin      *)
(* theirs is a step of its own.  The contacts are those of collections     *)
(* that are not aggregated.                                                *)
(***************************************************************************)
CONSTANTS Writer,      \* the connections of local clients
          Collection,  \* rowids of table Collections
          Contact,     \* rowids of table Contacts, never reused
          Builtin,     \* collections created with the database
          NoCollection \* the collection of a contact that was never inserted

ASSUME CollectionAssumption ==
  NoCollection \notin Collection /\ Builtin \subseteq Collection

VARIABLES
  collectionState,        \* whether the row was never inserted, exists, is flagged
                          \* as deleted, or was purged
  recordUnhandled,        \* Collections.recordUnhandledChangeFlags
  contactState,           \* whether the row of Contacts was inserted and purged
  collectionId,           \* Contacts.collectionId
  changeFlags,            \* Contacts.changeFlags
  unhandledChangeFlags,   \* Contacts.unhandledChangeFlags
  request,                \* what each writer has read before its transaction
  phase,                  \* whether the sync of a collection has fetched its changes
  fresh,                  \* history: local changes that no fetch has reported
  reported,               \* history: local changes reported to a sync that is not done
  remotelyDeleted,        \* history: contacts deleted by the remote side
  tainted                 \* history: contacts written in a way known to lose changes

contactVars == <<contactState, collectionId, changeFlags, unhandledChangeFlags>>
collectionVars == <<collectionState, recordUnhandled>>
history == <<fresh, reported, remotelyDeleted, tainted>>
vars == <<contactVars, collectionVars, request, phase, history>>

IsAdded == "added"
IsModified == "modified"
IsDeleted == "deleted"
Flags == {IsAdded, IsModified, IsDeleted}

RowStates == {"unused", "row", "purged"}

NoRequest == [op |-> "none"]

Request ==
  [op : {"save"}, collection : Collection, contacts : SUBSET Contact,
   creates : BOOLEAN, undelete : BOOLEAN, record : BOOLEAN]
  \cup [op : {"remove"}, collection : Collection, contacts : SUBSET Contact, record : BOOLEAN]

TypeOK ==
  /\ collectionState \in [Collection -> RowStates \cup {"deleted"}]
  /\ recordUnhandled \in [Collection -> BOOLEAN]
  /\ contactState \in [Contact -> RowStates]
  /\ collectionId \in [Contact -> Collection \cup {NoCollection}]
  /\ changeFlags \in [Contact -> SUBSET Flags]
  /\ unhandledChangeFlags \in [Contact -> SUBSET Flags]
  /\ request \in [Writer -> Request \cup {NoRequest}]
  /\ phase \in [Collection -> {"idle", "fetched"}]
  /\ fresh \in [Contact -> SUBSET Flags]
  /\ reported \in [Contact -> SUBSET Flags]
  /\ remotelyDeleted \in SUBSET Contact
  /\ tainted \in SUBSET Contact
  /\ \A i \in Contact : contactState[i] # "row" =>
        changeFlags[i] = {} /\ unhandledChangeFlags[i] = {}

Init ==
  /\ collectionState = [c \in Collection |-> IF c \in Builtin THEN "row" ELSE "unused"]
  /\ recordUnhandled = [c \in Collection |-> FALSE]
  /\ contactState = [i \in Contact |-> "unused"]
  /\ collectionId = [i \in Contact |-> NoCollection]
  /\ changeFlags = [i \in Contact |-> {}]
  /\ unhandledChangeFlags = [i \in Contact |-> {}]
  /\ request = [w \in Writer |-> NoRequest]
  /\ phase = [c \in Collection |-> "idle"]
  /\ fresh = [i \in Contact |-> {}]
  /\ reported = [i \in Contact |-> {}]
  /\ remotelyDeleted = {}
  /\ tainted = {}

HasRow(c) == collectionState[c] \in {"row", "deleted"}
Exists(i) == contactState[i] = "row"
Deleted(i) == IsDeleted \in changeFlags[i]
ContactsOf(c) == {i \in Contact : contactState[i] # "unused" /\ collectionId[i] = c}
Unused == {i \in Contact : contactState[i] = "unused"}

(***************************************************************************)
(* save(contacts).  Before its transaction it reads whether changes to the *)
(* collection must be recorded as unhandled; it fails if there is no such  *)
(* collection, and never asks whether the collection is marked deleted.    *)
(***************************************************************************)
BeginSave(w, c) ==
  /\ request[w] = NoRequest
  /\ HasRow(c)
  /\ \E S \in SUBSET {i \in ContactsOf(c) : Exists(i)}, creates, undelete \in BOOLEAN :
        /\ S # {} \/ creates
        /\ undelete <=> \E i \in S : Deleted(i)    \* the client has seen it deleted
        /\ request' = [request EXCEPT ![w] =
             [op |-> "save", collection |-> c, contacts |-> S, creates |-> creates,
              undelete |-> undelete, record |-> recordUnhandled[c]]]
  /\ UNCHANGED <<contactVars, collectionVars, phase, history>>

\* update() of contact i, in any of the flags that show it: a deleted contact
\* is undeleted, any other one is modified.
Updated(i, flags) ==
  IF Deleted(i) THEN flags \ {IsDeleted} ELSE flags \cup {IsModified}

\* Mutant: what the request read before its transaction is ignored.
UnhandledDropped(record, flags, updated) == flags

\* bindContactDetails and undeleteContacts touch the unhandled flags only if
\* the collection records unhandled changes.
Unhandled(record, flags, updated) == IF record THEN updated ELSE flags

\* The collection was first fetched after the request had asked whether to
\* record unhandled changes.
Stale(r) == r.record # recordUnhandled[r.collection]

\* The transaction: all of the batch or nothing.  It taints the contacts it
\* writes on a stale answer, and those it undeletes when their deletion has
\* been reported: "this should NEVER be used for synced contacts" says the
\* note at undeleteContacts, and nothing prevents it.
Save(w) ==
  LET r == request[w]
      Update(i, flags) == IF i \in r.contacts THEN Updated(i, flags) ELSE flags
  IN  /\ r.op = "save"
      /\ \A i \in r.contacts : Exists(i) /\ (Deleted(i) => r.undelete)
      /\ \E new \in IF r.creates THEN {{i} : i \in Unused} ELSE {{}} :
           /\ contactState' = [i \in Contact |-> IF i \in new THEN "row" ELSE contactState[i]]
           /\ collectionId' = [i \in Contact |-> IF i \in new THEN r.collection ELSE collectionId[i]]
           /\ changeFlags' =
                [i \in Contact |-> IF i \in new THEN {IsAdded} ELSE Update(i, changeFlags[i])]
           /\ unhandledChangeFlags' =
                [i \in Contact |->
                   IF i \in new THEN Unhandled(r.record, {}, {IsAdded})
                   ELSE Unhandled(r.record, unhandledChangeFlags[i],
                                  Update(i, unhandledChangeFlags[i]))]
           /\ fresh' = [i \in Contact |-> IF i \in new THEN {IsAdded} ELSE Update(i, fresh[i])]
           /\ tainted' = tainted
                \cup {i \in new \cup r.contacts : Stale(r)}
                \cup {i \in r.contacts : Deleted(i) /\ IsDeleted \in reported[i]}
      /\ request' = [request EXCEPT ![w] = NoRequest]
      /\ UNCHANGED <<collectionVars, phase, reported, remotelyDeleted>>

(***************************************************************************)
(* remove(contacts).  It reads which of the contacts exist, and whether to *)
(* record unhandled changes, before its transaction, and does not look     *)
(* again inside: an UPDATE of a row that is gone does nothing.             *)
(***************************************************************************)
BeginRemove(w, c) ==
  /\ request[w] = NoRequest
  /\ HasRow(c)
  /\ \E S \in (SUBSET {i \in ContactsOf(c) : Exists(i) /\ ~Deleted(i)}) \ {{}} :
        request' = [request EXCEPT ![w] =
          [op |-> "remove", collection |-> c, contacts |-> S, record |-> recordUnhandled[c]]]
  /\ UNCHANGED <<contactVars, collectionVars, phase, history>>

\* Mutant: the rows that are gone are written again.
RemovableOfAll(S) == S

Removable(S) == {i \in S : Exists(i)}

Remove(w) ==
  LET r == request[w]
      Mark(i, flags) == IF i \in Removable(r.contacts) THEN flags \cup {IsDeleted} ELSE flags
  IN  /\ r.op = "remove"
      /\ changeFlags' = [i \in Contact |-> Mark(i, changeFlags[i])]
      /\ unhandledChangeFlags' =
           [i \in Contact |-> Unhandled(r.record, unhandledChangeFlags[i], Mark(i, unhandledChangeFlags[i]))]
      /\ fresh' = [i \in Contact |-> Mark(i, fresh[i])]
      /\ tainted' = tainted \cup {i \in Removable(r.contacts) : Stale(r)}
      /\ request' = [request EXCEPT ![w] = NoRequest]
      /\ UNCHANGED <<contactState, collectionId, collectionVars, phase, reported, remotelyDeleted>>

\* The transaction cannot begin, an error rolls it back, or the process dies.
Abandon(w) ==
  /\ request[w] # NoRequest
  /\ request' = [request EXCEPT ![w] = NoRequest]
  /\ UNCHANGED <<contactVars, collectionVars, phase, history>>

(***************************************************************************)
(* Collections.  Of their own flags only the deletion is kept: nothing     *)
(* that happens to contacts depends on the others, which save(collections) *)
(* sets.                                                                   *)
(***************************************************************************)
CreateCollection(c) ==
  /\ collectionState[c] = "unused"
  /\ collectionState' = [collectionState EXCEPT ![c] = "row"]
  /\ UNCHANGED <<contactVars, recordUnhandled, request, phase, history>>

\* remove(collections): its contacts are removed, recording as needed, then
\* the collection and every contact left in it are marked.
RemoveCollection(c) ==
  LET mine == {i \in ContactsOf(c) : Exists(i)}
      removed == {i \in mine : ~Deleted(i)}
      Mark(S, i, flags) == IF i \in S THEN flags \cup {IsDeleted} ELSE flags
  IN  /\ HasRow(c)
      /\ c \notin Builtin
      /\ changeFlags' = [i \in Contact |-> Mark(mine, i, changeFlags[i])]
      /\ unhandledChangeFlags' =
           [i \in Contact |-> Unhandled(recordUnhandled[c], unhandledChangeFlags[i],
                                        Mark(removed, i, unhandledChangeFlags[i]))]
      /\ collectionState' = [collectionState EXCEPT ![c] = "deleted"]
      /\ fresh' = [i \in Contact |-> Mark(removed, i, fresh[i])]
      /\ UNCHANGED <<contactState, collectionId, recordUnhandled,
                     request, phase, reported, remotelyDeleted, tainted>>

(***************************************************************************)
(* The sync client of a collection: fetchContactChanges, then storeChanges *)
(* or clearChangeFlags, or neither when the sync fails or dies.            *)
(***************************************************************************)
FetchContactChanges(c) ==
  /\ HasRow(c)
  /\ recordUnhandled' = [recordUnhandled EXCEPT ![c] = TRUE]
  /\ unhandledChangeFlags' =
       [i \in Contact |-> IF i \in ContactsOf(c) THEN {} ELSE unhandledChangeFlags[i]]
  /\ fresh' = [i \in Contact |-> IF i \in ContactsOf(c) THEN {} ELSE fresh[i]]
  /\ reported' =
       [i \in Contact |-> IF i \in ContactsOf(c) THEN reported[i] \cup fresh[i] ELSE reported[i]]
  /\ phase' = [phase EXCEPT ![c] = "fetched"]
  /\ UNCHANGED <<contactState, collectionId, changeFlags, collectionState, request,
                 remotelyDeleted, tainted>>

\* Mutant: unhandled deletions are purged, too.
PurgeableUnhandled(flags, unhandled) == IsDeleted \in flags

\* removeContacts(ids, onlyIfFlagged).
Purgeable(flags, unhandled) == IsDeleted \in flags /\ IsDeleted \notin unhandled

\* clearChangeFlags on collection c with contacts mine, when the transaction
\* has so far brought the contacts to state and flags.
ClearFlags(c, mine, state, flags, collectionDeleted) ==
  LET purged == {i \in mine : state[i] = "row" /\ Purgeable(flags[i], unhandledChangeFlags[i])}
  IN  /\ contactState' = [i \in Contact |-> IF i \in purged THEN "purged" ELSE state[i]]
      /\ changeFlags' =
           [i \in Contact |-> IF i \in purged THEN {}
                              ELSE IF i \in mine THEN unhandledChangeFlags[i]
                              ELSE flags[i]]
      /\ unhandledChangeFlags' =
           [i \in Contact |-> IF i \in mine THEN {} ELSE unhandledChangeFlags[i]]
      /\ reported' = [i \in Contact |-> IF i \in mine THEN {} ELSE reported[i]]
      /\ collectionState' = [collectionState EXCEPT ![c] = IF collectionDeleted THEN "purged" ELSE @]
      /\ phase' = [phase EXCEPT ![c] = "idle"]
      /\ UNCHANGED <<recordUnhandled, request, fresh, tainted>>

\* A sync client clears once after it has fetched; it clears a collection that
\* fetchCollectionChanges reported as deleted without fetching its contacts
\* (remoteCollectionDeleted).
ClearChangeFlags(c) ==
  /\ HasRow(c)
  /\ phase[c] = "fetched" \/ collectionState[c] = "deleted"
  /\ ClearFlags(c, ContactsOf(c), contactState, changeFlags, collectionState[c] = "deleted")
  /\ UNCHANGED <<collectionId, remotelyDeleted>>

\* Mutant: a contact added by sync is flagged like one added locally.
SyncInsertedFlagsAdded == {IsAdded}

\* withinSyncUpdate keeps the flags of a new contact clear.
SyncInsertedFlags == {}

\* storeChanges with a modified collection: additions, then modifications,
\* then deletions.  A modification or deletion of a contact that is deleted or
\* gone is an error, and the deletions are done together or not at all.  With
\* clear, the result of the clearing takes the place of the error, and what
\* was done before the error is committed.
StoreChanges(c, clear) ==
  \E new \in {{}} \cup {{i} : i \in Unused}, changed, deleted \in SUBSET ContactsOf(c) :
    LET valid == \A i \in changed \cup deleted : Exists(i) /\ ~Deleted(i)
        gone == IF valid THEN deleted ELSE {}
        state == [i \in Contact |-> IF i \in new THEN "row" ELSE contactState[i]]
        flags == [i \in Contact |-> IF i \in new THEN SyncInsertedFlags
                                    ELSE IF i \in gone THEN changeFlags[i] \cup {IsDeleted}
                                    ELSE changeFlags[i]]
    IN  /\ HasRow(c)
        /\ phase[c] = "fetched"
        /\ changed \cap deleted = {}
        /\ collectionId' = [i \in Contact |-> IF i \in new THEN c ELSE collectionId[i]]
        /\ remotelyDeleted' = remotelyDeleted \cup gone
        /\ \/ /\ clear
              /\ ClearFlags(c, ContactsOf(c) \cup new, state, flags, collectionState[c] = "deleted")
           \/ /\ ~clear
              /\ valid
              /\ contactState' = state
              /\ changeFlags' = flags
              /\ UNCHANGED <<unhandledChangeFlags, collectionVars, request, phase,
                             fresh, reported, tainted>>

\* storeChanges with a deleted collection (storeRemoteCollectionDeletionsLocally):
\* its contacts and it are marked, recording nothing, then cleared.
StoreCollectionDeletion(c) ==
  LET mine == {i \in ContactsOf(c) : Exists(i)}
      flags == [i \in Contact |-> IF i \in mine THEN changeFlags[i] \cup {IsDeleted} ELSE changeFlags[i]]
  IN  /\ HasRow(c)
      /\ c \notin Builtin
      /\ remotelyDeleted' = remotelyDeleted \cup mine
      /\ ClearFlags(c, ContactsOf(c), contactState, flags, TRUE)
      /\ UNCHANGED collectionId

\* The sync fails after its fetch, or its process dies.
SyncStops(c) ==
  /\ phase[c] = "fetched"
  /\ phase' = [phase EXCEPT ![c] = "idle"]
  /\ UNCHANGED <<contactVars, collectionVars, request, history>>

ClientNext(w) ==
  \/ \E c \in Collection : BeginSave(w, c) \/ BeginRemove(w, c)
  \/ Save(w) \/ Remove(w) \/ Abandon(w)

CollectionNext(c) == CreateCollection(c) \/ RemoveCollection(c)

\* Sync adaptors leave the built-in collections alone.
SyncNext(c) ==
  /\ c \notin Builtin
  /\ \/ FetchContactChanges(c) \/ ClearChangeFlags(c)
     \/ \E clear \in BOOLEAN : StoreChanges(c, clear)
     \/ StoreCollectionDeletion(c) \/ SyncStops(c)

Next ==
  \/ \E w \in Writer : ClientNext(w)
  \/ \E c \in Collection : CollectionNext(c) \/ SyncNext(c)

Spec == Init /\ [][Next]_vars

-----------------------------------------------------------------------------
(***************************************************************************)
(* Properties                                                              *)
(***************************************************************************)
\* A collection that is neither deleted nor purged.
Present(c) == collectionState[c] = "row"

\* The local changes to a contact that no sync has dealt with.
Owed(i) == reported[i] \cup fresh[i]

\* "These "unhandled" changes occur between fetchChanges and storeChanges/
\* clearChangeFlags and need to be recorded for reporting in the next
\* fetchChanges result" (contactwriter.cpp:3592): every local change is in the
\* contact's change flags until a sync that saw it is done.
NothingLost ==
  \A i \in Contact :
    /\ contactState[i] # "unused" /\ Present(collectionId[i])
    /\ i \notin remotelyDeleted
    /\ Owed(i) # {}
    => Exists(i) /\ Owed(i) \subseteq changeFlags[i]

\* The same but for the contacts that were written on a stale answer or
\* undeleted after their deletion was reported: nothing else loses a change.
NothingElseLost ==
  \A i \in Contact :
    /\ contactState[i] # "unused" /\ Present(collectionId[i])
    /\ i \notin remotelyDeleted \cup tainted
    /\ Owed(i) # {}
    => Exists(i) /\ Owed(i) \subseteq changeFlags[i]

\* What a sync stores is not reported back to it as a local change: a contact
\* flagged as added or modified owes a local change.
NoEcho == \A i \in Contact : changeFlags[i] \ {IsDeleted} \subseteq Owed(i)

\* A row goes only once its deletion is known: reported to the sync, or asked
\* for by the remote side, or part of the deletion of its collection.
PurgedOnceKnown(i) ==
  Exists(i) /\ ~Exists(i)' /\ i \notin tainted =>
    \/ IsDeleted \in reported[i]
    \/ i \in remotelyDeleted'
    \/ ~Present(collectionId[i])'

\* A deleted contact stays deleted until it is purged, unless a client asks to
\* undelete it: neither clearing its flags nor a late transaction revives it.
DeletedStaysDeleted(i) ==
  Exists(i) /\ Deleted(i) =>
    \/ Deleted(i)' \/ ~Exists(i)'
    \/ \E w \in Writer :
         /\ request[w].op = "save" /\ request'[w] = NoRequest
         /\ request[w].undelete /\ i \in request[w].contacts

\* How a contact ends: from deleted to purged once that is known, and not back.
DeletionsLast == [][\A i \in Contact : PurgedOnceKnown(i) /\ DeletedStaysDeleted(i)]_vars

\* "collectionId INTEGER REFERENCES Collections (collectionId)"
\* (contactsdatabase.cpp:97): every contact has its collection.
NoOrphans == \A i \in Contact : Exists(i) => HasRow(collectionId[i])
=============================================================================
