------------------------------ MODULE TwoWaySync ------------------------------
(***************************************************************************)
(* TwoWayContactSyncAdaptor: the synchronisation of the collections of one *)
(* account with a server.  The adaptor runs in the event loop of its       *)
(* process; between its transactions other processes edit the device, and  *)
(* other clients the server.  The device is what ContactStore describes,   *)
(* with the contents of contacts and without the races before             *)
(* transactions; the server and the plugin that talks to it are external.  *)
(* A contact holds a set of details of a type a contact can have many of.  *)
(***************************************************************************)
EXTENDS Naturals, Sequences, FiniteSets, SequencesExt

CONSTANTS
  Local,       \* rowids of table Collections
  Path,        \* remote paths of collections
  Row,         \* rowids of table Contacts
  Key,         \* what the server calls a contact, its guid
  Detail,      \* the details contacts can have
  Null,        \* a null id, an empty path, an empty guid
  Style,       \* how plugins tell remote changes of contacts
  MaxEdits,    \* bound: changes by users of the device
  MaxRemote,   \* bound: changes by other clients of the server
  MaxSyncs,    \* bound: syncs
  MaxErrors    \* bound: errors of the plugin or the database, and deaths

VARIABLES
  collection,     \* table Collections
  contact,        \* tables Contacts and Details
  server,         \* the remote collections, with their contacts
  style,          \* whether the plugin lists remote contacts or determines changes
  changes,        \* m_collectionChanges
  localChanges,   \* m_localContactChanges
  remoteChanges,  \* m_remoteContactChanges
  operations,     \* m_syncOperations
  errorOccurred,  \* m_errorOccurred
  continueAfterError, \* m_continueAfterError
  call,           \* what the adaptor waits for
  outcome,        \* what the last sync was said to have come to
  used,           \* bounds: how many changes, syncs and errors there were
  seen            \* history: see Properties

device == <<collection, contact>>
caches == <<changes, localChanges, remoteChanges, operations>>
vars == <<device, server, style, caches, errorOccurred, continueAfterError,
          call, outcome, used, seen>>

Blank == [state |-> "unused", in |-> Null, guid |-> Null, shown |-> {}, base |-> {},
          flags |-> {}, added |-> {}, unhandled |-> {}, unhandledAdded |-> {}]

NoRow == [state |-> "unused", path |-> Null, flags |-> {}, records |-> FALSE]
PurgedRow == [NoRow EXCEPT !.state = "purged"]

NoRemote == [state |-> "never", id |-> Null, has |-> {}]
NoServer == [there |-> FALSE, id |-> Null, contacts |-> [k \in Key |-> NoRemote]]

Idle == [at |-> "nothing"]
Nothing == [added |-> {}, modified |-> {}, removed |-> {}, unmodified |-> {}]

Deleted(x) == "deleted" \in x.flags
Live(r) == contact[r].state = "row" /\ ~Deleted(contact[r])
RowsOf(c) == {r \in Row : contact[r].state = "row" /\ contact[r].in = c}
Unused == {r \in Row : contact[r].state = "unused"}
Here(p) == {k \in Key : server[p].there /\ server[p].contacts[k].state = "here"}

-----------------------------------------------------------------------------
(***************************************************************************)
(* What transactions do to a contact: its flags, those of its details, and *)
(* the same flags for the changes a running sync has not fetched.  No      *)
(* plugin knows the ids of details: the flags of deleted ones play no part.*)
(***************************************************************************)
Flagged(x, flag, records) ==
  [x EXCEPT !.flags = @ \cup {flag},
            !.unhandled = IF records THEN @ \cup {flag} ELSE @]

\* Mutant: the mark of a detail outlives it.
WrittenOver(x, shown, records) ==
  LET new == shown \ x.shown
  IN  [x EXCEPT !.shown = shown, !.added = @ \cup new,
                !.unhandledAdded = @ \cup (IF records THEN new ELSE {})]

\* writeDetails: what is new is inserted, flagged as added even by a sync.
Written(x, shown, records) ==
  LET new == shown \ x.shown
  IN  [x EXCEPT !.shown = shown,
                !.added = (@ \cap shown) \cup new,
                !.unhandledAdded = (@ \cap shown) \cup (IF records THEN new ELSE {})]

\* Mutant: the flags of what the sync has not handled are cleared, too.
ClearedAll(x) ==
  IF Deleted(x) THEN [Blank EXCEPT !.state = "purged"]
  ELSE [x EXCEPT !.flags = {}, !.unhandled = {}, !.added = {}, !.unhandledAdded = {}]

\* clearChangeFlags: purge what is flagged as deleted and was when the sync
\* fetched it, and let the unhandled flags take the place of the others.
Cleared(x) ==
  IF Deleted(x) /\ "deleted" \notin x.unhandled THEN [Blank EXCEPT !.state = "purged"]
  ELSE [x EXCEPT !.flags = x.unhandled, !.unhandled = {},
                 !.added = x.unhandledAdded, !.unhandledAdded = {}]

\* fetchContactChanges forgets what was not handled: it reports it now.
Fetched(x) == [x EXCEPT !.unhandled = {}, !.unhandledAdded = {}]

\* A contact as the lists of the adaptor hold it.
Snapshot(r) ==
  [id |-> r, guid |-> contact[r].guid, shown |-> contact[r].shown,
   added |-> contact[r].added, base |-> contact[r].base]

ChangesOf(c) ==
  LET Those(flag, others) ==
        {Snapshot(r) : r \in {r \in RowsOf(c) : flag \in contact[r].flags
                                                /\ contact[r].flags \cap others = {}}}
  IN  [removed |-> Those("deleted", {}),
       added |-> Those("added", {"deleted"}),
       modified |-> Those("modified", {"added", "deleted"}),
       unmodified |-> {Snapshot(r) : r \in {r \in RowsOf(c) : contact[r].flags = {}}}]

\* fetchContactChanges, as a transaction.
FetchContactChanges(c) ==
  /\ collection' = [collection EXCEPT ![c].records = @ \/ collection[c].state \in {"row", "deleted"}]
  /\ contact' = [r \in Row |-> IF r \in RowsOf(c) THEN Fetched(contact[r]) ELSE contact[r]]

\* clearChangeFlags of a collection, the contacts being x.
ClearedCollection(c) ==
  IF collection[c].state = "deleted" THEN PurgedRow
  ELSE [collection[c] EXCEPT !.flags = {}]

ClearedContacts(c, x) ==
  [r \in Row |-> IF x[r].state = "row" /\ x[r].in = c THEN Cleared(x[r]) ELSE x[r]]

\* storeChanges of one collection, as a transaction.  Of a list of contacts
\* those that exist are written even if another one does not; the lists after
\* it are left out then, and the removals when one of them is gone.  Clearing
\* the flags forgets the error.  A new contact with an id is an update.
StoreChanges(c, p, stored) ==
  LET Exists(x) == Live(x.id) /\ contact[x.id].in = c
      inserted == {x \in stored.added : x.id = Null}
      again == stored.added \ inserted
      modified == again \cup (IF \A x \in again : Exists(x) THEN stored.modified ELSE {})
      written == {x \in modified : Exists(x)}
      removes == /\ \A x \in again \cup stored.modified : Exists(x)
                 /\ \A x \in stored.removed : Live(x.id)
      Updated(x) == [Written(contact[x.id], x.shown, FALSE) EXCEPT !.guid = x.guid, !.base = x.base]
  IN  \E rowOf \in Injection(inserted, Unused), n \in Local :
        LET Inserted(x) == [Blank EXCEPT !.state = "row", !.in = n, !.guid = x.guid,
                                         !.shown = x.shown, !.base = x.base]
            Changed(r) ==
              CASE \E x \in inserted : rowOf[x] = r -> Inserted(CHOOSE x \in inserted : rowOf[x] = r)
                [] \E x \in written : x.id = r -> Updated(CHOOSE x \in written : x.id = r)
                [] removes /\ (\E x \in stored.removed : x.id = r) -> Flagged(contact[r], "deleted", FALSE)
                [] OTHER -> contact[r]
        IN  /\ IF c = Null
               THEN /\ collection[n].state = "unused"
                    /\ collection' = [collection EXCEPT ![n] =
                         [state |-> "row", path |-> p, flags |-> {}, records |-> FALSE]]
               ELSE /\ n = c
                    /\ collection' = [collection EXCEPT ![c] =
                         IF @.state = "row" THEN [ClearedCollection(c) EXCEPT !.path = p]
                         ELSE ClearedCollection(c)]
            /\ contact' = ClearedContacts(n, [r \in Row |-> Changed(r)])

\* storeChanges of collections the server no longer has.
StoreDeletions(gone) ==
  /\ collection' = [c \in Local |-> IF c \in gone /\ collection[c].state \in {"row", "deleted"}
                                    THEN PurgedRow ELSE collection[c]]
  /\ contact' =
       [r \in Row |->
          IF contact[r].state = "row" /\ contact[r].in \in gone
          THEN Cleared([contact[r] EXCEPT !.flags = @ \cup {"deleted"}]) ELSE contact[r]]

-----------------------------------------------------------------------------
(***************************************************************************)
(* How a handler ends: with the next operation, which begins with the      *)
(* transactions of startCollectionSync, or with syncOperationError.  The   *)
(* local changes of the collections in forget are dropped once the handler *)
(* returns, after what the next operation puts there.                      *)
(***************************************************************************)
PerformNext(forget) ==
  /\ call' = [at |-> "next", forget |-> forget]
  /\ UNCHANGED <<errorOccurred, outcome>>

SyncOperationError(forget) ==
  /\ errorOccurred' = TRUE
  /\ IF continueAfterError
     THEN call' = [at |-> "next", forget |-> forget] /\ UNCHANGED outcome
     ELSE call' = Idle /\ outcome' = "error"

Fails ==
  /\ used.errors < MaxErrors
  /\ used' = [used EXCEPT !.errors = @ + 1]

Succeeds == UNCHANGED used

\* The collections whose row is in a state and has one of the sets of flags.
CollectionsWith(state, flags) ==
  LET rows == SetToSortSeq({c \in Local : collection[c].state = state /\ collection[c].flags \in flags},
                           LAMBDA a, b : a < b)
  IN  [i \in DOMAIN rows |-> [id |-> rows[i], path |-> collection[rows[i]].path]]

AddedFlags == {{"added"}, {"added", "modified"}}
AllFlags == SUBSET {"added", "modified"}

\* Mutant: two of the lists are passed in each other's place.
SwappedChanges ==
  [removed |-> changes.removed \o CollectionsWith("row", {{"modified"}}),
   added |-> changes.added \o CollectionsWith("row", AddedFlags),
   modified |-> changes.modified \o CollectionsWith("deleted", AllFlags),
   unmodified |-> changes.unmodified \o CollectionsWith("row", {{}})]

\* fetchCollectionChanges appends to lists that nothing ever clears.
AppendedChanges ==
  [removed |-> changes.removed \o CollectionsWith("deleted", AllFlags),
   added |-> changes.added \o CollectionsWith("row", AddedFlags),
   modified |-> changes.modified \o CollectionsWith("row", {{"modified"}}),
   unmodified |-> changes.unmodified \o CollectionsWith("row", {{}})]

StartSync ==
  /\ call = Idle
  /\ used.syncs < MaxSyncs
  /\ continueAfterError' \in BOOLEAN
  /\ changes' = AppendedChanges
  /\ call' = [at |-> "collections"]
  /\ used' = [used EXCEPT !.syncs = @ + 1]
  /\ seen' = IF outcome = "none" THEN {} ELSE {"again"}
  /\ outcome' = "running"
  /\ UNCHANGED <<device, server, style, localChanges, remoteChanges, operations, errorOccurred>>

\* The collections cannot be fetched, or the plugin cannot begin its request.
StartSyncFails ==
  /\ call = Idle
  /\ used.syncs < MaxSyncs
  /\ Fails
  /\ continueAfterError' \in BOOLEAN
  /\ changes' \in {changes, AppendedChanges}
  /\ outcome' = "error"
  /\ UNCHANGED <<device, server, style, localChanges, remoteChanges, operations,
                 errorOccurred, call, seen>>

-----------------------------------------------------------------------------
(***************************************************************************)
(* remoteCollectionsDetermined and remoteCollectionChangesDetermined.      *)
(***************************************************************************)
SameCollection(x, l) ==
  IF x.id # Null THEN x.id = l.id ELSE x.path # Null /\ x.path = l.path

WithId(x, l) == IF x.id = Null THEN [x EXCEPT !.id = l.id] ELSE x

\* One remote collection is sorted into the lists of acc.
Inspected(acc, x) ==
  LET At(list) == SelectInSeq(list, LAMBDA l : SameCollection(x, l))
      a == At(acc.added)
      m == At(acc.modified)
      r == At(changes.removed)
      u == At(changes.unmodified)
      Unmodified(l) == [acc EXCEPT !.remotelyUnmodified = Append(@, WithId(x, l)), !.seen = @ \cup {l.id}]
  IN  CASE a > 0 -> [Unmodified(acc.added[a]) EXCEPT !.modified = Append(@, acc.added[a]),
                                                     !.added = RemoveAt(@, a)]
        [] a = 0 /\ m > 0 -> Unmodified(acc.modified[m])
        [] a = 0 /\ m = 0 /\ r > 0 -> Unmodified(changes.removed[r])
        [] a = 0 /\ m = 0 /\ r = 0 /\ u > 0 ->
             [acc EXCEPT !.remotelyModified = Append(@, WithId(x, changes.unmodified[u])),
                         !.seen = @ \cup {changes.unmodified[u].id}]
        [] OTHER -> IF x.id = Null THEN [acc EXCEPT !.remotelyAdded = Append(@, x)] ELSE acc

RemoteCollections ==
  LET paths == SetToSeq({p \in Path : server[p].there})
  IN  [i \in DOMAIN paths |-> [id |-> server[paths[i]].id, path |-> paths[i]]]

Inspection ==
  FoldLeft(Inspected,
           [added |-> changes.added, modified |-> changes.modified, seen |-> {},
            remotelyAdded |-> <<>>, remotelyModified |-> <<>>, remotelyUnmodified |-> <<>>],
           RemoteCollections)

\* One operation for each collection that is not handled yet.
Queued(queue, list, type) ==
  FoldLeft(LAMBDA q, x :
             IF x.id \in q.handled THEN q
             ELSE [handled |-> q.handled \cup {x.id},
                   ops |-> Append(q.ops, [id |-> x.id, path |-> x.path, type |-> type])],
           queue, list)

Unseen(list, found) == SelectSeq(list, LAMBDA l : l.id \notin found)

CollectionsDetermined ==
  LET i == Inspection
      removed == Unseen(i.modified, i.seen) \o Unseen(changes.unmodified, i.seen)
      gone == {removed[j].id : j \in DOMAIN removed}
      q1 == Queued([handled |-> gone, ops |-> operations], changes.removed, "LocalDeletion")
      q2 == Queued(q1, i.remotelyModified, "RemoteModification")
      q3 == Queued(q2, i.modified, "LocalModification")
      q4 == Queued(q3, changes.unmodified, "Unmodified")
      q5 == Queued(q4, i.added, "LocalAddition")
      q6 == Queued(q5, i.remotelyUnmodified, "Unmodified")
      additions == [j \in DOMAIN i.remotelyAdded |->
                      [id |-> Null, path |-> i.remotelyAdded[j].path, type |-> "RemoteAddition"]]
  IN  /\ call.at = "collections"
      /\ changes' = [changes EXCEPT !.added = i.added, !.modified = i.modified]
      /\ operations' = q6.ops \o additions
      /\ \/ /\ StoreDeletions(gone)
            /\ PerformNext({}) /\ Succeeds
         \/ /\ gone # {}
            /\ SyncOperationError({}) /\ Fails
            /\ UNCHANGED device
      /\ UNCHANGED <<server, style, localChanges, remoteChanges, continueAfterError, seen>>

-----------------------------------------------------------------------------
(***************************************************************************)
(* performNextQueuedOperation and startCollectionSync.                     *)
(***************************************************************************)
Forgotten(lists, forget) == [c \in Local |-> IF c \in forget THEN Null ELSE lists[c]]

FinishSync ==
  /\ call.at = "next"
  /\ operations = <<>>
  /\ call' = Idle
  /\ outcome' = IF errorOccurred THEN "error" ELSE "success"
  /\ UNCHANGED <<device, server, style, caches, errorOccurred, continueAfterError, used, seen>>

StartCollectionSync ==
  /\ call.at = "next"
  /\ operations # <<>>
  /\ operations' = Tail(operations)
  /\ LET op == Head(operations)
     IN  \/ /\ op.type = "LocalDeletion"
            /\ call' = [at |-> "delete", id |-> op.id, path |-> op.path]
            /\ Succeeds
            /\ UNCHANGED <<device, localChanges, errorOccurred, outcome>>
         \/ /\ op.type = "LocalAddition"
            /\ FetchContactChanges(op.id)
            /\ call' = [at |-> "push", id |-> op.id, path |-> op.path, creates |-> TRUE,
                        pushed |-> [Nothing EXCEPT !.added = ChangesOf(op.id).added]]
            /\ Succeeds
            /\ UNCHANGED <<localChanges, errorOccurred, outcome>>
         \/ /\ op.type = "RemoteAddition"
            /\ call' = [at |-> "contacts", id |-> Null, path |-> op.path]
            /\ Succeeds
            /\ UNCHANGED <<device, localChanges, errorOccurred, outcome>>
         \/ /\ op.type \in {"RemoteModification", "LocalModification", "Unmodified"}
            /\ FetchContactChanges(op.id)
            /\ localChanges' = Forgotten([localChanges EXCEPT ![op.id] = ChangesOf(op.id)], call.forget)
            /\ call' = [at |-> "contacts", id |-> op.id, path |-> op.path]
            /\ Succeeds
            /\ UNCHANGED <<errorOccurred, outcome>>
         \/ /\ op.type \notin {"LocalDeletion", "RemoteAddition"}   \* the fetch fails
            /\ SyncOperationError(call.forget) /\ Fails
            /\ UNCHANGED <<device, localChanges>>
  /\ UNCHANGED <<server, style, changes, remoteChanges, continueAfterError, seen>>

-----------------------------------------------------------------------------
(***************************************************************************)
(* remoteContactsDetermined: the remote contacts are compared with the     *)
(* local ones.  Matching is by id, or by guid if the plugin gives no id;   *)
(* no contact has a sync target, by which any other one would match.       *)
(***************************************************************************)
Same(x, l) == IF x.id # Null THEN x.id = l.id ELSE x.guid = l.guid

Listed(p) ==
  {[id |-> server[p].contacts[k].id, guid |-> k, shown |-> server[p].contacts[k].has,
    added |-> {}, base |-> server[p].contacts[k].has] : k \in Here(p)}

Matches(x, list) == {l \in list : Same(x, l)}

\* Mutant: what the server has removed is looked for among the modified only.
ComparedModified(local, listed) ==
  LET mine == local.modified \cup {l \in local.added : \E x \in listed : Same(x, l)}
      others == local.unmodified
      Known(x, list) == Matches(x, list) # {}
      changed == {x \in listed : ~Known(x, local.removed) /\ ~Known(x, mine) /\ Known(x, others)}
      Seen(list) == {l \in list : \E x \in listed : Same(x, l)}
  IN  [local |-> [local EXCEPT !.added = @ \ mine, !.modified = Seen(mine), !.unmodified = Seen(others)],
       added |-> {x \in listed : ~Known(x, mine \cup local.removed \cup others) /\ x.id = Null},
       modified |-> {WithId(x, CHOOSE l \in others : Same(x, l)) : x \in changed},
       removed |-> mine \ Seen(mine)]

\* [local, added, modified, removed]: the local lists, and the remote changes.
Compared(local, listed) ==
  LET mine == local.modified \cup {l \in local.added : \E x \in listed : Same(x, l)}
      others == local.unmodified
      Known(x, list) == Matches(x, list) # {}
      pushed == {x \in listed : Known(x, local.added)}
      changed == {x \in listed \ pushed :
                    ~Known(x, local.removed) /\ ~Known(x, local.modified) /\ Known(x, others)}
      new == {x \in listed : ~Known(x, mine \cup local.removed \cup others)}
      Seen(list) == {l \in list : \E x \in listed : Same(x, l)}
      AsLocal(S, list) == {WithId(x, CHOOSE l \in list : Same(x, l)) : x \in S}
  IN  [local |-> [added |-> local.added \ mine, removed |-> local.removed,
                  modified |-> Seen(mine), unmodified |-> Seen(others)],
       added |-> {x \in new : x.id = Null},
       modified |-> AsLocal(pushed, local.added) \cup AsLocal(changed, others),
       removed |-> (mine \ Seen(mine)) \cup (others \ Seen(others))]

\* A plugin that knows by etags what has changed since the last sync.
Determined(local, listed) ==
  LET mine == local.added \cup local.modified \cup local.unmodified
      Changed(x) == \E l \in Matches(x, mine) : x.base # l.base
  IN  [local |-> local,
       added |-> {x \in listed : Matches(x, mine \cup local.removed) = {} /\ x.id = Null},
       modified |-> {WithId(x, CHOOSE l \in mine : Same(x, l)) : x \in {x \in listed : Changed(x)}},
       removed |-> {l \in local.modified \cup local.unmodified : \A x \in listed : ~Same(x, l)}]

\* resolveConflictingChanges.  Equal details of both are kept twice, which
\* makes the contacts differ: a set stands for a list with such pairs.
Resolved(l, x) == [l EXCEPT !.guid = x.guid, !.shown = l.added \cup x.shown, !.base = x.base]
Identical(l, x) ==
  l.added \cap x.shown = {} /\ l.added \cup x.shown = l.shown /\ x.guid = l.guid

\* remoteContactChangesDetermined: what is pushed, and what is stored locally.
Merged(found) ==
  LET local == found.local
      Conflict(l, x) == l.id = x.id
      resolved == {Resolved(l, x) : <<l, x>> \in
                     {p \in local.modified \X found.modified : Conflict(p[1], p[2]) /\ ~Identical(p[1], p[2])}}
      alone == {l \in local.modified : \A x \in found.modified : ~Conflict(l, x)}
      taken == {x \in found.modified : \A l \in local.modified : ~Conflict(l, x)}
      InSight(x) == {l \in local.unmodified : Conflict(l, x)}
  IN  [pushed |-> [Nothing EXCEPT !.added = local.added, !.modified = resolved \cup alone,
                                  !.removed = local.removed],
       stored |-> [Nothing EXCEPT
                     !.added = found.added,
                     !.modified = resolved \cup {x \in taken : InSight(x) = {}}
                       \cup UNION {{Resolved(l, x) : l \in {l \in InSight(x) : ~Identical(l, x)}} : x \in taken},
                     !.removed = found.removed],
       dropped |-> \E l \in local.modified, x \in found.modified : Conflict(l, x) /\ Identical(l, x)]

\* The remote collection the plugin means by an id and a path.
Meant(c, p) ==
  {q \in Path : server[q].there /\ (q = p \/ (p = Null /\ c # Null /\ server[q].id = c))}

ContactsDetermined ==
  /\ call.at = "contacts"
  /\ \E q \in Meant(call.id, call.path) :
       LET local == IF call.id = Null THEN Null ELSE localChanges[call.id]
           found == IF local = Null THEN [Nothing EXCEPT !.added = Listed(q)] @@ [local |-> Nothing]
                    ELSE IF style = "lists" THEN Compared(local, Listed(q))
                    ELSE Determined(local, Listed(q))
           merged == Merged(found)
           forget == {call.id} \ {Null}
       IN  /\ localChanges' = Forgotten(localChanges, forget)
           /\ seen' = IF merged.dropped THEN seen \cup {"dropped"} ELSE seen
           /\ \/ /\ merged.pushed = Nothing
                 /\ StoreChanges(call.id, call.path, merged.stored)
                 /\ PerformNext(forget) /\ Succeeds
                 /\ UNCHANGED remoteChanges
              \/ /\ merged.pushed = Nothing          \* the store fails
                 /\ SyncOperationError(forget) /\ Fails
                 /\ UNCHANGED <<device, remoteChanges>>
              \/ /\ merged.pushed # Nothing
                 /\ remoteChanges' = [remoteChanges EXCEPT ![call.id] = merged.stored]
                 /\ call' = [at |-> "push", id |-> call.id, path |-> call.path, creates |-> FALSE,
                             pushed |-> merged.pushed]
                 /\ Succeeds
                 /\ UNCHANGED <<device, errorOccurred, outcome>>
  /\ UNCHANGED <<server, style, changes, operations, continueAfterError>>

-----------------------------------------------------------------------------
(***************************************************************************)
(* The server takes a push.  It knows a contact by its id or guid, skips   *)
(* what others have removed, gives a new contact a guid, and remembers the *)
(* ids of what the device pushed.                                          *)
(***************************************************************************)
KeysOf(q, x) == {k \in Here(q) : k = x.guid \/ server[q].contacts[k].id = x.id}
FreeKeys(q) == {k \in Key : server[q].contacts[k].state = "never"}

\* The remote collection that takes the push of call.
Targets ==
  LET known == Meant(call.id, call.path)
  IN  IF call.creates /\ known = {} THEN {q \in Path : ~server[q].there} ELSE known

\* [server, added, modified]: what it then has, and what it answers.
Taken(q, guidOf) ==
  LET added == call.pushed.added
      modified == {x \in call.pushed.modified : KeysOf(q, x) # {}}
      KeyOf(x) == IF KeysOf(q, x) # {} THEN CHOOSE k \in KeysOf(q, x) : TRUE ELSE guidOf[x]
      Answer(x) == [x EXCEPT !.guid = KeyOf(x), !.base = x.shown]
      At(k) ==
        CASE \E x \in added \cup modified : KeyOf(x) = k ->
               LET x == CHOOSE x \in added \cup modified : KeyOf(x) = k
               IN  [state |-> "here", id |-> x.id, has |-> x.shown]
          [] \E x \in call.pushed.removed : k \in KeysOf(q, x) -> [NoRemote EXCEPT !.state = "gone"]
          [] OTHER -> server[q].contacts[k]
  IN  [server |-> [server EXCEPT ![q] = [there |-> TRUE, id |-> call.id, contacts |-> [k \in Key |-> At(k)]]],
       added |-> {Answer(x) : x \in added},
       modified |-> {Answer(x) : x \in modified}]

\* localChangesStoredRemotely: what the plugin gives back replaces the remote
\* modifications of the same contacts.
Acknowledged(taken) ==
  LET cached == IF remoteChanges[call.id] = Null THEN Nothing ELSE remoteChanges[call.id]
      answers == taken.added \cup taken.modified
  IN  [cached EXCEPT !.modified = answers \cup {x \in @ : \A y \in answers : y.id # x.id}]

Push ==
  /\ call.at = "push"
  /\ \E q \in Targets :
       LET new == {x \in call.pushed.added : KeysOf(q, x) = {}}
       IN  \E guidOf \in Injection(new, FreeKeys(q)) :
             LET taken == Taken(q, guidOf)
             IN  /\ server' = taken.server
                 /\ \/ /\ StoreChanges(call.id, q, Acknowledged(taken))
                       /\ remoteChanges' = [remoteChanges EXCEPT ![call.id] = Null]
                       /\ PerformNext({}) /\ Succeeds
                    \/ /\ SyncOperationError({}) /\ Fails     \* the answer is lost
                       /\ UNCHANGED <<device, remoteChanges>>
                    \/ /\ SyncOperationError({}) /\ Fails     \* the store fails
                       /\ remoteChanges' = [remoteChanges EXCEPT ![call.id] = Null]
                       /\ UNCHANGED device
  /\ UNCHANGED <<style, changes, localChanges, operations, continueAfterError, seen>>

Emptied(q) ==
  [there |-> FALSE, id |-> Null,
   contacts |-> [k \in Key |-> IF k \in Here(q) THEN [NoRemote EXCEPT !.state = "gone"]
                               ELSE server[q].contacts[k]]]

\* deleteRemoteCollection, and remoteCollectionDeleted.
DeleteRemoteCollection ==
  /\ call.at = "delete"
  /\ server' = [q \in Path |-> IF q \in Meant(call.id, call.path) THEN Emptied(q) ELSE server[q]]
  /\ \/ /\ collection' = [collection EXCEPT ![call.id] = ClearedCollection(call.id)]
        /\ contact' = ClearedContacts(call.id, contact)
        /\ PerformNext({}) /\ Succeeds
     \/ /\ SyncOperationError({}) /\ Fails        \* the answer is lost, or clearing fails
        /\ UNCHANGED device
  /\ UNCHANGED <<style, caches, continueAfterError, seen>>

\* The plugin reports an error: the server did nothing, or the collection is
\* not there any more.
PluginError ==
  /\ call.at \in {"collections", "contacts", "push", "delete"}
  /\ \/ Fails
     \/ /\ call.at = "contacts" /\ Meant(call.id, call.path) = {} /\ Succeeds
     \/ /\ call.at = "push" /\ Targets = {} /\ Succeeds
  /\ SyncOperationError({})
  /\ UNCHANGED <<device, server, style, caches, continueAfterError, seen>>

\* The adaptor is destroyed, perhaps with its process, and there is a new one.
NewAdaptor ==
  /\ outcome # "none"
  /\ IF call = Idle THEN Succeeds ELSE Fails
  /\ changes' = [added |-> <<>>, modified |-> <<>>, removed |-> <<>>, unmodified |-> <<>>]
  /\ localChanges' = [c \in Local |-> Null]
  /\ remoteChanges' = [c \in Local |-> Null]
  /\ operations' = <<>>
  /\ errorOccurred' = FALSE
  /\ continueAfterError' = FALSE
  /\ call' = Idle
  /\ outcome' = "none"
  /\ seen' = {}
  /\ UNCHANGED <<device, server, style>>

\* removeAllCollections, when the account is deleted.
RemoveAllCollections ==
  /\ call = Idle
  /\ used.edits < MaxEdits
  /\ used' = [used EXCEPT !.edits = @ + 1]
  /\ StoreDeletions({c \in Local : collection[c].state = "row"})
  /\ seen' = seen \cup {"local"}
  /\ UNCHANGED <<server, style, caches, errorOccurred, continueAfterError, call, outcome>>

-----------------------------------------------------------------------------
(***************************************************************************)
(* What users do on the device, and other clients of the server there.     *)
(***************************************************************************)
Edit ==
  /\ used.edits < MaxEdits
  /\ used' = [used EXCEPT !.edits = @ + 1]
  /\ seen' = seen \cup {"local"}
  /\ UNCHANGED <<server, style, caches, errorOccurred, continueAfterError, call, outcome>>

SaveNewContact(c, d) ==
  /\ Edit
  /\ collection[c].state = "row"
  /\ Unused # {}
  /\ LET r == CHOOSE r \in Unused : \A other \in Unused : r <= other
     IN  contact' = [contact EXCEPT ![r] =
           Written(Flagged([Blank EXCEPT !.state = "row", !.in = c], "added", collection[c].records),
                   {d}, collection[c].records)]
  /\ UNCHANGED collection

SaveContact(r, d) ==
  /\ Edit
  /\ Live(r)
  /\ contact[r].in # Null /\ collection[contact[r].in].state \in {"row", "deleted"}
  /\ LET records == collection[contact[r].in].records
         shown == IF d \in contact[r].shown THEN contact[r].shown \ {d} ELSE contact[r].shown \cup {d}
     IN  contact' = [contact EXCEPT ![r] = Written(Flagged(@, "modified", records), shown, records)]
  /\ UNCHANGED collection

RemoveContact(r) ==
  /\ Edit
  /\ Live(r)
  /\ collection[contact[r].in].state \in {"row", "deleted"}
  /\ contact' = [contact EXCEPT ![r] = Flagged(@, "deleted", collection[@.in].records)]
  /\ UNCHANGED collection

SaveNewCollection(c) ==
  /\ Edit
  /\ collection[c].state = "unused"
  /\ \A other \in Local : collection[other].state = "unused" => c <= other
  /\ collection' = [collection EXCEPT ![c].state = "row", ![c].flags = {"added"}]
  /\ UNCHANGED contact

SaveCollection(c) ==
  /\ Edit
  /\ collection[c].state = "row"
  /\ collection' = [collection EXCEPT ![c].flags = @ \cup {"modified"}]
  /\ UNCHANGED contact

RemoveCollection(c) ==
  /\ Edit
  /\ collection[c].state = "row"
  /\ collection' = [collection EXCEPT ![c].state = "deleted"]
  /\ contact' = [r \in Row |-> IF r \in RowsOf(c) /\ Live(r)
                               THEN Flagged(contact[r], "deleted", collection[c].records)
                               ELSE contact[r]]

RemoteChange ==
  /\ used.remote < MaxRemote
  /\ used' = [used EXCEPT !.remote = @ + 1]
  /\ seen' = seen \cup {"remote"}
  /\ \E q \in Path :
       server' \in
         {[server EXCEPT ![q] = [NoServer EXCEPT !.there = TRUE, !.contacts = server[q].contacts]] :
            x \in {x \in {q} : ~server[q].there}}
         \cup {[server EXCEPT ![q] = Emptied(q)] : x \in {x \in {q} : server[q].there}}
         \cup {[server EXCEPT ![q].contacts[k] = [state |-> "here", id |-> Null, has |-> {d}]] :
                 k \in {k \in FreeKeys(q) : server[q].there}, d \in Detail}
         \cup {[server EXCEPT ![q].contacts[k].has = IF d \in @ THEN @ \ {d} ELSE @ \cup {d}] :
                 k \in Here(q), d \in Detail}
         \cup {[server EXCEPT ![q].contacts[k] = [NoRemote EXCEPT !.state = "gone"]] : k \in Here(q)}
  /\ UNCHANGED <<device, style, caches, errorOccurred, continueAfterError, call, outcome>>

-----------------------------------------------------------------------------
\* Nothing anywhere, or a collection with a contact that was synced before.
Init ==
  /\ style \in Style
  /\ \/ /\ collection = [c \in Local |-> NoRow]
        /\ contact = [r \in Row |-> Blank]
        /\ server = [q \in Path |-> NoServer]
     \/ LET first == CHOOSE c \in Local : \A other \in Local : c <= other
            row == CHOOSE r \in Row : \A other \in Row : r <= other
            q == CHOOSE q \in Path : TRUE
            key == CHOOSE k \in Key : TRUE
            shown == {CHOOSE d \in Detail : TRUE}
            known == [NoRemote EXCEPT !.state = "here", !.has = shown]
        IN  /\ collection = [c \in Local |->
                 IF c = first THEN [NoRow EXCEPT !.state = "row", !.path = q, !.records = TRUE] ELSE NoRow]
            /\ contact = [r \in Row |->
                 IF r = row THEN [Blank EXCEPT !.state = "row", !.in = first, !.guid = key,
                                               !.shown = shown, !.base = shown]
                 ELSE Blank]
            /\ server = [p \in Path |->
                 IF p = q THEN [NoServer EXCEPT !.there = TRUE, !.contacts[key] = known] ELSE NoServer]
  /\ changes = [added |-> <<>>, modified |-> <<>>, removed |-> <<>>, unmodified |-> <<>>]
  /\ localChanges = [c \in Local |-> Null]
  /\ remoteChanges = [c \in Local |-> Null]
  /\ operations = <<>>
  /\ errorOccurred = FALSE
  /\ continueAfterError = FALSE
  /\ call = Idle
  /\ outcome = "none"
  /\ used = [edits |-> 0, remote |-> 0, syncs |-> 0, errors |-> 0]
  /\ seen = {}

Sync ==
  \/ StartSync \/ CollectionsDetermined \/ FinishSync \/ StartCollectionSync
  \/ ContactsDetermined \/ Push \/ DeleteRemoteCollection

Trouble == StartSyncFails \/ PluginError \/ NewAdaptor

User ==
  \/ RemoveAllCollections
  \/ \E c \in Local : SaveNewCollection(c) \/ SaveCollection(c) \/ RemoveCollection(c)
  \/ \E c \in Local, d \in Detail : SaveNewContact(c, d)
  \/ \E r \in Row : RemoveContact(r) \/ \E d \in Detail : SaveContact(r, d)

Next == Sync \/ Trouble \/ User \/ RemoteChange

Spec == Init /\ [][Next]_vars

-----------------------------------------------------------------------------
\* A contact that is not a row has nothing, marks are on what is shown, what is
\* unhandled is also not cleared, and the lists name contacts that were stored.
TypeOK ==
  /\ \A c \in Local :
       /\ collection[c].state \in {"unused", "row", "deleted", "purged"}
       /\ collection[c].path \in Path \cup {Null}
       /\ collection[c].flags \subseteq {"added", "modified"}
       /\ collection[c].records \in BOOLEAN
       /\ \A list \in {localChanges[c], remoteChanges[c]} \ {Null} :
            \A x \in list.added \cup list.modified \cup list.removed :
              x.id \in Row => contact[x.id].state # "unused"
  /\ \A r \in Row :
       /\ contact[r].state \in {"unused", "row", "purged"}
       /\ contact[r].state # "row" => contact[r] = [Blank EXCEPT !.state = contact[r].state]
       /\ contact[r].state = "row" => contact[r].in \in Local
       /\ contact[r].unhandled \subseteq contact[r].flags
       /\ contact[r].unhandledAdded \subseteq contact[r].added
       /\ contact[r].added \subseteq contact[r].shown
  /\ outcome \in {"none", "running", "success", "error"}

\* Told to be successful, the first sync of an adaptor leaves the device and
\* the server with the same collections and contacts, each once and unflagged,
\* if neither was changed since it began.  A remote collection the plugin
\* knows by the id of one the device has purged is ignored for ever.
InStep ==
  LET agreed == outcome = "success" /\ call = Idle /\ seen = {}
      Pairs == {<<c, q>> \in Local \X Path :
                  collection[c].state = "row" /\ q \in Meant(c, collection[c].path)}
      Ignored(q) == server[q].id # Null /\ collection[server[q].id].state = "purged"
  IN  agreed =>
        /\ \A c \in Local :
             /\ collection[c].state # "deleted" /\ collection[c].flags = {}
             /\ collection[c].state = "row" => \E q \in Path : <<c, q>> \in Pairs
        /\ \A q \in Path : server[q].there /\ ~Ignored(q) =>
             Cardinality({c \in Local : <<c, q>> \in Pairs}) = 1
        /\ \A <<c, q>> \in Pairs :
             /\ \A r \in RowsOf(c) :
                  /\ contact[r].flags = {}
                  /\ contact[r].guid \in Here(q)
                  /\ contact[r].shown = server[q].contacts[contact[r].guid].has
             /\ \A k \in Here(q) : Cardinality({r \in RowsOf(c) : contact[r].guid = k}) = 1

\* A detail a user added to a contact stays marked until the server has it,
\* has had the contact taken away by another client, or the contact is purged.
\* Not so for what was added after the sync fetched the contact and is written
\* over by its remote version, and for a local contact that is what comes of
\* merging it with the remote one: that is taken for equality with the remote
\* one, and nothing is pushed.
EditsReachServer ==
  [][\A r \in Row, d \in Detail :
       (/\ used'.edits = used.edits
        /\ Live(r) /\ d \in contact[r].added /\ d \notin contact'[r].added)
       => \/ \E q \in Path, k \in {contact'[r].guid} \ {Null} :
               \/ server'[q].contacts[k].state = "gone"
               \/ d \in server'[q].contacts[k].has
          \/ contact'[r].state = "purged"
          \/ d \in contact[r].unhandledAdded /\ d \notin contact'[r].shown
          \/ "dropped" \in seen']_vars

\* The first sync of an adaptor takes from the server only the contacts that
\* users of the device removed, alone or with their collection.
DeletesOnlyTheDeleted ==
  [][used'.remote = used.remote /\ "again" \notin seen =>
       \A q \in Path : \A k \in Here(q) :
         k \notin Here(q)' =>
           \E c \in Local :
             \/ collection[c].state = "deleted" /\ q \in Meant(c, collection[c].path)
             \/ \E r \in RowsOf(c) :
                  Deleted(contact[r]) /\ (k = contact[r].guid \/ server[q].contacts[k].id = r)]_vars
=============================================================================
