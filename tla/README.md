# A TLA+ model of qtcontacts-sqlite

qtcontacts-sqlite is the QtContacts backend of Sailfish OS: contacts live in one
SQLite database that several processes open at once, with no server between
them.  This directory holds TLA+ modules that model its core, the TLC
configurations that check them on small instances, and theorems that TLAPS
checks for every instance.  `PROJECT.json` lists, for every definition, the
lines of the source that it stands for.

Paths below are relative to `src/src/engine/` unless they say otherwise.

## Running it

    tlc -workers 2 -config MCTransactions.cfg MCTransactions.tla
    tlapm ContactStoreProofs.tla

Each `.cfg` is run with the `MC*.tla` module it is named after (the longest
module name that begins its name: `MCContactStoreStale.cfg` goes with
`MCContactStore.tla`).  No run takes more than about three minutes with two workers.

## Inventory

### How the parts interact

A client calls a `ContactsEngine`.  A synchronous call goes straight to the
`ContactWriter` or `ContactReader` of the engine's own `ContactsDatabase`; an
asynchronous request becomes a job that `JobThread` executes with a writer,
reader and `ContactsDatabase` *of its own*.  So one process already has two
connections, each with its own `accessMutex`, and only the process mutex, a
System V semaphore, keeps them and the other processes apart.  Inside a
transaction the writer changes tables and change flags; after the commit it
emits D-Bus signals through `ContactNotifier`.  A sync plugin drives the
fetch-store-clear protocol through the extension requests and
`TwoWayContactSyncAdaptor`.  Presence and other transient details bypass SQLite:
they go to a `MemoryTable` in shared memory, under semaphores of their own.

### The components

| Component | State | Operations | What is hard |
|---|---|---|---|
| Semaphores (`semaphore_p.cpp`) | a kernel semaphore array | decrement, increment with SEM_UNDO, create | death of a process, creation race, time-outs |
| Process mutex and transactions (`contactsdatabase.cpp`) | semaphore value, SQLite's writer lock | begin, commit, rollback | every error path; rollback releases what *somebody* has locked |
| Change flags and sync (`contactwriter.cpp`) | `changeFlags`, `unhandledChangeFlags`, `recordUnhandledChangeFlags` | save, remove, undelete, fetchContactChanges, storeChanges, clearChangeFlags | local writes between fetch and clear; reads made before the transaction |
| Memory table (`memorytable.cpp`) | index, heap and free list in one region | insert, replace, remove, migrate | fragmentation, boundaries, 16-bit sizes |
| Asynchronous jobs (`contactsengine.cpp`) | three job lists, the current job, one pending event | start, cancel, destroy, wait, deliver, shut down | slots that call back during a delivery; waits that reorder the queue |
| Transient store (`contactstransientstore.cpp`) | key and data regions, generations, semaphores | open, set, remove, iterate, reallocate | stale generations, release of copied locks |
| Aggregation (`contactwriter.cpp`) | aggregates, `Aggregates` relationships, details | match, set, regenerate, remove childless, aggregate orphans | every path must keep aggregates and constituents in step |
| Details (`contactwriter.cpp`, `contactreader.cpp`) | 26 detail tables, rows with flags, the transient copy | read, constraints, delta, durable or transient write, fetch and clear | which row a detail goes to, failure half way, what hides what |
| Contact delta (`../extensions/contactdelta_impl.h`) | none | pair the details of two versions of a contact | equal details, details without ids |
| Open (`contactsdatabase.cpp`) | the file, its version, the connection count | open, create, own, upgrade | death between file and tables, two first openers |
| Schema and label groups (`contactsdatabase.cpp`) | tables, columns, indexes, triggers, settings | 23 upgrades, creation, regeneration of groups | scripts of many years that must end in one schema |
| Reader (`contactreader.cpp`) | none | queries | SQL text, and reads that feed a write |
| Notifier (`contactnotifier.cpp`) | none | D-Bus signals after commit | order between processes |
| Two-way sync adaptor (`../extensions/`) | lists of changes and a queue of operations | fetch, match, merge, push, store, finish | conflicts, lost answers, partial failure, an object used again |
| Engine, ids, conversion, plugin glue | none to speak of | forwarding, formatting | little |

### What makes them correct

* Transactions: one writer at a time; the lock is never leaked, by no error and
  by no death; nobody waits for ever.
* Change flags: every local change is reported to a sync, once it is dealt
  with it is not reported again, a sync does not see its own writes, a deletion
  is neither forgotten nor undone, a row goes only when its deletion is known.
* Memory table: it is a map; blocks never overlap, leak, or belong to two owners.
* Jobs: every request ends and is told once; nothing deleted is used; the
  engine can be destroyed.
* Transient store: one process in a region at a time, all in the same generation.
* Aggregation: each aggregated constituent has exactly one aggregate with its
  details, and each aggregate has constituents.
* Details: what was saved is what a read shows, whichever table and column it
  goes through; what was not changed is not touched; what the server lacks is flagged.
* Two-way sync: what users of the device did reaches the server, nothing goes
  that nobody deleted, and after a sync both sides are alike.
* Database: whoever opens it sees all tables of the newest version.
* Schema: an upgraded database is what a new one would be, with all local contacts;
  label groups are those of the locale in force.

`PROJECT.json` lists the hazards behind these, each at the line where it bites.

## The modules

| Module | What it is |
|---|---|
| `WriteLock` | abstract: what the process mutex promises |
| `Transactions` | begin, commit, rollback, the semaphore and its undo, death of processes; implements `WriteLock` |
| `TransactionsProofs` | theorems about `Transactions` |
| `ContactStore` | contacts, collections, change flags, local writers, sync clients |
| `ContactStoreProofs` | theorems about `ContactStore` |
| `TableMap` | abstract: a map that may refuse insertions |
| `MemoryTable` | the table in shared memory; implements `TableMap` |
| `MemoryTableProofs` | theorems about `MemoryTable` |
| `JobThread` | the job thread, the client thread and its slots |
| `JobThreadProofs` | theorems about `JobThread` |
| `TransientStore` | the regions, generations and locks around the tables, in several processes |
| `TransientStoreProofs` | theorems about `TransientStore` |
| `DatabaseOpen` | who creates the database, owns it, upgrades it and may open it, in processes of several releases |
| `DatabaseOpenProofs` | theorems about `DatabaseOpen` |
| `Schema` | the statements of creation and of all upgrades, their transaction, the label groups |
| `DetailTables` | the 26 detail tables: columns, bindings, positions in the joined row, conversions (no state) |
| `ContactDelta` | `determineContactDetailDelta` (no state) |
| `Details` | the details of one contact: rows, transient copy, a client's copy, a sync |
| `DetailsProofs` | theorems about `Details`, and about `ContactDelta` and `DetailTables` under it |
| `TwoWaySync` | the two-way adaptor between a device and a server |
| `Aggregation` | contacts, their aggregates, matching and regeneration, relationships |
| `AggregationProofs` | theorems about `Aggregation` |
| `MC*` | instances for TLC |

The modules stack by an argument, not by INSTANCE: `Transactions` justifies that
`ContactStore` takes a whole transaction as one step (where it does not, after
the two error paths in the findings, SQLite's own lock still serialises the
writers, and what suffers is waiting and time-outs); `JobThread` executes, as one
opaque job, what `ContactStore` describes.  `TransientStore` takes a table for the set
of keys it has and an insertion or migration for one step under the data lock, which
`MemoryTable` details.  `DatabaseOpen` comes before all of them: it says when a
connection is open.  Its semaphore for write access is the one of `Transactions`,
taken here for the upgrade only.  `Schema` is what `DatabaseOpen` takes for one step, the
transaction of the owner.
`Details` EXTENDS `ContactDelta`, which EXTENDS `DetailTables`: together they are what a save
of `ContactStore` does to the rows of one contact.  `TwoWaySync` has a device that consists of
`ContactStore`'s transactions with contents, and puts the adaptor and a server on top.
`Aggregation` looks at the same writer as `ContactStore`, at what a transaction does with the aggregates
instead of the flags; both agree on what is deleted and when a row goes.

### Transactions

State: where each connection is (`pc`), which kind of operation it performs,
how many times its error path still calls `rollbackTransaction`, the semaphore's
value, the kernel's undo adjustment of each process, and the connection inside a
SQLite write transaction.  `Lock`, `Begin`, `Unbegin` are the steps of
`ContactsDatabase::beginTransaction`; `Commit`/`CheckCommitted`/`UnlockCommitted`
and `Rollback`/`CheckRolledBack`/`UnlockRolledBack` those of `commitTransaction`
and `rollbackTransaction`, with the test `isLocked()` and the release that
follows it as two steps, because another process can act between them.
`LockFails`, `BeginFails`, `BodyFails`, `CommitFails` are the failures.
`Crash` is the death of a process at any step: SQLite drops its lock and the
kernel applies its adjustment, clipped at zero.

Three kinds of operation differ on their error paths.  `FetchContactChanges` rolls
back even if `beginTransaction` failed.  `ClearCollectionFlags` stands for both callers of
`clearChangeFlags(contacts, true)` on the contacts of a collection: `clearChangeFlags(collection)` by itself, and
`storeChanges` with `clearChangeFlags` set, which is how the two-way sync stores what it
has got (`contactwriter.cpp:1881`).  When the purge in the nested call fails, that call rolls back, and
then the outer one does.  `Write` stands for the rest, `storeChanges` without clearing
included: they roll back once, after `beginTransaction` has succeeded.  The passing run and the
proofs have `Write` alone; the other two are what finding 1 is about.

### ContactStore

State: the columns named above for each row of `Contacts` and `Collections`, what
each writer has read before its transaction (`request`), whether a sync is
between fetch and clear (`phase`), and four history variables: local changes no
fetch has reported (`fresh`), local changes reported to a sync that is not done
(`reported`), contacts the remote side deleted, and contacts that were written in
one of the two ways known to lose changes (`tainted`).

`BeginSave`/`Save` and `BeginRemove`/`Remove` are the two halves of
`ContactWriter::save` and `remove`, split where the code begins its transaction;
`Abandon` is every way the second half does not happen.  A batch is all or nothing,
and an `UPDATE` of a row that is gone does nothing.  `ClearFlags` is the body
shared by the two callers of `clearChangeFlags(collection)`.  `StoreChanges`
applies additions, modifications and deletions in that order, and with
`clear = TRUE` it commits what was done before an error, as the code does.

Flags are sets of "added", "modified", "deleted" in place of bit masks; the code's
`>= 4` is membership of "deleted", since the other bits sum to 3.

Left out: aggregates and the collections that are aggregated (a contact there has
the same flags, and its aggregate has none of interest to sync), details and
their own flags, and the collections' own flags but for the deletion.

### MemoryTable

A table is a record of its size, index, the heap's lower end, the free list,
each block's recorded size, and each block's contents.  `Allocated`, `Deallocated`,
`Inserted`, `Removed` are `allocate`, `deallocate`, `insert`, `remove`; sizes
and offsets are the code's (8 bytes of index element, 16 of table header, 4 of
block header, at least 8 per block, rounded up to 4, recorded in 16 bits).  The
free list is searched for the first of the smallest blocks that fit, and blocks
are neither divided nor merged.  `BeginMigration`, `MigrateNext`,
`MigrationFails`, `EndMigration` are `migrateTo` as `reallocateTable` uses it.
The sorted array of the index is a function; the bytes of a value are its name
and length.  The tables of the run `memorytable` are far smaller than 64 KiB, so it says nothing of the edge
where 16 bits overflow: that is finding 4, with other constants, and the
hypothesis `SmallValues` of the theorems.

### JobThread

Everything under `m_mutex` is one step, so are the deliveries of one job.  `worker`
is where `run()` is; `Loop` is its loop from having the mutex to letting go of it.
The client thread starts, cancels, destroys requests and waits for them, either
from its event loop or from a slot called by a delivery (`delivery.phase`
`"slot"`), and `event()` goes on with its *copies* of the lists, as the code does.
A wait can be signalled, spuriously too early for its request, or time out.
`databaseOpen = FALSE` is the thread whose database did not open and which fails
every job.  `Close` is the destructor.  Requests of the extensions differ in
one thing: their destructors do not tell the engine.

`careless` records what makes a dangling pointer possible: an extension's request
destroyed while active, or a slot that destroys or waits for a request whose job
the running `event()` still points to.

### TransientStore

State: the two semaphores with the kernel's undo adjustments, `m_mutex` of each
process, the generation in the key region, a data region (capacity and keys) for
each generation, `m_tables` of each process, and for each thread where it is and
of which process, which is chosen when it begins: two threads are those of one
process in some behaviours and of two in others.  `Begin`
to `LockDataCannotAttach` are `open` and `table`, whose loops are the same but for
their ends: mutex, key lock, data lock, and back to the key lock if the data
lock is not to be had.  What is done with the table is chosen when it is locked,
and `Finish` is what the destructors do: the data lock is released, and regions
that nobody has attached any more are destroyed.  `BeginReallocation` to
`SetFails` are `setContactDetails` with a full table; `AttachableRegion` is the
fallback of `getDataRegion` to the previous generation, because of which the first
reallocation keeps region 1 and only generation 3 has a new one.  Attempts can time out
whenever the semaphore is taken, which is what any time-out may do, a very short
one too (hazards).  `Exit` detaches from the regions; `Crash` leaves
them behind, as System V shared memory does, with the semaphores adjusted.

`DataLock` and `EndIteration` count the three destructors of a handle that
`dataLock` copies twice.  Values have one size, so a region has a capacity; that
QSharedMemory detaches and removes is one step; a process does not die in the middle
of a table operation; the attributes of `createIfNecessary` are those the engine
passes (it always is true).  The stores of privileged and other contacts have
regions of their own, and there is one of them here.

`stored`, `revived` and `iterated` are history: what must be in the table; what may come
up in it since it was in a region that a dead process left behind, or in the
previous generation when the current one is gone; and whether somebody has iterated.
`DataExcludes` and `StoreShared` speak of the time before that (finding 5).

### DatabaseOpen

State: which file the path names, the schema version of each file, the three
semaphores of each key with the undo adjustments of each process, and for each
connection where it is in `open()` and what it found out there (`preexisting`,
`owner`, `secondary`).  A file keeps its identity when it is removed, because those who
have it open go on with it.  A key is what `ftok` makes of the path when the
semaphores are attached: it belongs to the file that the path names at that time, and
key 0 is that of no file.

`FindFile` to `RemoveFile` are the part of `open()` that creates the file and its
tables, `AttachSemaphores` to `IncrementConnections` the constructors of
`Semaphore` and `ProcessMutex`, and `Lock` to `CheckVersion` the upgrade or the
check that replaces it.  `SetValue` sets one of the three values, since
others can attach to the array between them.  `Exit` is the end or the death of a
process at any point.

Each transaction (preparation, upgrade) is one step, detailed in `Schema`: SQLite serialises them, and
where its lock is not to be had in time the step fails, which it may at any
time.  The count and the release of the ownership are one step, and so are the commit
and the release of the lock after an upgrade; between them nothing is
read that another process changes.  Left out: a `semget` that fails, the number
of an i-node that is used again, and the display label groups that are regenerated when
the locale or the generators have changed.

Five history variables say when what the properties promise is known not to
hold: `deserted` (nobody may be left to prepare the file), `raced` (two
connections set out to create it), `recounted` (the count of connections was
lost), `unset` (semaphores nobody will set) and `overtaken` (a connection that
became ready while an owner was about to upgrade).

### Aggregation

State: the rows of `Contacts` with the details that the matching looks at, the
relationships of both types that matter, and for each client what a removal has found out
before its transaction.  A transaction is a function from such a database to the set
of databases it may result in: several, because the query for the best match
leaves open which of equal ones it returns, and none if it fails.  So the functions
of the writer are operators that compose as they call each other, and loops over contacts are recursive functions
of the set of contacts that is left:
`UpdateOrCreateAggregate`, `SetAggregate`, `RegenerateAggregates`,
`RemoveChildlessAggregates`, `AggregateOrphanedContacts`.

`Create`, `Update` and `Undelete` are `save` of one contact; `BeginRemoval` and
`CompleteRemoval` are the two halves of `remove`; `SaveAggregates`, `SaveIsNot`,
`RemoveAggregates`, `RemoveIsNot` save and remove a relationship, and `Purge` is
what `clearChangeFlags` does with the row of a deleted contact.

Names have two parts, genders and names are composed, and all other types are
sets: nicknames, which count 1 or 15 in a match, and values (phone numbers, addresses and
accounts together, which count 3 once, for the query unites equal scores).  A save may be limited to some
types, and then the aggregate is regenerated for these types only.

Left out: the self contacts, whose aggregate is never matched or removed; batches of several contacts; a
save that is of presence only, which does not look for orphans; the removal of a
collection; what clients should not relate, as aggregates with aggregates; the
signals.  Constituents are read in the order of their ids.

Two history variables, `dated` and `linked`, say where the code is known not to keep aggregates
in step (finding 9) and which contacts a client has given a second aggregate.

### Schema

State: the database as it is committed (`file`) and in the transaction (`work`), the
statement that is next (`at`), what the process is doing, and the locale and group
property of the device (`env`).  A database is its tables with their columns and rows, its
indexes, triggers and settings, whether its values are stored with their types, and where its label groups come from.
`createStatements` and `upgradeVersion0` to `upgradeVersion23` are the arrays of the source in its
order, each statement an element: `CreateTable`, `CopyRows`, `DeleteStale` and the like
name what the SQL does.  `Possible` says when SQLite executes a statement (what it
creates is not there, what it changes or copies is) and `Executed` what comes of it.
`Function` is the C++ function that some versions run before their script.  `TableSpan`,
`ColumnSpan`, `IndexesAt` and `TriggersAt` say what each release has: they make the
databases to start from (`DatabaseAt`) and are what the result is compared with.

`Rollback` is a failure anywhere in the transaction, `Die` the end of the process there;
both are followed by another attempt.  `EngineOpens` is `regenerateAggregatesIfNeeded`, and
`PropertyChanges` and `EnvironmentChanges` are what makes label groups outdated.

A database to be upgraded has, besides the self contact, a local contact, a synced one, both, or
both under one aggregate (`Peoples`), with a name and a number each.  Rows that an upgrade exists to remove
(of contacts deleted before release 13, with wrong flags, without a
constituent) are there in the versions that could have them.  The groups are a
function of locale, property and the way they are made.

Left out: columns all releases have, `updateNormalizedNumbers` (`contactsdatabase.cpp:1700`),
provenance, temporary tables, a database of a newer version, the build without
MLite, and that SQLite rewrites triggers when it renames a table.

### DetailTables, ContactDelta, Details

`DetailTables` has three readings of the source side by side: the columns that
`CREATE TABLE` gives each of the 26 tables, the column each `bind` function fills from which field
and by which conversion, and the position from which each `setValues` of the reader takes a field of the joined row.
Nothing makes them agree but the code; `RowOf` writes with the second, `ReadRow` reads
with the third from a row laid out by the first.  A value is one of "unset", "zero", "plain",
"other" and "rough" (what a conversion smooths: white space around a text, a list
element with a separator in it, a date with a time).

`ContactDelta` pairs the details of two versions of a contact as the source does: exact matches,
then equal database ids, then the pair with the lowest score, for as long as there are any.  Which of
equally similar pairs the source takes first is the order of a hash, so there are several results.

`Details` has the rows of one contact (flags, unhandled flags, times), its details in the
transient store, the copy that a client has read and edits, `recordUnhandledChangeFlags`,
and what the sync adaptor was given.  `Read`, `Edit`, `SaveDurable`, `SaveTransient` and
`SaveRefused` are the client; the two kinds of save are the branches of `update` for
masks that name presence only and for all others.  `write` goes through the types in the order
of the source and stops where it does, with or without an error.  `FetchChanges`
and `ClearFlags` are the sync; `Reboot` loses the transient store.

The behaviours are of several kinds (`Mixes`), since 26 types with all their fields at once are
beyond any instance: each type alone with all of its fields, and the types whose saves
depend on each other together with one field each.

A write that fails rolls the tables back, and there are two ways to fail: to add a detail of a type whose
row a removed one still takes (`UniqueContact`), and to change a GeoLocation (`NotUpdatable`),
whose UPDATE is not a statement (finding 13).  `saved` records of each save that was admitted
whether it was done, and `SavedIsShown` says two things: a save that was done is what a
read shows, and one that was not had one of these two reasons.

Left out: the branch of `writeDetails` that replaces all details (aggregates
only), the regeneration of the DisplayLabel, provenance and its detail, what QtPIM itself
does in `setValue` and `isEmpty` (assumed to do what it says).

### TwoWaySync

State: the device (`collection`, `contact`: rows with a state, flags, details with "added"
flags, and unhandled flags), the `server`, the members of the adaptor (`changes`, `localChanges`, `remoteChanges`,
`operations`, `errorOccurred`, `continueAfterError`) and what it waits for (`call`), because between two callbacks
of the plugin everybody else can act.

`StartSync`, `CollectionsDetermined`, `PerformNext`, `StartCollectionSync`, `ContactsDetermined`, `Push`,
`Acknowledged`, `DeleteRemoteCollection`, `FinishSync` and `SyncOperationError` are the functions of the
adaptor in the order of a sync; `FetchContactChanges`, `StoreChanges`, `StoreDeletions`
and `ClearedCollection` the engine's transactions.  The plugin is external: it either lists what the server has and lets the
adaptor find out what has changed, or determines changes itself (`style`), as those
of the tests do.  It knows remote contacts by guids and may learn the device's ids (`Targets`).
`Trouble` is an error of the plugin before or after the server has acted, an error
of the database, and the death of the process (`NewAdaptor`).  `User` edits the device at any
time; `RemoteChange` is another client of the server.

A contact holds a set of details of one type where the code has lists of many.  `seen` is history: "again" when
the adaptor was used before, "dropped" when a merge was taken for the remote version,
"local" and "remote" when somebody has changed something on that side since (finding 12).

Left out: the delta sync of a plugin that knows what changed since an anchor, and two
adaptors at once.

## The runs

| Run | Bounds | What it shows |
|---|---|---|
| `transactions` | 2 processes, 2 connections each | the lock excludes, is accounted for exactly, is not contended by SQLite's own, comes to everybody, and implements `WriteLock` |
| `transactions_fetch` | same | **violation**: `fetchContactChanges` frees another's lock |
| `contactstore` | 1 writer, 1 collection to be created, 2 contacts, all interleaved with its sync client | nothing is lost but in the two known ways, nothing echoes, nothing is purged unreported or comes back |
| `contactstore_stale` | same | **violation**: a stale answer loses a change |
| `memorytable` | 3 keys, 3 sizes of blocks, 2 sizes of regions | heap, ownership, migration, and the map |
| `jobthread` | 3 requests, one an extension's | no job lost, doubled or misused, and the liveness of requests, waits, cancellations and the destructor |
| `transientstore` | 2 threads of 1 or 2 processes, 2 keys, capacity 1, 3 generations, 2 attempts | until somebody iterates: exclusion in the data, everybody in the newest generation, nothing stored is lost while a process has it; always: every access ends although the locks are taken in opposite orders |
| `databaseopen` | 2 processes of 2 releases, 2 files, 1 counted connection each | one owner, one upgrade at a time, nobody waits for a semaphore that nobody will release, what is open has its tables and keeps its schema, and a file is never left unusable, but in the known ways |
| `aggregation` | 4 contacts ever, aggregates included, 2 of them constituents, 2 cards, 2 masks, 2 collections, 1 removal at a time, 1 `IsNot` | every active contact has one aggregate, aggregates have what their active constituents have, and nobody is taken apart unasked |
| `schema` | all 24 versions, 2 locales, 2 group properties, every combination of contacts | an upgrade ends in the schema that creation makes, but for known objects, keeps all local data wherever it is broken off, and leaves nothing behind; groups are current |
| `details` | 24 kinds of behaviours with one type and all its fields, and 3 with several types; 1 to 3 edits and saves, 4 rows | what a save reported as done is what a read shows, a save fails only for the two known reasons, flags tell a sync all the server lacks, no other row is touched |
| `twowaysync` | 1 remote collection, 2 rows of collections, 2 of contacts, 2 guids, 2 details; 2 edits, 1 remote change, 2 syncs, 1 error | edits reach the server, nothing goes that nobody deleted, and a sync nobody disturbs leaves both sides alike, but in the known ways |

Why the bounds are enough:

* Transactions: a process with two connections is what makes the undo adjustment
  of a process differ from a connection's lock; a second one makes others wait.
  The theorems cover any number.
* ContactStore: the collection is created, deleted and purged within the run;
  the ids of contacts are never reused (AUTOINCREMENT), so two of them give a batch with one contact that fails and one that
  is written.  One writer suffices for a stale answer, because the sync
  client is concurrent with it.  The theorems cover any number of writers,
  collections and contacts.  A symmetry of the contacts is used: no property
  of that run is a liveness property.
* MemoryTable: with 88 bytes the heap holds three small blocks and not three
  large ones, with 64 it runs full with two; every branch of `allocate` is
  reached, the reuse of a block that is too large included.
* JobThread: three requests give a queue with one executing, one moved to the
  front and one behind it.  Requests can be started again when they have
  ended, so the behaviours are unbounded in length.
* TransientStore: two threads in a process are what the mutex is for, in two processes they
  bring stale generations, exit and death.  The first region has room for one of
  two keys, so that it fills up; the third generation is needed for the fallback to
  the previous one to matter twice.  A third key or a fourth generation would
  only repeat this.  `MaxSemaphore` caps the data semaphore, which each
  iteration raises by two.
* DatabaseOpen: the older release and the newer one are the two cases of the version
  check; a second file is what a removal and a new creation need.  `MaxCount` bounds how
  often a process opens the database, because its count only grows; it does not bound
  how often one ends and starts again.  Three connections with two files are beyond
  TLC's reach in reasonable time; the theorems cover any number of both.
* Aggregation: two constituents can be matched, kept apart, taken apart and put together;
  the ids left over allow for an aggregate more than contacts, so that one can be removed and made anew.  Each of
  the two cards matches itself (by all of the name, or by a part of it and what goes with
  it) and what aggregates both, but not the other one.  The mask without any detail
  that is copied is the one under which an aggregate can come out of step.  One client that
  removes is enough, because all others act while it does.
* Schema: scripts look at no more than whether a row belongs to a local or a synced
  contact or to an aggregate of either, so one of each suffices, together and
  apart.  From each version, every statement is a point to fail or to die at, any number of times.
* Details: one edit and two saves of a type write a row, and read, change, remove or keep
  what was read.  Two rows of the same type are what pairing needs, presence is the only type that goes to
  the transient store, GlobalPresence is derived from it, and Gender is one of the
  types whose row is unique.  `MaxRows` bounds ids, which are never reused.  The fields of a type are set all at once or
  one alone, with two values and one that conversions change.
* TwoWaySync: two rows of the device for one remote collection and two for its contacts
  suffice for a duplicate, which is what matching gets wrong; two guids give the server a contact
  added twice.  Two edits interfere with each other, the remote one conflicts with them, an error comes before, between or after them,
  and the second sync finds what the first one left.

Runs with `CHECK_DEADLOCK FALSE`: `jobthread` (a closed engine does nothing more)
and those of `contactstore`, `aggregation`, `details` and `twowaysync` (contacts, rows, edits and syncs are
finitely many and ids never
reused, so the instance, unlike the program, can be used up).

## Fairness

* `Transactions`: a connection in the middle of an operation keeps running (weak
  fairness of its steps but for `Lock`), and the kernel wakes those that sleep
  on a semaphore in their order of arrival, so who could get it again and again
  does (strong fairness of `Lock`).  Nothing forces a connection to start an
  operation, to fail, or to die.
* `JobThread`: the thread runs when it can and jobs end (weak); a client that
  waits returns when signalled (weak); the client returns to its event loop
  again and again (strong fairness of the delivery, which it can interrupt by
  calling into the engine).  Clients need not do anything.  `RequestsAnswered` leaves
  out behaviours with endlessly many waits that time out, each of which moves its
  request before the others.
* `TransientStore`: a thread that can go on again and again does (strong fairness of
  `Proceed`; QMutex hands over to a waiter that has waited long enough).
  The semaphores need no fairness, because an attempt to take them times out.

The other modules state safety only.  That nobody waits in `open()` for ever is the
invariant `WaitersAreServed` of `DatabaseOpen`, a part of `OneUpgrades`: who waits has somebody who is
on the way to release what it waits for.

## What is proved

All of it holds for every value of the constants, under the modules' named
assumptions.

`TransactionsProofs`, in which all operations are assumed to be `Disciplined`
(finding 1 shows why that is needed; nothing is proved of a process that fetches
changes, or clears the flags of a collection, and fails in it):

* `TypeInvariant` needs no such assumption; its strengthening is `RollbackDue`.
* `LockSafety`, `LockAccounting`, `BeginNeverContends` rest on `IInv`: the type
  invariant, `RollbackOwed` (who is at the start of an error path owes exactly one
  rollback, nobody else owes any), `WriterHolds` (SQLite's writer is the holder),
  exclusion, and the accounting of the semaphore.  Exclusion is not inductive by
  itself: `isLocked()` says only that *somebody* has the lock, and it takes the
  accounting to know that this is the connection about to release it.
* `Refinement`: every step acquires, releases, dies, or leaves the holders alone.

`ContactStoreProofs`:

* `Invariance` of `IInv`: the types, `References` (what a request names exists and
  belongs to its collection), `Unwritten`, `Recording` (a fetched collection
  records), `Guarantee`, and `Echoless`.  The heart is `FetchedPart` of the guarantee: between
  fetch and clear, what changed since the fetch is in the unhandled flags, and a
  contact deleted before it has not changed since.  Only that makes it right
  that clearing replaces the flags by the unhandled ones and purges what is
  deleted and not unhandled.
* `TypeInvariant`, `NoOtherLoss` and `SyncIsSilent` follow.
* `DeletionsComeLast` is about steps.  It needs `DInv`, which adds to `IInv` that the deletion of
  a covered contact is owed to the sync (`DeletionsOwed`): then a row whose deletion is not
  unhandled, which is what a clearing purges, was reported.

`MemoryTableProofs`, for any keys, values and sizes of regions:

* `Invariance` of `MInv`: a table is `Laid` out (blocks lie in the heap, above the index, and apart; each is a
  key's or in the free list, once) and written, and during a
  migration the new table holds what was copied so far (`Copied`).
* `TypeInvariant` and `BlocksAreApart` hold for values of every size.  `HeapIsSound` and
  `ActsAsMap` assume `SmallValues`, that no value needs a block of 64 KiB or more: a block that does has
  its size recorded modulo that (finding 4), and the theorems are false without it.
* `ActsAsMap` is the refinement: each insertion, removal or migration step is a step of
  `TableMap` or leaves the map alone, also when a block that is too large is reused and
  when a migration is given up.

`JobThreadProofs`, for any number of requests:

* `Invariance` of `JInv`: each list has a job once, the lists, the current job and the two copies
  that `event()` works on are disjoint (`HeldOnce`), an active request has a job (`Attended`), and as long as no
  client was careless nothing points to what was deleted (`Careful`).  The copies need most of it: a slot that
  starts, cancels or destroys a request while they are worked through must leave what is in them alone.
* `TypeInvariant` and `JobsAreSound` follow.

`TransientStoreProofs`, for any number of processes, threads, keys and generations:

* `Invariance` of `LInv`: the key semaphore is one lock and so, until somebody iterates, is the data semaphore, each
  accounted for by the kernel's adjustment of exactly its holder's process (`KeyLock`, `OneDataLock`),
  the mutex names the thread that has it, and what is attached exists (`Tables`).  `TypeInvariant` and `DataLockExcludes` follow.
* `SharedInvariance` of `SInv`: until somebody iterates, whoever holds the data lock is in the region
  that the key region names, or in the one before while that does not exist, and this holds what was stored (`Newest`, `Contents`).
  It says so of holders and not of processes: a process that does not hold the lock may have
  a stale region attached, and finds out when it has it.
* `StoreIsShared` follows.

`DatabaseOpenProofs`, for any number of processes, releases, connections and files:

* `FilesInvariance` of `FInv`: where a connection is tells what it has (`Places`), who is creating
  a file (`Creation`), and that an empty file in the directory is being prepared (`NotBricked`).
  `TypeInvariant` and `FilesAreSound` follow.
* `SemaphoresInvariance` of `OInv`: two semaphores are locks whose holder the kernel's adjustments name, and
  the count is the number of increments that the kernel would undo, which is the cardinality of a
  set of tokens (`CountsSound`).  `OneConnectionUpgrades` and `SchemaIsStable` follow.
* The proof corrected the model's property: `UpgradeExcludes` used to say that two connections are never
  at the upgrade with the same file, which holds of the two connections of the run and not
  of three.  If the creator of a file cannot prepare it and removes it after a second
  connection has attached its semaphores, a third attaches those of no file, and both go to upgrade
  the file that is gone.  It is harmless, since nobody finds that file again, and the property now says so.

`AggregationProofs`, for any number of clients, contacts and details, and any masks:

* `Invariant` of `IInv`: the database is `Sound`, and what a client found out before a removal names contacts and aggregates
  that have existed (`RequestsKnown`).  `Sound(d, X, Y)` says that the database d has its types and that every shown
  contact has an aggregate and every aggregate that is not dated has exactly what its active constituents have, but for
  the aggregates of X and the contacts of Y.  Between transactions both sets are empty.
* Within a transaction they are not, and each operator of the writer has a lemma that says what it does to them: a
  row that is written puts the aggregates of the contact in X and the contact in Y (`Written`), a match
  takes the contact from Y and puts the aggregate in X (`GivenAggregate`) unless the contact is promoted to it, too
  (`GivenAndPromoted`), regenerating takes aggregates from X if all types are regenerated or only those in the mask were
  out of step (`RegeneratedSound`), and aggregating the orphans leaves Y empty (`OrphanIsAggregated`).  A step composes them.
* That ids are not used again is what makes the removal sound whose request is old: an id in it that is no
  aggregate's never becomes one's (`StillKnown`).
* The promotion of any number of contacts, in any order, gives names and genders of one of them and the union of all else
  (`AllPromoted`): by the least number of contacts for which it does not.
* `TypeInvariant` and `AggregatesAreSound` follow; `TogetherIsKept` is about steps and follows from what each step leaves (`Stays`).
* A save is of one contact in the model, so that at most one contact is an orphan when orphans are
  aggregated, and the proof uses that.

`DetailsProofs`, for any mix of types and masks, and any number of edits, saves, syncs and rows:

* `TypeInvariant` takes the types through all of a save: a table has the columns of its type and each conversion
  makes a value of a value (`RowTyped`, `ReadRowTyped`, from the 26 tables one by one), the global presence is one
  with all its fields (`GlobalPresenceSound`), and every step writes to a row that is there and of the type of
  its detail, or to none.
* `FlagsTell` rests on `Inv`: the types, `FlagsTellChanges`, `NewIsUntold` (the server has nothing of rows to come)
  and `FetchedKnown`: between a fetch and the clearing of the flags, the adaptor has of each row what a read has now, unless the row was
  written to since and this is unhandled; of a row that is deleted and not unhandled it has nothing; and a row that
  was not there is flagged as added, and all its flags are unhandled.  Without it `FlagsTellChanges` is not inductive: nothing
  would say that `ClearFlags`, which drops the flags of rows it never reads, drops those of rows that were fetched.
* `OnlyChangesWritten` is about steps.  A save takes any delta of those that `determineContactDetailDelta` may give, and
  the proof shows of all of them that they name rows of old details only that no new detail matches exactly, or whose
  matches a later old detail takes (`DeltaSound`, `UnchangedIsNotNamed`); that what is done for a delta writes to rows that it names
  (`StepsSound`, `WriteSound`); and that the row of a detail which nothing else equals is not among them.
* `DeltaIsExact` is about `determineContactDetailDelta` itself, for any two lists of details of known types: of the
  details that do not match exactly, each old one is deleted or becomes one new one of its type, in its row, and each
  new one is added or comes of one old one; none is listed twice; and no detail is added while one of its type is
  deleted, so a type that a contact may have one detail of keeps its row.  The proof follows the pairs
  (`IsMatching`) through the pairing by id (`PairedIsLeft`) and the pairing of the closest (`ModificationsExhaust`), which
  ends only when no two of a type are left since the scores are numbers, and some pair scores least
  (`FinitelyManyFields`, `NoneOfAType`).
* `determineModifications`, `PairedById`, `writeDetails` and `write` are recursive functions.  That there is a function
  which satisfies each recursion is not for free: `Iterates` shows it for the folds, and `ModificationsExist` for the
  pairing, by the least number of old details for which there is none.
* Assumed of the constants: the types are among the 26, a contact that may have presences may have a global presence
  (`MixesAssumption`), and `None` is neither a row nor the values of a detail (`NoneAssumption`).

TLC has checked `Inv` on the instance of the run `details`, and `IInv` and `StepTaken` of `AggregationProofs`, with their quantifiers bounded by the ids, on that of the run
`aggregation`, before they were proved.

## What is only model-checked

Liveness (`OperationEnds`, `AccessEnds`, `RequestsAnswered`, `CloseEnds`) is out of
the prover's reach, as are ENABLED and the induction theorems of the library.  `MigrationSucceeds` of
`MemoryTable` stays with TLC: that a migration to a larger region has room for all it copies is a sum over
the blocks of a table.  (Induction over sets is within reach where a least counterexample
does the work, as in `AllPromoted`; a sum by folding is not.)  `SavedIsShown` of `Details` compares
how often details occur in two lists that pairing, several writes and conversions lie between, up to what the
conversions smooth away; it is checked for each type alone and for the types that depend on each other.  The
properties of `Schema` are what scripts of hundreds of given
statements compute, which is TLC's work and not a prover's.  Those of `TwoWaySync` relate
the device, the server and the lists of the adaptor across a whole sync: an inductive invariant for `InStep` has to say
of every operation in the queue what it still has to bring about.  They have no proofs yet.

## Findings

1. `fetchContactChanges` (`contactwriter.cpp:1697`) and the clearing of a collection's flags
   call `rollbackTransaction` without holding the lock; it then releases the lock of another
   process.  The latter does so because `clearChangeFlags` of contacts rolls back a transaction that is not its
   own (`contactwriter.cpp:1459`), and so do both callers above it afterwards:
   `clearChangeFlags` of a collection (`contactwriter.cpp:1569`), and `storeChanges` that
   is to clear flags (`contactwriter.cpp:1883` and `1891`).  (A run shows the first;
   it shows the second, too, with `Operations <- MCWithClear`, and so fails `NoContention`.)
2. `save` and `remove` (`contactwriter.cpp:3596`, `1123`) ask whether to record
   unhandled changes before they begin their transaction.  A fetch in between
   makes the answer stale, and the change is cleared unreported.
3. `save` does not ask again whether its collection exists, and clearing purges a
   deleted collection with contacts in it whose deletion is unhandled; foreign
   keys are not enforced, and the contacts stay without a collection (`NoOrphans`,
   as an invariant of `MCContactStore.cfg`, fails).
4. `MemoryTable` records a block of 64 KiB with size 0 (`HeapSound` fails with
   `MCLargeSizes` and `MCLargeTableSizes`).
5. `dataLock` (`contactstransientstore.cpp:748`) copies a handle that releases the data
   lock when it is destroyed, so the lock is released three times, twice before
   the iteration.  From the first iteration on it admits several threads and processes, so
   `DataExcludes` and `StoreShared` are claimed up to then; without `~iterated` they fail.
6. `reallocateTable` (`contactstransientstore.cpp:390`) asks for the next
   generation and is given the region of the previous one, which is the table that is full; every
   other reallocation fails for that reason.
7. Not a run, but what the invariant of `transientstore` has to allow for: a process that dies
   leaves its regions behind, and a later process attaches them with the values
   they had, removed ones included (`contactstransientstore.cpp:486`).
8. The same for `databaseopen`, whose properties make these exceptions: a
   process that dies between the creation of the file and the commit of its tables
   leaves an empty file that nobody can open any more (`contactsdatabase.cpp:3402`);
   of two first creators one fails and removes the file that the other has open
   (`contactsdatabase.cpp:3422`); who counts itself before the creator of the
   semaphores has set the count is forgotten, and there are two owners
   (`semaphore_p.cpp:84`); if that creator dies, all wait for ever; and a process
   of an older release can open the database between the time the owner counts itself and its
   upgrade, which then happens under it.
9. And for `aggregation`: a contact that is created deactivated gets an aggregate
   of its own although it is not active (`contactwriter.cpp:4612`; compare "No active
   constituents", line 4320); `remove` looks for the aggregates before its transaction
   (`contactwriter.cpp:1166`), so one that the contact gets meanwhile keeps the details of a deleted
   contact; and a save limited to some types that deactivates a contact, brings it back, or undeletes it
   leaves the other types of its aggregate as they were (`contactwriter.cpp:4821`).

10. What the invariants of `schema` allow for.  The scripts of the versions up to 12 create
   `Details` in its present form, so that a later `ALTER TABLE` fails and databases that
   old cannot be upgraded (`contactsdatabase.cpp:836` knows of one such case).
   `upgradeVersion20` drops the indexes of `Contacts` and `Names` with their tables and does not
   create four of them again, and creates `CollectionsChangeFlagsIndex`, which creation does not (`contactsdatabase.cpp:1593`).
   Aggregates keep details of the synced contacts that this upgrade drops: the comment
   at `contactsdatabase.cpp:1587` leaves that to the engine, which
   regenerates only where there is no aggregate (`contactsengine.cpp:2197`).
   `forceRegenDisplayLabelGroups` in two upgrades in succession cancels itself
   (`contactsdatabase.cpp:2151`).  A file left empty by a death during its creation has version 0, whose script cannot
   be executed on it.
11. What those of `details` allow for.  A durable save is compared with what the transient details
   show and then removes them, so what was only there is gone (`contactwriter.cpp:4771`).
   A transient detail without a row makes `writeDetails` return false without an error: later types are not
   written and the contact is reported as saved (`contactwriter.cpp:3386`).
   A save of presence only that has removed all presence stores an empty list, and the old ones show
   again.  Of two equal details that were written in the same millisecond, saving
   the contact again deletes one.  A removed detail of a unique type keeps its row
   until a sync purges it, and a new one cannot be inserted (a purely local
   collection is never purged).  The condition of `constructModification` for
   provenance (`../extensions/contactdelta_impl.h:370`) can never hold, and a change of nothing but
   "nonexportable" or "modifiable" is not written.
12. What those of `twowaysync` allow for.  `m_collectionChanges` is never cleared, and a queue
   is left behind by an abort; an adaptor that is used again works through the
   collections of the sync before, in spite of the comment at `../extensions/twowaycontactsyncadaptor_impl.h:538` ("again").  When a merge of a local and a remote change
   comes to what the device has, the result is taken for the remote version and not pushed ("dropped").
   `conflictResolutionPolicy` is ignored (`contactwriter.cpp:1723`): what was edited after the fetch
   is written over by the remote version.  A collection that is removed during its own
   sync is purged at its end, and the server's copy is ignored from then on.  With `clearChangeFlags`, the
   loop at `contactwriter.cpp:1881` overwrites an earlier error.  `m_errorOccurred` stays
   set, so that later successful syncs report an error.
13. What `SavedIsShown` of `details` allows for besides finding 11: a GeoLocation that has been saved cannot be changed.
   The UPDATE in its `bindDetail` has a parenthesis too many (`contactwriter.cpp:2680`), so
   `ContactsDatabase::prepare` only warns, the execution fails, and the whole save is rolled back
   with `UnspecifiedError` (`contactwriter.cpp:3415`): no other change of that contact, or of that batch, can
   be saved with it.  It is enough to save the copy that was saved once more without
   reading it, since its details lack the times that the rows have.  (With
   `ChangesGeoLocation == FALSE` the run fails after one edit and two saves.)  The tests save a GeoLocation and read it, and never save it again.

Read, and not shown by a run: `regenerateAggregates` removes aggregates without
telling the notifier (`contactwriter.cpp:4394`), and an undeletion is announced
as a change (`contactwriter.cpp:3649`); `clearChangeFlags` does not reset
`recordUnhandledChangeFlags`, as the comment at `contactwriter.cpp:1512` says;
the semaphore's time-out is taken for thousandths of what it is
(`semaphore_p.cpp:118`); filters query the tables of details without looking at
the flags, so a deleted phone number still matches (`contactreader.cpp:803`);
`executeDisplayLabelGroupLocalizationStatements`
does not reset `settingExists` between its two settings
(`contactsdatabase.cpp:2262`).

## Plan

In this order:

1. Proofs: the types of `TwoWaySync` and that it deletes only what was deleted.
2. `TwoWaySync`: the delta sync of a plugin that knows what changed.
3. The notifier: signals after commits, between processes.

Left in the modules there are: in `Aggregation`, batches and the removal of collections; in
`JobThread`, deliveries in several
steps (`contactsengine.cpp:943`) and waits in several threads (`contactsengine.cpp:1296`); in
`Details`, the replacing branch of `writeDetails` and the DisplayLabel; in `Schema`,
`updateNormalizedNumbers`.

## Not modelled

The translation of filters and sort orders to SQL, formatting of ids and vCards, accessors and
plugin registration: they have no state that the properties could tell apart.  The notifier sends
signals after a commit and nobody in the repository keeps state that depends on their order.
Out-of-band data and plain relationships are written in transactions of their
own to tables nothing else reads.  A request is used from one thread, as
QtContacts requires; nested event loops inside slots are not modelled.
