------------------------------- MODULE Details -------------------------------
(***************************************************************************)
(* The details of one contact of a synced collection: their rows, the      *)
(* details of it in the transient store, the copy of the contact that a    *)
(* client reads, changes and saves, and the sync that fetches what changed *)
(* and clears the flags.  ContactWriter::update and what it calls,         *)
(* ContactReader::queryContacts.                                           *)
(***************************************************************************)
EXTENDS ContactDelta

CONSTANTS
  Mixes,    \* the kinds of behaviours: the types the contact may have, whether the client uses all
            \* their fields, the masks it saves with; bounds: how often it edits its copy, and saves
  MaxRows,  \* bound: rows of table Details
  None

ASSUME MixesAssumption ==
  \A m \in Mixes : /\ m.types \subseteq TypeNames
                   /\ m.wide \in BOOLEAN
                   /\ m.masks \subseteq SUBSET m.types
                   /\ "Presence" \in m.types => "GlobalPresence" \in m.types
                   /\ m.maxEdits \in Nat /\ m.maxSaves \in Nat
ASSUME RowsAssumption == MaxRows \in Nat

\* What a row of a type is, the values a detail of the type has, and the detail.
Flags == {"added", "modified", "deleted"}
TypedRow(t) ==
  [type : {t}, columns : [Common \cup ToSet(Info[t].columns) -> Values], created : Nat, modified : Nat,
   flags : SUBSET Flags, unhandled : SUBSET Flags]
TypedValues(t) == [Info[t].fields -> Values]
TypedDetail(t) == [type : {t}, id : 0..MaxRows, created : Nat, modified : Nat, has : TypedValues(t)]

ASSUME NoneAssumption == \A t \in TypeNames : None \notin TypedRow(t) /\ None \notin TypedValues(t)

VARIABLES
  rows,       \* tables: the rows of Details by id, joined with that of the detail's own table; None: purged
  transient,  \* transient store: the details stored of the contact, or None
  copy,       \* client: the details of its copy of the contact
  records,    \* table Collections: recordUnhandledChangeFlags
  fetched,    \* sync adaptor: what it was given of each row, None before fetchChanges
  told,       \* history: what the server has of each row
  saved,      \* history: the save of the last step, if it was admitted, and whether it was done
  mix, edits, saves

vars == <<rows, transient, copy, records, fetched, told, saved, mix, edits, saves>>

-----------------------------------------------------------------------------
\* Reading the contact

Deleted(row) == "deleted" \in row.flags
Live == {i \in DOMAIN rows : rows[i] # None /\ ~Deleted(rows[i])}

\* What readDetail makes of row i.
Reading(table, i) ==
  [type |-> table[i].type, id |-> i, created |-> table[i].created, modified |-> table[i].modified,
   has |-> ReadRow(table[i].type, table[i].columns)]

\* queryContacts: transient details hide the rows of their types.
Shown ==
  LET stored == IF transient = None THEN <<>> ELSE transient
      hidden == {stored[n].type : n \in DOMAIN stored}
      others == Ascending({i \in Live : rows[i].type \notin hidden})
  IN  stored \o [n \in DOMAIN others |-> Reading(rows, others[n])]

Read ==
  /\ copy' = Shown
  /\ saved' = None
  /\ UNCHANGED <<rows, transient, records, fetched, told, mix, edits, saves>>

-----------------------------------------------------------------------------
\* The client changes its copy

NoFields(t) == [f \in Info[t].fields |-> "unset"]
FirstField(info) == info.columns[1]
Chosen(info) == IF mix.wide THEN info.fields ELSE {FirstField(info)}
Generated == {"GlobalPresence", "DisplayLabel"}

Edit ==
  /\ edits < mix.maxEdits
  /\ edits' = edits + 1
  /\ \/ \E t \in mix.types \ Generated : \E f \in Chosen(Info[t]) : \E v \in ValuesOf(t, f) :
          copy' = Append(copy, [type |-> t, id |-> 0, created |-> 0, modified |-> 0,
                                has |-> [NoFields(t) EXCEPT ![f] = v]])
     \/ \E n \in DOMAIN copy :
          /\ copy[n].type \notin Generated
          /\ \E f \in Chosen(Info[copy[n].type]) : \E v \in ValuesOf(copy[n].type, f) \cup {"unset"} :
               copy[n].has[f] # v /\ copy' = [copy EXCEPT ![n].has[f] = v]
     \/ \E n \in DOMAIN copy : copy' = RemoveAt(copy, n)
  /\ saved' = None
  /\ UNCHANGED <<rows, transient, records, fetched, told, mix, saves>>

-----------------------------------------------------------------------------
\* Saving the contact

OfType(list, t) == {n \in DOMAIN list : list[n].type = t}
Singular == {"DisplayLabel", "Name", "SyncTarget", "Favorite", "Gender", "Birthday", "OriginMetadata"}

enforceDetailConstraints(list) ==
  /\ \A t \in Singular : Cardinality(OfType(list, t)) <= 1
  /\ \A m, n \in DOMAIN list : LET uri == list[n].has["detailUri"]
                               IN  m # n /\ uri \notin {"unset", "zero"} => list[m].has["detailUri"] # uri

\* A state that is known is better than one that is not, and "plain" than "other".
presenceOrder(p) == CASE p.has["presenceState"] = "plain" -> 1
                      [] p.has["presenceState"] = "other" -> 2
                      [] OTHER -> 3
Empty(p) == p.id = 0 /\ p.created = 0 /\ p.has = NoFields(p.type)
betterPresence(p, best) == Empty(best) \/ presenceOrder(p) < presenceOrder(best)

BlankOf(t) == [type |-> t, id |-> 0, created |-> 0, modified |-> 0, has |-> NoFields(t)]

\* The first that none is better than; empty presences count only if all are.
bestPresence(list) ==
  LET known == {n \in OfType(list, "Presence") : ~Empty(list[n])}
  IN  IF known = {} THEN BlankOf("Presence")
      ELSE list[CHOOSE n \in known : \A m \in known : /\ ~betterPresence(list[m], list[n])
                                                      /\ m < n => betterPresence(list[n], list[m])]

\* The global presence becomes that of the best presence, all but its image.
updateGlobalPresence(list) ==
  LET best == bestPresence(list)
      Merged(old) ==
        [f \in DOMAIN old |->
           IF f \in {"presenceState", "timestamp", "nickname", "customMessage", "presenceStateText"}
           THEN IF best.has[f] = "unset" THEN "zero" ELSE best.has[f]
           ELSE old[f]]
      global == OfType(list, "GlobalPresence")
      first == CHOOSE n \in global : \A m \in global : n <= m
  IN  CASE OfType(list, "Presence") = {} /\ global = {} -> list
        [] OfType(list, "Presence") = {} /\ global # {} -> RemoveAt(list, first)
        [] OfType(list, "Presence") # {} /\ global = {} ->
             Append(list, [BlankOf("GlobalPresence") EXCEPT !.has = Merged(@)])
        [] OTHER -> [list EXCEPT ![first].has = Merged(@)]

generatorType(t) == IF t = "GlobalPresence" THEN "Presence" ELSE t
Wanted(mask, t) == mask = {} \/ t \in mask \/ generatorType(t) \in mask
presenceUpdateDetailTypes == {"Presence", "OriginMetadata", "OnlineAccount"}

\* The order in which write writes the types, and the types with one detail at most.
WriteOrder ==
  <<"Address", "Anniversary", "Avatar", "Birthday", "DisplayLabel", "EmailAddress", "Family", "Favorite",
    "Gender", "GeoLocation", "GlobalPresence", "Guid", "Hobby", "Name", "Nickname", "Note", "OnlineAccount",
    "Organization", "PhoneNumber", "Presence", "Ringtone", "SyncTarget", "Tag", "Url", "OriginMetadata",
    "ExtendedDetail">>
UniqueDetail == {"DisplayLabel", "Favorite", "Gender", "GlobalPresence", "Name", "SyncTarget"}
\* Tables whose column contactId is UNIQUE: a row in them excludes another until it is purged.
UniqueContact == {"DisplayLabel", "Favorite", "Gender", "Name", "SyncTarget"}

\* The state of a write: the tables, the copy and whether it goes on, has
\* "stopped" without an error, or has "failed".

\* A mistake: the change is recorded as unhandled before any fetch.
FlagBoth(row, flag) == [row EXCEPT !.flags = @ \cup {flag}, !.unhandled = @ \cup {flag}]
Flag(row, flag) == [row EXCEPT !.flags = @ \cup {flag}, !.unhandled = IF records THEN @ \cup {flag} ELSE @]

Exists(w, id) == id \in DOMAIN w.rows /\ w.rows[id] # None

deleteDetail(w, id) ==
  IF w.state # "going" THEN w
  ELSE IF id = 0 THEN [w EXCEPT !.state = "stopped"]
  ELSE IF Exists(w, id) THEN [w EXCEPT !.rows[id] = Flag(@, "deleted")]
  ELSE w

\* An UPDATE of the row with the id, which need not be there; if the statement
\* is one that cannot be prepared, an error.
ModifyDetail(w, change, stamp) ==
  LET d == w.copy[change.at]
      written == [w.rows[change.id] EXCEPT !.columns = RowOf(d.type, d.has), !.modified = stamp]
      named == [w EXCEPT !.copy[change.at].id = change.id]
  IN  IF w.state # "going" THEN w
      ELSE IF change.id = 0 THEN [w EXCEPT !.state = "stopped"]
      ELSE IF d.type \in NotUpdatable THEN [w EXCEPT !.state = "failed"]
      ELSE IF Exists(w, change.id) /\ w.rows[change.id].type = d.type
      THEN [named EXCEPT !.rows[change.id] = Flag(written, "modified")]
      ELSE named

AddDetail(w, at, stamp) ==
  LET d == w.copy[at]
      row == [type |-> d.type, columns |-> RowOf(d.type, d.has), created |-> stamp, modified |-> stamp,
              flags |-> {}, unhandled |-> {}]
  IN  IF w.state # "going" THEN w
      ELSE IF d.type \in UniqueContact /\ \E i \in DOMAIN w.rows : w.rows[i] # None /\ w.rows[i].type = d.type
      THEN [w EXCEPT !.state = "failed"]
      ELSE [w EXCEPT !.copy[at].id = Len(w.rows) + 1, !.rows = Append(@, Flag(row, "added"))]

\* Each save has its time; within one, details may be written in the same
\* millisecond or each in one of its own.
Times == {"same", "own"}
StampOf(times, n) == (saves + 1) * 10 + (IF times = "same" THEN 0 ELSE n)

\* What is to be done for a delta of a list of details from the old ones: a row
\* deleted, one written to, or one added.
Steps(list, old, delta) ==
  [n \in DOMAIN delta.deletions |->
     [do |-> "delete", type |-> old[delta.deletions[n]].type, id |-> old[delta.deletions[n]].id, at |-> 0]]
  \o [n \in DOMAIN delta.modifications |->
        [do |-> "modify", type |-> list[delta.modifications[n].at].type,
         id |-> delta.modifications[n].id, at |-> delta.modifications[n].at]]
  \o [n \in DOMAIN delta.additions |->
        [do |-> "add", type |-> list[delta.additions[n]].type, id |-> 0, at |-> delta.additions[n]]]

Step(w, step, times) ==
  CASE step.do = "delete" -> deleteDetail(w, step.id)
    [] step.do = "modify" -> ModifyDetail(w, step, StampOf(times, step.at))
    [] step.do = "add" -> AddDetail(w, step.at, StampOf(times, step.at))

\* Of a type with one detail at most, the first one is modified, and the first added.
Due(steps, n, t) ==
  /\ steps[n].type = t
  /\ t \in UniqueDetail /\ steps[n].do # "delete" =>
       \A m \in 1..(n - 1) : <<steps[m].type, steps[m].do>> # <<t, steps[n].do>>

writeDetails(w, t, steps, times) ==
  LET written[n \in 0..Len(steps)] ==
        IF n = 0 THEN w
        ELSE IF Due(steps, n, t) THEN Step(written[n - 1], steps[n], times) ELSE written[n - 1]
  IN  written[Len(steps)]

write(list, old, delta, mask, times) ==
  LET steps == Steps(list, old, delta)
      written[n \in 0..Len(WriteOrder)] ==
        IF n = 0 THEN [rows |-> rows, copy |-> list, state |-> "going"]
        ELSE IF Wanted(mask, WriteOrder[n]) THEN writeDetails(written[n - 1], WriteOrder[n], steps, times)
        ELSE written[n - 1]
  IN  written[Len(WriteOrder)]

\* What update leaves of the copy before it writes: with the global presence
\* brought up to date when the mask asks for it.
Prepared(mask) ==
  IF mask = {} \/ mask \cap {"Presence", "GlobalPresence"} # {} THEN updateGlobalPresence(copy) ELSE copy

SaveRefused ==
  /\ saves < mix.maxSaves
  /\ ~enforceDetailConstraints(copy)
  /\ saves' = saves + 1
  /\ saved' = None
  /\ UNCHANGED <<rows, transient, copy, records, fetched, told, mix, edits>>

presenceOnlyUpdate(mask) == "Presence" \in mask /\ mask \subseteq presenceUpdateDetailTypes

\* The details that a mask names.
Masked(list, mask) ==
  LET named == Ascending({n \in DOMAIN list : list[n].type \in mask \/ generatorType(list[n].type) \in mask})
  IN  [n \in DOMAIN named |-> list[named[n]]]

\* These go to the transient store.
SaveTransient(mask) ==
  /\ saves < mix.maxSaves
  /\ enforceDetailConstraints(copy)
  /\ presenceOnlyUpdate(mask)
  /\ copy' = Prepared(mask)
  /\ transient' = Masked(Prepared(mask), mask)
  /\ saved' = [mask |-> mask, over |-> transient # None, transient |-> TRUE, done |-> TRUE]
  /\ saves' = saves + 1
  /\ UNCHANGED <<rows, records, fetched, told, mix, edits>>

\* The delta from what the contact has is written to the tables; of a failed
\* write these are rolled back, the transient store and the copy are not.  A
\* transient update too falls back to this when the store has no room.
SaveDurable(mask) ==
  /\ saves < mix.maxSaves
  /\ enforceDetailConstraints(copy)
  /\ \E delta \in determineContactDetailDelta(Shown, Prepared(mask)), times \in Times :
       LET w == write(Prepared(mask), Shown, delta, mask, times)
       IN  /\ Len(w.rows) <= MaxRows
           /\ copy' = w.copy
           /\ rows' = IF w.state = "failed" THEN rows ELSE w.rows
           /\ saved' = [mask |-> mask, over |-> transient # None, transient |-> FALSE,
                        done |-> w.state # "failed"]
  /\ transient' = None
  /\ saves' = saves + 1
  /\ UNCHANGED <<records, fetched, told, mix, edits>>

-----------------------------------------------------------------------------
\* The sync, and a restart of every process

Told(i) == IF rows[i] = None \/ Deleted(rows[i]) THEN None ELSE Reading(rows, i).has

\* fetchContactChanges
FetchChanges ==
  /\ records' = TRUE
  /\ rows' = [i \in DOMAIN rows |-> IF rows[i] = None THEN None ELSE [rows[i] EXCEPT !.unhandled = {}]]
  /\ fetched' = [i \in DOMAIN rows |-> Told(i)]
  /\ saved' = None
  /\ UNCHANGED <<transient, copy, told, mix, edits, saves>>

\* A mistake: changes made after the fetch are forgotten too.
ClearFlagsForgets ==
  /\ fetched # None
  /\ rows' = [i \in DOMAIN rows |->
                IF rows[i] = None \/ ("deleted" \in rows[i].flags /\ "deleted" \notin rows[i].unhandled) THEN None
                ELSE [rows[i] EXCEPT !.flags = {}, !.unhandled = {}]]
  /\ told' = [i \in 1..MaxRows |-> IF i \in DOMAIN fetched THEN fetched[i] ELSE told[i]]
  /\ fetched' = None
  /\ saved' = None
  /\ UNCHANGED <<transient, copy, records, mix, edits, saves>>

\* clearChangeFlags, once the server has what was fetched.
ClearFlags ==
  /\ fetched # None
  /\ rows' = [i \in DOMAIN rows |->
                IF rows[i] = None \/ ("deleted" \in rows[i].flags /\ "deleted" \notin rows[i].unhandled) THEN None
                ELSE [rows[i] EXCEPT !.flags = rows[i].unhandled, !.unhandled = {}]]
  /\ told' = [i \in 1..MaxRows |-> IF i \in DOMAIN fetched THEN fetched[i] ELSE told[i]]
  /\ fetched' = None
  /\ saved' = None
  /\ UNCHANGED <<transient, copy, records, mix, edits, saves>>

\* The shared memory of the transient store is gone; the client starts anew.
Reboot ==
  /\ transient # None
  /\ transient' = None
  /\ copy' = <<>>
  /\ fetched' = None
  /\ saved' = None
  /\ UNCHANGED <<rows, records, told, mix, edits, saves>>

Init ==
  /\ mix \in Mixes
  /\ rows = <<>>
  /\ transient = None
  /\ copy = <<>>
  /\ records = FALSE
  /\ fetched = None
  /\ told = [i \in 1..MaxRows |-> None]
  /\ saved = None
  /\ edits = 0
  /\ saves = 0

Next ==
  \/ Read
  \/ Edit
  \/ SaveRefused
  \/ \E mask \in mix.masks : SaveTransient(mask) \/ SaveDurable(mask)
  \/ FetchChanges
  \/ ClearFlags
  \/ Reboot

Spec == Init /\ [][Next]_vars

-----------------------------------------------------------------------------
\* Types of all variables: what the tables hold are columns that exist, and a
\* change is unhandled only if it is flagged, once something was fetched.
IsList(list) == list \in Seq(ToSet(list))
AreDetails(list) == IsList(list) /\ \A d \in ToSet(list) : \E t \in mix.types : d \in TypedDetail(t)
AreTold(list) == \A n \in DOMAIN list : list[n] # None => \E t \in mix.types : list[n] \in TypedValues(t)

TypeOK ==
  /\ mix \in Mixes
  /\ edits \in 0..mix.maxEdits /\ saves \in 0..mix.maxSaves
  /\ records \in BOOLEAN
  /\ IsList(rows) /\ Len(rows) <= MaxRows
  /\ \A i \in DOMAIN rows :
       rows[i] # None =>
         /\ \E t \in mix.types : rows[i] \in TypedRow(t)
         /\ rows[i].unhandled \subseteq rows[i].flags
         /\ rows[i].unhandled # {} => records
  /\ AreDetails(copy)
  /\ transient # None => AreDetails(transient)
  /\ DOMAIN told = 1..MaxRows /\ AreTold(told)
  /\ fetched # None => /\ IsList(fetched) /\ Len(fetched) <= Len(rows)
                       /\ AreTold(fetched)
  /\ saved # None => saved \in [mask : mix.masks, over : BOOLEAN, transient : BOOLEAN, done : BOOLEAN]

\* Two details whose difference the conversions of the tables smooth away.
Alike(a, b) ==
  /\ a.type = b.type
  /\ \A f \in DOMAIN a.has :
       \/ a.has[f] = b.has[f]
       \/ {a.has[f], b.has[f]} \in {{"unset", "zero"}, {"plain", "rough"}}

\* The copy has two details that were read and match exactly, and that are like d.
Twins(d) ==
  \E m, n \in DOMAIN copy :
    m # n /\ copy[m].created # 0 /\ detailPairExactlyMatches(copy[m], copy[n]) /\ Alike(copy[m], d)

\* The two defects that make a save fail: it changes a detail of a type whose
\* rows cannot be changed, or it has one of a type of which a row excludes
\* another, and a removed one has not been purged.
ChangesGeoLocation ==
  /\ Wanted(saved.mask, "GeoLocation")
  /\ \E i \in Live : /\ rows[i].type = "GeoLocation"
                     /\ \E n \in OfType(copy, "GeoLocation") : copy[n] # Reading(rows, i)
BlockedByRemoved ==
  \E i \in DOMAIN rows \ Live :
    /\ rows[i] # None
    /\ rows[i].type \in UniqueContact /\ Wanted(saved.mask, rows[i].type)
    /\ OfType(copy, rows[i].type) # {}

\* Reader, writer and tables agree: after a save that was done, a read has, of
\* the types that were to be saved, the details that the client saved, each
\* field with its value, no more and no fewer.  Of details that were read and
\* match exactly, the time they were written at included, one is kept.  And a
\* save of details that the constraints admit is done, but for two defects.
SavedIsShown ==
  LET Copies(d) == Cardinality({n \in DOMAIN copy : Alike(copy[n], d)})
      Readings(d) == Cardinality({n \in DOMAIN Shown : Alike(Shown[n], d)})
      Saved(t) == /\ Wanted(saved.mask, t)
                  /\ saved.over => saved.transient
                  /\ saved.transient => OfType(copy, t) # {}
  IN  /\ saved # None /\ ~saved.done => ChangesGeoLocation \/ BlockedByRemoved
      /\ saved # None /\ saved.done =>
           \A d \in ToSet(copy) \cup ToSet(Shown) :
             Saved(d.type) => \/ Copies(d) = Readings(d)
                              \/ Twins(d) /\ Copies(d) > 0 /\ Readings(d) > 0

\* The flags of the details tell the sync adaptor all that the server lacks: of
\* a row without flags the server has what a read has, a row that it has
\* nothing of is flagged as added, and one that is purged it has no more.
FlagsTellChanges ==
  \A i \in DOMAIN rows :
    IF rows[i] = None THEN told[i] = None
    ELSE /\ rows[i].flags = {} => told[i] = Reading(rows, i).has
         /\ told[i] = None => rows[i].flags \cap {"added", "deleted"} # {}

\* A save leaves alone the row of every detail that is in the copy as it was
\* read, and that no other detail equals: it is not rewritten, flagged or
\* given to another detail.
Unchanged(i) ==
  /\ Reading(rows, i) \in ToSet(copy)
  /\ rows[i].type \notin Generated
  /\ \A j \in Live \ {i} : ~detailPairExactlyMatches(Reading(rows, i), Reading(rows, j))

NothingElseTouched ==
  [][saved' # None /\ transient = None => \A i \in Live : Unchanged(i) => rows'[i] = rows[i]]_vars
=============================================================================
