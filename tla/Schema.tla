-------------------------------- MODULE Schema --------------------------------
(***************************************************************************)
(* The schema of the contacts database and its upgrade: the statements     *)
(* that create it, the script of every release up to the current one, the  *)
(* transaction in which the owner of the database runs those it needs, and *)
(* the regeneration of the display label groups that ends it.              *)
(*                                                                         *)
(* Covered: tables, their indexes and triggers, the columns that not every *)
(* release has, contacts, details and relationships, the settings.  Not    *)
(* covered: the columns that all releases have, provenance, temporary      *)
(* tables, and who may upgrade (DatabaseOpen).                             *)
(***************************************************************************)
EXTENDS Integers, SequencesExt, FiniteSetsExt

CONSTANTS Versions,    \* the releases whose databases are opened
          Locale,      \* the locales of the device, two of them
          GroupProperty, \* what the user may have label groups derived from
          None         \* no value, no file

currentSchemaVersion == 24

ASSUME SchemaAssumption ==
  /\ Versions \subseteq 1..currentSchemaVersion
  /\ Cardinality(Locale) = 2
  /\ None \notin Locale \cup GroupProperty

VARIABLES
  file,     \* the database as it is committed
  work,     \* the database in the transaction, None without one
  at,       \* [version, next]: the statement that is next
  pc,       \* what the process is doing
  env,      \* the locale and the setting of the group property
  origin,   \* history: the release that has made the file
  stale     \* history: a regeneration of the groups was skipped or failed

vars == <<file, work, at, pc, env, origin, stale>>

(***************************************************************************)
(* Tables, columns and indexes with the releases from since to until that  *)
(* have them, as far as the scripts below tell.                            *)
(***************************************************************************)
Now == currentSchemaVersion
Before21 == 20

UniqueTables == <<"DisplayLabels", "Favorites", "Genders", "Names">>

SpecificTables ==
  <<"Addresses", "Anniversaries", "Avatars", "Birthdays", "DisplayLabels", "EmailAddresses",
    "Families", "Favorites", "Genders", "GeoLocations", "GlobalPresences", "Guids", "Hobbies",
    "Names", "Nicknames", "Notes", "OnlineAccounts", "Organizations", "PhoneNumbers", "Presences",
    "Ringtones", "SyncTargets", "Tags", "Urls", "OriginMetadata", "ExtendedDetails">>

OtherTables ==
  <<"Collections", "CollectionsMetadata", "Contacts", "Details", "Identities", "Relationships",
    "OOB", "DbSettings">>

\* Those that not every release has; all others are there from the first one on.
TableSpan ==
  [t \in ToSet(SpecificTables) \cup ToSet(OtherTables) \cup {"TpMetadata", "DeletedContacts"} |->
     CASE t \in ToSet(UniqueTables) \cup {"SyncTargets", "Collections", "CollectionsMetadata"} -> <<21, Now>>
       [] t \in {"Families", "GeoLocations"} -> <<12, Now>>
       [] t = "OriginMetadata" -> <<11, Now>>
       [] t = "OOB" -> <<5, Now>>
       [] t = "DbSettings" -> <<18, Now>>
       [] t = "TpMetadata" -> <<0, 10>>
       [] t = "DeletedContacts" -> <<2, Before21>>
       [] OTHER -> <<0, Now>>]

ColumnSpan ==
  {<<"Contacts", c, 0, Before21>> : c \in {"syncTarget", "displayLabel", "isFavorite", "gender", "name"}}
  \cup {<<"Contacts", "isDeactivated", 3, Now>>, <<"Contacts", "isIncidental", 4, Before21>>,
        <<"Contacts", "type", 6, Now>>}
  \cup {<<"Contacts", c, 18, Before21>> : c \in {"displayLabelGroup", "displayLabelGroupSortOrder"}}
  \cup {<<"Contacts", c, 21, Now>> : c \in {"collectionId", "deleted", "changeFlags", "unhandledChangeFlags"}}
  \cup {<<"Details", "nonexportable", 7, Now>>}
  \cup {<<"Details", c, 21, Now>> : c \in {"changeFlags", "unhandledChangeFlags"}}
  \cup {<<"Details", c, 24, Now>> : c \in {"created", "modified"}}
  \cup {<<"OOB", "compressed", 9, Now>>}
  \cup {<<t, c, 16, Now>> : t \in {"GlobalPresences", "Presences"}, c \in {"presenceStateText", "presenceStateImageUrl"}}
  \cup {<<"Anniversaries", "event", 16, Now>>, <<"Organizations", "assistantName", 16, Now>>,
        <<"Ringtones", "vibrationRingtone", 16, Now>>}

DetailIndexes ==
  {<<"PhoneNumbers", "PhoneNumbersIndex">>, <<"EmailAddresses", "EmailAddressesIndex">>,
   <<"OnlineAccounts", "OnlineAccountsIndex">>, <<"Nicknames", "NicknamesIndex">>}
OriginMetadataIndexes ==
  {<<"OriginMetadata", i>> : i \in {"OriginMetadataIdIndex", "OriginMetadataGroupIdIndex"}}
NameIndexes(t) == {<<t, "FirstNameIndex">>, <<t, "LastNameIndex">>}
FlagIndexes ==
  {<<"Contacts", "ContactsCollectionIdIndex">>, <<"Contacts", "ContactsChangeFlagsIndex">>,
   <<"Details", "DetailsChangeFlagsIndex">>, <<"Details", "DetailsContactIdIndex">>}
BooleanIndexes ==
  {"ContactsIsDeactivatedIndex", "ContactsIsOnlineIndex", "ContactsHasOnlineAccountIndex",
   "ContactsHasEmailAddressIndex", "ContactsHasPhoneNumberIndex", "ContactsIsFavoriteIndex"}

IndexesAt(v) ==
  DetailIndexes
  \cup {<<"Relationships", "RelationshipsFirstIdIndex">>, <<"Relationships", "RelationshipsSecondIdIndex">>,
        <<"Details", "DetailsRemoveIndex">>}
  \cup (IF v >= 1 THEN {<<"Contacts", "ContactsModifiedIndex">>} ELSE {})
  \cup (IF v >= 6 THEN {<<"Contacts", "ContactsTypeIndex">>} ELSE {})
  \cup (IF v >= 11 THEN OriginMetadataIndexes ELSE {<<"TpMetadata", "TpMetadataTelepathyIdIndex">>})
  \cup (IF v < 10 THEN {<<"Details", "DetailsJoinIndex">>} ELSE {})
  \cup (IF v < 15 THEN {<<"Contacts", i>> : i \in BooleanIndexes} ELSE {})
  \cup (IF v >= 21 THEN FlagIndexes \cup NameIndexes("Names") ELSE NameIndexes("Contacts"))

\* The trigger on Contacts, named by the release that has introduced its form,
\* and the one on Details.
RemoveTrigger(v) ==
  <<"Contacts", "RemoveContactDetails",
    Max({r \in {0, 2, 11, 12, 21} : r <= v})>>
RemoveDetailsTrigger == <<"Details", "CascadeRemoveSpecificDetails", 22>>
TriggersAt(v) == {RemoveTrigger(v)} \cup (IF v >= 23 THEN {RemoveDetailsTrigger} ELSE {})

TablesAt(v) == {t \in DOMAIN TableSpan : TableSpan[t][1] <= v /\ v <= TableSpan[t][2]}
ColumnsAt(t, v) == {c[2] : c \in {x \in ColumnSpan : x[1] = t /\ x[3] <= v /\ v <= x[4]}}

(***************************************************************************)
(* Statements.  A row of Contacts is <<id, collection>>, of a specific     *)
(* table <<contact, the contact it stems from>>, of Details the same with  *)
(* the table; of Relationships <<aggregate, constituent>>.                 *)
(***************************************************************************)
CreateTable(t) == [op |-> "create", table |-> t, columns |-> ColumnsAt(t, Now)]
CreateTableWithout(t, columns) == [op |-> "create", table |-> t, columns |-> ColumnsAt(t, Now) \ columns]
AddColumn(t, c) == [op |-> "addColumn", table |-> t, column |-> c]
RenameTable(t, to) == [op |-> "rename", table |-> t, to |-> to]
DropTable(t) == [op |-> "drop", table |-> t]
CreateIndexes(is) == [op |-> "createIndexes", indexes |-> is]
CreateIndexIfNotExists(i) == [op |-> "createIndexIfNotExists", index |-> i]
DropIndexesIfExist(names) == [op |-> "dropIndexes", names |-> names]
CreateTrigger(t) == [op |-> "createTrigger", trigger |-> t]
DropTrigger(name) == [op |-> "dropTrigger", name |-> name]
\* INSERT INTO to SELECT columns FROM table, for the rows that Details has.
CopyRows(t, to, columns) == [op |-> "copy", table |-> t, to |-> to, columns |-> columns]
\* The contacts that are kept, with their collection.
CopyContacts == [op |-> "copyContacts"]
DeleteOrphans(ts) == [op |-> "deleteOrphans", tables |-> ToSet(ts)]
DeleteLooseRelationships == [op |-> "deleteLooseRelationships"]
DeleteStale(ts) == [op |-> "deleteStale", tables |-> ToSet(ts)]
\* A row of Details and then one of t for every old contact.
InsertDetails(t, columns) == [op |-> "insertDetails", table |-> t, columns |-> columns]
InsertSpecific(t, columns) == [op |-> "insertSpecific", table |-> t, columns |-> columns]
DeleteSynced == [op |-> "deleteSynced"]
DeleteChildless == [op |-> "deleteChildless"]
InsertRows(t, rows) == [op |-> "insertRows", table |-> t, rows |-> rows]
Analyze == [op |-> "analyze"]
SetVersion(v) == [op |-> "version", version |-> v]

Mapped(f(_), ts) == [i \in DOMAIN ts |-> f(ts[i])]

(***************************************************************************)
(* The scripts.                                                            *)
(***************************************************************************)
BuiltInCollections == InsertRows("Collections", {<<1, "aggregate">>, <<2, "local">>})
SelfContacts ==
  <<InsertRows("Contacts", {<<1, "local">>}), InsertRows("Contacts", {<<2, "aggregate">>}),
    InsertRows("Relationships", {<<2, 1>>})>>
createStatements ==
  Mapped(CreateTable, OtherTables \o SpecificTables)
  \o <<CreateIndexes(IndexesAt(Now) \ {<<"Collections", "CollectionsChangeFlagsIndex">>}),
       CreateTrigger(RemoveTrigger(Now)), CreateTrigger(RemoveDetailsTrigger), Analyze,
       SetVersion(currentSchemaVersion)>>

upgradeVersion0 == <<CreateIndexes({<<"Contacts", "ContactsModifiedIndex">>}), SetVersion(1)>>
upgradeVersion1 ==
  <<CreateTable("DeletedContacts"), DropTrigger("RemoveContactDetails"), CreateTrigger(RemoveTrigger(2)), SetVersion(2)>>
upgradeVersion2 == <<AddColumn("Contacts", "isDeactivated"), SetVersion(3)>>
upgradeVersion3 == <<AddColumn("Contacts", "isIncidental"), SetVersion(4)>>
upgradeVersion4 == <<CreateTableWithout("OOB", {"compressed"}), SetVersion(5)>>
upgradeVersion5 ==
  <<AddColumn("Contacts", "type"), CreateIndexes({<<"Contacts", "ContactsTypeIndex">>}), SetVersion(6)>>
upgradeVersion6 == <<AddColumn("Details", "nonexportable"), SetVersion(7)>>
upgradeVersion7 == <<SetVersion(8)>>
upgradeVersion8 == <<AddColumn("OOB", "compressed"), SetVersion(9)>>
upgradeVersion9 == <<DropIndexesIfExist({"DetailsJoinIndex"}), SetVersion(10)>>

\* The new Details, filled from the old one.
NewDetails ==
  <<DropTrigger("RemoveContactDetails"), RenameTable("Details", "OldDetails"), CreateTable("Details"),
    CopyRows("OldDetails", "Details", {"nonexportable"}),
    DropIndexesIfExist({"DetailsJoinIndex", "DetailsRemoveIndex"}), DropTable("OldDetails"),
    DropIndexesIfExist({"PhoneNumbersIndex", "EmailAddressesIndex", "OnlineAccountsIndex",
                        "NicknamesIndex", "TpMetadataTelepathyIdIndex", "TpMetadataAccountIdIndex"})>>
OldName(t) == "Old" \o t
\* A specific table in its new form, which is the current one.
NewForm(t) ==
  <<RenameTable(t, OldName(t)), CreateTable(t), CopyRows(OldName(t), t, {}), DropTable(OldName(t))>>
NewForms == FlattenSeq(Mapped(NewForm,
  <<"Addresses", "Anniversaries", "Avatars", "Birthdays", "EmailAddresses", "GlobalPresences", "Guids",
    "Hobbies", "Nicknames", "Notes">>))
MoreNewForms == FlattenSeq(Mapped(NewForm,
  <<"OnlineAccounts", "Organizations", "PhoneNumbers", "Presences", "Ringtones", "Tags", "Urls">>))
upgradeVersion10 ==
  NewDetails \o NewForms \o MoreNewForms
  \o <<CreateTable("OriginMetadata"), CopyRows("TpMetadata", "OriginMetadata", {}), DropTable("TpMetadata")>>
  \o NewForm("ExtendedDetails")
  \o <<CreateIndexes({<<"Details", "DetailsRemoveIndex">>} \cup DetailIndexes \cup OriginMetadataIndexes),
       CreateTrigger(RemoveTrigger(11)), SetVersion(11)>>
upgradeVersion11 ==
  <<CreateTable("Families"), CreateTable("GeoLocations"),
    DropTrigger("RemoveContactDetails"), CreateTrigger(RemoveTrigger(12)), SetVersion(12)>>
upgradeVersion12 ==
  <<RenameTable("Details", "OldDetails"), CreateTable("Details"),
    CopyRows("OldDetails", "Details", {"nonexportable"}), DropTable("OldDetails"), SetVersion(13)>>
upgradeVersion13 == <<CreateIndexIfNotExists(<<"Details", "DetailsRemoveIndex">>), SetVersion(14)>>
upgradeVersion14 == <<DropIndexesIfExist(BooleanIndexes), Analyze, SetVersion(15)>>
upgradeVersion15 ==
  <<AddColumn("Anniversaries", "event"), AddColumn("GlobalPresences", "presenceStateText"),
    AddColumn("GlobalPresences", "presenceStateImageUrl"), AddColumn("Organizations", "assistantName"),
    AddColumn("Presences", "presenceStateText"), AddColumn("Presences", "presenceStateImageUrl"),
    AddColumn("Ringtones", "vibrationRingtone"), SetVersion(16)>>
upgradeVersion16 == <<SetVersion(17)>>
upgradeVersion17 == <<CreateTable("DbSettings"), SetVersion(18)>>
upgradeVersion18 == <<SetVersion(19)>>
upgradeVersion19 == <<SetVersion(20)>>

\* Contacts in their new form: only local ones and aggregates are kept, and the
\* details of those.
OldSpecificTables == SelectSeq(SpecificTables, LAMBDA t : TableSpan[t][1] < 21)
KeptContacts ==
  <<CreateTable("Collections"), CreateTable("CollectionsMetadata"), BuiltInCollections,
    DropTrigger("RemoveContactDetails"), DropTable("DeletedContacts"),
    DropIndexesIfExist({"DetailsRemoveIndex", "PhoneNumbersIndex", "EmailAddressesIndex", "OnlineAccountsIndex",
                        "NicknamesIndex", "OriginMetadataIdIndex", "OriginMetadataGroupIdIndex"}),
    RenameTable("Contacts", "OldContacts"), CreateTable("Contacts"), CopyContacts,
    DeleteOrphans(OldSpecificTables), DeleteOrphans(<<"Details", "Identities">>), DeleteLooseRelationships,
    AddColumn("Details", "changeFlags"), AddColumn("Details", "unhandledChangeFlags")>>
\* What was in columns of Contacts becomes details.
UniqueDetails ==
  Mapped(CreateTable, UniqueTables \o <<"SyncTargets">>)
  \o <<InsertDetails("DisplayLabels", {}),
       InsertSpecific("DisplayLabels", {"displayLabel", "displayLabelGroup", "displayLabelGroupSortOrder"}),
       InsertDetails("Favorites", {"isFavorite"}), InsertSpecific("Favorites", {"isFavorite"}),
       InsertDetails("Genders", {"gender"}), InsertSpecific("Genders", {"gender"}),
       InsertDetails("Names", {"name"}), InsertSpecific("Names", {"name"})>>
upgradeVersion20 ==
  KeptContacts \o UniqueDetails
  \o <<DropTable("OldContacts"), DropTable("OOB"), CreateTable("OOB"),
       CreateIndexes({<<"Details", "DetailsRemoveIndex">>} \cup DetailIndexes \cup OriginMetadataIndexes),
       CreateIndexes({<<"Collections", "CollectionsChangeFlagsIndex">>} \cup FlagIndexes),
       CreateTrigger(RemoveTrigger(21)), SetVersion(21)>>
\* A mistake: aggregates of dropped contacts are kept.
upgradeVersion21WithChildless == <<DeleteSynced, SetVersion(22)>>

upgradeVersion21 ==
  <<DeleteSynced, DeleteChildless,
    DeleteOrphans(SelectSeq(SpecificTables, LAMBDA t : t # "SyncTargets")),
    DeleteOrphans(<<"Details", "Identities">>), SetVersion(22)>>
upgradeVersion22 == <<DeleteStale(SpecificTables), CreateTrigger(RemoveDetailsTrigger), SetVersion(23)>>
upgradeVersion23 == <<AddColumn("Details", "created"), AddColumn("Details", "modified"), SetVersion(24)>>

\* The function of a version comes before its statements.
upgradeVersions ==
  <<upgradeVersion0, upgradeVersion1, upgradeVersion2, upgradeVersion3, upgradeVersion4, upgradeVersion5,
    upgradeVersion6, upgradeVersion7, upgradeVersion8, upgradeVersion9, upgradeVersion10, upgradeVersion11,
    upgradeVersion12, upgradeVersion13, upgradeVersion14, upgradeVersion15, upgradeVersion16,
    upgradeVersion17, upgradeVersion18, upgradeVersion19, upgradeVersion20, upgradeVersion21,
    upgradeVersion22, upgradeVersion23>>
Script(v) ==
  IF v = currentSchemaVersion THEN createStatements \o <<BuiltInCollections>> \o SelfContacts
  ELSE upgradeVersions[v + 1]

(***************************************************************************)
(* What SQLite does with a statement.                                      *)
(***************************************************************************)
Table(columns, rows) == [columns |-> columns, rows |-> rows]
Tables(d) == DOMAIN d.tables
Columns(d, t) == d.tables[t].columns
Rows(d, t) == d.tables[t].rows
IndexNames(d) == {i[2] : i \in d.indexes}
Ids(d) == {r[1] : r \in Rows(d, "Contacts")}
OfTable(t, r) == <<r[1], r[2], t>>

WithTable(d, t, table) == [d EXCEPT !.tables = (t :> table) @@ @]
WithRows(d, t, rows) == [d EXCEPT !.tables[t].rows = rows]
WithRowsIn(d, ts, rows(_)) ==
  [d EXCEPT !.tables = [t \in DOMAIN @ |-> IF t \in ts THEN Table(@[t].columns, rows(t)) ELSE @[t]]]
\* A table takes its indexes and triggers with it.
WithoutTable(d, t) ==
  [d EXCEPT !.tables = [u \in DOMAIN @ \ {t} |-> @[u]],
            !.indexes = {i \in @ : i[1] # t},
            !.triggers = {g \in @ : g[1] # t}]
Renamed(x, t, to) == IF x[1] = t THEN [x EXCEPT ![1] = to] ELSE x
WithRenamed(d, t, to) ==
  [WithTable(WithoutTable(d, t), to, d.tables[t]) EXCEPT
     !.indexes = {Renamed(i, t, to) : i \in d.indexes},
     !.triggers = {Renamed(g, t, to) : g \in d.triggers}]

\* DELETE FROM Contacts, with the trigger.
WithoutContacts(d, ids) ==
  LET fired == \E g \in d.triggers : g[2] = "RemoveContactDetails"
      kept == WithRows(d, "Contacts", {r \in Rows(d, "Contacts") : r[1] \notin ids})
      specific == ToSet(SpecificTables) \cup {"Details", "Identities"}
      cleared == WithRowsIn(kept, specific, LAMBDA t : {r \in Rows(d, t) : r[1] \notin ids})
  IN  IF fired
      THEN WithRows(cleared, "Relationships", {r \in Rows(d, "Relationships") : {r[1], r[2]} \cap ids = {}})
      ELSE kept

Possible(s, d) ==
  CASE s.op = "create" -> s.table \notin Tables(d)
    [] s.op = "addColumn" -> s.table \in Tables(d) /\ s.column \notin Columns(d, s.table)
    [] s.op = "rename" -> s.table \in Tables(d) /\ s.to \notin Tables(d)
    [] s.op = "drop" -> s.table \in Tables(d)
    [] s.op = "createIndexes" -> \A i \in s.indexes : i[1] \in Tables(d) /\ i[2] \notin IndexNames(d)
    [] s.op = "createIndexIfNotExists" -> s.index[1] \in Tables(d)
    [] s.op = "createTrigger" ->
         s.trigger[1] \in Tables(d) /\ \A g \in d.triggers : g[2] # s.trigger[2]
    [] s.op = "dropTrigger" -> \E g \in d.triggers : g[2] = s.name
    [] s.op = "copy" ->
         {s.table, s.to} \subseteq Tables(d) /\ s.columns \subseteq Columns(d, s.table) \cap Columns(d, s.to)
    [] s.op = "copyContacts" ->
         {"isDeactivated", "type", "syncTarget"} \subseteq Columns(d, "OldContacts")
    [] s.op \in {"deleteOrphans", "deleteStale"} -> s.tables \subseteq Tables(d)
    [] s.op \in {"insertDetails", "insertSpecific"} ->
         {s.table, "OldContacts"} \subseteq Tables(d) /\ s.columns \subseteq Columns(d, "OldContacts")
    [] s.op = "insertRows" -> s.table \in Tables(d)
    [] OTHER -> TRUE

Executed(s, d) ==
  CASE s.op = "create" -> WithTable(d, s.table, Table(s.columns, {}))
    [] s.op = "addColumn" -> [d EXCEPT !.tables[s.table].columns = @ \cup {s.column}]
    [] s.op = "rename" -> WithRenamed(d, s.table, s.to)
    [] s.op = "drop" -> WithoutTable(d, s.table)
    [] s.op = "createIndexes" -> [d EXCEPT !.indexes = @ \cup s.indexes]
    [] s.op = "createIndexIfNotExists" ->
         IF s.index[2] \in IndexNames(d) THEN d ELSE [d EXCEPT !.indexes = @ \cup {s.index}]
    [] s.op = "dropIndexes" -> [d EXCEPT !.indexes = {i \in @ : i[2] \notin s.names}]
    [] s.op = "createTrigger" -> [d EXCEPT !.triggers = @ \cup {s.trigger}]
    [] s.op = "dropTrigger" -> [d EXCEPT !.triggers = {g \in @ : g[2] # s.name}]
    [] s.op = "copy" ->
         WithRows(d, s.to, {r \in Rows(d, s.table) : s.to = "Details" \/ OfTable(s.to, r) \in Rows(d, "Details")})
    [] s.op = "copyContacts" ->
         WithRows(d, "Contacts",
           {<<r[1], IF r[2] = "aggregate" THEN "aggregate" ELSE "local">> :
              r \in {x \in Rows(d, "OldContacts") : x[2] \in {"aggregate", "local", "was_local"}}})
    [] s.op = "deleteOrphans" ->
         WithRowsIn(d, s.tables, LAMBDA t : {r \in Rows(d, t) : r[1] \in Ids(d)})
    [] s.op = "deleteLooseRelationships" ->
         WithRows(d, "Relationships", {r \in Rows(d, "Relationships") : {r[1], r[2]} \subseteq Ids(d)})
    [] s.op = "deleteStale" ->
         WithRowsIn(d, s.tables, LAMBDA t : {r \in Rows(d, t) : OfTable(t, r) \in Rows(d, "Details")})
    [] s.op = "insertDetails" ->
         WithRows(d, "Details", Rows(d, "Details") \cup {<<r[1], r[1], s.table>> : r \in Rows(d, "OldContacts")})
    [] s.op = "insertSpecific" ->
         WithRows(d, s.table,
           {<<r[1], r[2]>> : r \in {x \in Rows(d, "Details") :
              x[3] = s.table /\ x[1] \in {o[1] : o \in Rows(d, "OldContacts")}}})
    [] s.op = "deleteSynced" ->
         WithoutContacts(d, {r[1] : r \in {x \in Rows(d, "Contacts") : x[2] = "synced"}})
    [] s.op = "deleteChildless" ->
         WithoutContacts(d, {r[1] : r \in {x \in Rows(d, "Contacts") : x[2] = "aggregate"}}
                            \ {r[1] : r \in Rows(d, "Relationships")})
    [] s.op = "insertRows" -> WithRows(d, s.table, Rows(d, s.table) \cup s.rows)
    [] s.op = "version" -> [d EXCEPT !.version = s.version]
    [] OTHER -> d

(***************************************************************************)
(* The functions of versions.                                              *)
(***************************************************************************)
Setting(d, name) ==
  IF \E r \in Rows(d, "DbSettings") : r[1] = name
  THEN (CHOOSE r \in Rows(d, "DbSettings") : r[1] = name)[2] ELSE None
WithSetting(d, name, value) ==
  WithRows(d, "DbSettings", {r \in Rows(d, "DbSettings") : r[1] # name} \cup {<<name, value>>})

\* Where values are stored as texts that are numbers from release 17 on.
StoredTypes == {"Addresses", "Anniversaries", "Contacts", "OnlineAccounts", "PhoneNumbers", "Urls"}
updateStorageTypes(d) == [d EXCEPT !.texts = {}]

addDisplayLabelGroup(d) ==
  [d EXCEPT !.tables["Contacts"].columns = @ \cup {"displayLabelGroup", "displayLabelGroupSortOrder"}]

OtherLocale(l) == CHOOSE m \in Locale : m # l
\* "to force regenerating the display label groups, we want to modify the
\* database setting" (contactsdatabase.cpp:2151).
forceRegenDisplayLabelGroups(d) ==
  IF Setting(d, "LocaleName") = None THEN d
  ELSE WithSetting(d, "LocaleName",
         IF Setting(d, "LocaleName") = env.locale THEN OtherLocale(env.locale) ELSE env.locale)

Function(v, d) ==
  CASE v = 16 -> updateStorageTypes(d)
    [] v = 17 -> addDisplayLabelGroup(d)
    [] v \in {18, 19} -> forceRegenDisplayLabelGroups(d)
    [] OTHER -> d

\* By what the label groups were generated, and by which release.
Groups(locale, property, fresh) == [locale |-> locale, property |-> property, fresh |-> fresh]
CurrentGroups == Groups(env.locale, env.property, TRUE)

\* A mistake: the property is compared only where the locale has changed.
GroupsByLocale(d, e) ==
  IF Setting(d, "LocaleName") = e.locale THEN d
  ELSE [WithSetting(WithSetting(d, "LocaleName", e.locale), "GroupProperty", e.property)
          EXCEPT !.groups = Groups(e.locale, e.property, TRUE)]

\* settingExists is not reset between the two settings.
executeDisplayLabelGroupLocalizationStatements(d, e) ==
  LET sameLocale == Setting(d, "LocaleName") = e.locale
      sameGroupProperty == Setting(d, "GroupProperty") = e.property
      settingExists == Setting(d, "LocaleName") # None
      updatesNothing == settingExists /\ Setting(d, "GroupProperty") = None
      located == IF sameLocale THEN d ELSE WithSetting(d, "LocaleName", e.locale)
      set == IF sameGroupProperty \/ updatesNothing THEN located
             ELSE WithSetting(located, "GroupProperty", e.property)
  IN  IF sameLocale /\ sameGroupProperty THEN set
      ELSE [set EXCEPT !.groups = Groups(e.locale, e.property, TRUE)]

\* The engine saves all local contacts if there are no aggregates; a contact is
\* given one, whose id is made from its own here.
regenerateAggregatesIfNeeded(d) ==
  LET ordinary(collection) == {r[1] : r \in {x \in Rows(d, "Contacts") : x[2] = collection /\ x[1] > 2}}
      new == {c + 10 : c \in ordinary("local")}
  IN  IF ordinary("aggregate") # {} THEN d
      ELSE WithRows(WithRows(d, "Contacts", Rows(d, "Contacts") \cup {<<a, "aggregate">> : a \in new}),
                    "Relationships", Rows(d, "Relationships") \cup {<<a, a - 10>> : a \in new})

(***************************************************************************)
(* Databases of the releases: contacts 1 and 2 are the self contacts, 3 is *)
(* local, 4 synced, 5 the aggregate of 3 and perhaps of 4, 6 that of 4.    *)
(***************************************************************************)
Empty ==
  [version |-> 0, tables |-> <<>>, indexes |-> {}, triggers |-> {}, texts |-> {},
   groups |-> Groups(None, None, FALSE)]

Peoples ==
  {p \in [local : BOOLEAN, synced : BOOLEAN, together : BOOLEAN, was : BOOLEAN] :
     (p.together => p.local /\ p.synced) /\ (p.was => p.local)}
LocalOf(p) == IF p.local THEN {3} ELSE {}
Aggregates(p) ==
  {<<2, 1>>} \cup (IF p.local THEN {<<5, 3>>} ELSE {})
  \cup (IF p.synced THEN {<<IF p.together THEN 5 ELSE 6, 4>>} ELSE {})
ContactsOf(p, v) ==
  {<<1, "local">>, <<2, "aggregate">>} \cup {<<r[1], "aggregate">> : r \in Aggregates(p)}
  \cup (IF p.local THEN {<<3, IF p.was /\ v <= Before21 THEN "was_local" ELSE "local">>} ELSE {})
  \cup (IF p.synced THEN {<<4, "synced">>} ELSE {})
\* Everybody has a phone number, and aggregates those of their constituents.
Numbers(p) ==
  {r \in Aggregates(p) : r[1] > 2} \cup {<<r[2], r[2]>> : r \in {x \in Aggregates(p) : x[1] > 2}}
NamesOf(p, v) == {<<r[1], r[1]>> : r \in ContactsOf(p, v)}

\* Details were removed without their rows of specific tables up to release 22.
StaleRows(v, left) == IF left /\ v \in {21, 22} THEN {<<3, 4>>} ELSE {}

RowsAt(t, p, v, left, settings) ==
  CASE t = "Contacts" -> ContactsOf(p, v)
    [] t = "Relationships" -> Aggregates(p)
    [] t = "PhoneNumbers" -> Numbers(p) \cup StaleRows(v, left)
    [] t \in ToSet(UniqueTables) -> NamesOf(p, v)
    [] t = "Details" ->
         {OfTable("PhoneNumbers", r) : r \in Numbers(p)}
         \cup (IF v > Before21 THEN {OfTable(u, r) : u \in ToSet(UniqueTables), r \in NamesOf(p, v)} ELSE {})
    [] t = "DbSettings" -> settings
    [] t = "Collections" -> {<<1, "aggregate">>, <<2, "local">>, <<3, "synced">>}
    [] OTHER -> {}

\* Release 13 has the index only if it has created the database itself.
DatabaseAt(v, p, left, locale, property) ==
  [version |-> v,
   tables |-> [t \in TablesAt(v) |->
                 Table(ColumnsAt(t, v),
                       RowsAt(t, p, v, left, {<<"LocaleName", locale>>, <<"GroupProperty", property>>}))],
   indexes |-> IndexesAt(v) \ (IF v = 13 /\ left THEN {<<"Details", "DetailsRemoveIndex">>} ELSE {}),
   triggers |-> TriggersAt(v),
   texts |-> IF v <= 16 THEN StoredTypes ELSE {},
   groups |-> IF v < 18 THEN Groups(None, None, FALSE) ELSE Groups(locale, property, v >= 20)]

Init ==
  /\ env \in [locale : Locale, property : GroupProperty]
  /\ \/ file = None /\ origin = [version |-> 0, local |-> {}]
     \/ \E v \in Versions, p \in Peoples, left \in BOOLEAN, l \in Locale, g \in GroupProperty :
          /\ left => v \in {13, 21, 22} /\ p.local
          /\ v < 18 => l = env.locale /\ g = env.property
          /\ v < 13 => p.together
          /\ file = DatabaseAt(v, p, left, l, g)
          /\ origin = [version |-> v, local |-> LocalOf(p)]
  /\ work = None
  /\ at = [version |-> 0, next |-> 0]
  /\ pc = "closed"
  /\ stale = FALSE

Goto(v, n) == at' = [version |-> v, next |-> n]
Nowhere == Goto(0, 0)
InTransaction == pc \in {"statements", "groups", "commit"}

\* prepareDatabase if there is no file, upgradeDatabase otherwise.
BeginTransaction ==
  /\ pc = "closed"
  /\ IF file = None THEN work' = Empty /\ Goto(currentSchemaVersion, 1) /\ pc' = "statements"
     ELSE /\ work' = file
          /\ IF file.version < currentSchemaVersion THEN Goto(file.version, 0) /\ pc' = "statements"
             ELSE Nowhere /\ pc' = "groups"
  /\ UNCHANGED <<file, env, origin, stale>>

ExecuteFunction ==
  /\ pc = "statements" /\ at.next = 0
  /\ work' = Function(at.version, work)
  /\ Goto(at.version, 1)
  /\ UNCHANGED <<file, pc, env, origin, stale>>

HasStatement == pc = "statements" /\ at.next \in DOMAIN Script(at.version)
Statement == Script(at.version)[at.next]

ExecuteStatement ==
  /\ HasStatement /\ Possible(Statement, work)
  /\ work' = Executed(Statement, work)
  /\ Goto(at.version, at.next + 1)
  /\ UNCHANGED <<file, pc, env, origin, stale>>

\* The version that the script has set decides which one comes next.
NextVersion ==
  /\ pc = "statements" /\ at.next = Len(Script(at.version)) + 1
  /\ work.version > at.version \/ at.version = currentSchemaVersion
  /\ IF work.version < currentSchemaVersion THEN Goto(work.version, 0) /\ UNCHANGED pc
     ELSE Nowhere /\ pc' = "groups"
  /\ UNCHANGED <<file, work, env, origin, stale>>

GenerateGroups ==
  /\ pc = "groups"
  /\ work' = executeDisplayLabelGroupLocalizationStatements(work, env)
  /\ pc' = "commit"
  /\ UNCHANGED <<file, at, env, origin, stale>>

\* An upgrade from d calls forceRegenDisplayLabelGroups twice, or for groups of
\* another locale, and the setting has the current locale again.
NotForced(d) ==
  /\ d # None
  /\ \/ d.version = 18 /\ Setting(d, "LocaleName") = env.locale
     \/ d.version = 19 /\ Setting(d, "LocaleName") # env.locale

Commit ==
  /\ pc = "commit"
  /\ file' = work
  /\ work' = None
  /\ pc' = "open"
  /\ origin' = IF file = None THEN [origin EXCEPT !.version = currentSchemaVersion] ELSE origin
  /\ stale' = (work.groups # CurrentGroups /\ (stale \/ NotForced(file)))
  /\ UNCHANGED <<at, env>>

\* A mistake: the transaction stays open after an error.
RollbackForgotten ==
  /\ InTransaction
  /\ pc' = "closed"
  /\ Nowhere
  /\ UNCHANGED <<file, work, env, origin, stale>>

\* A statement or the commit fails: nothing is left of the transaction, and nothing
\* of a file that was to be created.
Rollback ==
  /\ InTransaction
  /\ work' = None
  /\ pc' = "closed"
  /\ Nowhere
  /\ UNCHANGED <<file, env, origin, stale>>

\* The process dies: SQLite finds the file as it was committed; one that was to be
\* created stays behind without tables.
Die ==
  /\ InTransaction
  /\ work' = None
  /\ pc' = "closed"
  /\ Nowhere
  /\ file' = IF file = None THEN Empty ELSE file
  /\ UNCHANGED <<env, origin, stale>>

\* The synchronous engine uses the database for the first time.
EngineOpens ==
  /\ pc = "open"
  /\ file' = regenerateAggregatesIfNeeded(file)
  /\ pc' = "ready"
  /\ UNCHANGED <<work, at, env, origin, stale>>

\* The group property changes under an open database: regenerateDisplayLabelGroups.
PropertyChanges(p) ==
  /\ pc = "ready" /\ p # env.property
  /\ env' = [env EXCEPT !.property = p]
  /\ file' = executeDisplayLabelGroupLocalizationStatements(file, [env EXCEPT !.property = p])
  /\ stale' = (stale /\ file'.groups # Groups(env.locale, p, TRUE))
  /\ UNCHANGED <<work, at, pc, origin>>

\* The same, and its transaction fails.
PropertyChangesInVain(p) ==
  /\ pc = "ready" /\ p # env.property
  /\ env' = [env EXCEPT !.property = p]
  /\ stale' = TRUE
  /\ UNCHANGED <<file, work, at, pc, origin>>

Close ==
  /\ pc \in {"open", "ready"}
  /\ pc' = "closed"
  /\ UNCHANGED <<file, work, at, env, origin, stale>>

\* The locale or the property changes while nobody has the database open.
EnvironmentChanges(e) ==
  /\ pc = "closed" /\ e # env
  /\ env' = e
  /\ UNCHANGED <<file, work, at, pc, origin, stale>>

Next ==
  \/ BeginTransaction \/ ExecuteFunction \/ ExecuteStatement \/ NextVersion \/ GenerateGroups
  \/ Commit \/ Rollback \/ Die \/ EngineOpens \/ Close
  \/ \E p \in GroupProperty : PropertyChanges(p) \/ PropertyChangesInVain(p)
  \/ \E e \in [locale : Locale, property : GroupProperty] : EnvironmentChanges(e)

Spec == Init /\ [][Next]_vars
-----------------------------------------------------------------------------
(***************************************************************************)
(* Properties                                                              *)
(***************************************************************************)
DatabaseType(d) ==
  d = None \/ (/\ d.version \in 0..currentSchemaVersion
               /\ \A i \in d.indexes : i[1] \in Tables(d)
               /\ \A g \in d.triggers : g[1] \in Tables(d)
               /\ d.texts \subseteq StoredTypes)
TypeOK ==
  /\ DatabaseType(file) /\ DatabaseType(work)
  /\ at.version \in 0..currentSchemaVersion /\ at.next \in 0..100
  /\ pc \in {"closed", "statements", "groups", "commit", "open", "ready"}
  /\ work # None <=> InTransaction
  /\ env \in [locale : Locale, property : GroupProperty]
  /\ origin.version \in 0..currentSchemaVersion /\ stale \in BOOLEAN

Opened == pc \in {"open", "ready"}

\* No script stops by itself: what a statement creates is not there yet, what it
\* changes or copies is, and the version goes up.  Except up to release 12, whose
\* scripts create Details as it is now, so that later ones add columns it has;
\* upgradeVersion4 is aware of that ("We can't create this in final form anymore",
\* contactsdatabase.cpp:836).
NothingStopsUpgrade ==
  /\ HasStatement /\ (origin.version > 12 \/ at.version = currentSchemaVersion) => Possible(Statement, work)
  /\ pc = "statements" /\ at.next > Len(Script(at.version)) =>
       work.version > at.version \/ at.version = currentSchemaVersion

\* What an upgrade may lack and may have too many of, compared with a database that
\* the current release creates: release 20's script "rebuild[s] the indexes we
\* dropped" (contactsdatabase.cpp:1593), but not those of Contacts.
Lost == {<<"Contacts", "ContactsModifiedIndex">>, <<"Contacts", "ContactsTypeIndex">>} \cup NameIndexes("Names")
Extra == {<<"Collections", "CollectionsChangeFlagsIndex">>}
CreatedIndexes == IndexesAt(Now) \ Extra

\* An upgraded database has the tables, columns, indexes and triggers of one that was
\* created, and its values are stored in the same way.
UpgradedAsCreated ==
  Opened =>
    /\ file.version = currentSchemaVersion
    /\ Tables(file) = TablesAt(Now)
    /\ \A t \in Tables(file) : Columns(file, t) = ColumnsAt(t, Now)
    /\ file.triggers = TriggersAt(Now)
    /\ file.texts = {}
    /\ file.indexes = IF origin.version \in 1..Before21 THEN (CreatedIndexes \ Lost) \cup Extra ELSE CreatedIndexes

\* At every moment, whatever has failed and whoever has died, the database in the
\* file has the local contacts with their names, numbers and aggregates.
LocalKept ==
  file # None =>
    \A c \in origin.local :
      /\ \E r \in Rows(file, "Contacts") : r[1] = c /\ r[2] \in {"local", "was_local"}
      /\ <<c, c>> \in Rows(file, "PhoneNumbers") /\ <<c, c, "PhoneNumbers">> \in Rows(file, "Details")
      /\ "Names" \in Tables(file) =>
           <<c, c>> \in Rows(file, "Names") /\ <<c, c, "Names">> \in Rows(file, "Details")
      /\ \E r \in Rows(file, "Relationships") : r[2] = c

\* Nothing is left of what an upgrade drops: each row has its contact, each row of a
\* specific table its detail, and each aggregate a constituent; and an aggregate
\* shows the details of its constituents only, except after an upgrade of
\* release 21 or older: "we need to regenerate aggregates ... manually from C++
\* after the schema upgrade is complete" (contactsdatabase.cpp:1587), which the
\* engine does only where it finds no aggregates.
NothingOrphaned ==
  Opened =>
    /\ \A r \in Rows(file, "Details") : r[1] \in Ids(file)
    /\ \A t \in ToSet(SpecificTables) : \A r \in Rows(file, t) : OfTable(t, r) \in Rows(file, "Details")
    /\ \A r \in Rows(file, "Relationships") : {r[1], r[2]} \subseteq Ids(file)
    /\ \A r \in Rows(file, "Contacts") :
         r[2] = "aggregate" => \E s \in Rows(file, "Relationships") : s[1] = r[1]
    /\ origin.version > 21 \/ origin.version = 0 =>
         \A r \in Rows(file, "PhoneNumbers") : r[1] = r[2] \/ r \in Rows(file, "Relationships")

\* Whatever the release that created the file, and however often an upgrade was
\* broken off: an upgrade ends with the current schema, all local data, and
\* nothing left over.
UpgradeSound == NothingStopsUpgrade /\ UpgradedAsCreated /\ LocalKept /\ NothingOrphaned

\* An open database has label groups of the current locale and property, generated
\* by a release that does it the current way; the exceptions are those that
\* forceRegenDisplayLabelGroups makes, and a regeneration that has failed.
GroupsCurrent == Opened => file.groups = CurrentGroups \/ stale
=============================================================================
