----------------------------- MODULE DetailTables -----------------------------
(***************************************************************************)
(* The details of contacts and their tables: which columns the table of a  *)
(* type has, which column is bound from which field of a detail, and which *)
(* field is set from which position of a row that joins the tables of all  *)
(* types.  The field that feeds a column has the column's name.            *)
(* What values are is abstracted to what the conversions tell apart:       *)
(*   "unset"            the detail has no such field                       *)
(*   "zero"             an empty text or list, 0, false, an invalid time   *)
(*   "plain", "other"   two values that every conversion leaves alone      *)
(*   "rough"            what conversions smooth to "plain": a text with    *)
(*                      white space around it, a list with an element that *)
(*                      has a separator inside, a date with a time of day  *)
(* A column holds the same, or "null".                                     *)
(***************************************************************************)
EXTENDS Naturals, Sequences, FiniteSets, SequencesExt

\* Values of fields and columns.
Values == {"unset", "zero", "plain", "other", "rough", "null"}

\* The columns of each table, after detailId and contactId.
Addresses == <<"street", "postOfficeBox", "region", "locality", "postCode", "country", "subTypes">>
Anniversaries == <<"originalDateTime", "calendarId", "subType", "event">>
Avatars == <<"imageUrl", "videoUrl", "avatarMetadata">>
Birthdays == <<"birthday", "calendarId">>
DisplayLabels == <<"displayLabel", "displayLabelGroup", "displayLabelGroupSortOrder">>
EmailAddresses == <<"emailAddress", "lowerEmailAddress">>
Families == <<"spouse", "children">>
Favorites == <<"isFavorite">>
Genders == <<"gender">>
GeoLocations ==
  <<"label", "latitude", "longitude", "accuracy", "altitude", "altitudeAccuracy", "heading",
    "speed", "timestamp">>
GlobalPresences ==
  <<"presenceState", "timestamp", "nickname", "customMessage", "presenceStateText", "presenceStateImageUrl">>
Guids == <<"guid">>
Hobbies == <<"hobby">>
Names ==
  <<"firstName", "lowerFirstName", "lastName", "lowerLastName", "middleName", "prefix", "suffix", "customLabel">>
Nicknames == <<"nickname", "lowerNickname">>
Notes == <<"note">>
OnlineAccounts ==
  <<"accountUri", "lowerAccountUri", "protocol", "serviceProvider", "capabilities", "subTypes",
    "accountPath", "accountIconPath", "enabled", "accountDisplayName", "serviceProviderDisplayName">>
Organizations == <<"name", "role", "title", "location", "department", "logoUrl", "assistantName">>
PhoneNumbers == <<"phoneNumber", "subTypes", "normalizedNumber">>
Presences ==
  <<"presenceState", "timestamp", "nickname", "customMessage", "presenceStateText", "presenceStateImageUrl">>
Ringtones == <<"audioRingtone", "videoRingtone", "vibrationRingtone">>
SyncTargets == <<"syncTarget">>
Tags == <<"tag">>
Urls == <<"url", "subTypes">>
OriginMetadata == <<"id", "groupId", "enabled">>
ExtendedDetails == <<"name", "data">>

-----------------------------------------------------------------------------
\* Of two functions, the first one where both are defined.
f ++ g == [x \in DOMAIN f \cup DOMAIN g |-> IF x \in DOMAIN f THEN f[x] ELSE g[x]]

\* bindDetail: how a field becomes the column of its name.
As(conversion, columns) == [c \in columns |-> conversion]

BoundAddress ==
  As("trimmed", {"street", "postOfficeBox", "region", "locality", "postCode", "country"})
  ++ As("numbers", {"subTypes"})
BoundAnniversary == As("kept", {"originalDateTime", "calendarId"}) ++ As("optional", {"subType"}) ++ As("trimmed", {"event"})
BoundAvatar == As("trimmed", {"imageUrl", "videoUrl"}) ++ As("kept", {"avatarMetadata"})
BoundBirthday == As("kept", {"birthday", "calendarId"})
BoundDisplayLabel == As("kept", {"displayLabel", "displayLabelGroup"}) ++ As("number", {"displayLabelGroupSortOrder"})
BoundEmailAddress == As("trimmed", {"emailAddress"}) ++ As("derived", {"lowerEmailAddress"})
BoundFamily == As("trimmed", {"spouse"}) ++ As("joined", {"children"})
BoundFavorite == As("number", {"isFavorite"})
BoundGender == As("number", {"gender"})
\* In the INSERT; the UPDATE binds them too, but is not a statement, see NotUpdatable.
BoundGeoLocation ==
  As("trimmed", {"label"}) ++ As("time", {"timestamp"})
  ++ As("number", {"latitude", "longitude", "accuracy", "altitude", "altitudeAccuracy", "heading", "speed"})
BoundGlobalPresence ==
  As("kept", {"presenceState"}) ++ As("time", {"timestamp"})
  ++ As("trimmed", {"nickname", "customMessage", "presenceStateText", "presenceStateImageUrl"})
BoundGuid == As("kept", {"guid"})
BoundHobby == As("kept", {"hobby"})
BoundName ==
  As("trimmed", {"firstName", "lastName", "middleName", "prefix", "suffix", "customLabel"})
  ++ As("derived", {"lowerFirstName", "lowerLastName"})
BoundNickname == As("trimmed", {"nickname"}) ++ As("derived", {"lowerNickname"})
BoundNote == As("kept", {"note"})
BoundOnlineAccount ==
  As("trimmed", {"accountUri"}) ++ As("derived", {"lowerAccountUri"}) ++ As("number", {"protocol"})
  ++ As("kept", {"serviceProvider", "accountPath", "accountIconPath", "enabled", "accountDisplayName",
                 "serviceProviderDisplayName"})
  ++ As("joined", {"capabilities"}) ++ As("numbers", {"subTypes"})
BoundOrganization ==
  As("trimmed", {"name", "role", "title", "location", "logoUrl", "assistantName"}) ++ As("joined", {"department"})
BoundPhoneNumber == As("trimmed", {"phoneNumber"}) ++ As("numbers", {"subTypes"}) ++ As("derived", {"normalizedNumber"})
BoundPresence ==
  As("kept", {"presenceState"}) ++ As("time", {"timestamp"})
  ++ As("trimmed", {"nickname", "customMessage", "presenceStateText", "presenceStateImageUrl"})
BoundRingtone == As("trimmed", {"audioRingtone", "videoRingtone", "vibrationRingtone"})
BoundSyncTarget == As("kept", {"syncTarget"})
BoundTag == As("trimmed", {"tag"})
BoundUrl == As("trimmed", {"url"}) ++ As("optional", {"subTypes"})
BoundOriginMetadata == As("kept", {"id", "groupId", "enabled"})
BoundExtendedDetail == As("kept", {"name", "data"})

-----------------------------------------------------------------------------
\* What detailInfo has of a type: how many entries its list of fields has, for
\* the offsets, whether one of them is the context, and what setValues sets
\* from each position.
Reader(entries, context, sets) == [entries |-> entries, context |-> context, sets |-> sets]
From(conversion, fields) == [i \in DOMAIN fields |-> <<fields[i], conversion>>]
Ignored == <<<<"", "ignored">>>>

\* A mistake: the context is not counted in.
ReadAddressWithoutContext ==
  Reader(8, FALSE, From("text", <<"street", "postOfficeBox", "region", "locality", "postCode", "country">>)
                   \o From("numbers", <<"subTypes">>))
ReadAddress ==
  Reader(8, TRUE, From("text", <<"street", "postOfficeBox", "region", "locality", "postCode", "country">>)
                  \o From("numbers", <<"subTypes">>))
ReadAnniversary ==
  Reader(4, FALSE, From("date", <<"originalDateTime">>) \o From("text", <<"calendarId">>)
                   \o From("value", <<"subType">>) \o From("text", <<"event">>))
ReadAvatar == Reader(3, FALSE, From("url", <<"imageUrl", "videoUrl">>) \o From("text", <<"avatarMetadata">>))
ReadBirthday == Reader(2, FALSE, From("date", <<"birthday">>) \o From("text", <<"calendarId">>))
ReadDisplayLabel ==
  Reader(3, FALSE, From("text", <<"displayLabel", "displayLabelGroup">>)
                   \o From("number", <<"displayLabelGroupSortOrder">>))
ReadEmailAddress == Reader(3, TRUE, From("text", <<"emailAddress">>) \o Ignored)
ReadFamily == Reader(2, FALSE, From("text", <<"spouse">>) \o From("split", <<"children">>))
ReadFavorite == Reader(1, FALSE, From("number", <<"isFavorite">>))
ReadGender == Reader(1, FALSE, From("number", <<"gender">>))
ReadGeoLocation ==
  Reader(9, FALSE, From("text", <<"label">>)
                   \o From("number", <<"latitude", "longitude", "accuracy", "altitude", "altitudeAccuracy",
                                       "heading", "speed">>)
                   \o From("time", <<"timestamp">>))
ReadGuid == Reader(1, FALSE, From("text", <<"guid">>))
ReadHobby == Reader(1, FALSE, From("text", <<"hobby">>))
ReadName ==
  Reader(8, FALSE, From("text", <<"firstName">>) \o Ignored \o From("text", <<"lastName">>) \o Ignored
                   \o From("text", <<"middleName", "prefix", "suffix", "customLabel">>))
ReadNickname == Reader(2, FALSE, From("text", <<"nickname">>) \o Ignored)
ReadNote == Reader(1, FALSE, From("text", <<"note">>))
ReadOnlineAccount ==
  Reader(11, FALSE, From("text", <<"accountUri">>) \o Ignored \o From("number", <<"protocol">>)
                    \o From("text", <<"serviceProvider">>) \o From("strings", <<"capabilities">>)
                    \o From("numbers", <<"subTypes">>)
                    \o From("text", <<"accountPath", "accountIconPath">>) \o From("value", <<"enabled">>)
                    \o From("text", <<"accountDisplayName", "serviceProviderDisplayName">>))
ReadOrganization ==
  Reader(7, FALSE, From("text", <<"name", "role", "title", "location">>) \o From("strings", <<"department">>)
                   \o From("url", <<"logoUrl">>) \o From("text", <<"assistantName">>))
ReadPhoneNumber ==
  Reader(3, FALSE, From("text", <<"phoneNumber">>) \o From("numbers", <<"subTypes">>) \o Ignored)
ReadPresence ==
  Reader(6, FALSE, From("number", <<"presenceState">>) \o From("time", <<"timestamp">>)
                   \o From("text", <<"nickname", "customMessage", "presenceStateText">>)
                   \o From("url", <<"presenceStateImageUrl">>))
ReadRingtone == Reader(3, FALSE, From("url", <<"audioRingtone", "videoRingtone", "vibrationRingtone">>))
ReadSyncTarget == Reader(1, FALSE, From("text", <<"syncTarget">>))
ReadTag == Reader(1, FALSE, From("text", <<"tag">>))
ReadUrl == Reader(2, FALSE, From("url", <<"url">>) \o From("value", <<"subTypes">>))
ReadOriginMetadata == Reader(3, FALSE, From("text", <<"id", "groupId">>) \o From("value", <<"enabled">>))
ReadExtendedDetail == Reader(2, FALSE, From("text", <<"name">>) \o From("value", <<"data">>))

-----------------------------------------------------------------------------
\* The types, in the order in which their tables are joined.
detailInfo ==
  <<<<"Address", Addresses, BoundAddress, ReadAddress>>,
    <<"Anniversary", Anniversaries, BoundAnniversary, ReadAnniversary>>,
    <<"Avatar", Avatars, BoundAvatar, ReadAvatar>>,
    <<"Birthday", Birthdays, BoundBirthday, ReadBirthday>>,
    <<"DisplayLabel", DisplayLabels, BoundDisplayLabel, ReadDisplayLabel>>,
    <<"EmailAddress", EmailAddresses, BoundEmailAddress, ReadEmailAddress>>,
    <<"Family", Families, BoundFamily, ReadFamily>>,
    <<"Favorite", Favorites, BoundFavorite, ReadFavorite>>,
    <<"Gender", Genders, BoundGender, ReadGender>>,
    <<"GeoLocation", GeoLocations, BoundGeoLocation, ReadGeoLocation>>,
    <<"Guid", Guids, BoundGuid, ReadGuid>>,
    <<"Hobby", Hobbies, BoundHobby, ReadHobby>>,
    <<"Name", Names, BoundName, ReadName>>,
    <<"Nickname", Nicknames, BoundNickname, ReadNickname>>,
    <<"Note", Notes, BoundNote, ReadNote>>,
    <<"OnlineAccount", OnlineAccounts, BoundOnlineAccount, ReadOnlineAccount>>,
    <<"Organization", Organizations, BoundOrganization, ReadOrganization>>,
    <<"PhoneNumber", PhoneNumbers, BoundPhoneNumber, ReadPhoneNumber>>,
    <<"Presence", Presences, BoundPresence, ReadPresence>>,
    <<"Ringtone", Ringtones, BoundRingtone, ReadRingtone>>,
    <<"SyncTarget", SyncTargets, BoundSyncTarget, ReadSyncTarget>>,
    <<"Tag", Tags, BoundTag, ReadTag>>,
    <<"Url", Urls, BoundUrl, ReadUrl>>,
    <<"OriginMetadata", OriginMetadata, BoundOriginMetadata, ReadOriginMetadata>>,
    <<"GlobalPresence", GlobalPresences, BoundGlobalPresence, ReadPresence>>,
    <<"ExtendedDetail", ExtendedDetails, BoundExtendedDetail, ReadExtendedDetail>>>>

\* Types whose UPDATE of a row that is there cannot be prepared, and fails when
\* executed: that of GeoLocations has a parenthesis too many.
NotUpdatable == {"GeoLocation"}

\* Where the columns of the type at a place of the list are in a row that joins
\* all tables.
Offset(list, at) ==
  LET width(j) == list[j][4].entries + (IF list[j][4].context THEN 1 ELSE 2)
  IN  2 + MapThenSumSet(width, 1..(at - 1))

JoinedColumns(list) ==
  FlattenSeq([i \in DOMAIN list |->
                [j \in 1..(2 + Len(list[i][2])) |->
                   <<list[i][1], (<<"detailId", "contactId">> \o list[i][2])[j]>>]])

\* The column that the i-th value of the type is read from.
ColumnAt(joined, offset, sets) ==
  [i \in DOMAIN sets |-> IF offset + i \in DOMAIN joined THEN joined[offset + i] ELSE <<"", "">>]

\* Fields that every detail has, in table Details.
Common == {"detailUri", "linkedDetailUris", "contexts"}
FieldsOf(bound) == Common \cup {c \in DOMAIN bound : bound[c] # "derived"}

\* How a field is read tells of what kind it is.
KindsOf(fields, sets) ==
  [f \in fields |->
     IF f \in Common THEN [detailUri |-> "text", linkedDetailUris |-> "strings", contexts |-> "numbers"][f]
     ELSE LET i == CHOOSE i \in DOMAIN sets : sets[i][1] = f IN sets[i][2]]

\* All that a list of types says of each of them.
Described(list) ==
  [t \in {list[i][1] : i \in DOMAIN list} |->
     LET at == CHOOSE i \in DOMAIN list : list[i][1] = t
         bound == list[at][3]
         sets == list[at][4].sets
     IN  [type |-> t, columns |-> list[at][2], bound |-> bound, sets |-> sets,
          fields |-> FieldsOf(bound), kinds |-> KindsOf(FieldsOf(bound), sets),
          columnAt |-> ColumnAt(JoinedColumns(list), Offset(list, at), sets)]]

Info == Described(detailInfo)
TypeNames == DOMAIN Info

Write(conversion, v) ==
  CASE conversion \in {"kept", "optional"} -> IF v = "unset" THEN "null" ELSE v
    [] conversion = "trimmed" -> IF v = "unset" THEN "null" ELSE IF v = "rough" THEN "plain" ELSE v
    [] conversion \in {"number", "time"} -> IF v = "unset" THEN "zero" ELSE v
    [] conversion \in {"joined", "numbers"} -> IF v \in {"unset", "zero"} THEN "null" ELSE v
    [] OTHER -> "null"  \* "derived" from another field, and never read

ReadAs(conversion, stored) ==
  CASE conversion = "text" -> IF stored \in {"null", "zero"} THEN "unset" ELSE stored
    [] conversion \in {"url", "value"} -> IF stored = "null" THEN "unset" ELSE stored
    [] conversion \in {"number", "numbers", "time"} -> IF stored = "null" THEN "zero" ELSE stored
    [] conversion = "strings" -> IF stored = "null" THEN "unset" ELSE IF stored = "rough" THEN "plain" ELSE stored
    [] conversion = "split" -> IF stored = "null" THEN "zero" ELSE IF stored = "rough" THEN "plain" ELSE stored
    [] conversion = "date" -> IF stored = "null" THEN "unset" ELSE IF stored = "rough" THEN "plain" ELSE stored
    [] OTHER -> "unset"  \* "ignored"

\* The row of a detail: the columns of Details and of the table of its type.
RowIn(info, has) ==
  [c \in Common |-> IF has[c] = "unset" THEN "zero" ELSE has[c]]
  ++ [c \in DOMAIN info.bound |-> IF c \in info.fields THEN Write(info.bound[c], has[c]) ELSE "null"]

RowOf(t, has) == RowIn(Info[t], has)

\* readDetail and setValues: the fields of the detail a row has.
FieldsIn(info, row) ==
  LET stored(at) == IF at[1] = info.type /\ at[2] \in DOMAIN row THEN row[at[2]] ELSE "null"
      position(f) == {i \in DOMAIN info.sets : info.sets[i][1] = f}
  IN  [f \in info.fields |->
         IF f = "linkedDetailUris" /\ row[f] = "rough" THEN "plain"
         ELSE IF f \in Common THEN IF row[f] = "zero" THEN "unset" ELSE row[f]
         ELSE IF position(f) = {} THEN "unset"
         ELSE LET i == CHOOSE i \in position(f) : TRUE
              IN  ReadAs(info.sets[i][2], stored(info.columnAt[i]))]

ReadRow(t, row) == FieldsIn(Info[t], row)

\* The values a client can give a field.
ValuesOf(t, f) ==
  LET Besides(kind) ==
        CASE kind \in {"text", "strings", "split"} -> {"rough", "zero"}
          [] kind = "date" -> {"rough"}
          [] kind = "time" -> {}
          [] OTHER -> {"zero"}
  IN  {"plain", "other"} \cup Besides(Info[t].kinds[f])
=============================================================================
