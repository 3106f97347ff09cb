----------------------------- MODULE Aggregation -----------------------------
(***************************************************************************)
(* The contacts that represent one person have an aggregate, which the     *)
(* writer keeps in step with them: a saved contact is matched with the     *)
(* aggregates there are, and they are regenerated or removed when their    *)
(* constituents change.                                                    *)
(* A transaction is a function from a database to the set of databases it  *)
(* may result in; there is none if it fails and is rolled back.            *)
(***************************************************************************)
EXTENDS Integers, FiniteSets, FiniteSetsExt

CONSTANTS Client,
          Name, Nick, Value,   \* parts of the details
          None,                \* a detail that is not there
          Card,                \* the details that clients save
          Mask,                \* the detail types that a save may be limited to
          Collection,          \* the collections that clients save contacts in
          MaxContact,          \* bound on the contacts ever created, aggregates included
          MaxConstituent,      \* bound on the contacts at a time, without aggregates
          MaxIsNot             \* bound on the relationships of type IsNot

Gender == {"male", "female"}
\* The nicknames, and the details of all other types that are copied, are sets.
CardType == [first : Name \cup {None}, last : Name \cup {None}, gender : Gender \cup {None},
             nicks : SUBSET Nick, values : SUBSET Value]
DetailTypes == {"name", "gender", "nickname", "value", "deactivated"}

ASSUME AggregationAssumption ==
  /\ None \notin Name \cup Nick \cup Gender
  /\ Card \subseteq {c \in CardType : Cardinality(c.nicks) <= 1}
  /\ DetailTypes \in Mask /\ Mask \subseteq SUBSET DetailTypes
  /\ Collection \subseteq {"local", "synced", "separate"}
  /\ MaxContact \in Nat /\ MaxConstituent \in Nat /\ MaxIsNot \in Nat

VARIABLES
  db,       \* the tables, and their history
  request   \* what each client found out before the transaction of a removal

vars == <<db, request>>

\* The collection of aggregates, the local one, a synced one, and one that is not aggregable.
Collections == {"aggregate", "local", "synced", "separate"}
Aggregable == {"local", "synced"}
Id == 1..MaxContact
Row == [collection : Collections, card : CardType, active : BOOLEAN, deleted : BOOLEAN]
NoRequest == [ids |-> {}, aggregates |-> {}]

TypeOK ==
  /\ db.last \in 0..MaxContact
  /\ DOMAIN db.contact \subseteq 1..db.last
  /\ \A c \in DOMAIN db.contact : db.contact[c] \in Row
  /\ db.aggregates \subseteq (DOMAIN db.contact) \X (DOMAIN db.contact)
  /\ db.isNot \subseteq (DOMAIN db.contact) \X (DOMAIN db.contact)
  /\ db.dated \subseteq DOMAIN db.contact /\ db.linked \subseteq DOMAIN db.contact
  /\ request \in [Client -> [ids : SUBSET (1..db.last), aggregates : SUBSET (1..db.last)]]
  \* Aggregates are neither deleted nor deactivated, and only they aggregate.
  /\ \A a \in DOMAIN db.contact :
       db.contact[a].collection = "aggregate" => db.contact[a].active /\ ~db.contact[a].deleted
  /\ \A r \in db.aggregates : db.contact[r[1]].collection = "aggregate" /\ db.contact[r[2]].collection # "aggregate"

\* db.contact        rows of Contacts, by id; ids are not used again
\* db.last           the last id
\* db.aggregates     Relationships of type Aggregates
\* db.isNot          Relationships of type IsNot
\* db.dated          history: aggregates that may not match their constituents
\* db.linked         history: contacts that a client has given an aggregate
EmptyDatabase == [contact |-> <<>>, last |-> 0, aggregates |-> {}, isNot |-> {}, dated |-> {}, linked |-> {}]

Init == db = EmptyDatabase /\ request = [k \in Client |-> NoRequest]

-----------------------------------------------------------------------------
(***************************************************************************)
(* Relationships.                                                          *)
(***************************************************************************)
Live(d, c) == c \in DOMAIN d.contact /\ ~d.contact[c].deleted
IsAggregate(d, c) == c \in DOMAIN d.contact /\ d.contact[c].collection = "aggregate"
Aggregates(d) == {a \in DOMAIN d.contact : IsAggregate(d, a)}
AggregatesOf(d, c) == {r[1] : r \in {q \in d.aggregates : q[2] = c}}
Constituents(d, a) == {c \in {r[2] : r \in {q \in d.aggregates : q[1] = a}} : ~d.contact[c].deleted}
ActiveConstituents(d, a) == {c \in Constituents(d, a) : d.contact[c].active}

\* Mutant: there is no trigger.
WithoutRowsOnly(d, S) ==
  [d EXCEPT !.contact = [c \in DOMAIN @ \ S |-> @[c]], !.dated = @ \ S, !.linked = @ \ S]

\* Rows of Contacts are removed, and those of Relationships by a trigger.
WithoutRows(d, S) ==
  LET remain(R) == {r \in R : r[1] \notin S /\ r[2] \notin S}
  IN  [d EXCEPT !.contact = [c \in DOMAIN @ \ S |-> @[c]], !.aggregates = remain(@), !.isNot = remain(@),
                !.dated = @ \ S, !.linked = @ \ S]

WithRow(d, row) ==
  LET c == d.last + 1
  IN  [d EXCEPT !.last = c, !.contact = [i \in DOMAIN @ \cup {c} |-> IF i = c THEN row ELSE @[i]]]

Childless(d) == {a \in Aggregates(d) : Constituents(d, a) = {}}

RemoveChildlessAggregates(d) == WithoutRows(d, Childless(d))

(***************************************************************************)
(* Details.                                                                *)
(***************************************************************************)
EmptyCard == [first |-> None, last |-> None, gender |-> None, nicks |-> {}, values |-> {}]

\* The new details of the types in the mask, and the old ones of the others.
Masked(new, old, mask) ==
  [first  |-> IF "name" \in mask THEN new.first ELSE old.first,
   last   |-> IF "name" \in mask THEN new.last ELSE old.last,
   gender |-> IF "gender" \in mask THEN new.gender ELSE old.gender,
   nicks  |-> IF "nickname" \in mask THEN new.nicks ELSE old.nicks,
   values |-> IF "value" \in mask THEN new.values ELSE old.values]

\* Names and genders are composed, the others copied unless they are there.
PromoteDetailsToAggregate(card, aggregate, mask) ==
  LET new == Masked(card, EmptyCard, mask)
      composed(old, part) == IF old = None THEN part ELSE old
  IN  [first  |-> composed(aggregate.first, new.first),
       last   |-> composed(aggregate.last, new.last),
       gender |-> composed(aggregate.gender, new.gender),
       nicks  |-> aggregate.nicks \cup new.nicks,
       values |-> aggregate.values \cup new.values]

\* Local contacts first.
Precedes(d, b, c) ==
  LET rank(i) == IF d.contact[i].collection = "local" THEN 0 ELSE 1
  IN  rank(b) < rank(c) \/ (rank(b) = rank(c) /\ b < c)

\* The one of S that is promoted last, and all of C, one after the other.
LastOf(d, S) == CHOOSE c \in S : \A b \in S \ {c} : Precedes(d, b, c)

PromotedToAggregate(d, C, card, mask) ==
  LET promoted[S \in SUBSET C] ==
        IF S = {} THEN card
        ELSE PromoteDetailsToAggregate(d.contact[LastOf(d, S)].card, promoted[S \ {LastOf(d, S)}], mask)
  IN  promoted[C]

\* Mutant: promoted to what the aggregate has.
RegeneratedOnTop(d, a, mask) ==
  PromotedToAggregate(d, ActiveConstituents(d, a), d.contact[a].card, mask)

\* The aggregate is built anew, but for the types that are not in the mask.
Regenerated(d, a, mask) ==
  PromotedToAggregate(d, ActiveConstituents(d, a), Masked(EmptyCard, d.contact[a].card, mask), mask)

\* Those without active constituents are removed.
RegenerateAggregates(d, S, mask) ==
  LET removed == {a \in S : ActiveConstituents(d, a) = {}}
      saved == [d EXCEPT !.contact = [c \in DOMAIN @ |-> IF c \in S \ removed
                                                        THEN [@[c] EXCEPT !.card = Regenerated(d, c, mask)]
                                                        ELSE @[c]],
                         !.dated = IF mask = DetailTypes THEN @ \ S ELSE @]
  IN  IF \A a \in S : IsAggregate(d, a) /\ Constituents(d, a) # {} THEN {WithoutRows(saved, removed)} ELSE {}

(***************************************************************************)
(* Matching.                                                               *)
(***************************************************************************)
Named(card) == card.first # None \/ card.last # None

\* The scores that the card has with an aggregate.  UNION counts equal ones once.
Scores(card, aggregate) ==
  LET nickname == \E n \in card.nicks : n \in aggregate.nicks
      same(part) == card[part] # None /\ card[part] = aggregate[part]
      open(part) == card[part] = None \/ aggregate[part] = None
  IN  {s \in {20, 15, 12, 3, 1} :
         \/ s = 20 /\ same("first") /\ same("last")
         \/ s = 15 /\ ~Named(card) /\ ~Named(aggregate) /\ nickname
         \/ s = 12 /\ ((same("first") /\ open("last")) \/ (same("last") /\ open("first")))
         \/ s = 3 /\ card.values \cap aggregate.values # {}
         \/ s = 1 /\ nickname}

Score(card, aggregate) == SumSet(Scores(card, aggregate))
MinimumMatchScore == 15

\* Those that the contact c with this card may have in common a person with.
PossibleAggregates(d, c, card) ==
  {a \in Aggregates(d) :
     LET aggregate == d.contact[a].card
     IN  /\ IF Named(aggregate) THEN card.last = None \/ aggregate.last \in {None, card.last}
            ELSE aggregate.nicks # {}
         /\ {card.gender, aggregate.gender} # Gender
         /\ <<a, c>> \notin d.isNot /\ <<c, a>> \notin d.isNot}

\* Which of several with the best score, the query leaves open.
MatchingAggregates(d, c, card) ==
  LET score(a) == Score(card, d.contact[a].card)
      possible == PossibleAggregates(d, c, card)
  IN  {a \in possible : score(a) >= MinimumMatchScore /\ \A b \in possible : score(b) <= score(a)}

AggregatedBy(d, a, c) == [d EXCEPT !.aggregates = @ \cup {<<a, c>>}]

UpdateOrCreateAggregate(d, c, card, mask, createOnly) ==
  LET matches == MatchingAggregates(d, c, card)
      row == [collection |-> "aggregate", card |-> PromoteDetailsToAggregate(card, EmptyCard, mask),
              active |-> TRUE, deleted |-> FALSE]
      promoted(a) == [d EXCEPT !.contact[a].card = PromoteDetailsToAggregate(card, @, mask)]
  IN  IF matches # {} THEN {AggregatedBy(IF createOnly THEN d ELSE promoted(a), a, c) : a \in matches}
      ELSE IF d.last < MaxContact THEN {AggregatedBy(WithRow(d, row), d.last + 1, c)} ELSE {}

\* An aggregate that is older than its constituent is regenerated.
SetAggregate(d, c, update, card, mask) ==
  UNION {LET S == AggregatesOf(e, c)
         IN  IF update \/ \E a \in S : a < c THEN RegenerateAggregates(e, S, mask) ELSE {e} :
         e \in UpdateOrCreateAggregate(d, c, card, mask, TRUE)}

Orphans(d) == {c \in DOMAIN d.contact :
                 /\ d.contact[c].active /\ ~d.contact[c].deleted
                 /\ d.contact[c].collection \in Aggregable
                 /\ AggregatesOf(d, c) = {}}

\* One after the other, in the order of their ids.
AggregateOrphanedContacts(d) ==
  LET aggregated[S \in SUBSET Orphans(d)] ==
        IF S = {} THEN {d}
        ELSE LET c == Max(S)
             IN  UNION {UpdateOrCreateAggregate(e, c, e.contact[c].card, DetailTypes, FALSE) :
                          e \in aggregated[S \ {c}]}
  IN  aggregated[Orphans(d)]

-----------------------------------------------------------------------------
(***************************************************************************)
(* Transactions.                                                           *)
(***************************************************************************)
Dated(d, S) == [d EXCEPT !.dated = @ \cup S]

\* A new contact is saved with all that it has; a save is of one contact.
Create(collection, card, active) ==
  LET c == db.last + 1
      row == [collection |-> collection, card |-> card, active |-> active, deleted |-> FALSE]
  IN  /\ db.last < MaxContact
      /\ Cardinality(DOMAIN db.contact \ Aggregates(db)) < MaxConstituent
      /\ \E d \in IF collection \in Aggregable THEN SetAggregate(WithRow(db, row), c, FALSE, card, DetailTypes)
                  ELSE {WithRow(db, row)} :
           db' = IF active THEN d ELSE Dated(d, AggregatesOf(d, c))
      /\ UNCHANGED request

\* Mutant: it is matched again.
AggregateUpdatedAnew(d, c, card, mask) ==
  LET alone == [d EXCEPT !.aggregates = {r \in @ : r[2] # c}]
  IN  IF d.contact[c].collection \in Aggregable THEN SetAggregate(alone, c, TRUE, card, mask) ELSE {d}

\* The rest of a save that is not of presence alone, when the row of the contact has been written.
AggregateUpdated(d, c, card, mask) ==
  LET S == AggregatesOf(d, c)
  IN  UNION {AggregateOrphanedContacts(e) :
               e \in IF d.contact[c].collection \notin Aggregable THEN {d}
                     ELSE IF S # {} THEN RegenerateAggregates(d, S, mask)
                     ELSE IF d.contact[c].collection = "local" THEN SetAggregate(d, c, TRUE, card, mask)
                     ELSE {d}}

Update(c, card, active, mask) ==
  LET written == [db.contact[c] EXCEPT !.card = Masked(card, @, mask),
                                       !.active = IF "deactivated" \in mask THEN active ELSE @]
      \* The mask leaves out details that come or go with the contact.
      partial == mask # DetailTypes /\ (written.active # db.contact[c].active \/ AggregatesOf(db, c) = {})
  IN  /\ Live(db, c) /\ ~IsAggregate(db, c)
      /\ \E d \in AggregateUpdated([db EXCEPT !.contact[c] = written], c, card, mask) :
           db' = IF partial THEN Dated(d, AggregatesOf(d, c)) ELSE d
      /\ UNCHANGED request

Undelete(c, mask) ==
  /\ c \in DOMAIN db.contact /\ db.contact[c].deleted
  /\ \E d \in AggregateUpdated([db EXCEPT !.contact[c].deleted = FALSE],
                               c, db.contact[c].card, mask) :
       db' = IF mask = DetailTypes THEN d ELSE Dated(d, AggregatesOf(d, c))
  /\ UNCHANGED request

\* Before its transaction a removal looks for the aggregates.
BeginRemoval(k, S) ==
  /\ request[k] = NoRequest
  /\ S # {} /\ \A c \in S : Live(db, c) /\ ~IsAggregate(db, c)
  /\ \A b, c \in S : db.contact[b].collection = db.contact[c].collection
  /\ request' = [request EXCEPT ![k] = [ids |-> S, aggregates |-> UNION {AggregatesOf(db, c) : c \in S}]]
  /\ UNCHANGED db

\* A row that is gone by now is not updated.  An aggregate that the contact has got
\* meanwhile is overlooked.
CompleteRemoval(k) ==
  LET S == request[k].ids
      deleted == [db EXCEPT !.contact = [c \in DOMAIN @ |-> IF c \in S THEN [@[c] EXCEPT !.deleted = TRUE] ELSE @[c]],
                            !.dated = @ \cup ((UNION {AggregatesOf(db, c) : c \in S}) \ request[k].aggregates)]
  IN  /\ request[k] # NoRequest
      /\ db' \in RegenerateAggregates(RemoveChildlessAggregates(deleted), request[k].aggregates \ Childless(deleted),
                                      DetailTypes)
      /\ request' = [request EXCEPT ![k] = NoRequest]

\* It fails, or is not executed.
AbandonRemoval(k) ==
  /\ request[k] # NoRequest
  /\ request' = [request EXCEPT ![k] = NoRequest]
  /\ UNCHANGED db

\* A client gives an aggregate another constituent, of an aggregable collection.  That
\* a client would aggregate aggregates, or what is not aggregable, is left out.
SaveAggregates(a, c) ==
  /\ Live(db, a) /\ Live(db, c) /\ db.contact[c].collection \in Aggregable
  /\ <<a, c>> \notin db.aggregates
  /\ db' \in RegenerateAggregates([AggregatedBy(db, a, c) EXCEPT !.linked = @ \cup {c}], {a}, DetailTypes)
  /\ UNCHANGED request

\* A client says that a contact is not the person of an aggregate; between other
\* contacts, that has no effect.
SaveIsNot(b, c) ==
  /\ Live(db, b) /\ IsAggregate(db, b) /\ Live(db, c) /\ ~IsAggregate(db, c)
  /\ <<b, c>> \notin db.isNot /\ Cardinality(db.isNot) < MaxIsNot
  /\ db' = [db EXCEPT !.isNot = @ \cup {<<b, c>>}]
  /\ UNCHANGED request

RemoveAggregates(a, c) ==
  LET d == [db EXCEPT !.aggregates = @ \ {<<a, c>>}]
      e == RemoveChildlessAggregates(d)
  IN  /\ <<a, c>> \in db.aggregates
      /\ db' \in UNION {AggregateOrphanedContacts(f) : f \in RegenerateAggregates(e, {a} \ Childless(d), DetailTypes)}
      /\ UNCHANGED request

RemoveIsNot(b, c) ==
  /\ <<b, c>> \in db.isNot
  /\ db' \in AggregateOrphanedContacts(RemoveChildlessAggregates([db EXCEPT !.isNot = @ \ {<<b, c>>}]))
  /\ UNCHANGED request

\* clearChangeFlags removes the row of a deleted contact.
Purge(c) ==
  /\ c \in DOMAIN db.contact /\ db.contact[c].deleted
  /\ db' = WithoutRows(db, {c})
  /\ UNCHANGED request

Next ==
  \/ \E collection \in Collection, card \in Card, active \in BOOLEAN : Create(collection, card, active)
  \/ \E c \in Id, card \in Card, active \in BOOLEAN, mask \in Mask : Update(c, card, active, mask)
  \/ \E c \in Id : (\E mask \in Mask : Undelete(c, mask)) \/ Purge(c)
  \/ \E k \in Client : (\E S \in SUBSET Id : BeginRemoval(k, S)) \/ CompleteRemoval(k) \/ AbandonRemoval(k)
  \/ \E b, c \in Id : SaveAggregates(b, c) \/ SaveIsNot(b, c) \/ RemoveAggregates(b, c) \/ RemoveIsNot(b, c)

Spec == Init /\ [][Next]_vars
-----------------------------------------------------------------------------
(***************************************************************************)
(* Properties                                                              *)
(***************************************************************************)
\* Every contact that is active and not deleted, in an aggregable collection, has an
\* aggregate, and only one unless a client has given it another; every
\* aggregate has an active constituent unless it may be out of date.
Partition ==
  /\ Orphans(db) = {}
  /\ \A c \in DOMAIN db.contact \ db.linked : Cardinality(AggregatesOf(db, c)) <= 1
  /\ \A a \in Aggregates(db) \ db.dated : ActiveConstituents(db, a) # {}

\* An aggregate has what its active constituents have, of names and genders
\* that of one of them, and nothing else: "Any aggregate contacts ... needs to be
\* regenerated (as some details may no longer be valid)" (contactwriter.cpp:4244).
DetailsInStep ==
  \A a \in Aggregates(db) \ db.dated :
    LET card == db.contact[a].card
        cards == {db.contact[c].card : c \in ActiveConstituents(db, a)}
    IN  /\ card.nicks = UNION {c.nicks : c \in cards}
        /\ card.values = UNION {c.values : c \in cards}
        /\ \A part \in {"first", "last", "gender"} :
             LET parts == {c[part] : c \in cards} \ {None}
             IN  IF parts = {} THEN card[part] = None ELSE card[part] \in parts

\* Every contact is shown in an aggregate, and every aggregate shows contacts.
AggregatesSound == Partition /\ DetailsInStep

\* Contacts that are aggregated together stay together as long as they are
\* active and not deleted, unless a client takes them apart.
TogetherStays ==
  [][\A b, c \in DOMAIN db.contact :
       LET together(d) == AggregatesOf(d, b) \cap AggregatesOf(d, c) # {}
           stays(d, i) == i \in Orphans([d EXCEPT !.aggregates = {}])
       IN  together(db) /\ (\A i \in {b, c} : stays(db, i) /\ stays(db', i))
             => together(db') \/ \E r \in db.aggregates : RemoveAggregates(r[1], r[2])]_vars
=============================================================================
