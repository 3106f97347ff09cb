-------------------------- MODULE AggregationProofs --------------------------
(***************************************************************************)
(* Aggregates are sound, for any number of clients, contacts, names and    *)
(* other details.  A transaction is followed from one database to the      *)
(* next: within it, a database is sound but for some aggregates, which may *)
(* be out of step, and some contacts, which may have no aggregate; at its  *)
(* end there are none of either.                                           *)
(***************************************************************************)
EXTENDS Aggregation, FiniteSetTheorems, WellFoundedInduction, TLAPS

\* Any naturals have a least one.
LEMMA Least ==
  ASSUME NEW T, T \subseteq Nat, T # {}
  PROVE  \E x \in T : \A y \in T : x <= y
<1> DEFINE less == {p \in Nat \X Nat : p[1] < p[2]}
<1>1. IsWellFoundedOn(less, Nat)
  BY NatLessThanWellFounded DEF OpToRel
<1>2. \A x, y \in Nat : <<y, x>> \notin less => x <= y
  OBVIOUS
<1> HIDE DEF less
<1>3. \E x \in T : \A y \in T : <<y, x>> \notin less
  BY <1>1, WFMin
<1> QED BY <1>2, <1>3

\* Any ids have a greatest one.
LEMMA Greatest ==
  ASSUME NEW n \in Nat, NEW S, S \subseteq 1..n, S # {}
  PROVE  \E x \in S : \A y \in S : y <= x
<1> DEFINE T == {n - x : x \in S}
<1>1. \A x \in S : n - x \in Nat
  OBVIOUS
<1>2. PICK t \in T : \A u \in T : t <= u
  <2>1. T \subseteq Nat /\ T # {}
    BY <1>1
  <2> HIDE DEF T
  <2> QED BY <2>1, Least
<1>3. PICK x \in S : t = n - x
  OBVIOUS
<1>4. \A y \in S : n - y \in T
  OBVIOUS
<1> HIDE DEF T
<1>5. \A y \in S : y <= x
  BY <1>2, <1>3, <1>4
<1> QED BY <1>5

\* Ids are finitely many.
LEMMA FiniteIds ==
  ASSUME NEW n \in Nat, NEW S, S \subseteq 1..n
  PROVE  IsFiniteSet(S)
<1>1. IsFiniteSet(1..n)
  BY FS_Interval
<1> QED BY <1>1, FS_Subset

\* Of any contacts, one is promoted last.
LEMMA LastIsThere ==
  ASSUME NEW d, NEW n \in Nat, NEW S, S \subseteq 1..n, S # {}
  PROVE  LastOf(d, S) \in S
<1> DEFINE R == {c \in S : d.contact[c].collection # "local"}
<1>1. ASSUME NEW c \in S, \A b \in S \ {c} : Precedes(d, b, c) PROVE LastOf(d, S) \in S
  BY <1>1 DEF LastOf
<1>2. CASE R = {}
  <2> PICK c \in S : \A b \in S : b <= c
    BY Greatest
  <2>1. \A b \in S \ {c} : Precedes(d, b, c)
    BY <1>2 DEF Precedes
  <2> QED BY <2>1, <1>1
<1>3. CASE R # {}
  <2> PICK c \in R : \A b \in R : b <= c
    <3>1. R \subseteq 1..n
      OBVIOUS
    <3> HIDE DEF R
    <3> QED BY <1>3, <3>1, Greatest
  <2>1. ASSUME NEW b \in S \ {c} PROVE Precedes(d, b, c)
    <3>1. c \in S
      OBVIOUS
    <3>4. b \in Int /\ c \in Int /\ b # c
      BY <3>1
    <3>2. CASE b \in R
      <4>1. b < c
        BY <3>4, <3>2
      <4> QED BY <3>2, <4>1 DEF Precedes
    <3>3. CASE b \notin R
      BY <3>3 DEF Precedes
    <3> QED BY <3>2, <3>3
  <2> QED BY <2>1, <1>1
<1> QED BY <1>2, <1>3

-----------------------------------------------------------------------------
(***************************************************************************)
(* The promotion of several contacts.                                      *)
(***************************************************************************)
Promotion(d, card, mask, p, S) ==
  IF S = {} THEN card
  ELSE PromoteDetailsToAggregate(d.contact[LastOf(d, S)].card, p[S \ {LastOf(d, S)}], mask)

IsPromotion(d, C, card, mask, p) == p = [S \in SUBSET C |-> Promotion(d, card, mask, p, S)]

\* The promotion is by its recursive equation, if a function satisfies that.
LEMMA PromotionUnfolds ==
  ASSUME NEW d, NEW C, NEW card, NEW mask, \E p : IsPromotion(d, C, card, mask, p)
  PROVE  \E p : IsPromotion(d, C, card, mask, p) /\ PromotedToAggregate(d, C, card, mask) = p[C]
<1> DEFINE q == CHOOSE p : IsPromotion(d, C, card, mask, p)
<1>1. IsPromotion(d, C, card, mask, q)
  OBVIOUS
<1>2. PromotedToAggregate(d, C, card, mask) = q[C]
  BY DEF PromotedToAggregate, Promotion, IsPromotion
<1> QED BY <1>1, <1>2

\* One does: else there were a least number of contacts for which none does.
LEMMA PromotionExists ==
  ASSUME NEW d, NEW n \in Nat, NEW C, C \subseteq 1..n, NEW card, NEW mask
  PROVE  \E p : IsPromotion(d, C, card, mask, p)
<1> DEFINE Small(k) == {S \in SUBSET C : Cardinality(S) <= k}
           Exists(k) == \E p : p = [S \in Small(k) |-> Promotion(d, card, mask, p, S)]
           Fails == {k \in Nat : ~Exists(k)}
<1>1. IsFiniteSet(C) /\ \A S \in SUBSET C : IsFiniteSet(S) /\ Cardinality(S) \in Nat /\ Cardinality(S) <= Cardinality(C)
  <2>1. IsFiniteSet(C)
    BY FiniteIds
  <2> QED BY <2>1, FS_Subset, FS_CardinalityType
<1>2. \A S \in SUBSET C : S # {} =>
        LET T == S \ {LastOf(d, S)} IN T \in SUBSET C /\ Cardinality(T) = Cardinality(S) - 1
  <2> SUFFICES ASSUME NEW S \in SUBSET C, S # {}
               PROVE  Cardinality(S \ {LastOf(d, S)}) = Cardinality(S) - 1
    OBVIOUS
  <2>1. LastOf(d, S) \in S
    BY LastIsThere
  <2>2. IsFiniteSet(S)
    BY <1>1
  <2> QED BY <2>1, <2>2, FS_RemoveElement
<1>3. Exists(0)
  <2>1. \A S \in Small(0) : S = {}
    BY <1>1, FS_EmptySet
  <2> DEFINE p == [S \in Small(0) |-> card]
  <2>2. p = [S \in Small(0) |-> Promotion(d, card, mask, p, S)]
    BY <2>1 DEF Promotion
  <2> QED BY <2>2
<1>4. ASSUME NEW k \in Nat, Exists(k) PROVE Exists(k + 1)
  <2> PICK p : p = [S \in Small(k) |-> Promotion(d, card, mask, p, S)]
    BY <1>4
  <2> DEFINE q == [S \in Small(k + 1) |-> Promotion(d, card, mask, p, S)]
  <2>1. \A S \in Small(k + 1) : S # {} => S \ {LastOf(d, S)} \in Small(k)
    BY <1>1, <1>2
  <2>2. \A S \in Small(k) : S \in Small(k + 1) /\ p[S] = Promotion(d, card, mask, p, S)
    BY <1>1
  <2> HIDE DEF Small
  <2>3. \A S \in Small(k) : q[S] = p[S]
    BY <2>2
  <2>4. ASSUME NEW S \in Small(k + 1) PROVE Promotion(d, card, mask, q, S) = Promotion(d, card, mask, p, S)
    <3> HIDE DEF q
    <3>1. CASE S = {}
      BY <3>1 DEF Promotion
    <3>2. CASE S # {}
      <4>1. q[S \ {LastOf(d, S)}] = p[S \ {LastOf(d, S)}]
        BY <2>1, <2>3, <3>2
      <4> QED BY <3>2, <4>1 DEF Promotion
    <3> QED BY <3>1, <3>2
  <2>5. q = [S \in Small(k + 1) |-> Promotion(d, card, mask, q, S)]
    BY <2>4
  <2> QED BY <2>5
<1>5. SUBSET C = Small(Cardinality(C)) /\ Cardinality(C) \in Nat
  BY <1>1
<1> HIDE DEF Small, Exists
<1>6. Fails = {}
  <2> SUFFICES ASSUME Fails # {} PROVE FALSE
    OBVIOUS
  <2>1. PICK k \in Fails : \A j \in Fails : k <= j
    BY Least
  <2>2. k # 0 /\ k - 1 \in Nat
    BY <1>3
  <2>3. k - 1 \notin Fails
    BY <2>1
  <2> QED BY <2>2, <2>3, <1>4
<1>7. Exists(Cardinality(C))
  BY <1>5, <1>6
<1> QED BY <1>5, <1>7 DEF Exists, IsPromotion

Composed(old, part, type, mask) == IF type \in mask /\ old = None THEN part ELSE old
Joined(old, more, type, mask) == IF type \in mask THEN old \cup more ELSE old

\* One of the parts, if there is any.
OneOf(x, parts) == IF parts \ {None} = {} THEN x = None ELSE x \in parts \ {None}

PartPromoted(x, old, parts, type, mask) == IF type \in mask /\ old = None THEN OneOf(x, parts) ELSE x = old

FirstsOf(d, C) == {d.contact[c].card.first : c \in C}
LastsOf(d, C) == {d.contact[c].card.last : c \in C}
GendersOf(d, C) == {d.contact[c].card.gender : c \in C}
NicksOf(d, C) == UNION {d.contact[c].card.nicks : c \in C}
ValuesOf(d, C) == UNION {d.contact[c].card.values : c \in C}

\* The card x is what the contacts of C were promoted to.
Promoted(d, C, card, mask, x) ==
  /\ x \in CardType
  /\ x.nicks = Joined(card.nicks, NicksOf(d, C), "nickname", mask)
  /\ x.values = Joined(card.values, ValuesOf(d, C), "value", mask)
  /\ PartPromoted(x.first, card.first, FirstsOf(d, C), "name", mask)
  /\ PartPromoted(x.last, card.last, LastsOf(d, C), "name", mask)
  /\ PartPromoted(x.gender, card.gender, GendersOf(d, C), "gender", mask)

\* Names and genders: one contact more is promoted.
LEMMA PartComposed ==
  ASSUME NEW x, NEW old, NEW parts, NEW y, NEW type, NEW mask,
         PartPromoted(x, old, parts, type, mask)
  PROVE  PartPromoted(Composed(x, y, type, mask), old, parts \cup {y}, type, mask)
BY DEF PartPromoted, OneOf, Composed

\* What PromoteDetailsToAggregate does, part by part.
LEMMA OnePromoted ==
  ASSUME NEW new \in CardType, NEW old \in CardType, NEW mask,
         NEW x, PromoteDetailsToAggregate(new, old, mask) = x
  PROVE  /\ x \in CardType
         /\ x.nicks = Joined(old.nicks, new.nicks, "nickname", mask)
         /\ x.values = Joined(old.values, new.values, "value", mask)
         /\ x.first = Composed(old.first, new.first, "name", mask)
         /\ x.last = Composed(old.last, new.last, "name", mask)
         /\ x.gender = Composed(old.gender, new.gender, "gender", mask)
BY DEF PromoteDetailsToAggregate, Masked, EmptyCard, CardType, Composed, Joined

\* When all but the last contact are promoted, and then the last one, all are.
LEMMA OneMorePromoted ==
  ASSUME NEW d, NEW S, NEW l \in S, NEW T, T = S \ {l}, NEW card \in CardType, NEW mask,
         NEW new \in CardType, d.contact[l].card = new,
         NEW old, Promoted(d, T, card, mask, old),
         NEW x, PromoteDetailsToAggregate(new, old, mask) = x
  PROVE  Promoted(d, S, card, mask, x)
<1>1. /\ FirstsOf(d, S) = FirstsOf(d, T) \cup {new.first}
      /\ LastsOf(d, S) = LastsOf(d, T) \cup {new.last}
      /\ GendersOf(d, S) = GendersOf(d, T) \cup {new.gender}
      /\ NicksOf(d, S) = NicksOf(d, T) \cup new.nicks
      /\ ValuesOf(d, S) = ValuesOf(d, T) \cup new.values
  <2>1. FirstsOf(d, S) = FirstsOf(d, T) \cup {new.first}
    BY DEF FirstsOf
  <2>2. LastsOf(d, S) = LastsOf(d, T) \cup {new.last}
    BY DEF LastsOf
  <2>3. GendersOf(d, S) = GendersOf(d, T) \cup {new.gender}
    BY DEF GendersOf
  <2>4. NicksOf(d, S) = NicksOf(d, T) \cup new.nicks
    BY DEF NicksOf
  <2>5. ValuesOf(d, S) = ValuesOf(d, T) \cup new.values
    BY DEF ValuesOf
  <2> QED BY <2>1, <2>2, <2>3, <2>4, <2>5
<1>2. old \in CardType
  BY DEF Promoted
<1>3. /\ x \in CardType
      /\ x.nicks = Joined(old.nicks, new.nicks, "nickname", mask)
      /\ x.values = Joined(old.values, new.values, "value", mask)
      /\ x.first = Composed(old.first, new.first, "name", mask)
      /\ x.last = Composed(old.last, new.last, "name", mask)
      /\ x.gender = Composed(old.gender, new.gender, "gender", mask)
  BY <1>2, OnePromoted
<1>4. PartPromoted(x.first, card.first, FirstsOf(d, S), "name", mask)
  <2>1. PartPromoted(old.first, card.first, FirstsOf(d, T), "name", mask)
    BY DEF Promoted
  <2>2. x.first = Composed(old.first, new.first, "name", mask) /\ FirstsOf(d, S) = FirstsOf(d, T) \cup {new.first}
    BY <1>1, <1>3
  <2> QED BY <2>1, <2>2, PartComposed
<1>5. PartPromoted(x.last, card.last, LastsOf(d, S), "name", mask)
  <2>1. PartPromoted(old.last, card.last, LastsOf(d, T), "name", mask)
    BY DEF Promoted
  <2>2. x.last = Composed(old.last, new.last, "name", mask) /\ LastsOf(d, S) = LastsOf(d, T) \cup {new.last}
    BY <1>1, <1>3
  <2> QED BY <2>1, <2>2, PartComposed
<1>6. PartPromoted(x.gender, card.gender, GendersOf(d, S), "gender", mask)
  <2>1. PartPromoted(old.gender, card.gender, GendersOf(d, T), "gender", mask)
    BY DEF Promoted
  <2>2. x.gender = Composed(old.gender, new.gender, "gender", mask) /\ GendersOf(d, S) = GendersOf(d, T) \cup {new.gender}
    BY <1>1, <1>3
  <2> QED BY <2>1, <2>2, PartComposed
<1>7. x.nicks = Joined(card.nicks, NicksOf(d, S), "nickname", mask)
  BY <1>1, <1>3 DEF Promoted, Joined
<1>8. x.values = Joined(card.values, ValuesOf(d, S), "value", mask)
  BY <1>1, <1>3 DEF Promoted, Joined
<1> QED BY <1>3, <1>4, <1>5, <1>6, <1>7, <1>8 DEF Promoted

\* PromotedToAggregate promotes all contacts, whatever their order: else there were
\* a least number of contacts of which it does not.
LEMMA AllPromoted ==
  ASSUME NEW d, NEW n \in Nat, NEW C, C \subseteq 1..n, \A c \in C : d.contact[c].card \in CardType,
         NEW card \in CardType, NEW mask
  PROVE  Promoted(d, C, card, mask, PromotedToAggregate(d, C, card, mask))
<1>1. PICK p : IsPromotion(d, C, card, mask, p) /\ PromotedToAggregate(d, C, card, mask) = p[C]
  <2>1. \E p : IsPromotion(d, C, card, mask, p)
    BY PromotionExists
  <2> QED BY <2>1, PromotionUnfolds
<1>2. \A S \in SUBSET C : p[S] = Promotion(d, card, mask, p, S)
  BY <1>1 DEF IsPromotion
<1> DEFINE Fails == {S \in SUBSET C : ~Promoted(d, S, card, mask, p[S])}
           sizes == {Cardinality(S) : S \in Fails}
<1>3. \A S \in SUBSET C : IsFiniteSet(S) /\ Cardinality(S) \in Nat
  BY FiniteIds, FS_CardinalityType
<1>4. Promoted(d, {}, card, mask, p[{}])
  <2>1. p[{}] = card
    BY <1>2 DEF Promotion
  <2>2. /\ NicksOf(d, {}) = {} /\ ValuesOf(d, {}) = {}
        /\ FirstsOf(d, {}) = {} /\ LastsOf(d, {}) = {} /\ GendersOf(d, {}) = {}
    BY DEF NicksOf, ValuesOf, FirstsOf, LastsOf, GendersOf
  <2> QED BY <2>1, <2>2 DEF Promoted, PartPromoted, OneOf, Joined
<1>5. ASSUME NEW S \in SUBSET C, NEW l \in S, l = LastOf(d, S), Promoted(d, S \ {l}, card, mask, p[S \ {l}])
      PROVE  Promoted(d, S, card, mask, p[S])
  <2>1. PromoteDetailsToAggregate(d.contact[l].card, p[S \ {l}], mask) = p[S]
    BY <1>2, <1>5 DEF Promotion
  <2> QED BY <2>1, <1>5, OneMorePromoted
<1>6. Fails = {}
  <2> SUFFICES ASSUME Fails # {} PROVE FALSE
    OBVIOUS
  <2>1. sizes # {} /\ sizes \subseteq Nat
    BY <1>3
  <2>2. PICK k \in sizes : \A j \in sizes : k <= j
    <3> HIDE DEF sizes
    <3> QED BY <2>1, Least
  <2>3. PICK S \in Fails : k = Cardinality(S)
    OBVIOUS
  <2>4. S # {}
    BY <1>4
  <2>5. LastOf(d, S) \in S
    BY <2>4, LastIsThere
  <2>6. S \ {LastOf(d, S)} \in SUBSET C /\ Cardinality(S \ {LastOf(d, S)}) = Cardinality(S) - 1
    BY <1>3, <2>5, FS_RemoveElement
  <2>7. S \ {LastOf(d, S)} \notin Fails
    BY <2>2, <2>3, <2>6, <1>3
  <2> QED BY <1>5, <2>3, <2>5, <2>6, <2>7
<1> QED BY <1>1, <1>6

(***************************************************************************)
(* Databases.                                                              *)
(***************************************************************************)
IsRecord(d) ==
  d = [contact |-> d.contact, last |-> d.last, aggregates |-> d.aggregates, isNot |-> d.isNot,
       dated |-> d.dated, linked |-> d.linked]

Rows(d) == DOMAIN d.contact

Aggregated(d, a, c) == <<a, c>> \in d.aggregates

\* The types of the tables, and that aggregates aggregate what can be.
IsDatabase(d) ==
  /\ IsRecord(d)
  /\ d.last \in 0..MaxContact
  /\ d.contact \in [Rows(d) -> Row] /\ Rows(d) \subseteq 1..d.last
  /\ d.aggregates \subseteq Rows(d) \X Rows(d) /\ d.isNot \subseteq Rows(d) \X Rows(d)
  /\ d.dated \subseteq Rows(d) /\ d.linked \subseteq Rows(d)
  /\ \A a \in Aggregates(d) : d.contact[a].active /\ ~d.contact[a].deleted
  /\ \A a, c : Aggregated(d, a, c) => a \in Aggregates(d) /\ d.contact[c].collection \in Aggregable

\* A contact that its aggregates show.
Shown(d, c) == c \in Rows(d) /\ d.contact[c].active /\ ~d.contact[c].deleted

\* Aggregates and constituents by the relationship.
LEMMA Related ==
  ASSUME NEW d, IsDatabase(d)
  PROVE  /\ \A a, c : a \in AggregatesOf(d, c) <=> Aggregated(d, a, c)
         /\ \A a, c : c \in Constituents(d, a) <=> Aggregated(d, a, c) /\ ~d.contact[c].deleted
         /\ \A a, c : c \in ActiveConstituents(d, a) <=> Aggregated(d, a, c) /\ Shown(d, c)
         /\ \A a, c : Aggregated(d, a, c) => a \in Rows(d) /\ c \in Rows(d) /\ c \notin Aggregates(d)
         /\ \A a : a \in Aggregates(d) <=> a \in Rows(d) /\ d.contact[a].collection = "aggregate"
<1>1. \A r \in d.aggregates : r = <<r[1], r[2]>> /\ r[1] \in Rows(d) /\ r[2] \in Rows(d)
  BY DEF IsDatabase
<1>2. ASSUME NEW a, NEW c PROVE a \in AggregatesOf(d, c) <=> Aggregated(d, a, c)
  <2>1. ASSUME a \in AggregatesOf(d, c) PROVE Aggregated(d, a, c)
    BY <1>1, <2>1 DEF AggregatesOf, Aggregated
  <2>2. ASSUME Aggregated(d, a, c) PROVE a \in AggregatesOf(d, c)
    <3>1. <<a, c>> \in {q \in d.aggregates : q[2] = c} /\ <<a, c>>[1] = a
      BY <2>2 DEF Aggregated
    <3> QED BY <3>1 DEF AggregatesOf
  <2> QED BY <2>1, <2>2
<1>3. ASSUME NEW a, NEW c PROVE c \in Constituents(d, a) <=> Aggregated(d, a, c) /\ ~d.contact[c].deleted
  <2>1. ASSUME c \in Constituents(d, a) PROVE Aggregated(d, a, c) /\ ~d.contact[c].deleted
    BY <1>1, <2>1 DEF Constituents, Aggregated
  <2>2. ASSUME Aggregated(d, a, c), ~d.contact[c].deleted PROVE c \in Constituents(d, a)
    <3>1. <<a, c>> \in {q \in d.aggregates : q[1] = a} /\ <<a, c>>[2] = c
      BY <2>2 DEF Aggregated
    <3> QED BY <3>1, <2>2 DEF Constituents
  <2> QED BY <2>1, <2>2
<1>4. \A a, c : Aggregated(d, a, c) => a \in Rows(d) /\ c \in Rows(d)
  BY <1>1 DEF Aggregated
<1>5. \A a : a \in Aggregates(d) <=> a \in Rows(d) /\ d.contact[a].collection = "aggregate"
  BY DEF Aggregates, IsAggregate, Rows
<1>6. \A a, c : Aggregated(d, a, c) => c \notin Aggregates(d)
  BY <1>5 DEF IsDatabase, Aggregable
<1>7. \A a, c : c \in ActiveConstituents(d, a) <=> Aggregated(d, a, c) /\ Shown(d, c)
  BY <1>3, <1>4 DEF ActiveConstituents, Shown
<1> QED BY <1>2, <1>3, <1>4, <1>5, <1>6, <1>7

\* How a database is known: by its fields.
LEMMA KnownByFields ==
  ASSUME NEW d, IsRecord(d),
         NEW n \in 0..MaxContact, d.last = n,
         NEW R, Rows(d) = R, R \subseteq 1..n, d.contact \in [R -> Row],
         d.aggregates \subseteq R \X R, d.isNot \subseteq R \X R,
         d.dated \subseteq R, d.linked \subseteq R,
         \A a \in R : d.contact[a].collection = "aggregate" => d.contact[a].active /\ ~d.contact[a].deleted,
         \A a, c : Aggregated(d, a, c) =>
           d.contact[a].collection = "aggregate" /\ d.contact[c].collection \in Aggregable
  PROVE  IsDatabase(d)
<1>1. \A a : a \in Aggregates(d) <=> a \in R /\ d.contact[a].collection = "aggregate"
  BY DEF Aggregates, IsAggregate, Rows
<1>2. \A a, c : Aggregated(d, a, c) => a \in R
  BY DEF Aggregated
<1> QED BY <1>1, <1>2 DEF IsDatabase

\* What a database is without some rows.
LEMMA WithoutRowsIs ==
  ASSUME NEW d, IsDatabase(d), NEW S, NEW e, WithoutRows(d, S) = e
  PROVE  /\ IsDatabase(e)
         /\ e.last = d.last /\ Rows(e) = Rows(d) \ S
         /\ \A c \in Rows(e) : e.contact[c] = d.contact[c]
         /\ \A a, c : Aggregated(e, a, c) <=> Aggregated(d, a, c) /\ a \notin S /\ c \notin S
         /\ e.dated = d.dated \ S /\ e.linked = d.linked \ S
<1> DEFINE remain(R) == {r \in R : r[1] \notin S /\ r[2] \notin S}
<1>1. /\ IsRecord(e)
      /\ e.contact = [c \in Rows(d) \ S |-> d.contact[c]]
      /\ e.last = d.last
      /\ e.aggregates = remain(d.aggregates) /\ e.isNot = remain(d.isNot)
      /\ e.dated = d.dated \ S /\ e.linked = d.linked \ S
  BY DEF WithoutRows, IsRecord, IsDatabase, Rows
<1>2. /\ Rows(e) = Rows(d) \ S
      /\ \A c \in Rows(e) : e.contact[c] = d.contact[c]
      /\ e.contact \in [Rows(d) \ S -> Row]
  <2>1. d.contact \in [Rows(d) -> Row]
    BY DEF IsDatabase
  <2> QED BY <1>1, <2>1 DEF Rows
<1>3. \A a, c : Aggregated(e, a, c) <=> Aggregated(d, a, c) /\ a \notin S /\ c \notin S
  BY <1>1 DEF Aggregated
<1>4. /\ e.aggregates \subseteq (Rows(d) \ S) \X (Rows(d) \ S)
      /\ e.isNot \subseteq (Rows(d) \ S) \X (Rows(d) \ S)
  <2>1. /\ \A r \in d.aggregates : r \in Rows(d) \X Rows(d)
        /\ \A r \in d.isNot : r \in Rows(d) \X Rows(d)
    BY DEF IsDatabase
  <2> QED BY <1>1, <2>1
<1>5. /\ \A a \in Rows(e) : e.contact[a].collection = "aggregate" => e.contact[a].active /\ ~e.contact[a].deleted
      /\ \A a, c : Aggregated(e, a, c) =>
           e.contact[a].collection = "aggregate" /\ e.contact[c].collection \in Aggregable
  <2>1. \A a, c : Aggregated(e, a, c) => a \in Rows(e) /\ c \in Rows(e)
    BY <1>2, <1>3, Related
  <2>2. \A a, c : Aggregated(d, a, c) =>
           d.contact[a].collection = "aggregate" /\ d.contact[c].collection \in Aggregable
    BY Related DEF IsDatabase
  <2>3. \A a \in Rows(d) : d.contact[a].collection = "aggregate" => d.contact[a].active /\ ~d.contact[a].deleted
    BY Related DEF IsDatabase
  <2> QED BY <2>1, <2>2, <2>3, <1>2, <1>3
<1>6. e.last \in 0..MaxContact /\ Rows(e) \subseteq 1..e.last /\ e.dated \subseteq Rows(e) /\ e.linked \subseteq Rows(e)
  BY <1>1, <1>2 DEF IsDatabase
<1>7. IsDatabase(e)
  BY <1>1, <1>2, <1>4, <1>5, <1>6, KnownByFields
<1> QED BY <1>1, <1>2, <1>3, <1>7

\* What a database is with other rows.
LEMMA RowsRewritten ==
  ASSUME NEW d, IsDatabase(d), NEW e, IsRecord(e),
         e.last = d.last, e.aggregates = d.aggregates, e.isNot = d.isNot,
         e.dated \subseteq Rows(d), e.linked = d.linked,
         e.contact \in [Rows(d) -> Row],
         \A c \in Rows(d) : /\ e.contact[c].collection = d.contact[c].collection
                            /\ c \in Aggregates(d) => e.contact[c].active /\ ~e.contact[c].deleted
  PROVE  IsDatabase(e) /\ Rows(e) = Rows(d) /\ \A a, c : Aggregated(e, a, c) <=> Aggregated(d, a, c)
<1>1. Rows(e) = Rows(d)
  BY DEF Rows
<1>2. \A a, c : Aggregated(e, a, c) <=> Aggregated(d, a, c)
  BY DEF Aggregated
<1>3. \A a \in Rows(d) : e.contact[a].collection = "aggregate" => e.contact[a].active /\ ~e.contact[a].deleted
  BY Related
<1>4. \A a, c : Aggregated(e, a, c) =>
         e.contact[a].collection = "aggregate" /\ e.contact[c].collection \in Aggregable
  <2>1. \A a, c : Aggregated(d, a, c) =>
           /\ a \in Rows(d) /\ c \in Rows(d)
           /\ d.contact[a].collection = "aggregate" /\ d.contact[c].collection \in Aggregable
    BY Related DEF IsDatabase
  <2> QED BY <1>2, <2>1
<1>5. /\ d.last \in 0..MaxContact /\ Rows(d) \subseteq 1..d.last /\ d.linked \subseteq Rows(d)
      /\ d.aggregates \subseteq Rows(d) \X Rows(d) /\ d.isNot \subseteq Rows(d) \X Rows(d)
  BY DEF IsDatabase
<1> QED BY <1>1, <1>2, <1>3, <1>4, <1>5, KnownByFields

(***************************************************************************)
(* An aggregate in step with what it aggregates, in some of the types.     *)
(***************************************************************************)
CardInStep(x, d, A, types) ==
  /\ "name" \in types => OneOf(x.first, FirstsOf(d, A)) /\ OneOf(x.last, LastsOf(d, A))
  /\ "gender" \in types => OneOf(x.gender, GendersOf(d, A))
  /\ "nickname" \in types => x.nicks = NicksOf(d, A)
  /\ "value" \in types => x.values = ValuesOf(d, A)

InStep(d, a, types) == CardInStep(d.contact[a].card, d, ActiveConstituents(d, a), types)

\* Details of contacts that stay the same.
LEMMA SameCards ==
  ASSUME NEW d, NEW e, NEW A, \A c \in A : e.contact[c].card = d.contact[c].card
  PROVE  /\ FirstsOf(e, A) = FirstsOf(d, A) /\ LastsOf(e, A) = LastsOf(d, A)
         /\ GendersOf(e, A) = GendersOf(d, A)
         /\ NicksOf(e, A) = NicksOf(d, A) /\ ValuesOf(e, A) = ValuesOf(d, A)
<1>1. FirstsOf(e, A) = FirstsOf(d, A) /\ LastsOf(e, A) = LastsOf(d, A) /\ GendersOf(e, A) = GendersOf(d, A)
  BY DEF FirstsOf, LastsOf, GendersOf
<1>2. NicksOf(e, A) = NicksOf(d, A)
  <2>1. {e.contact[c].card.nicks : c \in A} = {d.contact[c].card.nicks : c \in A}
    OBVIOUS
  <2> QED BY <2>1 DEF NicksOf
<1>3. ValuesOf(e, A) = ValuesOf(d, A)
  <2>1. {e.contact[c].card.values : c \in A} = {d.contact[c].card.values : c \in A}
    OBVIOUS
  <2> QED BY <2>1 DEF ValuesOf
<1> QED BY <1>1, <1>2, <1>3

\* An aggregate in step stays in step when nothing changes that it shows.
LEMMA SameStep ==
  ASSUME NEW d, NEW e, NEW a, NEW types, InStep(d, a, types),
         e.contact[a].card = d.contact[a].card,
         ActiveConstituents(e, a) = ActiveConstituents(d, a),
         \A c \in ActiveConstituents(d, a) : e.contact[c].card = d.contact[c].card
  PROVE  InStep(e, a, types)
<1> DEFINE A == ActiveConstituents(d, a)
<1>1. ActiveConstituents(e, a) = A /\ \A c \in A : e.contact[c].card = d.contact[c].card
  OBVIOUS
<1> HIDE DEF A
<1>2. /\ FirstsOf(e, A) = FirstsOf(d, A) /\ LastsOf(e, A) = LastsOf(d, A)
      /\ GendersOf(e, A) = GendersOf(d, A)
      /\ NicksOf(e, A) = NicksOf(d, A) /\ ValuesOf(e, A) = ValuesOf(d, A)
  BY <1>1, SameCards
<1>3. CardInStep(d.contact[a].card, d, A, types)
  BY DEF InStep, A
<1>4. CardInStep(e.contact[a].card, e, A, types)
  BY <1>2, <1>3 DEF CardInStep
<1> QED BY <1>1, <1>4 DEF InStep

\* A regenerated aggregate is in step in the types of the mask, and has the same of others.
LEMMA RegeneratedInStep ==
  ASSUME NEW d, IsDatabase(d), NEW a \in Aggregates(d), NEW mask,
         NEW A, ActiveConstituents(d, a) = A,
         NEW x, Regenerated(d, a, mask) = x
  PROVE  /\ x \in CardType
         /\ CardInStep(x, d, A, mask)
         /\ CardInStep(d.contact[a].card, d, A, DetailTypes \ mask) => CardInStep(x, d, A, DetailTypes)
<1> DEFINE old == d.contact[a].card
           base == Masked(EmptyCard, old, mask)
<1>1. d.contact \in [Rows(d) -> Row] /\ a \in Rows(d) /\ Rows(d) \subseteq 1..d.last /\ d.last \in Nat
  BY Related DEF IsDatabase
<1>2. old \in CardType
  BY <1>1 DEF Row
<1>3. A \subseteq 1..d.last /\ \A c \in A : d.contact[c].card \in CardType
  <2>1. A \subseteq Rows(d)
    BY Related
  <2> QED BY <1>1, <2>1 DEF Row
<1>4. base \in CardType
  BY <1>2 DEF Masked, EmptyCard, CardType
<1>5. /\ base.first = IF "name" \in mask THEN None ELSE old.first
      /\ base.last = IF "name" \in mask THEN None ELSE old.last
      /\ base.gender = IF "gender" \in mask THEN None ELSE old.gender
      /\ base.nicks = IF "nickname" \in mask THEN {} ELSE old.nicks
      /\ base.values = IF "value" \in mask THEN {} ELSE old.values
  BY DEF Masked, EmptyCard
<1>6. x = PromotedToAggregate(d, A, base, mask)
  BY DEF Regenerated
<1> HIDE DEF old, base
<1>7. Promoted(d, A, base, mask, x)
  BY <1>1, <1>3, <1>4, <1>6, AllPromoted
<1>8. /\ x.first = x.first /\ IF "name" \in mask THEN OneOf(x.first, FirstsOf(d, A)) /\ OneOf(x.last, LastsOf(d, A))
                              ELSE x.first = old.first /\ x.last = old.last
      /\ IF "gender" \in mask THEN OneOf(x.gender, GendersOf(d, A)) ELSE x.gender = old.gender
      /\ IF "nickname" \in mask THEN x.nicks = NicksOf(d, A) ELSE x.nicks = old.nicks
      /\ IF "value" \in mask THEN x.values = ValuesOf(d, A) ELSE x.values = old.values
  BY <1>5, <1>7 DEF Promoted, PartPromoted, Joined
<1>9. CardInStep(x, d, A, mask)
  BY <1>8 DEF CardInStep
<1>10. ASSUME CardInStep(old, d, A, DetailTypes \ mask) PROVE CardInStep(x, d, A, DetailTypes)
  BY <1>8, <1>10 DEF CardInStep, DetailTypes
<1> QED BY <1>7, <1>9, <1>10 DEF Promoted, old

\* The database before the rows of those without active constituents are removed.
RewrittenCards(d, S, removed, mask) ==
  [c \in Rows(d) |-> IF c \in S \ removed THEN [d.contact[c] EXCEPT !.card = Regenerated(d, c, mask)]
                     ELSE d.contact[c]]

StillDated(d, S, mask) == IF mask = DetailTypes THEN d.dated \ S ELSE d.dated

Rewritten(d, S, removed, mask) ==
  [d EXCEPT !.contact = RewrittenCards(d, S, removed, mask), !.dated = StillDated(d, S, mask)]

IsRewritten(d, S, removed, mask, e) ==
  /\ IsDatabase(e) /\ Rows(e) = Rows(d) /\ e.last = d.last
  /\ \A a, c : Aggregated(e, a, c) <=> Aggregated(d, a, c)
  /\ \A c \in Rows(d) : e.contact[c] \in Row
  /\ \A c \in Rows(d) \ S : e.contact[c] = d.contact[c]
  /\ \A c \in Rows(d) : /\ e.contact[c].collection = d.contact[c].collection
                        /\ e.contact[c].active = d.contact[c].active
                        /\ e.contact[c].deleted = d.contact[c].deleted
  /\ \A a \in S \ removed : e.contact[a].card = Regenerated(d, a, mask)
  /\ e.dated = StillDated(d, S, mask) /\ e.linked = d.linked

\* What RegenerateAggregates writes.
LEMMA CardsRewritten ==
  ASSUME NEW d, IsDatabase(d), NEW S, S \subseteq Aggregates(d), NEW removed, NEW mask,
         NEW e, e = Rewritten(d, S, removed, mask)
  PROVE  IsRewritten(d, S, removed, mask, e)
<1> DEFINE cards == RewrittenCards(d, S, removed, mask)
<1>1. /\ IsRecord(e)
      /\ e.contact = cards
      /\ e.last = d.last /\ e.aggregates = d.aggregates /\ e.isNot = d.isNot
      /\ e.linked = d.linked
      /\ e.dated = StillDated(d, S, mask)
  BY DEF IsRecord, IsDatabase, Rewritten
<1>2. \A c \in Rows(d) : d.contact[c] \in Row
  BY DEF IsDatabase
<1>3. \A a \in S : Regenerated(d, a, mask) \in CardType
  <2> SUFFICES ASSUME NEW a \in S, NEW x, x = Regenerated(d, a, mask), NEW A, A = ActiveConstituents(d, a)
               PROVE  x \in CardType
    OBVIOUS
  <2> QED BY RegeneratedInStep
<1>4. ASSUME NEW c \in S, c \in Rows(d), c \notin removed
      PROVE  /\ cards[c] \in Row /\ cards[c].card = Regenerated(d, c, mask)
             /\ cards[c].collection = d.contact[c].collection
             /\ cards[c].active = d.contact[c].active
             /\ cards[c].deleted = d.contact[c].deleted
  <2>1. cards[c] = [d.contact[c] EXCEPT !.card = Regenerated(d, c, mask)]
    BY <1>4 DEF RewrittenCards
  <2>2. d.contact[c] \in Row /\ Regenerated(d, c, mask) \in CardType
    BY <1>2, <1>3, <1>4
  <2> QED BY <2>1, <2>2 DEF Row
<1>5. ASSUME NEW c \in Rows(d), c \notin S \/ c \in removed PROVE cards[c] = d.contact[c]
  BY <1>5 DEF RewrittenCards
<1>6. DOMAIN cards = Rows(d) /\ cards = [c \in Rows(d) |-> cards[c]]
  BY DEF RewrittenCards
<1> HIDE DEF cards
<1>7. \A c \in Rows(d) : /\ e.contact[c] \in Row
                         /\ e.contact[c].collection = d.contact[c].collection
                         /\ e.contact[c].active = d.contact[c].active
                         /\ e.contact[c].deleted = d.contact[c].deleted
  BY <1>1, <1>2, <1>4, <1>5
<1>8. e.contact \in [Rows(d) -> Row]
  BY <1>1, <1>6, <1>7
<1>9. \A c \in Rows(d) : c \in Aggregates(d) => e.contact[c].active /\ ~e.contact[c].deleted
  BY <1>7 DEF IsDatabase
<1>10. e.dated \subseteq Rows(d)
  BY <1>1 DEF IsDatabase, StillDated
<1>11. /\ e.last = d.last /\ e.aggregates = d.aggregates /\ e.isNot = d.isNot /\ e.linked = d.linked
       /\ IsRecord(e)
       /\ \A c \in Rows(d) : /\ e.contact[c].collection = d.contact[c].collection
                             /\ c \in Aggregates(d) => e.contact[c].active /\ ~e.contact[c].deleted
  BY <1>1, <1>7, <1>9
<1>12. IsDatabase(e) /\ Rows(e) = Rows(d) /\ \A a, c : Aggregated(e, a, c) <=> Aggregated(d, a, c)
  BY <1>8, <1>10, <1>11, RowsRewritten
<1>13. S \subseteq Rows(d)
  BY Related
<1> QED BY <1>1, <1>4, <1>5, <1>7, <1>12, <1>13 DEF IsRewritten

IsRegenerated(d, S, removed, mask, e) ==
  /\ IsDatabase(e) /\ Rows(e) = Rows(d) \ removed /\ e.last = d.last
  /\ \A a, c : Aggregated(e, a, c) <=> Aggregated(d, a, c) /\ a \notin removed
  /\ \A c \in Rows(e) \ S : e.contact[c] = d.contact[c]
  /\ \A c \in Rows(e) : /\ e.contact[c].collection = d.contact[c].collection
                        /\ e.contact[c].active = d.contact[c].active
                        /\ e.contact[c].deleted = d.contact[c].deleted
  /\ \A a \in S \ removed : e.contact[a].card = Regenerated(d, a, mask)
  /\ e.dated = StillDated(d, S, mask) \ removed
  /\ e.linked = d.linked \ removed

\* What RegenerateAggregates does.
LEMMA RegenerateIs ==
  ASSUME NEW d, IsDatabase(d), NEW S, NEW mask, NEW e, e \in RegenerateAggregates(d, S, mask),
         NEW removed, removed = {a \in S : ActiveConstituents(d, a) = {}}
  PROVE  S \subseteq Aggregates(d) /\ IsRegenerated(d, S, removed, mask, e)
<1>1. S \subseteq Aggregates(d) /\ e = WithoutRows(Rewritten(d, S, removed, mask), removed)
  <2>1. RegenerateAggregates(d, S, mask) = 
          IF \A a \in S : IsAggregate(d, a) /\ Constituents(d, a) # {} THEN {WithoutRows(Rewritten(d, S, removed, mask), removed)} ELSE {}
    BY DEF RegenerateAggregates, Rewritten, RewrittenCards, StillDated, Rows
  <2>2. \A a \in S : IsAggregate(d, a) => a \in Aggregates(d)
    BY DEF IsAggregate, Aggregates
  <2> QED BY <2>1, <2>2
<1>2. PICK g : g = Rewritten(d, S, removed, mask)
  OBVIOUS
<1>3. IsRewritten(d, S, removed, mask, g)
  BY <1>1, <1>2, CardsRewritten
<1>4. e = WithoutRows(g, removed)
  BY <1>1, <1>2
<1>5. /\ IsDatabase(e)
      /\ e.last = g.last /\ Rows(e) = Rows(g) \ removed
      /\ \A c \in Rows(e) : e.contact[c] = g.contact[c]
      /\ \A a, c : Aggregated(e, a, c) <=> Aggregated(g, a, c) /\ a \notin removed /\ c \notin removed
      /\ e.dated = g.dated \ removed /\ e.linked = g.linked \ removed
  BY <1>3, <1>4, WithoutRowsIs DEF IsRewritten
<1>6. \A a, c : Aggregated(d, a, c) => c \notin removed
  BY <1>1, Related
<1>7. S \subseteq Rows(d)
  BY <1>1, Related
<1>8. \A a, c : Aggregated(e, a, c) <=> Aggregated(d, a, c) /\ a \notin removed
  BY <1>3, <1>5, <1>6 DEF IsRewritten
<1>9. /\ \A c \in Rows(e) \ S : e.contact[c] = d.contact[c]
      /\ \A c \in Rows(e) : /\ e.contact[c].collection = d.contact[c].collection
                            /\ e.contact[c].active = d.contact[c].active
                            /\ e.contact[c].deleted = d.contact[c].deleted
  BY <1>3, <1>5 DEF IsRewritten
<1>10. \A a \in S \ removed : e.contact[a].card = Regenerated(d, a, mask)
  BY <1>3, <1>5, <1>7 DEF IsRewritten
<1> QED BY <1>1, <1>3, <1>5, <1>8, <1>9, <1>10 DEF IsRewritten, IsRegenerated

(***************************************************************************)
(* Sound databases: but for the aggregates of X, and the contacts of Y.    *)
(***************************************************************************)
HaveAggregates(d, Y) ==
  \A c \in Rows(d) \ Y : Shown(d, c) /\ d.contact[c].collection \in Aggregable => \E a : Aggregated(d, a, c)

HaveOne(d) == \A c \in Rows(d) \ d.linked : \A a, b : Aggregated(d, a, c) /\ Aggregated(d, b, c) => a = b

Represents(d, a) == (\E c : Aggregated(d, a, c) /\ Shown(d, c)) /\ InStep(d, a, DetailTypes)

Sound(d, X, Y) ==
  /\ IsDatabase(d) /\ HaveAggregates(d, Y) /\ HaveOne(d)
  /\ \A a \in Aggregates(d) \ (d.dated \cup X) : Represents(d, a)

\* Rows do not come back, or change their collections.
Grows(d, e) ==
  /\ d.last <= e.last
  /\ \A c \in Rows(e) : c > d.last \/ (c \in Rows(d) /\ e.contact[c].collection = d.contact[c].collection)

\* What is shown was shown before, in the same aggregates.
Keeps(d, e) ==
  /\ Grows(d, e)
  /\ \A c \in Rows(d) : Shown(e, c) => Shown(d, c)
  /\ \A a, c : Aggregated(d, a, c) /\ Shown(e, c) => Aggregated(e, a, c)

\* What a step of the writer leaves.
Stays(d, e) == Grows(d, e) /\ \A a, c : Aggregated(d, a, c) /\ Shown(e, c) => Aggregated(e, a, c)

\* Steps of a transaction one after the other; a row that is left has been there throughout.
LEMMA GrowsIsTransitive ==
  ASSUME NEW d, NEW e, NEW f, IsDatabase(d), IsDatabase(e), IsDatabase(f), Grows(d, e), Grows(e, f)
  PROVE  Grows(d, f) /\ \A c \in Rows(f) : c \in Rows(d) => c \in Rows(e)
<1>1. /\ d.last \in Int /\ e.last \in Int /\ f.last \in Int
      /\ Rows(d) \subseteq 1..d.last /\ Rows(e) \subseteq 1..e.last /\ Rows(f) \subseteq 1..f.last
  BY DEF IsDatabase
<1>2. \A c \in Rows(f) : c \in Rows(d) => c \in Rows(e)
  BY <1>1 DEF Grows
<1>3. ASSUME NEW c \in Rows(f)
      PROVE  c > d.last \/ (c \in Rows(d) /\ f.contact[c].collection = d.contact[c].collection)
  <2>1. c > e.last \/ (c \in Rows(e) /\ f.contact[c].collection = e.contact[c].collection)
    BY DEF Grows
  <2>2. d.last <= e.last /\ c \in Int
    BY <1>1 DEF Grows
  <2>3. c \in Rows(e) => c > d.last \/ (c \in Rows(d) /\ e.contact[c].collection = d.contact[c].collection)
    BY DEF Grows
  <2> QED BY <1>1, <2>1, <2>2, <2>3
<1>4. d.last <= f.last
  BY <1>1 DEF Grows
<1> QED BY <1>2, <1>3, <1>4 DEF Grows

\* The same.
LEMMA KeepsIsTransitive ==
  ASSUME NEW d, NEW e, NEW f, IsDatabase(d), IsDatabase(e), IsDatabase(f), Keeps(d, e), Keeps(e, f)
  PROVE  Keeps(d, f)
<1>1. Grows(d, f) /\ \A c \in Rows(f) : c \in Rows(d) => c \in Rows(e)
  BY GrowsIsTransitive DEF Keeps
<1>2. \A c \in Rows(d) : Shown(f, c) => Shown(e, c) /\ Shown(d, c)
  BY <1>1 DEF Keeps, Shown
<1>3. \A a, c : Aggregated(d, a, c) => c \in Rows(d)
  BY Related
<1>4. \A a, c : Aggregated(d, a, c) /\ Shown(f, c) => Aggregated(f, a, c)
  BY <1>2, <1>3 DEF Keeps
<1> QED BY <1>1, <1>2, <1>4 DEF Keeps

\* After a step that brings contacts back.
LEMMA StaysAfter ==
  ASSUME NEW d, NEW e, NEW f, IsDatabase(d), IsDatabase(e), IsDatabase(f), Grows(d, e), Keeps(e, f),
         \A a, c : Aggregated(d, a, c) => Aggregated(e, a, c)
  PROVE  Stays(d, f)
<1>1. Grows(d, f)
  BY GrowsIsTransitive DEF Keeps
<1> QED BY <1>1 DEF Stays, Keeps

\* A transaction that does nothing.
LEMMA KeepsItself ==
  ASSUME NEW d, IsDatabase(d)
  PROVE  Keeps(d, d)
BY DEF Keeps, Grows, IsDatabase

\* An aggregate whose constituents stay the same.
LEMMA RepresentsStill ==
  ASSUME NEW d, NEW e, IsDatabase(d), IsDatabase(e), NEW a, Represents(d, a),
         e.contact[a].card = d.contact[a].card,
         \A c : Aggregated(e, a, c) /\ Shown(e, c) <=> Aggregated(d, a, c) /\ Shown(d, c),
         \A c : Aggregated(d, a, c) /\ Shown(d, c) => e.contact[c].card = d.contact[c].card
  PROVE  Represents(e, a)
<1>1. ActiveConstituents(e, a) = ActiveConstituents(d, a)
  <2>1. \A c : c \in ActiveConstituents(e, a) <=> Aggregated(e, a, c) /\ Shown(e, c)
    BY Related
  <2>2. \A c : c \in ActiveConstituents(d, a) <=> Aggregated(d, a, c) /\ Shown(d, c)
    BY Related
  <2> QED BY <2>1, <2>2
<1>2. \A c \in ActiveConstituents(d, a) : e.contact[c].card = d.contact[c].card
  BY Related
<1>3. InStep(e, a, DetailTypes)
  BY <1>1, <1>2, SameStep DEF Represents
<1> QED BY <1>3 DEF Represents

-----------------------------------------------------------------------------
(***************************************************************************)
(* Aggregates regenerated.                                                 *)
(***************************************************************************)
\* Regenerating takes no contact from an aggregate.
LEMMA RegeneratedKeeps ==
  ASSUME NEW d, IsDatabase(d), NEW S, NEW mask, NEW e, e \in RegenerateAggregates(d, S, mask)
  PROVE  /\ IsDatabase(e) /\ Keeps(d, e)
         /\ \A a, c : Aggregated(e, a, c) => Aggregated(d, a, c)
         /\ \A a, c : Aggregated(d, a, c) /\ a \in Rows(e) => Aggregated(e, a, c)
<1> PICK removed : removed = {a \in S : ActiveConstituents(d, a) = {}}
  OBVIOUS
<1>1. IsRegenerated(d, S, removed, mask, e) /\ S \subseteq Aggregates(d)
  BY RegenerateIs
<1>2. Grows(d, e)
  BY <1>1 DEF IsRegenerated, Grows, IsDatabase
<1>3. \A c : Shown(e, c) => Shown(d, c)
  BY <1>1 DEF IsRegenerated, Shown
<1>4. ASSUME NEW a, NEW c, Aggregated(d, a, c), Shown(e, c) PROVE Aggregated(e, a, c)
  <2>1. c \in ActiveConstituents(d, a)
    BY <1>3, <1>4, Related
  <2>2. a \notin removed
    BY <2>1
  <2> QED BY <1>1, <1>4, <2>2 DEF IsRegenerated
<1> QED BY <1>1, <1>2, <1>3, <1>4 DEF IsRegenerated, Keeps

\* Regenerating makes sound the aggregates that were not, if all types are regenerated,
\* or those in the mask were all that was out of step.
LEMMA RegeneratedSound ==
  ASSUME NEW d, NEW X, NEW Y, Sound(d, X, Y), NEW S, NEW mask, NEW e, e \in RegenerateAggregates(d, S, mask)
  PROVE  /\ Sound(e, X \cup S, Y)
         /\ /\ X \cap Aggregates(d) \subseteq S
            /\ mask = DetailTypes \/ \A a \in S \ d.dated : InStep(d, a, DetailTypes \ mask)
            => Sound(e, {}, Y)
<1>0. IsDatabase(d)
  BY DEF Sound
<1> PICK removed : removed = {a \in S : ActiveConstituents(d, a) = {}}
  OBVIOUS
<1>1. IsRegenerated(d, S, removed, mask, e) /\ S \subseteq Aggregates(d)
  BY <1>0, RegenerateIs
<1>2. IsDatabase(e) /\ Keeps(d, e) /\ \A a, c : Aggregated(e, a, c) => Aggregated(d, a, c)
  BY <1>0, RegeneratedKeeps
<1>3. HaveAggregates(e, Y)
  <2> SUFFICES ASSUME NEW c \in Rows(e) \ Y, Shown(e, c), e.contact[c].collection \in Aggregable
               PROVE  \E a : Aggregated(e, a, c)
    BY DEF HaveAggregates
  <2>1. c \in Rows(d) \ Y /\ d.contact[c].collection \in Aggregable
    BY <1>1 DEF IsRegenerated
  <2>2. Shown(d, c)
    BY <1>2, <2>1 DEF Keeps
  <2>3. PICK a : Aggregated(d, a, c)
    BY <2>1, <2>2 DEF Sound, HaveAggregates
  <2> QED BY <1>2, <2>3 DEF Keeps
<1>4. HaveOne(e)
  <2>1. \A c \in Rows(e) \ e.linked : c \in Rows(d) \ d.linked
    BY <1>1 DEF IsRegenerated
  <2> QED BY <1>2, <2>1 DEF HaveOne, Sound
<1>5. \A a \in Aggregates(e) : a \in Aggregates(d) /\ a \in Rows(e) /\ a \notin removed
  BY <1>0, <1>1, <1>2, Related DEF IsRegenerated
<1>6. ASSUME NEW a \in Rows(e)
      PROVE  \A c : Aggregated(e, a, c) /\ Shown(e, c) <=> Aggregated(d, a, c) /\ Shown(d, c)
  <2>1. \A c : Aggregated(d, a, c) => c \notin Aggregates(d) /\ c \in Rows(d)
    BY <1>0, Related
  <2>2. a \notin removed
    BY <1>1 DEF IsRegenerated
  <2>3. \A c : Aggregated(d, a, c) => c \in Rows(e)
    BY <1>1, <2>1 DEF IsRegenerated
  <2> QED BY <1>1, <2>2, <2>3 DEF IsRegenerated, Shown
<1>7. \A a, c : Aggregated(d, a, c) => (c \in Rows(e) /\ e.contact[c] = d.contact[c]) 
  <2>1. \A a, c : Aggregated(d, a, c) => c \in Rows(d) /\ c \notin S
    BY <1>0, <1>1, Related
  <2>2. removed \subseteq S
    OBVIOUS
  <2> QED BY <1>1, <2>1, <2>2 DEF IsRegenerated
<1>8. ASSUME NEW a \in Aggregates(e), a \notin S, a \notin e.dated \cup X PROVE Represents(e, a)
  <2>1. a \in Aggregates(d) \ (d.dated \cup X)
    BY <1>1, <1>5, <1>8 DEF IsRegenerated, StillDated
  <2>2. Represents(d, a)
    BY <2>1 DEF Sound
  <2>3. e.contact[a].card = d.contact[a].card
    BY <1>1, <1>5, <1>8 DEF IsRegenerated
  <2> QED BY <1>0, <1>2, <1>5, <1>6, <1>7, <2>2, <2>3, RepresentsStill
<1>9. ASSUME NEW a \in Aggregates(e), a \in S,
             mask = DetailTypes \/ InStep(d, a, DetailTypes \ mask)
      PROVE  Represents(e, a)
  <2>1. a \in Aggregates(d) /\ a \in Rows(e) /\ a \notin removed
    BY <1>5
  <2> PICK A : A = ActiveConstituents(d, a)
    OBVIOUS
  <2> PICK x : x = Regenerated(d, a, mask)
    OBVIOUS
  <2>2. /\ CardInStep(x, d, A, mask)
        /\ CardInStep(d.contact[a].card, d, A, DetailTypes \ mask) => CardInStep(x, d, A, DetailTypes)
    BY <1>0, <2>1, RegeneratedInStep
  <2>3. CardInStep(x, d, A, DetailTypes)
    <3>1. CASE mask = DetailTypes
      BY <2>2, <3>1
    <3>2. CASE InStep(d, a, DetailTypes \ mask)
      BY <2>2, <3>2 DEF InStep
    <3> QED BY <1>9, <3>1, <3>2
  <2>4. e.contact[a].card = x
    BY <1>1, <1>9, <2>1 DEF IsRegenerated
  <2>5. A = ActiveConstituents(e, a)
    <3>1. \A c : c \in ActiveConstituents(e, a) <=> Aggregated(e, a, c) /\ Shown(e, c)
      BY <1>2, Related
    <3>2. \A c : c \in A <=> Aggregated(d, a, c) /\ Shown(d, c)
      BY <1>0, Related
    <3> QED BY <1>6, <2>1, <3>1, <3>2
  <2>6. \A c \in A : e.contact[c].card = d.contact[c].card
    BY <1>0, <1>7, Related
  <2>7. CardInStep(x, e, A, DetailTypes)
    <3>1. /\ FirstsOf(e, A) = FirstsOf(d, A) /\ LastsOf(e, A) = LastsOf(d, A)
          /\ GendersOf(e, A) = GendersOf(d, A)
          /\ NicksOf(e, A) = NicksOf(d, A) /\ ValuesOf(e, A) = ValuesOf(d, A)
      BY <2>6, SameCards
    <3> QED BY <2>3, <3>1 DEF CardInStep
  <2>8. A # {}
    BY <1>9, <2>1
  <2>9. \E c : Aggregated(e, a, c) /\ Shown(e, c)
    BY <1>2, <2>5, <2>8, Related
  <2> QED BY <2>4, <2>5, <2>7, <2>9 DEF Represents, InStep
<1>10. Sound(e, X \cup S, Y)
  BY <1>2, <1>3, <1>4, <1>8 DEF Sound
<1>11. ASSUME X \cap Aggregates(d) \subseteq S,
              mask = DetailTypes \/ \A a \in S \ d.dated : InStep(d, a, DetailTypes \ mask)
       PROVE  Sound(e, {}, Y)
  <2>1. ASSUME NEW a \in Aggregates(e) \ (e.dated \cup {}) PROVE Represents(e, a)
    <3>1. CASE a \in S
      <4>1. mask # DetailTypes => a \notin d.dated
        BY <1>1, <1>5, <2>1 DEF IsRegenerated, StillDated
      <4> QED BY <1>9, <1>11, <3>1, <4>1
    <3>2. CASE a \notin S
      BY <1>5, <1>8, <1>11, <3>2
    <3> QED BY <3>1, <3>2
  <2> QED BY <1>2, <1>3, <1>4, <2>1 DEF Sound
<1> QED BY <1>10, <1>11

(***************************************************************************)
(* Rows removed.                                                           *)
(***************************************************************************)
\* Rows may go of which no aggregate shows any, or that show nothing.
LEMMA RowsRemoved ==
  ASSUME NEW d, NEW X, NEW Y, Sound(d, X, Y), NEW S,
         \A a, c : a \in S \/ c \in S => ~(Aggregated(d, a, c) /\ Shown(d, c)),
         NEW e, WithoutRows(d, S) = e
  PROVE  Sound(e, X, Y) /\ Keeps(d, e) /\ \A a, c : Aggregated(e, a, c) => Aggregated(d, a, c)
<1>0. IsDatabase(d)
  BY DEF Sound
<1>1. /\ IsDatabase(e)
      /\ e.last = d.last /\ Rows(e) = Rows(d) \ S
      /\ \A c \in Rows(e) : e.contact[c] = d.contact[c]
      /\ \A a, c : Aggregated(e, a, c) <=> Aggregated(d, a, c) /\ a \notin S /\ c \notin S
      /\ e.dated = d.dated \ S /\ e.linked = d.linked \ S
  BY <1>0, WithoutRowsIs
<1>2. Grows(d, e)
  BY <1>1 DEF Grows, IsDatabase
<1>3. \A c : Shown(e, c) => Shown(d, c)
  BY <1>1 DEF Shown
<1>4. \A a, c : Aggregated(d, a, c) /\ Shown(d, c) => Aggregated(e, a, c) /\ Shown(e, c) /\ e.contact[c] = d.contact[c]
  <2> SUFFICES ASSUME NEW a, NEW c, Aggregated(d, a, c), Shown(d, c)
               PROVE  Aggregated(e, a, c) /\ Shown(e, c) /\ e.contact[c] = d.contact[c]
    OBVIOUS
  <2>1. a \notin S /\ c \notin S /\ c \in Rows(d)
    BY <1>0, Related
  <2> QED BY <1>1, <2>1 DEF Shown
<1>5. Keeps(d, e)
  BY <1>2, <1>3, <1>4 DEF Keeps
<1>6. HaveAggregates(e, Y)
  <2> SUFFICES ASSUME NEW c \in Rows(e) \ Y, Shown(e, c), e.contact[c].collection \in Aggregable
               PROVE  \E a : Aggregated(e, a, c)
    BY DEF HaveAggregates
  <2>1. c \in Rows(d) \ Y /\ d.contact[c].collection \in Aggregable /\ Shown(d, c)
    BY <1>1, <1>3
  <2>2. PICK a : Aggregated(d, a, c)
    BY <2>1 DEF Sound, HaveAggregates
  <2> QED BY <1>4, <2>1, <2>2
<1>7. HaveOne(e)
  <2>1. \A c \in Rows(e) \ e.linked : c \in Rows(d) \ d.linked
    BY <1>1
  <2> QED BY <1>1, <2>1 DEF HaveOne, Sound
<1>8. ASSUME NEW a \in Aggregates(e) \ (e.dated \cup X) PROVE Represents(e, a)
  <2>1. a \in Rows(e) /\ e.contact[a] = d.contact[a] /\ a \in Rows(d) /\ a \notin S
    BY <1>1, Related
  <2>2. a \in Aggregates(d) \ (d.dated \cup X)
    BY <1>0, <1>1, <2>1, Related
  <2>3. Represents(d, a)
    BY <2>2 DEF Sound
  <2>4. \A c : Aggregated(e, a, c) /\ Shown(e, c) <=> Aggregated(d, a, c) /\ Shown(d, c)
    BY <1>1, <1>3, <1>4
  <2>5. \A c : Aggregated(d, a, c) /\ Shown(d, c) => e.contact[c].card = d.contact[c].card
    BY <1>4
  <2> QED BY <1>0, <1>1, <2>1, <2>3, <2>4, <2>5, RepresentsStill
<1> QED BY <1>1, <1>5, <1>6, <1>7, <1>8 DEF Sound

\* An aggregate without constituents may go.
LEMMA ChildlessRemoved ==
  ASSUME NEW d, NEW X, NEW Y, Sound(d, X, Y), NEW e, e = RemoveChildlessAggregates(d)
  PROVE  /\ Sound(e, X, Y) /\ Keeps(d, e)
         /\ \A a, c : Aggregated(e, a, c) => Aggregated(d, a, c)
         /\ \A a \in Aggregates(e) : a \in Aggregates(d) \ Childless(d)
<1> PICK S : S = Childless(d)
  OBVIOUS
<1>0. IsDatabase(d)
  BY DEF Sound
<1>1. e = WithoutRows(d, S)
  BY DEF RemoveChildlessAggregates
<1>2. ASSUME NEW a, NEW c, a \in S \/ c \in S, Aggregated(d, a, c), Shown(d, c) PROVE FALSE
  <2>1. c \notin S
    BY <1>0, <1>2, Related DEF Childless
  <2>2. c \in Constituents(d, a)
    BY <1>0, <1>2, Related DEF Shown
  <2> QED BY <1>2, <2>1, <2>2 DEF Childless
<1>3. Sound(e, X, Y) /\ Keeps(d, e) /\ \A a, c : Aggregated(e, a, c) => Aggregated(d, a, c)
  BY <1>1, <1>2, RowsRemoved
<1>4. \A a \in Aggregates(e) : a \in Aggregates(d) \ S
  <2>1. IsDatabase(e) /\ Rows(e) = Rows(d) \ S /\ \A c \in Rows(e) : e.contact[c] = d.contact[c]
    BY <1>0, <1>1, WithoutRowsIs
  <2>2. \A a : a \in Aggregates(e) <=> a \in Rows(e) /\ e.contact[a].collection = "aggregate"
    BY <2>1, Related
  <2>3. \A a : a \in Aggregates(d) <=> a \in Rows(d) /\ d.contact[a].collection = "aggregate"
    BY <1>0, Related
  <2> QED BY <2>1, <2>2, <2>3
<1> QED BY <1>3, <1>4

-----------------------------------------------------------------------------
(***************************************************************************)
(* Rows and relationships added.                                           *)
(***************************************************************************)
\* What a database is with a row more.
LEMMA WithRowIs ==
  ASSUME NEW d, IsDatabase(d), d.last < MaxContact,
         NEW row \in Row, row.collection = "aggregate" => row.active /\ ~row.deleted,
         NEW n, n = d.last + 1, NEW e, e = WithRow(d, row)
  PROVE  /\ IsDatabase(e) /\ e.last = n /\ n \notin Rows(d) /\ Rows(e) = Rows(d) \cup {n}
         /\ e.contact[n] = row /\ \A c \in Rows(d) : e.contact[c] = d.contact[c]
         /\ \A a, c : Aggregated(e, a, c) <=> Aggregated(d, a, c)
         /\ e.dated = d.dated /\ e.linked = d.linked
<1>1. /\ IsRecord(e) /\ e.last = n
      /\ e.contact = [i \in Rows(d) \cup {n} |-> IF i = n THEN row ELSE d.contact[i]]
      /\ e.aggregates = d.aggregates /\ e.isNot = d.isNot /\ e.dated = d.dated /\ e.linked = d.linked
  BY DEF WithRow, IsRecord, IsDatabase, Rows
<1>2. n \in 1..MaxContact /\ n \notin Rows(d) /\ Rows(d) \subseteq 1..n
  <2>1. d.last \in 0..MaxContact /\ Rows(d) \subseteq 1..d.last
    BY DEF IsDatabase
  <2> QED BY <2>1, AggregationAssumption
<1>3. Rows(e) = Rows(d) \cup {n}
  BY <1>1 DEF Rows
<1>4. e.contact[n] = row /\ \A c \in Rows(d) : e.contact[c] = d.contact[c]
  BY <1>1, <1>2
<1>5. e.contact \in [Rows(d) \cup {n} -> Row]
  <2>1. \A i \in Rows(d) : d.contact[i] \in Row
    BY DEF IsDatabase
  <2> QED BY <1>1, <2>1
<1>6. \A a, c : Aggregated(e, a, c) <=> Aggregated(d, a, c)
  BY <1>1 DEF Aggregated
<1>7. \A a \in Rows(d) \cup {n} : e.contact[a].collection = "aggregate" => e.contact[a].active /\ ~e.contact[a].deleted
  <2>1. \A a \in Rows(d) : d.contact[a].collection = "aggregate" => d.contact[a].active /\ ~d.contact[a].deleted
    BY Related DEF IsDatabase
  <2> QED BY <1>4, <2>1
<1>8. \A a, c : Aggregated(e, a, c) =>
         e.contact[a].collection = "aggregate" /\ e.contact[c].collection \in Aggregable
  <2>1. \A a, c : Aggregated(d, a, c) =>
           /\ a \in Rows(d) /\ c \in Rows(d)
           /\ d.contact[a].collection = "aggregate" /\ d.contact[c].collection \in Aggregable
    BY Related DEF IsDatabase
  <2> QED BY <1>4, <1>6, <2>1
<1>9. /\ e.aggregates \subseteq (Rows(d) \cup {n}) \X (Rows(d) \cup {n})
      /\ e.isNot \subseteq (Rows(d) \cup {n}) \X (Rows(d) \cup {n})
      /\ e.dated \subseteq Rows(d) \cup {n} /\ e.linked \subseteq Rows(d) \cup {n}
  BY <1>1 DEF IsDatabase
<1>10. n \in 0..MaxContact /\ Rows(d) \cup {n} \subseteq 1..n
  BY <1>2
<1>11. IsDatabase(e)
  BY <1>1, <1>3, <1>5, <1>7, <1>8, <1>9, <1>10, KnownByFields
<1> QED BY <1>1, <1>2, <1>3, <1>4, <1>6, <1>11

\* What a database is with a constituent more.
LEMMA AggregatedByIs ==
  ASSUME NEW d, IsDatabase(d), NEW a \in Aggregates(d),
         NEW c \in Rows(d), d.contact[c].collection \in Aggregable,
         NEW e, e = AggregatedBy(d, a, c)
  PROVE  /\ IsDatabase(e) /\ e.last = d.last /\ Rows(e) = Rows(d) /\ e.contact = d.contact
         /\ \A b, i : Aggregated(e, b, i) <=> Aggregated(d, b, i) \/ (b = a /\ i = c)
         /\ e.dated = d.dated /\ e.linked = d.linked
<1>1. /\ IsRecord(e) /\ e.last = d.last /\ e.contact = d.contact
      /\ e.aggregates = d.aggregates \cup {<<a, c>>}
      /\ e.isNot = d.isNot /\ e.dated = d.dated /\ e.linked = d.linked
  BY DEF AggregatedBy, IsRecord, IsDatabase
<1>2. Rows(e) = Rows(d) /\ a \in Rows(d) /\ d.contact[a].collection = "aggregate"
  BY <1>1, Related DEF Rows
<1>3. \A b, i : Aggregated(e, b, i) <=> Aggregated(d, b, i) \/ (b = a /\ i = c)
  BY <1>1 DEF Aggregated
<1>4. e.aggregates \subseteq Rows(d) \X Rows(d)
  BY <1>1, <1>2 DEF IsDatabase
<1>5. \A b, i : Aggregated(e, b, i) =>
         e.contact[b].collection = "aggregate" /\ e.contact[i].collection \in Aggregable
  <2>1. \A b, i : Aggregated(d, b, i) =>
           d.contact[b].collection = "aggregate" /\ d.contact[i].collection \in Aggregable
    BY Related DEF IsDatabase
  <2> QED BY <1>1, <1>2, <1>3, <2>1
<1>6. \A b \in Rows(d) : e.contact[b].collection = "aggregate" => e.contact[b].active /\ ~e.contact[b].deleted
  BY <1>1, Related DEF IsDatabase
<1>7. /\ d.last \in 0..MaxContact /\ Rows(d) \subseteq 1..d.last /\ d.linked \subseteq Rows(d)
      /\ d.isNot \subseteq Rows(d) \X Rows(d) /\ d.dated \subseteq Rows(d) /\ d.contact \in [Rows(d) -> Row]
  BY DEF IsDatabase
<1>8. IsDatabase(e)
  BY <1>1, <1>2, <1>4, <1>5, <1>6, <1>7, KnownByFields
<1> QED BY <1>1, <1>2, <1>3, <1>8

(***************************************************************************)
(* Rows rewritten.                                                         *)
(***************************************************************************)
WithContact(d, c, row) == [d EXCEPT !.contact[c] = row]

IsWritten(d, c, row, e) ==
  /\ IsDatabase(e) /\ e.last = d.last /\ Rows(e) = Rows(d)
  /\ e.contact[c] = row /\ \A i \in Rows(d) \ {c} : e.contact[i] = d.contact[i]
  /\ \A a, i : Aggregated(e, a, i) <=> Aggregated(d, a, i)
  /\ e.dated = d.dated /\ e.linked = d.linked

\* What a database is with a row rewritten.
LEMMA WithContactIs ==
  ASSUME NEW d, IsDatabase(d), NEW c \in Rows(d), NEW row \in Row,
         row.collection = d.contact[c].collection, c \in Aggregates(d) => row.active /\ ~row.deleted,
         NEW e, e = WithContact(d, c, row)
  PROVE  IsWritten(d, c, row, e)
<1>1. /\ IsRecord(e) /\ e.last = d.last /\ e.aggregates = d.aggregates
      /\ e.contact = [d.contact EXCEPT ![c] = row]
      /\ e.isNot = d.isNot /\ e.dated = d.dated /\ e.linked = d.linked
  BY DEF WithContact, IsRecord, IsDatabase
<1>2. d.contact \in [Rows(d) -> Row] /\ d.dated \subseteq Rows(d)
  BY DEF IsDatabase
<1>3. /\ e.contact \in [Rows(d) -> Row] /\ e.contact[c] = row
      /\ \A i \in Rows(d) \ {c} : e.contact[i] = d.contact[i]
  BY <1>1, <1>2
<1>4. \A i \in Rows(d) : /\ e.contact[i].collection = d.contact[i].collection
                         /\ i \in Aggregates(d) => e.contact[i].active /\ ~e.contact[i].deleted
  BY <1>3 DEF IsDatabase
<1>5. IsDatabase(e) /\ Rows(e) = Rows(d) /\ \A a, i : Aggregated(e, a, i) <=> Aggregated(d, a, i)
  BY <1>1, <1>2, <1>3, <1>4, RowsRewritten
<1> QED BY <1>1, <1>3, <1>5 DEF IsWritten

\* What is sound but for fewer.
LEMMA SoundBut ==
  ASSUME NEW d, NEW X, NEW Y, Sound(d, X, Y), NEW V, NEW W,
         \A a \in X \cap Aggregates(d) : a \in V \/ a \in d.dated \/ Represents(d, a),
         \A c \in Y \cap Rows(d) : \/ c \in W \/ ~Shown(d, c) \/ d.contact[c].collection \notin Aggregable
                                   \/ \E a : Aggregated(d, a, c)
  PROVE  Sound(d, V, W)
<1>1. HaveAggregates(d, W)
  BY DEF Sound, HaveAggregates
<1>2. ASSUME NEW a \in Aggregates(d) \ (d.dated \cup V) PROVE Represents(d, a)
  BY <1>2 DEF Sound
<1> QED BY <1>1, <1>2 DEF Sound

\* The rows of S change; aggregates of Z, or that are dated then, are those it may matter to.
ChangesOnly(d, e, S, Z) ==
  /\ IsDatabase(e) /\ Rows(e) = Rows(d) /\ e.last = d.last /\ e.linked = d.linked
  /\ \A a, c : Aggregated(e, a, c) <=> Aggregated(d, a, c)
  /\ \A c \in Rows(d) : e.contact[c].collection = d.contact[c].collection
  /\ \A c \in Rows(d) \ S : e.contact[c] = d.contact[c]
  /\ \A a \in Aggregates(d) : a \in d.dated => a \in e.dated \/ a \in Z
  /\ \A c \in S : c \in Aggregates(d) => c \in Z
  /\ \A a, c : Aggregated(d, a, c) /\ c \in S => a \in Z \/ a \in e.dated

\* Changes of some contacts leave the aggregates sound that have none of them.
LEMMA RowsChanged ==
  ASSUME NEW d, NEW X, NEW Y, Sound(d, X, Y), NEW S, NEW Z, NEW e, ChangesOnly(d, e, S, Z)
  PROVE  Sound(e, X \cup Z, Y \cup S) /\ Grows(d, e)
<1>0. IsDatabase(d)
  BY DEF Sound
<1>1. Grows(d, e)
  BY <1>0 DEF ChangesOnly, Grows, IsDatabase
<1>2. HaveAggregates(e, Y \cup S)
  BY DEF ChangesOnly, Sound, HaveAggregates, Shown
<1>3. HaveOne(e)
  BY DEF ChangesOnly, Sound, HaveOne
<1>4. ASSUME NEW a \in Aggregates(e) \ (e.dated \cup (X \cup Z)) PROVE Represents(e, a)
  <2>1. a \in Aggregates(d) /\ a \in Rows(d)
    BY <1>0, Related DEF ChangesOnly
  <2>2. a \notin d.dated /\ a \notin X /\ a \notin S
    BY <2>1 DEF ChangesOnly
  <2>3. Represents(d, a)
    BY <2>1, <2>2 DEF Sound
  <2>4. \A c : Aggregated(d, a, c) => c \in Rows(d) \ S
    BY <1>0, Related DEF ChangesOnly
  <2>5. \A c : Aggregated(e, a, c) /\ Shown(e, c) <=> Aggregated(d, a, c) /\ Shown(d, c)
    BY <2>4 DEF ChangesOnly, Shown
  <2>6. \A c : Aggregated(d, a, c) /\ Shown(d, c) => e.contact[c].card = d.contact[c].card
    BY <2>4 DEF ChangesOnly
  <2>7. e.contact[a].card = d.contact[a].card
    BY <2>1, <2>2 DEF ChangesOnly
  <2> QED BY <1>0, <2>3, <2>5, <2>6, <2>7, RepresentsStill DEF ChangesOnly
<1> QED BY <1>1, <1>2, <1>3, <1>4 DEF ChangesOnly, Sound

-----------------------------------------------------------------------------
(***************************************************************************)
(* A contact given an aggregate.                                           *)
(***************************************************************************)
\* A contact given an aggregate: that may be out of step, and the contact has one.
LEMMA OneAggregated ==
  ASSUME NEW d, NEW X, NEW Y, Sound(d, X, Y), NEW a \in Aggregates(d),
         NEW c \in Rows(d), d.contact[c].collection \in Aggregable,
         c \in d.linked \/ \A b : ~Aggregated(d, b, c),
         NEW e, e = AggregatedBy(d, a, c)
  PROVE  Sound(e, X \cup {a}, Y \ {c}) /\ Keeps(d, e)
<1>0. IsDatabase(d)
  BY DEF Sound
<1>1. /\ IsDatabase(e) /\ e.last = d.last /\ Rows(e) = Rows(d) /\ e.contact = d.contact
      /\ \A b, i : Aggregated(e, b, i) <=> Aggregated(d, b, i) \/ (b = a /\ i = c)
      /\ e.dated = d.dated /\ e.linked = d.linked
  BY <1>0, AggregatedByIs
<1>2. Keeps(d, e)
  BY <1>0, <1>1 DEF Keeps, Grows, IsDatabase, Shown
<1>3. HaveAggregates(e, Y \ {c})
  BY <1>1 DEF Sound, HaveAggregates, Shown
<1>4. HaveOne(e)
  BY <1>1 DEF Sound, HaveOne
<1>5. ASSUME NEW b \in Aggregates(e) \ (e.dated \cup (X \cup {a})) PROVE Represents(e, b)
  <2>1. b \in Aggregates(d) /\ b # a
    BY <1>0, <1>1, Related
  <2>2. Represents(d, b)
    BY <1>1, <2>1 DEF Sound
  <2>3. \A i : Aggregated(e, b, i) /\ Shown(e, i) <=> Aggregated(d, b, i) /\ Shown(d, i)
    BY <1>1, <2>1 DEF Shown
  <2> QED BY <1>0, <1>1, <2>2, <2>3, RepresentsStill
<1> QED BY <1>1, <1>2, <1>3, <1>4, <1>5 DEF Sound

\* An aggregate that one more contact is promoted to.
LEMMA OneOfMore ==
  ASSUME NEW x, NEW parts, OneOf(x, parts), NEW y, NEW type, NEW mask, type \in mask
  PROVE  OneOf(Composed(x, y, type, mask), parts \cup {y})
BY DEF OneOf, Composed

\* What is promoted to an aggregate in step is in it, and nothing else has come.
LEMMA PromotedInStep ==
  ASSUME NEW d, NEW A, NEW c, NEW new \in CardType, d.contact[c].card = new,
         NEW old \in CardType, CardInStep(old, d, A, DetailTypes),
         NEW x, PromoteDetailsToAggregate(new, old, DetailTypes) = x
  PROVE  CardInStep(x, d, A \cup {c}, DetailTypes)
<1> PICK B : B = A \cup {c}
  OBVIOUS
<1>1. FirstsOf(d, B) = FirstsOf(d, A) \cup {new.first}
  BY DEF FirstsOf
<1>2. LastsOf(d, B) = LastsOf(d, A) \cup {new.last}
  BY DEF LastsOf
<1>3. GendersOf(d, B) = GendersOf(d, A) \cup {new.gender}
  BY DEF GendersOf
<1>4. NicksOf(d, B) = NicksOf(d, A) \cup new.nicks
  BY DEF NicksOf
<1>5. ValuesOf(d, B) = ValuesOf(d, A) \cup new.values
  BY DEF ValuesOf
<1>6. /\ x.nicks = Joined(old.nicks, new.nicks, "nickname", DetailTypes)
      /\ x.values = Joined(old.values, new.values, "value", DetailTypes)
      /\ x.first = Composed(old.first, new.first, "name", DetailTypes)
      /\ x.last = Composed(old.last, new.last, "name", DetailTypes)
      /\ x.gender = Composed(old.gender, new.gender, "gender", DetailTypes)
  BY OnePromoted
<1>7. /\ "name" \in DetailTypes /\ "gender" \in DetailTypes
      /\ "nickname" \in DetailTypes /\ "value" \in DetailTypes
  BY DEF DetailTypes
<1>8. /\ OneOf(old.first, FirstsOf(d, A)) /\ OneOf(old.last, LastsOf(d, A)) /\ OneOf(old.gender, GendersOf(d, A))
      /\ old.nicks = NicksOf(d, A) /\ old.values = ValuesOf(d, A)
  BY <1>7 DEF CardInStep
<1>9. OneOf(x.first, FirstsOf(d, B))
  <2>1. OneOf(Composed(old.first, new.first, "name", DetailTypes), FirstsOf(d, A) \cup {new.first})
    BY <1>7, <1>8, OneOfMore
  <2> QED BY <1>1, <1>6, <2>1
<1>10. OneOf(x.last, LastsOf(d, B))
  <2>1. OneOf(Composed(old.last, new.last, "name", DetailTypes), LastsOf(d, A) \cup {new.last})
    BY <1>7, <1>8, OneOfMore
  <2> QED BY <1>2, <1>6, <2>1
<1>11. OneOf(x.gender, GendersOf(d, B))
  <2>1. OneOf(Composed(old.gender, new.gender, "gender", DetailTypes), GendersOf(d, A) \cup {new.gender})
    BY <1>7, <1>8, OneOfMore
  <2> QED BY <1>3, <1>6, <2>1
<1>12. x.nicks = NicksOf(d, B) /\ x.values = ValuesOf(d, B)
  BY <1>4, <1>5, <1>6, <1>7, <1>8 DEF Joined
<1>13. CardInStep(x, d, B, DetailTypes)
  BY <1>9, <1>10, <1>11, <1>12 DEF CardInStep
<1> QED BY <1>13

\* An aggregate that has got a constituent more, and its details.
LEMMA RepresentsMore ==
  ASSUME NEW d, NEW e, IsDatabase(d), IsDatabase(e), NEW a, NEW A, NEW c, NEW new \in CardType,
         \A i : Aggregated(e, a, i) /\ Shown(e, i) <=> i \in A \cup {c},
         \A i \in A \cup {c} : e.contact[i].card = d.contact[i].card,
         d.contact[c].card = new,
         NEW old \in CardType, CardInStep(old, d, A, DetailTypes),
         PromoteDetailsToAggregate(new, old, DetailTypes) = e.contact[a].card
  PROVE  Represents(e, a)
<1> PICK B : B = A \cup {c}
  OBVIOUS
<1>1. B = ActiveConstituents(e, a)
  BY Related
<1>2. CardInStep(e.contact[a].card, d, B, DetailTypes)
  BY PromotedInStep
<1>3. /\ FirstsOf(e, B) = FirstsOf(d, B) /\ LastsOf(e, B) = LastsOf(d, B)
      /\ GendersOf(e, B) = GendersOf(d, B)
      /\ NicksOf(e, B) = NicksOf(d, B) /\ ValuesOf(e, B) = ValuesOf(d, B)
  BY SameCards
<1>4. CardInStep(e.contact[a].card, e, B, DetailTypes)
  BY <1>2, <1>3 DEF CardInStep
<1> QED BY <1>1, <1>4 DEF Represents, InStep

SoundAndMore(d, X, Y, row, e) ==
  /\ row.collection = "aggregate" => Sound(e, X \cup {e.last}, Y)
  /\ row.collection # "aggregate" => Sound(e, X, Y \cup {e.last})
  /\ Keeps(d, e)
  /\ e.contact[e.last] = row /\ e.last \in Rows(e) /\ \A a : ~Aggregated(e, a, e.last)

\* A new row is a contact without an aggregate, or an aggregate without contacts.
LEMMA RowAdded ==
  ASSUME NEW d, NEW X, NEW Y, Sound(d, X, Y), d.last < MaxContact,
         NEW row \in Row, row.collection = "aggregate" => row.active /\ ~row.deleted,
         NEW e, e = WithRow(d, row)
  PROVE  SoundAndMore(d, X, Y, row, e)
<1> PICK n : n = d.last + 1
  OBVIOUS
<1>0. IsDatabase(d)
  BY DEF Sound
<1>1. /\ IsDatabase(e) /\ e.last = n /\ n \notin Rows(d) /\ Rows(e) = Rows(d) \cup {n}
      /\ e.contact[n] = row /\ \A c \in Rows(d) : e.contact[c] = d.contact[c]
      /\ \A a, c : Aggregated(e, a, c) <=> Aggregated(d, a, c)
      /\ e.dated = d.dated /\ e.linked = d.linked
  BY <1>0, WithRowIs
<1>2. \A a, c : Aggregated(d, a, c) => a \in Rows(d) /\ c \in Rows(d) /\ a # n /\ c # n
  BY <1>0, <1>1, Related
<1>3. Keeps(d, e)
  <2>1. d.last \in Int
    BY <1>0 DEF IsDatabase
  <2>2. Grows(d, e)
    BY <1>1, <2>1 DEF Grows
  <2> QED BY <1>1, <1>2, <2>2 DEF Keeps, Shown
<1>4. HaveAggregates(e, Y \cup {n})
  BY <1>1 DEF Sound, HaveAggregates, Shown
<1>5. HaveOne(e)
  BY <1>1, <1>2 DEF Sound, HaveOne
<1>6. ASSUME NEW a \in Aggregates(e) \ (e.dated \cup (X \cup {n})) PROVE Represents(e, a)
  <2>1. a \in Aggregates(d) /\ a \in Rows(d)
    BY <1>0, <1>1, Related
  <2>2. Represents(d, a)
    BY <1>1, <2>1 DEF Sound
  <2>3. \A c : Aggregated(e, a, c) /\ Shown(e, c) <=> Aggregated(d, a, c) /\ Shown(d, c)
    BY <1>1, <1>2 DEF Shown
  <2>4. \A c : Aggregated(d, a, c) /\ Shown(d, c) => e.contact[c].card = d.contact[c].card
    BY <1>1, <1>2
  <2> QED BY <1>0, <1>1, <2>1, <2>2, <2>3, <2>4, RepresentsStill
<1>7. Sound(e, X \cup {n}, Y \cup {n})
  BY <1>1, <1>4, <1>5, <1>6 DEF Sound
<1>8. ASSUME row.collection = "aggregate" PROVE Sound(e, X \cup {n}, Y)
  <2>1. \A c \in (Y \cup {n}) \cap Rows(e) : c \in Y \/ e.contact[c].collection \notin Aggregable
    BY <1>1, <1>8 DEF Aggregable
  <2>2. \A a \in (X \cup {n}) \cap Aggregates(e) : a \in X \cup {n}
    OBVIOUS
  <2> QED BY <1>7, <2>1, <2>2, SoundBut
<1>9. ASSUME row.collection # "aggregate" PROVE Sound(e, X, Y \cup {n})
  <2>1. \A a \in (X \cup {n}) \cap Aggregates(e) : a \in X
    BY <1>1, <1>9, Related
  <2>2. \A c \in (Y \cup {n}) \cap Rows(e) : c \in Y \cup {n}
    OBVIOUS
  <2> QED BY <1>7, <2>1, <2>2, SoundBut
<1> QED BY <1>1, <1>2, <1>3, <1>8, <1>9 DEF SoundAndMore

\* The aggregate a is the only one of the contact c that the database e has, after d.
IsAggregatedBy(d, e, c, a) ==
  /\ Keeps(d, e) /\ a \in Aggregates(e)
  /\ c \in Rows(e) /\ e.contact[c] = d.contact[c]
  /\ \A b : Aggregated(e, b, c) <=> b = a

NewAggregate(card, mask) ==
  [collection |-> "aggregate", card |-> PromoteDetailsToAggregate(card, EmptyCard, mask),
   active |-> TRUE, deleted |-> FALSE]

\* It is in step if it has been built of all that the contact has.
IsGiven(d, X, Y, c, card, mask, a, e) ==
  /\ IsAggregatedBy(d, e, c, a) /\ Sound(e, X \cup {a}, Y \ {c})
  /\ a > d.last /\ mask = DetailTypes /\ d.contact[c].card = card /\ Shown(d, c) => Sound(e, X, Y \ {c})

\* A contact that matches no aggregate gets a new one, which is sound if it has all
\* that the contact has.
LEMMA NewlyAggregated ==
  ASSUME NEW d, NEW X, NEW Y, Sound(d, X, Y), d.last < MaxContact,
         NEW c \in Rows(d), d.contact[c].collection \in Aggregable, \A b : ~Aggregated(d, b, c),
         NEW card \in CardType, NEW mask, NEW n, n = d.last + 1,
         NEW e, e = AggregatedBy(WithRow(d, NewAggregate(card, mask)), n, c)
  PROVE  n > d.last /\ IsGiven(d, X, Y, c, card, mask, n, e)
<1>0. IsDatabase(d)
  BY DEF Sound
<1> PICK x : x = PromoteDetailsToAggregate(card, EmptyCard, mask)
  OBVIOUS
<1> PICK row : row = NewAggregate(card, mask)
  OBVIOUS
<1> PICK f : f = WithRow(d, row)
  OBVIOUS
<1>1. EmptyCard \in CardType
  BY DEF EmptyCard, CardType
<1>2. x \in CardType
  BY <1>1, OnePromoted
<1>3. /\ row \in Row /\ row.collection = "aggregate" /\ row.active /\ ~row.deleted /\ row.card = x
      /\ row.collection \notin Aggregable
  BY <1>2 DEF NewAggregate, Row, Collections, Aggregable
<1>4. /\ Sound(f, X \cup {n}, Y) /\ Keeps(d, f) /\ f.contact[n] = row /\ n \in Rows(f)
  <2>1. row \in Row /\ (row.collection = "aggregate" => row.active /\ ~row.deleted)
    BY <1>3
  <2>2. SoundAndMore(d, X, Y, row, f)
    BY <2>1, RowAdded
  <2>3. f.last = n
    BY <1>0, <2>1, WithRowIs
  <2> QED BY <1>3, <2>2, <2>3 DEF SoundAndMore
<1>5. /\ IsDatabase(f) /\ f.last = n /\ n \notin Rows(d) /\ Rows(f) = Rows(d) \cup {n}
      /\ \A i \in Rows(d) : f.contact[i] = d.contact[i]
      /\ \A a, i : Aggregated(f, a, i) <=> Aggregated(d, a, i)
      /\ f.dated = d.dated /\ f.linked = d.linked
  BY <1>0, <1>3, WithRowIs
<1>6. n \in Aggregates(f) /\ c \in Rows(f) /\ f.contact[c] = d.contact[c] /\ \A b : ~Aggregated(f, b, c)
  BY <1>3, <1>4, <1>5, Related
<1>7. Sound(e, (X \cup {n}) \cup {n}, Y \ {c}) /\ Keeps(f, e)
  BY <1>4, <1>6, OneAggregated
<1>8. /\ IsDatabase(e) /\ e.last = f.last /\ Rows(e) = Rows(f) /\ e.contact = f.contact
      /\ \A b, i : Aggregated(e, b, i) <=> Aggregated(f, b, i) \/ (b = n /\ i = c)
      /\ e.dated = f.dated
  BY <1>5, <1>6, AggregatedByIs
<1>9. Keeps(d, e)
  BY <1>0, <1>4, <1>5, <1>7, <1>8, KeepsIsTransitive
<1>10. Sound(e, X \cup {n}, Y \ {c})
  <2>1. (X \cup {n}) \cup {n} = X \cup {n}
    OBVIOUS
  <2> QED BY <1>7, <2>1
<1>11. n \in Aggregates(e)
  BY <1>5, <1>6, <1>8, Related
<1>12. IsAggregatedBy(d, e, c, n)
  BY <1>6, <1>8, <1>9, <1>11 DEF IsAggregatedBy
<1>13. ASSUME mask = DetailTypes, d.contact[c].card = card, Shown(d, c) PROVE Sound(e, X, Y \ {c})
  <2>1. \A i : ~Aggregated(d, n, i)
    BY <1>0, <1>5, Related
  <2>2. Shown(e, c)
    BY <1>6, <1>8, <1>13 DEF Shown
  <2>3. \A i : Aggregated(e, n, i) /\ Shown(e, i) <=> i \in {} \cup {c}
    BY <1>5, <1>8, <2>1, <2>2
  <2>4. \A i \in {} \cup {c} : e.contact[i].card = d.contact[i].card
    BY <1>6, <1>8
  <2>5. CardInStep(EmptyCard, d, {}, DetailTypes)
    <3>1. /\ NicksOf(d, {}) = {} /\ ValuesOf(d, {}) = {}
          /\ FirstsOf(d, {}) = {} /\ LastsOf(d, {}) = {} /\ GendersOf(d, {}) = {}
      BY DEF NicksOf, ValuesOf, FirstsOf, LastsOf, GendersOf
    <3> QED BY <3>1 DEF CardInStep, OneOf, EmptyCard
  <2>6. PromoteDetailsToAggregate(card, EmptyCard, DetailTypes) = e.contact[n].card
    BY <1>3, <1>4, <1>8, <1>13
  <2>7. Represents(e, n)
    BY <1>0, <1>1, <1>8, <1>13, <2>3, <2>4, <2>5, <2>6, RepresentsMore
  <2>8. \A i \in (Y \ {c}) \cap Rows(e) : i \in Y \ {c}
    OBVIOUS
  <2>9. \A a \in (X \cup {n}) \cap Aggregates(e) : a \in X \/ Represents(e, a)
    BY <2>7
  <2> QED BY <1>10, <2>8, <2>9, SoundBut
<1>14. n > d.last
  BY <1>0 DEF IsDatabase
<1> QED BY <1>10, <1>12, <1>13, <1>14 DEF IsGiven

\* Only aggregates match.
LEMMA Matches ==
  ASSUME NEW d, NEW c, NEW card
  PROVE  MatchingAggregates(d, c, card) \subseteq Aggregates(d)
BY DEF MatchingAggregates, PossibleAggregates

\* A contact gets an aggregate that matches.
LEMMA AggregatedByMatch ==
  ASSUME NEW d, NEW X, NEW Y, Sound(d, X, Y), NEW a \in Aggregates(d),
         NEW c \in Rows(d), d.contact[c].collection \in Aggregable, \A b : ~Aggregated(d, b, c),
         NEW e, e = AggregatedBy(d, a, c)
  PROVE  IsAggregatedBy(d, e, c, a) /\ Sound(e, X \cup {a}, Y \ {c})
<1>1. IsDatabase(d)
  BY DEF Sound
<1>2. Sound(e, X \cup {a}, Y \ {c}) /\ Keeps(d, e)
  BY OneAggregated
<1>3. /\ IsDatabase(e) /\ Rows(e) = Rows(d) /\ e.contact = d.contact
      /\ \A b, i : Aggregated(e, b, i) <=> Aggregated(d, b, i) \/ (b = a /\ i = c)
  BY <1>1, AggregatedByIs
<1>4. a \in Aggregates(e)
  BY <1>1, <1>3, Related
<1> QED BY <1>2, <1>3, <1>4 DEF IsAggregatedBy

\* A contact gets an aggregate that matches and is promoted to it: it is sound as before.
LEMMA AggregatedOnTop ==
  ASSUME NEW d, NEW X, NEW Y, Sound(d, X, Y), NEW a \in Aggregates(d),
         NEW c \in Rows(d), d.contact[c].collection \in Aggregable, \A b : ~Aggregated(d, b, c), Shown(d, c),
         NEW old, d.contact[a].card = old, NEW new, d.contact[c].card = new,
         NEW x, PromoteDetailsToAggregate(new, old, DetailTypes) = x,
         NEW row, row.card = x, row.collection = d.contact[a].collection,
         row.active = d.contact[a].active, row.deleted = d.contact[a].deleted,
         x \in CardType => row \in Row,
         NEW e, e = AggregatedBy(WithContact(d, a, row), a, c)
  PROVE  IsAggregatedBy(d, e, c, a) /\ Sound(e, X, Y \ {c})
<1> PICK f : f = WithContact(d, a, row)
  OBVIOUS
<1>0. IsDatabase(d)
  BY DEF Sound
<1>1. a \in Rows(d) /\ d.contact[a] \in Row /\ d.contact[c] \in Row /\ d.contact[a].collection = "aggregate"
  BY <1>0, Related DEF IsDatabase
<1>2. old \in CardType /\ new \in CardType
  BY <1>1 DEF Row
<1>3. x \in CardType
  BY <1>2, OnePromoted
<1>4. /\ row \in Row /\ row.card = x /\ row.collection = d.contact[a].collection
      /\ row.active = d.contact[a].active /\ row.deleted = d.contact[a].deleted
  BY <1>3
<1>5. a \in Aggregates(d) => row.active /\ ~row.deleted
  BY <1>0, <1>4 DEF IsDatabase
<1>6. /\ IsDatabase(f) /\ f.last = d.last /\ Rows(f) = Rows(d)
      /\ f.contact[a] = row /\ \A i \in Rows(d) \ {a} : f.contact[i] = d.contact[i]
      /\ \A b, i : Aggregated(f, b, i) <=> Aggregated(d, b, i)
      /\ f.dated = d.dated /\ f.linked = d.linked
  <2>1. IsWritten(d, a, row, f)
    BY <1>0, <1>1, <1>4, <1>5, WithContactIs
  <2> QED BY <2>1 DEF IsWritten
<1>7. \A i \in Rows(d) : /\ f.contact[i].collection = d.contact[i].collection
                         /\ f.contact[i].active = d.contact[i].active
                         /\ f.contact[i].deleted = d.contact[i].deleted
  BY <1>4, <1>6
<1>8. \A b, i : Aggregated(d, b, i) => i # a
  BY <1>0, Related
<1>9. Sound(f, X \cup {a}, Y \cup {a}) /\ Grows(d, f)
  <2>1. \A i \in Rows(d) \ {a} : f.contact[i] = d.contact[i]
    BY <1>6
  <2>2. \A b \in Aggregates(d) : b \in d.dated => b \in f.dated \/ b \in {a}
    BY <1>6
  <2>3. \A i \in {a} : i \in Aggregates(d) => i \in {a}
    OBVIOUS
  <2>4. \A b, i : Aggregated(d, b, i) /\ i \in {a} => b \in {a} \/ b \in f.dated
    BY <1>8
  <2>5. \A i \in Rows(d) : f.contact[i].collection = d.contact[i].collection
    BY <1>7
  <2>6. ChangesOnly(d, f, {a}, {a})
    BY <1>6, <2>1, <2>2, <2>3, <2>4, <2>5 DEF ChangesOnly
  <2> QED BY <2>6, RowsChanged
<1>10. Sound(f, X \cup {a}, Y)
  <2>1. \A i \in (X \cup {a}) \cap Aggregates(f) : i \in X \cup {a}
    OBVIOUS
  <2>2. \A i \in (Y \cup {a}) \cap Rows(f) : i \in Y \/ f.contact[i].collection \notin Aggregable
    BY <1>1, <1>7 DEF Aggregable
  <2> QED BY <1>9, <2>1, <2>2, SoundBut
<1>11. \A i \in Rows(d) : Shown(f, i) <=> Shown(d, i)
  BY <1>6, <1>7 DEF Shown
<1>12. Keeps(d, f)
  BY <1>6, <1>9, <1>11 DEF Keeps
<1>13. a \in Aggregates(f) /\ c # a /\ c \in Rows(f) /\ f.contact[c] = d.contact[c] /\ \A b : ~Aggregated(f, b, c)
  <2>1. c # a
    BY <1>1 DEF Aggregable
  <2> QED BY <1>1, <1>4, <1>6, <2>1, Related
<1>14. IsAggregatedBy(f, e, c, a) /\ Sound(e, (X \cup {a}) \cup {a}, Y \ {c})
  BY <1>10, <1>13, AggregatedByMatch
<1>15. IsDatabase(e)
  BY <1>14 DEF Sound
<1>16. IsAggregatedBy(d, e, c, a)
  <2>1. Keeps(f, e)
    BY <1>14 DEF IsAggregatedBy
  <2>2. Keeps(d, e)
    BY <1>0, <1>6, <1>12, <1>15, <2>1, KeepsIsTransitive
  <2> QED BY <1>13, <1>14, <2>2 DEF IsAggregatedBy
<1>17. /\ Rows(e) = Rows(f) /\ e.contact = f.contact
       /\ \A b, i : Aggregated(e, b, i) <=> Aggregated(f, b, i) \/ (b = a /\ i = c)
       /\ e.dated = f.dated
  BY <1>6, <1>13, AggregatedByIs
<1>18. ASSUME a \notin d.dated \cup X PROVE Represents(e, a)
  <2> PICK A : A = ActiveConstituents(d, a)
    OBVIOUS
  <2>1. \A i : i \in A <=> Aggregated(d, a, i) /\ Shown(d, i)
    BY <1>0, Related
  <2>2. \A i \in A : i \in Rows(d) /\ i # a
    BY <1>8, <2>1 DEF Shown
  <2>3. \A i \in A \cup {c} : e.contact[i].card = d.contact[i].card
    BY <1>6, <1>13, <1>17, <2>2
  <2>4. \A i : Shown(e, i) <=> Shown(d, i)
    BY <1>6, <1>11, <1>17 DEF Shown
  <2>5. \A i : Aggregated(e, a, i) /\ Shown(e, i) <=> i \in A \cup {c}
    BY <1>6, <1>17, <2>1, <2>4
  <2>6. CardInStep(old, d, A, DetailTypes)
    BY <1>18 DEF Sound, Represents, InStep
  <2>7. PromoteDetailsToAggregate(new, old, DetailTypes) = e.contact[a].card
    BY <1>4, <1>6, <1>17
  <2> QED BY <1>0, <1>2, <1>15, <2>3, <2>5, <2>6, <2>7, RepresentsMore
<1>19. Sound(e, X, Y \ {c})
  <2>1. \A b \in ((X \cup {a}) \cup {a}) \cap Aggregates(e) : b \in X \/ b \in e.dated \/ Represents(e, b)
    BY <1>6, <1>17, <1>18
  <2>2. \A i \in (Y \ {c}) \cap Rows(e) : i \in Y \ {c}
    OBVIOUS
  <2> QED BY <1>14, <2>1, <2>2, SoundBut
<1> QED BY <1>16, <1>19

\* What UpdateOrCreateAggregate does, with and without promotion to a matching aggregate.
LEMMA GivenAggregate ==
  ASSUME NEW d, NEW X, NEW Y, Sound(d, X, Y),
         NEW c \in Rows(d), d.contact[c].collection \in Aggregable, \A b : ~Aggregated(d, b, c),
         NEW card \in CardType, NEW mask, NEW e, e \in UpdateOrCreateAggregate(d, c, card, mask, TRUE)
  PROVE  \E a : IsGiven(d, X, Y, c, card, mask, a, e)
<1> PICK M : M = MatchingAggregates(d, c, card)
  OBVIOUS
<1> PICK n : n = d.last + 1
  OBVIOUS
<1>1. M \subseteq Aggregates(d)
  BY Matches
<1>2. e \in IF M # {} THEN {AggregatedBy(d, a, c) : a \in M}
            ELSE IF d.last < MaxContact THEN {AggregatedBy(WithRow(d, NewAggregate(card, mask)), n, c)} ELSE {}
  BY DEF UpdateOrCreateAggregate, NewAggregate
<1>3. CASE M # {}
  <2>1. PICK a \in M : e = AggregatedBy(d, a, c)
    BY <1>2, <1>3
  <2>2. IsAggregatedBy(d, e, c, a) /\ Sound(e, X \cup {a}, Y \ {c})
    BY <1>1, <2>1, AggregatedByMatch
  <2>3. ~(a > d.last)
    <3>1. IsDatabase(d)
      BY DEF Sound
    <3>2. a \in Rows(d)
      BY <1>1, <3>1, Related
    <3>3. d.last \in Int /\ Rows(d) \subseteq 1..d.last
      BY <3>1 DEF IsDatabase
    <3> QED BY <3>2, <3>3
  <2> QED BY <2>2, <2>3 DEF IsGiven
<1>4. CASE M = {}
  <2>1. d.last < MaxContact /\ e = AggregatedBy(WithRow(d, NewAggregate(card, mask)), n, c)
    BY <1>2, <1>4
  <2>2. IsGiven(d, X, Y, c, card, mask, n, e)
    BY <2>1, NewlyAggregated
  <2> QED BY <2>2
<1> QED BY <1>3, <1>4

\* The same, of an orphan: with promotion.
LEMMA GivenAndPromoted ==
  ASSUME NEW d, NEW X, NEW Y, Sound(d, X, Y),
         NEW c \in Rows(d), d.contact[c].collection \in Aggregable, \A b : ~Aggregated(d, b, c), Shown(d, c),
         NEW card, d.contact[c].card = card,
         NEW e, e \in UpdateOrCreateAggregate(d, c, card, DetailTypes, FALSE)
  PROVE  Sound(e, X, Y \ {c}) /\ \E a : IsAggregatedBy(d, e, c, a)
<1> PICK M : M = MatchingAggregates(d, c, card)
  OBVIOUS
<1> PICK n : n = d.last + 1
  OBVIOUS
<1> DEFINE row(a) == [d.contact[a] EXCEPT !.card = PromoteDetailsToAggregate(card, d.contact[a].card, DetailTypes)]
<1>0. card \in CardType
  BY DEF Sound, IsDatabase, Row
<1>1. M \subseteq Aggregates(d)
  BY Matches
<1>2. e \in IF M # {} THEN {AggregatedBy([d EXCEPT !.contact[a].card = PromoteDetailsToAggregate(card, @, DetailTypes)], a, c) : a \in M}
            ELSE IF d.last < MaxContact THEN {AggregatedBy(WithRow(d, NewAggregate(card, DetailTypes)), n, c)} ELSE {}
  BY DEF UpdateOrCreateAggregate, NewAggregate
<1>3. CASE M # {}
  <2>1. PICK a \in M : e = AggregatedBy([d EXCEPT !.contact[a].card = PromoteDetailsToAggregate(card, @, DetailTypes)], a, c)
    BY <1>2, <1>3
  <2>2. e = AggregatedBy(WithContact(d, a, row(a)), a, c)
    BY <2>1 DEF WithContact
  <2> PICK old : old = d.contact[a].card
    OBVIOUS
  <2> PICK x : x = PromoteDetailsToAggregate(card, old, DetailTypes)
    OBVIOUS
  <2>3. row(a) = [d.contact[a] EXCEPT !.card = x]
    OBVIOUS
  <2> PICK r : r = row(a)
    OBVIOUS
  <2>4. IsDatabase(d)
    BY DEF Sound
  <2>5. d.contact[a] \in Row
    BY <1>1, <2>4, Related DEF IsDatabase
  <2>6. x \in CardType => r \in Row
    BY <2>3, <2>5 DEF Row
  <2>7. /\ r.card = x /\ r.collection = d.contact[a].collection
        /\ r.active = d.contact[a].active /\ r.deleted = d.contact[a].deleted
    BY <2>3, <2>5 DEF Row
  <2>8. e = AggregatedBy(WithContact(d, a, r), a, c) /\ a \in Aggregates(d)
    BY <1>1, <2>2
  <2> HIDE DEF row
  <2>9. IsAggregatedBy(d, e, c, a) /\ Sound(e, X, Y \ {c})
    BY <2>6, <2>7, <2>8, AggregatedOnTop
  <2> QED BY <2>9
<1>4. CASE M = {}
  <2>1. d.last < MaxContact /\ e = AggregatedBy(WithRow(d, NewAggregate(card, DetailTypes)), n, c)
    BY <1>2, <1>4
  <2>2. n > d.last /\ IsGiven(d, X, Y, c, card, DetailTypes, n, e)
    BY <1>0, <2>1, NewlyAggregated
  <2> QED BY <2>2 DEF IsGiven
<1> QED BY <1>3, <1>4

(***************************************************************************)
(* A contact set an aggregate.                                             *)
(***************************************************************************)
\* A contact that is given its first aggregate has that one.
LEMMA AggregatesAre ==
  ASSUME NEW d, NEW e, IsDatabase(e), NEW c, NEW a, IsAggregatedBy(d, e, c, a)
  PROVE  AggregatesOf(e, c) = {a}
BY Related DEF IsAggregatedBy

\* What is sound but for the aggregates of the contact.
IsSet(d, Y, c, e) == Keeps(d, e) /\ Sound(e, AggregatesOf(e, c), Y \ {c})

\* Its aggregate is regenerated afterwards.
LEMMA GivenAndRegenerated ==
  ASSUME NEW d, NEW Y, IsDatabase(d), NEW c, NEW a,
         NEW e, IsAggregatedBy(d, e, c, a), Sound(e, {a}, Y \ {c}),
         NEW mask, NEW f, f \in RegenerateAggregates(e, {a}, mask)
  PROVE  IsSet(d, Y, c, f) /\ (mask = DetailTypes => Sound(f, {}, Y \ {c}))
<1>1. IsDatabase(e)
  BY DEF Sound
<1>2. /\ IsDatabase(f) /\ Keeps(e, f)
      /\ \A b, i : Aggregated(e, b, i) /\ b \in Rows(f) => Aggregated(f, b, i)
  BY <1>1, RegeneratedKeeps
<1>3. Sound(f, {a} \cup {a}, Y \ {c}) /\ (mask = DetailTypes => Sound(f, {}, Y \ {c}))
  <2>1. {a} \cap Aggregates(e) \subseteq {a}
    OBVIOUS
  <2> QED BY <2>1, RegeneratedSound
<1>4. Keeps(d, f)
  BY <1>1, <1>2, KeepsIsTransitive DEF IsAggregatedBy
<1>5. Sound(f, AggregatesOf(f, c), Y \ {c})
  <2>1. Aggregated(e, a, c)
    BY DEF IsAggregatedBy
  <2>2. \A b \in ({a} \cup {a}) \cap Aggregates(f) : b \in AggregatesOf(f, c)
    BY <1>2, <2>1, Related
  <2>3. \A i \in (Y \ {c}) \cap Rows(f) : i \in Y \ {c}
    OBVIOUS
  <2> QED BY <1>3, <2>2, <2>3, SoundBut
<1> QED BY <1>3, <1>4, <1>5 DEF IsSet

\* What SetAggregate does for a contact that is updated.
LEMMA SetToUpdate ==
  ASSUME NEW d, NEW Y, Sound(d, {}, Y),
         NEW c \in Rows(d), d.contact[c].collection \in Aggregable, \A b : ~Aggregated(d, b, c),
         NEW card \in CardType, NEW mask, NEW f, f \in SetAggregate(d, c, TRUE, card, mask)
  PROVE  IsSet(d, Y, c, f) /\ (mask = DetailTypes => Sound(f, {}, Y \ {c}))
<1>1. PICK e \in UpdateOrCreateAggregate(d, c, card, mask, TRUE) :
         f \in RegenerateAggregates(e, AggregatesOf(e, c), mask)
  BY DEF SetAggregate
<1>2. PICK a : IsGiven(d, {}, Y, c, card, mask, a, e)
  BY GivenAggregate
<1>3. IsAggregatedBy(d, e, c, a) /\ Sound(e, {a}, Y \ {c})
  <2>1. {} \cup {a} = {a}
    OBVIOUS
  <2> QED BY <1>2, <2>1 DEF IsGiven
<1>4. AggregatesOf(e, c) = {a}
  BY <1>3, AggregatesAre DEF Sound
<1>5. IsDatabase(d) /\ f \in RegenerateAggregates(e, {a}, mask)
  BY <1>1, <1>4 DEF Sound
<1> QED BY <1>3, <1>5, GivenAndRegenerated

\* What SetAggregate does for a new contact: an aggregate of its own, younger than it,
\* is not regenerated, and need not be.
LEMMA SetToCreate ==
  ASSUME NEW d, NEW Y, Sound(d, {}, Y),
         NEW c \in Rows(d), c = d.last, d.contact[c].collection \in Aggregable, \A b : ~Aggregated(d, b, c),
         NEW card \in CardType, d.contact[c].card = card,
         NEW f, f \in SetAggregate(d, c, FALSE, card, DetailTypes)
  PROVE  IsSet(d, Y, c, f) /\ (Shown(d, c) => Sound(f, {}, Y \ {c}))
<1>1. PICK e \in UpdateOrCreateAggregate(d, c, card, DetailTypes, TRUE) :
         f \in IF \E a \in AggregatesOf(e, c) : a < c THEN RegenerateAggregates(e, AggregatesOf(e, c), DetailTypes)
               ELSE {e}
  BY DEF SetAggregate
<1>2. PICK a : IsGiven(d, {}, Y, c, card, DetailTypes, a, e)
  BY GivenAggregate
<1>3. IsAggregatedBy(d, e, c, a) /\ Sound(e, {a}, Y \ {c})
  <2>1. {} \cup {a} = {a}
    OBVIOUS
  <2> QED BY <1>2, <2>1 DEF IsGiven
<1>4. AggregatesOf(e, c) = {a}
  BY <1>3, AggregatesAre DEF Sound
<1>5. IsDatabase(d) /\ IsDatabase(e)
  BY <1>3 DEF Sound
<1>6. CASE a < c
  <2>1. f \in RegenerateAggregates(e, {a}, DetailTypes)
    BY <1>1, <1>4, <1>6
  <2> QED BY <1>3, <1>5, <2>1, GivenAndRegenerated
<1>7. CASE ~(a < c)
  <2>1. f = e
    BY <1>1, <1>4, <1>7
  <2>2. a > d.last
    <3>1. Aggregated(e, a, c)
      BY <1>3 DEF IsAggregatedBy
    <3>2. a # c /\ a \in Rows(e) /\ c \in Rows(e)
      BY <1>3, <1>5, <3>1, Related DEF IsAggregatedBy
    <3>3. a \in Int /\ c \in Int
      BY <1>5, <3>2 DEF IsDatabase
    <3> QED BY <1>7, <3>2, <3>3
  <2>3. Shown(d, c) => Sound(f, {}, Y \ {c})
    BY <1>2, <2>1, <2>2 DEF IsGiven
  <2>4. IsSet(d, Y, c, f)
    BY <1>3, <1>4, <2>1 DEF IsSet, IsAggregatedBy
  <2> QED BY <2>3, <2>4
<1> QED BY <1>6, <1>7

-----------------------------------------------------------------------------
(***************************************************************************)
(* Orphans aggregated.                                                     *)
(***************************************************************************)
OrphansAggregated(d, g, S) ==
  IF S = {} THEN {d}
  ELSE UNION {UpdateOrCreateAggregate(e, Max(S), e.contact[Max(S)].card, DetailTypes, FALSE) : e \in g[S \ {Max(S)}]}

AreAggregated(d, g) == g = [S \in SUBSET Orphans(d) |-> OrphansAggregated(d, g, S)]

\* The aggregation of orphans is by its recursive equation, if a function satisfies that.
LEMMA OrphansAggregatedBy ==
  ASSUME NEW d, \E g : AreAggregated(d, g)
  PROVE  \E g : AreAggregated(d, g) /\ AggregateOrphanedContacts(d) = g[Orphans(d)]
<1> DEFINE h == CHOOSE g : AreAggregated(d, g)
<1>1. AreAggregated(d, h)
  OBVIOUS
<1>2. AggregateOrphanedContacts(d) = h[Orphans(d)]
  BY DEF AggregateOrphanedContacts, AreAggregated, OrphansAggregated
<1> QED BY <1>1, <1>2

\* In a database that is sound but for some contacts, only those are orphans.
LEMMA AreOrphans ==
  ASSUME NEW d, NEW X, NEW Y, Sound(d, X, Y)
  PROVE  /\ Orphans(d) \subseteq Y
         /\ \A c \in Orphans(d) : /\ c \in Rows(d) /\ d.contact[c].collection \in Aggregable
                                  /\ Shown(d, c) /\ \A b : ~Aggregated(d, b, c)
<1>1. IsDatabase(d)
  BY DEF Sound
<1>2. \A c \in Orphans(d) : /\ c \in Rows(d) /\ d.contact[c].collection \in Aggregable
                            /\ Shown(d, c) /\ \A b : ~Aggregated(d, b, c)
  BY <1>1, Related DEF Orphans, Shown, Rows
<1> QED BY <1>2 DEF Sound, HaveAggregates

\* Nothing happens if there are none.
LEMMA NoOrphans ==
  ASSUME NEW d, Orphans(d) = {}
  PROVE  AggregateOrphanedContacts(d) = {d}
<1> DEFINE g == [S \in {{}} |-> {d}]
<1>1. g = [S \in {{}} |-> OrphansAggregated(d, g, S)]
  BY DEF OrphansAggregated
<1>2. SUBSET {} = {{}}
  OBVIOUS
<1>3. AreAggregated(d, g)
  BY <1>1, <1>2 DEF AreAggregated
<1>4. PICK h : AreAggregated(d, h) /\ AggregateOrphanedContacts(d) = h[Orphans(d)]
  BY <1>3, OrphansAggregatedBy
<1>5. h[{}] = OrphansAggregated(d, h, {})
  BY <1>4 DEF AreAggregated
<1> QED BY <1>4, <1>5 DEF OrphansAggregated

\* If there is one, it is given an aggregate.
LEMMA OneOrphan ==
  ASSUME NEW d, NEW c \in Int, Orphans(d) = {c}
  PROVE  AggregateOrphanedContacts(d) = UpdateOrCreateAggregate(d, c, d.contact[c].card, DetailTypes, FALSE)
<1> DEFINE U == UpdateOrCreateAggregate(d, c, d.contact[c].card, DetailTypes, FALSE)
           g == [S \in SUBSET {c} |-> IF S = {} THEN {d} ELSE U]
<1>1. Max({c}) = c /\ {c} \ {c} = {}
  BY DEF Max
<1>2. \A S \in SUBSET {c} : S = {} \/ S = {c}
  OBVIOUS
<1>3. \A h : h[{}] = {d} => OrphansAggregated(d, h, {c}) = U
  <2> SUFFICES ASSUME NEW h, h[{}] = {d} PROVE OrphansAggregated(d, h, {c}) = U
    OBVIOUS
  <2>1. OrphansAggregated(d, h, {c}) =
          UNION {UpdateOrCreateAggregate(e, c, e.contact[c].card, DetailTypes, FALSE) : e \in h[{}]}
    BY <1>1 DEF OrphansAggregated
  <2>2. {UpdateOrCreateAggregate(e, c, e.contact[c].card, DetailTypes, FALSE) : e \in h[{}]} = {U}
    OBVIOUS
  <2> QED BY <2>1, <2>2
<1>4. \A h : OrphansAggregated(d, h, {}) = {d}
  BY DEF OrphansAggregated
<1>5. AreAggregated(d, g)
  <2>1. g[{}] = {d} /\ g[{c}] = U
    OBVIOUS
  <2>2. \A S \in SUBSET {c} : g[S] = OrphansAggregated(d, g, S)
    BY <1>2, <1>3, <1>4, <2>1
  <2>3. g = [S \in SUBSET {c} |-> g[S]]
    OBVIOUS
  <2> HIDE DEF g
  <2> QED BY <2>2, <2>3 DEF AreAggregated
<1>6. PICK h : AreAggregated(d, h) /\ AggregateOrphanedContacts(d) = h[Orphans(d)]
  <2> HIDE DEF g
  <2> QED BY <1>5, OrphansAggregatedBy
<1>7. h[{}] = OrphansAggregated(d, h, {}) /\ h[{c}] = OrphansAggregated(d, h, {c})
  BY <1>6 DEF AreAggregated
<1> QED BY <1>3, <1>4, <1>6, <1>7

\* Afterwards there are none, if there was at most one.
LEMMA OrphanIsAggregated ==
  ASSUME NEW d, NEW X, NEW Y, Sound(d, X, Y), NEW c, Y \subseteq {c},
         NEW e, e \in AggregateOrphanedContacts(d)
  PROVE  Sound(e, X, {}) /\ Keeps(d, e) /\ (Y = {} => e = d)
<1>1. IsDatabase(d)
  BY DEF Sound
<1>2. /\ Orphans(d) \subseteq Y
      /\ \A i \in Orphans(d) : /\ i \in Rows(d) /\ d.contact[i].collection \in Aggregable
                               /\ Shown(d, i) /\ \A b : ~Aggregated(d, b, i)
  BY AreOrphans
<1>3. CASE Orphans(d) = {}
  <2>1. e = d
    BY <1>3, NoOrphans
  <2>2. Sound(d, X, {})
    <3>1. \A i \in Y \cap Rows(d) : \/ i \in {} \/ ~Shown(d, i) \/ d.contact[i].collection \notin Aggregable
                                    \/ \E a : Aggregated(d, a, i)
      BY <1>1, <1>3, Related DEF Orphans, Shown, Rows
    <3> QED BY <3>1, SoundBut
  <2> QED BY <1>1, <2>1, <2>2, KeepsItself
<1>4. CASE Orphans(d) # {}
  <2>1. Orphans(d) = {c} /\ Y = {c} /\ c \in Rows(d)
    BY <1>2, <1>4
  <2>2. c \in Int
    BY <1>1, <2>1 DEF IsDatabase
  <2>3. e \in UpdateOrCreateAggregate(d, c, d.contact[c].card, DetailTypes, FALSE)
    BY <2>1, <2>2, OneOrphan
  <2>4. Sound(e, X, Y \ {c}) /\ \E a : IsAggregatedBy(d, e, c, a)
    BY <1>2, <2>1, <2>3, GivenAndPromoted
  <2>5. Y \ {c} = {} /\ Y # {}
    BY <2>1
  <2> QED BY <2>4, <2>5 DEF IsAggregatedBy
<1> QED BY <1>3, <1>4

-----------------------------------------------------------------------------
(***************************************************************************)
(* The parts of a transaction.                                             *)
(***************************************************************************)
\* Aggregates that may be out of step are noted as such.
LEMMA DatedIs ==
  ASSUME NEW d, NEW S, NEW Y, Sound(d, S, Y), S \subseteq Rows(d), NEW e, e = Dated(d, S)
  PROVE  Sound(e, {}, Y) /\ Keeps(d, e) /\ \A a, c : Aggregated(e, a, c) <=> Aggregated(d, a, c)
<1>0. IsDatabase(d)
  BY DEF Sound
<1>1. /\ IsRecord(e) /\ e.last = d.last /\ e.contact = d.contact /\ e.aggregates = d.aggregates
      /\ e.isNot = d.isNot /\ e.linked = d.linked /\ e.dated = d.dated \cup S
  BY <1>0 DEF Dated, IsRecord, IsDatabase
<1>2. /\ e.dated \subseteq Rows(d) /\ e.contact \in [Rows(d) -> Row]
      /\ \A c \in Rows(d) : /\ e.contact[c].collection = d.contact[c].collection
                            /\ c \in Aggregates(d) => e.contact[c].active /\ ~e.contact[c].deleted
  BY <1>0, <1>1 DEF IsDatabase
<1>3. IsDatabase(e) /\ Rows(e) = Rows(d) /\ \A a, c : Aggregated(e, a, c) <=> Aggregated(d, a, c)
  BY <1>0, <1>1, <1>2, RowsRewritten
<1>4. \A c : Shown(e, c) <=> Shown(d, c)
  BY <1>1, <1>3 DEF Shown
<1>5. Keeps(d, e)
  BY <1>0, <1>1, <1>3, <1>4 DEF Keeps, Grows, IsDatabase
<1>6. HaveAggregates(e, Y) /\ HaveOne(e)
  BY <1>1, <1>3, <1>4 DEF Sound, HaveAggregates, HaveOne
<1>7. ASSUME NEW a \in Aggregates(e) \ (e.dated \cup {}) PROVE Represents(e, a)
  <2>1. a \in Aggregates(d) \ (d.dated \cup S)
    BY <1>0, <1>1, <1>3, Related
  <2>2. Represents(d, a)
    BY <2>1 DEF Sound
  <2> QED BY <1>0, <1>1, <1>3, <1>4, <2>2, RepresentsStill
<1> QED BY <1>3, <1>5, <1>6, <1>7 DEF Sound

\* What is left when a contact has been written, and its aggregates updated.
IsUpdated(d, c, e) == Keeps(d, e) /\ Sound(e, AggregatesOf(e, c), {})

\* What AggregateUpdated does after the row of a contact has been written: only the
\* aggregates of the contact may be out of step, and none is if their other types were in step.
LEMMA Updated ==
  ASSUME NEW d, NEW c \in Rows(d), c \notin Aggregates(d), NEW S, S = AggregatesOf(d, c), Sound(d, S, {c}),
         NEW card \in CardType, NEW mask, NEW f, f \in AggregateUpdated(d, c, card, mask)
  PROVE  /\ IsUpdated(d, c, f)
         /\ mask = DetailTypes => Sound(f, {}, {})
         /\ S # {} /\ (\A a \in S \ d.dated : InStep(d, a, DetailTypes \ mask)) => Sound(f, {}, {})
<1>0. IsDatabase(d)
  BY DEF Sound
<1>1. \A a : a \in S <=> Aggregated(d, a, c)
  BY <1>0, Related
<1>2. PICK e : /\ f \in AggregateOrphanedContacts(e)
               /\ e \in IF d.contact[c].collection \notin Aggregable THEN {d}
                        ELSE IF S # {} THEN RegenerateAggregates(d, S, mask)
                        ELSE IF d.contact[c].collection = "local" THEN SetAggregate(d, c, TRUE, card, mask)
                        ELSE {d}
  BY DEF AggregateUpdated
<1>3. ASSUME Sound(e, {}, {}) PROVE f = e
  BY <1>2, <1>3, OrphanIsAggregated
<1>4. ASSUME NEW X, Sound(f, X, {}), \A a \in X \cap Aggregates(f) : a \in AggregatesOf(f, c)
      PROVE  Sound(f, AggregatesOf(f, c), {})
  BY <1>4, SoundBut
<1>5. CASE d.contact[c].collection \notin Aggregable
  <2>1. S = {}
    BY <1>0, <1>1, <1>5 DEF IsDatabase
  <2>2. Sound(d, {}, {})
    <3>1. \A a \in S \cap Aggregates(d) : a \in {}
      BY <2>1
    <3>2. \A i \in {c} \cap Rows(d) : d.contact[i].collection \notin Aggregable
      BY <1>5
    <3> QED BY <3>1, <3>2, SoundBut
  <2>3. f = d
    BY <1>2, <1>3, <1>5, <2>2
  <2>4. Sound(f, AggregatesOf(f, c), {})
    BY <1>4, <2>2, <2>3
  <2>5. Keeps(d, f)
    BY <1>0, <2>3, KeepsItself
  <2> QED BY <2>1, <2>2, <2>3, <2>4, <2>5 DEF IsUpdated
<1>6. CASE d.contact[c].collection \in Aggregable /\ S # {}
  <2>1. Sound(d, S, {})
    <3>1. \A i \in {c} \cap Rows(d) : \E a : Aggregated(d, a, i)
      BY <1>1, <1>6
    <3>2. \A a \in S \cap Aggregates(d) : a \in S
      OBVIOUS
    <3> QED BY <3>1, <3>2, SoundBut
  <2>2. e \in RegenerateAggregates(d, S, mask)
    BY <1>2, <1>6
  <2>3. /\ IsDatabase(e) /\ Keeps(d, e)
        /\ \A a, i : Aggregated(d, a, i) /\ a \in Rows(e) => Aggregated(e, a, i)
    BY <1>0, <2>2, RegeneratedKeeps
  <2>4. Sound(e, S \cup S, {})
    BY <2>1, <2>2, RegeneratedSound
  <2>5. /\ mask = DetailTypes => Sound(e, {}, {})
        /\ (\A a \in S \ d.dated : InStep(d, a, DetailTypes \ mask)) => Sound(e, {}, {})
    <3>1. S \cap Aggregates(d) \subseteq S
      OBVIOUS
    <3> QED BY <2>1, <2>2, <3>1, RegeneratedSound
  <2>6. f = e
    BY <1>2, <2>4, OrphanIsAggregated
  <2>7. \A a \in (S \cup S) \cap Aggregates(f) : a \in AggregatesOf(f, c)
    BY <1>1, <2>3, <2>6, Related
  <2>8. Sound(f, AggregatesOf(f, c), {})
    BY <1>4, <2>4, <2>6, <2>7
  <2> QED BY <2>3, <2>5, <2>6, <2>8 DEF IsUpdated
<1>7. CASE d.contact[c].collection \in Aggregable /\ S = {}
  <2>1. Sound(d, {}, {c}) /\ \A b : ~Aggregated(d, b, c)
    BY <1>1, <1>7
  <2>2. CASE d.contact[c].collection = "local"
    <3>1. e \in SetAggregate(d, c, TRUE, card, mask)
      BY <1>2, <1>7, <2>2
    <3>2. IsSet(d, {c}, c, e) /\ (mask = DetailTypes => Sound(e, {}, {c} \ {c}))
      BY <1>7, <2>1, <3>1, SetToUpdate
    <3>3. {c} \ {c} = {}
      OBVIOUS
    <3>4. Keeps(d, e) /\ Sound(e, AggregatesOf(e, c), {}) /\ (mask = DetailTypes => Sound(e, {}, {}))
      BY <3>2, <3>3 DEF IsSet
    <3>5. f = e
      BY <1>2, <3>4, OrphanIsAggregated
    <3> QED BY <1>7, <3>4, <3>5 DEF IsUpdated
  <2>3. CASE d.contact[c].collection # "local"
    <3>1. e = d
      BY <1>2, <1>7, <2>3
    <3>2. Sound(f, {}, {}) /\ Keeps(d, f)
      BY <1>2, <2>1, <3>1, OrphanIsAggregated
    <3>3. Sound(f, AggregatesOf(f, c), {})
      BY <1>4, <3>2
    <3> QED BY <3>2, <3>3 DEF IsUpdated
  <2> QED BY <2>2, <2>3
<1> QED BY <1>5, <1>6, <1>7

\* After that, it is dated if it may have to be.
LEMMA UpdatedAndDated ==
  ASSUME NEW d, IsDatabase(d), NEW c, NEW f, IsUpdated(d, c, f), NEW e, e = Dated(f, AggregatesOf(f, c))
  PROVE  Sound(e, {}, {}) /\ Keeps(d, e)
<1>1. Sound(f, AggregatesOf(f, c), {}) /\ Keeps(d, f) /\ IsDatabase(f)
  BY DEF IsUpdated, Sound
<1>2. AggregatesOf(f, c) \subseteq Rows(f)
  BY <1>1, Related
<1>3. Sound(e, {}, {}) /\ Keeps(f, e)
  BY <1>1, <1>2, DatedIs
<1>4. IsDatabase(e)
  BY <1>3 DEF Sound
<1> QED BY <1>1, <1>3, <1>4, KeepsIsTransitive

\* What keeps contacts in their aggregates lets them stay.
LEMMA StaysAsKept ==
  ASSUME NEW d, NEW e, Keeps(d, e)
  PROVE  Stays(d, e)
BY DEF Keeps, Stays

-----------------------------------------------------------------------------
(***************************************************************************)
(* The transactions.                                                       *)
(***************************************************************************)
\* A contact created.
LEMMA Created ==
  ASSUME Sound(db, {}, {}), NEW collection \in Collection, NEW card \in Card, NEW active \in BOOLEAN,
         Create(collection, card, active)
  PROVE  Sound(db', {}, {}) /\ Stays(db, db')
<1> PICK d, e : d = db /\ e = db'
  OBVIOUS
<1> PICK row : row = [collection |-> collection, card |-> card, active |-> active, deleted |-> FALSE]
  OBVIOUS
<1> PICK c : c = d.last + 1
  OBVIOUS
<1> PICK w : w = WithRow(d, row)
  OBVIOUS
<1>1. PICK f : /\ f \in IF collection \in Aggregable THEN SetAggregate(w, c, FALSE, card, DetailTypes) ELSE {w}
               /\ e = IF active THEN f ELSE Dated(f, AggregatesOf(f, c))
  BY DEF Create
<1>2. d.last < MaxContact
  BY DEF Create
<1>3. /\ card \in CardType /\ collection \in Collections /\ collection # "aggregate"
  BY AggregationAssumption DEF Collections
<1>4. /\ row \in Row /\ row.collection = collection /\ row.card = card /\ row.active = active /\ row.deleted = FALSE
  BY <1>3 DEF Row
<1>5. Sound(d, {}, {}) /\ IsDatabase(d)
  BY DEF Sound
<1>6. row \in Row /\ (row.collection = "aggregate" => row.active /\ ~row.deleted)
  BY <1>3, <1>4
<1>7. SoundAndMore(d, {}, {}, row, w)
  BY <1>2, <1>5, <1>6, RowAdded
<1>8. w.last = c
  BY <1>2, <1>5, <1>6, WithRowIs
<1>9. /\ Sound(w, {}, {c}) /\ Keeps(d, w) /\ IsDatabase(w)
      /\ w.contact[c] = row /\ c \in Rows(w) /\ \A a : ~Aggregated(w, a, c)
  <2>1. {} \cup {c} = {c}
    OBVIOUS
  <2>2. /\ Sound(w, {}, {c}) /\ Keeps(d, w)
        /\ w.contact[c] = row /\ c \in Rows(w) /\ \A a : ~Aggregated(w, a, c)
    BY <1>3, <1>4, <1>7, <1>8, <2>1 DEF SoundAndMore
  <2>3. IsDatabase(w)
    BY <2>2 DEF Sound
  <2> QED BY <2>2, <2>3
<1>10. active => Shown(w, c)
  BY <1>4, <1>9 DEF Shown
<1>11. {c} \ {c} = {}
  OBVIOUS
<1>12. IsUpdated(w, c, f) /\ (active => Sound(f, {}, {}))
  <2>1. CASE collection \in Aggregable
    <3>1. f \in SetAggregate(w, c, FALSE, card, DetailTypes)
      BY <1>1, <2>1
    <3>2. w.contact[c].collection \in Aggregable /\ w.contact[c].card = card
      BY <1>4, <1>9, <2>1
    <3>3. IsSet(w, {c}, c, f) /\ (Shown(w, c) => Sound(f, {}, {c} \ {c}))
      BY <1>3, <1>8, <1>9, <3>1, <3>2, SetToCreate
    <3> QED BY <1>10, <1>11, <3>3 DEF IsSet, IsUpdated
  <2>2. CASE collection \notin Aggregable
    <3>1. f = w
      BY <1>1, <2>2
    <3>2. \A i \in {c} \cap Rows(w) : w.contact[i].collection \notin Aggregable
      BY <1>4, <1>9, <2>2
    <3>4. \A a \in {} \cap Aggregates(w) : FALSE
      OBVIOUS
    <3>5. Sound(w, {}, {})
      BY <1>9, <3>2, <3>4, SoundBut
    <3>6. Sound(w, AggregatesOf(w, c), {})
      BY <1>9, <3>2, <3>4, SoundBut
    <3>7. Sound(f, {}, {}) /\ Sound(f, AggregatesOf(f, c), {})
      BY <3>1, <3>5, <3>6
    <3> QED BY <1>9, <3>1, <3>7, KeepsItself DEF IsUpdated
  <2> QED BY <2>1, <2>2
<1>13. Sound(e, {}, {}) /\ Keeps(w, e)
  <2>1. CASE active
    BY <1>1, <1>12, <2>1 DEF IsUpdated
  <2>2. CASE ~active
    <3>1. e = Dated(f, AggregatesOf(f, c))
      BY <1>1, <2>2
    <3> QED BY <1>9, <1>12, <3>1, UpdatedAndDated
  <2> QED BY <2>1, <2>2
<1>14. IsDatabase(e)
  BY <1>13 DEF Sound
<1>15. Keeps(d, e)
  BY <1>5, <1>9, <1>13, <1>14, KeepsIsTransitive
<1> QED BY <1>13, <1>15, StaysAsKept

\* A row that has been written: all but its aggregates, and itself, are sound.
LEMMA Written ==
  ASSUME NEW d, Sound(d, {}, {}), NEW c \in Rows(d), c \notin Aggregates(d),
         NEW row \in Row, row.collection = d.contact[c].collection, NEW e, e = WithContact(d, c, row)
  PROVE  /\ IsWritten(d, c, row, e) /\ Sound(e, AggregatesOf(e, c), {c}) /\ Grows(d, e)
         /\ AggregatesOf(e, c) = AggregatesOf(d, c) /\ c \notin Aggregates(e)
<1>0. IsDatabase(d)
  BY DEF Sound
<1>1. IsWritten(d, c, row, e)
  BY <1>0, WithContactIs
<1>2. IsDatabase(e) /\ AggregatesOf(e, c) = AggregatesOf(d, c)
  <2>1. IsDatabase(e)
    BY <1>1 DEF IsWritten
  <2>2. \A a : a \in AggregatesOf(e, c) <=> a \in AggregatesOf(d, c)
    BY <1>0, <1>1, <2>1, Related DEF IsWritten
  <2> QED BY <2>1, <2>2
<1> PICK Z : Z = AggregatesOf(d, c)
  OBVIOUS
<1> PICK E : E = {}
  OBVIOUS
<1>3. Sound(e, E \cup Z, E \cup {c}) /\ Grows(d, e)
  <2>1. \A i \in Rows(d) : e.contact[i].collection = d.contact[i].collection
    BY <1>1 DEF IsWritten
  <2>2. \A a \in Aggregates(d) : a \in d.dated => a \in e.dated \/ a \in Z
    BY <1>1 DEF IsWritten
  <2>3. \A i \in {c} : i \in Aggregates(d) => i \in Z
    OBVIOUS
  <2>4. \A a, i : Aggregated(d, a, i) /\ i \in {c} => a \in Z \/ a \in e.dated
    BY <1>0, Related
  <2>5. /\ IsDatabase(e) /\ Rows(e) = Rows(d) /\ e.last = d.last /\ e.linked = d.linked
        /\ \A a, i : Aggregated(e, a, i) <=> Aggregated(d, a, i)
        /\ \A i \in Rows(d) \ {c} : e.contact[i] = d.contact[i]
    BY <1>1 DEF IsWritten
  <2>6. Sound(d, E, E)
    OBVIOUS
  <2>7. ChangesOnly(d, e, {c}, Z)
    BY <2>1, <2>2, <2>3, <2>4, <2>5 DEF ChangesOnly
  <2> QED BY <2>6, <2>7, RowsChanged
<1>4. E \cup Z = Z /\ E \cup {c} = {c}
  OBVIOUS
<1>5. c \notin Aggregates(e)
  BY <1>0, <1>1, <1>2, Related DEF IsWritten
<1> QED BY <1>1, <1>2, <1>3, <1>4, <1>5

\* An aggregate stays in step in the types that are not in the mask.
LEMMA StepOutsideMask ==
  ASSUME NEW d, NEW e, NEW a, InStep(d, a, DetailTypes), e.contact[a].card = d.contact[a].card,
         ActiveConstituents(e, a) = ActiveConstituents(d, a), NEW mask, NEW card,
         \A c \in ActiveConstituents(d, a) : \/ e.contact[c].card = d.contact[c].card
                                             \/ e.contact[c].card = Masked(card, d.contact[c].card, mask)
  PROVE  InStep(e, a, DetailTypes \ mask)
<1> PICK A : A = ActiveConstituents(d, a)
  OBVIOUS
<1> PICK x : x = d.contact[a].card
  OBVIOUS
<1>1. \A c \in A : /\ "name" \notin mask => /\ e.contact[c].card.first = d.contact[c].card.first
                                            /\ e.contact[c].card.last = d.contact[c].card.last
                   /\ "gender" \notin mask => e.contact[c].card.gender = d.contact[c].card.gender
                   /\ "nickname" \notin mask => e.contact[c].card.nicks = d.contact[c].card.nicks
                   /\ "value" \notin mask => e.contact[c].card.values = d.contact[c].card.values
  <2> SUFFICES ASSUME NEW c \in A
               PROVE  /\ "name" \notin mask => /\ e.contact[c].card.first = d.contact[c].card.first
                                               /\ e.contact[c].card.last = d.contact[c].card.last
                      /\ "gender" \notin mask => e.contact[c].card.gender = d.contact[c].card.gender
                      /\ "nickname" \notin mask => e.contact[c].card.nicks = d.contact[c].card.nicks
                      /\ "value" \notin mask => e.contact[c].card.values = d.contact[c].card.values
    OBVIOUS
  <2>1. CASE e.contact[c].card = d.contact[c].card
    BY <2>1
  <2>2. CASE e.contact[c].card = Masked(card, d.contact[c].card, mask)
    BY <2>2 DEF Masked
  <2> QED BY <2>1, <2>2
<1>2. CardInStep(x, d, A, DetailTypes)
  BY DEF InStep
<1>3. "name" \notin mask => OneOf(x.first, FirstsOf(e, A)) /\ OneOf(x.last, LastsOf(e, A))
  <2> SUFFICES ASSUME "name" \notin mask PROVE OneOf(x.first, FirstsOf(e, A)) /\ OneOf(x.last, LastsOf(e, A))
    OBVIOUS
  <2>1. FirstsOf(e, A) = FirstsOf(d, A) /\ LastsOf(e, A) = LastsOf(d, A)
    BY <1>1 DEF FirstsOf, LastsOf
  <2> QED BY <1>2, <2>1 DEF CardInStep, DetailTypes
<1>4. "gender" \notin mask => OneOf(x.gender, GendersOf(e, A))
  <2> SUFFICES ASSUME "gender" \notin mask PROVE OneOf(x.gender, GendersOf(e, A))
    OBVIOUS
  <2>1. GendersOf(e, A) = GendersOf(d, A)
    BY <1>1 DEF GendersOf
  <2> QED BY <1>2, <2>1 DEF CardInStep, DetailTypes
<1>5. "nickname" \notin mask => x.nicks = NicksOf(e, A)
  <2> SUFFICES ASSUME "nickname" \notin mask PROVE x.nicks = NicksOf(e, A)
    OBVIOUS
  <2>1. {e.contact[c].card.nicks : c \in A} = {d.contact[c].card.nicks : c \in A}
    BY <1>1
  <2>2. NicksOf(e, A) = NicksOf(d, A)
    BY <2>1 DEF NicksOf
  <2> QED BY <1>2, <2>2 DEF CardInStep, DetailTypes
<1>6. "value" \notin mask => x.values = ValuesOf(e, A)
  <2> SUFFICES ASSUME "value" \notin mask PROVE x.values = ValuesOf(e, A)
    OBVIOUS
  <2>1. {e.contact[c].card.values : c \in A} = {d.contact[c].card.values : c \in A}
    BY <1>1
  <2>2. ValuesOf(e, A) = ValuesOf(d, A)
    BY <2>1 DEF ValuesOf
  <2> QED BY <1>2, <2>2 DEF CardInStep, DetailTypes
<1>7. CardInStep(x, e, A, DetailTypes \ mask)
  BY <1>3, <1>4, <1>5, <1>6 DEF CardInStep
<1> QED BY <1>7 DEF InStep

\* A contact updated: with all types, or with some of them.
LEMMA UpdatedAll ==
  ASSUME Sound(db, {}, {}), NEW c, NEW card \in Card, NEW active \in BOOLEAN, NEW mask,
         Update(c, card, active, mask)
  PROVE  Sound(db', {}, {}) /\ Stays(db, db')
<1> PICK d, e : d = db /\ e = db'
  OBVIOUS
<1> PICK old : old = d.contact[c]
  OBVIOUS
<1>0. PICK row : row = [old EXCEPT !.card = Masked(card, @, mask),
                                    !.active = IF "deactivated" \in mask THEN active ELSE @]
  OBVIOUS
<1> PICK w : w = WithContact(d, c, row)
  OBVIOUS
<1> DEFINE partial == mask # DetailTypes /\ (row.active # old.active \/ AggregatesOf(d, c) = {})
<1>1. PICK f : f \in AggregateUpdated(w, c, card, mask) /\ e = IF partial THEN Dated(f, AggregatesOf(f, c)) ELSE f
  BY <1>0 DEF Update, WithContact
<1>2. Sound(d, {}, {}) /\ IsDatabase(d)
  BY DEF Sound
<1>3. c \in Rows(d) /\ c \notin Aggregates(d)
  BY <1>2, Related DEF Update, Live, IsAggregate, Rows
<1>4. old \in Row /\ card \in CardType
  BY <1>2, <1>3, AggregationAssumption DEF IsDatabase
<1>5. Masked(card, old.card, mask) \in CardType
  BY <1>4 DEF Row, CardType, Masked
<1>6. /\ row \in Row /\ row.collection = old.collection /\ row.deleted = old.deleted
      /\ row.card = Masked(card, old.card, mask)
  BY <1>0, <1>4, <1>5 DEF Row
<1>7. /\ IsWritten(d, c, row, w) /\ Sound(w, AggregatesOf(w, c), {c}) /\ Grows(d, w)
      /\ AggregatesOf(w, c) = AggregatesOf(d, c) /\ c \notin Aggregates(w)
  BY <1>2, <1>3, <1>6, Written
<1>8. IsDatabase(w) /\ c \in Rows(w)
  BY <1>3, <1>7 DEF IsWritten
<1> PICK S : S = AggregatesOf(w, c)
  OBVIOUS
<1>9. /\ IsUpdated(w, c, f)
      /\ mask = DetailTypes => Sound(f, {}, {})
      /\ S # {} /\ (\A a \in S \ w.dated : InStep(w, a, DetailTypes \ mask)) => Sound(f, {}, {})
  BY <1>1, <1>4, <1>7, <1>8, Updated
<1>10. ASSUME row.active = old.active PROVE \A a \in S \ w.dated : InStep(w, a, DetailTypes \ mask)
  <2> SUFFICES ASSUME NEW a \in S, a \notin w.dated PROVE InStep(w, a, DetailTypes \ mask)
    OBVIOUS
  <2>1. Aggregated(d, a, c) /\ a \in Aggregates(d) /\ a \notin d.dated /\ a # c
    BY <1>2, <1>3, <1>7, Related DEF IsWritten, IsDatabase
  <2>2. InStep(d, a, DetailTypes)
    BY <1>2, <2>1 DEF Sound, Represents
  <2>3. w.contact[a] = d.contact[a]
    BY <1>2, <1>7, <2>1, Related DEF IsWritten
  <2>4. \A i \in Rows(d) : Shown(w, i) <=> Shown(d, i)
    <3>1. ASSUME NEW i \in Rows(d), i # c PROVE Shown(w, i) <=> Shown(d, i)
      BY <1>7, <3>1 DEF IsWritten, Shown
    <3>2. w.contact[c].active = d.contact[c].active /\ w.contact[c].deleted = d.contact[c].deleted
      BY <1>6, <1>7, <1>10 DEF IsWritten
    <3>3. Shown(w, c) <=> Shown(d, c)
      BY <1>3, <1>8, <3>2 DEF Shown
    <3> QED BY <3>1, <3>3
  <2>5. \A i : i \in ActiveConstituents(w, a) <=> i \in ActiveConstituents(d, a)
    <3>1. \A i : Aggregated(w, a, i) <=> Aggregated(d, a, i)
      BY <1>7 DEF IsWritten
    <3>2. \A i : Aggregated(d, a, i) => i \in Rows(d)
      BY <1>2, Related
    <3>3. \A i : i \in ActiveConstituents(w, a) <=> Aggregated(w, a, i) /\ Shown(w, i)
      BY <1>8, Related
    <3>4. \A i : i \in ActiveConstituents(d, a) <=> Aggregated(d, a, i) /\ Shown(d, i)
      BY <1>2, Related
    <3> QED BY <2>4, <3>1, <3>2, <3>3, <3>4
  <2>6. \A i \in ActiveConstituents(d, a) : \/ w.contact[i].card = d.contact[i].card
                                            \/ w.contact[i].card = Masked(card, d.contact[i].card, mask)
    <3>1. ActiveConstituents(d, a) \subseteq Rows(d)
      BY <1>2, Related DEF Shown
    <3> QED BY <1>6, <1>7, <3>1 DEF IsWritten
  <2>7. ActiveConstituents(w, a) = ActiveConstituents(d, a)
    BY <2>5
  <2> QED BY <2>2, <2>3, <2>6, <2>7, StepOutsideMask
<1>11. Sound(e, {}, {}) /\ Keeps(w, e)
  <2>1. CASE partial
    <3>1. e = Dated(f, AggregatesOf(f, c))
      BY <1>1, <2>1
    <3> QED BY <1>8, <1>9, <3>1, UpdatedAndDated
  <2>2. CASE ~partial
    <3>1. e = f
      BY <1>1, <2>2
    <3>2. Keeps(w, f)
      BY <1>9 DEF IsUpdated
    <3>3. Sound(f, {}, {})
      <4>1. CASE mask = DetailTypes
        BY <1>9, <4>1
      <4>2. CASE row.active = old.active /\ S # {}
        BY <1>9, <1>10, <4>2
      <4>3. mask = DetailTypes \/ (row.active = old.active /\ S # {})
        BY <1>7, <2>2
      <4> QED BY <4>1, <4>2, <4>3
    <3> QED BY <3>1, <3>2, <3>3
  <2> QED BY <2>1, <2>2
<1>12. Stays(d, e)
  <2>1. \A a, i : Aggregated(d, a, i) => Aggregated(w, a, i)
    BY <1>7 DEF IsWritten
  <2>2. IsDatabase(e)
    BY <1>11 DEF Sound
  <2> QED BY <1>2, <1>7, <1>8, <1>11, <2>1, <2>2, StaysAfter
<1> QED BY <1>11, <1>12

\* A contact undeleted.
LEMMA Undeleted ==
  ASSUME Sound(db, {}, {}), NEW c, NEW mask, Undelete(c, mask)
  PROVE  Sound(db', {}, {}) /\ Stays(db, db')
<1> PICK d, e : d = db /\ e = db'
  OBVIOUS
<1> PICK old : old = d.contact[c]
  OBVIOUS
<1> PICK row : row = [old EXCEPT !.deleted = FALSE]
  OBVIOUS
<1> PICK w : w = WithContact(d, c, row)
  OBVIOUS
<1>1. PICK f : /\ f \in AggregateUpdated(w, c, old.card, mask)
               /\ e = IF mask = DetailTypes THEN f ELSE Dated(f, AggregatesOf(f, c))
  BY DEF Undelete, WithContact
<1>2. Sound(d, {}, {}) /\ IsDatabase(d)
  BY DEF Sound
<1>3. c \in Rows(d) /\ c \notin Aggregates(d)
  BY <1>2, Related DEF Undelete, Rows, IsDatabase
<1>4. old \in Row
  BY <1>2, <1>3 DEF IsDatabase
<1>5. old.card \in CardType /\ row \in Row /\ row.collection = old.collection
  BY <1>4 DEF Row
<1>6. /\ IsWritten(d, c, row, w) /\ Sound(w, AggregatesOf(w, c), {c}) /\ Grows(d, w)
      /\ c \notin Aggregates(w)
  BY <1>2, <1>3, <1>5, Written
<1>7. IsDatabase(w) /\ c \in Rows(w)
  BY <1>3, <1>6 DEF IsWritten
<1>8. IsUpdated(w, c, f) /\ (mask = DetailTypes => Sound(f, {}, {}))
  BY <1>1, <1>5, <1>6, <1>7, Updated
<1>9. Sound(e, {}, {}) /\ Keeps(w, e)
  <2>1. CASE mask = DetailTypes
    BY <1>1, <1>8, <2>1 DEF IsUpdated
  <2>2. CASE mask # DetailTypes
    <3>1. e = Dated(f, AggregatesOf(f, c))
      BY <1>1, <2>2
    <3> QED BY <1>7, <1>8, <3>1, UpdatedAndDated
  <2> QED BY <2>1, <2>2
<1>10. Stays(d, e)
  <2>1. \A a, i : Aggregated(d, a, i) => Aggregated(w, a, i)
    BY <1>6 DEF IsWritten
  <2>2. IsDatabase(e)
    BY <1>9 DEF Sound
  <2> QED BY <1>2, <1>6, <1>7, <1>9, <2>1, <2>2, StaysAfter
<1> QED BY <1>9, <1>10

RequestsKnown ==
  /\ request \in [Client -> [ids : SUBSET (1..db.last), aggregates : SUBSET (1..db.last)]]
  /\ \A k \in Client : \A c \in request[k].ids : c \notin Aggregates(db)

AggregatesOfAll(d, S) == UNION {AggregatesOf(d, c) : c \in S}

\* The aggregates of several contacts are those of each.
LEMMA AggregatesOfOne ==
  ASSUME NEW d, NEW S, NEW a
  PROVE  a \in AggregatesOfAll(d, S) <=> \E c \in S : a \in AggregatesOf(d, c)
BY DEF AggregatesOfAll

\* The contacts of S deleted, with the aggregates Z known.
WithDeleted(d, S, Z) ==
  [d EXCEPT !.contact = [c \in DOMAIN @ |-> IF c \in S THEN [@[c] EXCEPT !.deleted = TRUE] ELSE @[c]],
            !.dated = @ \cup ((UNION {AggregatesOf(d, c) : c \in S}) \ Z)]

\* Contacts deleted: only the aggregates that are known may be out of step.
LEMMA Deleted ==
  ASSUME NEW d, Sound(d, {}, {}), NEW S, \A c \in S : c \notin Aggregates(d), NEW Z,
         NEW e, e = WithDeleted(d, S, Z)
  PROVE  Sound(e, Z, {}) /\ Keeps(d, e)
<1>0. IsDatabase(d)
  BY DEF Sound
<1> DEFINE rows == [c \in Rows(d) |-> IF c \in S THEN [d.contact[c] EXCEPT !.deleted = TRUE] ELSE d.contact[c]]
           dated == (UNION {AggregatesOf(d, c) : c \in S}) \ Z
<1>1. /\ IsRecord(e) /\ e.last = d.last /\ e.aggregates = d.aggregates /\ e.isNot = d.isNot /\ e.linked = d.linked
      /\ e.contact = rows /\ e.dated = d.dated \cup dated
  BY <1>0 DEF WithDeleted, IsRecord, IsDatabase, Rows
<1>2. \A c \in Rows(d) : d.contact[c] \in Row
  BY <1>0 DEF IsDatabase
<1>3. \A c \in Rows(d) : /\ rows[c] \in Row /\ rows[c].collection = d.contact[c].collection
                         /\ rows[c].active = d.contact[c].active
                         /\ c \notin S => rows[c] = d.contact[c]
                         /\ c \in S => rows[c].deleted = TRUE
  BY <1>2 DEF Row
<1>4. DOMAIN rows = Rows(d) /\ rows = [c \in Rows(d) |-> rows[c]]
  OBVIOUS
<1>5. dated \subseteq Rows(d) /\ \A a, c : Aggregated(d, a, c) /\ c \in S => a \in Z \/ a \in dated
  <2>1. \A a : a \in dated <=> a \notin Z /\ \E c \in S : a \in AggregatesOf(d, c)
    <3>1. dated = AggregatesOfAll(d, S) \ Z
      BY DEF AggregatesOfAll
    <3> HIDE DEF dated
    <3> QED BY <3>1, AggregatesOfOne
  <2> HIDE DEF dated
  <2>2. \A a, c : a \in AggregatesOf(d, c) => a \in Rows(d)
    BY <1>0, Related
  <2>3. \A a, c : Aggregated(d, a, c) => a \in AggregatesOf(d, c)
    BY <1>0, Related
  <2> QED BY <2>1, <2>2, <2>3
<1> HIDE DEF rows, dated
<1>6. e.contact \in [Rows(d) -> Row] /\ e.dated \subseteq Rows(d)
  BY <1>0, <1>1, <1>3, <1>4, <1>5 DEF IsDatabase
<1>7. \A c \in Rows(d) : e.contact[c].collection = d.contact[c].collection
  BY <1>1, <1>3
<1>8. \A c \in Rows(d) \ S : e.contact[c] = d.contact[c]
  BY <1>1, <1>3
<1>9. \A c \in Rows(d) : c \in Aggregates(d) => e.contact[c].active /\ ~e.contact[c].deleted
  BY <1>0, <1>8 DEF IsDatabase
<1>10. IsDatabase(e) /\ Rows(e) = Rows(d) /\ \A a, c : Aggregated(e, a, c) <=> Aggregated(d, a, c)
  <2>1. \A c \in Rows(d) : /\ e.contact[c].collection = d.contact[c].collection
                           /\ c \in Aggregates(d) => e.contact[c].active /\ ~e.contact[c].deleted
    BY <1>7, <1>9
  <2> QED BY <1>0, <1>1, <1>6, <2>1, RowsRewritten
<1>11. ChangesOnly(d, e, S, Z)
  BY <1>1, <1>5, <1>7, <1>8, <1>10 DEF ChangesOnly
<1> PICK E : E = {}
  OBVIOUS
<1>12. Sound(e, E \cup Z, E \cup S) /\ Grows(d, e)
  BY <1>11, RowsChanged
<1>13. \A c \in Rows(d) : Shown(e, c) => c \notin S /\ Shown(d, c)
  BY <1>1, <1>3 DEF Shown
<1>14. Sound(e, Z, {})
  <2>1. \A c \in (E \cup S) \cap Rows(e) : ~Shown(e, c)
    BY <1>10, <1>13
  <2>2. \A a \in (E \cup Z) \cap Aggregates(e) : a \in Z
    OBVIOUS
  <2> QED BY <1>12, <2>1, <2>2, SoundBut
<1> QED BY <1>10, <1>12, <1>13, <1>14 DEF Keeps

\* A removal: the aggregates known before the transaction are regenerated.
LEMMA Removed ==
  ASSUME Sound(db, {}, {}), RequestsKnown, NEW k \in Client, CompleteRemoval(k)
  PROVE  Sound(db', {}, {}) /\ Stays(db, db')
<1> PICK d, e : d = db /\ e = db'
  OBVIOUS
<1> PICK S, Z : S = request[k].ids /\ Z = request[k].aggregates
  OBVIOUS
<1> PICK w : w = WithDeleted(d, S, Z)
  OBVIOUS
<1> PICK x : x = RemoveChildlessAggregates(w)
  OBVIOUS
<1>0. PICK T : T = Z \ Childless(w)
  OBVIOUS
<1>1. e \in RegenerateAggregates(x, T, DetailTypes)
  <2>1. db' \in RegenerateAggregates(RemoveChildlessAggregates(WithDeleted(db, request[k].ids, request[k].aggregates)),
              request[k].aggregates \ Childless(WithDeleted(db, request[k].ids, request[k].aggregates)), DetailTypes)
    BY DEF CompleteRemoval, WithDeleted
  <2> QED BY <1>0, <2>1
<1>2. Sound(d, {}, {}) /\ \A c \in S : c \notin Aggregates(d)
  BY DEF RequestsKnown
<1>3. Sound(w, Z, {}) /\ Keeps(d, w)
  BY <1>2, Deleted
<1>4. Sound(x, Z, {}) /\ Keeps(w, x) /\ \A a \in Aggregates(x) : a \in Aggregates(w) \ Childless(w)
  BY <1>3, ChildlessRemoved
<1>5. IsDatabase(d) /\ IsDatabase(w) /\ IsDatabase(x)
  BY <1>2, <1>3, <1>4 DEF Sound
<1>6. Sound(e, {}, {})
  <2>1. Z \cap Aggregates(x) \subseteq T
    BY <1>0, <1>4
  <2>2. Sound(x, Z, {})
    BY <1>4
  <2> QED BY <1>1, <2>1, <2>2, RegeneratedSound
<1>7. IsDatabase(e) /\ Keeps(x, e)
  BY <1>1, <1>5, RegeneratedKeeps
<1>8. Keeps(d, x)
  BY <1>3, <1>4, <1>5, KeepsIsTransitive
<1>9. Keeps(d, e)
  BY <1>5, <1>7, <1>8, KeepsIsTransitive
<1> QED BY <1>6, <1>9, StaysAsKept

\* What other tables and the history say does not matter.
OnlyOthers(d, e) ==
  /\ IsRecord(e) /\ e.contact = d.contact /\ e.last = d.last /\ e.aggregates = d.aggregates
  /\ e.dated = d.dated /\ d.linked \subseteq e.linked
  /\ e.linked \subseteq Rows(d) /\ e.isNot \subseteq Rows(d) \X Rows(d)

\* Relationships of type IsNot, and rows without constituents, do not matter.
LEMMA OthersWritten ==
  ASSUME NEW d, Sound(d, {}, {}), NEW e, OnlyOthers(d, e)
  PROVE  Sound(e, {}, {}) /\ Keeps(d, e) /\ IsDatabase(e)
<1>0. IsDatabase(d)
  BY DEF Sound
<1>1. Rows(e) = Rows(d) /\ \A a, c : Aggregated(e, a, c) <=> Aggregated(d, a, c)
  BY DEF OnlyOthers, Rows, Aggregated
<1>2. IsDatabase(e)
  <2>1. /\ d.last \in 0..MaxContact /\ Rows(d) \subseteq 1..d.last /\ d.contact \in [Rows(d) -> Row]
        /\ d.aggregates \subseteq Rows(d) \X Rows(d) /\ d.dated \subseteq Rows(d)
    BY <1>0 DEF IsDatabase
  <2>2. \A a \in Rows(d) : d.contact[a].collection = "aggregate" => d.contact[a].active /\ ~d.contact[a].deleted
    BY <1>0, Related DEF IsDatabase
  <2>3. \A a, c : Aggregated(d, a, c) =>
           d.contact[a].collection = "aggregate" /\ d.contact[c].collection \in Aggregable
    BY <1>0, Related DEF IsDatabase
  <2>4. /\ IsRecord(e) /\ e.last = d.last /\ e.contact = d.contact /\ e.dated = d.dated /\ e.aggregates = d.aggregates
        /\ e.linked \subseteq Rows(d) /\ e.isNot \subseteq Rows(d) \X Rows(d)
    BY DEF OnlyOthers
  <2> QED BY <1>1, <2>1, <2>2, <2>3, <2>4, KnownByFields
<1>3. \A c : Shown(e, c) <=> Shown(d, c)
  BY <1>1 DEF OnlyOthers, Shown
<1>4. Keeps(d, e)
  BY <1>0, <1>1, <1>3 DEF OnlyOthers, Keeps, Grows, IsDatabase
<1>5. HaveAggregates(e, {}) /\ HaveOne(e)
  BY <1>1, <1>3 DEF OnlyOthers, Sound, HaveAggregates, HaveOne
<1>6. ASSUME NEW a \in Aggregates(e) \ (e.dated \cup {}) PROVE Represents(e, a)
  <2>1. a \in Aggregates(d) \ (d.dated \cup {})
    BY <1>0, <1>1, <1>2, Related DEF OnlyOthers
  <2>2. Represents(d, a)
    BY <2>1 DEF Sound
  <2>3. /\ e.contact[a].card = d.contact[a].card
        /\ \A c : Aggregated(d, a, c) /\ Shown(d, c) => e.contact[c].card = d.contact[c].card
    BY DEF OnlyOthers
  <2>4. \A c : Aggregated(e, a, c) /\ Shown(e, c) <=> Aggregated(d, a, c) /\ Shown(d, c)
    BY <1>1, <1>3
  <2> QED BY <1>0, <1>2, <2>2, <2>3, <2>4, RepresentsStill
<1> QED BY <1>2, <1>4, <1>5, <1>6 DEF Sound

\* A client gives a contact another aggregate.
LEMMA AggregatesSaved ==
  ASSUME Sound(db, {}, {}), NEW a, NEW c, SaveAggregates(a, c)
  PROVE  Sound(db', {}, {}) /\ Stays(db, db')
<1> PICK d, e : d = db /\ e = db'
  OBVIOUS
<1>0. PICK l : l = [d EXCEPT !.linked = @ \cup {c}]
  OBVIOUS
<1> PICK w : w = AggregatedBy(l, a, c)
  OBVIOUS
<1>1. Sound(d, {}, {}) /\ IsDatabase(d)
  BY DEF Sound
<1>2. /\ IsRecord(l) /\ l.contact = d.contact /\ l.last = d.last /\ l.aggregates = d.aggregates
      /\ l.isNot = d.isNot /\ l.dated = d.dated /\ l.linked = d.linked \cup {c}
  BY <1>0, <1>1 DEF IsRecord, IsDatabase
<1>3. e \in RegenerateAggregates(w, {a}, DetailTypes)
  <2>1. w = [AggregatedBy(d, a, c) EXCEPT !.linked = @ \cup {c}]
    BY <1>0, <1>1 DEF AggregatedBy, IsRecord, IsDatabase
  <2> QED BY <2>1 DEF SaveAggregates
<1>4. a \in Aggregates(w)
  <2>1. IsAggregate(w, a)
    BY <1>3 DEF RegenerateAggregates
  <2> QED BY <2>1 DEF IsAggregate, Aggregates
<1>5. c \in Rows(d) /\ d.contact[c].collection \in Aggregable
  BY DEF SaveAggregates, Live, Rows
<1>6. OnlyOthers(d, l)
  <2>1. d.linked \cup {c} \subseteq Rows(d) /\ d.isNot \subseteq Rows(d) \X Rows(d)
    BY <1>1, <1>5 DEF IsDatabase
  <2> QED BY <1>2, <2>1 DEF OnlyOthers
<1>7. Sound(l, {}, {}) /\ Keeps(d, l) /\ IsDatabase(l)
  BY <1>1, <1>6, OthersWritten
<1>8. a \in Aggregates(l) /\ c \in Rows(l) /\ l.contact[c].collection \in Aggregable /\ c \in l.linked
  <2>1. w.contact = l.contact
    BY <1>7 DEF AggregatedBy, IsDatabase, IsRecord
  <2> QED BY <1>2, <1>4, <1>5, <2>1 DEF Aggregates, IsAggregate, Rows
<1> PICK E : E = {}
  OBVIOUS
<1>9. Sound(w, E \cup {a}, E \ {c}) /\ Keeps(l, w) /\ IsDatabase(w)
  <2>1. Sound(l, E, E)
    BY <1>7
  <2>2. Sound(w, E \cup {a}, E \ {c}) /\ Keeps(l, w)
    BY <1>8, <2>1, OneAggregated
  <2> QED BY <2>2 DEF Sound
<1>10. Sound(e, {}, {})
  <2>1. E \cup {a} = {a} /\ E \ {c} = {} /\ {a} \cap Aggregates(w) \subseteq {a}
    OBVIOUS
  <2>2. Sound(w, {a}, {})
    BY <1>9, <2>1
  <2> QED BY <1>3, <2>1, <2>2, RegeneratedSound
<1>11. Keeps(w, e) /\ IsDatabase(e)
  BY <1>3, <1>9, RegeneratedKeeps
<1>12. Keeps(d, w)
  BY <1>1, <1>7, <1>9, KeepsIsTransitive
<1>13. Keeps(d, e)
  BY <1>1, <1>9, <1>11, <1>12, KeepsIsTransitive
<1> QED BY <1>10, <1>13, StaysAsKept

\* A relationship of type IsNot saved.
LEMMA IsNotSaved ==
  ASSUME Sound(db, {}, {}), NEW b, NEW c, SaveIsNot(b, c)
  PROVE  Sound(db', {}, {}) /\ Stays(db, db')
<1> PICK d, e : d = db /\ e = db'
  OBVIOUS
<1>1. Sound(d, {}, {}) /\ IsDatabase(d)
  BY DEF Sound
<1>2. e = [d EXCEPT !.isNot = @ \cup {<<b, c>>}] /\ b \in Rows(d) /\ c \in Rows(d)
  BY DEF SaveIsNot, Live, Rows
<1>3. OnlyOthers(d, e)
  <2>1. /\ IsRecord(e) /\ e.contact = d.contact /\ e.last = d.last /\ e.aggregates = d.aggregates
        /\ e.dated = d.dated /\ e.linked = d.linked /\ e.isNot = d.isNot \cup {<<b, c>>}
    BY <1>1, <1>2 DEF IsDatabase, IsRecord
  <2>2. d.isNot \subseteq Rows(d) \X Rows(d) /\ d.linked \subseteq Rows(d)
    BY <1>1 DEF IsDatabase
  <2>3. e.isNot \subseteq Rows(d) \X Rows(d)
    BY <1>2, <2>1, <2>2
  <2> QED BY <2>1, <2>2, <2>3 DEF OnlyOthers
<1>4. Sound(e, {}, {}) /\ Keeps(d, e)
  BY <1>1, <1>3, OthersWritten
<1> QED BY <1>4, StaysAsKept

\* A relationship of type IsNot removed.
LEMMA IsNotRemoved ==
  ASSUME Sound(db, {}, {}), NEW b, NEW c, RemoveIsNot(b, c)
  PROVE  Sound(db', {}, {}) /\ Stays(db, db')
<1> PICK d, e : d = db /\ e = db'
  OBVIOUS
<1>0. PICK w : w = [d EXCEPT !.isNot = @ \ {<<b, c>>}]
  OBVIOUS
<1> PICK x : x = RemoveChildlessAggregates(w)
  OBVIOUS
<1>1. Sound(d, {}, {}) /\ IsDatabase(d)
  BY DEF Sound
<1>2. e \in AggregateOrphanedContacts(x)
  BY <1>0 DEF RemoveIsNot
<1>3. OnlyOthers(d, w)
  BY <1>0, <1>1 DEF OnlyOthers, IsDatabase, IsRecord
<1>4. Sound(w, {}, {}) /\ Keeps(d, w) /\ IsDatabase(w)
  BY <1>1, <1>3, OthersWritten
<1>5. Sound(x, {}, {}) /\ Keeps(w, x) /\ IsDatabase(x)
  <2>1. Sound(x, {}, {}) /\ Keeps(w, x)
    BY <1>4, ChildlessRemoved
  <2> QED BY <2>1 DEF Sound
<1>6. Sound(e, {}, {}) /\ Keeps(x, e) /\ IsDatabase(e)
  <2>1. Sound(e, {}, {}) /\ Keeps(x, e)
    BY <1>2, <1>5, OrphanIsAggregated
  <2> QED BY <2>1 DEF Sound
<1>7. Keeps(d, x)
  BY <1>1, <1>4, <1>5, KeepsIsTransitive
<1>8. Keeps(d, e)
  BY <1>1, <1>5, <1>6, <1>7, KeepsIsTransitive
<1> QED BY <1>6, <1>8, StaysAsKept

\* The row of a deleted contact removed.
LEMMA Purged ==
  ASSUME Sound(db, {}, {}), NEW c, Purge(c)
  PROVE  Sound(db', {}, {}) /\ Stays(db, db')
<1> PICK d, e : d = db /\ e = db'
  OBVIOUS
<1>1. Sound(d, {}, {}) /\ IsDatabase(d)
  BY DEF Sound
<1>2. e = WithoutRows(d, {c}) /\ c \in Rows(d) /\ d.contact[c].deleted
  BY DEF Purge, Rows
<1>3. c \notin Aggregates(d) /\ ~Shown(d, c)
  BY <1>1, <1>2 DEF IsDatabase, Shown
<1>4. \A a, i : a \in {c} \/ i \in {c} => ~(Aggregated(d, a, i) /\ Shown(d, i))
  BY <1>1, <1>3 DEF IsDatabase
<1>5. Sound(e, {}, {}) /\ Keeps(d, e)
  BY <1>1, <1>2, <1>4, RowsRemoved
<1> QED BY <1>5, StaysAsKept

\* A relationship removed: its aggregate may be out of step, its contact may have no other.
LEMMA Separated ==
  ASSUME NEW d, Sound(d, {}, {}), NEW a, NEW c, <<a, c>> \in d.aggregates,
         NEW e, e = [d EXCEPT !.aggregates = @ \ {<<a, c>>}]
  PROVE  Sound(e, {a}, {c}) /\ Grows(d, e)
<1>0. IsDatabase(d)
  BY DEF Sound
<1>1. /\ IsRecord(e) /\ e.contact = d.contact /\ e.last = d.last /\ e.isNot = d.isNot
      /\ e.dated = d.dated /\ e.linked = d.linked /\ e.aggregates = d.aggregates \ {<<a, c>>}
  BY <1>0 DEF IsRecord, IsDatabase
<1>2. Rows(e) = Rows(d)
  BY <1>1 DEF Rows
<1>3. \A b, i : Aggregated(e, b, i) <=> Aggregated(d, b, i) /\ ~(b = a /\ i = c)
  BY <1>1 DEF Aggregated
<1>4. IsDatabase(e)
  <2>1. /\ d.last \in 0..MaxContact /\ Rows(d) \subseteq 1..d.last /\ d.contact \in [Rows(d) -> Row]
        /\ d.aggregates \subseteq Rows(d) \X Rows(d) /\ d.isNot \subseteq Rows(d) \X Rows(d)
        /\ d.dated \subseteq Rows(d) /\ d.linked \subseteq Rows(d)
    BY <1>0 DEF IsDatabase
  <2>2. e.aggregates \subseteq Rows(d) \X Rows(d)
    BY <1>1, <2>1
  <2>3. \A b \in Rows(d) : d.contact[b].collection = "aggregate" => d.contact[b].active /\ ~d.contact[b].deleted
    BY <1>0, Related DEF IsDatabase
  <2>4. \A b, i : Aggregated(e, b, i) =>
           e.contact[b].collection = "aggregate" /\ e.contact[i].collection \in Aggregable
    <3>1. \A b, i : Aggregated(d, b, i) =>
             d.contact[b].collection = "aggregate" /\ d.contact[i].collection \in Aggregable
      BY <1>0, Related DEF IsDatabase
    <3> QED BY <1>1, <1>3, <3>1
  <2> QED BY <1>1, <1>2, <2>1, <2>2, <2>3, <2>4, KnownByFields
<1>5. \A i : Shown(e, i) <=> Shown(d, i)
  BY <1>1, <1>2 DEF Shown
<1>6. Grows(d, e)
  BY <1>0, <1>1, <1>2 DEF Grows, IsDatabase
<1>7. HaveAggregates(e, {c})
  BY <1>1, <1>2, <1>3, <1>5 DEF Sound, HaveAggregates
<1>8. HaveOne(e)
  BY <1>1, <1>2, <1>3 DEF Sound, HaveOne
<1>9. ASSUME NEW b \in Aggregates(e) \ (e.dated \cup {a}) PROVE Represents(e, b)
  <2>1. b \in Aggregates(d) \ (d.dated \cup {}) /\ b # a
    <3>1. b \in Aggregates(d)
      <4>1. b \in Rows(e) /\ e.contact[b].collection = "aggregate"
        BY <1>4, Related
      <4>2. b \in Rows(d) /\ d.contact[b].collection = "aggregate"
        BY <1>1, <1>2, <4>1
      <4> QED BY <1>0, <4>2, Related
    <3>2. b \notin d.dated /\ b # a
      BY <1>1
    <3> QED BY <3>1, <3>2
  <2>2. Represents(d, b)
    BY <2>1 DEF Sound
  <2>3. \A i : Aggregated(e, b, i) /\ Shown(e, i) <=> Aggregated(d, b, i) /\ Shown(d, i)
    BY <1>3, <1>5, <2>1
  <2> QED BY <1>0, <1>1, <1>4, <2>2, <2>3, RepresentsStill
<1> QED BY <1>4, <1>6, <1>7, <1>8, <1>9 DEF Sound

\* A client takes a contact from an aggregate.
LEMMA AggregatesRemoved ==
  ASSUME Sound(db, {}, {}), NEW a, NEW c, RemoveAggregates(a, c)
  PROVE  Sound(db', {}, {}) /\ Grows(db, db')
<1> PICK d, e : d = db /\ e = db'
  OBVIOUS
<1>0. PICK w : w = [d EXCEPT !.aggregates = @ \ {<<a, c>>}]
  OBVIOUS
<1> PICK x : x = RemoveChildlessAggregates(w)
  OBVIOUS
<1>1. PICK T : T = {a} \ Childless(w)
  OBVIOUS
<1>2. PICK f : f \in RegenerateAggregates(x, T, DetailTypes) /\ e \in AggregateOrphanedContacts(f)
  BY <1>0, <1>1 DEF RemoveAggregates
<1>3. Sound(d, {}, {}) /\ IsDatabase(d) /\ <<a, c>> \in d.aggregates
  BY DEF Sound, RemoveAggregates
<1>4. Sound(w, {a}, {c}) /\ Grows(d, w)
  BY <1>0, <1>3, Separated
<1>5. Sound(x, {a}, {c}) /\ Keeps(w, x) /\ \A b \in Aggregates(x) : b \in Aggregates(w) \ Childless(w)
  BY <1>4, ChildlessRemoved
<1>6. IsDatabase(w) /\ IsDatabase(x)
  BY <1>4, <1>5 DEF Sound
<1>7. Sound(f, {}, {c})
  <2>1. {a} \cap Aggregates(x) \subseteq T
    BY <1>1, <1>5
  <2>2. Sound(x, {a}, {c})
    BY <1>5
  <2> QED BY <1>2, <2>1, <2>2, RegeneratedSound
<1>8. Keeps(x, f) /\ IsDatabase(f)
  BY <1>2, <1>6, RegeneratedKeeps
<1>9. Sound(e, {}, {}) /\ Keeps(f, e)
  BY <1>2, <1>7, OrphanIsAggregated
<1>10. IsDatabase(e)
  BY <1>9 DEF Sound
<1>11. Grows(d, x)
  BY <1>3, <1>4, <1>5, <1>6, GrowsIsTransitive DEF Keeps
<1>12. Grows(d, f)
  BY <1>3, <1>6, <1>8, <1>11, GrowsIsTransitive DEF Keeps
<1>13. Grows(d, e)
  BY <1>3, <1>8, <1>9, <1>10, <1>12, GrowsIsTransitive DEF Keeps
<1> QED BY <1>9, <1>13

-----------------------------------------------------------------------------
(***************************************************************************)
(* The inductive invariant.                                                *)
(***************************************************************************)
\* What clients know of ids stays true, whatever the others do.
LEMMA StillKnown ==
  ASSUME RequestsKnown, IsDatabase(db), IsDatabase(db'), Grows(db, db'),
         request' = request \/ \E k \in Client : request' = [request EXCEPT ![k] = NoRequest]
  PROVE  RequestsKnown'
<1> DEFINE R(n) == [ids : SUBSET (1..n), aggregates : SUBSET (1..n)]
<1>1. db.last \in Nat /\ db'.last \in Nat /\ db.last <= db'.last
  BY DEF IsDatabase, Grows
<1>2. R(db.last) \subseteq R(db'.last) /\ NoRequest \in R(db'.last)
  BY <1>1 DEF NoRequest
<1>3. request \in [Client -> R(db.last)]
  BY DEF RequestsKnown
<1>4. request' \in [Client -> R(db'.last)]
  <2> HIDE DEF R
  <2>1. request \in [Client -> R(db'.last)]
    BY <1>2, <1>3
  <2> QED BY <1>2, <2>1
<1>5. \A k \in Client : request'[k].ids \subseteq request[k].ids
  BY <1>3 DEF NoRequest
<1>6. \A c \in 1..db.last : c \in Aggregates(db') => c \in Aggregates(db)
  <2> SUFFICES ASSUME NEW c \in 1..db.last, c \in Aggregates(db') PROVE c \in Aggregates(db)
    OBVIOUS
  <2> PICK d, e : d = db /\ e = db'
    OBVIOUS
  <2>1. c \in Rows(e) /\ e.contact[c].collection = "aggregate"
    BY Related
  <2>2. ~(c > d.last)
    BY <1>1
  <2>3. c \in Rows(d) /\ e.contact[c].collection = d.contact[c].collection
    BY <2>1, <2>2 DEF Grows
  <2> QED BY <2>1, <2>3, Related
<1>7. \A k \in Client : request[k].ids \subseteq 1..db.last
  BY <1>3
<1>8. \A k \in Client : \A c \in request'[k].ids : c \notin Aggregates(db')
  BY <1>5, <1>6, <1>7 DEF RequestsKnown
<1> QED BY <1>4, <1>8 DEF RequestsKnown

\* What a client finds out is true.
LEMMA RemovalBegun ==
  ASSUME RequestsKnown, IsDatabase(db), NEW k \in Client, NEW S, BeginRemoval(k, S)
  PROVE  RequestsKnown'
<1> PICK d : d = db
  OBVIOUS
<1>1. d.contact = db.contact /\ Rows(d) \subseteq 1..d.last
  BY DEF IsDatabase
<1>2. \A c \in S : c \in Rows(d) /\ c \notin Aggregates(d)
  BY DEF BeginRemoval, Live, IsAggregate, Aggregates, Rows
<1>3. PICK A : A = AggregatesOfAll(d, S)
  OBVIOUS
<1>4. A \subseteq Rows(d)
  BY <1>3, AggregatesOfOne, Related
<1>5. request' = [request EXCEPT ![k] = [ids |-> S, aggregates |-> A]] /\ db' = db
  <2>1. request' = [request EXCEPT ![k] = [ids |-> S, aggregates |-> UNION {AggregatesOf(db, c) : c \in S}]] /\ db' = db
    BY DEF BeginRemoval
  <2>2. UNION {AggregatesOf(d, c) : c \in S} = AggregatesOfAll(d, S)
    BY DEF AggregatesOfAll
  <2> QED BY <1>3, <2>1, <2>2
<1>6. [ids |-> S, aggregates |-> A] \in [ids : SUBSET (1..d.last), aggregates : SUBSET (1..d.last)]
  BY <1>1, <1>2, <1>4
<1>7. request' \in [Client -> [ids : SUBSET (1..db'.last), aggregates : SUBSET (1..db'.last)]]
  BY <1>5, <1>6 DEF RequestsKnown
<1>8. \A i \in Client : \A c \in request'[i].ids : c \notin Aggregates(db')
  BY <1>2, <1>5 DEF RequestsKnown
<1> QED BY <1>7, <1>8 DEF RequestsKnown

IInv == Sound(db, {}, {}) /\ RequestsKnown

\* What a step of the clients leaves.
StepTaken == Stays(db, db') \/ \E r \in db.aggregates : RemoveAggregates(r[1], r[2])

\* The invariant holds initially,
LEMMA Initially ==
  ASSUME Init
  PROVE  IInv
<1> PICK d : d = EmptyDatabase
  OBVIOUS
<1>1. d = db
  BY DEF Init
<1>2. /\ IsRecord(d) /\ d.contact = <<>> /\ d.last = 0 /\ d.aggregates = {} /\ d.isNot = {}
      /\ d.dated = {} /\ d.linked = {}
  BY DEF EmptyDatabase, IsRecord
<1>3. Rows(d) = {} /\ d.contact \in [{} -> Row]
  BY <1>2 DEF Rows
<1>4. \A a, c : ~Aggregated(d, a, c)
  BY <1>2 DEF Aggregated
<1>5. IsDatabase(d)
  <2>1. d.last \in 0..MaxContact
    BY <1>2, AggregationAssumption
  <2>2. /\ {} \subseteq 1..d.last /\ d.aggregates \subseteq {} \X {} /\ d.isNot \subseteq {} \X {}
        /\ d.dated \subseteq {} /\ d.linked \subseteq {}
    BY <1>2
  <2>3. Aggregates(d) = {}
    BY <1>3 DEF Aggregates, Rows
  <2> QED BY <1>2, <1>3, <1>4, <2>1, <2>2, <2>3 DEF IsDatabase
<1>6. HaveAggregates(d, {}) /\ HaveOne(d)
  BY <1>3 DEF HaveAggregates, HaveOne
<1>7. \A a \in Aggregates(d) : FALSE
  BY <1>3, <1>5, Related
<1>8. Sound(d, {}, {})
  BY <1>5, <1>6, <1>7 DEF Sound
<1>9. RequestsKnown
  <2>1. request = [k \in Client |-> NoRequest]
    BY DEF Init
  <2> QED BY <2>1 DEF RequestsKnown, NoRequest
<1> QED BY <1>1, <1>8, <1>9 DEF IInv

\* A transaction that no removal is about.
LEMMA OtherStep ==
  ASSUME IInv, Sound(db', {}, {}), Stays(db, db'), UNCHANGED request
  PROVE  IInv' /\ StepTaken
<1>1. IsDatabase(db) /\ IsDatabase(db') /\ Grows(db, db')
  BY DEF IInv, Sound, Stays
<1>2. RequestsKnown'
  BY <1>1, StillKnown DEF IInv
<1> QED BY <1>2 DEF IInv, StepTaken

\* and every step keeps it, and the aggregates of what is shown, unless a client
\* takes a contact from an aggregate.
LEMMA Inductive ==
  ASSUME IInv, [Next]_vars
  PROVE  IInv' /\ StepTaken
<1>0. Sound(db, {}, {}) /\ RequestsKnown /\ IsDatabase(db)
  BY DEF IInv, Sound
<1>1. ASSUME UNCHANGED db PROVE Sound(db', {}, {}) /\ Stays(db, db') /\ IsDatabase(db') /\ Grows(db, db')
  <2>1. Stays(db, db)
    BY <1>0, KeepsItself, StaysAsKept
  <2> QED BY <1>0, <1>1, <2>1 DEF Stays
<1>2. ASSUME NEW collection \in Collection, NEW card \in Card, NEW active \in BOOLEAN, Create(collection, card, active)
      PROVE  IInv' /\ StepTaken
  BY <1>0, <1>2, Created, OtherStep DEF Create
<1>3. ASSUME NEW c \in Id, NEW card \in Card, NEW active \in BOOLEAN, NEW mask \in Mask, Update(c, card, active, mask)
      PROVE  IInv' /\ StepTaken
  BY <1>0, <1>3, UpdatedAll, OtherStep DEF Update
<1>4. ASSUME NEW c \in Id, NEW mask \in Mask, Undelete(c, mask) PROVE IInv' /\ StepTaken
  BY <1>0, <1>4, Undeleted, OtherStep DEF Undelete
<1>5. ASSUME NEW c \in Id, Purge(c) PROVE IInv' /\ StepTaken
  BY <1>0, <1>5, Purged, OtherStep DEF Purge
<1>6. ASSUME NEW k \in Client, NEW S \in SUBSET Id, BeginRemoval(k, S) PROVE IInv' /\ StepTaken
  <2>1. UNCHANGED db
    BY <1>6 DEF BeginRemoval
  <2>2. RequestsKnown'
    BY <1>0, <1>6, RemovalBegun
  <2> QED BY <1>1, <2>1, <2>2 DEF IInv, StepTaken
<1>7. ASSUME NEW k \in Client, CompleteRemoval(k) PROVE IInv' /\ StepTaken
  <2>1. Sound(db', {}, {}) /\ Stays(db, db')
    BY <1>0, <1>7, Removed
  <2>2. request' = [request EXCEPT ![k] = NoRequest]
    BY <1>7 DEF CompleteRemoval
  <2>3. RequestsKnown'
    BY <1>0, <2>1, <2>2, StillKnown DEF Sound, Stays
  <2> QED BY <2>1, <2>3 DEF IInv, StepTaken
<1>8. ASSUME NEW k \in Client, AbandonRemoval(k) PROVE IInv' /\ StepTaken
  <2>1. UNCHANGED db /\ request' = [request EXCEPT ![k] = NoRequest]
    BY <1>8 DEF AbandonRemoval
  <2>2. RequestsKnown'
    BY <1>0, <1>1, <2>1, StillKnown
  <2> QED BY <1>1, <2>1, <2>2 DEF IInv, StepTaken
<1>9. ASSUME NEW b \in Id, NEW c \in Id, SaveAggregates(b, c) PROVE IInv' /\ StepTaken
  BY <1>0, <1>9, AggregatesSaved, OtherStep DEF SaveAggregates
<1>10. ASSUME NEW b \in Id, NEW c \in Id, SaveIsNot(b, c) PROVE IInv' /\ StepTaken
  BY <1>0, <1>10, IsNotSaved, OtherStep DEF SaveIsNot
<1>11. ASSUME NEW b \in Id, NEW c \in Id, RemoveAggregates(b, c) PROVE IInv' /\ StepTaken
  <2>1. Sound(db', {}, {}) /\ Grows(db, db')
    BY <1>0, <1>11, AggregatesRemoved
  <2>2. UNCHANGED request /\ <<b, c>> \in db.aggregates
    BY <1>11 DEF RemoveAggregates
  <2>3. RequestsKnown'
    BY <1>0, <2>1, <2>2, StillKnown DEF Sound
  <2>4. \E r \in db.aggregates : RemoveAggregates(r[1], r[2])
    BY <1>11, <2>2
  <2> QED BY <2>1, <2>3, <2>4 DEF IInv, StepTaken
<1>12. ASSUME NEW b \in Id, NEW c \in Id, RemoveIsNot(b, c) PROVE IInv' /\ StepTaken
  BY <1>0, <1>12, IsNotRemoved, OtherStep DEF RemoveIsNot
<1>13. CASE UNCHANGED vars
  <2>1. UNCHANGED db /\ UNCHANGED request
    BY <1>13 DEF vars
  <2> QED BY <1>1, <2>1, OtherStep
<1> QED BY <1>2, <1>3, <1>4, <1>5, <1>6, <1>7, <1>8, <1>9, <1>10, <1>11, <1>12, <1>13 DEF Next

\* The types follow from the invariant.
LEMMA TypesFollow ==
  ASSUME IInv
  PROVE  TypeOK
<1> PICK d : d = db
  OBVIOUS
<1>1. IsDatabase(d)
  BY DEF IInv, Sound
<1>2. d.last \in 0..MaxContact /\ Rows(d) \subseteq 1..d.last /\ \A c \in Rows(d) : d.contact[c] \in Row
  BY <1>1 DEF IsDatabase
<1>3. d.aggregates \subseteq Rows(d) \X Rows(d) /\ d.isNot \subseteq Rows(d) \X Rows(d)
  BY <1>1 DEF IsDatabase
<1>4. d.dated \subseteq Rows(d) /\ d.linked \subseteq Rows(d)
  BY <1>1 DEF IsDatabase
<1>5. request \in [Client -> [ids : SUBSET (1..d.last), aggregates : SUBSET (1..d.last)]]
  BY DEF IInv, RequestsKnown
<1>6. \A a \in Rows(d) : d.contact[a].collection = "aggregate" => d.contact[a].active /\ ~d.contact[a].deleted
  BY <1>1, Related DEF IsDatabase
<1>7. \A r \in d.aggregates : d.contact[r[1]].collection = "aggregate" /\ d.contact[r[2]].collection # "aggregate"
  <2> SUFFICES ASSUME NEW r \in d.aggregates
               PROVE  d.contact[r[1]].collection = "aggregate" /\ d.contact[r[2]].collection # "aggregate"
    OBVIOUS
  <2>1. Aggregated(d, r[1], r[2])
    BY <1>3 DEF Aggregated
  <2>2. r[1] \in Aggregates(d) /\ d.contact[r[2]].collection \in Aggregable
    BY <1>1, <2>1 DEF IsDatabase
  <2> QED BY <1>1, <2>2, Related DEF Aggregable
<1> QED BY <1>2, <1>3, <1>4, <1>5, <1>6, <1>7 DEF TypeOK, Rows

\* A card that has what the cards of A have, as the property says it.
ShowsAll(d, card, A) ==
  LET cards == {d.contact[c].card : c \in A}
  IN  /\ card.nicks = UNION {c.nicks : c \in cards}
      /\ card.values = UNION {c.values : c \in cards}
      /\ \A part \in {"first", "last", "gender"} :
           LET parts == {c[part] : c \in cards} \ {None}
           IN  IF parts = {} THEN card[part] = None ELSE card[part] \in parts

\* An aggregate in step is as DetailsInStep says.
LEMMA StepShown ==
  ASSUME NEW d, NEW card, NEW A, CardInStep(card, d, A, DetailTypes)
  PROVE  ShowsAll(d, card, A)
<1> PICK cards : cards = {d.contact[c].card : c \in A}
  OBVIOUS
<1>1. /\ OneOf(card.first, FirstsOf(d, A)) /\ OneOf(card.last, LastsOf(d, A)) /\ OneOf(card.gender, GendersOf(d, A))
      /\ card.nicks = NicksOf(d, A) /\ card.values = ValuesOf(d, A)
  BY DEF CardInStep, DetailTypes
<1>2. {c.nicks : c \in cards} = {d.contact[c].card.nicks : c \in A}
  OBVIOUS
<1>3. {c.values : c \in cards} = {d.contact[c].card.values : c \in A}
  OBVIOUS
<1>4. card.nicks = UNION {c.nicks : c \in cards}
  BY <1>1, <1>2 DEF NicksOf
<1>5. card.values = UNION {c.values : c \in cards}
  BY <1>1, <1>3 DEF ValuesOf
<1>6. OneOf(card.first, {c.first : c \in cards})
  <2>1. {c.first : c \in cards} = FirstsOf(d, A)
    BY DEF FirstsOf
  <2> QED BY <1>1, <2>1
<1>7. OneOf(card.last, {c.last : c \in cards})
  <2>1. {c.last : c \in cards} = LastsOf(d, A)
    BY DEF LastsOf
  <2> QED BY <1>1, <2>1
<1>8. OneOf(card.gender, {c.gender : c \in cards})
  <2>1. {c.gender : c \in cards} = GendersOf(d, A)
    BY DEF GendersOf
  <2> QED BY <1>1, <2>1
<1>9. ASSUME NEW part \in {"first", "last", "gender"} PROVE OneOf(card[part], {c[part] : c \in cards})
  <2>1. CASE part = "first"
    BY <1>6, <2>1
  <2>2. CASE part = "last"
    BY <1>7, <2>2
  <2>3. CASE part = "gender"
    BY <1>8, <2>3
  <2> QED BY <2>1, <2>2, <2>3
<1> QED BY <1>4, <1>5, <1>9 DEF ShowsAll, OneOf

\* AggregatesSound follows from the invariant.
LEMMA AggregatesFollow ==
  ASSUME IInv
  PROVE  AggregatesSound
<1> PICK d : d = db
  OBVIOUS
<1>1. Sound(d, {}, {}) /\ IsDatabase(d)
  BY DEF IInv, Sound
<1>2. Orphans(d) = {}
  BY <1>1, AreOrphans
<1>3. ASSUME NEW c \in Rows(d) \ d.linked PROVE Cardinality(AggregatesOf(d, c)) <= 1
  <2>1. \A a, b \in AggregatesOf(d, c) : a = b
    BY <1>1, <1>3, Related DEF Sound, HaveOne
  <2>2. CASE AggregatesOf(d, c) = {}
    BY <2>2, FS_EmptySet
  <2>3. CASE AggregatesOf(d, c) # {}
    <3>1. PICK a : a \in AggregatesOf(d, c)
      BY <2>3
    <3>2. AggregatesOf(d, c) = {a}
      BY <2>1, <3>1
    <3>3. Cardinality({a}) = 1
      BY FS_Singleton
    <3> QED BY <3>2, <3>3
  <2> QED BY <2>2, <2>3
<1>4. ASSUME NEW a \in Aggregates(d) \ d.dated PROVE Represents(d, a)
  BY <1>1, <1>4 DEF Sound
<1>5. ASSUME NEW a \in Aggregates(d) \ d.dated PROVE ActiveConstituents(d, a) # {}
  BY <1>1, <1>4, <1>5, Related DEF Represents
<1>6. Partition
  BY <1>2, <1>3, <1>5 DEF Partition, Rows
<1>7. DetailsInStep
  <2>1. ASSUME NEW a \in Aggregates(db) \ db.dated PROVE ShowsAll(db, db.contact[a].card, ActiveConstituents(db, a))
    <3>1. InStep(d, a, DetailTypes)
      BY <1>4, <2>1 DEF Represents
    <3> QED BY <3>1, StepShown DEF InStep
  <2> QED BY <2>1 DEF DetailsInStep, ShowsAll
<1> QED BY <1>6, <1>7 DEF AggregatesSound

\* TogetherStays follows from what a step leaves.
LEMMA TogetherFollows ==
  ASSUME IInv, IInv', StepTaken
  PROVE  \A b, c \in DOMAIN db.contact :
           LET together(d) == AggregatesOf(d, b) \cap AggregatesOf(d, c) # {}
               stays(d, i) == i \in Orphans([d EXCEPT !.aggregates = {}])
           IN  together(db) /\ (\A i \in {b, c} : stays(db, i) /\ stays(db', i))
                 => together(db') \/ \E r \in db.aggregates : RemoveAggregates(r[1], r[2])
<1> PICK d, e : d = db /\ e = db'
  OBVIOUS
<1>1. IsDatabase(d) /\ IsDatabase(e)
  BY DEF IInv, Sound
<1>2. \A i : i \in Orphans([e EXCEPT !.aggregates = {}]) => Shown(e, i)
  <2>1. [e EXCEPT !.aggregates = {}].contact = e.contact
    BY <1>1 DEF IsDatabase, IsRecord
  <2> QED BY <2>1 DEF Orphans, Shown, Rows
<1>3. ASSUME Stays(d, e), NEW b, NEW c, Shown(e, b), Shown(e, c), AggregatesOf(d, b) \cap AggregatesOf(d, c) # {}
      PROVE  AggregatesOf(e, b) \cap AggregatesOf(e, c) # {}
  <2>1. PICK a : Aggregated(d, a, b) /\ Aggregated(d, a, c)
    BY <1>1, <1>3, Related
  <2>2. Aggregated(e, a, b) /\ Aggregated(e, a, c)
    BY <1>3, <2>1 DEF Stays
  <2> QED BY <1>1, <2>2, Related
<1> QED BY <1>2, <1>3 DEF StepTaken

\* The inductive invariant: sound databases between the transactions.
THEOREM Invariant == Spec => []IInv
<1>1. Init => IInv
  BY Initially
<1>2. IInv /\ [Next]_vars => IInv'
  BY Inductive
<1> QED BY <1>1, <1>2, PTL DEF Spec

\* The tables have their types, aggregates are neither deleted nor deactivated, and only
\* aggregates aggregate, whatever clients save and remove (contactwriter.cpp).
THEOREM TypeInvariant == Spec => []TypeOK
BY Invariant, TypesFollow, PTL

\* Every contact that is shown has an aggregate, one only unless a client gave it another,
\* and every aggregate that is not dated has the details of its active constituents and
\* nothing else (updateOrCreateAggregate, regenerateAggregates, aggregateOrphanedContacts).
THEOREM AggregatesAreSound == Spec => []AggregatesSound
BY Invariant, AggregatesFollow, PTL

\* Contacts that have an aggregate in common keep it while they are shown, unless a client
\* takes one of them from it (regenerateAggregates, removeChildlessAggregates).
THEOREM TogetherIsKept == Spec => TogetherStays
<1>1. IInv /\ IInv' /\ [Next]_vars => StepTaken
  BY Inductive
<1>2. IInv /\ IInv' /\ [Next]_vars =>
        [\A b, c \in DOMAIN db.contact :
           LET together(d) == AggregatesOf(d, b) \cap AggregatesOf(d, c) # {}
               stays(d, i) == i \in Orphans([d EXCEPT !.aggregates = {}])
           IN  together(db) /\ (\A i \in {b, c} : stays(db, i) /\ stays(db', i))
                 => together(db') \/ \E r \in db.aggregates : RemoveAggregates(r[1], r[2])]_vars
  BY <1>1, TogetherFollows
<1> QED BY <1>2, Invariant, PTL DEF Spec, TogetherStays
=============================================================================
