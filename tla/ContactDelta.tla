----------------------------- MODULE ContactDelta -----------------------------
(***************************************************************************)
(* determineContactDetailDelta: what must be deleted, modified and added   *)
(* to turn the details of a contact into those of a new version of it.     *)
(* A detail has its type, the fields it has, its database id and the times *)
(* it was created and modified at: the latter three are fields too, 0 when *)
(* the detail lacks them.                                                  *)
(***************************************************************************)
EXTENDS DetailTables

\* Absent and empty mean the same for a text, and in an exact match for a list of numbers.
SameValue(kinds, t, f, a, b) == a = b \/ ({a, b} = {"unset", "zero"} /\ Info[t].kinds[f] \in kinds)

detailPairExactlyMatches(a, b) ==
  /\ a.type = b.type
  /\ a.created = b.created
  /\ a.modified = b.modified
  /\ \A f \in DOMAIN a.has : SameValue({"text", "numbers"}, a.type, f, a.has[f], b.has[f])

\* In how many fields two details of a type differ.
scoreForDetailPair(a, b) ==
  Cardinality({f \in DOMAIN a.has : ~SameValue({"text"}, a.type, f, a.has[f], b.has[f])})
  + Cardinality({f \in {"created", "modified"} : a[f] # b[f]})

\* A mistake: nothing is taken as unchanged.
AllUnmatched(old, new) == [old |-> DOMAIN old, new |-> DOMAIN new, pairs |-> <<>>]

\* A new detail is taken as unchanged together with the last old one that it
\* matches exactly; an old one that takes no new detail so is left over, even
\* if it matches some.
Unmatched(old, new) ==
  [old |-> {i \in DOMAIN old :
              \A j \in DOMAIN new : detailPairExactlyMatches(old[i], new[j]) =>
                                    \E k \in DOMAIN old : k > i /\ detailPairExactlyMatches(old[k], new[j])},
   new |-> {j \in DOMAIN new : \A i \in DOMAIN old : ~detailPairExactlyMatches(old[i], new[j])},
   pairs |-> <<>>]

\* The last of the new details that have the id of an old one of their type is its new version.
PairById(old, new, i, left) ==
  LET same == {j \in left.new : /\ i \in left.old /\ old[i].id > 0
                                /\ new[j].id = old[i].id /\ new[j].type = old[i].type}
      last == CHOOSE j \in same : \A k \in same : k <= j
  IN  IF same = {} THEN left
      ELSE [old |-> left.old \ {i}, new |-> left.new \ {last}, pairs |-> Append(left.pairs, <<i, last>>)]

\* From the last of the old details to the first.
PairedById(old, new) ==
  LET left[n \in 0..Len(old)] ==
        IF n = 0 THEN Unmatched(old, new) ELSE PairById(old, new, Len(old) + 1 - n, left[n - 1])
  IN  left[Len(old)]

\* The most similar two details of a type among those that are left.
Closest(old, new, left) ==
  LET pairs == {p \in left[1] \X left[2] : old[p[1]].type = new[p[2]].type}
      Score(p) == scoreForDetailPair(old[p[1]], new[p[2]])
  IN  {p \in pairs : \A q \in pairs : Score(p) <= Score(q)}

\* They are paired, again and again; which of equally similar ones come first
\* is the order of a hash.
determineModifications(old, new) ==
  LET alike[left \in (SUBSET DOMAIN old) \X (SUBSET DOMAIN new)] ==
        IF Closest(old, new, left) = {} THEN {<<>>}
        ELSE UNION {{<<p>> \o rest : rest \in alike[left[1] \ {p[1]}, left[2] \ {p[2]}]} :
                      p \in Closest(old, new, left)}
  IN  alike

\* The numbers of S in their order, and the last one first: the buckets of improveDelta.
Rank(S, i) == Cardinality({j \in S : j <= i})
Ascending(S) == [n \in 1..Cardinality(S) |-> CHOOSE i \in S : Rank(S, i) = n]
LastFirst(S) == [n \in 1..Cardinality(S) |-> Ascending(S)[Cardinality(S) + 1 - n]]

\* A new version is written to the row of the old one.
constructModification(old, update) == IF old.id # 0 THEN old.id ELSE update.id

\* The possible deltas: positions in new of what is modified, with the row it
\* goes to, and of what is added; positions in old of what is deleted.
determineContactDetailDelta(old, new) ==
  LET byId == PairedById(old, new)
      Taken(pairs, k) == {pairs[n][k] : n \in DOMAIN pairs}
      Delta(pairs) ==
        [modifications |-> [n \in DOMAIN pairs |->
                              [at |-> pairs[n][2], id |-> constructModification(old[pairs[n][1]], new[pairs[n][2]])]],
         deletions |-> LastFirst(byId.old \ Taken(pairs, 1)),
         additions |-> LastFirst(byId.new \ Taken(pairs, 2))]
  IN  {Delta(byId.pairs \o more) : more \in determineModifications(old, new)[byId.old, byId.new]}
=============================================================================
