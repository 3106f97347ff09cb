------------------------------ MODULE MCDetails ------------------------------
(***************************************************************************)
(* Every type by itself with all its fields; the types whose saves depend  *)
(* on each other, and a type that is unique, with one field each.          *)
(***************************************************************************)
EXTENDS Details

Mix(types, wide, masks, maxEdits, maxSaves) ==
  [types |-> types, wide |-> wide, masks |-> masks, maxEdits |-> maxEdits, maxSaves |-> maxSaves]

MCMixes ==
  {Mix(IF t = "Presence" THEN {t, "GlobalPresence"} ELSE {t}, TRUE, {{}}, 1, 2) : t \in TypeNames \ Generated}
  \cup {Mix({"Presence", "GlobalPresence", "Url"}, FALSE, {{}, {"Presence"}, {"Url"}, {"Presence", "Url"}}, 2, 2),
        Mix({"EmailAddress", "Nickname"}, FALSE, {{}, {"EmailAddress"}}, 2, 2),
        Mix({"Gender"}, FALSE, {{}}, 3, 3)}
=============================================================================
