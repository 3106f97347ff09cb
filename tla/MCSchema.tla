------------------------------- MODULE MCSchema -------------------------------
(* Databases of all releases. *)
EXTENDS Schema
CONSTANTS en, fi, first, last

MCVersions == 1..24
MCLocale == {en, fi}
MCGroupProperty == {first, last}
=============================================================================
