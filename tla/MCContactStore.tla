---------------------------- MODULE MCContactStore ----------------------------
(* One local writer, one collection that is still to be created, and two   *)
(* contacts.  The writer and the sync client of the collection interleave. *)
EXTENDS ContactStore, TLC
CONSTANTS w1, book, i1, i2

Symmetry == Permutations({i1, i2})
=============================================================================
