---------------------------- MODULE MCDatabaseOpen ----------------------------
(* A process of an old release and one of a new one.                       *)
EXTENDS DatabaseOpen, TLC
CONSTANTS c1, c2, p1, p2

MCConnection == {c1, c2}
MCProcess == {p1, p2}
MCProcessOf == c1 :> p1 @@ c2 :> p2
MCVersions == p1 :> 1 @@ p2 :> 2
=============================================================================
