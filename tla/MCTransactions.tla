---------------------------- MODULE MCTransactions ----------------------------
(* Two processes, each with the connection of its job thread and that of   *)
(* its synchronous engine.                                                 *)
EXTENDS Transactions, TLC
CONSTANTS c1, c2, c3, c4, p1, p2

MCConnection == {c1, c2, c3, c4}
MCProcess == {p1, p2}
MCProcessOf == c1 :> p1 @@ c2 :> p1 @@ c3 :> p2 @@ c4 :> p2

MCWrites == {Write}
MCWithFetch == {Write, FetchContactChanges}
MCWithClear == {Write, ClearCollectionFlags}
=============================================================================
