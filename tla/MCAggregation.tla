---------------------------- MODULE MCAggregation ----------------------------
EXTENDS Aggregation
CONSTANTS k1

MCClient == {k1}
MCName == {"ann", "berg"}
MCNick == {"a"}
MCValue == {"x", "y"}
\* Each matches itself and what aggregates both of them, but not the other one.
MCFull == [EmptyCard EXCEPT !.first = "ann", !.last = "berg", !.values = {"x"}]
MCNicked == [EmptyCard EXCEPT !.first = "ann", !.gender = "male", !.nicks = {"a"}, !.values = {"y"}]
MCCard == {MCFull, MCNicked}
MCMask == {DetailTypes, {"deactivated"}}
MCCollection == {"local", "synced"}
=============================================================================
