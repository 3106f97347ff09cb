--------------------------- MODULE MCTransientStore ---------------------------
(* Two threads, of one of two processes or of both; two contacts, of which *)
(* the first region has room for one.                                      *)
EXTENDS TransientStore
CONSTANTS t1, t2, p1, p2

MCProcess == {p1, p2}
MCThread == {t1, t2}
MCKey == {1, 2}
=============================================================================
