------------------------------ MODULE WriteLock ------------------------------
(***************************************************************************)
(* What the cross-process write lock promises to its users, with no        *)
(* semaphore in sight: at most one connection holds it, nobody but the     *)
(* holder gives it up, and the death of a process gives up what its        *)
(* connections held.                                                       *)
(***************************************************************************)
CONSTANTS Connection,   \* every open connection of every process
          Process,      \* the processes that use the database
          processOf     \* the process a connection belongs to

VARIABLE holders        \* the connections that hold the write lock

AbstractInit == holders = {}

Acquire(c) ==
  /\ holders = {}
  /\ holders' = {c}

Release(c) ==
  /\ c \in holders
  /\ holders' = holders \ {c}

Die(p) ==
  /\ \E c \in holders : processOf[c] = p
  /\ holders' = {c \in holders : processOf[c] # p}

AbstractNext ==
  \/ \E c \in Connection : Acquire(c) \/ Release(c)
  \/ \E p \in Process : Die(p)

AbstractSpec == AbstractInit /\ [][AbstractNext]_holders
=============================================================================
