-------------------------------- MODULE CoLock --------------------------------
(***************************************************************************)
(* What a mutex promises: the lock goes from one coroutine that asked for  *)
(* it to another one, in no particular order, and only when its owner has  *)
(* released it.                                                            *)
(***************************************************************************)
CONSTANTS Ctx, None

VARIABLES
  owner,     \* the coroutine that holds the lock, or None
  waiting    \* the coroutines that asked for it

vars == <<owner, waiting>>

Init == owner = None /\ waiting = {}

Request(c) ==
  /\ c \notin waiting \cup {owner}
  /\ waiting' = waiting \cup {c}
  /\ UNCHANGED owner

Acquire(c) ==
  /\ owner = None /\ owner' = c
  /\ c \in waiting /\ waiting' = waiting \ {c}

Release(c) ==
  /\ owner = c /\ owner' = None
  /\ UNCHANGED waiting

Next == \E c \in Ctx : Request(c) \/ Acquire(c) \/ Release(c)

Spec == Init /\ [][Next]_vars
===============================================================================
