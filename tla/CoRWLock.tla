------------------------------- MODULE CoRWLock -------------------------------
(***************************************************************************)
(* What a readers-writer mutex promises: coroutines that asked for it get  *)
(* it in no particular order, a writer when nobody holds it, a reader when *)
(* no writer does.                                                         *)
(***************************************************************************)
CONSTANTS Ctx, None

VARIABLES
  writer, readers,     \* who holds it
  wwaiting, rwaiting   \* who asked for it

vars == <<writer, readers, wwaiting, rwaiting>>

Init == writer = None /\ readers = {} /\ wwaiting = {} /\ rwaiting = {}

Idle(c) == c \notin {writer} \cup readers \cup wwaiting \cup rwaiting

Request(c) ==
  /\ Idle(c) /\ wwaiting' = wwaiting \cup {c}
  /\ UNCHANGED <<writer, readers, rwaiting>>

RequestShared(c) ==
  /\ Idle(c) /\ rwaiting' = rwaiting \cup {c}
  /\ UNCHANGED <<writer, readers, wwaiting>>

Acquire(c) ==
  /\ writer = None /\ readers = {}
  /\ c \in wwaiting /\ wwaiting' = wwaiting \ {c}
  /\ writer' = c
  /\ UNCHANGED <<readers, rwaiting>>

\* A reader that nobody keeps waiting gets it as it asks for it.
AcquireShared(c) ==
  /\ writer = None
  /\ c \in rwaiting \/ Idle(c)
  /\ rwaiting' = rwaiting \ {c}
  /\ readers' = readers \cup {c}
  /\ UNCHANGED <<writer, wwaiting>>

Release(c) ==
  /\ writer = c /\ writer' = None
  /\ UNCHANGED <<readers, wwaiting, rwaiting>>

ReleaseShared(c) ==
  /\ c \in readers /\ readers' = readers \ {c}
  /\ UNCHANGED <<writer, wwaiting, rwaiting>>

Next == \E c \in Ctx :
  \/ Request(c) \/ Acquire(c) \/ Release(c)
  \/ RequestShared(c) \/ AcquireShared(c) \/ ReleaseShared(c)

Spec == Init /\ [][Next]_vars
===============================================================================
