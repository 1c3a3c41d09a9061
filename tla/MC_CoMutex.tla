------------------------------ MODULE MC_CoMutex ------------------------------
(* Three coroutines: one that holds the lock, one that is being woken up and *)
(* one that takes the lock before it, or is queued meanwhile.                *)
EXTENDS CoMutex

CONSTANTS c1, c2, c3

MCCtx == {c1, c2, c3}
===============================================================================
