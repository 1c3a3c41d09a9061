-------------------------------- MODULE CoTimed --------------------------------
(***************************************************************************)
(* Coroutines that use a timed semaphore and a condition variable in turn: *)
(* the two share the coroutines, hence their status words and timers.  A   *)
(* wake-up of one of them must not be taken for one of the other.          *)
(***************************************************************************)
EXTENDS CoSemTm, CoCond

ASSUME QueuesAssumption == SemQue # CondQue

vars == <<waitVars, semVars, condVars>>

TypeOK == WaitTypeOK({"out"} \cup SemPC \cup CondPC) /\ SemTypeOK /\ CondTypeOK

Init == WaitInit /\ SemInit /\ CondInit

Next ==
  \E c \in Ctx : \/ SemStep(c) /\ UNCHANGED condVars
                 \/ CondStep(c) /\ UNCHANGED semVars
                 \/ ParkStep(c) /\ UNCHANGED <<semVars, condVars>>

Spec == Init /\ [][Next]_vars
===============================================================================
