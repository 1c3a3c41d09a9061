------------------------------- MODULE CoAsleep -------------------------------
(***************************************************************************)
(* Coroutines that suspend themselves with dco_yield or dco_sleep_until    *)
(* and a callback, and are resumed by others or by their timer: what the   *)
(* waiting primitives use of the scheduler.  A coroutine is parked at the  *)
(* end of its callback.  A timer that is set may expire at any time, and a *)
(* ready coroutine is run sooner or later (CoSched, CoPark).               *)
(***************************************************************************)
EXTENDS CoCtx

CONSTANTS
  Ctx,     \* coroutines
  None,    \* nullptr
  Timed    \* the coroutines that call the versions with a timeout

ASSUME CtxAssumption == None \notin Ctx /\ Timed \subseteq Ctx

VARIABLES
  status,     \* status[c]: the status word of c
  timed_out,  \* timed_out[c]: the last sleep of c ended by its timer
  pc          \* pc[c]: what c does next

\* Where Run leaves a coroutine, and before.
AsleepPC == {"sw", "parked", "remove", "woken"}

AsleepTypeOK(PC) ==
  /\ status \in [Ctx -> Status]
  /\ timed_out \in [Ctx -> BOOLEAN]
  /\ pc \in [Ctx -> AsleepPC \cup PC]

AsleepInit ==
  /\ status = [c \in Ctx |-> "Ready_Reset_Reset"]
  /\ timed_out = [c \in Ctx |-> FALSE]
  /\ pc = [c \in Ctx |-> "out"]

------------------------------------------------------------------------------
From(c, p, q) == pc[c] = p /\ pc' = [pc EXCEPT ![c] = q]

SetStatus(c, step) == status' = [status EXCEPT ![c] = step.to]

\* c is in the callback of its yield or sleep, or asleep.
Waiting(c) == status[c] \in YieldStatus \cup SleepStatus

\* dco_yield or dco_sleep_until, up to the callback; on at r should it fail.
Suspend(c, p, q, r) ==
  LET step == IF c \in Timed THEN TrySleep(status[c]) ELSE TryYield(status[c])
  IN  /\ From(c, p, IF step.res < 0 THEN r ELSE q)
      /\ SetStatus(c, step)
      /\ timed_out' = [timed_out EXCEPT ![c] = FALSE]

(* The scheduler *)

Switch(c) ==
  /\ From(c, "sw", "parked")
  /\ SetStatus(c, TrySw(status[c]))
  /\ UNCHANGED timed_out

SleepAdd(c) ==
  /\ pc[c] = "parked"
  /\ TrySleepAdd(status[c]).res >= 0
  /\ SetStatus(c, TrySleepAdd(status[c]))
  /\ UNCHANGED <<timed_out, pc>>

SleepTimeout(c) ==
  /\ pc[c] = "parked"
  /\ TrySleepTimeout(status[c]).res = 0
  /\ SetStatus(c, TrySleepTimeout(status[c]))
  /\ timed_out' = [timed_out EXCEPT ![c] = TRUE]
  /\ UNCHANGED pc

SleepRemove(c) ==
  /\ pc[c] = "parked"
  /\ TrySleepRemove(status[c]).res = 0
  /\ SetStatus(c, TrySleepRemove(status[c]))
  /\ UNCHANGED <<timed_out, pc>>

Run(c) ==
  /\ From(c, "parked", IF timed_out[c] THEN "remove" ELSE "woken")
  /\ status[c] = "Ready_Reset_Reset"
  /\ UNCHANGED <<status, timed_out>>

SchedStep(c) == Switch(c) \/ SleepAdd(c) \/ SleepTimeout(c) \/ SleepRemove(c) \/ Run(c)

------------------------------------------------------------------------------
\* Nobody is on his way: every coroutine is in its own code or asleep.
Quiet ==
  \A c \in Ctx :
    \/ pc[c] = "out"
    \/ pc[c] = "parked" /\ status[c] \in {"Yield_Set_Reset", "Sleep_Set_Set"}
===============================================================================
