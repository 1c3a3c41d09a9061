-------------------------------- MODULE CoCtx --------------------------------
(***************************************************************************)
(* The status word of a coroutine (class coctx).  The word packs three     *)
(* fields, [status][sw][sleep]: what the coroutine is doing, whether its   *)
(* worker has finished switching it out, and whether its timer is set.     *)
(* Each try_*_full method is a compare-and-swap loop: it takes effect      *)
(* atomically on the status it finds, or fails with res = -1 and changes   *)
(* nothing.  So each one is a function of the status alone: "to" is the    *)
(* new status and "res" the method's result.  The version number that the  *)
(* loops also bump is left out: a retry recomputes the step from scratch.  *)
(***************************************************************************)
EXTENDS Integers

YieldStatus == {"Yield_Reset_Reset", "Yield_Set_Reset", "Yield_Break_Reset"}

SleepStatus == {"Sleep_Reset_Reset", "Sleep_Set_Reset", "Sleep_Break_Reset",
                "Sleep_Set_Set", "Sleep_Set_Break", "Sleep_Set_Remove"}

Status == {"Ready_Reset_Reset"} \cup YieldStatus \cup SleepStatus

\* COCTX_STATUS_RESET: a context that was never run, or was recycled.
StatusReset == "Yield_Set_Reset"

\* A step of the status word, and the failure that leaves it alone.
Becomes(s, r) == [to |-> s, res |-> r]
Fails(s) == Becomes(s, -1)

\* Mutant: a coroutine that is still on its stack is made ready at once.
TryResumeEager(s) ==
  IF s = "Yield_Reset_Reset" THEN Becomes("Ready_Reset_Reset", 0)
  ELSE IF s = "Yield_Set_Reset" THEN Becomes("Ready_Reset_Reset", 0)
  ELSE Fails(s)

\* 0: put it in the ready queue.  1, 2: the switch-out will.  3: the pending
\* timer set-up will.  4: hand it to its worker, which must drop the timer.
TryResume(s) ==
  CASE s = "Yield_Set_Reset"   -> Becomes("Ready_Reset_Reset", 0)
    [] s = "Yield_Reset_Reset" -> Becomes("Yield_Break_Reset", 1)
    [] s = "Sleep_Reset_Reset" -> Becomes("Sleep_Break_Reset", 2)
    [] s = "Sleep_Set_Reset"   -> Becomes("Sleep_Set_Break", 3)
    [] s = "Sleep_Set_Set"     -> Becomes("Sleep_Set_Remove", 4)
    [] OTHER                   -> Fails(s)

TryYield(s) ==
  IF s = "Ready_Reset_Reset" THEN Becomes("Yield_Reset_Reset", 1) ELSE Fails(s)

TrySleep(s) ==
  IF s = "Ready_Reset_Reset" THEN Becomes("Sleep_Reset_Reset", 1) ELSE Fails(s)

\* The worker has left the coroutine's stack.
TrySw(s) ==
  CASE s = "Yield_Reset_Reset" -> Becomes("Yield_Set_Reset", 1)
    [] s = "Yield_Break_Reset" -> Becomes("Ready_Reset_Reset", 0)
    [] s = "Sleep_Reset_Reset" -> Becomes("Sleep_Set_Reset", 2)
    [] s = "Sleep_Break_Reset" -> Becomes("Ready_Reset_Reset", 0)
    [] OTHER                   -> Fails(s)

TrySleepAdd(s) ==
  CASE s = "Sleep_Set_Reset" -> Becomes("Sleep_Set_Set", 1)
    [] s = "Sleep_Set_Break" -> Becomes("Ready_Reset_Reset", 0)
    [] OTHER                 -> Fails(s)

TrySleepRemove(s) ==
  IF s = "Sleep_Set_Remove" THEN Becomes("Ready_Reset_Reset", 0) ELSE Fails(s)

TrySleepTimeout(s) ==
  IF s = "Sleep_Set_Set" THEN Becomes("Ready_Reset_Reset", 0) ELSE Fails(s)

\* in_sleep(): the status field of the word is "sleep".
InSleep(s) == s \in SleepStatus
==============================================================================
