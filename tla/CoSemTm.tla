-------------------------------- MODULE CoSemTm --------------------------------
(***************************************************************************)
(* cosemaphore_tm: a count of permits and a list of coroutines, some of    *)
(* which wait only until a time.  wait and wait_until take a permit or     *)
(* else queue themselves, look at the count again, and try again when they *)
(* are woken up; notify adds a permit and wakes up one coroutine.          *)
(***************************************************************************)
EXTENDS CoWaitList

CONSTANTS
  SemQue,   \* the list of the semaphore
  MaxSem    \* bound: notify is called below it

ASSUME SemAssumption == SemQue \in List /\ MaxSem \in Nat

VARIABLES
  sem_,
  semSpent  \* permits whose wake-up met a coroutine that had timed out

semVars == <<sem_, semSpent>>

SemPC == {"dec", "sem_wait", "sem_check", "sem_again", "sem_self", "sem_notify"}

SemTypeOK == sem_ \in 0 .. MaxSem /\ semSpent \in 0 .. sem_

SemInit == sem_ = 0 /\ semSpent = 0

\* dco_notify on the list, and whether it was spent on nobody.
SemPop ==
  /\ PopResume(SemQue)
  /\ semSpent' = IF Missed(SemQue) /\ semSpent < sem_ THEN semSpent + 1 ELSE semSpent

SemWait(c) ==
  /\ Move(c, "out", "dec")
  /\ on' = [on EXCEPT ![c] = SemQue]
  /\ UNCHANGED semVars

\* atomic_decrement_if_positive: a permit, and the call returns 1.
Dec(c) ==
  /\ sem_ > 0
  /\ Move(c, "dec", "out")
  /\ sem_' = sem_ - 1
  /\ semSpent' = IF semSpent < sem_ THEN semSpent ELSE semSpent - 1
  /\ on' = [on EXCEPT ![c] = None]

DecFails(c) ==
  /\ sem_ = 0
  /\ Move(c, "dec", "sem_wait")
  /\ UNCHANGED <<on, semVars>>

SemSuspend(c) == SuspendSelf(c, "sem_wait", "sem_check", "dec") /\ UNCHANGED semVars
SemCheck(c) == Look(c, "sem_check", sem_ > 0, "push") /\ UNCHANGED semVars
SemPush(c) == on[c] = SemQue /\ PushSelf(c, "sem_again") /\ UNCHANGED semVars

\* Mutant: no second look at the count.
SemAgain_skipped(c) == Move(c, "sem_again", "sw") /\ UNCHANGED <<on, semVars>>

SemAgain(c) ==
  /\ Move(c, "sem_again", IF sem_ > 0 THEN "sem_self" ELSE "sw")
  /\ UNCHANGED <<on, semVars>>

SemSelf(c) ==
  /\ From(c, "sem_self", "sw")
  /\ SemPop
  /\ UNCHANGED <<timed_out, on, sem_>>

SemWoken(c) ==
  /\ on[c] = SemQue
  /\ Move(c, "woken", "dec")
  /\ UNCHANGED <<on, semVars>>

\* The call returns 0.
SemTimedOut(c) ==
  /\ on[c] = SemQue
  /\ RemoveSelf(c, "out")
  /\ on' = [on EXCEPT ![c] = None]
  /\ UNCHANGED semVars

SemNotify(c) ==
  /\ sem_ < MaxSem
  /\ Move(c, "out", "sem_notify")
  /\ sem_' = sem_ + 1
  /\ UNCHANGED <<on, semSpent>>

SemWakeOne(c) ==
  /\ From(c, "sem_notify", "out")
  /\ SemPop
  /\ UNCHANGED <<timed_out, on, sem_>>

SemStep(c) ==
  \/ SemWait(c) \/ Dec(c) \/ DecFails(c)
  \/ SemSuspend(c) \/ SemCheck(c) \/ SemPush(c) \/ SemAgain(c) \/ SemSelf(c)
  \/ SemWoken(c) \/ SemTimedOut(c) \/ SemNotify(c) \/ SemWakeOne(c)

------------------------------------------------------------------------------
(* Properties *)

(* No permit is overlooked but those whose wake-up was spent: when nobody is   *)
(* on his way and somebody sleeps on the semaphore, each permit left stands    *)
(* for a notify that met a node whose coroutine had just timed out, a case the *)
(* comment at cofutex.h:173 admits.  Such a notify costs that one wake-up and  *)
(* never another one, and the waiters' two looks, before and after the push,   *)
(* miss nothing.                                                               *)
PermitsFound == Quiet /\ sem_ > semSpent => Listed(SemQue) = {}
===============================================================================
