-------------------------------- MODULE CoCond --------------------------------
(***************************************************************************)
(* cocondvariable: a list of coroutines that wait, with or without a       *)
(* timeout, until a predicate holds that a mutex protects.  A waiter       *)
(* queues itself and then releases the mutex, both in the callback of its  *)
(* own yield or sleep, when it has not left its stack yet, and takes the   *)
(* mutex again when it runs.                                               *)
(*                                                                         *)
(* The mutex is the one CoLock specifies: CoMutex shows that comutex       *)
(* implements it.  The predicate is the callers': consumers wait for an    *)
(* item or for the end, which producers bring about under the mutex.       *)
(***************************************************************************)
EXTENDS CoWaitList

CONSTANTS
  CondQue,   \* the list of the condition variable
  MaxItems   \* bound: producers wait below it

ASSUME CondAssumption == CondQue \in List /\ MaxItems \in Nat

VARIABLES
  owner,     \* who holds the mutex
  items, end,
  condSpent, \* items whose notify met a coroutine that had timed out
  cut        \* notify_all stopped at one, and none has gone through since

spentVars == <<condSpent, cut>>
condVars == <<owner, items, end, spentVars>>

CondPC == {"test", "unlock", "relock", "return", "timeout", "cond_notify", "notify_all"}

CondTypeOK ==
  /\ owner \in Ctx \cup {None}
  /\ items \in 0 .. MaxItems /\ end \in BOOLEAN
  /\ condSpent \in 0 .. items /\ cut \in BOOLEAN

CondInit == owner = None /\ items = 0 /\ end = FALSE /\ condSpent = 0 /\ cut = FALSE

Cond == items > 0 \/ end

Acquire(c) == owner = None /\ owner' = c

------------------------------------------------------------------------------
(* wait and wait_until *)

\* The caller takes the mutex and calls.
CondWait(c) ==
  /\ Acquire(c)
  /\ Move(c, "out", "test")
  /\ on' = [on EXCEPT ![c] = CondQue]
  /\ UNCHANGED <<items, end, spentVars>>

Test(c) ==
  /\ pc[c] = "test"
  /\ IF Cond THEN Move(c, "test", "return") /\ UNCHANGED on
     ELSE SuspendSelf(c, "test", "push", "return")
  /\ UNCHANGED condVars

CondPush(c) == on[c] = CondQue /\ PushSelf(c, "unlock") /\ UNCHANGED condVars

Unlock(c) ==
  /\ Move(c, "unlock", "sw")
  /\ owner' = None
  /\ UNCHANGED <<on, items, end, spentVars>>

\* Mutant: wait for a wake-up instead of waiting for the predicate.
Relock_no_loop(c) ==
  /\ on[c] = CondQue
  /\ Acquire(c)
  /\ Move(c, "woken", "return")
  /\ UNCHANGED <<on, items, end, spentVars>>

Relock(c) ==
  /\ on[c] = CondQue
  /\ Acquire(c)
  /\ Move(c, "woken", "test")
  /\ UNCHANGED <<on, items, end, spentVars>>

CondTimedOut(c) ==
  /\ on[c] = CondQue
  /\ RemoveSelf(c, "relock")
  /\ UNCHANGED <<on, condVars>>

RelockTimedOut(c) ==
  /\ Acquire(c)
  /\ Move(c, "relock", "timeout")
  /\ UNCHANGED <<on, items, end, spentVars>>

\* The call returned 1 or 0: the caller takes an item if it may and unlocks.
Consume(c) ==
  /\ pc[c] \in {"return", "timeout"}
  /\ Move(c, pc[c], "out")
  /\ items' = IF pc[c] = "return" /\ ~end THEN items - 1 ELSE items
  /\ owner' = None
  /\ on' = [on EXCEPT ![c] = None]
  /\ UNCHANGED <<end, cut>>
  /\ condSpent' = IF condSpent < items' THEN condSpent ELSE items'

------------------------------------------------------------------------------
(* notify and notify_all, after a critical section *)

Produce(c) ==
  /\ owner = None
  /\ items < MaxItems /\ items' = items + 1
  /\ Move(c, "out", "cond_notify")
  /\ UNCHANGED <<on, owner, end, spentVars>>

CondNotify(c) ==
  /\ From(c, "cond_notify", "out")
  /\ PopResume(CondQue)
  /\ condSpent' = IF Missed(CondQue) /\ condSpent < items THEN condSpent + 1 ELSE condSpent
  /\ UNCHANGED <<timed_out, on, owner, items, end, cut>>

Finish(c) ==
  /\ owner = None
  /\ end' = TRUE
  /\ Move(c, "out", "notify_all")
  /\ UNCHANGED <<on, owner, items, spentVars>>

\* Mutant: one waiter is woken up.
NotifyAll_one(c) ==
  /\ From(c, "notify_all", "out")
  /\ PopResume(CondQue)
  /\ cut' = Missed(CondQue)
  /\ UNCHANGED <<timed_out, on, owner, items, end, condSpent>>

\* It stops when nobody is left, and also when a resume fails.
NotifyAll(c) ==
  /\ From(c, "notify_all", IF head_[CondQue] = None \/ Missed(CondQue)
                           THEN "out" ELSE "notify_all")
  /\ PopResume(CondQue)
  /\ cut' = (head_[CondQue] # None /\ (cut \/ Missed(CondQue)))
  /\ UNCHANGED <<timed_out, on, owner, items, end, condSpent>>

CondStep(c) ==
  \/ CondWait(c) \/ Test(c) \/ CondPush(c) \/ Unlock(c) \/ Relock(c)
  \/ CondTimedOut(c) \/ RelockTimedOut(c) \/ Consume(c)
  \/ Produce(c) \/ CondNotify(c) \/ Finish(c) \/ NotifyAll(c)

------------------------------------------------------------------------------
(* Properties *)

(* No wake-up is lost between the release of the mutex and the sleep: when     *)
(* nobody is on his way and somebody sleeps on the condition variable, each    *)
(* item left stands for a notify that met a node whose coroutine had just      *)
(* timed out, and costs no other wake-up than its own.  After the end nobody   *)
(* sleeps at all, unless notify_all stopped at such a node                     *)
(* (cocondvariable.cpp:83) and was not called again.                           *)
CondFound ==
  Quiet /\ (IF end THEN ~cut ELSE items > condSpent) => Listed(CondQue) = {}

(* wait returns with the mutex held, timed out or not, and if it was not then  *)
(* the predicate holds; and the mutex that the callback of the sleep releases  *)
(* is still its caller's, although it may have been resumed before.            *)
CondHolds ==
  \A c \in Ctx :
    /\ pc[c] \in {"test", "return", "timeout", "unlock"} => owner = c
    /\ pc[c] = "push" /\ on[c] = CondQue => owner = c
    /\ pc[c] = "return" => Cond
===============================================================================
