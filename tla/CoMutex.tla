-------------------------------- MODULE CoMutex --------------------------------
(***************************************************************************)
(* comutex on top of dco_futex and of the context's status word.           *)
(*                                                                         *)
(* lock() sets flag_; if it was set already the coroutine yields, and the  *)
(* callback of that yield, which runs before the coroutine is switched     *)
(* out, queues it and looks at flag_ again.  unlock() clears flag_ and     *)
(* resumes one coroutine of the queue, which then competes for flag_ with  *)
(* everybody else.                                                         *)
(*                                                                         *)
(* Any number of coroutines run at once (there are workers enough), a      *)
(* ready coroutine is run sooner or later (CoSched, CoPark), and only      *)
(* coroutines of this mutex resume each other.  The queue may give its     *)
(* elements in any order: the header promises none.                        *)
(***************************************************************************)
EXTENDS CoCtx, Integers

CONSTANTS Ctx, None

ASSUME NoneAssumption == None \notin Ctx

VARIABLES
  flag_, ctx_curr_, ctx_que_,
  status,    \* status[c]: the status word of c
  pc,        \* pc[c]: what c does next
  popped     \* popped[c]: the coroutine c has popped and is about to resume

vars == <<flag_, ctx_curr_, ctx_que_, status, pc, popped>>

\* lock() holds the mutex from the exchange that succeeds to the one in unlock.
HoldPC == {"own", "critical", "release"}

\* dco_futex::dco_wait: try_yield_full, and its callback up to the second look.
WaitPC == {"yield", "check", "push", "recheck"}

\* dco_futex::dco_notify, in that callback or in unlock.
NotifyPC == {"pop", "resume"}

PC == {"out", "try", "sw", "parked"} \cup HoldPC \cup WaitPC \cup NotifyPC

TypeOK ==
  /\ flag_ \in BOOLEAN
  /\ ctx_curr_ \in Ctx \cup {None}
  /\ ctx_que_ \in [Ctx -> Nat]
  /\ status \in [Ctx -> Status]
  /\ pc \in [Ctx -> PC]
  /\ popped \in [Ctx -> Ctx \cup {None}]

\* Every coroutine is running, outside of the mutex.
Init ==
  /\ flag_ = FALSE /\ ctx_curr_ = None
  /\ ctx_que_ = [c \in Ctx |-> 0]
  /\ status = [c \in Ctx |-> "Ready_Reset_Reset"]
  /\ pc = [c \in Ctx |-> "out"]
  /\ popped = [c \in Ctx |-> None]

------------------------------------------------------------------------------
From(c, p, q) == pc[c] = p /\ pc' = [pc EXCEPT ![c] = q]

SetStatus(c, step) == status' = [status EXCEPT ![c] = step.to]

\* The callback of dco_yield runs between try_yield_full and the switch; in
\* unlock the coroutine is running.
Waiting(c) == status[c] \in YieldStatus
AfterNotify(c) == IF Waiting(c) THEN "sw" ELSE "out"

(* lock() *)

Lock(c) ==
  /\ From(c, "out", "try")
  /\ UNCHANGED <<flag_, ctx_curr_, ctx_que_, status, popped>>

\* Mutant: the result of the exchange is not looked at.
TryLock_unchecked(c) ==
  /\ From(c, "try", "own")
  /\ flag_' = TRUE
  /\ UNCHANGED <<ctx_curr_, ctx_que_, status, popped>>

TryLock(c) ==
  /\ From(c, "try", IF flag_ THEN "yield" ELSE "own")
  /\ flag_' = TRUE
  /\ UNCHANGED <<ctx_curr_, ctx_que_, status, popped>>

Own(c) ==
  /\ From(c, "own", "critical")
  /\ ctx_curr_' = c
  /\ UNCHANGED <<flag_, ctx_que_, status, popped>>

(* dco_futex::dco_wait *)

\* Should try_yield_full fail, lock() would just try again.
dco_yield(c) ==
  LET step == TryYield(status[c])
  IN  /\ From(c, "yield", IF step.res < 0 THEN "try" ELSE "check")
      /\ SetStatus(c, step)
      /\ UNCHANGED <<flag_, ctx_curr_, ctx_que_, popped>>

\* Mutant: a coroutine that has resumed itself is queued nonetheless.
Check_no_return(c) ==
  /\ From(c, "check", "push")
  /\ IF flag_ THEN UNCHANGED status ELSE SetStatus(c, TryResume(status[c]))
  /\ UNCHANGED <<flag_, ctx_curr_, ctx_que_, popped>>

\* The lock is free again: c resumes itself.
Check(c) ==
  /\ From(c, "check", IF flag_ THEN "push" ELSE "resume")
  /\ popped' = [popped EXCEPT ![c] = IF flag_ THEN None ELSE c]
  /\ UNCHANGED <<flag_, ctx_curr_, ctx_que_, status>>

Push(c) ==
  /\ From(c, "push", "recheck")
  /\ ctx_que_' = [ctx_que_ EXCEPT ![c] = @ + 1]
  /\ UNCHANGED <<flag_, ctx_curr_, status, popped>>

\* Mutant: no second look.
Recheck_skipped(c) ==
  /\ From(c, "recheck", "sw")
  /\ UNCHANGED <<flag_, ctx_curr_, ctx_que_, status, popped>>

Recheck(c) ==
  /\ From(c, "recheck", IF flag_ THEN "sw" ELSE "pop")
  /\ UNCHANGED <<flag_, ctx_curr_, ctx_que_, status, popped>>

(* The scheduler: in_dco_sw when the callback is over, swin_ when c is ready *)

Switch(c) ==
  /\ From(c, "sw", "parked")
  /\ SetStatus(c, TrySw(status[c]))
  /\ UNCHANGED <<flag_, ctx_curr_, ctx_que_, popped>>

Run(c) ==
  /\ From(c, "parked", "try")
  /\ status[c] = "Ready_Reset_Reset"
  /\ UNCHANGED <<flag_, ctx_curr_, ctx_que_, status, popped>>

(* unlock() *)

Unlock(c) ==
  /\ From(c, "critical", IF ctx_curr_ = c THEN "release" ELSE "out")
  /\ UNCHANGED <<flag_, ctx_curr_, ctx_que_, status, popped>>

\* Mutant: nobody is notified.
Release_silent(c) ==
  /\ From(c, "release", "out")
  /\ flag_' = FALSE
  /\ UNCHANGED <<ctx_curr_, ctx_que_, status, popped>>

Release(c) ==
  /\ From(c, "release", IF flag_ THEN "pop" ELSE "out")
  /\ flag_' = FALSE
  /\ UNCHANGED <<ctx_curr_, ctx_que_, status, popped>>

(* dco_futex::dco_notify *)

Pop(c, d) ==
  /\ From(c, "pop", "resume")
  /\ ctx_que_[d] > 0
  /\ ctx_que_' = [ctx_que_ EXCEPT ![d] = @ - 1]
  /\ popped' = [popped EXCEPT ![c] = d]
  /\ UNCHANGED <<flag_, ctx_curr_, status>>

PopNothing(c) ==
  /\ From(c, "pop", AfterNotify(c))
  /\ \A d \in Ctx : ctx_que_[d] = 0
  /\ UNCHANGED <<flag_, ctx_curr_, ctx_que_, status, popped>>

Resume(c) ==
  /\ From(c, "resume", AfterNotify(c))
  /\ SetStatus(popped[c], TryResume(status[popped[c]]))
  /\ popped' = [popped EXCEPT ![c] = None]
  /\ UNCHANGED <<flag_, ctx_curr_, ctx_que_>>

------------------------------------------------------------------------------
\* Everything but asking for the lock, which nobody has to.
Step(c) ==
  \/ TryLock(c) \/ Own(c)
  \/ dco_yield(c) \/ Check(c) \/ Push(c) \/ Recheck(c) \/ Switch(c) \/ Run(c)
  \/ Unlock(c) \/ Release(c)
  \/ \E d \in Ctx : Pop(c, d)
  \/ PopNothing(c) \/ Resume(c)

Next == \E c \in Ctx : Lock(c) \/ Step(c)

Spec == Init /\ [][Next]_vars

(* Workers run what is ready, and who holds the lock gives it back.            *)
Fairness == \A c \in Ctx : WF_vars(Step(c))

FairSpec == Spec /\ Fairness

------------------------------------------------------------------------------
(* Properties *)

Holding(c) == pc[c] \in HoldPC

\* c has asked for the lock and does not hold it yet.
Asking(c) ==
  \/ pc[c] \in {"try", "sw", "parked"} \cup WaitPC
  \/ pc[c] \in NotifyPC /\ Waiting(c)

(* Whoever is about to unlock finds its own name in ctx_curr_ and the flag up, *)
(* although ctx_curr_ is written after the exchange that takes the lock and is *)
(* never cleared: unlock() never refuses its owner.                            *)
OwnerKnown ==
  \A c \in Ctx : pc[c] \in {"critical", "release"} => ctx_curr_ = c /\ flag_

(* The wake-ups of c: its entries in the queue and the notifiers that have     *)
(* popped it.                                                                  *)
Resumers(c) == {d \in Ctx : pc[d] = "resume" /\ popped[d] = c}

(* A coroutine has at most one wake-up coming; the wake-up always finds it in  *)
(* a state that dco_resume accepts, so none is wasted on a coroutine that has  *)
(* moved on; and no coroutine is switched out without one.                     *)
OneWakeUp ==
  \A c \in Ctx :
    /\ ctx_que_[c] <= 1
    /\ ctx_que_[c] = 1 => Resumers(c) = {}
    /\ \A d, e \in Resumers(c) : d = e
    /\ ctx_que_[c] = 1 \/ Resumers(c) # {} => TryResume(status[c]).res >= 0
    /\ pc[c] = "parked" /\ status[c] # "Ready_Reset_Reset" =>
         ctx_que_[c] = 1 \/ Resumers(c) # {}

(* c will look at flag_ before it is switched out for good, or is bound to     *)
(* resume somebody who will.                                                   *)
WillLook(c) ==
  \/ pc[c] \in {"try"} \cup WaitPC \cup NotifyPC
  \/ pc[c] \in {"sw", "parked"} /\ status[c] \in {"Yield_Break_Reset", "Ready_Reset_Reset"}

(* While coroutines are queued, a free lock is never left to itself: the       *)
(* second look at flag_, after the push, closes the window between the first   *)
(* one and the push.                                                           *)
FreeLockSeen ==
  ~flag_ /\ (\E c \in Ctx : ctx_que_[c] > 0) => \E d \in Ctx : WillLook(d)

(* So as long as somebody asks for the lock, somebody gets it, again and again *)
(* (not everybody: a newcomer may overtake those who wait, for ever).          *)
LockProgress == (\E c \in Ctx : Asking(c)) ~> (\E d \in Ctx : pc[d] = "own")

(* comutex is a mutex: the lock is CoLock's.                                   *)
Owner == IF \E c \in Ctx : Holding(c) THEN CHOOSE c \in Ctx : Holding(c) ELSE None

Mutex == INSTANCE CoLock WITH
  owner <- Owner,
  waiting <- {c \in Ctx : Asking(c)}

ImplementsLock == Mutex!Spec
===============================================================================
