------------------------------ MODULE CoSemaphore ------------------------------
(***************************************************************************)
(* cosemaphore, a counting semaphore of coroutines, and dco_futex::dco_wait *)
(* on its count.  wait() takes a permit or yields; the callback of the     *)
(* yield, which runs before the coroutine is switched out, looks at sem_,  *)
(* queues the coroutine and looks again.  notify() adds a permit and then  *)
(* resumes one coroutine of the queue, which competes for the permit with  *)
(* everybody else.                                                         *)
(*                                                                         *)
(* The module models a set of semaphores and is extended by what uses      *)
(* them.  A ready coroutine is run sooner or later (CoSched, CoPark), only *)
(* the users of a semaphore resume its waiters, and the queue may give its *)
(* elements in any order: cocasque promises none.                          *)
(***************************************************************************)
EXTENDS CoCtx, Integers, FiniteSets

CONSTANTS
  Ctx,     \* coroutines
  None,
  Sem      \* semaphores

ASSUME NoneAssumption == None \notin Ctx

VARIABLES
  sem_,      \* sem_[s]: permits of s
  ctx_que_,  \* ctx_que_[s][c]: how many times c is in the queue of s
  status,    \* status[c]: the status word of c
  pc,        \* pc[c]: what c does next
  on,        \* on[c]: the semaphore c has called
  ret,       \* ret[c]: where c goes on when the call returns
  popped     \* popped[c]: the coroutine c is about to resume

semVars == <<sem_, ctx_que_, status, pc, on, ret, popped>>

\* cosemaphore::wait and the callback of its yield; dco_futex::dco_notify.
WaitPC == {"dec", "yield", "check", "push", "recheck"}
NotifyPC == {"pop", "resume"}
SemPC == WaitPC \cup NotifyPC \cup {"inc", "sw", "parked"}

SemTypeOK(UserPC) ==
  /\ sem_ \in [Sem -> Nat]
  /\ ctx_que_ \in [Sem -> [Ctx -> Nat]]
  /\ status \in [Ctx -> Status]
  /\ pc \in [Ctx -> SemPC \cup UserPC]
  /\ on \in [Ctx -> Sem \cup {None}]
  /\ ret \in [Ctx -> UserPC]
  /\ popped \in [Ctx -> Ctx \cup {None}]

\* Every coroutine is running, in its own code.
SemInit ==
  /\ sem_ = [s \in Sem |-> 0]
  /\ ctx_que_ = [s \in Sem |-> [c \in Ctx |-> 0]]
  /\ status = [c \in Ctx |-> "Ready_Reset_Reset"]
  /\ pc = [c \in Ctx |-> "out"]
  /\ on = [c \in Ctx |-> None]
  /\ ret = [c \in Ctx |-> "out"]
  /\ popped = [c \in Ctx |-> None]

------------------------------------------------------------------------------
From(c, p, q) == pc[c] = p /\ pc' = [pc EXCEPT ![c] = q]

SetStatus(c, step) == status' = [status EXCEPT ![c] = step.to]

\* A call of wait() or notify() from p, that goes on at r.
Call(c, p, entry, s, r) ==
  /\ From(c, p, entry)
  /\ on' = [on EXCEPT ![c] = s]
  /\ ret' = [ret EXCEPT ![c] = r]
  /\ UNCHANGED <<sem_, ctx_que_, status, popped>>

CallWait(c, p, s, r) == Call(c, p, "dec", s, r)
CallNotify(c, p, s, r) == Call(c, p, "inc", s, r)

Return(c) ==
  /\ pc' = [pc EXCEPT ![c] = ret[c]]
  /\ ret' = [ret EXCEPT ![c] = "out"]
  /\ on' = [on EXCEPT ![c] = None]

\* The callback of a yield runs between try_yield_full and the switch.
Waiting(c) == status[c] \in YieldStatus

\* dco_notify returns to the switch, or to the caller of notify().
NotifyDone(c) ==
  IF Waiting(c) THEN pc' = [pc EXCEPT ![c] = "sw"] /\ UNCHANGED <<on, ret>>
  ELSE Return(c)

(* wait() *)

\* atomic_decrement_if_positive(sem_, 0, 1)
Dec(c) ==
  LET s == on[c]
  IN  /\ pc[c] = "dec"
      /\ IF sem_[s] > 0
         THEN sem_' = [sem_ EXCEPT ![s] = @ - 1] /\ Return(c)
         ELSE From(c, "dec", "yield") /\ UNCHANGED <<sem_, on, ret>>
      /\ UNCHANGED <<ctx_que_, status, popped>>

\* Should try_yield_full fail, wait() would just try again.
dco_yield(c) ==
  LET step == TryYield(status[c])
  IN  /\ From(c, "yield", IF step.res < 0 THEN "dec" ELSE "check")
      /\ SetStatus(c, step)
      /\ UNCHANGED <<sem_, ctx_que_, on, ret, popped>>

\* Mutant: a coroutine that has resumed itself is queued nonetheless.
Check_no_return(c) ==
  /\ From(c, "check", "push")
  /\ IF sem_[on[c]] > 0 THEN SetStatus(c, TryResume(status[c])) ELSE UNCHANGED status
  /\ UNCHANGED <<sem_, ctx_que_, on, ret, popped>>

\* There is a permit again: c resumes itself.
Check(c) ==
  /\ From(c, "check", IF sem_[on[c]] > 0 THEN "resume" ELSE "push")
  /\ popped' = [popped EXCEPT ![c] = IF sem_[on[c]] > 0 THEN c ELSE None]
  /\ UNCHANGED <<sem_, ctx_que_, status, on, ret>>

Push(c) ==
  /\ From(c, "push", "recheck")
  /\ ctx_que_' = [ctx_que_ EXCEPT ![on[c]][c] = @ + 1]
  /\ UNCHANGED <<sem_, status, on, ret, popped>>

\* Mutant: no second look.
Recheck_skipped(c) ==
  /\ From(c, "recheck", "sw")
  /\ UNCHANGED <<sem_, ctx_que_, status, on, ret, popped>>

Recheck(c) ==
  /\ From(c, "recheck", IF sem_[on[c]] > 0 THEN "pop" ELSE "sw")
  /\ UNCHANGED <<sem_, ctx_que_, status, on, ret, popped>>

\* The scheduler: in_dco_sw when the callback is over, swin_ when c is ready.
Switch(c) ==
  /\ From(c, "sw", "parked")
  /\ SetStatus(c, TrySw(status[c]))
  /\ UNCHANGED <<sem_, ctx_que_, on, ret, popped>>

Run(c) ==
  /\ From(c, "parked", "dec")
  /\ status[c] = "Ready_Reset_Reset"
  /\ UNCHANGED <<sem_, ctx_que_, status, on, ret, popped>>

(* notify() *)

Inc(c) ==
  /\ From(c, "inc", "pop")
  /\ sem_' = [sem_ EXCEPT ![on[c]] = @ + 1]
  /\ UNCHANGED <<ctx_que_, status, on, ret, popped>>

Pop(c, d) ==
  /\ From(c, "pop", "resume")
  /\ ctx_que_[on[c]][d] > 0
  /\ ctx_que_' = [ctx_que_ EXCEPT ![on[c]][d] = @ - 1]
  /\ popped' = [popped EXCEPT ![c] = d]
  /\ UNCHANGED <<sem_, status, on, ret>>

PopNothing(c) ==
  /\ pc[c] = "pop"
  /\ \A d \in Ctx : ctx_que_[on[c]][d] = 0
  /\ NotifyDone(c)
  /\ UNCHANGED <<sem_, ctx_que_, status, popped>>

Resume(c) ==
  /\ pc[c] = "resume"
  /\ SetStatus(popped[c], TryResume(status[popped[c]]))
  /\ NotifyDone(c)
  /\ popped' = [popped EXCEPT ![c] = None]
  /\ UNCHANGED <<sem_, ctx_que_>>

SemStep(c) ==
  \/ Dec(c) \/ dco_yield(c) \/ Check(c) \/ Push(c) \/ Recheck(c)
  \/ Switch(c) \/ Run(c)
  \/ Inc(c) \/ PopNothing(c) \/ Resume(c)
  \/ \E d \in Ctx : Pop(c, d)

------------------------------------------------------------------------------
(* Properties *)

Queued(s) == {c \in Ctx : ctx_que_[s][c] > 0}

\* c will look at sem_[s] before it is switched out for good, or is bound to
\* resume somebody who will.
Looking(s) ==
  {c \in Ctx : /\ on[c] = s
               /\ \/ pc[c] \in WaitPC \cup NotifyPC
                  \/ /\ pc[c] \in {"sw", "parked"}
                     /\ status[c] \in {"Yield_Break_Reset", "Ready_Reset_Reset"}}

(* Permits are never left lying while coroutines wait for them: for every      *)
(* permit that a queued coroutine could take, somebody is going to look,       *)
(* however the permits, the queue and the status words, which are all changed  *)
(* separately, were interleaved.                                               *)
PermitsSeen ==
  \A s \in Sem :
    LET n == Cardinality(Queued(s))
        m == Cardinality(Looking(s))
    IN  m < n => sem_[s] <= m

(* A coroutine has at most one wake-up coming, the wake-up finds it in a state *)
(* dco_resume accepts, and no coroutine is switched out without one.           *)
Resumers(c) == {d \in Ctx : pc[d] = "resume" /\ popped[d] = c}

OneWakeUp ==
  \A c \in Ctx :
    LET woken == Resumers(c) # {}
        queues == {s \in Sem : ctx_que_[s][c] > 0}
    IN  /\ queues \subseteq {on[c]}
        /\ \A s \in queues : ctx_que_[s][c] = 1 /\ ~woken
        /\ \A d, e \in Resumers(c) : d = e
        /\ queues # {} \/ woken => TryResume(status[c]).res >= 0
        /\ pc[c] = "parked" /\ status[c] # "Ready_Reset_Reset" => queues # {} \/ woken
===============================================================================
