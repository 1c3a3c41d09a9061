-------------------------------- MODULE CoPark --------------------------------
(***************************************************************************)
(* How worker threads go to sleep and are woken up: coworker::dco_get_next *)
(* with the wake-up protocol of coschedule (in_dco_wait_worker and         *)
(* in_dco_call_worker) and the thread semaphores.                          *)
(*                                                                         *)
(* A worker that finds the ready queue empty lists itself in worker_wait_  *)
(* and waits for its semaphore.  Who queues a context takes a worker off   *)
(* that list and posts its semaphore; if the list is empty he leaves a     *)
(* note in sem_ for the next worker that lists itself.  The run_ and wait_ *)
(* flags of a worker are meant to keep it listed at most once.  Every      *)
(* atomic operation is a step of its own.                                  *)
(*                                                                         *)
(* Contexts are only counted: where each of them is, is CoSched's subject. *)
(* What a coroutine does while it runs is any sequence of calls.           *)
(***************************************************************************)
EXTENDS Integers, FiniteSets

CONSTANTS
  size,       \* number of workers
  External,   \* threads that are not workers, such as the epoll loop
  Jobs,       \* number of contexts
  SemInit     \* the values sem_ may have before anybody writes it

ASSUME SizeAssumption == size \in Nat \ {0}
ASSUME JobsAssumption == Jobs \in Nat
ASSUME SemAssumption == SemInit \subseteq Int

Worker == 0 .. size - 1
Thread == Worker \cup External

ASSUME ExternalAssumption == External \cap Worker = {}

VARIABLES
  idle,         \* contexts that wait for somebody to resume them
  ctx_que_,     \* contexts in the ready queue
  time_wait_,   \* time_wait_[w]: contexts with a timer in the heap of w
  time_remove_, \* time_remove_[w]: those of them that were resumed
  timed,        \* timed[w]: w waits for its semaphore no longer than a timer
  worker_wait_, \* worker_wait_[w]: how many times w is listed as waiting
  run_, wait_,  \* the flags of each worker
  wsem,         \* wsem[w]: the value of the semaphore of w
  sem_,         \* wake-ups left for workers that are about to be listed
  pc,           \* pc[t]: what thread t does next
  ret,          \* ret[t]: what it does after the call it is in
  tid           \* tid[t]: the worker t is waking up

jobVars == <<idle, ctx_que_, time_wait_, time_remove_>>
flagVars == <<worker_wait_, run_, wait_, sem_>>
vars == <<jobVars, timed, flagVars, wsem, pc, ret, tid>>

\* in_dco_call_worker, up to the semaphore, and semaphore::try_notify.
CallPC == {"call_pop", "call_inc", "call_run", "call_wait"}
NotifyPC == {"notify", "post"}

\* dco_sleep_resume: the push, then semaphore::try_notify.
HandPC == {"hand"} \cup NotifyPC

\* dco_get_next: dco_time_proc, the pop, in_dco_wait_worker, the wait.
ListingPC == {"wait_ex", "run_ex", "push", "token"}
LoopPC == {"remove", "timeout", "pop", "sleep"} \cup ListingPC

\* User code: a coroutine on a worker, or a thread of its own.
UserPC == {"work", "out"}

PC == CallPC \cup HandPC \cup LoopPC \cup UserPC

\* Where a call of the scheduler goes on when it returns.
RetPC == {"remove", "timeout", "sleep"} \cup UserPC

TypeOK ==
  /\ idle \in Nat /\ ctx_que_ \in Nat
  /\ time_wait_ \in [Worker -> Nat] /\ time_remove_ \in [Worker -> Nat]
  /\ timed \in [Worker -> BOOLEAN]
  /\ worker_wait_ \in [Worker -> Nat]
  /\ run_ \in [Worker -> BOOLEAN] /\ wait_ \in [Worker -> BOOLEAN]
  /\ wsem \in [Worker -> Nat]
  /\ sem_ \in Int
  /\ pc \in [Thread -> PC] /\ ret \in [Thread -> RetPC]
  /\ tid \in [Thread -> Worker]

\* coschedule's constructor: every worker is listed before its thread starts.
\* It does not initialise sem_.
Init ==
  /\ idle = Jobs /\ ctx_que_ = 0
  /\ time_wait_ = [w \in Worker |-> 0] /\ time_remove_ = [w \in Worker |-> 0]
  /\ timed = [w \in Worker |-> FALSE]
  /\ worker_wait_ = [w \in Worker |-> 1]
  /\ run_ = [w \in Worker |-> FALSE] /\ wait_ = [w \in Worker |-> TRUE]
  /\ wsem = [w \in Worker |-> 0]
  /\ sem_ \in SemInit
  /\ pc = [t \in Thread |-> IF t \in Worker THEN "remove" ELSE "out"]
  /\ ret = [t \in Thread |-> "out"]
  /\ tid = [t \in Thread |-> 0]

------------------------------------------------------------------------------
(* Helpers *)

Goto(t, p) == pc' = [pc EXCEPT ![t] = p]
From(t, p, q) == pc[t] = p /\ Goto(t, q)

\* The locals of a call end with it.
Return(t) ==
  /\ Goto(t, ret[t])
  /\ ret' = [ret EXCEPT ![t] = "out"]
  /\ tid' = [tid EXCEPT ![t] = 0]

Inc(f, w) == [f EXCEPT ![w] = @ + 1]
Dec(f, w) == [f EXCEPT ![w] = @ - 1]

\* in_dco_add_que: push a context, then call a worker, then go on at p.
AddQue(t, p) ==
  /\ ctx_que_' = ctx_que_ + 1
  /\ Goto(t, "call_pop")
  /\ ret' = [ret EXCEPT ![t] = p]

\* The threads that hand a resumed sleeper over to w, that have taken w off
\* the list, and that are about to post its semaphore.
At(P, w) == {t \in Thread : pc[t] \in P /\ tid[t] = w}
Handing(w) == At({"hand"}, w)
Calling(w) == At({"call_run", "call_wait"}, w)
Notifying(w) == At(NotifyPC, w)

\* The value of an empty list is never read: every count is zero.
NobodyListed == \A w \in Worker : worker_wait_[w] = 0

------------------------------------------------------------------------------
(* in_dco_call_worker *)

CallPop(t, w) ==
  /\ From(t, "call_pop", "call_run")
  /\ worker_wait_[w] > 0
  /\ worker_wait_' = Dec(worker_wait_, w)
  /\ tid' = [tid EXCEPT ![t] = w]
  /\ UNCHANGED <<jobVars, timed, run_, wait_, sem_, wsem, ret>>

CallPopEmpty(t) ==
  /\ From(t, "call_pop", "call_inc")
  /\ NobodyListed
  /\ UNCHANGED <<jobVars, timed, flagVars, wsem, ret, tid>>

\* atomic_increase_if_positive(sem_, workers_.size(), 1)
CallInc(t) ==
  /\ pc[t] = "call_inc"
  /\ sem_' = IF sem_ < size THEN sem_ + 1 ELSE sem_
  /\ Return(t)
  /\ UNCHANGED <<jobVars, timed, worker_wait_, run_, wait_, wsem>>

\* A worker that was running already is left alone, and another one taken.
CallRun(t) ==
  /\ From(t, "call_run", IF run_[tid[t]] THEN "call_pop" ELSE "call_wait")
  /\ run_' = [run_ EXCEPT ![tid[t]] = TRUE]
  /\ UNCHANGED <<jobVars, timed, worker_wait_, wait_, sem_, wsem, ret, tid>>

CallWait(t) ==
  /\ From(t, "call_wait", "notify")
  /\ wait_' = [wait_ EXCEPT ![tid[t]] = FALSE]
  /\ UNCHANGED <<jobVars, timed, worker_wait_, run_, sem_, wsem, ret, tid>>

\* Mutant: the comparison with the maximum is off by one.
Notify_off_by_one(t) ==
  /\ pc[t] = "notify"
  /\ IF wsem[tid[t]] < 0
     THEN Goto(t, "post") /\ UNCHANGED <<ret, tid>>
     ELSE Return(t)
  /\ UNCHANGED <<jobVars, timed, flagVars, wsem>>

\* semaphore::try_notify: post unless the value just read is the maximum, 1.
Notify(t) ==
  /\ pc[t] = "notify"
  /\ IF wsem[tid[t]] < 1
     THEN Goto(t, "post") /\ UNCHANGED <<ret, tid>>
     ELSE Return(t)
  /\ UNCHANGED <<jobVars, timed, flagVars, wsem>>

Post(t) ==
  /\ pc[t] = "post"
  /\ wsem' = Inc(wsem, tid[t])
  /\ Return(t)
  /\ UNCHANGED <<jobVars, timed, flagVars>>

------------------------------------------------------------------------------
(* dco_get_next *)

\* dco_time_proc: a resumed sleeper, then the timers that have expired, then
\* whether a timer is left in the heap.
TimeRemove(w) ==
  /\ pc[w] = "remove"
  /\ time_remove_[w] > 0
  /\ time_remove_' = Dec(time_remove_, w)
  /\ AddQue(w, "remove")
  /\ UNCHANGED <<idle, time_wait_, timed, flagVars, wsem, tid>>

RemoveDone(w) ==
  /\ From(w, "remove", "timeout")
  /\ time_remove_[w] = 0
  /\ UNCHANGED <<jobVars, timed, flagVars, wsem, ret, tid>>

Expire(w) ==
  /\ pc[w] = "timeout"
  /\ time_wait_[w] > 0
  /\ time_wait_' = Dec(time_wait_, w)
  /\ AddQue(w, "timeout")
  /\ UNCHANGED <<idle, time_remove_, timed, flagVars, wsem, tid>>

\* A resumed sleeper stays in the heap until it is removed or expires there.
TimeoutDone(w) ==
  /\ From(w, "timeout", "pop")
  /\ \E left \in BOOLEAN :
        /\ time_wait_[w] > 0 => left
        /\ left => time_wait_[w] + time_remove_[w] > 0 \/ Handing(w) # {}
        /\ timed' = [timed EXCEPT ![w] = left]
  /\ UNCHANGED <<jobVars, flagVars, wsem, ret, tid>>

\* timewait is a local of the turn of the loop that ends here or in a wait.
GetNext(w) ==
  /\ From(w, "pop", "work")
  /\ ctx_que_ > 0
  /\ ctx_que_' = ctx_que_ - 1
  /\ timed' = [timed EXCEPT ![w] = FALSE]
  /\ UNCHANGED <<idle, time_wait_, time_remove_, flagVars, wsem, ret, tid>>

GetNothing(w) ==
  /\ From(w, "pop", "wait_ex")
  /\ ctx_que_ = 0
  /\ UNCHANGED <<jobVars, timed, flagVars, wsem, ret, tid>>

\* Mutant: the result of wait_.exchange is not looked at.
WaitExchange_always(w) ==
  /\ From(w, "wait_ex", "run_ex")
  /\ wait_' = [wait_ EXCEPT ![w] = TRUE]
  /\ UNCHANGED <<jobVars, timed, worker_wait_, run_, sem_, wsem, ret, tid>>

\* in_dco_wait_worker: a worker that was waiting already is listed already.
WaitExchange(w) ==
  /\ From(w, "wait_ex", IF wait_[w] THEN "sleep" ELSE "run_ex")
  /\ wait_' = [wait_ EXCEPT ![w] = TRUE]
  /\ UNCHANGED <<jobVars, timed, worker_wait_, run_, sem_, wsem, ret, tid>>

RunExchange(w) ==
  /\ From(w, "run_ex", "push")
  /\ run_' = [run_ EXCEPT ![w] = FALSE]
  /\ UNCHANGED <<jobVars, timed, worker_wait_, wait_, sem_, wsem, ret, tid>>

WaitPush(w) ==
  /\ From(w, "push", "token")
  /\ worker_wait_' = Inc(worker_wait_, w)
  /\ UNCHANGED <<jobVars, timed, run_, wait_, sem_, wsem, ret, tid>>

\* Mutant: the note is taken and nobody is called.
TakeNote_no_call(w) ==
  /\ From(w, "token", "sleep")
  /\ sem_ > 0
  /\ sem_' = sem_ - 1
  /\ UNCHANGED <<jobVars, timed, worker_wait_, run_, wait_, wsem, ret, tid>>

\* atomic_decrement_if_positive(sem_, 0, 1): somebody found the list empty.
TakeNote(w) ==
  /\ From(w, "token", "call_pop")
  /\ sem_ > 0
  /\ sem_' = sem_ - 1
  /\ ret' = [ret EXCEPT ![w] = "sleep"]
  /\ UNCHANGED <<jobVars, timed, worker_wait_, run_, wait_, wsem, tid>>

NoNote(w) ==
  /\ From(w, "token", "sleep")
  /\ sem_ <= 0
  /\ UNCHANGED <<jobVars, timed, flagVars, wsem, ret, tid>>

Wake(w) ==
  /\ From(w, "sleep", "remove")
  /\ wsem[w] > 0
  /\ wsem' = Dec(wsem, w)
  /\ timed' = [timed EXCEPT ![w] = FALSE]
  /\ UNCHANGED <<jobVars, flagVars, ret, tid>>

WaitTimeout(w) ==
  /\ From(w, "sleep", "remove")
  /\ timed[w]
  /\ timed' = [timed EXCEPT ![w] = FALSE]
  /\ UNCHANGED <<jobVars, flagVars, wsem, ret, tid>>

------------------------------------------------------------------------------
(* User code *)

\* dco_resume of a context that is switched out and has no timer.
Resume(t) ==
  /\ pc[t] \in UserPC
  /\ idle > 0
  /\ idle' = idle - 1
  /\ AddQue(t, pc[t])
  /\ UNCHANGED <<time_wait_, time_remove_, timed, flagVars, wsem, tid>>

\* dco_resume of a context that has a timer on worker w, and then
\* dco_sleep_resume, which hands it over to w.
SleepResume(t, w) ==
  /\ pc[t] \in UserPC
  /\ time_wait_[w] > 0
  /\ time_wait_' = Dec(time_wait_, w)
  /\ Goto(t, "hand")
  /\ ret' = [ret EXCEPT ![t] = pc[t]]
  /\ tid' = [tid EXCEPT ![t] = w]
  /\ UNCHANGED <<idle, ctx_que_, time_remove_, timed, flagVars, wsem>>

\* Mutant: the worker is not notified.
HandOver_silent(t) ==
  /\ pc[t] = "hand" /\ Return(t)
  /\ time_remove_' = Inc(time_remove_, tid[t])
  /\ UNCHANGED <<idle, ctx_que_, time_wait_, timed, flagVars, wsem>>

HandOver(t) ==
  /\ From(t, "hand", "notify")
  /\ time_remove_' = Inc(time_remove_, tid[t])
  /\ UNCHANGED <<idle, ctx_que_, time_wait_, timed, flagVars, wsem, ret, tid>>

\* The coroutine on w yields or ends ...
Yield(w) ==
  /\ From(w, "work", "remove")
  /\ idle' = idle + 1
  /\ UNCHANGED <<ctx_que_, time_wait_, time_remove_, timed, flagVars, wsem, ret, tid>>

\* ... sleeps, with its timer in the heap of w ...
Sleep(w) ==
  /\ From(w, "work", "remove")
  /\ time_wait_' = Inc(time_wait_, w)
  /\ UNCHANGED <<idle, ctx_que_, time_remove_, timed, flagVars, wsem, ret, tid>>

\* ... or was woken up, or its time was over, before it was switched out.
Requeue(w) ==
  /\ pc[w] = "work"
  /\ AddQue(w, "remove")
  /\ UNCHANGED <<idle, time_wait_, time_remove_, timed, flagVars, wsem, tid>>

------------------------------------------------------------------------------
CallStep(t) ==
  \/ \E w \in Worker : CallPop(t, w)
  \/ CallPopEmpty(t) \/ CallInc(t) \/ CallRun(t) \/ CallWait(t)
  \/ HandOver(t) \/ Notify(t) \/ Post(t)

LoopStep(w) ==
  \/ TimeRemove(w) \/ RemoveDone(w) \/ Expire(w) \/ TimeoutDone(w)
  \/ GetNext(w) \/ GetNothing(w)
  \/ WaitExchange(w) \/ RunExchange(w) \/ WaitPush(w) \/ TakeNote(w) \/ NoNote(w)
  \/ Wake(w) \/ WaitTimeout(w)

UserCall(t) == Resume(t) \/ \E w \in Worker : SleepResume(t, w)

Leave(w) == Yield(w) \/ Sleep(w) \/ Requeue(w)

Next ==
  \/ \E t \in Thread : CallStep(t) \/ UserCall(t)
  \/ \E w \in Worker : LoopStep(w) \/ Leave(w)

Spec == Init /\ [][Next]_vars

(* Threads keep running the library's code, a timed wait ends, and coroutines *)
(* leave the processor however often they call the scheduler before.          *)
Fairness ==
  /\ \A t \in Thread : WF_vars(CallStep(t))
  /\ \A w \in Worker : WF_vars(LoopStep(w)) /\ SF_vars(Leave(w))

FairSpec == Spec /\ Fairness

------------------------------------------------------------------------------
(* Properties *)

(* run_ and wait_ do their work: a worker is listed at most once, never while  *)
(* somebody who took it off the list is still calling it, nor while it is      *)
(* about to list itself, and only one thread at a time calls it.  So whoever   *)
(* takes a worker off the list finds it not running: the second turn of the    *)
(* loop of in_dco_call_worker never happens.                                   *)
Listing(w) == pc[w] \in {"run_ex", "push"}

OnceListed ==
  \A w \in Worker :
    /\ worker_wait_[w] <= 1
    /\ wait_[w] <=> worker_wait_[w] = 1 \/ Listing(w) \/ Calling(w) # {}
    /\ worker_wait_[w] = 1 => ~Listing(w) /\ Calling(w) = {}
    /\ Listing(w) => Calling(w) = {}
    /\ \A t, u \in Calling(w) : t = u
    /\ \A t \in Calling(w) : pc[t] = "call_run" => ~run_[w]

(* A worker that sleeps with nothing in its semaphore is on the list or has    *)
(* been taken off it by a thread that is about to post: it can be woken up     *)
(* however its flags, the list and the semaphore, which are four different     *)
(* atomics, were interleaved.                                                  *)
SleeperReachable ==
  \A w \in Worker :
    pc[w] = "sleep" /\ wsem[w] = 0 =>
      worker_wait_[w] = 1 \/ Calling(w) \cup Notifying(w) # {}

(* Work in the queue is always known to somebody: a thread is in the middle of *)
(* calling a worker, a worker has been posted or is awake on its way to the    *)
(* queue, or there is a note in sem_ for the next worker that lists itself,    *)
(* which is what coschedule.cpp:53 says of a caller that finds nobody listed:  *)
(* it "adds a sem".                                                            *)
WorkNoticed ==
  ctx_que_ > 0 =>
    \/ \E t \in Thread : pc[t] \in CallPC \cup HandPC
    \/ \E w \in Worker : wsem[w] > 0
    \/ \E w \in Worker : pc[w] \in {"remove", "timeout", "pop", "work"}
    \/ sem_ > 0

(* A sleeper that somebody resumed is never left in time_remove_ with its      *)
(* worker asleep: until the worker gets to it, its semaphore is up or about to *)
(* be.                                                                         *)
Removing(w) ==
  \/ pc[w] = "remove"
  \/ pc[w] \in CallPC \cup NotifyPC /\ ret[w] = "remove"

HandOverSeen ==
  \A w \in Worker :
    time_remove_[w] > 0 => Removing(w) \/ wsem[w] > 0 \/ Notifying(w) # {}

(* So every sleeper that is resumed goes back to the ready queue.              *)
HandOverServed ==
  \A w \in Worker : time_remove_[w] > 0 ~> time_remove_[w] = 0

(* What the comments say and the code does not do.                             *)
(*                                                                             *)
(* coschedule.cpp:44 and 53: who finds nobody to wake up leaves a note, and a  *)
(* worker that has listed itself looks for one.  Hence the workers are never   *)
(* all asleep, with nobody about to wake one of them, while the queue has work.*)
Asleep(w) == pc[w] = "sleep" /\ wsem[w] = 0 /\ ~timed[w]
NobodyCalls == \A t \in Thread : pc[t] \notin CallPC \cup HandPC

NoLostWake ==
  NobodyCalls /\ (\A w \in Worker : Asleep(w)) => ctx_que_ = 0

(* coschedule.h:14: a thread that blocks does not hold up the coroutines in    *)
(* the queue, unless (:15) it has a queue of waiting coroutines for itself.    *)
(* ctx_que_ belongs to all threads, so the exception is not met here.  Hence   *)
(* the worker that was posted for the work in ctx_que_ is never the one in the *)
(* middle of a coroutine, which may block its thread, while all the others     *)
(* sleep.                                                                      *)
BlockedThreadHarmless ==
  \A w \in Worker :
    /\ NobodyCalls
    /\ pc[w] = "work" /\ wsem[w] > 0
    /\ Worker # {w}
    /\ \A v \in Worker \ {w} : Asleep(v)
    => ctx_que_ = 0
===============================================================================
