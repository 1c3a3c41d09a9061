------------------------------- MODULE CoSched -------------------------------
(***************************************************************************)
(* Coroutines on worker threads: class coschedule with the coctx status    *)
(* words it drives and the timers of class coworker.                       *)
(*                                                                         *)
(* A worker loops (in_dco_schedule): it serves its timers (dco_time_proc), *)
(* takes a context from the shared ready queue, runs it until it yields,   *)
(* sleeps or ends, and finishes the switch-out (in_dco_sw).  Meanwhile     *)
(* any thread - a worker on behalf of the coroutine it runs, or a thread   *)
(* from outside such as the epoll loop - may resume any coroutine.  Every  *)
(* compare-and-swap on a status word and every push to or pop from a       *)
(* shared queue is a step of its own; what a thread does to its own data   *)
(* in between belongs to one of them.                                      *)
(*                                                                         *)
(* Left out: which worker is woken up (CoPark), the code a coroutine runs  *)
(* (any sequence of calls into the scheduler), and the clock (a timer that *)
(* is set may expire at any time).  The queues are bags: the moodycamel    *)
(* queue keeps no order between producers.                                 *)
(***************************************************************************)
EXTENDS CoCtx

CONSTANTS
  Ctx,        \* the contexts the process may allocate
  Worker,     \* the worker threads
  External,   \* threads that are not workers
  None        \* nullptr

ASSUME ConstantsAssumption ==
  /\ Worker \cap External = {}
  /\ None \notin Ctx
  /\ None \notin Worker

Thread == Worker \cup External

VARIABLES
  status,       \* status[c]: the status word of c
  break_,       \* break_[c]: a sleep of c would report "interrupted"
  tid_,         \* tid_[c]: the worker c ran on last
  live,         \* contexts created and not yet ended
  ctx_que_,     \* ctx_que_[c]: how many times c is in the ready queue
  time_remove_, \* time_remove_[w][c]: how many times c was handed to w
  time_wait_,   \* time_wait_[w]: the contexts in the timer heap of w
  pc,           \* pc[w]: where worker w is in its loop
  local_ctx_,   \* local_ctx_[w]: the context w is running or switching out
  adding,       \* adding[t]: the context t is about to push to ctx_que_
  handing       \* handing[t]: the context t is about to push to a time_remove_

ctxVars == <<status, break_, tid_>>
queVars == <<ctx_que_, time_remove_, time_wait_>>
workerVars == <<pc, local_ctx_>>
vars == <<ctxVars, live, queVars, workerVars, adding, handing>>

\* "remove", "timeout", "pop": dco_get_next.  "run": on the coroutine's stack.
\* "call": still there, in the callback of dco_yield or dco_sleep_until.
\* "sw": back on the worker's stack.  "add", "added": in dco_sleep_add.
PC == {"remove", "timeout", "pop", "run", "call", "sw", "add", "added"}

TypeOK ==
  /\ status \in [Ctx -> Status]
  /\ break_ \in [Ctx -> BOOLEAN]
  /\ tid_ \in [Ctx -> Worker \cup {None}]
  /\ live \in SUBSET Ctx
  /\ ctx_que_ \in [Ctx -> Nat]
  /\ time_remove_ \in [Worker -> [Ctx -> Nat]]
  /\ time_wait_ \in [Worker -> SUBSET Ctx]
  /\ pc \in [Worker -> PC]
  /\ local_ctx_ \in [Worker -> Ctx \cup {None}]
  /\ adding \in [Thread -> Ctx \cup {None}]
  /\ handing \in [Thread -> Ctx \cup {None}]

Init ==
  /\ status = [c \in Ctx |-> StatusReset]
  /\ break_ = [c \in Ctx |-> FALSE]
  /\ tid_ = [c \in Ctx |-> None]
  /\ live = {}
  /\ ctx_que_ = [c \in Ctx |-> 0]
  /\ time_remove_ = [w \in Worker |-> [c \in Ctx |-> 0]]
  /\ time_wait_ = [w \in Worker |-> {}]
  /\ pc = [w \in Worker |-> "remove"]
  /\ local_ctx_ = [w \in Worker |-> None]
  /\ adding = [t \in Thread |-> None]
  /\ handing = [t \in Thread |-> None]

------------------------------------------------------------------------------
(* Helpers *)

\* t is not in the middle of a push.
Free(t) == adding[t] = None /\ handing[t] = None

\* t runs user code, which may call the scheduler: a worker does so on the
\* stack of its coroutine, also from within the callback of a yield or sleep.
InUserCode(t) == Free(t) /\ (t \in Worker => pc[t] \in {"run", "call"})

At(w, p) == Free(w) /\ pc[w] = p
Goto(w, p) == pc' = [pc EXCEPT ![w] = p]

SetStatus(c, step) == status' = [status EXCEPT ![c] = step.to]

\* t continues with in_dco_add_que(c) if the condition holds.
AddIf(cond, t, c) == adding' = IF cond THEN [adding EXCEPT ![t] = c] ELSE adding

\* The end of an iteration of in_dco_schedule.
Loop(w) == Goto(w, "remove") /\ local_ctx_' = [local_ctx_ EXCEPT ![w] = None]

------------------------------------------------------------------------------
(* Calls into the scheduler, from any thread *)

\* A recycled context from ctx_buf_, or a new one: indistinguishable, but for
\* the fields a recycled one keeps.
dco_create(t, c) ==
  /\ InUserCode(t)
  /\ c \notin live
  /\ live' = live \cup {c}
  /\ UNCHANGED <<ctxVars, queVars, workerVars, adding, handing>>

\* Mutant: a sleeper whose timer is set is not handed to its worker.
dco_resume_no_handing(t, c) ==
  LET step == TryResume(status[c]) IN
  /\ InUserCode(t)
  /\ c \in live
  /\ SetStatus(c, step)
  /\ AddIf(step.res = 0, t, c)
  /\ UNCHANGED <<break_, tid_, live, queVars, workerVars, handing>>

\* The caller's duty, and the only one: c has not ended.
dco_resume(t, c) ==
  LET step == TryResume(status[c]) IN
  /\ InUserCode(t)
  /\ c \in live
  /\ SetStatus(c, step)
  /\ AddIf(step.res = 0, t, c)
  /\ handing' = IF step.res = 4 THEN [handing EXCEPT ![t] = c] ELSE handing
  /\ UNCHANGED <<break_, tid_, live, queVars, workerVars>>

in_dco_add_que(t) ==
  /\ adding[t] # None
  /\ ctx_que_' = [ctx_que_ EXCEPT ![adding[t]] = @ + 1]
  /\ adding' = [adding EXCEPT ![t] = None]
  /\ UNCHANGED <<ctxVars, live, time_remove_, time_wait_, workerVars, handing>>

dco_sleep_resume(t) ==
  /\ handing[t] # None
  /\ time_remove_' = [time_remove_ EXCEPT ![tid_[handing[t]]][handing[t]] = @ + 1]
  /\ handing' = [handing EXCEPT ![t] = None]
  /\ UNCHANGED <<ctxVars, live, ctx_que_, time_wait_, workerVars, adding>>

------------------------------------------------------------------------------
(* The coroutine on worker w leaves the processor *)

\* dco_yield and dco_sleep_until up to and including the status change; the
\* callback follows.
Suspend(w, step) ==
  /\ At(w, "run")
  /\ SetStatus(local_ctx_[w], step)
  /\ Goto(w, IF step.res < 0 THEN "run" ELSE "call")
  /\ UNCHANGED <<break_, tid_, live, queVars, local_ctx_, adding, handing>>

dco_yield(w) == Suspend(w, TryYield(status[local_ctx_[w]]))

dco_sleep_until(w) == Suspend(w, TrySleep(status[local_ctx_[w]]))

\* The callback is over: a sleep sets its timeout, then both switch out.
swout_(w) ==
  LET c == local_ctx_[w] IN
  /\ At(w, "call")
  /\ break_' = [break_ EXCEPT ![c] = InSleep(status[c]) \/ @]
  /\ Goto(w, "sw")
  /\ UNCHANGED <<status, tid_, live, queVars, local_ctx_, adding, handing>>

\* The function of the coroutine has returned: reset() and recycle.
End(w) ==
  LET c == local_ctx_[w] IN
  /\ At(w, "run")
  /\ status' = [status EXCEPT ![c] = StatusReset]
  /\ break_' = [break_ EXCEPT ![c] = TRUE]
  /\ live' = live \ {c}
  /\ Loop(w)
  /\ UNCHANGED <<tid_, queVars, adding, handing>>

------------------------------------------------------------------------------
(* The worker's loop *)

\* The worker is off the coroutine's stack.  It queues c if somebody resumed
\* it meanwhile, and goes on to set up the timer of a sleep.
in_dco_sw(w) ==
  LET c == local_ctx_[w]
      step == TrySw(status[c])
  IN
  /\ At(w, "sw")
  /\ SetStatus(c, step)
  /\ AddIf(step.res = 0, w, c)
  /\ IF step.res = 2
       THEN Goto(w, "add") /\ UNCHANGED local_ctx_
       ELSE Loop(w)
  /\ UNCHANGED <<break_, tid_, live, queVars, handing>>

dco_sleep_add(w) ==
  LET c == local_ctx_[w]
      step == TrySleepAdd(status[c])
  IN
  /\ At(w, "add")
  /\ SetStatus(c, step)
  /\ AddIf(step.res = 0, w, c)
  /\ IF step.res = 1
       THEN Goto(w, "added") /\ UNCHANGED local_ctx_
       ELSE Loop(w)
  /\ UNCHANGED <<break_, tid_, live, queVars, handing>>

\* The timeout is still to come: into the heap.
TimeWaitPush(w) ==
  /\ At(w, "added")
  /\ time_wait_' = [time_wait_ EXCEPT ![w] = @ \cup {local_ctx_[w]}]
  /\ Loop(w)
  /\ UNCHANGED <<ctxVars, live, ctx_que_, time_remove_, adding, handing>>

\* Mutant: the race with a resume is not checked.
dco_sleep_timeout_unchecked(w, c) ==
  LET step == TrySleepTimeout(status[c]) IN
  /\ SetStatus(c, step)
  /\ break_' = [break_ EXCEPT ![c] = FALSE]
  /\ AddIf(TRUE, w, c)
  /\ UNCHANGED <<tid_, live, ctx_que_, time_remove_, handing>>

\* Mutant: break_ keeps what set_timeout put there.
dco_sleep_timeout_unreported(w, c) ==
  LET step == TrySleepTimeout(status[c]) IN
  /\ SetStatus(c, step)
  /\ AddIf(step.res = 0, w, c)
  /\ UNCHANGED <<break_, tid_, live, ctx_que_, time_remove_, handing>>

\* Common to the two places where a timer fires: nothing happens if a resume
\* has changed the status first.
dco_sleep_timeout(w, c) ==
  LET step == TrySleepTimeout(status[c]) IN
  /\ SetStatus(c, step)
  /\ break_' = IF step.res = 0 THEN [break_ EXCEPT ![c] = FALSE] ELSE break_
  /\ AddIf(step.res = 0, w, c)
  /\ UNCHANGED <<tid_, live, ctx_que_, time_remove_, handing>>

\* The timeout passed before the timer was set up.
TimeoutAtOnce(w) ==
  /\ At(w, "added")
  /\ dco_sleep_timeout(w, local_ctx_[w])
  /\ Loop(w)
  /\ UNCHANGED time_wait_

\* Mutant: the timer of the resumed sleeper stays in the heap.
dco_sleep_remove_keeps_timer(w, c) ==
  LET step == TrySleepRemove(status[c]) IN
  /\ At(w, "remove")
  /\ time_remove_[w][c] > 0
  /\ time_remove_' = [time_remove_ EXCEPT ![w][c] = @ - 1]
  /\ SetStatus(c, step)
  /\ AddIf(step.res = 0, w, c)
  /\ UNCHANGED <<break_, tid_, live, ctx_que_, time_wait_, workerVars, handing>>

\* dco_time_proc, first loop: a sleeper that was resumed leaves the heap.
dco_sleep_remove(w, c) ==
  LET step == TrySleepRemove(status[c]) IN
  /\ At(w, "remove")
  /\ time_remove_[w][c] > 0
  /\ time_remove_' = [time_remove_ EXCEPT ![w][c] = @ - 1]
  /\ time_wait_' = [time_wait_ EXCEPT ![w] = @ \ {c}]
  /\ SetStatus(c, step)
  /\ break_' = IF step.res = 0 THEN [break_ EXCEPT ![c] = TRUE] ELSE break_
  /\ AddIf(step.res = 0, w, c)
  /\ UNCHANGED <<tid_, live, ctx_que_, workerVars, handing>>

RemoveDone(w) ==
  /\ At(w, "remove")
  /\ \A c \in Ctx : time_remove_[w][c] = 0
  /\ Goto(w, "timeout")
  /\ UNCHANGED <<ctxVars, live, queVars, local_ctx_, adding, handing>>

\* dco_time_proc, second loop: the earliest timer has expired.
TimerExpires(w, c) ==
  /\ At(w, "timeout")
  /\ c \in time_wait_[w]
  /\ time_wait_' = [time_wait_ EXCEPT ![w] = @ \ {c}]
  /\ dco_sleep_timeout(w, c)
  /\ UNCHANGED workerVars

TimeoutDone(w) ==
  /\ At(w, "timeout")
  /\ Goto(w, "pop")
  /\ UNCHANGED <<ctxVars, live, queVars, local_ctx_, adding, handing>>

\* A context from the ready queue, marked with the thread and switched to.
dco_get_next(w, c) ==
  /\ At(w, "pop")
  /\ ctx_que_[c] > 0
  /\ ctx_que_' = [ctx_que_ EXCEPT ![c] = @ - 1]
  /\ local_ctx_' = [local_ctx_ EXCEPT ![w] = c]
  /\ tid_' = [tid_ EXCEPT ![c] = w]
  /\ Goto(w, "run")
  /\ UNCHANGED <<status, break_, live, time_remove_, time_wait_, adding, handing>>

\* Mutant: a worker with nothing to run waits for the ready queue alone.
WaitAgain_queue_only(w) ==
  /\ At(w, "pop")
  /\ \A c \in Ctx : ctx_que_[c] = 0
  /\ UNCHANGED vars

\* Nothing to run: wait and start over (how it waits is CoPark's subject).
WaitAgain(w) ==
  /\ At(w, "pop")
  /\ \A c \in Ctx : ctx_que_[c] = 0
  /\ Goto(w, "remove")
  /\ UNCHANGED <<ctxVars, live, queVars, local_ctx_, adding, handing>>

------------------------------------------------------------------------------
ThreadStep(t) ==
  \/ in_dco_add_que(t)
  \/ dco_sleep_resume(t)

UserCall(t) == \E c \in Ctx : dco_create(t, c) \/ dco_resume(t, c)

\* What a worker does of its own accord, the coroutine's code apart.
WorkerStep(w) ==
  \/ swout_(w)
  \/ in_dco_sw(w)
  \/ dco_sleep_add(w)
  \/ TimeWaitPush(w)
  \/ TimeoutAtOnce(w)
  \/ RemoveDone(w)
  \/ TimeoutDone(w)
  \/ WaitAgain(w)
  \/ \E c \in Ctx : dco_sleep_remove(w, c) \/ TimerExpires(w, c) \/ dco_get_next(w, c)

\* What the code of the coroutine on w may do to leave the processor.
Leave(w) == dco_yield(w) \/ dco_sleep_until(w) \/ End(w)

Next ==
  \/ \E t \in Thread : ThreadStep(t) \/ UserCall(t)
  \/ \E w \in Worker : WorkerStep(w) \/ Leave(w)

Spec == Init /\ [][Next]_vars

(* Threads keep running their own code.  A coroutine, and the callback of a  *)
(* yield or sleep, leaves the processor in the end however often it calls    *)
(* the scheduler before: each call lets go of its own enabledness, so this   *)
(* is strong fairness.  Nobody has to resume anybody, and no timer has to    *)
(* expire.                                                                   *)
Fairness ==
  /\ \A t \in Thread : WF_vars(ThreadStep(t))
  /\ \A w \in Worker : WF_vars(WorkerStep(w)) /\ SF_vars(Leave(w)) /\ SF_vars(swout_(w))

FairSpec == Spec /\ Fairness

------------------------------------------------------------------------------
(* Where a context can be *)

Queued(c) == ctx_que_[c] > 0
Handed(w, c) == time_remove_[w][c] > 0
InHands(c, P) == \E w \in Worker : local_ctx_[w] = c /\ pc[w] \in P

\* The statuses each place stands for.
HeldStatus(p) ==
  CASE p = "run"           -> {"Ready_Reset_Reset"}
    [] p \in {"call", "sw"} -> {"Yield_Reset_Reset", "Yield_Break_Reset",
                               "Sleep_Reset_Reset", "Sleep_Break_Reset"}
    [] p = "add"           -> {"Sleep_Set_Reset", "Sleep_Set_Break"}
    [] OTHER               -> {"Sleep_Set_Set", "Sleep_Set_Remove"}

(* A context has one owner.  It is on the stack of at most one worker; while *)
(* it is, or is being switched out, it is in no queue; it is in the ready    *)
(* queue or on its way there at most once, and likewise for its worker's     *)
(* time_remove_.  This is what keeps two threads off one stack, across the   *)
(* gap between a yield or sleep and the end of the switch-out, in which      *)
(* anybody may already resume the coroutine (coctx.h:41-56).                 *)
OneOwner ==
  /\ \A c \in Ctx, v, w \in Worker :
       local_ctx_[v] = c /\ local_ctx_[w] = c => v = w
  /\ \A c \in Ctx, w \in Worker, t \in Thread :
       local_ctx_[w] = c => ~Queued(c) /\ adding[t] # c
  /\ \A c \in Ctx, t, u \in Thread :
       /\ adding[t] = c => ~Queued(c) /\ (adding[u] = c => t = u)
       /\ handing[t] = c => \A w \in Worker : ~Handed(w, c)
       /\ handing[t] = c /\ handing[u] = c => t = u
  /\ \A c \in Ctx : ctx_que_[c] <= 1
  /\ \A c \in Ctx, w \in Worker : time_remove_[w][c] <= 1

(* The assertions of the scheduler hold whatever the timing: a context that  *)
(* is taken from the ready queue is Ready (coschedule.cpp:88), a context     *)
(* that is switched out still belongs to the thread that ran it (:96), every *)
(* status change of the switch-out finds a status it knows (coctx.cpp:103,   *)
(* 137, 163, 191), and a context whose timeout is set is in no timer heap    *)
(* (:248).                                                                   *)
AssertsHold ==
  /\ \A c \in Ctx : Queued(c) => status[c] = "Ready_Reset_Reset"
  /\ \A w \in Worker :
       local_ctx_[w] # None =>
         /\ tid_[local_ctx_[w]] = w
         /\ status[local_ctx_[w]] \in HeldStatus(pc[w])
         /\ \A v \in Worker : local_ctx_[w] \notin time_wait_[v]

(* A timer belongs to the worker the coroutine went to sleep on: a context   *)
(* in a heap, or handed over to have its timer dropped, has the status of a  *)
(* set timer and the tid_ of that worker - also when the resume and the      *)
(* timeout race - so the heap, which has no lock, is touched by no other     *)
(* thread.                                                                   *)
TimersBelong ==
  \A c \in Ctx, w \in Worker :
    /\ c \in time_wait_[w] =>
         status[c] \in {"Sleep_Set_Set", "Sleep_Set_Remove"} /\ tid_[c] = w
    /\ Handed(w, c) => status[c] = "Sleep_Set_Remove" /\ tid_[c] = w

(* Nothing is forgotten: a Ready context is running, queued or about to be   *)
(* queued, one whose timer is to be dropped is on its way to the worker that *)
(* does it, one with a timer set is in that worker's heap, and one in the    *)
(* middle of a switch-out has a worker that finishes it.                     *)
NothingLost ==
  \A c \in Ctx :
    /\ status[c] = "Ready_Reset_Reset" =>
         InHands(c, {"run"}) \/ Queued(c) \/ \E t \in Thread : adding[t] = c
    /\ status[c] = "Sleep_Set_Remove" =>
         (\E w \in Worker : Handed(w, c)) \/ \E t \in Thread : handing[t] = c
    /\ status[c] = "Sleep_Set_Set" =>
         InHands(c, {"added"}) \/ \E w \in Worker : c \in time_wait_[w]
    /\ status[c] \in {"Sleep_Set_Reset", "Sleep_Set_Break"} => InHands(c, {"add"})
    /\ status[c] \in {"Yield_Reset_Reset", "Yield_Break_Reset",
                      "Sleep_Reset_Reset", "Sleep_Break_Reset"} => InHands(c, {"call", "sw"})

\* Contexts that are not in use are as new: a stale status would let a
\* recycled context start in the middle of its former life.
IdleIsReset == \A c \in Ctx \ live : status[c] = StatusReset

\* c was resumed or timed out, and is not in the ready queue yet.
Woken(c) ==
  \/ status[c] \in {"Yield_Break_Reset", "Sleep_Break_Reset",
                    "Sleep_Set_Break", "Sleep_Set_Remove"}
  \/ \E t \in Thread : adding[t] = c

(* An accepted resume is never lost: wherever it catches the coroutine - in  *)
(* its callback, between callback and switch-out, before or after its timer  *)
(* is set - the coroutine gets to the ready queue.                           *)
ResumedIsQueued == \A c \in Ctx : Woken(c) ~> Queued(c)

(* The scheduler implements CoTask: every wait is ended once, and a sleep    *)
(* reports what ended it.                                                    *)
StatusState(s) ==
  IF s \in {"Yield_Reset_Reset", "Yield_Set_Reset"} THEN "yielding"
  ELSE IF s \in {"Sleep_Reset_Reset", "Sleep_Set_Reset", "Sleep_Set_Set"} THEN "sleeping"
  ELSE IF s = "Ready_Reset_Reset" THEN "ready"
  ELSE "resumed"

TaskState(c) ==
  IF c \notin live THEN "none"
  ELSE IF InHands(c, {"run"}) THEN "running"
  ELSE StatusState(status[c])

Task == INSTANCE CoTask WITH
  state <- [c \in Ctx |-> TaskState(c)],
  broken <- [c \in Ctx |-> InSleep(status[c]) \/ break_[c]]

ImplementsTask == Task!Spec
==============================================================================
