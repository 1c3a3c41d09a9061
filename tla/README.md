# A verification of libdco

libdco runs C++ coroutines on a pool of worker threads and gives them locks,
semaphores, channels, generators and hooked system calls. This directory holds
TLA+ models of its core, the TLC configurations that check them on small
instances, and proofs, checked by TLAPS, that the main invariants hold on every
instance. Paths below are relative to the repository.

| Modules | What they model |
|---|---|
| `CoCtx`, `CoSched`, `CoTask` | the status word of a coroutine, the scheduler that drives it, and what the scheduler promises about one coroutine |
| `CoPark` | how idle workers go to sleep and are woken up |
| `CoMutex`, `CoLock` | the mutex of coroutines, and the lock it implements |
| `CoSemaphore`, `CoRWMutex`, `CoRWLock` | counting semaphores, the readers-writer mutex made of two of them and a lock, and what it implements |
| `CoAsleep`, `CoWaitList` | coroutines that suspend themselves, with or without a timeout; the list in which they wait |
| `CoSemTm`, `CoCond`, `CoTimed` | semaphores with timeouts, the condition variable, and coroutines that use both |
| `CoChannel` | channels |
| `CoFdCtx` | waiting for a file descriptor: poll, epoll thread, close |
| `CoGenerator`, `CoAwait` | generators; awaiting an object |
| `*_proofs` | theorems |
| `MC_*` | instances for TLC |

## 1. Inventory

### 1.1 Components

| Component | State | Operations | What makes it correct |
|---|---|---|---|
| `coctx` (`src/coctx.cpp`) | one atomic word [status][sw][sleep], `break_`, `tid_`, the timeout and its place in a heap | `try_resume_full`, `try_yield_full`, `try_sleep_full`, `try_sw_full`, `try_sleep_add_full`, `try_sleep_remove_full`, `try_sleep_timeout_full`, `set_timeout`, `reset` | a coroutine is made ready once per wait, and not before its stack is free |
| `coschedule` (`src/coschedule.cpp`) | ready queue `ctx_que_`, recycled contexts `ctx_buf_`, list `worker_wait_`, wake-up notes `sem_` | `dco_create`, `dco_resume`, `dco_yield`, `dco_sleep_until`, `in_dco_schedule`, `in_dco_sw`, `in_dco_call_worker`, `in_dco_wait_worker` | one owner per context; no accepted resume is lost; queued work reaches a worker |
| `coworker` (`src/coworker.cpp`) | heap `time_wait_` (unlocked, of its thread), queue `time_remove_`, flags `run_` and `wait_`, a thread semaphore | `dco_get_next`, `dco_time_proc`, `dco_sleep_add`, `dco_sleep_remove`, `dco_sleep_resume`, `dco_sleep_timeout` | the heap is touched by its own thread only; a worker with something to do does not sleep |
| `semaphore` (`util/semaphore.hpp`) | a POSIX semaphore | `wait`, `wait_for`, `try_notify` | a post due to a sleeper reaches it |
| `dco_futex` (`src/cofutex.cpp`) | none; works on its caller's queue and flag or count | `dco_wait` (on a flag, a count, a list; with a timeout), `dco_notify`, `dco_notify_all` | look, queue, look again: no waiter misses the change it waits for |
| `comutex` | `flag_`, `ctx_curr_`, `ctx_que_` | `lock`, `unlock` | mutual exclusion; a free lock is taken by somebody who asked for it |
| `cosemaphore`, `cosemaphore_tm` | a count and a queue, or a locked list of nodes | `wait`, `wait_until`, `notify` | no permit is lost, with waiters timing out |
| `comutexshared` | count of readers, `wait_`, two semaphores, a mutex | `lock`, `unlock`, `lock_shared`, `unlock_shared` | readers exclude writers; each side progresses |
| `cocondvariable` | a locked list of nodes | `wait`, `wait_until`, `notify`, `notify_all` | a notify reaches a waiter that has not timed out; the mutex is held again after a wait |
| `cowaitque`, `cochannel` | a ring buffer, the lists of posters and receivers, `stop_` | `wait`, `post`, their timed versions, `close` | values are neither lost nor duplicated; close wakes everybody up |
| `cogenerator`, `coawaitable` | a value and the two contexts that pass it; a context and a result | `create`, `yield`, `send`; `await`, calling a handle | each side runs in its turn; a result is delivered once |
| `cofdctx`, `cofdcollect`, `coepoll` | waiters per file descriptor, a table of descriptors, the epoll thread | `add`, `del`, `target`; `get`; the epoll loop | an event wakes up who waits for it; a timeout and an event end a wait once |
| `cohook_linux`, network layer | - | wrappers of system calls, streams, HTTP | input and output only |
| containers (`conolist`, `cominheap`, `coringbuffer`) | intrusive list, heap with indices, ring | push, pop, remove | structural invariants at their boundaries |
| `cocasque` | a moodycamel queue | push, pop | external: a bag with atomic push and pop |

`coselect`, `cowaitqueex` and `coactor` are commented out, compiled out or
empty. boost, spdlog and moodycamel's queue are third-party.

### 1.2 How they interact

A coroutine calls `dco_yield` or `dco_sleep_until` on its own context, with a
*callback*. The status word is changed first, then the callback runs, still on
the coroutine's stack, then the coroutine switches out to its worker, which
finishes with `in_dco_sw`. Every blocking primitive (futex, semaphore, channel,
poll, await) is a callback that publishes the context somewhere, from which
another thread - a worker or the epoll thread - finds it and calls
`dco_resume`. So a coroutine can be resumed before it has left its stack, and
before its timer is set; the status word decides who queues it. A queued
context is announced to an idle worker by `in_dco_call_worker`, except that a
sleeper whose timer is in a heap is first handed to the worker of that heap.

### 1.3 Where it is hard

Interleavings of compare-and-swap, queue and semaphore operations of several
threads; the window between a yield and the end of its switch-out; the timeout
of a sleep that races its resume; two atomics, a queue, a counter and a
semaphore that together decide whether a worker may sleep; contexts that are
recycled. `PROJECT.json` lists each hazard at its line together with the
properties that would catch it, or the reason why none does. Nothing is persisted and no message can be lost
by a network, so crashes and delivery play no part.

## 2. Plan

Done, in the order of importance - everything else rests on the scheduler:

1. `CoCtx` + `CoSched`, implementing `CoTask`; proofs, of that refinement too.
2. `CoPark`; proofs.
3. `CoMutex` over `CoCtx` and the futex, implementing `CoLock`; proofs.
4. `CoSemaphore` and over it `CoRWMutex`, with `CoLock` for the writers' mutex,
   implementing `CoRWLock`; proofs.
5. `CoWaitList`, and over it `CoSemTm` and `CoCond`, composed in `CoTimed`, and
   `CoChannel`; proofs.
6. `CoFdCtx`; proofs. `CoAwait`; proofs. `CoGenerator`; proofs.

Left: descriptors that are opened again and polls of several descriptors; the
heap of timers against a reference definition; a store-buffer variant of
queue-then-look. Every safety property and every refinement that a run checks
is a theorem; the liveness properties stay with TLC.

## 3. The models

A step is one atomic operation on shared memory: a compare-and-swap loop that
succeeds, an exchange, a push or pop. What a thread does to its own data belongs
to the step before or after. A worker's place in the code is `pc`; an action
carries the name of the function it models where the function is one step.

### 3.1 `CoCtx`, `CoSched`, `CoTask`

`CoCtx` has the ten values of the status word that `coctx.h` names and each
`try_*_full` as a function from a status to the new one and the result; the
results tell the caller what to do next (queue the context, hand it over,
nothing). `CoSched` adds contexts, workers and outside threads:

| Actions | Code |
|---|---|
| `dco_create`, `dco_resume`, then `in_dco_add_que` or `dco_sleep_resume` | the same functions; the push after a successful compare-and-swap is a step of its own (`adding`, `handing`) |
| `dco_yield`, `dco_sleep_until`, then `swout_` | status change; callback, which may call the scheduler; `set_timeout` and switch |
| `End` | the coroutine's function has returned: `reset()`, recycled |
| `in_dco_sw`, `dco_sleep_add`, `TimeWaitPush`, `TimeoutAtOnce` | the worker's side of the switch-out |
| `dco_sleep_remove`, `RemoveDone`, `TimerExpires`, `TimeoutDone` | `dco_time_proc` |
| `dco_get_next`, `WaitAgain` | the pop of the ready queue; nothing there |

User code is any sequence of calls: a thread of its own, or a coroutine on a
worker (also in the callback), may create contexts and resume any context in
use, itself included, at any time. The one duty of callers is kept: a context
that has ended is not resumed. The clock is abstracted: a timer may expire at
any moment. Queues are bags, for moodycamel's queue orders one producer's
elements only; the counts of the bags are what `OneOwner` bounds.

`CoTask` is the abstract specification of one coroutine: it is created, runs,
yields or sleeps; each wait ends once; a sleep reports "interrupted" or "timed
out" according to what ended it. The two can be told apart because a resume
claims a sleep first and makes the coroutine ready later (through a Break or
Remove status), a timeout does both at once. `CoSched` maps a context to a task
by its status, and `broken` to `break_` (`set_timeout` sets `break_` a little after the
sleep has begun, so a context in a sleep status already counts as broken).

### 3.2 `CoPark`

`dco_get_next` with `in_dco_wait_worker`; `in_dco_add_que` with
`in_dco_call_worker`; `dco_sleep_resume` with `try_notify`. Each exchange of
`run_` or `wait_`, each push or pop of `worker_wait_`, each change of `sem_`, and
the two halves of `try_notify` are steps. Contexts are only counted (idle, queued, with a
timer, handed over): which one is where is `CoSched`'s subject. `timed[w]` says
that the heap was not empty when `w` looked, so that its wait will end; a sleeper
that was resumed is still in the heap then, and `TimeoutDone` covers both views.

`sem_` starts in `SemInit`, a constant, because the constructor does not set it.

### 3.3 `CoMutex`, `CoLock`

`lock` and `unlock` down to the exchange of `flag_`, the callback of `dco_wait`
(look, push, look again) and `dco_notify`, with `TryYield`, `TryResume` and
`TrySw` of `CoCtx` for the status words. The rest of the scheduler is what
`CoSched` and `CoPark` show: a ready context is run. There is a worker for
every running coroutine. `CoLock` is a set of those who ask and one owner.

### 3.4 `CoSemaphore`, `CoRWMutex`, `CoRWLock`

`CoSemaphore` is `CoMutex`'s futex on a count: `wait` (`Dec`, `dco_yield`, `Check`,
`Push`, `Recheck`), `notify` (`Inc`, `Pop`, `Resume`). It models a set of semaphores
and knows where to return to (`ret`), so that other code can call it. `CoRWMutex`
adds one action per change of `count_`, `wait_` or the writers' mutex:

| Actions | Code (`comutexshared.cpp`) |
|---|---|
| `Lock`, `LockWriters`, `Mark`, `AddWait` | `lock`: take `wmtx_`, subtract `_rw_max_count`, add what was found to `wait_`, sleep if readers are left |
| `Unlock`, `Wake`, `UnlockWriters` | `unlock`: restore `count_`, release the readers one by one, release `wmtx_` |
| `LockShared`, `UnlockShared`, `Left` | `lock_shared`, `unlock_shared`: count, then wait, or tell the writer |

`_rw_max_count` is the constant `RWMax`, larger than the number of coroutines. The
writers' mutex is `CoLock`: `CoMutex` is shown to implement it. `CoRWLock` is a
writer, a set of readers and those who ask.

### 3.5 `CoAsleep`, `CoWaitList`

`CoAsleep` is the part of the scheduler that waiting code uses: `Suspend`, then the
callback (of the module that extends it), then `Switch`, `SleepAdd`,
`SleepTimeout`, `SleepRemove`, `Run`, all with the functions of `CoCtx`. `Timed` is
the set of coroutines that call versions with a timeout. `CoWaitList` is
`conolist_mt`, pointer by pointer, with `dco_futex`'s use of it: `PushSelf` in the
callback, `PopResume` by who notifies, `RemoveSelf` after a timeout. A list
operation is one step, for its callers hold the list's spinlock.

### 3.6 `CoSemTm`, `CoCond`, `CoTimed`

`wait`, `wait_until` and `notify` of `cosemaphore_tm`; `wait`, `wait_until`, `notify` and
`notify_all` of `cocondvariable`, over `CoLock`, with a predicate that producers
bring about. In `CoTimed` the same coroutines call both, one after the other. A
notification that meets a coroutine which has just timed out is spent on it:
`cofutex.h:173` admits that case. The ghosts `semSpent` and `condSpent` count the
permits and the items whose notification was spent, never more than there are
left, and `cut` says that `notify_all` stopped at such a coroutine and has not gone
through since. So `PermitsFound` and `CondFound` say that a spent notification
costs one wake-up: the next ones are heard.

### 3.7 `CoChannel`

| Actions | Code (`cochannel.hpp`, `cowaitque.cpp`, `cofutex.h`) |
|---|---|
| `wait`, `Take`, `WakePoster`, `Steal` | `wait`: a value from the buffer, then a poster is woken up; or a poster's own |
| `post`, `Give`, `Put` | `post`: to a receiver in the queue, or into the buffer |
| `Enter`, `LookBuf`, `LookQue`, `LookStop`, `Enqueue`, `AgainStop`, `AgainBuf`, `AgainQue`, `Notify` | the callback of `dco_wait`: look, push, look again, and pop one if the look succeeds |
| `Woken`, `TimedOut` | after the sleep; `unpack_` says that somebody moved the value |
| `close`, `Stop`, `DrainOne`, `Drained` | `close` of both queues |

`WaitQue` and `PostQue` are the lists of `wait_` and `post_`, among any others. The ring
buffer is modelled with its indices and `full_`. Values are model values; `inplay`
(ghost) is the set of those posted and not yet delivered or given back.

### 3.8 `CoFdCtx`

| Actions | Code |
|---|---|
| `Poll`, `Get`, `Add`, `Invalid`, `Finish`, `Return` | `co_poll` of one descriptor (`cohook_linux.cpp`), `cofdctx::add`, the end of the poll |
| `EpollWait`, `DoEvent` | `coepoll` |
| `Lock`, `SetRevents`, `Over`, `Resume`, `Unlock` | `cofdctx::target`, step by step under `mtx_` |
| `Close`, `Del` | the hooked `close`: `target` for all, `cofdcollect::del` |
| `Arrive`, `Drain` | the kernel (external): the file becomes ready, or is read until it is not |

The kernel's edge-triggered registration is `reg` and `edge`. An event is named by
the poll that made it, so that a late `target` that holds an event of an earlier
poll can be told from the right one.

### 3.9 `CoGenerator`

`main_ctx_` is `Main`; each function is run by a context of its own, created once.
`Create`, `Send` (also `yield` and `operator()`), `dco_yield_func`, `dco_func_exit` are
the methods of the same names; `Pass` is the callback of each yield, which resumes
the other side (`Other`). Values are numbered.

### 3.10 `CoAwait`

`Await`, `ctx_set`, `Suspended`, `ctx_clear` and `Return` are `coawait::operator=`; `Call`,
`Store` and `Resume` are `coobject_context::resume`, which any thread calls through a
handle as often as it likes. Every await has an object of its own.

## 4. What TLC checks

| Run | Instance | States | Question |
|---|---|---|---|
| `sched` | 2 workers, 1 outside thread, 2 contexts | 16 409 | `OneOwner`, `AssertsHold` (the code's `BOOST_ASSERT`s), `TimersBelong`, `NothingLost`; `ImplementsTask`; every accepted resume is queued (`ResumedIsQueued`) |
| `park` | 1 worker, 2 outside threads, 2 contexts, `sem_` 0 or 1 | 68 599 | `OnceListed`, `SleeperReachable`, `WorkNoticed`, `HandOverSeen`; `HandOverServed` |
| `mutex` | 3 coroutines | 5 912 | `OwnerKnown`, `OneWakeUp`, `FreeLockSeen`; `LockProgress`; `ImplementsLock` |
| `rw` | 3 coroutines that read and write, `RWMax` 4 | 30 297 | `PermitsMatch`, `PermitsSeen`, `OneWakeUp`; `WriterProgress`, `ReaderProgress`; `ImplementsRWLock` |
| `channel` | 2 posters, 2 receivers (one timed, one may close), 3 values, buffer of 1 | 1.2 million | `ValuesConserved`, `ResultTrue`, `OneSideWaits`, `CloseReleasesAll` |
| `timed` | 2 coroutines without and 1 with a timeout, 2 permits, 2 items | 331 391 | `ListSound`, `PermitsFound`, `CondFound`, `CondHolds` |
| `fd` | 1 poll without, 2 with a timeout; IN and OUT arrive; a close | 2.9 million | `Armed`, `NoLostEdge`, `NobodyDropped`, `ResumesItsPoll` |
| `generator` | 2 functions one after the other, up to 4 values each | 649 | `HandsOver`, `CallReturns` |
| `await` | 2 coroutines (one timed), 2 awaits each, 2 threads, 2 calls per handle | 92 841 | `AwaitEnds`, `CallHeard` |
| `park_lost`, `park_blocked` | 1 worker; 2 workers | until violated | `NoLostWake`, `BlockedThreadHarmless` (section 6) |
| `channel_lost` | 2 posters, 2 receivers, none timed | until violated | `WokenWhenReady` (section 6) |

Type invariants: `channel` and `generator` check theirs; all are theorems
(section 5).

**Bounds.** `CoSched` needs a context that is being switched out by one worker
while another one and an outsider resume it and its timer is about to fire; a
second context makes queues, heaps and hand-overs hold different contexts.
`CoPark` needs callers that race each other and a worker on its way to sleep; that
a worker is called while another one is listed takes two workers, and then the
theorems speak, as for any number (`park_blocked` has two as well). `CoMutex` and
`CoRWMutex` need a holder, a waiter being woken up and a third that overtakes it or
queues meanwhile. A list needs three nodes, for one that is removed from the
middle. `CoChannel` needs two on each side, so that one may pass by while another
sleeps, and a value in each place. `CoFdCtx` needs a timed coroutine that polls
again while its first event is still listed, and another in the same list. In
`CoAwait` two threads race for one handle, and a late one finds the next await.
The bounds `MaxSem`, `MaxItems`, `MaxPolls`, `MaxValues`, `MaxAwaits`, `MaxCalls` cut off
only callers, never the library; the other counters are bounded by the number
of contexts, workers and threads (`sem_` of the scheduler by the code). That the
invariants do not hang on the size is what the theorems show.

**Fairness.** Threads run: every step of the library is weakly fair. What a
coroutine does is up to it, but it leaves the processor in the end, by yielding,
sleeping or ending, and so does the callback of a yield or sleep; as it may call
the scheduler any number of times before, and is in the middle of those calls
not able to leave, this is strong fairness of `Leave` and `swout_`. Nobody has
to resume a coroutine, no timer of `CoSched` has to expire, nobody has to ask
for a lock. A timed wait of a worker ends (`CoPark`), and the holder of a mutex
or of the readers-writer mutex releases it. `CoRWMutex` needs weak fairness of
"some writer takes `wmtx_`", which `LockProgress` of `CoMutex` gives. A function of
`CoGenerator` goes on to its next yield or ends. All but `CoSched` and `CoPark`
also assume that a ready coroutine is run; the finding `park_lost` is a case where
it is run only after somebody queues another one.

**Deadlock** is checked in `sched`, `mutex` and `rw`. The other runs switch it off:
after a lost wake-up of `CoPark` the real system stops, and in the others everybody
may rightly be asleep with nobody left to call, or done. What must hold then is
what the properties with `Quiet`, `AllIdle` and the liveness properties say.

## 5. What is proved

For any number of workers, threads, contexts, coroutines, calls and values, from
the named assumptions of the modules only: workers and outside threads are
disjoint, `None` is none of the others (`ConstantsAssumption`, `ExternalAssumption`,
`NoneAssumption`, `CtxAssumption`, `ListAssumption`, `AwaitAssumption`,
`GeneratorAssumption`); there is a worker (`SizeAssumption`); the coroutines are
finite in number (`FiniteAssumption`, where they are counted) and, for the
readers-writer mutex, fewer than `RWMax` (`RWMaxAssumption`); the semaphore, the
condition variable and each side of the channel have a list of their own
(`QueuesAssumption`, `ChannelAssumption`); the epoll thread is not the one that
closes (`FdAssumption`).

- `CoSched_proofs`: `TypeCorrect`, `SingleOwnership`, `AssertionsNeverFail`,
  `TimersStayHome`, `RecycledIsReset`, `NoneForgotten`. None of these invariants is
  inductive alone. A resume of a context in a worker's hands is harmless only
  because the hands fix its status, and that the status is fixed rests on nobody
  else having queued it. `IInv` is their conjunction with `Hands`: which places of
  the worker's loop hold a context, that a context on its way to a queue is live
  and has the status that queue is for, and that a sleeping context has a
  worker. There is one lemma per action. `NothingLost` is inductive relative to it.
  `TaskImplemented`: the scheduler implements `CoTask`. Each step moves one context
  from a state of `CoTask` to the next, or leaves what `CoTask` sees of every context
  alone. The state is a function of `live`, the hands and the status; the report of
  a sleep needs one invariant more, `BreakSet`: a context in a sleep status has
  `break_` set unless its worker is still in the callback. Without it the switch-out
  of a sleeper that was resumed early could report a timeout.
- `CoPark_proofs`: `TypeCorrect`, `ListedAtMostOnce`, `SleepersReachable`,
  `HandOversSeen`, and `WorkIsNoticed` under the assumption that `sem_` starts
  at zero or more - without it the statement is false (section 6).
  `ParkInv` has three parts beside the types. `FlagsInv` is `OnceListed` with a
  condition on when `run_` may be set. `PostInv`: a worker that will
  sleep without another look at the queue, and whose `wait_` somebody has
  cleared, has a post or gets one. `HandInv` is `HandOverSeen`. `NoteInv` is kept
  apart, as it alone needs the assumption.
- `CoMutex_proofs`: `TypeCorrect`, `UnlockAccepted`, `WakeUpsMatch`,
  `FreeLockIsSeen`, and `Refinement`: `comutex` implements `CoLock`. `MutexInv`:
  the status word at each place of the code; the flag is up exactly when one
  coroutine holds the lock; a coroutine has one wake-up coming exactly
  while it waits unwoken; a free lock is looked at.
- `CoRWMutex_proofs`: `TypeCorrect`, `PermitsStayMatched`, and `Implements`:
  `comutexshared` implements `CoRWLock`. `Places` says where a coroutine can be, with
  which status word and in which call of which semaphore; `Owners`, who holds
  `wmtx_` at each place; `Counts` is the arithmetic: what `count_` and `wait_` are in
  terms of how many coroutines are where, while the holder of `wmtx_` is adding,
  asleep, writing, or none of these. `PermitsMatch` is not inductive: it does not
  say what `count_` is.
  `WakeUpsMatch` and `PermitsAreSeen` are about `CoSemaphore` as it is used here.
  `WakeInv` makes `OneWakeUp` inductive: a coroutine has a wake-up coming *exactly*
  while it has yielded, is past its push and has not been resumed, and it comes
  from the semaphore it has called. `PermitsSeen` compares the queue and the
  permits with one set, `Looking`, and a step may move a coroutine inside that set
  from one use to the other. `Seen` takes it apart: each queued coroutine has
  somebody who is going to look into the queue (`QueueLookers`), or else each permit
  has somebody who is going to try for it (`PermitTakers`). Then the push and the
  second look, and a post and its taker, change together; a second look that finds
  no permit makes the right half true, a pop that finds nobody the left one, and
  `dco_resume` passes the place of a notifier on to the one it resumes.
- `CoWaiters_proofs`, on what waits in lists, in three parts.
  *Lists*: push, pop and remove keep a list a list (`Linked`, `NoCycle`), and change
  the number of its nodes by one.
  *`CoTimed`*: `TypeCorrect`, `ListsStaySound`, `WaitReturnsLocked`, `PermitsAreFound`,
  `WakeUpsAreFound`. `ListInv` adds to the links where a coroutine may be in a list:
  between its push and its resume, or when it has timed out and not removed
  itself. `PermitsFound` and `CondFound` speak of quiet states only. `FInv` says the
  same of every state: each node of the list has somebody who looks after its
  push, or each permit (each item) but those whose notification was spent on a
  timeout has somebody on his way to it; and after the end of the producers the
  list is empty, or `notify_all` is not done or was cut short. A spent pop takes one
  node off the list and at most one notifier away, so one unit less is enough
  (`PopMissed`). The condition variable needs no second look,
  because who queues himself holds the mutex and has seen no item.
  *`CoChannel`*: `ChannelTypeCorrect`, `ValuesAreConserved`, `ResultsAreTrue`,
  `OneSideOnly`, `CloseReleases`, for a buffer of any size, none included. `InTurn` is
  about one coroutine: its status word at each place, when it is in its queue, and
  that its value has been moved exactly when `unpack_` is set, from its push on. `Ring`
  says the slots between the indices are the filled ones, and a value is in one
  hand or one slot. `Sides`: in one of the two queues, which may change, each node
  has somebody who is still to look again; when the last of them looks and finds
  nobody in the other queue, the other one is that queue. `Closing`: a node in a
  closed queue has `close` still popping there, or a waiter before its second look
  at `stop_`.
- `CoFdCtx_proofs`: `TypeCorrect`, `WaitedIsWatched`, `SleepersListed`, `EdgesSeen`,
  `PollsEndOnce`. The invariant has the status word at each place (`Words`), the
  poll an event was made for (`Polls`), who is between lock and unlock (`Threads`),
  what he has in his hands (`Hands`), what is registered (`Watch`) and where news of
  a ready file is on its way (`Edges`).
- `CoAwait_proofs`: `TypeCorrect`, `AwaitsEndOnce`, `CallsHeard`. `Held` and `Taken` say
  that a coroutine without a timeout is in the context of its current await, or in
  the hands of one thread, and not resumed; `Stored`, that the result is there
  when it has been; `Reachable` and `Called` are what `CallHeard` needs, and hold with
  timeouts too.

- `CoGenerator_proofs`: `TypeCorrect`, `ControlIsHandedOver`. `OneControls` is that one
  coroutine has the control. It rests on `Roles`: the function in `func_ctx_` is the
  only one that has begun and not ended, so that the one to be resumed is asleep or
  on its way there. `Turns` says whose answer is due, and what was passed last.

Model-checked only: the liveness properties `ResumedIsQueued`, `HandOverServed`,
`LockProgress`, `WriterProgress`, `ReaderProgress` and `CallReturns`, for fairness and
ENABLED are beyond the prover.

## 6. Findings

With a run:

- **Lost wake-up** (`coschedule.cpp:52-54`, run `park_lost`). A caller that finds
  `worker_wait_` empty leaves a note in `sem_` in a second step; a worker that
  lists itself and looks for a note between the two steps finds none and sleeps.
  The queued context waits until another one is queued. One worker is enough.
- **A blocked thread can hold up others** (`coschedule.cpp:59`, run
  `park_blocked`), against `coschedule.h:14`: one thread that blocks does not affect
  the scheduling of later coroutines. The exception of line 15, a thread that has
  a queue of waiting coroutines to itself, is not met, as the context is in
  `ctx_que_`, which all threads share. A worker leaves `worker_wait_`, and gets `run_`
  set, only when somebody calls it. One that finds work by itself is still
  listed, with `run_` false, while it runs a coroutine, and the next caller spends
  its wake-up on it although another worker sleeps. In the trace it is a worker
  that the constructor listed (`coschedule.cpp:20`) and that has never waited; one
  whose wait ended by a leftover post, a hand-over or a timeout gets there too.
- **A receiver sleeps beside a full buffer** (`cochannel.hpp:61-64`, run
  `channel_lost`), against `cowaitque.h:50`. A poster that found no receiver queued
  puts its value in the buffer and tells nobody; a receiver that looked at the
  buffer before, and at the posters' queue, is asleep by then. The next post hands
  it another value, past the one in the buffer. On the other side, a slot may stay
  free while a poster sleeps: the wake-up of a receiver went to one that then gave
  its value to a queued receiver.

Met while modelling, without a run: no line of the repository promises otherwise,
or the line quoted is about a neighbouring case, or the models leave the case out:

- `close` of a channel makes a call return -2 although its value was already moved,
  for `stop_` is looked at before `unpack_` (`cofutex.h:84-86`, `119-121`): a receiver
  that was given a value and had not run yet when the channel was closed loses it,
  although its poster returned 1. `cowaitque.cpp:60` has the rule for timeouts
  (unpacked counts as success) that the end by `close` does not follow.
- `post_.call()` (`cochannel.hpp:49`, wake up one post) is spent on a poster that has
  just timed out; another poster then sleeps beside a free slot. With one receiver
  and two posters the model gets there only if one of them is timed.
- `sem_` of the scheduler is not initialised (`coschedule.cpp:15`). With a negative
  value in that memory a note is not seen; the theorem `WorkIsNoticed` excludes it.
- A `notify` is spent on a node whose coroutine has just timed out, and
  `notify_all` stops there (`cofutex.h:175`, `cocondvariable.cpp:83`). That a `notify`
  costs no more than its own wake-up is checked and proved; those behind the
  place where `notify_all` stopped sleep on.
- An event for POLLIN and POLLOUT together is put in the list of those for errors
  (`cofdctx.cpp:77`), and readiness never wakes it up. A poll with neither bit sets
  `events_` to 0, so that the next registration fails.
- A poll that found the `cofdctx` in the table just before `close` removed it adds
  its event to an object nobody will call `target` on.
- A timed poll whose `finish_` is set just after `target` looked is resumed in a
  later wait. So is a timed await whose timer fires when a thread has already taken
  the coroutine: the resume ends the next await, which returns a result that
  nobody stored (`coawaitable.hpp:24-30`, `136-141`).
- Calling a generator's function that has ended sleeps for ever (`cogenerator.hpp:66`).
- The bucket array has `kBucketMask` elements and is indexed with
  `fd & kBucketMask` (`cofdcollect.h:53`, `119`): one too few.
- `dco_gosche` promises the tail of the ready queue (`coschedule.h:72`), which is first-in
  first-out per producer thread only.
- `examples/test_await` uses an interface that no longer exists.

## 7. Assumptions and limits

- Atomic operations interleave (sequential consistency). The code uses the
  default order throughout, but the third-party queue uses weaker ones: the
  store buffers' effect on "push, then look at the flag" is not modelled.
- The queue is a bag with atomic operations. A pop that misses an element whose
  push is in progress is not modelled: a push takes effect when it is visible.
- The version numbers of status words (against ABA in the compare-and-swap
  loops) are left out: each loop recomputes its step from the word it reads, so
  it acts on a current value whatever happened before.
- Stack switching, exceptions, allocation and the destruction of the scheduler
  while it runs are not modelled.

**Not modelled.** The heap `cominheap` (its users see a set of timers), the hash
buckets of `cofdcollect`, a descriptor that is opened again, polls of several
descriptors or of neither POLLIN nor POLLOUT; the other wrappers of
`cohook_linux`, which repeat a system call until a poll says it may succeed; the
network layer, input and output on top of them; `codefer`, `coerrno`, `courand` and
`cosingleton`, which share no state; `coselect`, `cowaitqueex` and `coactor`, which are
not compiled or empty; and the vendored libraries, which are most of the
repository's files. `PROJECT.json` gives the status and the reason component by
component.
