-------------------------------- MODULE CoFdCtx --------------------------------
(***************************************************************************)
(* Waiting for a file descriptor: poll() of one descriptor on a coroutine  *)
(* (cohook_linux), the events that wait for it (cofdctx), the table in     *)
(* which it is found (cofdcollect), the epoll thread (coepoll) and close.  *)
(*                                                                         *)
(* A poll makes an event object, puts it in a list of the cofdctx, and     *)
(* registers with epoll what epoll does not report yet.  target() empties  *)
(* the lists that an epoll event, or close, concerns, and resumes those in *)
(* them.  It holds mtx_ all the way, and so does add, which is one step    *)
(* for that reason; but the coroutines read revents_ and set finish_       *)
(* without the mutex.                                                      *)
(*                                                                         *)
(* An event is <<c, n, i>>: the n-th poll of c, for the bits i.  Its       *)
(* revents_ are of interest while c is in that poll, and its finish_ says  *)
(* that c no longer is.  The kernel is external: a file that is ready or   *)
(* not, and an edge-triggered registration of it.                          *)
(***************************************************************************)
EXTENDS CoAsleep

CONSTANTS
  Poller,    \* the epoll thread
  Closer,    \* the thread that closes the descriptor
  Interests, \* Interests[c]: the sets of bits that c polls for
  Arrivals,  \* what the file may become ready for
  MaxPolls   \* bound: MaxPolls[c] polls of c

ASSUME FdAssumption ==
  /\ Interests \in [Ctx -> SUBSET ((SUBSET {"IN", "OUT"}) \ {{}})]
  /\ Poller # Closer /\ {Poller, Closer} \cap (Ctx \cup {None}) = {}
  /\ Arrivals \subseteq {"IN", "OUT", "ERR"}
  /\ MaxPolls \in [Ctx -> Nat]

Bits == {"IN", "OUT", "ERR", "NVAL"}
Thread == {Poller, Closer}
Event == UNION {{c} \X (1 .. MaxPolls[c]) \X Interests[c] : c \in Ctx}
NoReg == {"none"}

VARIABLES
  in_table,               \* get(fd) finds the cofdctx
  mtx_, events_, ptrs_,   \* of the cofdctx; ptrs_ are its lists together
  polls,                  \* polls[c]: the polls that c has called
  interest, revents_,     \* of the last one
  file, ready, reg, edge, \* the kernel: "open" or "closed", what is ready, what
                          \* is registered, and whether epoll has news
  tpc, what, todo, one    \* of a thread in target(): where it is, the epoll events,
                          \* the events to go and the one it is at

ctxVars == <<in_table, mtx_, events_, ptrs_>>
pollVars == <<polls, interest, revents_>>
kernelVars == <<file, ready, reg, edge>>
threadVars == <<tpc, what, todo, one>>
coVars == <<status, timed_out, pc>>
vars == <<ctxVars, pollVars, kernelVars, threadVars, coVars>>

TypeOK ==
  /\ AsleepTypeOK({"out", "get", "add", "return"})
  /\ in_table \in BOOLEAN
  /\ mtx_ \in Thread \cup {None} /\ events_ \subseteq Bits /\ ptrs_ \subseteq Event
  /\ polls \in [Ctx -> Nat] /\ \A c \in Ctx : polls[c] <= MaxPolls[c]
  /\ interest \in [Ctx -> SUBSET {"IN", "OUT"}]
  /\ revents_ \in [Ctx -> SUBSET Bits]
  /\ file \in {"open", "closed"} /\ ready \subseteq {"IN", "OUT", "ERR"}
  /\ reg \in (SUBSET {"IN", "OUT", "ERR"}) \cup {NoReg} /\ edge \in BOOLEAN
  /\ tpc \in [Thread -> {"idle", "get", "lock", "next", "resume", "closed"}]
  /\ what \in [Thread -> SUBSET Bits]
  /\ todo \in [Thread -> SUBSET Event] /\ one \in [Thread -> Event \cup {None}]
  /\ \A t \in Thread : mtx_ = t <=> tpc[t] \in {"next", "resume"}

Init ==
  /\ AsleepInit
  /\ in_table = TRUE
  /\ mtx_ = None /\ events_ = {} /\ ptrs_ = {}
  /\ polls = [c \in Ctx |-> 0]
  /\ interest = [c \in Ctx |-> {}] /\ revents_ = [c \in Ctx |-> {}]
  /\ file = "open" /\ ready = {} /\ reg = NoReg /\ edge = FALSE
  /\ tpc = [t \in Thread |-> "idle"] /\ what = [t \in Thread |-> {}]
  /\ todo = [t \in Thread |-> {}] /\ one = [t \in Thread |-> None]

EventOf(c) == <<c, polls[c], interest[c]>>
finish_(e) == e # EventOf(e[1]) \/ pc[e[1]] = "out"

------------------------------------------------------------------------------
(* The kernel *)

News == IF reg = NoReg THEN {} ELSE ready \cap (reg \cup {"ERR"})

\* Data, space or a hang-up arrive; epoll is told if it is registered.
Arrive(b) ==
  /\ file = "open"
  /\ ready' = ready \cup {b}
  /\ edge' = (edge \/ (reg # NoReg /\ b \in reg \cup {"ERR"}))
  /\ UNCHANGED <<file, reg, ctxVars, pollVars, threadVars, coVars>>

\* Somebody reads or writes until it would block.
Drain(b) ==
  /\ b \in ready \ {"ERR"} /\ ready' = ready \ {b}
  /\ UNCHANGED <<file, reg, edge, ctxVars, pollVars, threadVars, coVars>>

\* epoll_ctl ADD or MOD: what is ready already is news again.
CtlSet(bits) == reg' = bits /\ edge' = (edge \/ ready \cap (bits \cup {"ERR"}) # {})
CtlDel == reg' = NoReg /\ edge' = FALSE

CanAdd == file = "open" /\ reg = NoReg
CanMod == file = "open" /\ reg # NoReg

------------------------------------------------------------------------------
(* poll() of one descriptor *)

\* The list of an event; one for both bits goes with those for errors only.
ListOf(i) == IF i = {"IN"} THEN "IN" ELSE IF i = {"OUT"} THEN "OUT" ELSE "ERR"

\* The non-blocking poll finds nothing, connect goes without; then c suspends.
Poll(c, i) ==
  /\ i = {"OUT"} \/ (file = "open" /\ ready \cap (i \cup {"ERR"}) = {})
  /\ polls[c] < MaxPolls[c] /\ polls' = [polls EXCEPT ![c] = @ + 1]
  /\ interest' = [interest EXCEPT ![c] = i]
  /\ revents_' = [revents_ EXCEPT ![c] = {}]
  /\ Suspend(c, "out", "get", "return")
  /\ UNCHANGED <<ctxVars, kernelVars, threadVars>>

\* It cannot wait: POLLNVAL, and c resumes itself.
Invalid(c) ==
  /\ revents_' = [revents_ EXCEPT ![c] = {"NVAL"}]
  /\ SetStatus(c, TryResume(status[c]))

Get(c) ==
  /\ From(c, "get", IF in_table THEN "add" ELSE "sw")
  /\ IF in_table THEN UNCHANGED <<status, revents_>> ELSE Invalid(c)
  /\ UNCHANGED <<timed_out, polls, interest, ctxVars, kernelVars, threadVars>>

\* epoll_ctl ADD if nothing is registered, else MOD.
CanRegister == IF events_ = {} THEN CanAdd ELSE CanMod

\* Mutant: epoll is asked for the new bits only.
Register_new_only(i) == CtlSet(i) /\ events_' = i

\* epoll is asked for all the bits, but events_ keeps the new ones only.
Register(i) == CtlSet(events_ \cup i) /\ events_' = i

\* cofdctx::add
Add(c) ==
  LET i == interest[c]
      known == i \subseteq events_
      ok == known \/ CanRegister
  IN  /\ From(c, "add", "sw")
      /\ mtx_ = None
      /\ IF ok THEN ptrs_' = ptrs_ \cup {EventOf(c)} /\ UNCHANGED <<status, revents_>>
         ELSE Invalid(c) /\ UNCHANGED ptrs_
      /\ IF ok /\ ~known THEN Register(i) ELSE UNCHANGED <<reg, edge, events_>>
      /\ UNCHANGED <<timed_out, in_table, mtx_, file, ready, polls, interest, threadVars>>

\* c runs again, by a resume or by its timer, and reads revents_.
Return(c) ==
  /\ pc[c] \in {"woken", "remove"} /\ pc' = [pc EXCEPT ![c] = "return"]
  /\ UNCHANGED <<status, timed_out, ctxVars, pollVars, kernelVars, threadVars>>

\* It sets finish_.
Finish(c) ==
  /\ From(c, "return", "out")
  /\ UNCHANGED <<status, timed_out, ctxVars, pollVars, kernelVars, threadVars>>

------------------------------------------------------------------------------
(* cofdctx::target, in the epoll thread or in close() *)

EpollWait ==
  /\ tpc[Poller] = "idle" /\ edge
  /\ edge' = FALSE
  /\ what' = [what EXCEPT ![Poller] = News]
  /\ tpc' = [tpc EXCEPT ![Poller] = IF News = {} THEN "idle" ELSE "get"]
  /\ UNCHANGED <<todo, one, file, ready, reg, ctxVars, pollVars, coVars>>

DoEvent ==
  /\ tpc[Poller] = "get"
  /\ tpc' = [tpc EXCEPT ![Poller] = IF in_table THEN "lock" ELSE "idle"]
  /\ what' = IF in_table THEN what ELSE [what EXCEPT ![Poller] = {}]
  /\ UNCHANGED <<todo, one, ctxVars, pollVars, kernelVars, coVars>>

\* del: the cofdctx leaves the table, and is closed then.
Del ==
  /\ tpc[Closer] = "idle" /\ tpc' = [tpc EXCEPT ![Closer] = "lock"]
  /\ in_table' = FALSE
  /\ what' = [what EXCEPT ![Closer] = {"NVAL"}]
  /\ UNCHANGED <<todo, one, mtx_, events_, ptrs_, pollVars, kernelVars, coVars>>

\* What target() reports to the events of a list; if nothing, they stay.
Report(t, e) == what[t] \cap {ListOf(e[3]), "ERR", "NVAL"}

\* Mutant: all the lists are cleared, whatever happened.
Lock_clear_all(t) ==
  /\ tpc[t] = "lock" /\ tpc' = [tpc EXCEPT ![t] = "next"]
  /\ mtx_ = None /\ mtx_' = t
  /\ todo' = [todo EXCEPT ![t] = {e \in ptrs_ : Report(t, e) # {}}]
  /\ ptrs_' = {}
  /\ UNCHANGED <<in_table, events_, what, one, pollVars, kernelVars, coVars>>

Lock(t) ==
  /\ tpc[t] = "lock" /\ tpc' = [tpc EXCEPT ![t] = "next"]
  /\ mtx_ = None /\ mtx_' = t
  /\ todo' = [todo EXCEPT ![t] = {e \in ptrs_ : Report(t, e) # {}}]
  /\ ptrs_' = {e \in ptrs_ : Report(t, e) = {}}
  /\ UNCHANGED <<in_table, events_, what, one, pollVars, kernelVars, coVars>>

\* target_all_poll_hook looks at finish_, writes revents_ and resumes.  The
\* coroutine uses revents_ before finish_ is set only: the first two are one.
Over(t, e) ==
  /\ tpc[t] = "next" /\ e \in todo[t] /\ finish_(e)
  /\ todo' = [todo EXCEPT ![t] = @ \ {e}]
  /\ UNCHANGED <<tpc, what, one, ctxVars, pollVars, kernelVars, coVars>>

\* Mutant: resume first, write revents_ then.
SetRevents_late(t, e) ==
  /\ tpc[t] = "next" /\ e \in todo[t] /\ ~finish_(e)
  /\ todo' = [todo EXCEPT ![t] = @ \ {e}]
  /\ one' = [one EXCEPT ![t] = e]
  /\ tpc' = [tpc EXCEPT ![t] = "resume"]
  /\ UNCHANGED <<what, ctxVars, pollVars, kernelVars, coVars>>

SetRevents(t, e) ==
  /\ tpc[t] = "next" /\ e \in todo[t] /\ ~finish_(e)
  /\ todo' = [todo EXCEPT ![t] = @ \ {e}]
  /\ one' = [one EXCEPT ![t] = e]
  /\ tpc' = [tpc EXCEPT ![t] = "resume"]
  /\ revents_' = [revents_ EXCEPT ![e[1]] = Report(t, e)]
  /\ UNCHANGED <<what, ctxVars, polls, interest, kernelVars, coVars>>

Resume(t) ==
  LET c == one[t][1]
  IN  /\ tpc[t] = "resume" /\ tpc' = [tpc EXCEPT ![t] = "next"]
      /\ SetStatus(c, TryResume(status[c]))
      /\ one' = [one EXCEPT ![t] = None]
      /\ UNCHANGED <<timed_out, pc, what, todo, ctxVars, pollVars, kernelVars>>

\* The lists that are left.
Left == {ListOf(e[3]) : e \in ptrs_}

\* Mutant: events_ is not told that nothing is registered.
Reregister_stale ==
  IF Left # events_ /\ CanMod
  THEN /\ IF Left = {} THEN CtlDel ELSE CtlSet(Left)
       /\ UNCHANGED events_
  ELSE UNCHANGED <<reg, edge, events_>>

\* epoll is asked for what is left, or no more.
Reregister ==
  IF Left # events_ /\ CanMod
  THEN /\ IF Left = {} THEN CtlDel ELSE CtlSet(Left)
       /\ events_' = Left
  ELSE UNCHANGED <<reg, edge, events_>>

Unlock(t) ==
  /\ tpc[t] = "next" /\ todo[t] = {}
  /\ tpc' = [tpc EXCEPT ![t] = IF t = Closer THEN "closed" ELSE "idle"]
  /\ mtx_' = None
  /\ Reregister
  /\ what' = [what EXCEPT ![t] = {}]
  /\ UNCHANGED <<in_table, ptrs_, todo, one, file, ready, pollVars, coVars>>

\* close_ori
Close ==
  /\ tpc[Closer] = "closed" /\ file = "open"
  /\ file' = "closed" /\ ready' = {} /\ CtlDel
  /\ UNCHANGED <<ctxVars, pollVars, threadVars, coVars>>

------------------------------------------------------------------------------
Sched(c) == SchedStep(c) /\ UNCHANGED <<ctxVars, pollVars, kernelVars, threadVars>>

Target(t) ==
  Lock(t) \/ Resume(t) \/ Unlock(t) \/ \E e \in Event : Over(t, e) \/ SetRevents(t, e)

Next ==
  \/ \E c \in Ctx : \/ \E i \in Interests[c] : Poll(c, i)
                    \/ Get(c) \/ Add(c) \/ Return(c) \/ Finish(c) \/ Sched(c)
  \/ EpollWait \/ DoEvent \/ Del \/ Close
  \/ \E t \in Thread : Target(t)
  \/ \E b \in Arrivals : Arrive(b) \/ Drain(b)

Spec == Init /\ [][Next]_vars

------------------------------------------------------------------------------
(* Properties *)

AllIdle == /\ Quiet /\ (~edge \/ News = {})
           /\ tpc[Poller] = "idle" /\ tpc[Closer] \in {"idle", "closed"}

\* Asleep in a poll without a timeout.
Asleep(c) == c \notin Timed /\ pc[c] = "parked"

(* epoll watches for whatever a list waits for, although events_, by which add *)
(* decides whether to call epoll_ctl and how, only remembers the bits that     *)
(* were added last: while the descriptor is open and nobody is in target(),    *)
(* an event in a list is registered (and those for errors always are).         *)
Armed ==
  mtx_ = None /\ file = "open" /\ ptrs_ # {} =>
    reg # NoReg /\ Left \ {"ERR"} \subseteq reg

(* No edge is lost between the non-blocking poll, add and target(): when       *)
(* nothing is under way and the file is ready, nobody sleeps waiting for it.   *)
(* But for one case: an event for POLLIN and POLLOUT together is in the list   *)
(* of those for errors only, and readiness does not wake it up (see README).   *)
(* A descriptor that is being closed is out of the table and reports no edge.  *)
NoLostEdge ==
  AllIdle /\ in_table =>
    \A c \in Ctx : Asleep(c) => ready \cap {ListOf(interest[c]), "ERR"} = {}

(* Nobody is dropped: when nothing is under way, a coroutine that sleeps in a  *)
(* poll without a timeout is still in a list of the cofdctx, even if one for   *)
(* the same list timed out, or the descriptor was closed, meanwhile.           *)
NobodyDropped == AllIdle => \A c \in Ctx : Asleep(c) => EventOf(c) \in ptrs_

(* A poll without a timeout ends once and for a reason.  target() resumes its  *)
(* coroutine in the poll the event was made for, never in a later one,         *)
(* although it looks at finish_ and resumes in separate steps and the          *)
(* coroutine sets finish_ without the mutex; and when the coroutine runs       *)
(* again, revents_ says why.                                                   *)
ResumesItsPoll ==
  /\ \A t \in Thread : tpc[t] = "resume" /\ one[t][1] \notin Timed =>
       one[t] = EventOf(one[t][1]) /\ TryResume(status[one[t][1]]).res >= 0
  /\ \A c \in Ctx : pc[c] = "woken" /\ c \notin Timed => revents_[c] # {}
===============================================================================
