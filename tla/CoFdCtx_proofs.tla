---------------------------- MODULE CoFdCtx_proofs ----------------------------
(***************************************************************************)
(* What a poll of a descriptor promises, proved for any number of          *)
(* coroutines, of polls and of arrivals: epoll watches what is waited for, *)
(* no edge is lost, nobody is dropped, and a poll ends once and for a      *)
(* reason.                                                                 *)
(***************************************************************************)
EXTENDS CoFdCtx, TLAPS

------------------------------------------------------------------------------
(* The invariant *)

\* The word of a coroutine in a poll without a timeout, at each place.
Unresumed == {"Yield_Reset_Reset", "Yield_Set_Reset"}

Word(c) ==
  /\ pc[c] \in {"out", "woken", "remove", "return"} => status[c] = "Ready_Reset_Reset"
  /\ pc[c] \in {"get", "add"} => status[c] = "Yield_Reset_Reset"
  /\ pc[c] = "sw" => status[c] \in {"Yield_Reset_Reset", "Yield_Break_Reset"}
  /\ pc[c] = "parked" => status[c] \in {"Yield_Set_Reset", "Ready_Reset_Reset"}

Words == \A c \in Ctx : c \notin Timed => Word(c)

Polls == \A c \in Ctx : pc[c] # "out" => polls[c] \in 1 .. MaxPolls[c] /\ interest[c] \in Interests[c]

\* Who is in target() has the mutex and what it took from the lists.
Threads ==
  /\ \A t \in Thread :
       /\ tpc[t] \notin {"next", "resume"} => todo[t] = {}
       /\ tpc[t] = "resume" =>
            /\ one[t] \in Event /\ one[t] \notin todo[t] /\ one[t] \notin ptrs_
            /\ one[t][1] \notin Timed => revents_[one[t][1]] # {}
       /\ \A e \in todo[t] : e \notin ptrs_ /\ Report(t, e) # {}
  /\ in_table => tpc[Closer] = "idle" /\ file = "open"

\* The event is in a list, or target() has it.
Under(e) == e \in ptrs_ \/ \E t \in Thread : e \in todo[t] \/ (tpc[t] = "resume" /\ one[t] = e)

InPoll(c) == pc[c] \in {"sw", "parked"} /\ status[c] \in Unresumed

\* A coroutine that waits without a timeout has one event, which somebody has;
\* once it is resumed nobody has any, and revents_ says why.
Hands ==
  /\ \A e \in Event : Under(e) /\ e[1] \notin Timed => e = EventOf(e[1]) /\ InPoll(e[1])
  /\ \A c \in Ctx : c \notin Timed =>
       /\ InPoll(c) => Under(EventOf(c))
       /\ pc[c] \in {"sw", "parked", "woken"} /\ ~InPoll(c) => revents_[c] # {}

\* What events_ and the lists have to do with the registration.
Watch ==
  /\ events_ \subseteq {"IN", "OUT", "ERR"}
  /\ file = "open" =>
       /\ events_ = {} <=> reg = NoReg
       /\ events_ # {} => events_ \subseteq reg
       /\ ptrs_ # {} => events_ # {} /\ Left \ {"ERR"} \subseteq reg
       /\ events_ \subseteq {"ERR"} => Left \subseteq {"ERR"}

\* Somebody waits for b, or will without a call of epoll_ctl.
Concerns(b) ==
  \/ b \in Left \/ (mtx_ = None /\ b \in events_)
  \/ b = "ERR" /\ (ptrs_ # {} \/ (mtx_ = None /\ events_ # {}))

\* epoll has news of it, or has told the epoll thread, which has not got the
\* mutex yet.
Told(b) == edge \/ (tpc[Poller] \in {"get", "lock"} /\ b \in what[Poller])

Edges == in_table => \A b \in ready : Concerns(b) => Told(b)

IInv == TypeOK /\ Words /\ Polls /\ Threads /\ Hands /\ Watch /\ Edges

------------------------------------------------------------------------------
(* Events and lists *)

LEMMA EventParts ==
  ASSUME NEW e \in Event
  PROVE  /\ e[1] \in Ctx /\ e[2] \in 1 .. MaxPolls[e[1]] /\ e[3] \in Interests[e[1]]
         /\ e[3] \subseteq {"IN", "OUT"} /\ e[3] # {}
<1>1. PICK c \in Ctx : e \in {c} \X (1 .. MaxPolls[c]) \X Interests[c]
  BY DEF Event
<1>2. e[1] = c /\ e[2] \in 1 .. MaxPolls[c] /\ e[3] \in Interests[c]
  BY <1>1
<1>3. QED  BY <1>2, FdAssumption

LEMMA IsEvent ==
  ASSUME NEW c \in Ctx, polls[c] \in 1 .. MaxPolls[c], interest[c] \in Interests[c]
  PROVE  /\ EventOf(c) \in Event
         /\ EventOf(c)[1] = c /\ EventOf(c)[2] = polls[c] /\ EventOf(c)[3] = interest[c]
<1>1. EventOf(c) \in {c} \X (1 .. MaxPolls[c]) \X Interests[c]
  BY DEF EventOf
<1>2. QED  BY <1>1 DEF Event, EventOf

LEMMA ListOfBits ==
  ASSUME NEW i, i \subseteq {"IN", "OUT"}, i # {}
  PROVE  ListOf(i) \in {"IN", "OUT", "ERR"} /\ (ListOf(i) # "ERR" => ListOf(i) \in i)
  BY DEF ListOf

LEMMA LeftLists ==
  ASSUME ptrs_ \subseteq Event
  PROVE  Left \subseteq {"IN", "OUT", "ERR"} /\ (Left = {} <=> ptrs_ = {})
  BY EventParts, ListOfBits DEF Left

LEMMA TryTypes ==
  ASSUME NEW s \in Status
  PROVE  /\ TryResume(s).to \in Status /\ TryYield(s).to \in Status /\ TrySleep(s).to \in Status
         /\ TrySw(s).to \in Status /\ TrySleepAdd(s).to \in Status
         /\ TrySleepRemove(s).to \in Status /\ TrySleepTimeout(s).to \in Status
  BY DEF TryResume, TryYield, TrySleep, TrySw, TrySleepAdd, TrySleepRemove, TrySleepTimeout,
         Becomes, Fails, Status, YieldStatus, SleepStatus

\* A step of Next that is no step of a coroutine.
OtherStep ==
  \/ EpollWait \/ DoEvent \/ Del \/ Close
  \/ \E t \in Thread : Target(t)
  \/ \E b \in Arrivals : Arrive(b) \/ Drain(b)

CoStep(c) ==
  \/ \E i \in Interests[c] : Poll(c, i)
  \/ Get(c) \/ Add(c) \/ Return(c) \/ Finish(c) \/ Sched(c)

------------------------------------------------------------------------------
(* Types *)

LEMMA CountPoll ==
  ASSUME NEW c \in Ctx, polls \in [Ctx -> Nat], \A d \in Ctx : polls[d] <= MaxPolls[d],
         polls[c] < MaxPolls[c], polls' = [polls EXCEPT ![c] = @ + 1]
  PROVE  polls' \in [Ctx -> Nat] /\ \A d \in Ctx : polls'[d] <= MaxPolls[d]
<1>1. MaxPolls \in [Ctx -> Nat]
  BY FdAssumption
<1>2. polls[c] \in Nat /\ MaxPolls[c] \in Nat
  BY <1>1
<1>3. polls[c] + 1 \in Nat /\ polls[c] + 1 <= MaxPolls[c]
  BY <1>2
<1>4. QED  BY <1>3

LEMMA CoTypes ==
  ASSUME IInv, NEW c \in Ctx, CoStep(c)
  PROVE  TypeOK'
<1> USE DEF IInv, TypeOK, AsleepTypeOK, AsleepPC
<1>1. ASSUME NEW i \in Interests[c], Poll(c, i) PROVE TypeOK'
  <2>1. i \subseteq {"IN", "OUT"}
    BY FdAssumption
  <2>2. polls' \in [Ctx -> Nat] /\ \A d \in Ctx : polls'[d] <= MaxPolls[d]
    BY <1>1, CountPoll DEF Poll
  <2>3. interest' \in [Ctx -> SUBSET {"IN", "OUT"}] /\ revents_' \in [Ctx -> SUBSET Bits]
    BY <1>1, <2>1 DEF Poll
  <2>4. status' \in [Ctx -> Status] /\ timed_out' \in [Ctx -> BOOLEAN]
        /\ pc' \in [Ctx -> AsleepPC \cup {"out", "get", "add", "return"}]
    BY <1>1, TryTypes DEF Poll, Suspend, From, SetStatus
  <2>5. QED  BY <1>1, <2>2, <2>3, <2>4 DEF Poll, ctxVars, kernelVars, threadVars
<1>2. CASE Get(c)
  BY <1>2, TryTypes DEF Get, From, Invalid, SetStatus, Bits, ctxVars, kernelVars, threadVars
<1>3. CASE Add(c)
  <2>0. PICK i : i = interest[c] /\ i \subseteq {"IN", "OUT"}
    OBVIOUS
  <2>1. status' \in [Ctx -> Status] /\ revents_' \in [Ctx -> SUBSET Bits]
    BY <1>3, TryTypes DEF Add, Invalid, SetStatus, Bits
  <2>2. ptrs_' \subseteq Event
    <3>1. EventOf(c) \in Event
      BY <1>3, IsEvent DEF Polls, Add, From
    <3>2. QED  BY <1>3, <3>1 DEF Add
  <2>3. events_' \subseteq Bits /\ reg' \in (SUBSET {"IN", "OUT", "ERR"}) \cup {NoReg}
    <3>1. CASE UNCHANGED <<reg, events_>>
      BY <3>1
    <3>2. CASE reg' = events_ \cup i /\ events_' = i
      BY <2>0, <3>2 DEF Watch, Bits
    <3>3. QED  BY <1>3, <2>0, <3>1, <3>2 DEF Add, Register, CtlSet
  <2>4. edge' \in BOOLEAN
    BY <1>3 DEF Add, Register, CtlSet
  <2>5. pc' \in [Ctx -> AsleepPC \cup {"out", "get", "add", "return"}]
    BY <1>3 DEF Add, From
  <2>6. QED  BY <1>3, <2>1, <2>2, <2>3, <2>4, <2>5 DEF Add, threadVars
<1>4. CASE Return(c) \/ Finish(c)
  BY <1>4 DEF Return, Finish, From, ctxVars, pollVars, kernelVars, threadVars
<1>5. CASE Sched(c)
  BY <1>5, TryTypes
  DEF Sched, SchedStep, Switch, SleepAdd, SleepTimeout, SleepRemove, Run, From, SetStatus,
      ctxVars, pollVars, kernelVars, threadVars
<1>6. QED  BY <1>1, <1>2, <1>3, <1>4, <1>5 DEF CoStep

LEMMA OtherTypes ==
  ASSUME IInv, OtherStep
  PROVE  TypeOK'
<1> USE FdAssumption DEF IInv, TypeOK, AsleepTypeOK, Thread
<1>1. CASE EpollWait
  BY <1>1 DEF EpollWait, News, Bits, ctxVars, pollVars, coVars
<1>2. CASE DoEvent
  BY <1>2 DEF DoEvent, ctxVars, pollVars, kernelVars, coVars
<1>3. CASE Del
  BY <1>3 DEF Del, Bits, pollVars, kernelVars, coVars
<1>4. CASE Close
  <2>1. ready' \subseteq {"IN", "OUT", "ERR"} /\ reg' = NoReg /\ edge' \in BOOLEAN
    BY <1>4 DEF Close, CtlDel
  <2>2. file' \in {"open", "closed"} /\ UNCHANGED <<ctxVars, pollVars, threadVars, coVars>>
    BY <1>4 DEF Close
  <2>3. QED  BY <2>1, <2>2 DEF ctxVars, pollVars, threadVars, coVars
<1>5. ASSUME NEW b \in Arrivals, Arrive(b) \/ Drain(b) PROVE TypeOK'
  BY <1>5 DEF Arrive, Drain, ctxVars, pollVars, threadVars, coVars
<1>6. ASSUME NEW t \in Thread, Lock(t) PROVE TypeOK'
  BY <1>6 DEF Lock, pollVars, kernelVars, coVars
<1>7. ASSUME NEW t \in Thread, Resume(t) PROVE TypeOK'
  <2>1. one[t] \in Event /\ one[t][1] \in Ctx
    BY <1>7, EventParts DEF Resume, Threads
  <2>2. PICK c \in Ctx : c = one[t][1]
    BY <2>1
  <2>3. status' \in [Ctx -> Status]
    BY <1>7, <2>2, TryTypes DEF Resume, SetStatus
  <2>4. QED  BY <1>7, <2>3 DEF Resume, ctxVars, pollVars, kernelVars
<1>8. ASSUME NEW t \in Thread, Unlock(t) PROVE TypeOK'
  <2>1. Left \subseteq {"IN", "OUT", "ERR"}
    BY LeftLists
  <2>2. events_' \subseteq Bits /\ reg' \in (SUBSET {"IN", "OUT", "ERR"}) \cup {NoReg}
    <3>1. CASE UNCHANGED <<reg, events_>>
      BY <3>1
    <3>2. CASE reg' \in {NoReg, Left} /\ events_' = Left
      BY <2>1, <3>2 DEF Bits
    <3>3. QED  BY <1>8, <3>1, <3>2 DEF Unlock, Reregister, CtlDel, CtlSet
  <2>3. edge' \in BOOLEAN
    BY <1>8 DEF Unlock, Reregister, CtlDel, CtlSet
  <2>4. QED  BY <1>8, <2>2, <2>3 DEF Unlock, pollVars, coVars
<1>9. ASSUME NEW t \in Thread, NEW e \in Event, Over(t, e) PROVE TypeOK'
  BY <1>9 DEF Over, ctxVars, pollVars, kernelVars, coVars
<1>10. ASSUME NEW t \in Thread, NEW e \in Event, SetRevents(t, e) PROVE TypeOK'
  <2>1. Report(t, e) \subseteq Bits
    BY DEF Report
  <2>2. revents_' \in [Ctx -> SUBSET Bits]
    BY <1>10, <2>1 DEF SetRevents
  <2>3. QED  BY <1>10, <2>2 DEF SetRevents, ctxVars, kernelVars, coVars
<1>11. QED  BY <1>1, <1>2, <1>3, <1>4, <1>5, <1>6, <1>7, <1>8, <1>9, <1>10 DEF OtherStep, Target

------------------------------------------------------------------------------
(* What a step of a coroutine does *)

\* It changes the word, the place and the poll of no other one.
LEMMA CoLocal ==
  ASSUME IInv, NEW c \in Ctx, CoStep(c), NEW d \in Ctx, d # c
  PROVE  /\ pc'[d] = pc[d] /\ status'[d] = status[d] /\ polls'[d] = polls[d]
         /\ interest'[d] = interest[d] /\ revents_'[d] = revents_[d]
<1> USE DEF IInv, TypeOK, AsleepTypeOK
<1>1. ASSUME NEW i \in Interests[c], Poll(c, i)
      PROVE  /\ pc'[d] = pc[d] /\ status'[d] = status[d] /\ polls'[d] = polls[d]
             /\ interest'[d] = interest[d] /\ revents_'[d] = revents_[d]
  BY <1>1 DEF Poll, Suspend, From, SetStatus
<1>2. CASE Get(c)
  BY <1>2 DEF Get, From, Invalid, SetStatus
<1>3. CASE Add(c)
  BY <1>3 DEF Add, From, Invalid, SetStatus
<1>4. CASE Return(c) \/ Finish(c)
  BY <1>4 DEF Return, Finish, From, pollVars
<1>5. CASE Sched(c)
  BY <1>5 DEF Sched, SchedStep, Switch, SleepAdd, SleepTimeout, SleepRemove, Run, From,
              SetStatus, pollVars
<1>6. QED  BY <1>1, <1>2, <1>3, <1>4, <1>5 DEF CoStep

\* A coroutine without a timeout goes from place to place.
LEMMA CoMoves ==
  ASSUME IInv, NEW c \in Ctx, c \notin Timed, CoStep(c)
  PROVE  \/ /\ pc[c] = "out" /\ pc'[c] = "get" /\ status'[c] = "Yield_Reset_Reset"
            /\ \E i \in Interests[c] : Poll(c, i)
         \/ /\ pc[c] = "get" /\ pc'[c] = "add" /\ status'[c] = "Yield_Reset_Reset"
            /\ Get(c)
         \/ /\ pc[c] \in {"get", "add"} /\ pc'[c] = "sw" /\ status'[c] = "Yield_Break_Reset"
            /\ revents_'[c] = {"NVAL"}
            /\ (Get(c) \/ Add(c)) /\ ptrs_' = ptrs_
         \/ /\ pc[c] = "add" /\ pc'[c] = "sw" /\ status'[c] = "Yield_Reset_Reset"
            /\ Add(c) /\ ptrs_' = ptrs_ \cup {EventOf(c)}
         \/ /\ pc[c] = "sw" /\ pc'[c] = "parked" /\ Sched(c)
            /\ status'[c] = IF status[c] = "Yield_Reset_Reset" THEN "Yield_Set_Reset"
                            ELSE "Ready_Reset_Reset"
         \/ /\ pc[c] = "parked" /\ pc'[c] \in {"woken", "remove"} /\ Sched(c)
            /\ status'[c] = "Ready_Reset_Reset" /\ status[c] = "Ready_Reset_Reset"
         \/ /\ pc[c] \in {"woken", "remove"} /\ pc'[c] = "return" /\ Return(c)
            /\ status'[c] = status[c]
         \/ /\ pc[c] = "return" /\ pc'[c] = "out" /\ Finish(c)
            /\ status'[c] = status[c]
<1> USE DEF IInv, TypeOK, AsleepTypeOK
<1>0. Word(c)
  BY DEF Words
<1>1. ASSUME NEW i \in Interests[c], Poll(c, i)
      PROVE  pc[c] = "out" /\ pc'[c] = "get" /\ status'[c] = "Yield_Reset_Reset"
  BY <1>0, <1>1 DEF Poll, Suspend, From, SetStatus, TryYield, Becomes, Word
<1>2. CASE Get(c)
  <2>1. pc[c] = "get" /\ status[c] = "Yield_Reset_Reset"
    BY <1>0, <1>2 DEF Get, From, Word
  <2>2. CASE in_table
    BY <1>2, <2>1, <2>2 DEF Get, From
  <2>3. CASE ~in_table
    BY <1>2, <2>1, <2>3 DEF Get, From, Invalid, SetStatus, TryResume, Becomes, ctxVars
  <2>4. QED  BY <2>2, <2>3
<1>3. CASE Add(c)
  <2>1. pc[c] = "add" /\ status[c] = "Yield_Reset_Reset" /\ pc'[c] = "sw"
    BY <1>0, <1>3 DEF Add, From, Word
  <2>2. CASE Invalid(c) /\ UNCHANGED ptrs_
    BY <1>3, <2>1, <2>2 DEF Invalid, SetStatus, TryResume, Becomes
  <2>3. CASE ptrs_' = ptrs_ \cup {EventOf(c)} /\ UNCHANGED <<status, revents_>>
    BY <1>3, <2>1, <2>3
  <2>4. QED  BY <1>3, <2>2, <2>3 DEF Add
<1>4. CASE Return(c)
  BY <1>4 DEF Return
<1>5. CASE Finish(c)
  BY <1>5 DEF Finish, From
<1>6. CASE Sched(c)
  <2>1. CASE Switch(c)
    BY <1>0, <1>6, <2>1 DEF Switch, From, SetStatus, TrySw, Becomes, Word
  <2>2. CASE SleepAdd(c) \/ SleepTimeout(c) \/ SleepRemove(c)
    BY <1>0, <2>2 DEF SleepAdd, SleepTimeout, SleepRemove, TrySleepAdd, TrySleepTimeout,
                      TrySleepRemove, Becomes, Fails, Word
  <2>3. CASE Run(c)
    BY <1>6, <2>3 DEF Run, From
  <2>4. QED  BY <1>6, <2>1, <2>2, <2>3 DEF Sched, SchedStep
<1>7. QED  BY <1>1, <1>2, <1>3, <1>4, <1>5, <1>6 DEF CoStep

LEMMA CoWords ==
  ASSUME IInv, NEW c \in Ctx, CoStep(c)
  PROVE  Words'
<1> SUFFICES ASSUME NEW d \in Ctx, d \notin Timed PROVE Word(d)'
  BY DEF Words
<1>1. Word(d)
  BY DEF IInv, Words
<1>2. CASE d # c
  <2>1. pc'[d] = pc[d] /\ status'[d] = status[d]
    BY <1>2, CoLocal
  <2>2. QED  BY <1>1, <2>1 DEF Word
<1>3. CASE d = c
  <2>1. \/ pc'[d] = "get" /\ status'[d] = "Yield_Reset_Reset"
        \/ pc'[d] = "add" /\ status'[d] = "Yield_Reset_Reset"
        \/ pc'[d] = "sw" /\ status'[d] \in {"Yield_Reset_Reset", "Yield_Break_Reset"}
        \/ pc'[d] = "parked" /\ status'[d] \in {"Yield_Set_Reset", "Ready_Reset_Reset"}
        \/ pc'[d] \in {"woken", "remove", "return", "out"} /\ status'[d] = "Ready_Reset_Reset"
    BY <1>1, <1>3, CoMoves DEF Word
  <2>2. QED  BY <2>1 DEF Word
<1>4. QED  BY <1>2, <1>3

LEMMA CoPolls ==
  ASSUME IInv, NEW c \in Ctx, CoStep(c)
  PROVE  Polls'
<1> SUFFICES ASSUME NEW d \in Ctx, pc'[d] # "out"
             PROVE  polls'[d] \in 1 .. MaxPolls[d] /\ interest'[d] \in Interests[d]
  BY DEF Polls
<1>1. CASE d # c
  BY <1>1, CoLocal DEF IInv, Polls
<1>2. CASE d = c
  <2>1. ASSUME NEW i \in Interests[c], Poll(c, i)
        PROVE  polls'[c] \in 1 .. MaxPolls[c] /\ interest'[c] \in Interests[c]
    <3>1. polls[c] \in Nat /\ MaxPolls[c] \in Nat /\ polls[c] < MaxPolls[c]
      BY <2>1, FdAssumption DEF IInv, TypeOK, Poll
    <3>2. polls'[c] = polls[c] + 1 /\ interest'[c] = i
      BY <2>1 DEF IInv, TypeOK, Poll
    <3>3. QED  BY <3>1, <3>2
  <2>2. CASE Get(c) \/ Add(c) \/ Return(c) \/ Finish(c) \/ Sched(c)
    <3>1. pc[c] # "out" /\ polls' = polls /\ interest' = interest
      BY <1>2, <2>2 DEF Get, Add, Return, Finish, Sched, SchedStep, Switch, SleepAdd,
                        SleepTimeout, SleepRemove, Run, From, pollVars
    <3>2. QED  BY <1>2, <3>1 DEF IInv, Polls
  <2>3. QED  BY <1>2, <2>1, <2>2 DEF CoStep
<1>3. QED  BY <1>1, <1>2

\* Nothing but add touches the lists.
LEMMA CoShared ==
  ASSUME NEW c \in Ctx, CoStep(c)
  PROVE  /\ UNCHANGED <<in_table, mtx_, file, ready, threadVars>>
         /\ Add(c) \/ UNCHANGED <<events_, ptrs_, reg, edge>>
<1>1. ASSUME NEW i \in Interests[c], Poll(c, i)
      PROVE  UNCHANGED <<in_table, mtx_, file, ready, threadVars, events_, ptrs_, reg, edge>>
  BY <1>1 DEF Poll, ctxVars, kernelVars
<1>2. CASE Get(c) \/ Return(c) \/ Finish(c) \/ Sched(c)
  BY <1>2 DEF Get, Return, Finish, Sched, ctxVars, kernelVars
<1>3. CASE Add(c)
  BY <1>3 DEF Add
<1>4. QED  BY <1>1, <1>2, <1>3 DEF CoStep

\* What target() has in its hands, or may take from a list, is no event of a
\* coroutine that is about to add one.
LEMMA CoThreads ==
  ASSUME IInv, NEW c \in Ctx, CoStep(c)
  PROVE  Threads'
<1>0. Threads /\ UNCHANGED <<in_table, mtx_, file, tpc, what, todo, one>>
  BY CoShared DEF IInv, threadVars
<1>1. ASSUME NEW t \in Thread, tpc[t] \in {"next", "resume"} PROVE ptrs_' = ptrs_
  <2>1. mtx_ = t /\ t # None
    BY <1>1, FdAssumption DEF IInv, TypeOK, Thread
  <2>2. ~Add(c)
    BY <2>1 DEF Add
  <2>3. QED  BY <2>2, CoShared
<1>2. ASSUME NEW t \in Thread, tpc[t] = "resume", one[t][1] \notin Timed
      PROVE  revents_'[one[t][1]] # {}
  <2>1. one[t] \in Event /\ revents_[one[t][1]] # {}
    BY <1>0, <1>2 DEF Threads
  <2>2. PICK e \in Event : e = one[t]
    BY <2>1
  <2>3. e[1] \in Ctx /\ Under(e) /\ e[1] \notin Timed
    BY <1>2, <2>2, EventParts DEF Under
  <2>4. InPoll(e[1])
    BY <2>3 DEF IInv, Hands
  <2>5. CASE e[1] # c
    BY <2>1, <2>2, <2>3, <2>5, CoLocal
  <2>6. CASE e[1] = c
    <3>1. Sched(c)
      BY <2>3, <2>4, <2>6, CoMoves DEF InPoll
    <3>2. revents_' = revents_
      BY <3>1 DEF Sched, pollVars
    <3>3. QED  BY <2>1, <3>2
  <2>7. QED  BY <2>5, <2>6
<1>3. QED  BY <1>0, <1>1, <1>2 DEF Threads, Report

\* An event stays with whoever has it, and add puts one in a list.
LEMMA CoUnder ==
  ASSUME NEW c \in Ctx, CoStep(c), NEW e
  PROVE  /\ Under(e) => Under(e)'
         /\ Under(e)' => Under(e) \/ (Add(c) /\ ptrs_' # ptrs_ /\ e = EventOf(c))
<1>1. tpc' = tpc /\ todo' = todo /\ one' = one
  BY CoShared DEF threadVars
<1>2. ptrs_' = ptrs_ \/ (Add(c) /\ ptrs_' = ptrs_ \cup {EventOf(c)})
  BY CoShared DEF Add
<1>3. QED  BY <1>1, <1>2 DEF Under

LEMMA CoHands ==
  ASSUME IInv, NEW c \in Ctx, CoStep(c)
  PROVE  Hands'
<1>1. ASSUME NEW d \in Ctx, d # c
      PROVE  /\ EventOf(d)' = EventOf(d) /\ (InPoll(d)' <=> InPoll(d))
             /\ revents_'[d] = revents_[d] /\ pc'[d] = pc[d]
  BY <1>1, CoLocal DEF EventOf, InPoll
<1>2. ASSUME NEW e \in Event, Under(e)', e[1] \notin Timed, e[1] # c
      PROVE  e = EventOf(e[1])' /\ InPoll(e[1])'
  <2>1. e[1] \in Ctx
    BY EventParts
  <2>2. e # EventOf(c)
    BY <1>2 DEF EventOf
  <2>3. Under(e)
    BY <1>2, <2>2, CoUnder
  <2>4. QED  BY <1>1, <1>2, <2>1, <2>3 DEF IInv, Hands
<1>3. ASSUME NEW d \in Ctx, d \notin Timed, d # c
      PROVE  /\ InPoll(d)' => Under(EventOf(d))'
             /\ pc'[d] \in {"sw", "parked", "woken"} /\ ~InPoll(d)' => revents_'[d] # {}
  <2>1. /\ EventOf(d)' = EventOf(d) /\ (InPoll(d)' <=> InPoll(d))
        /\ revents_'[d] = revents_[d] /\ pc'[d] = pc[d]
    BY <1>1, <1>3
  <2>2. Under(EventOf(d)) => Under(EventOf(d))'
    <3>1. PICK e : e = EventOf(d)
      OBVIOUS
    <3>2. Under(e) => Under(e)'
      BY CoUnder
    <3>3. QED  BY <2>1, <3>1, <3>2 DEF Under
  <2>3. QED  BY <1>3, <2>1, <2>2 DEF IInv, Hands
<1>4. ASSUME c \notin Timed, NEW e \in Event, Under(e)', e[1] = c
      PROVE  e = EventOf(c)' /\ InPoll(c)'
  <2>1. CASE Under(e)
    <3>1. e = EventOf(c) /\ InPoll(c)
      BY <1>4, <2>1 DEF IInv, Hands
    <3>2. pc[c] \in {"sw", "parked"} /\ status[c] \in Unresumed
      BY <3>1 DEF InPoll
    <3>3. pc[c] = "sw" => status[c] = "Yield_Reset_Reset"
      BY <1>4, <3>2 DEF IInv, Words, Word, Unresumed
    <3>4. pc'[c] = "parked" /\ status'[c] = "Yield_Set_Reset" /\ Sched(c)
      BY <1>4, <3>2, <3>3, CoMoves DEF Unresumed
    <3>5. EventOf(c)' = EventOf(c)
      BY <3>4 DEF Sched, pollVars, EventOf
    <3>6. QED  BY <3>1, <3>4, <3>5 DEF InPoll, Unresumed
  <2>2. CASE ~Under(e)
    <3>1. Add(c) /\ ptrs_' # ptrs_ /\ e = EventOf(c)
      BY <1>4, <2>2, CoUnder
    <3>2. pc[c] = "add" /\ UNCHANGED <<polls, interest>>
      BY <3>1 DEF Add, From
    <3>3. pc'[c] = "sw" /\ status'[c] = "Yield_Reset_Reset"
      BY <1>4, <3>1, <3>2, CoMoves
    <3>4. QED  BY <3>1, <3>2, <3>3 DEF InPoll, Unresumed, EventOf
  <2>3. QED  BY <2>1, <2>2
<1>5. ASSUME c \notin Timed
      PROVE  /\ InPoll(c)' => Under(EventOf(c))'
             /\ pc'[c] \in {"sw", "parked", "woken"} /\ ~InPoll(c)' => revents_'[c] # {}
  <2>1. CASE pc'[c] \in {"get", "add", "return", "out", "remove"}
    BY <2>1 DEF InPoll
  <2>2. CASE Get(c) \/ Add(c)
    <3>1. CASE status'[c] = "Yield_Break_Reset" /\ revents_'[c] = {"NVAL"}
      BY <3>1 DEF InPoll, Unresumed
    <3>2. CASE /\ pc[c] = "add" /\ pc'[c] = "sw" /\ status'[c] = "Yield_Reset_Reset"
               /\ Add(c) /\ ptrs_' = ptrs_ \cup {EventOf(c)}
      <4>1. EventOf(c)' = EventOf(c)
        BY <3>2 DEF Add, EventOf
      <4>2. QED  BY <3>2, <4>1 DEF Under, InPoll, Unresumed
    <3>3. QED
      <4>1. pc[c] \in {"get", "add"}
        BY <2>2 DEF Get, Add, From
      <4>2. QED  BY <1>5, <2>1, <3>1, <3>2, <4>1, CoMoves
  <2>3. CASE Sched(c)
    <3>1. /\ EventOf(c)' = EventOf(c) /\ revents_' = revents_
          /\ pc[c] \in {"sw", "parked"} /\ status[c] \in Status
      BY <2>3 DEF Sched, SchedStep, Switch, SleepAdd, SleepTimeout, SleepRemove, Run, From,
                  pollVars, EventOf, IInv, TypeOK, AsleepTypeOK
    <3>2. InPoll(c)' => InPoll(c)
      BY <1>5, <3>1, CoMoves DEF InPoll, Unresumed
    <3>3. ~InPoll(c)' /\ pc'[c] \in {"sw", "parked", "woken"} => ~InPoll(c)
      BY <1>5, <3>1, CoMoves DEF InPoll, Unresumed, IInv, Words, Word
    <3>4. InPoll(c) => Under(EventOf(c))
      BY <1>5 DEF IInv, Hands
    <3>5. Under(EventOf(c)) => Under(EventOf(c))'
      <4>1. PICK e : e = EventOf(c)
        OBVIOUS
      <4>2. Under(e) => Under(e)'
        BY CoUnder
      <4>3. QED  BY <3>1, <4>1, <4>2 DEF Under
    <3>6. ~InPoll(c) /\ pc[c] \in {"sw", "parked"} => revents_[c] # {}
      BY <1>5 DEF IInv, Hands
    <3>7. QED  BY <3>1, <3>2, <3>3, <3>4, <3>5, <3>6
  <2>4. QED
    <3>1. \/ pc'[c] \in {"get", "add", "return", "out", "remove"}
          \/ Get(c) \/ Add(c) \/ Sched(c)
      BY <1>5, CoMoves
    <3>2. QED  BY <2>1, <2>2, <2>3, <3>1
<1>6. QED
  <2>1. ASSUME NEW e \in Event, Under(e)', e[1] \notin Timed
        PROVE  e = EventOf(e[1])' /\ InPoll(e[1])'
    <3>1. CASE e[1] = c
      BY <1>4, <2>1, <3>1
    <3>2. CASE e[1] # c
      BY <1>2, <2>1, <3>2
    <3>3. QED  BY <3>1, <3>2
  <2>2. ASSUME NEW d \in Ctx, d \notin Timed
        PROVE  /\ InPoll(d)' => Under(EventOf(d))'
               /\ pc'[d] \in {"sw", "parked", "woken"} /\ ~InPoll(d)' => revents_'[d] # {}
    <3>1. CASE d = c
      BY <1>5, <2>2, <3>1
    <3>2. CASE d # c
      BY <1>3, <2>2, <3>2
    <3>3. QED  BY <3>1, <3>2
  <2>3. QED  BY <2>1, <2>2 DEF Hands

\* What add does to the registration; events_ = {} if and only if there is none.
LEMMA AddRegisters ==
  ASSUME IInv, NEW c \in Ctx, Add(c)
  PROVE  \/ UNCHANGED <<events_, ptrs_, reg, edge>>
         \/ \E i \in SUBSET {"IN", "OUT"} :
              /\ i # {} /\ Left' = Left \cup {ListOf(i)} /\ ptrs_' # {}
              /\ \/ i \subseteq events_ /\ UNCHANGED <<events_, reg, edge>>
                 \/ /\ ~(i \subseteq events_) /\ file = "open"
                    /\ events_' = i /\ reg' = events_ \cup i
                    /\ edge' = (edge \/ ready \cap (events_ \cup i \cup {"ERR"}) # {})
<1>1. PICK i \in SUBSET {"IN", "OUT"} : i = interest[c] /\ i # {}
  <2>1. pc[c] # "out"
    BY DEF Add, From
  <2>2. QED  BY <2>1, FdAssumption DEF IInv, Polls
<1>2. CASE ptrs_' = ptrs_ \cup {EventOf(c)}
  <2>1. EventOf(c)[3] = i
    BY <1>1 DEF EventOf
  <2>2. Left' = Left \cup {ListOf(i)} /\ ptrs_' # {}
    BY <1>2, <2>1 DEF Left, ListOf
  <2>3. CASE i \subseteq events_
    BY <1>1, <2>2, <2>3 DEF Add
  <2>4. CASE ~(i \subseteq events_) /\ CanRegister
    BY <1>1, <2>2, <2>4 DEF Add, CanRegister, CanAdd, CanMod, Register, CtlSet
  <2>5. CASE ~(i \subseteq events_) /\ ~CanRegister
    <3>1. UNCHANGED <<events_, ptrs_, reg, edge>>
      BY <1>1, <2>5 DEF Add
    <3>2. QED  BY <3>1
  <2>6. QED  BY <2>3, <2>4, <2>5
<1>3. CASE ptrs_' = ptrs_
  <2>1. CASE i \subseteq events_ \/ CanRegister
    <3>1. ptrs_' = ptrs_ \cup {EventOf(c)}
      BY <1>1, <2>1 DEF Add
    <3>2. QED  BY <1>2, <3>1
  <2>2. CASE ~(i \subseteq events_) /\ ~CanRegister
    BY <1>1, <2>2 DEF Add
  <2>3. QED  BY <2>1, <2>2
<1>4. QED  BY <1>2, <1>3 DEF Add

LEMMA CoWatch ==
  ASSUME IInv, NEW c \in Ctx, CoStep(c)
  PROVE  Watch'
<1>1. CASE UNCHANGED <<events_, ptrs_, reg, edge>>
  BY <1>1, CoShared DEF IInv, Watch, Left
<1>2. CASE Add(c) /\ ~UNCHANGED <<events_, ptrs_, reg, edge>>
  <2>1. PICK i \in SUBSET {"IN", "OUT"} :
              /\ i # {} /\ Left' = Left \cup {ListOf(i)} /\ ptrs_' # {}
              /\ \/ i \subseteq events_ /\ UNCHANGED <<events_, reg, edge>>
                 \/ /\ ~(i \subseteq events_) /\ file = "open"
                    /\ events_' = i /\ reg' = events_ \cup i
                    /\ edge' = (edge \/ ready \cap (events_ \cup i \cup {"ERR"}) # {})
    BY <1>2, AddRegisters
  <2>2. ListOf(i) \in {"IN", "OUT", "ERR"} /\ (ListOf(i) # "ERR" => ListOf(i) \in i)
    BY <2>1, ListOfBits
  <2>3. Left \subseteq {"IN", "OUT", "ERR"} /\ (Left = {} <=> ptrs_ = {}) /\ file' = file
    BY LeftLists, CoShared DEF IInv, TypeOK
  <2>4. CASE i \subseteq events_ /\ UNCHANGED <<events_, reg>>
    BY <2>1, <2>2, <2>3, <2>4 DEF IInv, Watch
  <2>5. CASE ~(i \subseteq events_) /\ file = "open" /\ events_' = i /\ reg' = events_ \cup i
    <3>1. reg' # NoReg
      BY <2>1, <2>5 DEF IInv, Watch, NoReg
    <3>2. events_' \subseteq {"IN", "OUT", "ERR"} /\ events_' \subseteq reg' /\ events_' # {}
          /\ ~(events_' \subseteq {"ERR"})
      BY <2>1, <2>5
    <3>3. Left' \ {"ERR"} \subseteq reg'
      <4>1. ptrs_ = {} => Left = {}
        BY <2>3
      <4>2. ptrs_ # {} => Left \ {"ERR"} \subseteq events_ \cup i
        <5>1. CASE events_ \subseteq {"ERR"}
          BY <2>5, <5>1 DEF IInv, Watch
        <5>2. CASE "IN" \in events_ \/ "OUT" \in events_
          BY <2>1, <2>3, <2>5, <5>2
        <5>3. QED  BY <5>1, <5>2 DEF IInv, Watch
      <4>3. QED  BY <2>1, <2>2, <2>5, <4>1, <4>2
    <3>4. QED  BY <3>1, <3>2, <3>3 DEF Watch
  <2>6. QED  BY <2>1, <2>4, <2>5
<1>3. QED  BY <1>1, <1>2, CoShared

LEMMA CoEdges ==
  ASSUME IInv, NEW c \in Ctx, CoStep(c)
  PROVE  Edges'
<1>0. UNCHANGED <<in_table, mtx_, file, ready, tpc, what>>
  BY CoShared DEF threadVars
<1>1. CASE UNCHANGED <<events_, ptrs_, reg, edge>>
  BY <1>0, <1>1 DEF IInv, Edges, Concerns, Told, Left
<1>2. CASE Add(c) /\ ~UNCHANGED <<events_, ptrs_, reg, edge>>
  <2>1. PICK i \in SUBSET {"IN", "OUT"} :
              /\ i # {} /\ Left' = Left \cup {ListOf(i)} /\ ptrs_' # {}
              /\ \/ i \subseteq events_ /\ UNCHANGED <<events_, reg, edge>>
                 \/ /\ ~(i \subseteq events_) /\ file = "open"
                    /\ events_' = i /\ reg' = events_ \cup i
                    /\ edge' = (edge \/ ready \cap (events_ \cup i \cup {"ERR"}) # {})
    BY <1>2, AddRegisters
  <2>2. ListOf(i) \in {"IN", "OUT", "ERR"} /\ (ListOf(i) # "ERR" => ListOf(i) \in i)
    BY <2>1, ListOfBits
  <2>3. mtx_ = None
    BY <1>2 DEF Add
  <2>4. ASSUME in_table', NEW b \in ready', Concerns(b)' PROVE Told(b)'
    <3>1. in_table /\ b \in ready /\ file = "open"
      BY <1>0, <2>4 DEF IInv, Threads
    <3>2. CASE i \subseteq events_ /\ UNCHANGED <<events_, reg, edge>>
      <4>1. Concerns(b)
        BY <2>1, <2>2, <2>3, <2>4, <3>2 DEF Concerns
      <4>2. Told(b)
        BY <3>1, <4>1 DEF IInv, Edges
      <4>3. QED  BY <1>0, <3>2, <4>2 DEF Told
    <3>3. CASE /\ events_' = i
               /\ edge' = (edge \/ ready \cap (events_ \cup i \cup {"ERR"}) # {})
      <4>1. CASE b \in events_ \cup i \cup {"ERR"}
        BY <3>1, <3>3, <4>1 DEF Told
      <4>2. CASE b \notin events_ \cup i \cup {"ERR"}
        <5>1. Concerns(b)
          BY <2>1, <2>2, <2>3, <2>4, <3>3, <4>2 DEF Concerns
        <5>2. Told(b)
          BY <3>1, <5>1 DEF IInv, Edges
        <5>3. QED  BY <1>0, <3>3, <5>2 DEF Told
      <4>3. QED  BY <4>1, <4>2
    <3>4. QED  BY <2>1, <3>2, <3>3
  <2>5. QED  BY <2>4 DEF Edges
<1>3. QED  BY <1>1, <1>2, CoShared

LEMMA CoPreserves ==
  ASSUME IInv, NEW c \in Ctx, CoStep(c)
  PROVE  IInv'
  BY CoTypes, CoWords, CoPolls, CoThreads, CoHands, CoWatch, CoEdges DEF IInv

------------------------------------------------------------------------------
(* The file, epoll, and close() before target() *)

KernelStep ==
  EpollWait \/ DoEvent \/ Del \/ Close \/ \E b \in Arrivals : Arrive(b) \/ Drain(b)

LEMMA KernelShared ==
  ASSUME KernelStep
  PROVE  /\ UNCHANGED <<coVars, pollVars, mtx_, events_, ptrs_, todo, one>>
         /\ reg' = reg \/ Close
  BY DEF KernelStep, EpollWait, DoEvent, Del, Close, Arrive, Drain, ctxVars, pollVars,
         kernelVars, threadVars

LEMMA KernelPreserves ==
  ASSUME IInv, KernelStep
  PROVE  IInv'
<1>0. /\ UNCHANGED <<status, timed_out, pc, polls, interest, revents_>>
      /\ UNCHANGED <<mtx_, events_, ptrs_, todo, one>>
  BY KernelShared DEF coVars, pollVars
<1>1. TypeOK'
  BY OtherTypes DEF KernelStep, OtherStep
<1>2. Words' /\ Polls'
  BY <1>0 DEF IInv, Words, Word, Polls
\* A thread that gets the mutex, or has it, does none of these steps.
<1>3. ASSUME NEW t \in Thread
      PROVE  /\ tpc'[t] = "resume" <=> tpc[t] = "resume"
             /\ tpc'[t] = "next" <=> tpc[t] = "next"
             /\ tpc[t] \in {"next", "resume"} => what'[t] = what[t]
  <2> USE FdAssumption DEF IInv, TypeOK, Thread
  <2>1. CASE EpollWait
    BY <2>1 DEF EpollWait
  <2>2. CASE DoEvent
    BY <2>2 DEF DoEvent
  <2>3. CASE Del
    BY <2>3 DEF Del
  <2>4. CASE Close \/ \E b \in Arrivals : Arrive(b) \/ Drain(b)
    BY <2>4 DEF Close, Arrive, Drain, threadVars
  <2>5. QED  BY <2>1, <2>2, <2>3, <2>4 DEF KernelStep
<1>4. Threads'
  <2>1. ASSUME NEW t \in Thread
        PROVE  /\ tpc'[t] \notin {"next", "resume"} => todo'[t] = {}
               /\ tpc'[t] = "resume" =>
                    /\ one'[t] \in Event /\ one'[t] \notin todo'[t] /\ one'[t] \notin ptrs_'
                    /\ one'[t][1] \notin Timed => revents_'[one'[t][1]] # {}
               /\ \A e \in todo'[t] : e \notin ptrs_' /\ Report(t, e)' # {}
    <3>1. \A e \in todo[t] : tpc[t] \in {"next", "resume"}
      BY DEF IInv, Threads
    <3>2. QED  BY <1>0, <1>3, <3>1 DEF IInv, Threads, Report
  <2>2. in_table' => tpc'[Closer] = "idle" /\ file' = "open"
    <3> USE FdAssumption DEF IInv, TypeOK, Thread
    <3>1. CASE EpollWait
      BY <3>1 DEF EpollWait, Threads, ctxVars
    <3>2. CASE DoEvent
      BY <3>2 DEF DoEvent, Threads, ctxVars, kernelVars
    <3>3. CASE Del
      BY <3>3 DEF Del
    <3>4. CASE Close
      BY <3>4 DEF Close, Threads, ctxVars
    <3>5. ASSUME NEW b \in Arrivals, Arrive(b) \/ Drain(b)
          PROVE  in_table' => tpc'[Closer] = "idle" /\ file' = "open"
      BY <3>5 DEF Arrive, Drain, Threads, ctxVars, threadVars
    <3>6. QED  BY <3>1, <3>2, <3>3, <3>4, <3>5 DEF KernelStep
  <2>3. QED  BY <2>1, <2>2 DEF Threads, Report
<1>5. Hands'
  <2>1. \A e : Under(e)' <=> Under(e)
    BY <1>0, <1>3 DEF Under
  <2>2. \A c \in Ctx : EventOf(c)' = EventOf(c) /\ (InPoll(c)' <=> InPoll(c))
    BY <1>0 DEF EventOf, InPoll
  <2>3. ASSUME NEW c \in Ctx, c \notin Timed
        PROVE  /\ InPoll(c)' => Under(EventOf(c))'
               /\ pc'[c] \in {"sw", "parked", "woken"} /\ ~InPoll(c)' => revents_'[c] # {}
    <3>1. PICK e : e = EventOf(c)
      OBVIOUS
    <3>2. Under(e)' <=> Under(e)
      BY <2>1
    <3>3. Under(EventOf(c))' <=> Under(EventOf(c))
      BY <2>2, <3>1, <3>2 DEF Under
    <3>4. QED  BY <1>0, <2>2, <2>3, <3>3 DEF IInv, Hands
  <2>4. ASSUME NEW e \in Event, Under(e)', e[1] \notin Timed
        PROVE  e = EventOf(e[1])' /\ InPoll(e[1])'
    BY <2>1, <2>2, <2>4, EventParts DEF IInv, Hands
  <2>5. QED  BY <2>3, <2>4 DEF Hands
<1>6. Watch'
  <2>1. Left' = Left
    BY <1>0 DEF Left
  <2>2. CASE Close
    BY <1>0, <2>2 DEF Close, IInv, Watch
  <2>3. CASE ~Close
    <3>1. reg' = reg
      BY <2>3, KernelShared
    <3>2. file' = file
      BY <2>3 DEF KernelStep, EpollWait, DoEvent, Del, Arrive, Drain, kernelVars
    <3>3. QED  BY <1>0, <2>1, <3>1, <3>2 DEF IInv, Watch
  <2>4. QED  BY <2>2, <2>3
<1>7. Edges'
  <2> SUFFICES ASSUME in_table', NEW b \in ready', Concerns(b)' PROVE Told(b)'
    BY DEF Edges
  <2>0. Left' = Left /\ Concerns(b)
    BY <1>0 DEF Left, Concerns
  <2>1. in_table /\ file = "open"
    <3>1. in_table
      BY DEF KernelStep, EpollWait, DoEvent, Del, Close, Arrive, Drain, ctxVars
    <3>2. QED  BY <3>1 DEF IInv, Threads
  \* What concerns somebody is registered.
  <2>2. reg # NoReg /\ b \in reg \cup {"ERR"}
    <3>1. Left \subseteq {"IN", "OUT", "ERR"} /\ (Left = {} <=> ptrs_ = {})
      BY LeftLists DEF IInv, TypeOK
    <3>2. QED  BY <2>0, <2>1, <3>1 DEF IInv, Watch, Concerns
  <2>3. CASE EpollWait
    <3>1. b \in ready /\ b \in News
      BY <2>2, <2>3 DEF EpollWait, News
    <3>2. tpc'[Poller] = "get" /\ what'[Poller] = News
      BY <2>3, <3>1 DEF EpollWait, IInv, TypeOK, Thread
    <3>3. QED  BY <3>1, <3>2 DEF Told
  <2>4. CASE DoEvent
    <3>1. Told(b)
      BY <2>0, <2>1, <2>4 DEF DoEvent, kernelVars, IInv, Edges
    <3>2. tpc'[Poller] = "lock" /\ what' = what /\ edge' = edge
      BY <2>1, <2>4 DEF DoEvent, IInv, TypeOK, Thread, kernelVars
    <3>3. tpc[Poller] = "get"
      BY <2>4 DEF DoEvent
    <3>4. QED  BY <3>1, <3>2, <3>3 DEF Told
  <2>5. CASE Del
    BY <2>5 DEF Del
  <2>6. CASE Close
    BY <2>1, <2>6 DEF Close, IInv, Threads
  <2>7. ASSUME NEW a \in Arrivals, Arrive(a) PROVE Told(b)'
    <3>1. CASE b = a
      BY <2>2, <2>7, <3>1 DEF Arrive, Told
    <3>2. CASE b # a
      <4>1. b \in ready
        BY <2>7, <3>2 DEF Arrive
      <4>2. Told(b)
        BY <2>0, <2>1, <4>1 DEF IInv, Edges
      <4>3. QED  BY <2>7, <4>2 DEF Arrive, Told, threadVars
    <3>3. QED  BY <3>1, <3>2
  <2>8. ASSUME NEW a \in Arrivals, Drain(a) PROVE Told(b)'
    <3>1. b \in ready
      BY <2>8 DEF Drain
    <3>2. Told(b)
      BY <2>0, <2>1, <3>1 DEF IInv, Edges
    <3>3. QED  BY <2>8, <3>2 DEF Drain, Told, threadVars
  <2>9. QED  BY <2>3, <2>4, <2>5, <2>6, <2>7, <2>8 DEF KernelStep
<1>8. QED  BY <1>1, <1>2, <1>4, <1>5, <1>6, <1>7 DEF IInv

------------------------------------------------------------------------------
(* target() *)

LEMMA TargetTypes ==
  ASSUME IInv, NEW t \in Thread, Target(t)
  PROVE  TypeOK'
  BY OtherTypes DEF OtherStep

\* The mutex keeps the other thread out.
LEMMA OneTarget ==
  ASSUME IInv, NEW t \in Thread, mtx_ \in {None, t}, NEW s \in Thread, s # t
  PROVE  tpc[s] \notin {"next", "resume"} /\ todo[s] = {}
<1>1. mtx_ # s
  BY FdAssumption DEF Thread
<1>2. tpc[s] \notin {"next", "resume"}
  BY <1>1 DEF IInv, TypeOK
<1>3. QED  BY <1>2 DEF IInv, Threads

\* Hands says the same when the coroutines and what is under way are the same.
LEMMA SameHands ==
  ASSUME Hands, UNCHANGED <<status, pc, polls, interest>>,
         \A e \in Event : e[1] \notin Timed => (Under(e)' <=> Under(e)),
         Polls,
         \A c \in Ctx : revents_'[c] = revents_[c] \/ revents_'[c] # {}
  PROVE  Hands'
<1>1. \A c \in Ctx : EventOf(c)' = EventOf(c) /\ (InPoll(c)' <=> InPoll(c))
  BY DEF EventOf, InPoll
<1>2. ASSUME NEW c \in Ctx, c \notin Timed
      PROVE  /\ InPoll(c)' => Under(EventOf(c))'
             /\ pc'[c] \in {"sw", "parked", "woken"} /\ ~InPoll(c)' => revents_'[c] # {}
  <2>1. CASE InPoll(c)
    <3>1. pc[c] # "out"
      BY <2>1 DEF InPoll
    <3>2. PICK e \in Event : e = EventOf(c) /\ e[1] = c
      BY <3>1, IsEvent DEF Polls
    <3>3. Under(e)' <=> Under(e)
      BY <1>2, <3>2
    <3>4. Under(EventOf(c))' <=> Under(EventOf(c))
      BY <1>1, <3>2, <3>3 DEF Under
    <3>5. QED  BY <1>1, <1>2, <2>1, <3>4 DEF Hands
  <2>2. CASE ~InPoll(c)
    BY <1>1, <1>2, <2>2 DEF Hands
  <2>3. QED  BY <2>1, <2>2
<1>3. ASSUME NEW e \in Event, Under(e)', e[1] \notin Timed
      PROVE  e = EventOf(e[1])' /\ InPoll(e[1])'
  BY <1>1, <1>3, EventParts DEF Hands
<1>4. QED  BY <1>2, <1>3 DEF Hands

LEMMA LockPreserves ==
  ASSUME IInv, NEW t \in Thread, Lock(t)
  PROVE  IInv'
<1>0. /\ UNCHANGED <<in_table, events_, what, one, polls, interest, revents_>>
      /\ UNCHANGED <<file, ready, reg, edge, status, timed_out, pc>>
      /\ tpc[t] = "lock" /\ tpc' = [tpc EXCEPT ![t] = "next"] /\ mtx_ = None /\ mtx_' = t
      /\ todo' = [todo EXCEPT ![t] = {e \in ptrs_ : Report(t, e) # {}}]
      /\ ptrs_' = {e \in ptrs_ : Report(t, e) = {}}
  BY DEF Lock, pollVars, kernelVars, coVars
<1>1. TypeOK'
  BY TargetTypes DEF Target
<1>2. Words' /\ Polls'
  BY <1>0 DEF IInv, Words, Word, Polls
<1>3. ASSUME NEW s \in Thread, s # t
      PROVE  /\ tpc'[s] = tpc[s] /\ todo'[s] = {} /\ todo[s] = {}
             /\ tpc[s] \notin {"next", "resume"}
  BY <1>0, <1>3, OneTarget DEF IInv, TypeOK
<1>4. /\ tpc'[t] = "next" /\ todo'[t] = {e \in ptrs_ : Report(t, e) # {}}
      /\ todo[t] = {}
  BY <1>0 DEF IInv, TypeOK, Threads
<1>5. Threads'
  <2>1. \A e : Report(t, e)' = Report(t, e)
    BY <1>0 DEF Report
  <2>2. in_table' => tpc'[Closer] = "idle" /\ file' = "open"
    BY <1>0 DEF IInv, Threads, TypeOK
  <2>3. \A e \in todo'[t] : e \notin ptrs_' /\ Report(t, e)' # {}
    BY <1>0, <1>4, <2>1
  <2>4. QED  BY <1>3, <1>4, <2>2, <2>3 DEF Threads
<1>6. Hands'
  <2>1. \A e \in Event : Under(e)' <=> Under(e)
    BY <1>0, <1>3, <1>4 DEF Under
  <2>2. QED  BY <1>0, <2>1, SameHands DEF IInv
<1>7. Left' \subseteq Left /\ ptrs_' \subseteq ptrs_
  BY <1>0 DEF Left
<1>8. Watch'
  BY <1>0, <1>7 DEF IInv, Watch
<1>9. Edges'
  <2> SUFFICES ASSUME in_table', NEW b \in ready', Concerns(b)' PROVE Told(b)'
    BY DEF Edges
  <2>1. in_table /\ b \in ready /\ t = Poller /\ mtx_' # None
    BY <1>0, FdAssumption DEF IInv, Threads, Thread
  <2>2. PICK e \in ptrs_ : Report(t, e) = {} /\ (b = ListOf(e[3]) \/ b = "ERR")
    BY <1>0, <2>1 DEF Concerns, Left
  <2>3. b \notin what[Poller]
    BY <2>1, <2>2 DEF Report
  <2>4. Concerns(b)
    BY <1>0, <2>2 DEF Concerns, Left
  <2>5. Told(b)
    BY <2>1, <2>4 DEF IInv, Edges
  <2>6. QED  BY <1>0, <2>3, <2>5 DEF Told
<1>10. QED  BY <1>1, <1>2, <1>5, <1>6, <1>8, <1>9 DEF IInv

\* A step that takes an event on does not concern the lists and epoll.
LEMMA SameWatch ==
  ASSUME IInv, UNCHANGED <<in_table, mtx_, events_, ptrs_, file, ready, reg, edge, what>>,
         NEW t \in Thread, tpc[t] \in {"next", "resume"}, tpc'[t] \in {"next", "resume"},
         tpc' = [tpc EXCEPT ![t] = tpc'[t]]
  PROVE  Watch' /\ Edges'
<1>1. Left' = Left
  BY DEF Left
<1>2. \A b : Concerns(b)' <=> Concerns(b)
  BY <1>1 DEF Concerns
<1>3. \A b : Told(b) => Told(b)'
  <2>1. Poller \in Thread /\ \A s \in Thread \ {t} : tpc'[s] = tpc[s]
    BY DEF IInv, TypeOK, Thread
  <2>2. tpc[Poller] \in {"get", "lock"} => tpc'[Poller] = tpc[Poller]
    BY <2>1
  <2>3. QED  BY <2>2 DEF Told
<1>4. Watch'
  BY <1>1 DEF IInv, Watch
<1>5. Edges'
  BY <1>2, <1>3 DEF IInv, Edges
<1>6. QED  BY <1>4, <1>5

LEMMA OverPreserves ==
  ASSUME IInv, NEW t \in Thread, NEW e \in Event, Over(t, e)
  PROVE  IInv'
<1>0. /\ UNCHANGED <<in_table, mtx_, events_, ptrs_, file, ready, reg, edge, tpc, what, one>>
      /\ UNCHANGED <<polls, interest, revents_, status, timed_out, pc>>
      /\ tpc[t] = "next" /\ e \in todo[t] /\ finish_(e)
      /\ todo' = [todo EXCEPT ![t] = @ \ {e}]
  BY DEF Over, ctxVars, pollVars, kernelVars, coVars
<1>1. TypeOK'
  BY TargetTypes DEF Target
<1>2. Words' /\ Polls'
  BY <1>0 DEF IInv, Words, Word, Polls
<1>3. \A s \in Thread : todo'[s] = IF s = t THEN todo[s] \ {e} ELSE todo[s]
  BY <1>0 DEF IInv, TypeOK
<1>4. Threads'
  <2>1. \A s \in Thread : todo'[s] \subseteq todo[s]
    BY <1>3
  <2>2. \A s, f : Report(s, f)' = Report(s, f)
    BY <1>0 DEF Report
  <2>3. QED  BY <1>0, <2>1, <2>2 DEF IInv, Threads
\* A poll without a timeout is not over while somebody has its event.
<1>5. e[1] \in Timed
  <2>1. SUFFICES ASSUME e[1] \notin Timed PROVE FALSE
    OBVIOUS
  <2>2. Under(e)
    BY <1>0 DEF Under
  <2>3. e = EventOf(e[1]) /\ InPoll(e[1])
    BY <2>1, <2>2 DEF IInv, Hands
  <2>4. QED  BY <1>0, <2>3 DEF finish_, InPoll
<1>6. Hands'
  <2>1. \A f \in Event : f[1] \notin Timed => (Under(f)' <=> Under(f))
    BY <1>0, <1>3, <1>5 DEF Under
  <2>2. QED  BY <1>0, <2>1, SameHands DEF IInv
<1>7. Watch' /\ Edges'
  <2>1. tpc' = [tpc EXCEPT ![t] = tpc'[t]]
    BY <1>0 DEF IInv, TypeOK
  <2>2. QED  BY <1>0, <2>1, SameWatch
<1>8. QED  BY <1>1, <1>2, <1>4, <1>6, <1>7 DEF IInv

LEMMA SetReventsPreserves ==
  ASSUME IInv, NEW t \in Thread, NEW e \in Event, SetRevents(t, e)
  PROVE  IInv'
<1>0. /\ UNCHANGED <<in_table, mtx_, events_, ptrs_, file, ready, reg, edge, what>>
      /\ UNCHANGED <<polls, interest, status, timed_out, pc>>
      /\ tpc[t] = "next" /\ e \in todo[t] /\ ~finish_(e)
      /\ todo' = [todo EXCEPT ![t] = @ \ {e}]
      /\ one' = [one EXCEPT ![t] = e]
      /\ tpc' = [tpc EXCEPT ![t] = "resume"]
      /\ revents_' = [revents_ EXCEPT ![e[1]] = Report(t, e)]
  BY DEF SetRevents, ctxVars, kernelVars, coVars
<1>1. TypeOK'
  BY TargetTypes DEF Target
<1>2. Words' /\ Polls'
  BY <1>0 DEF IInv, Words, Word, Polls
<1>3. /\ todo'[t] = todo[t] \ {e} /\ one'[t] = e /\ tpc'[t] = "resume"
      /\ \A s \in Thread \ {t} : todo'[s] = todo[s] /\ one'[s] = one[s] /\ tpc'[s] = tpc[s]
  BY <1>0 DEF IInv, TypeOK
<1>4. \A s \in Thread \ {t} : tpc[s] \notin {"next", "resume"} /\ todo[s] = {}
  BY <1>0, OneTarget DEF IInv, TypeOK
<1>5. Report(t, e) # {} /\ e \notin ptrs_ /\ e[1] \in Ctx
  BY <1>0, EventParts DEF IInv, Threads
<1>6. revents_'[e[1]] # {} /\ \A c \in Ctx : revents_'[c] = revents_[c] \/ revents_'[c] # {}
  BY <1>0, <1>5 DEF IInv, TypeOK
<1>7. Threads'
  <2>1. \A s, f : Report(s, f)' = Report(s, f)
    BY <1>0 DEF Report
  <2>2. ASSUME NEW s \in Thread
        PROVE  /\ tpc'[s] \notin {"next", "resume"} => todo'[s] = {}
               /\ tpc'[s] = "resume" =>
                    /\ one'[s] \in Event /\ one'[s] \notin todo'[s] /\ one'[s] \notin ptrs_'
                    /\ one'[s][1] \notin Timed => revents_'[one'[s][1]] # {}
               /\ \A f \in todo'[s] : f \notin ptrs_' /\ Report(s, f)' # {}
    <3>1. CASE s = t
      BY <1>0, <1>3, <1>5, <1>6, <2>1, <3>1 DEF IInv, Threads
    <3>2. CASE s # t
      BY <1>3, <1>4, <3>2
    <3>3. QED  BY <3>1, <3>2
  <2>3. in_table' => tpc'[Closer] = "idle" /\ file' = "open"
    <3>1. in_table => Closer # t
      BY <1>0 DEF IInv, Threads
    <3>2. QED  BY <1>0, <1>3, <3>1 DEF IInv, Threads, Thread
  <2>4. QED  BY <2>2, <2>3 DEF Threads
<1>8. Hands'
  <2>1. \A f \in Event : Under(f)' <=> Under(f)
    BY <1>0, <1>3, <1>4 DEF Under
  <2>2. QED  BY <1>0, <1>6, <2>1, SameHands DEF IInv
<1>9. Watch' /\ Edges'
  <2>1. tpc' = [tpc EXCEPT ![t] = tpc'[t]] /\ tpc'[t] = "resume"
    BY <1>0, <1>3
  <2>2. QED  BY <1>0, <2>1, SameWatch
<1>10. QED  BY <1>1, <1>2, <1>7, <1>8, <1>9 DEF IInv

LEMMA ResumePreserves ==
  ASSUME IInv, NEW t \in Thread, Resume(t)
  PROVE  IInv'
<1>1. PICK e \in Event : e = one[t] /\ e \notin todo[t] /\ e \notin ptrs_
  BY DEF IInv, Threads, Resume
<1>2. PICK c \in Ctx : c = e[1]
  BY EventParts
<1>0. /\ UNCHANGED <<in_table, mtx_, events_, ptrs_, file, ready, reg, edge, what, todo>>
      /\ UNCHANGED <<polls, interest, revents_, timed_out, pc>>
      /\ tpc[t] = "resume" /\ tpc' = [tpc EXCEPT ![t] = "next"]
      /\ one' = [one EXCEPT ![t] = None]
      /\ status' = [status EXCEPT ![c] = TryResume(status[c]).to]
  BY <1>1, <1>2 DEF Resume, ctxVars, pollVars, kernelVars, SetStatus
<1>3. TypeOK'
  BY TargetTypes DEF Target
<1>4. \A d \in Ctx \ {c} : status'[d] = status[d]
  BY <1>0 DEF IInv, TypeOK, AsleepTypeOK
<1>5. \A s \in Thread \ {t} : /\ tpc[s] \notin {"next", "resume"} /\ todo[s] = {}
                              /\ tpc'[s] = tpc[s] /\ one'[s] = one[s]
  BY <1>0, OneTarget DEF IInv, TypeOK
<1>6. tpc'[t] = "next"
  BY <1>0 DEF IInv, TypeOK
\* The coroutine is in the poll the event was made for, and will be no more.
<1>7. ASSUME c \notin Timed
      PROVE  /\ e = EventOf(c) /\ InPoll(c) /\ ~InPoll(c)' /\ revents_[c] # {}
             /\ Word(c)'
  <2>1. Under(e)
    BY <1>0, <1>1 DEF Under
  <2>2. e = EventOf(c) /\ InPoll(c) /\ Word(c) /\ revents_[c] # {}
    <3>1. e = EventOf(c) /\ InPoll(c) /\ Word(c)
      BY <1>2, <1>7, <2>1 DEF IInv, Hands, Words
    <3>2. one[t][1] \notin Timed => revents_[one[t][1]] # {}
      BY <1>0 DEF IInv, Threads
    <3>3. one[t][1] = c
      BY <1>1, <1>2
    <3>4. QED  BY <1>7, <3>1, <3>2, <3>3
  <2>3. status'[c] = TryResume(status[c]).to
    BY <1>0 DEF IInv, TypeOK, AsleepTypeOK
  <2>4. \/ pc[c] = "sw" /\ status'[c] = "Yield_Break_Reset"
        \/ pc[c] = "parked" /\ status'[c] = "Ready_Reset_Reset"
    <3>1. \/ pc[c] = "sw" /\ status[c] = "Yield_Reset_Reset"
          \/ pc[c] = "parked" /\ status[c] = "Yield_Set_Reset"
      BY <2>2 DEF InPoll, Unresumed, Word
    <3>2. /\ TryResume("Yield_Reset_Reset").to = "Yield_Break_Reset"
          /\ TryResume("Yield_Set_Reset").to = "Ready_Reset_Reset"
      BY DEF TryResume, Becomes
    <3>3. QED  BY <2>3, <3>1, <3>2
  <2>5. QED  BY <1>0, <2>2, <2>4 DEF InPoll, Unresumed, Word
<1>8. Words' /\ Polls'
  <2>1. ASSUME NEW d \in Ctx, d \notin Timed, d # c PROVE Word(d)'
    BY <1>0, <1>4, <2>1 DEF IInv, Words, Word
  <2>2. QED  BY <1>0, <1>7, <2>1 DEF IInv, Words, Polls
<1>9. Threads'
  <2>1. \A s, f : Report(s, f)' = Report(s, f)
    BY <1>0 DEF Report
  <2>2. in_table' => tpc'[Closer] = "idle" /\ file' = "open"
    <3>1. in_table => Closer # t
      BY <1>0 DEF IInv, Threads
    <3>2. QED  BY <1>0, <1>5, <3>1 DEF IInv, Threads, Thread
  <2>3. ASSUME NEW s \in Thread
        PROVE  /\ tpc'[s] \notin {"next", "resume"} => todo'[s] = {}
               /\ tpc'[s] # "resume"
               /\ \A f \in todo'[s] : f \notin ptrs_' /\ Report(s, f)' # {}
    <3>1. CASE s = t
      BY <1>0, <1>6, <2>1, <3>1 DEF IInv, Threads
    <3>2. CASE s # t
      BY <1>0, <1>5, <3>2
    <3>3. QED  BY <3>1, <3>2
  <2>4. QED  BY <2>2, <2>3 DEF Threads
<1>10. Hands'
  <2>1. \A f : Under(f)' => Under(f) /\ f # e
    BY <1>0, <1>1, <1>5, <1>6 DEF Under
  <2>2. \A f : Under(f) /\ f # e => Under(f)'
    BY <1>0, <1>1, <1>5, <1>6 DEF Under
  <2>3. \A d \in Ctx : EventOf(d)' = EventOf(d)
    BY <1>0 DEF EventOf
  <2>4. \A d \in Ctx \ {c} : InPoll(d)' <=> InPoll(d)
    BY <1>0, <1>4 DEF InPoll
  <2>5. ASSUME NEW f \in Event, Under(f)', f[1] \notin Timed
        PROVE  f = EventOf(f[1])' /\ InPoll(f[1])'
    <3>1. f[1] \in Ctx /\ Under(f) /\ f # e
      BY <2>1, <2>5, EventParts
    <3>2. f = EventOf(f[1]) /\ InPoll(f[1])
      BY <2>5, <3>1 DEF IInv, Hands
    <3>3. f[1] # c
      BY <1>7, <2>5, <3>1, <3>2
    <3>4. QED  BY <2>3, <2>4, <3>1, <3>2, <3>3
  <2>6. ASSUME NEW d \in Ctx, d \notin Timed
        PROVE  /\ InPoll(d)' => Under(EventOf(d))'
               /\ pc'[d] \in {"sw", "parked", "woken"} /\ ~InPoll(d)' => revents_'[d] # {}
    <3>1. CASE d = c
      BY <1>0, <1>7, <2>6, <3>1
    <3>2. CASE d # c
      <4>1. PICK f : f = EventOf(d)
        OBVIOUS
      <4>2. f # e
        BY <1>2, <3>2, <4>1 DEF EventOf
      <4>3. InPoll(d) => Under(f)'
        BY <2>2, <2>6, <4>1, <4>2 DEF IInv, Hands
      <4>4. InPoll(d)' => Under(EventOf(d))'
        BY <2>3, <2>4, <3>2, <4>1, <4>3 DEF Under
      <4>5. QED  BY <1>0, <2>4, <2>6, <3>2, <4>4 DEF IInv, Hands
    <3>3. QED  BY <3>1, <3>2
  <2>7. QED  BY <2>5, <2>6 DEF Hands
<1>11. Watch' /\ Edges'
  <2>1. tpc' = [tpc EXCEPT ![t] = tpc'[t]]
    BY <1>0, <1>6
  <2>2. QED  BY <1>0, <1>6, <2>1, SameWatch
<1>12. QED  BY <1>3, <1>8, <1>9, <1>10, <1>11 DEF IInv

LEMMA UnlockPreserves ==
  ASSUME IInv, NEW t \in Thread, Unlock(t)
  PROVE  IInv'
<1>0. /\ UNCHANGED <<in_table, ptrs_, todo, one, file, ready>>
      /\ UNCHANGED <<polls, interest, revents_, status, timed_out, pc>>
      /\ tpc[t] = "next" /\ todo[t] = {} /\ mtx_' = None
      /\ tpc' = [tpc EXCEPT ![t] = IF t = Closer THEN "closed" ELSE "idle"]
      /\ what' = [what EXCEPT ![t] = {}]
  BY DEF Unlock, pollVars, coVars
<1>1. TypeOK'
  BY TargetTypes DEF Target
<1>2. Words' /\ Polls'
  BY <1>0 DEF IInv, Words, Word, Polls
<1>3. tpc'[t] \in {"idle", "closed"} /\ what'[t] = {}
  BY <1>0 DEF IInv, TypeOK
<1>4. \A s \in Thread \ {t} : /\ tpc[s] \notin {"next", "resume"} /\ todo[s] = {}
                              /\ tpc'[s] = tpc[s] /\ what'[s] = what[s]
  <2>1. mtx_ = t
    BY <1>0 DEF IInv, TypeOK
  <2>2. QED  BY <1>0, <2>1, OneTarget DEF IInv, TypeOK
<1>5. in_table => t = Poller /\ file = "open"
  BY <1>0 DEF IInv, Threads, Thread
<1>6. Threads'
  <2>1. \A s \in Thread : todo'[s] = {} /\ tpc'[s] # "resume"
    BY <1>0, <1>3, <1>4
  <2>2. in_table' => tpc'[Closer] = "idle" /\ file' = "open"
    BY <1>0, <1>4, <1>5, FdAssumption DEF IInv, Threads, Thread
  <2>3. QED  BY <2>1, <2>2 DEF Threads
<1>7. Hands'
  <2>1. \A e \in Event : Under(e)' <=> Under(e)
    BY <1>0, <1>3, <1>4 DEF Under
  <2>2. QED  BY <1>0, <2>1, SameHands DEF IInv
<1>8. Left' = Left /\ Left \subseteq {"IN", "OUT", "ERR"} /\ (Left = {} <=> ptrs_ = {})
  BY <1>0, LeftLists DEF IInv, TypeOK, Left
<1>9. CASE Left # events_ /\ CanMod
  <2>1. /\ file = "open" /\ events_' = Left
        /\ IF Left = {} THEN CtlDel ELSE CtlSet(Left)
    BY <1>9 DEF Unlock, Reregister, CanMod
  <2>2. Watch'
    <3>1. CASE Left = {}
      BY <1>0, <1>8, <2>1, <3>1 DEF CtlDel, Watch
    <3>2. CASE Left # {}
      <4>1. reg' = Left /\ Left # NoReg
        BY <1>8, <2>1, <3>2 DEF CtlSet, NoReg
      <4>2. QED  BY <1>0, <1>8, <2>1, <3>2, <4>1 DEF Watch
    <3>3. QED  BY <3>1, <3>2
  <2>3. Edges'
    <3>1. ASSUME NEW b \in ready, Concerns(b)' PROVE edge'
      <4>1. b \in Left \cup {"ERR"} /\ Left # {}
        BY <1>0, <1>8, <2>1, <3>1 DEF Concerns
      <4>2. QED  BY <2>1, <4>1 DEF CtlSet
    <3>2. QED  BY <1>0, <3>1 DEF Edges, Told
  <2>4. QED  BY <1>1, <1>2, <1>6, <1>7, <2>2, <2>3 DEF IInv
<1>10. CASE ~(Left # events_ /\ CanMod)
  <2>1. UNCHANGED <<reg, edge, events_>>
    BY <1>10 DEF Unlock, Reregister
  <2>2. Watch'
    BY <1>0, <1>8, <2>1 DEF IInv, Watch
  <2>3. Edges'
    <3>1. ASSUME in_table, NEW b \in ready, Concerns(b)' PROVE edge
      \* If nothing is registered then nobody waits.
      <4>1. Left = events_
        BY <1>5, <1>8, <1>10, <3>1 DEF CanMod, IInv, Watch
      <4>2. Concerns(b)
        BY <1>0, <1>8, <2>1, <3>1, <4>1 DEF Concerns
      <4>3. QED  BY <1>0, <1>5, <3>1, <4>2 DEF IInv, Edges, Told
    <3>2. QED  BY <1>0, <2>1, <3>1 DEF Edges, Told
  <2>4. QED  BY <1>1, <1>2, <1>6, <1>7, <2>2, <2>3 DEF IInv
<1>11. QED  BY <1>9, <1>10

LEMMA TargetPreserves ==
  ASSUME IInv, NEW t \in Thread, Target(t)
  PROVE  IInv'
  BY LockPreserves, OverPreserves, SetReventsPreserves, ResumePreserves, UnlockPreserves
  DEF Target

------------------------------------------------------------------------------
(* The theorems *)

LEMMA Initially == Init => IInv
<1> SUFFICES ASSUME Init PROVE IInv
  OBVIOUS
<1> USE FdAssumption DEF Init, AsleepInit
<1>1. TypeOK
  <2>1. AsleepTypeOK({"out", "get", "add", "return"})
    BY DEF AsleepTypeOK, AsleepPC, Status
  <2>2. polls \in [Ctx -> Nat] /\ \A c \in Ctx : polls[c] <= MaxPolls[c]
    <3>1. \A c \in Ctx : MaxPolls[c] \in Nat
      OBVIOUS
    <3>2. QED  BY <3>1
  <2>3. /\ in_table \in BOOLEAN /\ edge \in BOOLEAN
        /\ mtx_ \in Thread \cup {None} /\ events_ \subseteq Bits /\ ptrs_ \subseteq Event
        /\ interest \in [Ctx -> SUBSET {"IN", "OUT"}] /\ revents_ \in [Ctx -> SUBSET Bits]
        /\ file \in {"open", "closed"} /\ ready \subseteq {"IN", "OUT", "ERR"} /\ reg = NoReg
    OBVIOUS
  <2>4. /\ tpc \in [Thread -> {"idle", "get", "lock", "next", "resume", "closed"}]
        /\ what \in [Thread -> SUBSET Bits]
        /\ todo \in [Thread -> SUBSET Event] /\ one \in [Thread -> Event \cup {None}]
        /\ \A t \in Thread : mtx_ = t <=> tpc[t] \in {"next", "resume"}
    BY DEF Thread
  <2>5. QED  BY <2>1, <2>2, <2>3, <2>4 DEF TypeOK
<1>2. Words /\ Polls
  BY DEF Words, Word, Polls
<1>3. Threads
  BY DEF Threads, Thread
<1>4. \A e : ~Under(e)
  BY DEF Under
<1>5. Hands
  BY <1>4 DEF Hands, InPoll
<1>6. Left = {}
  BY DEF Left
<1>7. Watch
  BY <1>6 DEF Watch
<1>8. Edges
  BY DEF Edges
<1>9. QED  BY <1>1, <1>2, <1>3, <1>5, <1>7, <1>8 DEF IInv

LEMMA Invariance == Spec => []IInv
<1>1. IInv /\ [Next]_vars => IInv'
  <2> SUFFICES ASSUME IInv, [Next]_vars PROVE IInv'
    OBVIOUS
  <2>1. CASE \E c \in Ctx : CoStep(c)
    BY <2>1, CoPreserves
  <2>2. CASE KernelStep
    BY <2>2, KernelPreserves
  <2>3. CASE \E t \in Thread : Target(t)
    BY <2>3, TargetPreserves
  <2>4. CASE UNCHANGED vars
    BY <2>4
    DEF vars, ctxVars, pollVars, kernelVars, threadVars, coVars, IInv, TypeOK, AsleepTypeOK,
        Words, Word, Polls, Threads, Report, Hands, Under, InPoll, EventOf, Watch, Left, Edges,
        Concerns, Told
  <2>5. QED  BY <2>1, <2>2, <2>3, <2>4 DEF Next, CoStep, KernelStep
<1>2. QED  BY Initially, <1>1, PTL DEF Spec

\* Every variable keeps its type, and a thread has the mutex of the cofdctx
\* exactly while it is in the middle of target().
THEOREM TypeCorrect == Spec => []TypeOK
<1>1. IInv => TypeOK
  BY DEF IInv
<1>2. QED  BY Invariance, <1>1, PTL

\* What a list waits for is registered with epoll, although add forgets the
\* bits that were there before its own (cofdctx.cpp).
THEOREM WaitedIsWatched == Spec => []Armed
<1>1. IInv => Armed
  BY DEF IInv, Watch, Armed
<1>2. QED  BY Invariance, <1>1, PTL

\* Whoever waits without a timeout has an event in a list when nothing is under
\* way: neither a timeout of another event nor close drops it.
THEOREM SleepersListed == Spec => []NobodyDropped
<1>1. IInv => NobodyDropped
  <2> SUFFICES ASSUME IInv, AllIdle, NEW c \in Ctx, Asleep(c) PROVE EventOf(c) \in ptrs_
    BY DEF NobodyDropped
  <2>1. Word(c) /\ pc[c] = "parked" /\ c \notin Timed
    BY DEF IInv, Words, Asleep
  <2>2. InPoll(c)
    BY <2>1 DEF AllIdle, Quiet, Word, InPoll, Unresumed
  <2>3. Under(EventOf(c))
    BY <2>1, <2>2 DEF IInv, Hands
  <2>4. \A t \in Thread : tpc[t] \notin {"next", "resume"} /\ todo[t] = {}
    BY DEF AllIdle, IInv, Threads, Thread
  <2>5. QED  BY <2>3, <2>4 DEF Under
<1>2. QED  BY Invariance, <1>1, PTL

\* No edge falls between the non-blocking poll, add and target().
THEOREM EdgesSeen == Spec => []NoLostEdge
<1>1. IInv => NoLostEdge
  <2> SUFFICES ASSUME IInv, AllIdle, in_table, NEW c \in Ctx, Asleep(c),
                      NEW b \in ready, b \in {ListOf(interest[c]), "ERR"}
               PROVE  FALSE
    BY DEF NoLostEdge
  <2>1. EventOf(c) \in ptrs_
    <3>1. Word(c) /\ pc[c] = "parked" /\ c \notin Timed
      BY DEF IInv, Words, Asleep
    <3>2. InPoll(c)
      BY <3>1 DEF AllIdle, Quiet, Word, InPoll, Unresumed
    <3>3. Under(EventOf(c))
      BY <3>1, <3>2 DEF IInv, Hands
    <3>4. \A t \in Thread : tpc[t] \notin {"next", "resume"} /\ todo[t] = {}
      BY DEF AllIdle, IInv, Threads, Thread
    <3>5. QED  BY <3>3, <3>4 DEF Under
  <2>2. EventOf(c)[3] = interest[c]
    BY DEF EventOf
  <2>3. Concerns(b) /\ (b \in Left \/ b = "ERR") /\ ptrs_ # {}
    BY <2>1, <2>2 DEF Concerns, Left
  <2>4. edge
    BY <2>3 DEF IInv, Edges, Told, AllIdle
  <2>5. b \in News
    <3>1. file = "open"
      BY DEF IInv, Threads
    <3>2. reg # NoReg /\ b \in reg \cup {"ERR"}
      BY <2>3, <3>1 DEF IInv, Watch
    <3>3. QED  BY <3>2 DEF News
  <2>6. QED  BY <2>4, <2>5 DEF AllIdle
<1>2. QED  BY Invariance, <1>1, PTL

\* target() resumes a coroutine that waits without a timeout in the poll the
\* event was made for, and once; revents_ says why.
THEOREM PollsEndOnce == Spec => []ResumesItsPoll
<1>1. IInv => ResumesItsPoll
  <2> SUFFICES ASSUME IInv PROVE ResumesItsPoll
    OBVIOUS
  <2>1. ASSUME NEW t \in Thread, tpc[t] = "resume", one[t][1] \notin Timed
        PROVE  one[t] = EventOf(one[t][1]) /\ TryResume(status[one[t][1]]).res >= 0
    <3>1. PICK e \in Event : e = one[t]
      BY <2>1 DEF IInv, Threads
    <3>2. Under(e)
      BY <2>1, <3>1 DEF Under
    <3>3. e = EventOf(e[1]) /\ InPoll(e[1])
      BY <2>1, <3>1, <3>2 DEF IInv, Hands
    <3>4. TryResume(status[e[1]]).res >= 0
      BY <3>3 DEF InPoll, Unresumed, TryResume, Becomes
    <3>5. QED  BY <3>1, <3>3, <3>4
  <2>2. ASSUME NEW c \in Ctx, pc[c] = "woken", c \notin Timed PROVE revents_[c] # {}
    BY <2>2 DEF IInv, Hands, InPoll
  <2>3. QED  BY <2>1, <2>2 DEF ResumesItsPoll
<1>2. QED  BY Invariance, <1>1, PTL
===============================================================================
