------------------------------- MODULE CoChannel -------------------------------
(***************************************************************************)
(* cochannel: a ring buffer and two queues (cowaitque_mt) of coroutines,   *)
(* wait_ for those that want a value and post_ for those that have one.    *)
(* A receiver takes a value from the buffer, and then wakes up a poster,   *)
(* or else from a poster in post_; a poster gives its value to a receiver  *)
(* in wait_ or else puts it in the buffer.  If neither is possible it      *)
(* queues itself, in the callback of its yield or sleep, after having      *)
(* looked at the buffer, the opposite queue and stop_ one after the other, *)
(* and looks again.                                                        *)
(*                                                                         *)
(* The first attempt of wait() and post() and the one that opens the loop  *)
(* of cowaitque_mt are one: an attempt that fails changes nothing.  A      *)
(* value is in one place at a time: who copies it leaves None behind.      *)
(***************************************************************************)
EXTENDS CoWaitList

CONSTANTS
  WaitQue, PostQue,   \* wait_ and post_
  N,                  \* size of the buffer
  Receivers, Posters, \* coroutines that call wait and post
  Closer,             \* coroutines that may call close
  Val                 \* values

ASSUME ChannelAssumption ==
  /\ N \in Nat
  /\ None \notin Val
  /\ Receivers \cup Posters \cup Closer \subseteq Ctx
  /\ WaitQue # PostQue /\ {WaitQue, PostQue} \subseteq List

VARIABLES
  buffer_, bhead_, btail_, full_,  \* coringbuffer
  stop_,       \* stop_[l]: l was closed
  unpack_,     \* unpack_[c]: somebody else moved the value of c
  val,         \* val[c]: the value c has in its hands
  inplay       \* values posted, and neither received nor refused yet

bufVars == <<buffer_, bhead_, btail_, full_>>
chanVars == <<bufVars, stop_, unpack_, val, inplay>>
channelVars == <<waitVars, chanVars>>

Queues == {WaitQue, PostQue}

TryPC == {"take", "wake", "steal", "give", "put"}
LookPC == {"enter", "look_buf", "look_que", "look_stop"}
AgainPC == {"again_stop", "again_buf", "again_que", "notify"}
ResultPC == {"done", "timeout", "closed"}
UserPC == {"out", "close", "drain"} \cup TryPC \cup LookPC \cup AgainPC \cup ResultPC

Slot == 0 .. N - 1

ChannelTypeOK ==
  /\ WaitTypeOK(UserPC)
  /\ buffer_ \in [Slot -> Val \cup {None}]
  /\ bhead_ \in Slot \cup {0} /\ btail_ \in Slot \cup {0} /\ full_ \in BOOLEAN
  /\ stop_ \in [Queues -> BOOLEAN]
  /\ unpack_ \in [Ctx -> BOOLEAN]
  /\ val \in [Ctx -> Val \cup {None}]
  /\ inplay \subseteq Val

ChannelInit ==
  /\ WaitInit
  /\ buffer_ = [i \in Slot |-> None] /\ bhead_ = 0 /\ btail_ = 0 /\ full_ = FALSE
  /\ stop_ = [l \in Queues |-> FALSE]
  /\ unpack_ = [c \in Ctx |-> FALSE]
  /\ val = [c \in Ctx |-> None]
  /\ inplay = {}

------------------------------------------------------------------------------
(* coringbuffer; without slots it is always empty and always full *)

Empty == N = 0 \/ (~full_ /\ bhead_ = btail_)
Full == N = 0 \/ full_

\* Mutant: the buffer is never found full.
BufPush_never_full(v) ==
  /\ buffer_' = [buffer_ EXCEPT ![btail_] = v]
  /\ btail_' = (btail_ + 1) % N
  /\ UNCHANGED <<bhead_, full_>>

BufPush(v) ==
  /\ buffer_' = [buffer_ EXCEPT ![btail_] = v]
  /\ btail_' = (btail_ + 1) % N
  /\ full_' = ((btail_ + 1) % N = bhead_)
  /\ UNCHANGED bhead_

\* Mutant: the head does not wrap around.
BufPop_no_wrap ==
  /\ buffer_' = [buffer_ EXCEPT ![bhead_] = None]
  /\ bhead_' = bhead_ + 1
  /\ full_' = FALSE
  /\ UNCHANGED btail_

BufPop ==
  /\ buffer_' = [buffer_ EXCEPT ![bhead_] = None]
  /\ bhead_' = (bhead_ + 1) % N
  /\ full_' = FALSE
  /\ UNCHANGED btail_

------------------------------------------------------------------------------
(* wait_check_real and post_check_real *)

Other(l) == IF l = WaitQue THEN PostQue ELSE WaitQue

\* Where the loop of cowaitque_mt starts, for a receiver and for a poster.
Start(l) == IF l = WaitQue THEN "take" ELSE "give"

Moves(c, d) == val' = [val EXCEPT ![d] = val[c], ![c] = None]

\* dco_call on l: the node at its head is unpacked, and then resumed.
Unpack(l) == Pop(l) /\ SetStatus(head_[l], TryResume(status[head_[l]]))
             /\ unpack_' = [unpack_ EXCEPT ![head_[l]] = TRUE]

wait(c) ==
  /\ c \in Receivers
  /\ Move(c, "out", "take")
  /\ on' = [on EXCEPT ![c] = WaitQue]
  /\ UNCHANGED chanVars

Take(c) ==
  /\ Move(c, "take", IF Empty THEN "steal" ELSE "wake")
  /\ IF Empty THEN UNCHANGED <<bufVars, val>>
     ELSE BufPop /\ val' = [val EXCEPT ![c] = buffer_[bhead_]]
  /\ UNCHANGED <<on, stop_, unpack_, inplay>>

WakePoster(c) ==
  /\ From(c, "wake", "done")
  /\ PopResume(PostQue)
  /\ UNCHANGED <<timed_out, on, chanVars>>

Steal(c) ==
  /\ IF head_[PostQue] = None
     THEN Move(c, "steal", "enter") /\ UNCHANGED <<unpack_, val>>
     ELSE From(c, "steal", "done") /\ Unpack(PostQue) /\ Moves(head_[PostQue], c)
  /\ UNCHANGED <<timed_out, on, bufVars, stop_, inplay>>

\* Any value that is nowhere else.
post(c, v) ==
  /\ c \in Posters
  /\ v \in Val \ inplay
  /\ Move(c, "out", "give")
  /\ on' = [on EXCEPT ![c] = PostQue]
  /\ val' = [val EXCEPT ![c] = v]
  /\ inplay' = inplay \cup {v}
  /\ UNCHANGED <<bufVars, stop_, unpack_>>

Give(c) ==
  /\ IF head_[WaitQue] = None
     THEN Move(c, "give", "put") /\ UNCHANGED <<unpack_, val>>
     ELSE From(c, "give", "done") /\ Unpack(WaitQue) /\ Moves(c, head_[WaitQue])
  /\ UNCHANGED <<timed_out, on, bufVars, stop_, inplay>>

Put(c) ==
  /\ Move(c, "put", IF Full THEN "enter" ELSE "done")
  /\ IF Full THEN UNCHANGED <<bufVars, val>>
     ELSE BufPush(val[c]) /\ val' = [val EXCEPT ![c] = None]
  /\ UNCHANGED <<on, stop_, unpack_, inplay>>

------------------------------------------------------------------------------
(* dco_futex::dco_wait and dco_wait_until with a stop flag *)

\* check_from_buff and check_to_buff, in two looks.
BufReady(l) == IF l = WaitQue THEN ~Empty ELSE ~Full
QueReady(l) == head_[Other(l)] # None

Enter(c) ==
  /\ pc[c] = "enter"
  /\ IF stop_[on[c]] THEN Move(c, "enter", "closed") /\ UNCHANGED on
     ELSE SuspendSelf(c, "enter", "look_buf", Start(on[c]))
  /\ UNCHANGED chanVars

LookBuf(c) == Look(c, "look_buf", BufReady(on[c]), "look_que") /\ UNCHANGED chanVars
LookQue(c) == Look(c, "look_que", QueReady(on[c]), "look_stop") /\ UNCHANGED chanVars
LookStop(c) == Look(c, "look_stop", stop_[on[c]], "push") /\ UNCHANGED chanVars

Enqueue(c) == PushSelf(c, "again_stop") /\ UNCHANGED chanVars

\* Mutant: no second look at stop_.
AgainStop_skipped(c) == Move(c, "again_stop", "again_buf") /\ UNCHANGED <<on, chanVars>>

AgainStop(c) ==
  /\ Move(c, "again_stop", IF stop_[on[c]] THEN "drain" ELSE "again_buf")
  /\ UNCHANGED <<on, chanVars>>

AgainBuf(c) ==
  /\ Move(c, "again_buf", IF BufReady(on[c]) THEN "notify" ELSE "again_que")
  /\ UNCHANGED <<on, chanVars>>

\* Mutant: no second look at the other queue.
AgainQue_skipped(c) == Move(c, "again_que", "sw") /\ UNCHANGED <<on, chanVars>>

AgainQue(c) ==
  /\ Move(c, "again_que", IF QueReady(on[c]) THEN "notify" ELSE "sw")
  /\ UNCHANGED <<on, chanVars>>

Notify(c) ==
  /\ From(c, "notify", "sw")
  /\ PopResume(on[c])
  /\ UNCHANGED <<timed_out, on, chanVars>>

\* Resumed: on to the loop of cowaitque_mt.
Woken(c) ==
  /\ Move(c, "woken", IF stop_[on[c]] THEN "closed"
                      ELSE IF unpack_[c] THEN "done" ELSE Start(on[c]))
  /\ UNCHANGED <<on, chanVars>>

\* Mutant: a coroutine that timed out does not look at unpack_.
TimedOut_unpacked(c) == RemoveSelf(c, "timeout") /\ UNCHANGED <<on, chanVars>>

TimedOut(c) ==
  /\ RemoveSelf(c, IF unpack_[c] THEN "done" ELSE "timeout")
  /\ UNCHANGED <<on, chanVars>>

(* close(), and dco_notify_all *)

close(c) ==
  /\ c \in Closer
  /\ stop_ = [l \in Queues |-> FALSE]
  /\ Move(c, "out", "close")
  /\ on' = [on EXCEPT ![c] = PostQue]
  /\ UNCHANGED chanVars

Stop(c) ==
  /\ Move(c, "close", "drain")
  /\ stop_' = [stop_ EXCEPT ![on[c]] = TRUE]
  /\ UNCHANGED <<on, bufVars, unpack_, val, inplay>>

DrainOne(c) ==
  /\ pc[c] = "drain" /\ UNCHANGED pc
  /\ head_[on[c]] # None
  /\ PopResume(on[c])
  /\ UNCHANGED <<timed_out, on, chanVars>>

\* In the callback of a wait, or in close, which closes post_ and then wait_.
Drained(c) ==
  /\ pc[c] = "drain"
  /\ head_[on[c]] = None
  /\ IF Waiting(c) THEN Move(c, "drain", "sw") /\ UNCHANGED on
     ELSE IF on[c] = PostQue
     THEN Move(c, "drain", "close") /\ on' = [on EXCEPT ![c] = WaitQue]
     ELSE Move(c, "drain", "out") /\ on' = [on EXCEPT ![c] = None]
  /\ UNCHANGED chanVars

\* The call returns 1, 0 or -2, and its node is gone.
Return(c) ==
  /\ pc[c] \in ResultPC
  /\ Move(c, pc[c], "out")
  /\ on' = [on EXCEPT ![c] = None]
  /\ unpack_' = [unpack_ EXCEPT ![c] = FALSE]
  /\ val' = [val EXCEPT ![c] = None]
  /\ inplay' = inplay \ {val[c]}
  /\ UNCHANGED <<bufVars, stop_>>

------------------------------------------------------------------------------
Step(c) ==
  \/ Take(c) \/ WakePoster(c) \/ Steal(c) \/ Give(c) \/ Put(c)
  \/ Enter(c) \/ LookBuf(c) \/ LookQue(c) \/ LookStop(c) \/ Enqueue(c)
  \/ AgainStop(c) \/ AgainBuf(c) \/ AgainQue(c) \/ Notify(c)
  \/ Woken(c) \/ TimedOut(c)
  \/ Stop(c) \/ DrainOne(c) \/ Drained(c) \/ Return(c)
  \/ ParkStep(c) /\ UNCHANGED chanVars

UserCall(c) == wait(c) \/ close(c) \/ \E v \in Val : post(c, v)

ChannelNext == \E c \in Ctx : UserCall(c) \/ Step(c)

ChannelSpec == ChannelInit /\ [][ChannelNext]_channelVars

------------------------------------------------------------------------------
(* Properties *)

\* The slots that hold a value.
Filled ==
  IF Empty THEN {}
  ELSE {i \in Slot : IF bhead_ < btail_ THEN bhead_ <= i /\ i < btail_
                     ELSE bhead_ <= i \/ i < btail_}

\* Where v is.
Hands(v) == {c \in Ctx : val[c] = v}
Slots(v) == {i \in Slot : buffer_[i] = v}

(* No value is lost or delivered twice, however receivers, posters, timers and *)
(* close are interleaved: a value that was posted is in exactly one place, a   *)
(* coroutine's hands or a slot of the buffer, until a receiver returns with it *)
(* or the poster does; nobody is given a second value; and the slots are those *)
(* the indices say.                                                            *)
ValuesConserved ==
  /\ \A v \in Val :
       Cardinality(Hands(v)) + Cardinality(Slots(v)) = IF v \in inplay THEN 1 ELSE 0
  /\ \A i \in Slot : i \in Filled <=> buffer_[i] # None

(* The results are true.  A call returns 1 if and only if its value was moved, *)
(* by itself or by somebody who found it in its queue; one that times out at   *)
(* the same moment returns 1 too (cowaitque.cpp:60).  But for close: a call    *)
(* whose value was moved before close returns -2 (see README).                 *)
Moved(c) == IF on[c] = WaitQue THEN val[c] # None ELSE val[c] = None

ResultTrue ==
  \A c \in Ctx :
    /\ pc[c] = "done" => Moved(c)
    /\ pc[c] = "timeout" => ~Moved(c)
    /\ pc[c] = "closed" => stop_[on[c]] /\ (Moved(c) => unpack_[c])
    /\ pc[c] \in LookPC \cup {"take", "steal", "give", "put"} => ~Moved(c)

(* Receivers and posters never wait for each other: when nobody is on his way, *)
(* one of the two queues is empty, although each side looks at the other one's *)
(* queue only before and after its own push.                                   *)
OneSideWaits == Quiet => Listed(WaitQue) = {} \/ Listed(PostQue) = {}

(* close() releases everybody: nobody is left asleep in a channel that was    *)
(* closed, however a look at stop_ and a push to the queue fall between the    *)
(* store and the pops of close.                                                *)
CloseReleasesAll ==
  Quiet /\ (\A l \in Queues : stop_[l]) => \A c \in Ctx : pc[c] = "out"

(* What a comment says and the code does not do.  cowaitque.h:50 says of the   *)
(* check of a queue: when check_call returns true, the coroutine is woken up   *)
(* and executes cond_call.  Hence, when nobody is on his way, nobody (without  *)
(* a timeout) is asleep in a queue whose check holds.                          *)
CheckHolds(l) == BufReady(l) \/ QueReady(l)

WokenWhenReady ==
  Quiet => \A l \in Queues : Listed(l) # {} => Listed(l) \cap Timed # {} \/ ~CheckHolds(l)
===============================================================================
