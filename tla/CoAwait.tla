-------------------------------- MODULE CoAwait --------------------------------
(***************************************************************************)
(* coawaitable: a coroutine awaits an object.  It suspends itself, and its *)
(* callback stores it in the context that the object shares with its       *)
(* handles and gives a handle to somebody.  Who calls a handle takes the   *)
(* coroutine out of the context, if it is still there, stores the result   *)
(* and resumes it.  With a timeout the coroutine takes itself out, if its  *)
(* timer ends the sleep; it does not know whether somebody else has        *)
(* already.                                                                *)
(*                                                                         *)
(* Every await has an object of its own, <<c, n>>: the n-th of c.  Handles *)
(* are copied at will, so that any thread may call any of them, at any     *)
(* time from when it is given out.                                         *)
(***************************************************************************)
EXTENDS CoAsleep

CONSTANTS
  Caller,     \* the threads that call handles
  MaxAwaits,  \* bound: awaits of a coroutine
  MaxCalls    \* bound: calls of the handle of an object

Object == Ctx \X (1 .. MaxAwaits)

ASSUME AwaitAssumption ==
  /\ None \notin Caller \cup Object
  /\ MaxAwaits \in Nat /\ MaxCalls \in Nat

VARIABLES
  awaits,      \* awaits[c]: the awaits c has begun
  ctx_, t_,    \* of the context of an object; t_ is who has stored it
  suspended,   \* the objects whose handle has been given out
  calls,       \* calls[o]: how often it was called
  tpc, one     \* of a thread in resume(): where it is, and the object

objectVars == <<ctx_, t_, suspended, calls>>
threadVars == <<tpc, one>>
coVars == <<status, timed_out, pc>>
vars == <<awaits, objectVars, threadVars, coVars>>

TypeOK ==
  /\ AsleepTypeOK({"out", "set", "suspend"})
  /\ awaits \in [Ctx -> 0 .. MaxAwaits]
  /\ ctx_ \in [Object -> Ctx \cup {None}]
  /\ t_ \in [Object -> Caller \cup {None}]
  /\ suspended \subseteq Object /\ calls \in [Object -> 0 .. MaxCalls]
  /\ tpc \in [Caller -> {"idle", "store", "resume"}]
  /\ one \in [Caller -> Object \cup {None}]

\* The constructor leaves ctx_ alone; nobody reads it before ctx_set.
Init ==
  /\ AsleepInit
  /\ awaits = [c \in Ctx |-> 0]
  /\ ctx_ = [o \in Object |-> None] /\ t_ = [o \in Object |-> None]
  /\ suspended = {} /\ calls = [o \in Object |-> 0]
  /\ tpc = [h \in Caller |-> "idle"] /\ one = [h \in Caller |-> None]

ObjectOf(c) == <<c, awaits[c]>>

------------------------------------------------------------------------------
(* coawait::operator= *)

\* Mutant: the handle is given out before the coroutine is in the context.
Await_early(c) ==
  /\ awaits[c] < MaxAwaits /\ awaits' = [awaits EXCEPT ![c] = @ + 1]
  /\ Suspend(c, "out", "set", "woken")
  /\ suspended' = suspended \cup {<<c, awaits[c] + 1>>}
  /\ UNCHANGED <<ctx_, t_, calls, threadVars>>

Await(c) ==
  /\ awaits[c] < MaxAwaits /\ awaits' = [awaits EXCEPT ![c] = @ + 1]
  /\ Suspend(c, "out", "set", "woken")
  /\ UNCHANGED <<objectVars, threadVars>>

ctx_set(c) ==
  /\ From(c, "set", "suspend")
  /\ ctx_' = [ctx_ EXCEPT ![ObjectOf(c)] = c]
  /\ UNCHANGED <<awaits, t_, suspended, calls, threadVars, status, timed_out>>

Suspended(c) ==
  /\ From(c, "suspend", "sw")
  /\ suspended' = suspended \cup {ObjectOf(c)}
  /\ UNCHANGED <<awaits, ctx_, t_, calls, threadVars, status, timed_out>>

ctx_clear(c) ==
  /\ From(c, "remove", "out")
  /\ ctx_' = [ctx_ EXCEPT ![ObjectOf(c)] = None]
  /\ UNCHANGED <<awaits, t_, suspended, calls, threadVars, status, timed_out>>

\* It returns t_.
Return(c) ==
  /\ From(c, "woken", "out")
  /\ UNCHANGED <<awaits, objectVars, threadVars, status, timed_out>>

(* coobject_context::resume *)

Calls(h, o) ==
  /\ tpc[h] = "idle" /\ o \in suspended
  /\ calls[o] < MaxCalls /\ calls' = [calls EXCEPT ![o] = @ + 1]

\* Mutant: ctx_ is looked at, and not taken.
Call_keeps(h, o) ==
  /\ Calls(h, o)
  /\ IF ctx_[o] = None THEN UNCHANGED <<tpc, one>>
     ELSE tpc' = [tpc EXCEPT ![h] = "store"] /\ one' = [one EXCEPT ![h] = o]
  /\ UNCHANGED <<awaits, ctx_, t_, suspended, coVars>>

\* The load and the exchange, which fails if somebody else was faster.
Call(h, o) ==
  /\ Calls(h, o)
  /\ IF ctx_[o] = None THEN UNCHANGED <<tpc, one>>
     ELSE tpc' = [tpc EXCEPT ![h] = "store"] /\ one' = [one EXCEPT ![h] = o]
  /\ ctx_' = [ctx_ EXCEPT ![o] = None]
  /\ UNCHANGED <<awaits, t_, suspended, coVars>>

Store(h) ==
  /\ tpc[h] = "store" /\ tpc' = [tpc EXCEPT ![h] = "resume"]
  /\ t_' = [t_ EXCEPT ![one[h]] = h]
  /\ UNCHANGED <<awaits, ctx_, suspended, calls, one, coVars>>

Resume(h) ==
  LET c == one[h][1]
  IN  /\ tpc[h] = "resume" /\ tpc' = [tpc EXCEPT ![h] = "idle"]
      /\ SetStatus(c, TryResume(status[c]))
      /\ one' = [one EXCEPT ![h] = None]
      /\ UNCHANGED <<awaits, objectVars, timed_out, pc>>

------------------------------------------------------------------------------
Next ==
  \/ \E c \in Ctx :
       \/ Await(c) \/ ctx_set(c) \/ Suspended(c) \/ ctx_clear(c) \/ Return(c)
       \/ SchedStep(c) /\ UNCHANGED <<awaits, objectVars, threadVars>>
  \/ \E h \in Caller : Store(h) \/ Resume(h) \/ \E o \in Object : Call(h, o)

Spec == Init /\ [][Next]_vars

------------------------------------------------------------------------------
(* Properties *)

\* The threads that have taken the coroutine of o.
Takers(o) == {h \in Caller : one[h] = o}

(* An await without a timeout ends with the result that was stored for it, and *)
(* once: of the threads that call its handles one takes the coroutine, the     *)
(* result is complete before the coroutine can run, and the resume comes when  *)
(* the coroutine waits for it, never later, although the handle may be called  *)
(* when its callback has not returned yet.  With a timeout that is not so: see *)
(* README.                                                                     *)
AwaitEnds ==
  \A c \in Ctx \ Timed :
    /\ \A h \in Caller : one[h] # None /\ one[h][1] = c =>
         /\ Takers(one[h]) = {h} /\ one[h] = ObjectOf(c)
         /\ TryResume(status[c]).res >= 0
    /\ pc[c] = "woken" => t_[ObjectOf(c)] # None

(* No call is lost: a coroutine that sleeps in an await, with or without a     *)
(* timeout, whose handle was called has somebody on the way to resume it.      *)
CallHeard ==
  \A c \in Ctx :
    pc[c] = "parked" /\ status[c] \in {"Yield_Set_Reset", "Sleep_Set_Set"}
      /\ calls[ObjectOf(c)] > 0
    => Takers(ObjectOf(c)) # {}
===============================================================================
