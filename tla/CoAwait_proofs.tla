---------------------------- MODULE CoAwait_proofs ----------------------------
(***************************************************************************)
(* What awaiting an object promises, proved for any number of coroutines,  *)
(* of threads that call handles, and of awaits and calls.                  *)
(***************************************************************************)
EXTENDS CoAwait, TLAPS

------------------------------------------------------------------------------
(* The invariant *)

\* The status words of a coroutine that nobody has resumed yet.
FreeStatus == {"Yield_Reset_Reset", "Yield_Set_Reset",
               "Sleep_Reset_Reset", "Sleep_Set_Reset", "Sleep_Set_Set"}
Free(c) == status[c] \in FreeStatus

\* The status word of a coroutine without a timeout at each place in the code.
Place(c) ==
  /\ pc[c] # "remove" /\ ~timed_out[c]
  /\ pc[c] \in {"out", "woken"} => status[c] = "Ready_Reset_Reset"
  /\ pc[c] \in {"set", "suspend"} => status[c] = "Yield_Reset_Reset"
  /\ pc[c] = "sw" => status[c] \in {"Yield_Reset_Reset", "Yield_Break_Reset"}
  /\ pc[c] = "parked" => status[c] \in {"Yield_Set_Reset", "Ready_Reset_Reset"}

Places == \A c \in Ctx \ Timed : Place(c)

\* A thread has an object while it is in resume(), a coroutine in its await.
Busy ==
  /\ \A h \in Caller : tpc[h] = "idle" <=> one[h] = None
  /\ \A c \in Ctx : pc[c] # "out" => awaits[c] > 0

\* A handle is given out at the end of the callback.
GivenOut ==
  \A o \in suspended :
    /\ o[2] <= awaits[o[1]]
    /\ pc[o[1]] \in {"set", "suspend"} => o[2] < awaits[o[1]]

\* A call empties the context, for good.
Called == \A o \in Object : calls[o] > 0 => o \in suspended /\ ctx_[o] = None

\* A coroutine that nobody has resumed is in its context, or was taken.
Reachable ==
  \A c \in Ctx :
    /\ pc[c] = "suspend" => ctx_[ObjectOf(c)] # None
    /\ pc[c] \in {"sw", "parked"} /\ Free(c) =>
         ctx_[ObjectOf(c)] # None \/ \E h \in Caller : one[h] = ObjectOf(c)

\* A coroutine without a timeout is in the context of its await only, and not
\* when it has been resumed.
Held ==
  \A c \in Ctx \ Timed, o \in Object : o[1] = c /\ ctx_[o] # None =>
    o = ObjectOf(c) /\ pc[c] \in {"suspend", "sw", "parked"} /\ Free(c)

\* One thread takes it, in that await, and stores the result.
Taken ==
  \A c \in Ctx \ Timed, h \in Caller : one[h] # None /\ one[h][1] = c =>
    /\ one[h] = ObjectOf(c) /\ pc[c] \in {"sw", "parked"} /\ Free(c)
    /\ ctx_[one[h]] = None /\ \A g \in Caller : one[g] = one[h] => g = h
    /\ tpc[h] = "resume" => t_[one[h]] # None

\* A coroutine without a timeout that was resumed has its result.
Stored ==
  \A c \in Ctx \ Timed :
    pc[c] = "woken" \/ (pc[c] \in {"sw", "parked"} /\ ~Free(c)) => t_[ObjectOf(c)] # None

IInv ==
  TypeOK /\ Places /\ Busy /\ GivenOut /\ Called /\ Reachable /\ Held /\ Taken /\ Stored

------------------------------------------------------------------------------
(* Types *)

LEMMA TryTypes ==
  ASSUME NEW s \in Status
  PROVE  /\ TryResume(s).to \in Status /\ TryYield(s).to \in Status /\ TrySleep(s).to \in Status
         /\ TrySw(s).to \in Status /\ TrySleepAdd(s).to \in Status
         /\ TrySleepRemove(s).to \in Status /\ TrySleepTimeout(s).to \in Status
  BY DEF TryResume, TryYield, TrySleep, TrySw, TrySleepAdd, TrySleepRemove, TrySleepTimeout,
         Becomes, Fails, Status, YieldStatus, SleepStatus

\* A step of the code that c runs, in coawait::operator=.
CoStep(c) == Await(c) \/ ctx_set(c) \/ Suspended(c) \/ ctx_clear(c) \/ Return(c)

LEMMA ObjectType ==
  ASSUME TypeOK, NEW c \in Ctx, awaits[c] > 0
  PROVE  ObjectOf(c) \in Object
  BY DEF TypeOK, ObjectOf, Object

LEMMA TypePreserved == IInv /\ [Next]_vars => TypeOK'
<1> SUFFICES ASSUME IInv, [Next]_vars PROVE TypeOK'
  OBVIOUS
<1> USE AwaitAssumption DEF IInv, TypeOK, AsleepTypeOK, AsleepPC
<1>1. ASSUME NEW c \in Ctx, CoStep(c) PROVE TypeOK'
  <2>1. CASE Await(c)
    BY <2>1, TryTypes DEF Await, Suspend, From, SetStatus, objectVars, threadVars
  <2>2. CASE ctx_set(c)
    BY <2>2 DEF ctx_set, From, threadVars
  <2>3. CASE Suspended(c)
    <3>1. ObjectOf(c) \in Object
      BY <2>3, ObjectType DEF Suspended, From, Busy
    <3>2. QED  BY <2>3, <3>1 DEF Suspended, From, threadVars
  <2>4. CASE ctx_clear(c)
    BY <2>4 DEF ctx_clear, From, threadVars
  <2>5. CASE Return(c)
    BY <2>5 DEF Return, From, threadVars, objectVars
  <2>6. QED  BY <1>1, <2>1, <2>2, <2>3, <2>4, <2>5 DEF CoStep
<1>2. ASSUME NEW c \in Ctx, SchedStep(c), UNCHANGED <<awaits, objectVars, threadVars>>
      PROVE  TypeOK'
  BY <1>2, TryTypes
  DEF SchedStep, Switch, SleepAdd, SleepTimeout, SleepRemove, Run, From, SetStatus,
      objectVars, threadVars
<1>3. ASSUME NEW h \in Caller, Store(h) PROVE TypeOK'
  <2>1. one[h] \in Object
    BY <1>3 DEF Store, Busy
  <2>2. QED  BY <1>3, <2>1 DEF Store, coVars
<1>4. ASSUME NEW h \in Caller, Resume(h) PROVE TypeOK'
  <2>1. one[h] \in Object /\ one[h][1] \in Ctx
    BY <1>4 DEF Resume, Busy, Object
  <2>2. QED  BY <1>4, <2>1, TryTypes DEF Resume, SetStatus, objectVars
<1>5. ASSUME NEW h \in Caller, NEW o \in Object, Call(h, o) PROVE TypeOK'
  BY <1>5 DEF Call, Calls, coVars
<1>6. CASE UNCHANGED vars
  BY <1>6 DEF vars, objectVars, threadVars, coVars
<1>7. QED  BY <1>1, <1>2, <1>3, <1>4, <1>5, <1>6 DEF Next, CoStep

------------------------------------------------------------------------------
(* The steps *)

\* Objects of different awaits are different.
LEMMA Objects ==
  ASSUME TypeOK, NEW c \in Ctx, NEW d \in Ctx
  PROVE  /\ ObjectOf(c) = ObjectOf(d) => c = d
         /\ ObjectOf(c)[1] = c /\ ObjectOf(c)[2] = awaits[c]
  BY DEF TypeOK, ObjectOf

LEMMA InvAwait ==
  ASSUME IInv, TypeOK', NEW c \in Ctx, Await(c)
  PROVE  IInv'
<1> USE DEF IInv
<1>1. /\ awaits[c] \in Nat /\ awaits' = [awaits EXCEPT ![c] = awaits[c] + 1]
      /\ pc[c] = "out" /\ pc' \in [Ctx -> AsleepPC \cup {"out", "set", "suspend"}]
      /\ pc'[c] \in {"set", "woken"}
      /\ \A d \in Ctx \ {c} : /\ pc'[d] = pc[d] /\ status'[d] = status[d]
                              /\ timed_out'[d] = timed_out[d] /\ ObjectOf(d)' = ObjectOf(d)
      /\ UNCHANGED <<ctx_, t_, suspended, calls, tpc, one>>
  BY DEF Await, Suspend, From, SetStatus, TypeOK, AsleepTypeOK, objectVars, threadVars, ObjectOf
<1>2. c \notin Timed => pc'[c] = "set" /\ status'[c] = "Yield_Reset_Reset" /\ ~timed_out'[c]
  BY DEF Await, Suspend, From, SetStatus, TypeOK, AsleepTypeOK, Places, Place, TryYield, Becomes
<1>3. Places' /\ Busy'
  BY <1>1, <1>2 DEF Places, Place, Busy, TypeOK
<1>4. GivenOut'
  <2> SUFFICES ASSUME NEW o \in suspended
               PROVE  o[2] <= awaits'[o[1]] /\ (pc'[o[1]] \in {"set", "suspend"} => o[2] < awaits'[o[1]])
    BY <1>1 DEF GivenOut
  <2>1. o[1] \in Ctx /\ o[2] \in Nat /\ o[2] <= awaits[o[1]] /\ awaits[o[1]] \in Nat
    BY AwaitAssumption DEF GivenOut, TypeOK, Object
  <2>2. QED  BY <1>1, <2>1 DEF GivenOut, TypeOK
<1>5. Called' /\ Reachable'
  BY <1>1 DEF Called, Reachable, Free
<1>6. Held'
  BY <1>1 DEF Held, Free
<1>7. Taken'
  BY <1>1 DEF Taken, Free
<1>8. Stored'
  BY <1>1, <1>2 DEF Stored, Free
<1>9. QED  BY <1>3, <1>4, <1>5, <1>6, <1>7, <1>8

LEMMA InvSet ==
  ASSUME IInv, TypeOK', NEW c \in Ctx, ctx_set(c)
  PROVE  IInv'
<1> USE DEF IInv
<1>1. /\ pc[c] = "set" /\ pc' = [pc EXCEPT ![c] = "suspend"]
      /\ ctx_' = [ctx_ EXCEPT ![ObjectOf(c)] = c] /\ ObjectOf(c) \in Object
      /\ ObjectOf(c)[1] = c /\ ObjectOf(c)[2] = awaits[c] /\ awaits[c] \in Nat /\ c # None
      /\ UNCHANGED <<awaits, t_, suspended, calls, tpc, one, status, timed_out>>
      /\ \A d \in Ctx : ObjectOf(d)' = ObjectOf(d)
  BY Objects, ObjectType, CtxAssumption DEF ctx_set, From, Busy, TypeOK, threadVars, ObjectOf
<1>2. pc \in [Ctx -> AsleepPC \cup {"out", "set", "suspend"}] /\ ctx_ \in [Object -> Ctx \cup {None}]
  BY DEF TypeOK, AsleepTypeOK
<1>3. Places' /\ Busy' /\ GivenOut'
  BY <1>1, <1>2 DEF Places, Place, Busy, GivenOut
<1>4. Called'
  BY <1>1, <1>2 DEF Called, GivenOut
<1>5. Reachable'
  BY <1>1, <1>2, Objects DEF Reachable, Free
<1>6. Held'
  BY <1>1, <1>2 DEF Held, Free, FreeStatus, Places, Place, Object
<1>7. Taken'
  BY <1>1, <1>2 DEF Taken, Free, TypeOK, Object
<1>8. Stored'
  BY <1>1, <1>2 DEF Stored, Free
<1>9. QED  BY <1>3, <1>4, <1>5, <1>6, <1>7, <1>8

LEMMA InvSuspended ==
  ASSUME IInv, TypeOK', NEW c \in Ctx, Suspended(c)
  PROVE  IInv'
<1> USE DEF IInv
<1>1. /\ pc[c] = "suspend" /\ pc' = [pc EXCEPT ![c] = "sw"]
      /\ suspended' = suspended \cup {ObjectOf(c)}
      /\ ObjectOf(c)[1] = c /\ ObjectOf(c)[2] = awaits[c] /\ awaits[c] \in Nat
      /\ UNCHANGED <<awaits, ctx_, t_, calls, tpc, one, status, timed_out>>
      /\ \A d \in Ctx : ObjectOf(d)' = ObjectOf(d)
  BY Objects DEF Suspended, From, TypeOK, threadVars, ObjectOf
<1>2. pc \in [Ctx -> AsleepPC \cup {"out", "set", "suspend"}]
  BY DEF TypeOK, AsleepTypeOK
<1>3. Places' /\ Busy'
  BY <1>1, <1>2 DEF Places, Place, Busy
<1>4. GivenOut'
  BY <1>1, <1>2 DEF GivenOut
<1>5. Called' /\ Reachable'
  BY <1>1, <1>2 DEF Called, Reachable, Free
<1>6. Held'
  BY <1>1, <1>2 DEF Held, Free, Object
<1>7. Taken'
  BY <1>1, <1>2 DEF Taken, Free, TypeOK, Object
<1>8. Stored'
  BY <1>1, <1>2 DEF Stored, Free, FreeStatus, Places, Place
<1>9. QED  BY <1>3, <1>4, <1>5, <1>6, <1>7, <1>8

LEMMA InvClear ==
  ASSUME IInv, TypeOK', NEW c \in Ctx, ctx_clear(c)
  PROVE  IInv'
<1> USE DEF IInv
<1>1. /\ pc[c] = "remove" /\ pc' = [pc EXCEPT ![c] = "out"]
      /\ ctx_' = [ctx_ EXCEPT ![ObjectOf(c)] = None]
      /\ UNCHANGED <<awaits, t_, suspended, calls, tpc, one, status, timed_out>>
      /\ \A d \in Ctx : ObjectOf(d)' = ObjectOf(d)
  BY DEF ctx_clear, From, threadVars, ObjectOf
<1>2. pc \in [Ctx -> AsleepPC \cup {"out", "set", "suspend"}] /\ ctx_ \in [Object -> Ctx \cup {None}]
  BY DEF TypeOK, AsleepTypeOK
<1>3. c \in Timed
  BY <1>1 DEF Places, Place
<1>4. Places' /\ Busy' /\ GivenOut'
  BY <1>1, <1>2, <1>3 DEF Places, Place, Busy, GivenOut
<1>5. Called'
  BY <1>1, <1>2 DEF Called
<1>6. Reachable'
  <2> SUFFICES ASSUME NEW d \in Ctx, d # c
               PROVE  /\ pc[d] = "suspend" => ctx_'[ObjectOf(d)] # None
                      /\ pc[d] \in {"sw", "parked"} /\ Free(d) =>
                           ctx_'[ObjectOf(d)] # None \/ \E h \in Caller : one[h] = ObjectOf(d)
    BY <1>1, <1>2 DEF Reachable, Free
  <2>1. pc[d] # "out" => ObjectOf(d) \in Object
    BY ObjectType DEF Busy
  <2>2. pc[d] # "out" => ctx_'[ObjectOf(d)] = ctx_[ObjectOf(d)]
    BY <1>1, <1>2, <2>1, Objects
  <2>3. QED  BY <2>2 DEF Reachable
<1>7. Held'
  BY <1>1, <1>2, <1>3, Objects DEF Held, Free, Object
<1>8. Taken'
  BY <1>1, <1>2, <1>3 DEF Taken, Free, TypeOK, Object
<1>9. Stored'
  BY <1>1, <1>2, <1>3 DEF Stored, Free
<1>10. QED  BY <1>4, <1>5, <1>6, <1>7, <1>8, <1>9

LEMMA InvReturn ==
  ASSUME IInv, TypeOK', NEW c \in Ctx, Return(c)
  PROVE  IInv'
<1> USE DEF IInv
<1>1. /\ pc[c] = "woken" /\ pc' = [pc EXCEPT ![c] = "out"]
      /\ UNCHANGED <<awaits, ctx_, t_, suspended, calls, tpc, one, status, timed_out>>
      /\ \A d \in Ctx : ObjectOf(d)' = ObjectOf(d)
  BY DEF Return, From, threadVars, objectVars, ObjectOf
<1>2. pc \in [Ctx -> AsleepPC \cup {"out", "set", "suspend"}]
  BY DEF TypeOK, AsleepTypeOK
<1>3. Places' /\ Busy' /\ GivenOut' /\ Called'
  BY <1>1, <1>2 DEF Places, Place, Busy, GivenOut, Called
<1>4. Reachable' /\ Stored'
  BY <1>1, <1>2 DEF Reachable, Stored, Free
<1>5. Held'
  BY <1>1, <1>2 DEF Held, Free, Object
<1>6. Taken'
  BY <1>1, <1>2 DEF Taken, Free, TypeOK, Object
<1>7. QED  BY <1>3, <1>4, <1>5, <1>6

\* What the scheduler does to c: a coroutine that nobody has resumed is not
\* made ready, unless its timer goes off.
LEMMA SchedMoves ==
  ASSUME TypeOK, NEW c \in Ctx, SchedStep(c)
  PROVE  /\ pc[c] \in {"sw", "parked"} /\ pc'[c] \in {"parked", "remove", "woken"}
         /\ \A d \in Ctx \ {c} : /\ pc'[d] = pc[d] /\ status'[d] = status[d]
                                 /\ timed_out'[d] = timed_out[d]
         /\ pc'[c] = "parked" /\ status'[c] \in FreeStatus => Free(c)
         /\ Place(c) => /\ Place(c)'
                        /\ pc'[c] = "parked" => (status'[c] \in FreeStatus <=> Free(c))
                        /\ pc'[c] = "woken" => ~Free(c)
  BY DEF SchedStep, Switch, SleepAdd, SleepTimeout, SleepRemove, Run, From, SetStatus,
         TrySw, TrySleepAdd, TrySleepTimeout, TrySleepRemove, Becomes, Fails,
         Place, Free, FreeStatus, TypeOK, AsleepTypeOK, AsleepPC, Status, YieldStatus, SleepStatus

LEMMA InvSched ==
  ASSUME IInv, TypeOK', NEW c \in Ctx, SchedStep(c), UNCHANGED <<awaits, objectVars, threadVars>>
  PROVE  IInv'
<1> USE DEF IInv
<1>1. /\ UNCHANGED <<awaits, ctx_, t_, suspended, calls, tpc, one>>
      /\ \A d \in Ctx : ObjectOf(d)' = ObjectOf(d)
  BY DEF threadVars, objectVars, ObjectOf
<1>2. c \notin Timed => Place(c)
  BY DEF Places
<1>3. Places'
  BY SchedMoves, <1>2 DEF Places, Place
<1>4. Busy' /\ Called'
  BY SchedMoves, <1>1 DEF Busy, Called
<1>5. GivenOut'
  BY SchedMoves, <1>1 DEF GivenOut, TypeOK, Object
<1>6. Reachable'
  BY SchedMoves, <1>1 DEF Reachable, Free
<1>7. ASSUME NEW d \in Ctx \ Timed, Free(d), pc[d] \in {"suspend", "sw", "parked"},
             d = c => ctx_[ObjectOf(c)] # None \/ \E h \in Caller : one[h] = ObjectOf(c)
      PROVE  Free(d)' /\ (pc'[d] = pc[d] \/ pc'[d] = "parked")
  <2>1. CASE d = c
    BY <1>2, <1>7, <2>1, SchedMoves DEF Free, Place, SchedStep, Switch, SleepAdd, SleepTimeout,
       SleepRemove, Run, From, SetStatus, TrySw, TrySleepAdd, TrySleepTimeout, TrySleepRemove,
       Becomes, Fails, FreeStatus, TypeOK, AsleepTypeOK
  <2>2. CASE d # c
    BY <1>7, <2>2, SchedMoves DEF Free
  <2>3. QED  BY <2>1, <2>2
<1>8. Held'
  BY SchedMoves, <1>1, <1>7 DEF Held, Free, Object
<1>9. Taken'
  BY SchedMoves, <1>1, <1>7 DEF Taken, Free, TypeOK, Object
<1>10. Stored'
  BY SchedMoves, <1>1, <1>2 DEF Stored, Free
<1>11. QED  BY <1>3, <1>4, <1>5, <1>6, <1>8, <1>9, <1>10

LEMMA InvCall ==
  ASSUME IInv, TypeOK', NEW h \in Caller, NEW o \in Object, Call(h, o)
  PROVE  IInv'
<1> USE DEF IInv
<1>1. /\ one[h] = None /\ tpc[h] = "idle" /\ o \in suspended
      /\ calls' = [calls EXCEPT ![o] = @ + 1] /\ ctx_' = [ctx_ EXCEPT ![o] = None]
      /\ IF ctx_[o] = None THEN UNCHANGED <<tpc, one>>
         ELSE tpc' = [tpc EXCEPT ![h] = "store"] /\ one' = [one EXCEPT ![h] = o]
      /\ UNCHANGED <<awaits, t_, suspended, status, timed_out, pc>>
      /\ \A d \in Ctx : ObjectOf(d)' = ObjectOf(d)
  BY DEF Call, Calls, Busy, coVars, ObjectOf
<1>2. /\ ctx_ \in [Object -> Ctx \cup {None}] /\ one \in [Caller -> Object \cup {None}]
      /\ calls \in [Object -> Nat] /\ o # None /\ o[1] \in Ctx
      /\ tpc \in [Caller -> {"idle", "store", "resume"}]
  BY AwaitAssumption DEF TypeOK, Object
<1>3. Places' /\ Busy' /\ GivenOut' /\ Stored'
  <2>1. Places' /\ GivenOut' /\ Stored'
    BY <1>1 DEF Places, Place, GivenOut, Stored, Free
  <2>2. Busy'
    BY <1>1, <1>2 DEF Busy
  <2>3. QED  BY <2>1, <2>2
<1>4. Called'
  BY <1>1, <1>2 DEF Called
<1>5. Reachable'
  <2> SUFFICES ASSUME NEW d \in Ctx
               PROVE  /\ pc[d] = "suspend" => ctx_'[ObjectOf(d)] # None
                      /\ pc[d] \in {"sw", "parked"} /\ Free(d) =>
                           ctx_'[ObjectOf(d)] # None \/ \E g \in Caller : one'[g] = ObjectOf(d)
    BY <1>1 DEF Reachable, Free
  <2>1. pc[d] = "suspend" => ObjectOf(d) # o
    BY <1>1, Objects DEF GivenOut, TypeOK
  <2>2. pc[d] # "out" => ObjectOf(d) \in Object
    BY ObjectType DEF Busy
  <2>3. CASE ObjectOf(d) # o
    <3>1. pc[d] # "out" => ctx_'[ObjectOf(d)] = ctx_[ObjectOf(d)]
      BY <1>1, <1>2, <2>2, <2>3
    <3>2. \A g \in Caller : one[g] = ObjectOf(d) /\ pc[d] # "out" => one'[g] = one[g]
      BY <1>1, <1>2, <2>2, AwaitAssumption
    <3>3. QED  BY <3>1, <3>2 DEF Reachable
  <2>4. CASE ObjectOf(d) = o
    <3>1. ASSUME NEW g \in Caller, one[g] = o PROVE one'[g] = o
      BY <1>1, <1>2, <3>1
    <3>2. ctx_[o] # None => one'[h] = o
      BY <1>1, <1>2
    <3>3. QED  BY <2>1, <2>4, <3>1, <3>2 DEF Reachable
  <2>5. QED  BY <2>3, <2>4
<1>6. Held'
  BY <1>1, <1>2 DEF Held, Free
<1>7. Taken'
  <2> SUFFICES ASSUME NEW c \in Ctx \ Timed, NEW g \in Caller, one'[g] # None, one'[g][1] = c
               PROVE  /\ one'[g] = ObjectOf(c) /\ pc[c] \in {"sw", "parked"} /\ Free(c)
                      /\ ctx_'[one'[g]] = None
                      /\ \A f \in Caller : one'[f] = one'[g] => f = g
                      /\ tpc'[g] = "resume" => t_[one'[g]] # None
    BY <1>1 DEF Taken, Free
  <2>1. CASE ctx_[o] = None
    BY <1>1, <1>2, <2>1 DEF Taken
  <2>2. CASE ctx_[o] # None /\ g = h
    <3>1. one' = [one EXCEPT ![h] = o] /\ tpc'[h] = "store" /\ ctx_'[o] = None /\ o[1] = c
      BY <1>1, <1>2, <2>2
    <3>2. o = ObjectOf(c) /\ pc[c] \in {"sw", "parked"} /\ Free(c)
      BY <1>1, <1>2, <2>2, <3>1, Objects DEF Held, GivenOut, TypeOK
    <3>3. \A f \in Caller : one[f] # o
      BY <1>2, <2>2, <3>1 DEF Taken
    <3>4. QED  BY <1>2, <2>2, <3>1, <3>2, <3>3
  <2>3. CASE ctx_[o] # None /\ g # h
    <3>1. one' = [one EXCEPT ![h] = o] /\ tpc'[g] = tpc[g] /\ one'[g] = one[g]
      BY <1>1, <1>2, <2>3
    <3>2. one[g] # o
      BY <1>2, <2>3, <3>1 DEF Taken
    <3>3. QED  BY <1>1, <1>2, <2>3, <3>1, <3>2 DEF Taken
  <2>4. QED  BY <2>1, <2>2, <2>3
<1>8. QED  BY <1>3, <1>4, <1>5, <1>6, <1>7

LEMMA InvStore ==
  ASSUME IInv, TypeOK', NEW h \in Caller, Store(h)
  PROVE  IInv'
<1> USE DEF IInv
<1>1. /\ tpc[h] = "store" /\ tpc' = [tpc EXCEPT ![h] = "resume"]
      /\ t_' = [t_ EXCEPT ![one[h]] = h] /\ one[h] # None /\ one[h] \in Object /\ h # None
      /\ UNCHANGED <<awaits, ctx_, suspended, calls, one, status, timed_out, pc>>
      /\ \A d \in Ctx : ObjectOf(d)' = ObjectOf(d)
  BY AwaitAssumption DEF Store, Busy, coVars, ObjectOf, TypeOK
<1>2. /\ t_ \in [Object -> Caller \cup {None}]
      /\ tpc \in [Caller -> {"idle", "store", "resume"}]
  BY DEF TypeOK
<1>3. \A o \in Object : t_[o] # None => t_'[o] # None
  BY <1>1, <1>2
<1>4. Places' /\ GivenOut' /\ Called' /\ Reachable' /\ Held'
  <2>1. Places' /\ GivenOut' /\ Called'
    BY <1>1 DEF Places, Place, GivenOut, Called
  <2>2. Reachable' /\ Held'
    BY <1>1 DEF Reachable, Held, Free
  <2>3. QED  BY <2>1, <2>2
<1>5. Busy'
  BY <1>1, <1>2 DEF Busy
<1>6. Taken'
  <2>1. \A g \in Caller : one[g] # None => one[g] \in Object
    BY DEF TypeOK
  <2>2. \A g \in Caller : one[g] # None /\ tpc'[g] = "resume" =>
          tpc[g] = "resume" \/ t_'[one[g]] # None
    BY <1>1, <1>2, <2>1
  <2>3. QED  BY <1>1, <1>3, <2>1, <2>2 DEF Taken, Free, Object
<1>7. Stored'
  <2>1. \A c \in Ctx : pc[c] # "out" => ObjectOf(c) \in Object
    BY ObjectType DEF Busy
  <2>2. QED  BY <1>1, <1>3, <2>1 DEF Stored, Free
<1>8. QED  BY <1>4, <1>5, <1>6, <1>7

LEMMA ResumeMoves ==
  ASSUME NEW s \in Status
  PROVE  /\ TryResume(s).to \notin FreeStatus
         /\ s \notin FreeStatus => TryResume(s).to = s
         /\ s = "Yield_Reset_Reset" => TryResume(s).to = "Yield_Break_Reset"
         /\ s = "Yield_Set_Reset" => TryResume(s).to = "Ready_Reset_Reset"
         /\ s \in FreeStatus => TryResume(s).res >= 0
  BY DEF TryResume, Becomes, Fails, FreeStatus, Status, YieldStatus, SleepStatus

LEMMA InvResume ==
  ASSUME IInv, TypeOK', NEW h \in Caller, Resume(h)
  PROVE  IInv'
<1> USE DEF IInv
<1>1. PICK c \in Ctx : c = one[h][1]
  BY DEF Resume, Busy, TypeOK, Object
<1>2. /\ tpc[h] = "resume" /\ tpc' = [tpc EXCEPT ![h] = "idle"]
      /\ status' = [status EXCEPT ![c] = TryResume(status[c]).to]
      /\ one' = [one EXCEPT ![h] = None] /\ one[h] # None /\ one[h] \in Object
      /\ UNCHANGED <<awaits, ctx_, t_, suspended, calls, timed_out, pc>>
      /\ \A d \in Ctx : ObjectOf(d)' = ObjectOf(d)
  BY <1>1 DEF Resume, Busy, SetStatus, objectVars, ObjectOf, TypeOK
<1>3. /\ status \in [Ctx -> Status] /\ one \in [Caller -> Object \cup {None}]
      /\ tpc \in [Caller -> {"idle", "store", "resume"}]
  BY DEF TypeOK, AsleepTypeOK
<1>4. status'[c] \notin FreeStatus /\ (~Free(c) => status'[c] = status[c])
  BY <1>2, <1>3, ResumeMoves DEF Free
<1>5. c \notin Timed => /\ one[h] = ObjectOf(c) /\ pc[c] \in {"sw", "parked"} /\ Free(c)
                        /\ ctx_[one[h]] = None /\ \A g \in Caller : one[g] = one[h] => g = h
                        /\ t_[one[h]] # None
  BY <1>1, <1>2 DEF Taken
<1>6. Places'
  BY <1>2, <1>3, <1>5, ResumeMoves DEF Places, Place, Free, FreeStatus
<1>7. Busy' /\ GivenOut' /\ Called'
  BY <1>2, <1>3 DEF Busy, GivenOut, Called
<1>8. Reachable'
  <2> SUFFICES ASSUME NEW d \in Ctx
               PROVE  /\ pc[d] = "suspend" => ctx_[ObjectOf(d)] # None
                      /\ pc[d] \in {"sw", "parked"} /\ Free(d)' =>
                           ctx_[ObjectOf(d)] # None \/ \E g \in Caller : one'[g] = ObjectOf(d)
    BY <1>2 DEF Reachable
  <2>1. CASE d = c
    BY <1>4, <2>1 DEF Reachable, Free
  <2>2. CASE d # c
    <3>1. Free(d)' <=> Free(d)
      BY <1>2, <1>3, <2>2 DEF Free
    <3>2. \A g \in Caller : one[g] = ObjectOf(d) => one'[g] = one[g]
      BY <1>1, <1>2, <1>3, <2>2, Objects
    <3>3. QED  BY <3>1, <3>2 DEF Reachable
  <2>3. QED  BY <2>1, <2>2
<1>9. Held'
  BY <1>2, <1>3, <1>5 DEF Held, Free
<1>10. Taken'
  <2> SUFFICES ASSUME NEW d \in Ctx \ Timed, NEW g \in Caller, one'[g] # None, one'[g][1] = d
               PROVE  /\ one'[g] = ObjectOf(d) /\ pc[d] \in {"sw", "parked"} /\ Free(d)'
                      /\ ctx_[one'[g]] = None
                      /\ \A f \in Caller : one'[f] = one'[g] => f = g
                      /\ tpc'[g] = "resume" => t_[one'[g]] # None
    BY <1>2 DEF Taken
  <2>1. g # h /\ one'[g] = one[g] /\ tpc'[g] = tpc[g]
    BY <1>2, <1>3
  <2>2. d # c
    BY <1>5, <2>1 DEF Taken
  <2>3. Free(d)' <=> Free(d)
    BY <1>2, <1>3, <2>2 DEF Free
  <2>4. \A f \in Caller : one'[f] = one'[g] => one[f] = one[g]
    BY <1>2, <1>3
  <2>5. QED  BY <2>1, <2>3, <2>4 DEF Taken
<1>11. Stored'
  <2> SUFFICES ASSUME NEW d \in Ctx \ Timed, pc[d] = "woken" \/ (pc[d] \in {"sw", "parked"} /\ ~Free(d)')
               PROVE  t_[ObjectOf(d)] # None
    BY <1>2 DEF Stored
  <2>1. CASE d = c
    BY <1>5, <2>1
  <2>2. CASE d # c
    BY <1>2, <1>3, <2>2 DEF Stored, Free
  <2>3. QED  BY <2>1, <2>2
<1>12. QED  BY <1>6, <1>7, <1>8, <1>9, <1>10, <1>11

------------------------------------------------------------------------------
(* The theorems *)

LEMMA InvariantInit == Init => IInv
<1> SUFFICES ASSUME Init PROVE IInv
  OBVIOUS
<1> USE AwaitAssumption, CtxAssumption
    DEF Init, AsleepInit, IInv
<1>1. TypeOK
  BY DEF TypeOK, AsleepTypeOK, AsleepPC, Status, YieldStatus, SleepStatus
<1>2. Places /\ Busy /\ GivenOut /\ Called /\ Reachable
  BY DEF Places, Place, Busy, GivenOut, Called, Reachable
<1>3. Held /\ Taken /\ Stored
  BY DEF Held, Taken, Stored
<1>4. QED  BY <1>1, <1>2, <1>3

LEMMA InvariantStep == IInv /\ [Next]_vars => IInv'
<1> SUFFICES ASSUME IInv, [Next]_vars PROVE IInv'
  OBVIOUS
<1>1. TypeOK'
  BY TypePreserved
<1>2. CASE UNCHANGED vars
  BY <1>1, <1>2
  DEF IInv, vars, objectVars, threadVars, coVars, Places, Place, Busy, GivenOut, Called, Reachable,
      Held, Taken, Stored, Free, ObjectOf
<1>3. CASE Next
  BY <1>1, <1>3, InvAwait, InvSet, InvSuspended, InvClear, InvReturn, InvSched, InvCall, InvStore,
     InvResume
  DEF Next
<1>4. QED  BY <1>2, <1>3

THEOREM Invariance == Spec => []IInv
  BY InvariantInit, InvariantStep, PTL DEF Spec

(* The variables of the coroutines, of the contexts and of the threads in      *)
(* resume() keep their types (coawaitable.hpp).                                *)
THEOREM TypeCorrect == Spec => []TypeOK
  BY Invariance, PTL DEF IInv

LEMMA EndsOnce == IInv => AwaitEnds
<1> SUFFICES ASSUME IInv, NEW c \in Ctx \ Timed
             PROVE  /\ \A h \in Caller : one[h] # None /\ one[h][1] = c =>
                         /\ Takers(one[h]) = {h} /\ one[h] = ObjectOf(c)
                         /\ TryResume(status[c]).res >= 0
                    /\ pc[c] = "woken" => t_[ObjectOf(c)] # None
  BY DEF AwaitEnds
<1>1. status[c] \in Status
  BY DEF IInv, TypeOK, AsleepTypeOK
<1>2. ASSUME NEW h \in Caller, one[h] # None, one[h][1] = c
      PROVE  Takers(one[h]) = {h} /\ one[h] = ObjectOf(c) /\ TryResume(status[c]).res >= 0
  <2>1. one[h] = ObjectOf(c) /\ Free(c) /\ \A g \in Caller : one[g] = one[h] => g = h
    BY <1>2 DEF IInv, Taken
  <2>2. Takers(one[h]) = {h}
    BY <2>1 DEF Takers
  <2>3. QED  BY <1>1, <2>1, <2>2, ResumeMoves DEF Free
<1>3. pc[c] = "woken" => t_[ObjectOf(c)] # None
  BY DEF IInv, Stored
<1>4. QED  BY <1>2, <1>3

(* Any number of threads call the handles of a coroutine's object, each at any *)
(* time: its await ends with the result that one of them has stored, and no    *)
(* later resume is on its way (coawaitable.hpp:24-31, 126-146).                *)
THEOREM AwaitsEndOnce == Spec => []AwaitEnds
  BY Invariance, EndsOnce, PTL

LEMMA NoCallLost == IInv => CallHeard
<1> SUFFICES ASSUME IInv, NEW c \in Ctx, pc[c] = "parked",
                    status[c] \in {"Yield_Set_Reset", "Sleep_Set_Set"}, calls[ObjectOf(c)] > 0
             PROVE  Takers(ObjectOf(c)) # {}
  BY DEF CallHeard
<1>1. ObjectOf(c) \in Object
  BY ObjectType DEF IInv, Busy
<1>2. ctx_[ObjectOf(c)] = None
  BY <1>1 DEF IInv, Called
<1>3. QED  BY <1>2 DEF IInv, Reachable, Takers, Free, FreeStatus

(* No call of a handle is lost, with a timeout or without                      *)
(* (coawaitable.hpp:22-31, 131-134).                                           *)
THEOREM CallsHeard == Spec => []CallHeard
  BY Invariance, NoCallLost, PTL
===============================================================================
