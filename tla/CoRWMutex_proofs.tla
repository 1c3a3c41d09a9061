--------------------------- MODULE CoRWMutex_proofs ---------------------------
(***************************************************************************)
(* What comutexshared promises, proved for every number of coroutines: it  *)
(* is a readers-writer mutex, and the permits of its two semaphores are    *)
(* those that somebody is meant to take.                                   *)
(***************************************************************************)
EXTENDS CoRWMutex, FiniteSetTheorems, TLAPS

------------------------------------------------------------------------------
(* The invariant *)

\* c is in a call of wait(), or of notify(), and returns to p.
Waits(c, s, p) == on[c] = s /\ ret[c] = p
                  /\ pc[c] \in WaitPC \cup NotifyPC \cup {"sw", "parked"}
Notifies(c, s, p) == on[c] = s /\ ret[c] = p /\ pc[c] \in NotifyPC \cup {"inc"}

\* The place of c in the code, and its status word there.
Place(c) ==
  /\ pc[c] \in UserPC => on[c] = None /\ ret[c] = "out"
  /\ pc[c] \notin UserPC =>
       \/ Waits(c, "rsem", "read") \/ Waits(c, "wsem", "write")
       \/ Notifies(c, "rsem", "wake") \/ Notifies(c, "wsem", "out")
  /\ pc[c] \in UserPC \cup {"dec", "yield", "inc"} => status[c] = "Ready_Reset_Reset"
  /\ pc[c] \in {"check", "push", "recheck", "sw"} =>
       status[c] \in {"Yield_Reset_Reset", "Yield_Break_Reset"}
  /\ pc[c] \in NotifyPC =>
       IF ret[c] \in {"read", "write"}
       THEN status[c] \in {"Yield_Reset_Reset", "Yield_Break_Reset"}
       ELSE status[c] = "Ready_Reset_Reset"
  /\ pc[c] = "parked" => status[c] \in {"Yield_Set_Reset", "Ready_Reset_Reset"}
  /\ pc[c] = "resume" => popped[c] \in Ctx

Places == \A c \in Ctx : Place(c)

\* c has got wmtx_ and has not given it back.
Holds(c) ==
  \/ pc[c] \in {"mark", "add", "write", "wake", "release"}
  \/ on[c] = "wsem" /\ ret[c] = "write"
  \/ ret[c] = "wake"

Owners == \A c \in Ctx : Holds(c) <=> owner = c

nRead == Cardinality(At("read"))
nLeft == Cardinality(At("left"))
nWait == Cardinality(InWait("rsem"))
nPass == Permits("rsem")
nTurn == Permits("wsem")

\* Where the holder of wmtx_ is.
Writing == owner # None /\ pc[owner] = "write"
Adding == owner # None /\ pc[owner] = "add"
Asleep == owner # None /\ on[owner] = "wsem" /\ ret[owner] = "write"
Releasing == owner # None /\ (pc[owner] = "wake" \/ ret[owner] = "wake")

\* The counters and the permits, for a writer at each place, and without one.
Counts ==
  /\ Writing => nRead = 0 /\ nLeft = 0 /\ nPass = 0 /\ nTurn = 0 /\ wait_ = 0
  /\ Asleep => wait_ = nRead + nPass + nLeft /\ nTurn = IF wait_ = 0 THEN 1 ELSE 0
  /\ Adding => wait_ + r[owner] = nRead + nPass + nLeft /\ nTurn = 0 /\ wait_ <= 0
  /\ Writing \/ Asleep \/ Adding => count_ = nRead + nWait - RWMax
  /\ ~(Writing \/ Asleep \/ Adding) =>
       /\ wait_ = 0 /\ nTurn = 0 /\ nLeft = 0
       /\ nWait = nPass + (IF Releasing THEN r[owner] ELSE 0)
       /\ count_ = nRead + nWait

IInv == TypeOK /\ Places /\ Owners /\ Counts

------------------------------------------------------------------------------
(* Types and places *)

\* A step of the code of comutexshared, and a step of the locks' callers.
UserStep(c) ==
  \/ Lock(c) \/ LockShared(c) \/ LockWriters(c)
  \/ Mark(c) \/ AddWait(c) \/ Unlock(c) \/ Wake(c) \/ UnlockWriters(c)
  \/ UnlockShared(c) \/ Left(c)

LEMMA SemTypes ==
  ASSUME TypeOK, Places, NEW c \in Ctx, SemCall(c)
  PROVE  TypeOK'
<1> USE SemAssumption
    DEF TypeOK, SemTypeOK, SemPC, WaitPC, NotifyPC, SemCall, rwVars
<1>1. pc[c] \notin UserPC => on[c] \in Sem /\ ret[c] \in UserPC
  BY DEF Places, Place, Waits, Notifies
<1>2. CASE Dec(c)
  <2>1. pc[c] \notin UserPC
    BY <1>2 DEF Dec, UserPC
  <2>2. CASE sem_[on[c]] > 0
    <3>1. sem_' \in [Sem -> Nat]
      BY <1>1, <1>2, <2>1, <2>2 DEF Dec
    <3>2. pc' = [pc EXCEPT ![c] = ret[c]] /\ ret' = [ret EXCEPT ![c] = "out"]
          /\ on' = [on EXCEPT ![c] = None]
          /\ UNCHANGED <<ctx_que_, status, popped>>
      BY <1>2, <2>2 DEF Dec, Return
    <3>3. QED  BY <3>1, <3>2 DEF UserPC
  <2>3. CASE ~(sem_[on[c]] > 0)
    BY <1>2, <2>3 DEF Dec, From
  <2>4. QED  BY <2>2, <2>3
<1>3. CASE dco_yield(c) \/ Switch(c)
  <2>1. status' \in [Ctx -> Status]
    BY <1>3 DEF dco_yield, Switch, SetStatus, TryYield, TrySw, Becomes, Fails, Status,
                YieldStatus, SleepStatus
  <2>2. QED  BY <1>3, <2>1 DEF dco_yield, Switch, From
<1>4. CASE Check(c) \/ Recheck(c) \/ Run(c)
  BY <1>4 DEF Check, Recheck, Run, From
<1>5. CASE Push(c) \/ \E d \in Ctx : Pop(c, d)
  <2>1. on[c] \in Sem
    BY <1>1, <1>5 DEF Push, Pop, From, UserPC
  <2>2. \A d \in Ctx : ctx_que_[on[c]][d] \in Nat
    BY <2>1
  <2>3. CASE Push(c)
    <3>1. ctx_que_' \in [Sem -> [Ctx -> Nat]]
      BY <2>1, <2>2, <2>3 DEF Push
    <3>2. QED  BY <2>3, <3>1 DEF Push, From
  <2>4. ASSUME NEW d \in Ctx, Pop(c, d) PROVE TypeOK'
    <3>1. ctx_que_[on[c]][d] - 1 \in Nat
      BY <2>2, <2>4 DEF Pop
    <3>2. ctx_que_' \in [Sem -> [Ctx -> Nat]]
      BY <2>1, <2>4, <3>1 DEF Pop
    <3>3. QED  BY <2>4, <3>2 DEF Pop, From
  <2>5. QED  BY <1>5, <2>3, <2>4
<1>6. CASE Inc(c)
  <2>1. on[c] \in Sem
    BY <1>1, <1>6 DEF Inc, From, UserPC
  <2>2. sem_' \in [Sem -> Nat]
    BY <1>6, <2>1 DEF Inc
  <2>3. QED  BY <1>6, <2>2 DEF Inc, From
<1>7. CASE PopNothing(c) \/ Resume(c)
  <2>1. status' \in [Ctx -> Status]
    <3>1. CASE PopNothing(c)
      BY <3>1 DEF PopNothing
    <3>2. CASE Resume(c)
      <4>1. PICK d \in Ctx : d = popped[c]
        BY <3>2 DEF Resume, Places, Place
      <4>2. TryResume(status[d]).to \in Status
        BY DEF TryResume, Becomes, Fails, Status, YieldStatus, SleepStatus
      <4>3. QED  BY <3>2, <4>1, <4>2 DEF Resume, SetStatus
    <3>3. QED  BY <1>7, <3>1, <3>2
  <2>2. pc' \in [Ctx -> SemPC \cup UserPC] /\ on' \in [Ctx -> Sem \cup {None}]
        /\ ret' \in [Ctx -> UserPC]
    BY <1>7 DEF PopNothing, Resume, NotifyDone, Return, UserPC
  <2>3. popped' \in [Ctx -> Ctx \cup {None}]
    BY <1>7 DEF PopNothing, Resume
  <2>4. QED  BY <1>7, <2>1, <2>2, <2>3 DEF PopNothing, Resume
<1>8. QED  BY <1>2, <1>3, <1>4, <1>5, <1>6, <1>7 DEF SemStep

LEMMA UserTypes ==
  ASSUME TypeOK, NEW c \in Ctx, UserStep(c)
  PROVE  TypeOK'
<1> USE SemAssumption, RWMaxAssumption
    DEF TypeOK, SemTypeOK, SemPC, WaitPC, NotifyPC, UserPC
<1>1. /\ UNCHANGED <<sem_, ctx_que_, status, popped>>
      /\ pc' \in [Ctx -> SemPC \cup UserPC] /\ on' \in [Ctx -> Sem \cup {None}]
      /\ ret' \in [Ctx -> UserPC]
  BY DEF UserStep, Lock, LockShared, LockWriters, Mark, AddWait, Unlock, Wake, UnlockWriters,
         UnlockShared, Left, Goto, From, CallWait, CallNotify, Call
<1>2. count_' \in Int /\ wait_' \in Int /\ r' \in [Ctx -> Int]
  BY DEF UserStep, Lock, LockShared, LockWriters, Mark, AddWait, Unlock, Wake, UnlockWriters,
         UnlockShared, Left, SetR
<1>3. owner' \in Ctx \cup {None} /\ waiting' \subseteq Ctx
  BY DEF UserStep, Lock, LockShared, LockWriters, Mark, AddWait, Unlock, Wake, UnlockWriters,
         UnlockShared, Left, wmtx_!Request, wmtx_!Acquire, wmtx_!Release
<1>4. QED  BY <1>1, <1>2, <1>3

\* A step of c moves nobody else.
LEMMA Local ==
  ASSUME TypeOK, NEW c \in Ctx, SemCall(c) \/ UserStep(c), NEW d \in Ctx, d # c
  PROVE  pc'[d] = pc[d] /\ on'[d] = on[d] /\ ret'[d] = ret[d]
<1> USE DEF TypeOK, SemTypeOK
<1>1. CASE SemCall(c)
  BY <1>1
  DEF SemCall, SemStep, Dec, dco_yield, Check, Push, Recheck, Switch, Run, Inc, PopNothing,
      Resume, Pop, From, NotifyDone, Return
<1>2. CASE UserStep(c)
  BY <1>2
  DEF UserStep, Lock, LockShared, LockWriters, Mark, AddWait, Unlock, Wake, UnlockWriters,
      UnlockShared, Left, Goto, From, CallWait, CallNotify, Call
<1>3. QED  BY <1>1, <1>2

\* Only dco_resume changes the word of somebody else, and never takes him out
\* of his callback.
LEMMA OtherPlace ==
  ASSUME TypeOK, Places, NEW c \in Ctx, SemCall(c) \/ UserStep(c), NEW d \in Ctx, d # c
  PROVE  Place(d)'
<1>1. pc'[d] = pc[d] /\ on'[d] = on[d] /\ ret'[d] = ret[d]
  BY Local
<1>2. status'[d] = status[d] \/ status'[d] = TryResume(status[d]).to
  <2> USE DEF TypeOK, SemTypeOK
  <2>1. CASE SemCall(c)
    <3>1. CASE Resume(c)
      BY <3>1 DEF Resume, SetStatus
    <3>2. CASE ~Resume(c)
      BY <2>1, <3>2 DEF SemCall, SemStep, Dec, dco_yield, Check, Push, Recheck, Switch, Run,
                        Inc, PopNothing, Pop, SetStatus
    <3>3. QED  BY <3>1, <3>2
  <2>2. CASE UserStep(c)
    BY <2>2 DEF UserStep, Lock, LockShared, LockWriters, Mark, AddWait, Unlock, Wake,
                UnlockWriters, UnlockShared, Left, Goto, CallWait, CallNotify, Call
  <2>3. QED  BY <2>1, <2>2
<1>3. popped'[d] = popped[d]
  BY DEF TypeOK, SemTypeOK, SemCall, SemStep, Dec, dco_yield, Check, Push, Recheck, Switch, Run,
         Inc, PopNothing, Resume, Pop, UserStep, Lock, LockShared, LockWriters, Mark, AddWait,
         Unlock, Wake, UnlockWriters, UnlockShared, Left, Goto, CallWait, CallNotify, Call
<1>4. /\ status[d] = "Ready_Reset_Reset" => status'[d] = "Ready_Reset_Reset"
      /\ status[d] \in {"Yield_Reset_Reset", "Yield_Break_Reset"} =>
           status'[d] \in {"Yield_Reset_Reset", "Yield_Break_Reset"}
      /\ status[d] \in {"Yield_Set_Reset", "Ready_Reset_Reset"} =>
           status'[d] \in {"Yield_Set_Reset", "Ready_Reset_Reset"}
  BY <1>2 DEF TryResume, Becomes, Fails
<1>5. Place(d)
  BY DEF Places
<1>6. QED  BY <1>1, <1>3, <1>4, <1>5 DEF Place, Waits, Notifies

\* What a step of a semaphore is to its caller.
Within(c) ==
  /\ pc[c] \notin UserPC \cup {"inc"} /\ pc'[c] \notin UserPC \cup {"inc"}
  /\ UNCHANGED <<sem_, on, ret>>

Raises(c) ==
  /\ pc[c] = "inc" /\ pc'[c] = "pop"
  /\ sem_' = [sem_ EXCEPT ![on[c]] = @ + 1]
  /\ UNCHANGED <<on, ret>>

Takes(c, s, p) ==
  /\ pc[c] = "dec" /\ on[c] = s /\ ret[c] = p
  /\ sem_[s] > 0 /\ sem_' = [sem_ EXCEPT ![s] = @ - 1]
  /\ pc'[c] = p /\ on'[c] = None /\ ret'[c] = "out"

Notified(c, p) ==
  /\ pc[c] \in NotifyPC /\ on[c] = (IF p = "wake" THEN "rsem" ELSE "wsem") /\ ret[c] = p
  /\ UNCHANGED sem_
  /\ pc'[c] = p /\ on'[c] = None /\ ret'[c] = "out"

LEMMA SemMoves ==
  ASSUME TypeOK, Places, NEW c \in Ctx, SemCall(c)
  PROVE  /\ \/ Within(c) \/ Raises(c)
            \/ Takes(c, "rsem", "read") \/ Takes(c, "wsem", "write")
            \/ Notified(c, "wake") \/ Notified(c, "out")
         /\ Place(c)'
<1> USE SemAssumption
    DEF TypeOK, SemTypeOK, WaitPC, NotifyPC, UserPC, Waits, Notifies
<1>0. Place(c)
  BY DEF Places
<1>1. CASE Dec(c)
  <2>1. CASE sem_[on[c]] > 0
    <3>1. /\ pc[c] = "dec" /\ pc'[c] = ret[c] /\ on'[c] = None /\ ret'[c] = "out"
          /\ sem_' = [sem_ EXCEPT ![on[c]] = @ - 1] /\ status' = status
      BY <1>1, <2>1 DEF Dec, Return
    <3>2. \/ on[c] = "rsem" /\ ret[c] = "read"
          \/ on[c] = "wsem" /\ ret[c] = "write"
      BY <1>0, <3>1 DEF Place
    <3>3. Takes(c, "rsem", "read") \/ Takes(c, "wsem", "write")
      BY <2>1, <3>1, <3>2 DEF Takes
    <3>4. Place(c)'
      BY <1>0, <3>1, <3>2 DEF Place
    <3>5. QED  BY <3>3, <3>4
  <2>2. CASE ~(sem_[on[c]] > 0)
    <3>1. /\ pc[c] = "dec" /\ pc'[c] = "yield" /\ UNCHANGED <<sem_, on, ret, status, popped>>
      BY <1>1, <2>2 DEF Dec, From
    <3>2. QED  BY <1>0, <3>1 DEF Within, Place
  <2>3. QED  BY <2>1, <2>2
<1>2. CASE dco_yield(c)
  <2>1. /\ pc[c] = "yield" /\ status[c] = "Ready_Reset_Reset"
    BY <1>0, <1>2 DEF dco_yield, From, Place
  <2>2. /\ pc'[c] = "check" /\ status'[c] = "Yield_Reset_Reset"
        /\ UNCHANGED <<sem_, on, ret>>
    BY <1>2, <2>1 DEF dco_yield, From, SetStatus, TryYield, Becomes
  <2>3. QED  BY <1>0, <2>1, <2>2 DEF Within, Place
<1>3. CASE Check(c)
  <2>1. /\ pc[c] = "check" /\ pc'[c] \in {"resume", "push"} /\ UNCHANGED <<sem_, on, ret, status>>
        /\ pc'[c] = "resume" => popped'[c] = c
    BY <1>3 DEF Check, From
  <2>2. QED  BY <1>0, <2>1 DEF Within, Place
<1>4. CASE Push(c) \/ Recheck(c)
  <2>1. /\ pc[c] \in {"push", "recheck"} /\ pc'[c] \in {"recheck", "pop", "sw"}
        /\ UNCHANGED <<sem_, on, ret, status, popped>>
    BY <1>4 DEF Push, Recheck, From
  <2>2. QED  BY <1>0, <2>1 DEF Within, Place
<1>5. CASE Switch(c)
  <2>1. /\ pc[c] = "sw" /\ status[c] \in {"Yield_Reset_Reset", "Yield_Break_Reset"}
    BY <1>0, <1>5 DEF Switch, From, Place
  <2>2. /\ pc'[c] = "parked" /\ status'[c] \in {"Yield_Set_Reset", "Ready_Reset_Reset"}
        /\ UNCHANGED <<sem_, on, ret>>
    BY <1>5, <2>1 DEF Switch, From, SetStatus, TrySw, Becomes
  <2>3. QED  BY <1>0, <2>1, <2>2 DEF Within, Place
<1>6. CASE Run(c)
  <2>1. /\ pc[c] = "parked" /\ pc'[c] = "dec" /\ status[c] = "Ready_Reset_Reset"
        /\ UNCHANGED <<sem_, on, ret, status>>
    BY <1>6 DEF Run, From
  <2>2. QED  BY <1>0, <2>1 DEF Within, Place
<1>7. CASE Inc(c)
  <2>1. Raises(c) /\ status' = status
    BY <1>7 DEF Inc, From, Raises
  <2>2. Place(c)'
    BY <1>0, <2>1 DEF Raises, Place
  <2>3. QED  BY <2>1, <2>2
<1>8. ASSUME NEW d \in Ctx, Pop(c, d) PROVE Within(c) /\ Place(c)'
  <2>1. /\ pc[c] = "pop" /\ pc'[c] = "resume" /\ UNCHANGED <<sem_, on, ret, status>>
        /\ popped'[c] = d
    BY <1>8 DEF Pop, From
  <2>2. QED  BY <1>0, <2>1 DEF Within, Place
<1>9. CASE PopNothing(c) \/ Resume(c)
  <2>1. pc[c] \in NotifyPC /\ NotifyDone(c) /\ UNCHANGED sem_
    BY <1>9 DEF PopNothing, Resume
  <2>2. status'[c] = status[c] \/ status'[c] = TryResume(status[c]).to
    BY <1>9 DEF PopNothing, Resume, SetStatus
  <2>3. CASE ret[c] \in {"read", "write"}
    <3>1. status[c] \in {"Yield_Reset_Reset", "Yield_Break_Reset"}
      BY <1>0, <2>1, <2>3 DEF Place
    <3>2. status'[c] \in {"Yield_Reset_Reset", "Yield_Break_Reset"}
      BY <2>2, <3>1 DEF TryResume, Becomes, Fails
    <3>3. pc'[c] = "sw" /\ UNCHANGED <<on, ret>>
      BY <2>1, <3>1 DEF NotifyDone, Waiting, YieldStatus
    <3>4. \/ on[c] = "rsem" /\ ret[c] = "read"
          \/ on[c] = "wsem" /\ ret[c] = "write"
      BY <1>0, <2>1, <2>3 DEF Place
    <3>5. pc[c] \in NotifyPC /\ UNCHANGED sem_
      BY <2>1
    <3>6. Within(c)
      BY <3>3, <3>5 DEF Within
    <3>7. Place(c)'
      BY <3>2, <3>3, <3>4 DEF Place
    <3>8. QED  BY <3>6, <3>7
  <2>4. CASE ret[c] \notin {"read", "write"}
    <3>1. /\ status[c] = "Ready_Reset_Reset"
          /\ \/ on[c] = "rsem" /\ ret[c] = "wake"
             \/ on[c] = "wsem" /\ ret[c] = "out"
      BY <1>0, <2>1, <2>4 DEF Place
    <3>2. status'[c] = "Ready_Reset_Reset"
      BY <2>2, <3>1 DEF TryResume, Fails, Becomes
    <3>3. pc'[c] = ret[c] /\ on'[c] = None /\ ret'[c] = "out"
      BY <2>1, <3>1 DEF NotifyDone, Waiting, YieldStatus, Return
    <3>4. Notified(c, "wake") \/ Notified(c, "out")
      BY <2>1, <3>1, <3>3 DEF Notified
    <3>5. Place(c)'
      BY <3>1, <3>2, <3>3 DEF Place
    <3>6. QED  BY <3>4, <3>5
  <2>5. QED  BY <2>3, <2>4
<1>10. QED  BY <1>1, <1>2, <1>3, <1>4, <1>5, <1>6, <1>7, <1>8, <1>9 DEF SemCall, SemStep

\* A step in the code of comutexshared goes on there, or calls a semaphore.
LEMMA UserPlace ==
  ASSUME TypeOK, Places, NEW c \in Ctx, UserStep(c)
  PROVE  Place(c)'
<1>1. /\ pc[c] \in UserPC /\ on[c] = None /\ ret[c] = "out" /\ status[c] = "Ready_Reset_Reset"
      /\ UNCHANGED <<status, popped>>
  BY DEF Places, Place, UserStep, Lock, LockShared, LockWriters, Mark, AddWait, Unlock, Wake,
         UnlockWriters, UnlockShared, Left, Goto, From, CallWait, CallNotify, Call, UserPC
<1>2. \/ pc'[c] \in UserPC /\ on'[c] = None /\ ret'[c] = "out"
      \/ pc'[c] = "dec" /\ on'[c] = "rsem" /\ ret'[c] = "read"
      \/ pc'[c] = "dec" /\ on'[c] = "wsem" /\ ret'[c] = "write"
      \/ pc'[c] = "inc" /\ on'[c] = "rsem" /\ ret'[c] = "wake"
      \/ pc'[c] = "inc" /\ on'[c] = "wsem" /\ ret'[c] = "out"
  BY <1>1
  DEF TypeOK, SemTypeOK, UserStep, Lock, LockShared, LockWriters, Mark, AddWait, Unlock, Wake,
      UnlockWriters, UnlockShared, Left, Goto, From, CallWait, CallNotify, Call, UserPC
<1>3. QED  BY <1>1, <1>2 DEF Place, Waits, Notifies, WaitPC, NotifyPC, UserPC

LEMMA PlacesPreserved ==
  ASSUME TypeOK, Places, NEW c \in Ctx, SemCall(c) \/ UserStep(c)
  PROVE  Places'
<1>1. Place(c)'
  BY SemMoves, UserPlace
<1>2. QED  BY <1>1, OtherPlace DEF Places

------------------------------------------------------------------------------
(* The mutex of the writers *)

LEMMA OwnersPreserved ==
  ASSUME TypeOK, Places, Owners, NEW c \in Ctx, SemCall(c) \/ UserStep(c)
  PROVE  Owners'
<1>1. ASSUME NEW d \in Ctx, d # c PROVE Holds(d)' <=> Holds(d)
  BY <1>1, Local DEF Holds
<1>2. Holds(c) <=> owner = c
  BY DEF Owners
<1>3. CASE SemCall(c)
  <2>1. owner' = owner
    BY <1>3 DEF SemCall, rwVars
  <2>2. Holds(c)' <=> Holds(c)
    BY <1>3, SemMoves
    DEF Within, Raises, Takes, Notified, Holds, UserPC, NotifyPC
  <2>3. QED  BY <1>1, <2>1, <2>2 DEF Owners
<1>4. CASE UserStep(c)
  <2>1. Place(c) /\ Place(c)'
    BY <1>4, UserPlace DEF Places
  <2>2. CASE LockWriters(c)
    <3>1. pc'[c] = "mark" /\ owner = None /\ owner' = c
      BY <2>2 DEF TypeOK, SemTypeOK, LockWriters, Goto, From, wmtx_!Acquire
    <3>2. QED  BY <1>1, <3>1, NoneAssumption DEF Owners, Holds
  <2>3. CASE UnlockWriters(c)
    <3>1. pc'[c] = "out" /\ owner = c /\ owner' = None
      BY <2>3 DEF TypeOK, SemTypeOK, UnlockWriters, Goto, From, wmtx_!Release
    <3>2. on'[c] = None /\ ret'[c] = "out"
      BY <2>1, <3>1 DEF Place, UserPC
    <3>3. ~Holds(c)'
      BY <3>1, <3>2, SemAssumption DEF Holds
    <3>4. QED  BY <1>1, <3>1, <3>3, NoneAssumption DEF Owners
  <2>4. CASE ~LockWriters(c) /\ ~UnlockWriters(c)
    <3>1. owner' = owner
      BY <1>4, <2>4 DEF UserStep, Lock, LockShared, Mark, AddWait, Unlock, Wake, UnlockShared,
                        Left, wmtx_!Request
    <3>2. /\ pc[c] \in UserPC /\ on[c] = None /\ ret[c] = "out"
      BY <1>4, <2>1
      DEF Place, UserStep, Lock, LockShared, LockWriters, Mark, AddWait, Unlock, Wake,
          UnlockWriters, UnlockShared, Left, Goto, From, CallWait, CallNotify, Call, UserPC
    <3>3. \/ /\ pc[c] \in {"mark", "add", "write", "wake"}
             /\ \/ pc'[c] \in {"add", "write", "wake", "release"}
                \/ on'[c] = "wsem" /\ ret'[c] = "write"
                \/ ret'[c] = "wake"
          \/ /\ pc[c] \in {"out", "read", "left"} /\ pc'[c] \in {"wmtx", "dec", "read", "left", "out", "inc"}
             /\ ~(on'[c] = "wsem" /\ ret'[c] = "write") /\ ret'[c] # "wake"
      BY <1>4, <2>4, <3>2, SemAssumption
      DEF TypeOK, SemTypeOK, UserStep, Lock, LockShared, Mark, AddWait, Unlock, Wake,
          UnlockShared, Left, Goto, From, CallWait, CallNotify, Call
    <3>4. Holds(c)' <=> Holds(c)
      BY <3>2, <3>3, SemAssumption DEF Holds
    <3>5. QED  BY <1>1, <3>1, <3>4 DEF Owners
  <2>5. QED  BY <2>2, <2>3, <2>4
<1>5. QED  BY <1>3, <1>4

------------------------------------------------------------------------------
(* Counting *)

N(b) == IF b THEN 1 ELSE 0

LEMMA CountOne ==
  ASSUME NEW S, NEW T, IsFiniteSet(S), NEW c,
         \A d : d # c => (d \in S <=> d \in T)
  PROVE  /\ IsFiniteSet(T) /\ Cardinality(S) \in Nat /\ Cardinality(T) \in Nat
         /\ Cardinality(T) = Cardinality(S) + N(c \in T) - N(c \in S)
<1>0. Cardinality(S) \in Nat
  BY FS_CardinalityType
<1>1. CASE c \in S /\ c \notin T
  <2>1. T = S \ {c}
    BY <1>1
  <2>2. QED  BY <1>0, <1>1, <2>1, FS_RemoveElement, FS_CardinalityType DEF N
<1>2. CASE c \notin S /\ c \in T
  <2>1. T = S \cup {c}
    BY <1>2
  <2>2. QED  BY <1>0, <1>2, <2>1, FS_AddElement DEF N
<1>3. CASE c \in S <=> c \in T
  <2>1. S = T
    BY <1>3
  <2>2. QED  BY <1>0, <1>3, <2>1 DEF N
<1>4. QED  BY <1>1, <1>2, <1>3

\* The numbers of readers and of those about to raise a semaphore change with
\* the place of the coroutine that takes the step.
LEMMA Counting ==
  ASSUME TypeOK, NEW c \in Ctx, SemCall(c) \/ UserStep(c)
  PROVE  /\ nRead \in Nat /\ nLeft \in Nat /\ nWait \in Nat
         /\ nRead' \in Nat /\ nLeft' \in Nat /\ nWait' \in Nat
         /\ nRead' = nRead + N(pc'[c] = "read") - N(pc[c] = "read")
         /\ nLeft' = nLeft + N(pc'[c] = "left") - N(pc[c] = "left")
         /\ nWait' = nWait + N(on'[c] = "rsem" /\ ret'[c] = "read")
                           - N(on[c] = "rsem" /\ ret[c] = "read")
<1> USE RWMaxAssumption
<1>1. \A d \in Ctx : d # c => pc'[d] = pc[d] /\ on'[d] = on[d] /\ ret'[d] = ret[d]
  BY Local
<1>2. \A p : IsFiniteSet({d \in Ctx : pc[d] = p})
  BY FS_Subset
<1>3. IsFiniteSet({d \in Ctx : on[d] = "rsem" /\ ret[d] = "read"})
  BY FS_Subset
<1>4. ASSUME NEW p
      PROVE  /\ Cardinality(At(p)) \in Nat /\ Cardinality(At(p))' \in Nat
             /\ Cardinality(At(p))' = Cardinality(At(p)) + N(pc'[c] = p) - N(pc[c] = p)
  <2>1. PICK S : S = {d \in Ctx : pc[d] = p}
    OBVIOUS
  <2>2. PICK T : T = {d \in Ctx : pc'[d] = p}
    OBVIOUS
  <2>3. IsFiniteSet(S) /\ \A d : d # c => (d \in S <=> d \in T)
    BY <1>1, <1>2, <2>1, <2>2
  <2>4. /\ Cardinality(S) \in Nat /\ Cardinality(T) \in Nat
        /\ Cardinality(T) = Cardinality(S) + N(c \in T) - N(c \in S)
    BY <2>3, CountOne
  <2>5. (c \in S <=> pc[c] = p) /\ (c \in T <=> pc'[c] = p)
    BY <2>1, <2>2
  <2>6. N(c \in S) = N(pc[c] = p) /\ N(c \in T) = N(pc'[c] = p)
    BY <2>5 DEF N
  <2>7. QED  BY <2>1, <2>2, <2>4, <2>6 DEF At
<1>5. /\ nWait \in Nat /\ nWait' \in Nat
      /\ nWait' = nWait + N(on'[c] = "rsem" /\ ret'[c] = "read")
                        - N(on[c] = "rsem" /\ ret[c] = "read")
  <2>1. PICK S : S = {d \in Ctx : on[d] = "rsem" /\ ret[d] = "read"}
    OBVIOUS
  <2>2. PICK T : T = {d \in Ctx : on'[d] = "rsem" /\ ret'[d] = "read"}
    OBVIOUS
  <2>3. IsFiniteSet(S) /\ \A d : d # c => (d \in S <=> d \in T)
    BY <1>1, <1>3, <2>1, <2>2
  <2>4. /\ Cardinality(S) \in Nat /\ Cardinality(T) \in Nat
        /\ Cardinality(T) = Cardinality(S) + N(c \in T) - N(c \in S)
    BY <2>3, CountOne
  <2>5. /\ c \in S <=> (on[c] = "rsem" /\ ret[c] = "read")
        /\ c \in T <=> (on'[c] = "rsem" /\ ret'[c] = "read")
    BY <2>1, <2>2
  <2>6. /\ N(c \in S) = N(on[c] = "rsem" /\ ret[c] = "read")
        /\ N(c \in T) = N(on'[c] = "rsem" /\ ret'[c] = "read")
    BY <2>5 DEF N
  <2>7. nWait = Cardinality(S) /\ nWait' = Cardinality(T)
    BY <2>1, <2>2 DEF nWait, InWait
  <2>8. QED  BY <2>4, <2>6, <2>7
<1>6. QED  BY <1>4, <1>5 DEF nRead, nLeft

\* A permit of s moves with the value of s and with who is about to raise it.
LEMMA Passing ==
  ASSUME TypeOK, Places, NEW c \in Ctx, SemCall(c) \/ UserStep(c), NEW s \in Sem
  PROVE  /\ Permits(s) \in Nat
         /\ Permits(s) >= sem_[s]
         /\ Permits(s)' = Permits(s) + sem_'[s] - sem_[s] + N(on'[c] = s /\ pc'[c] = "inc")
                                     - N(on[c] = s /\ pc[c] = "inc")
<1> USE RWMaxAssumption
<1>1. \A d \in Ctx : d # c => pc'[d] = pc[d] /\ on'[d] = on[d] /\ ret'[d] = ret[d]
  BY Local
<1>2. PICK S : S = {d \in Ctx : on[d] = s /\ pc[d] = "inc"}
  OBVIOUS
<1>3. PICK T : T = {d \in Ctx : on'[d] = s /\ pc'[d] = "inc"}
  OBVIOUS
<1>4. IsFiniteSet(S) /\ \A d : d # c => (d \in S <=> d \in T)
  BY <1>1, <1>2, <1>3, FS_Subset
<1>5. /\ Cardinality(S) \in Nat /\ Cardinality(T) \in Nat
      /\ Cardinality(T) = Cardinality(S) + N(c \in T) - N(c \in S)
  BY <1>4, CountOne
<1>6. /\ c \in S <=> (on[c] = s /\ pc[c] = "inc")
      /\ c \in T <=> (on'[c] = s /\ pc'[c] = "inc")
  BY <1>2, <1>3
<1>7. /\ N(c \in S) = N(on[c] = s /\ pc[c] = "inc") /\ N(c \in S) \in Int
      /\ N(c \in T) = N(on'[c] = s /\ pc'[c] = "inc") /\ N(c \in T) \in Int
  BY <1>6 DEF N
<1>8. /\ Permits(s) = sem_[s] + Cardinality(S)
      /\ Permits(s)' = sem_'[s] + Cardinality(T)
  BY <1>2, <1>3 DEF Permits, Raising
<1>9. sem_[s] \in Nat
  BY DEF TypeOK, SemTypeOK
<1>10. sem_'[s] \in Nat
  <2>1. TypeOK'
    BY SemTypes, UserTypes
  <2>2. QED  BY <2>1 DEF TypeOK, SemTypeOK
<1>11. QED  BY <1>5, <1>7, <1>8, <1>9, <1>10

\* Readers and those that wait to read are different coroutines.
LEMMA Room ==
  ASSUME TypeOK, Places
  PROVE  /\ nRead + nWait <= Cardinality(Ctx)
         /\ \A c \in Ctx : pc[c] = "out" => nRead + nWait + 1 <= Cardinality(Ctx)
<1> USE RWMaxAssumption
<1>1. IsFiniteSet(At("read")) /\ IsFiniteSet(InWait("rsem"))
  BY FS_Subset DEF At, InWait
<1>2. At("read") \cap InWait("rsem") = {}
  BY SemAssumption, NoneAssumption DEF At, InWait, Places, Place, UserPC
<1>3. PICK S : S = At("read") \cup InWait("rsem")
  OBVIOUS
<1>4. S \subseteq Ctx /\ IsFiniteSet(S) /\ Cardinality(S) = nRead + nWait
  <2>1. Cardinality({}) = 0
    BY FS_EmptySet
  <2>2. nRead \in Nat /\ nWait \in Nat
    BY <1>1, FS_CardinalityType DEF nRead, nWait
  <2>3. IsFiniteSet(S) /\ Cardinality(S) = nRead + nWait - 0
    BY <1>1, <1>2, <1>3, <2>1, FS_Union DEF nRead, nWait
  <2>4. QED  BY <1>3, <2>2, <2>3 DEF At, InWait
<1>5. ASSUME NEW c \in Ctx, pc[c] = "out" PROVE nRead + nWait + 1 <= Cardinality(Ctx)
  <2>1. c \notin S
    BY <1>3, <1>5 DEF At, InWait, Places, Place, UserPC
  <2>2. /\ S \cup {c} \subseteq Ctx /\ Cardinality(S \cup {c}) = Cardinality(S) + 1
    BY <1>4, <2>1, FS_AddElement
  <2>3. QED  BY <1>4, <2>2, FS_Subset
<1>6. QED  BY <1>4, <1>5, FS_Subset

\* A step of somebody else leaves the holder of wmtx_ where it is.
LEMMA HolderStays ==
  ASSUME TypeOK, NEW c \in Ctx, SemCall(c) \/ UserStep(c), owner' = owner, owner # c
  PROVE  /\ Writing' <=> Writing
         /\ Adding' <=> Adding
         /\ Asleep' <=> Asleep
         /\ Releasing' <=> Releasing
BY Local DEF Writing, Adding, Asleep, Releasing, TypeOK

LEMMA CountsSemaphores ==
  ASSUME TypeOK, Places, Owners, Counts, NEW c \in Ctx, SemCall(c)
  PROVE  Counts'
<1>1. /\ UNCHANGED <<count_, wait_, r, owner>>
      /\ count_ \in Int /\ wait_ \in Int /\ r \in [Ctx -> Int] /\ RWMax \in Nat
  BY RWMaxAssumption DEF SemCall, rwVars, TypeOK
<1>2. /\ nRead \in Nat /\ nLeft \in Nat /\ nWait \in Nat /\ nPass \in Nat /\ nTurn \in Nat
      /\ nPass >= sem_["rsem"] /\ nTurn >= sem_["wsem"]
  BY Counting, Passing, SemAssumption DEF nPass, nTurn
<1>3. /\ nRead' = nRead + N(pc'[c] = "read") - N(pc[c] = "read")
      /\ nLeft' = nLeft + N(pc'[c] = "left") - N(pc[c] = "left")
      /\ nWait' = nWait + N(on'[c] = "rsem" /\ ret'[c] = "read")
                        - N(on[c] = "rsem" /\ ret[c] = "read")
  BY Counting
<1>4. /\ nPass' = nPass + sem_'["rsem"] - sem_["rsem"] + N(on'[c] = "rsem" /\ pc'[c] = "inc")
                        - N(on[c] = "rsem" /\ pc[c] = "inc")
      /\ nTurn' = nTurn + sem_'["wsem"] - sem_["wsem"] + N(on'[c] = "wsem" /\ pc'[c] = "inc")
                        - N(on[c] = "wsem" /\ pc[c] = "inc")
  BY Passing, SemAssumption DEF nPass, nTurn
<1>5. sem_ \in [Sem -> Nat] /\ "rsem" \in Sem /\ "wsem" \in Sem /\ None \notin Ctx
  BY SemAssumption, NoneAssumption DEF TypeOK, SemTypeOK
<1>6. /\ owner \in Ctx \cup {None} /\ (Holds(c) <=> owner = c)
      /\ Adding \/ Releasing => r[owner] \in Int
  BY DEF Owners, TypeOK, Adding, Releasing
<1>7. CASE Within(c) \/ Raises(c)
  <2>1. /\ nRead' = nRead /\ nLeft' = nLeft /\ nWait' = nWait
    BY <1>2, <1>3, <1>7 DEF Within, Raises, UserPC, N
  <2>2. /\ nPass' = nPass /\ nTurn' = nTurn
    BY <1>2, <1>4, <1>5, <1>7 DEF Within, Raises, UserPC, N
  <2>3. /\ Writing' <=> Writing
        /\ Adding' <=> Adding
        /\ Asleep' <=> Asleep
        /\ Releasing' <=> Releasing
    <3>1. CASE owner = c
      BY <1>1, <1>7, <3>1 DEF Writing, Adding, Asleep, Releasing, Within, Raises, UserPC
    <3>2. CASE owner # c
      BY <1>1, <3>2, HolderStays
    <3>3. QED  BY <3>1, <3>2
  <2>4. QED  BY <1>1, <2>1, <2>2, <2>3 DEF Counts
<1>8. CASE Takes(c, "rsem", "read")
  <2>1. owner # c
    BY <1>5, <1>6, <1>8 DEF Holds, Takes
  <2>2. /\ nRead' = nRead + 1 /\ nLeft' = nLeft /\ nWait' = nWait - 1
    BY <1>2, <1>3, <1>8 DEF Takes, N
  <2>3. /\ nPass' = nPass - 1 /\ nTurn' = nTurn /\ nPass >= 1
    BY <1>2, <1>4, <1>5, <1>8 DEF Takes, N
  <2>4. /\ Writing' <=> Writing
        /\ Adding' <=> Adding
        /\ Asleep' <=> Asleep
        /\ Releasing' <=> Releasing
    BY <1>1, <2>1, HolderStays
  <2>5. ~Writing
    BY <2>3 DEF Counts
  <2>6. Asleep' => wait_' = nRead' + nPass' + nLeft' /\ nTurn' = IF wait_' = 0 THEN 1 ELSE 0
    BY <1>1, <1>2, <2>2, <2>3, <2>4 DEF Counts
  <2>7. Adding' => wait_' + r'[owner'] = nRead' + nPass' + nLeft' /\ nTurn' = 0 /\ wait_' <= 0
    BY <1>1, <1>2, <1>6, <2>2, <2>3, <2>4 DEF Counts
  <2>8. ~(Writing' \/ Asleep' \/ Adding') =>
          /\ wait_' = 0 /\ nTurn' = 0 /\ nLeft' = 0
          /\ nWait' = nPass' + (IF Releasing' THEN r'[owner'] ELSE 0)
    BY <1>1, <1>2, <1>6, <2>2, <2>3, <2>4 DEF Counts
  <2>9. count_' = count_ /\ nRead' + nWait' = nRead + nWait
    BY <1>1, <1>2, <2>2
  <2>10. QED  BY <1>1, <1>2, <2>2, <2>4, <2>5, <2>6, <2>7, <2>8, <2>9 DEF Counts
<1>9. CASE Takes(c, "wsem", "write")
  <2>1. owner = c /\ Asleep
    BY <1>5, <1>6, <1>9 DEF Holds, Takes, Asleep
  <2>2. Writing' /\ ~Adding' /\ ~Asleep'
    BY <1>1, <1>5, <1>9, <2>1 DEF Takes, Writing, Adding, Asleep
  <2>3. /\ nRead' = nRead /\ nLeft' = nLeft /\ nWait' = nWait
    BY <1>2, <1>3, <1>9 DEF Takes, N
  <2>4. /\ nPass' = nPass /\ nTurn' = nTurn - 1 /\ nTurn >= 1
    BY <1>2, <1>4, <1>5, <1>9 DEF Takes, N
  <2>5. QED  BY <1>1, <1>2, <2>1, <2>2, <2>3, <2>4 DEF Counts
<1>10. CASE Notified(c, "wake") \/ Notified(c, "out")
  <2>1. /\ nRead' = nRead /\ nLeft' = nLeft /\ nWait' = nWait
    BY <1>2, <1>3, <1>10, <1>5 DEF Notified, NotifyPC, N
  <2>2. /\ nPass' = nPass /\ nTurn' = nTurn
    BY <1>2, <1>4, <1>5, <1>10 DEF Notified, NotifyPC, N
  <2>3. /\ Writing' <=> Writing
        /\ Adding' <=> Adding
        /\ Asleep' <=> Asleep
        /\ Releasing' <=> Releasing
    <3>1. CASE owner = c
      <4>1. Notified(c, "wake")
        BY <1>5, <1>6, <1>10, <3>1 DEF Holds, Notified, NotifyPC
      <4>2. QED
        BY <1>1, <1>5, <3>1, <4>1 DEF Writing, Adding, Asleep, Releasing, Notified, NotifyPC
    <3>2. CASE owner # c
      BY <1>1, <3>2, HolderStays
    <3>3. QED  BY <3>1, <3>2
  <2>4. QED  BY <1>1, <2>1, <2>2, <2>3 DEF Counts
<1>11. QED  BY <1>7, <1>8, <1>9, <1>10, SemMoves

\* What the steps of comutexshared have in common.
LEMMA UserNumbers ==
  ASSUME TypeOK, Places, Owners, NEW c \in Ctx, UserStep(c)
  PROVE  /\ count_ \in Int /\ wait_ \in Int /\ r[c] \in Int /\ RWMax \in Nat
         /\ nRead \in Nat /\ nLeft \in Nat /\ nWait \in Nat /\ nPass \in Nat /\ nTurn \in Nat
         /\ pc[c] \in UserPC /\ ret[c] = "out" /\ None \notin Ctx /\ owner \in Ctx \cup {None}
         /\ Adding \/ Releasing => r[owner] \in Int
         /\ Holds(c) <=> owner = c
         /\ nRead' = nRead + N(pc'[c] = "read") - N(pc[c] = "read")
         /\ nLeft' = nLeft + N(pc'[c] = "left") - N(pc[c] = "left")
         /\ nWait' = nWait + N(on'[c] = "rsem" /\ ret'[c] = "read")
         /\ nPass' = nPass + N(on'[c] = "rsem" /\ pc'[c] = "inc")
         /\ nTurn' = nTurn + N(on'[c] = "wsem" /\ pc'[c] = "inc")
<1>1. /\ pc[c] \in UserPC /\ ret[c] = "out" /\ UNCHANGED sem_
  BY DEF Places, Place, UserStep, Lock, LockShared, LockWriters, Mark, AddWait, Unlock, Wake,
         UnlockWriters, UnlockShared, Left, Goto, From, CallWait, CallNotify, Call, UserPC
<1>2. /\ count_ \in Int /\ wait_ \in Int /\ r[c] \in Int /\ RWMax \in Nat
      /\ None \notin Ctx /\ owner \in Ctx \cup {None} /\ (Holds(c) <=> owner = c)
      /\ Adding \/ Releasing => r[owner] \in Int
      /\ sem_["rsem"] \in Nat /\ sem_["wsem"] \in Nat
  BY RWMaxAssumption, NoneAssumption, SemAssumption
  DEF TypeOK, SemTypeOK, Owners, Adding, Releasing
<1>3. /\ nRead \in Nat /\ nLeft \in Nat /\ nWait \in Nat
      /\ nRead' = nRead + N(pc'[c] = "read") - N(pc[c] = "read")
      /\ nLeft' = nLeft + N(pc'[c] = "left") - N(pc[c] = "left")
      /\ nWait' = nWait + N(on'[c] = "rsem" /\ ret'[c] = "read")
                        - N(on[c] = "rsem" /\ ret[c] = "read")
  BY Counting
<1>4. /\ N(on[c] = "rsem" /\ ret[c] = "read") = 0
      /\ N(on[c] = "rsem" /\ pc[c] = "inc") = 0
      /\ N(on[c] = "wsem" /\ pc[c] = "inc") = 0
      /\ N(on'[c] = "rsem" /\ ret'[c] = "read") \in Int
      /\ N(on'[c] = "rsem" /\ pc'[c] = "inc") \in Int
      /\ N(on'[c] = "wsem" /\ pc'[c] = "inc") \in Int
  BY <1>1 DEF N, UserPC
<1>5. /\ nPass \in Nat /\ nTurn \in Nat
      /\ nPass' = nPass + sem_'["rsem"] - sem_["rsem"] + N(on'[c] = "rsem" /\ pc'[c] = "inc")
                        - N(on[c] = "rsem" /\ pc[c] = "inc")
      /\ nTurn' = nTurn + sem_'["wsem"] - sem_["wsem"] + N(on'[c] = "wsem" /\ pc'[c] = "inc")
                        - N(on[c] = "wsem" /\ pc[c] = "inc")
  BY Passing, SemAssumption DEF nPass, nTurn
<1>6. /\ nPass' = nPass + N(on'[c] = "rsem" /\ pc'[c] = "inc")
      /\ nTurn' = nTurn + N(on'[c] = "wsem" /\ pc'[c] = "inc")
  BY <1>1, <1>2, <1>4, <1>5
<1>7. nWait' = nWait + N(on'[c] = "rsem" /\ ret'[c] = "read")
  BY <1>3, <1>4
<1>8. QED  BY <1>1, <1>2, <1>3, <1>5, <1>6, <1>7

\* The steps of a coroutine that does not hold wmtx_.
LEMMA CountsReaders ==
  ASSUME TypeOK, Places, Owners, Counts, NEW c \in Ctx,
         Lock(c) \/ LockShared(c) \/ UnlockShared(c) \/ Left(c)
  PROVE  Counts'
<1>1. UserStep(c)
  BY DEF UserStep
<1>2. /\ count_ \in Int /\ wait_ \in Int /\ RWMax \in Nat
      /\ nRead \in Nat /\ nLeft \in Nat /\ nWait \in Nat /\ nPass \in Nat /\ nTurn \in Nat
      /\ None \notin Ctx /\ owner \in Ctx \cup {None}
      /\ Adding \/ Releasing => r[owner] \in Int
  BY <1>1, UserNumbers
<1>3. /\ nRead' = nRead + N(pc'[c] = "read") - N(pc[c] = "read")
      /\ nLeft' = nLeft + N(pc'[c] = "left") - N(pc[c] = "left")
      /\ nWait' = nWait + N(on'[c] = "rsem" /\ ret'[c] = "read")
      /\ nPass' = nPass + N(on'[c] = "rsem" /\ pc'[c] = "inc")
      /\ nTurn' = nTurn + N(on'[c] = "wsem" /\ pc'[c] = "inc")
  BY <1>1, UserNumbers
<1>4. /\ owner # c /\ owner' = owner /\ r' = r
      /\ pc[c] \in {"out", "read", "left"} /\ on[c] = None /\ ret[c] = "out"
  <2>1. /\ pc[c] \in {"out", "read", "left"} /\ owner' = owner /\ r' = r
    BY DEF Lock, LockShared, UnlockShared, Left, Goto, From, CallWait, CallNotify, Call,
           wmtx_!Request
  <2>2. on[c] = None /\ ret[c] = "out"
    BY <2>1 DEF Places, Place, UserPC
  <2>3. ~Holds(c)
    BY <2>1, <2>2 DEF Holds
  <2>4. QED  BY <2>1, <2>2, <2>3 DEF Owners
<1>5. /\ Writing' <=> Writing
      /\ Adding' <=> Adding
      /\ Asleep' <=> Asleep
      /\ Releasing' <=> Releasing
  BY <1>1, <1>4, HolderStays
<1>6. pc \in [Ctx -> SemPC \cup UserPC] /\ on \in [Ctx -> Sem \cup {None}]
      /\ ret \in [Ctx -> UserPC]
  BY DEF TypeOK, SemTypeOK
<1>7. CASE Lock(c)
  <2>1. /\ nRead' = nRead /\ nLeft' = nLeft /\ nWait' = nWait
        /\ nPass' = nPass /\ nTurn' = nTurn /\ count_' = count_ /\ wait_' = wait_
    BY <1>2, <1>3, <1>4, <1>6, <1>7 DEF Lock, Goto, From, N
  <2>2. QED  BY <1>4, <1>5, <2>1 DEF Counts
<1>8. CASE LockShared(c)
  <2>1. pc[c] = "out" /\ count_' = count_ + 1 /\ wait_' = wait_
    BY <1>8 DEF LockShared, Goto, From, CallWait, Call
  <2>2. /\ count_ = nRead + nWait - (IF Writing \/ Asleep \/ Adding THEN RWMax ELSE 0)
        /\ nRead + nWait + 1 < RWMax
    <3>1. nRead + nWait + 1 <= Cardinality(Ctx) /\ Cardinality(Ctx) < RWMax
      BY <2>1, Room, RWMaxAssumption
    <3>2. Cardinality(Ctx) \in Nat
      BY RWMaxAssumption, FS_CardinalityType
    <3>3. nRead + nWait + 1 < RWMax
      BY <1>2, <3>1, <3>2
    <3>4. QED  BY <1>2, <3>3 DEF Counts
  <2>3. CASE Writing \/ Asleep \/ Adding
    <3>1. count_ + 1 < 0
      BY <1>2, <2>2, <2>3
    <3>2. pc'[c] = "dec" /\ on'[c] = "rsem" /\ ret'[c] = "read"
      BY <1>6, <1>8, <3>1 DEF LockShared, CallWait, Call, From
    <3>3. /\ nRead' = nRead /\ nLeft' = nLeft /\ nWait' = nWait + 1
          /\ nPass' = nPass /\ nTurn' = nTurn
      BY <1>2, <1>3, <2>1, <3>2 DEF N
    <3>4. QED  BY <1>2, <1>4, <1>5, <2>1, <2>3, <3>3 DEF Counts
  <2>4. CASE ~(Writing \/ Asleep \/ Adding)
    <3>1. ~(count_ + 1 < 0)
      BY <1>2, <2>2, <2>4
    <3>2. pc'[c] = "read" /\ ret'[c] = "out" /\ on'[c] = None
      BY <1>4, <1>6, <1>8, <3>1 DEF LockShared, Goto, From
    <3>3. /\ nRead' = nRead + 1 /\ nLeft' = nLeft /\ nWait' = nWait
          /\ nPass' = nPass /\ nTurn' = nTurn
      BY <1>2, <1>3, <2>1, <3>2 DEF N
    <3>4. QED  BY <1>2, <1>4, <1>5, <2>1, <2>4, <3>3 DEF Counts
  <2>5. QED  BY <2>3, <2>4
<1>9. CASE UnlockShared(c)
  <2>1. /\ pc[c] = "read" /\ count_' = count_ - 1 /\ wait_' = wait_
        /\ ret'[c] = "out" /\ pc'[c] = IF count_ - 1 >= 0 THEN "out" ELSE "left"
    BY <1>4, <1>6, <1>9 DEF UnlockShared, Goto, From
  <2>2. nRead >= 1
    <3>1. nRead # 0
      BY <2>1, FS_Subset, FS_EmptySet, RWMaxAssumption DEF nRead, At
    <3>2. QED  BY <1>2, <3>1
  <2>3. nWait' = nWait /\ nPass' = nPass /\ nTurn' = nTurn
    BY <1>2, <1>3, <2>1 DEF N
  <2>4. CASE Writing \/ Asleep \/ Adding
    <3>1. ~Writing
      BY <1>2, <2>2 DEF Counts
    <3>2. nRead + nWait < RWMax
      <4>1. nRead + nWait <= Cardinality(Ctx) /\ Cardinality(Ctx) < RWMax
        BY Room, RWMaxAssumption
      <4>2. Cardinality(Ctx) \in Nat
        BY RWMaxAssumption, FS_CardinalityType
      <4>3. QED  BY <1>2, <4>1, <4>2
    <3>3. ~(count_ - 1 >= 0)
      BY <1>2, <2>4, <3>2 DEF Counts
    <3>4. nRead' = nRead - 1 /\ nLeft' = nLeft + 1
      BY <1>2, <1>3, <2>1, <3>3 DEF N
    <3>5. QED  BY <1>2, <1>4, <1>5, <2>1, <2>3, <2>4, <3>1, <3>4 DEF Counts
  <2>5. CASE ~(Writing \/ Asleep \/ Adding)
    <3>1. count_ - 1 >= 0
      BY <1>2, <2>2, <2>5 DEF Counts
    <3>2. nRead' = nRead - 1 /\ nLeft' = nLeft
      BY <1>2, <1>3, <2>1, <3>1 DEF N
    <3>3. QED  BY <1>2, <1>4, <1>5, <2>1, <2>3, <2>5, <3>2 DEF Counts
  <2>6. QED  BY <2>4, <2>5
<1>10. CASE Left(c)
  <2>1. pc[c] = "left" /\ count_' = count_ /\ wait_' = wait_ - 1
    BY <1>10 DEF Left, Goto, From, CallNotify, Call
  <2>2. nLeft >= 1
    <3>1. nLeft # 0
      BY <2>1, FS_Subset, FS_EmptySet, RWMaxAssumption DEF nLeft, At
    <3>2. QED  BY <1>2, <3>1
  <2>3. ~Writing /\ (Asleep \/ Adding)
    BY <1>2, <2>2 DEF Counts
  <2>4. CASE wait_ - 1 = 0
    <3>1. pc'[c] = "inc" /\ on'[c] = "wsem" /\ ret'[c] = "out"
      BY <1>6, <1>10, <2>4 DEF Left, CallNotify, Call, From
    <3>2. /\ nRead' = nRead /\ nLeft' = nLeft - 1 /\ nWait' = nWait
          /\ nPass' = nPass /\ nTurn' = nTurn + 1
      BY <1>2, <1>3, <2>1, <3>1 DEF N
    <3>3. ~Adding /\ Asleep
      BY <1>2, <2>3, <2>4 DEF Counts
    <3>4. QED  BY <1>2, <1>4, <1>5, <2>1, <2>3, <2>4, <3>2, <3>3 DEF Counts
  <2>5. CASE wait_ - 1 # 0
    <3>1. pc'[c] = "out" /\ on'[c] = None /\ ret'[c] = "out"
      BY <1>4, <1>6, <1>10, <2>5 DEF Left, Goto, From
    <3>2. /\ nRead' = nRead /\ nLeft' = nLeft - 1 /\ nWait' = nWait
          /\ nPass' = nPass /\ nTurn' = nTurn
      BY <1>2, <1>3, <2>1, <3>1 DEF N
    <3>3. QED  BY <1>2, <1>4, <1>5, <2>1, <2>2, <2>3, <2>5, <3>2 DEF Counts
  <2>6. QED  BY <2>4, <2>5
<1>11. QED  BY <1>7, <1>8, <1>9, <1>10

\* The steps of the coroutine that holds wmtx_, or takes it.
LEMMA CountsHolder ==
  ASSUME TypeOK, Places, Owners, Counts, NEW c \in Ctx,
         LockWriters(c) \/ Mark(c) \/ AddWait(c) \/ Unlock(c) \/ Wake(c) \/ UnlockWriters(c)
  PROVE  Counts'
<1>1. UserStep(c)
  BY DEF UserStep
<1>2. /\ count_ \in Int /\ wait_ \in Int /\ r[c] \in Int /\ RWMax \in Nat
      /\ nRead \in Nat /\ nLeft \in Nat /\ nWait \in Nat /\ nPass \in Nat /\ nTurn \in Nat
      /\ None \notin Ctx /\ owner \in Ctx \cup {None}
      /\ Holds(c) <=> owner = c
  BY <1>1, UserNumbers
<1>3. /\ nRead' = nRead + N(pc'[c] = "read") - N(pc[c] = "read")
      /\ nLeft' = nLeft + N(pc'[c] = "left") - N(pc[c] = "left")
      /\ nWait' = nWait + N(on'[c] = "rsem" /\ ret'[c] = "read")
      /\ nPass' = nPass + N(on'[c] = "rsem" /\ pc'[c] = "inc")
      /\ nTurn' = nTurn + N(on'[c] = "wsem" /\ pc'[c] = "inc")
  BY <1>1, UserNumbers
<1>4. /\ pc[c] \in {"wmtx", "mark", "add", "write", "wake", "release"}
      /\ on[c] = None /\ ret[c] = "out"
  <2>1. pc[c] \in {"wmtx", "mark", "add", "write", "wake", "release"}
    BY DEF LockWriters, Mark, AddWait, Unlock, Wake, UnlockWriters, Goto, From, CallWait,
           CallNotify, Call
  <2>2. QED  BY <2>1 DEF Places, Place, UserPC
<1>5. /\ pc \in [Ctx -> SemPC \cup UserPC] /\ on \in [Ctx -> Sem \cup {None}]
      /\ ret \in [Ctx -> UserPC] /\ r \in [Ctx -> Int]
  BY DEF TypeOK, SemTypeOK
\* What c does when it goes on in the code of comutexshared.
<1>6. ASSUME NEW p \in {"mark", "write", "add", "wake", "release", "out"}, Goto(c, pc[c], p)
      PROVE  /\ pc'[c] = p /\ on'[c] = None /\ ret'[c] = "out"
             /\ nRead' = nRead /\ nLeft' = nLeft /\ nWait' = nWait
             /\ nPass' = nPass /\ nTurn' = nTurn
  <2>1. pc'[c] = p /\ on'[c] = None /\ ret'[c] = "out"
    BY <1>4, <1>5, <1>6 DEF Goto, From
  <2>2. QED  BY <1>2, <1>3, <1>4, <2>1 DEF N
<1>7. CASE LockWriters(c)
  <2>1. owner = None /\ owner' = c /\ UNCHANGED <<count_, wait_, r>>
    BY <1>7 DEF LockWriters, wmtx_!Acquire
  <2>2. Goto(c, pc[c], "mark")
    BY <1>7 DEF LockWriters, Goto, From
  <2>3. ~Writing' /\ ~Adding' /\ ~Asleep' /\ ~Releasing'
    BY <1>6, <2>1, <2>2 DEF Writing, Adding, Asleep, Releasing
  <2>4. ~Writing /\ ~Adding /\ ~Asleep /\ ~Releasing
    BY <2>1 DEF Writing, Adding, Asleep, Releasing
  <2>5. QED  BY <1>6, <2>1, <2>2, <2>3, <2>4 DEF Counts
<1>8. CASE UnlockWriters(c)
  <2>1. owner = c /\ owner' = None /\ UNCHANGED <<count_, wait_, r>> /\ pc[c] = "release"
    BY <1>8 DEF UnlockWriters, wmtx_!Release, Goto, From
  <2>2. Goto(c, pc[c], "out")
    BY <1>8 DEF UnlockWriters, Goto, From
  <2>3. ~Writing' /\ ~Adding' /\ ~Asleep' /\ ~Releasing'
    BY <2>1 DEF Writing, Adding, Asleep, Releasing
  <2>4. ~Writing /\ ~Adding /\ ~Asleep /\ ~Releasing
    BY <1>4, <2>1 DEF Writing, Adding, Asleep, Releasing
  <2>5. QED  BY <1>6, <2>1, <2>2, <2>3, <2>4 DEF Counts
<1>9. CASE Mark(c) \/ AddWait(c) \/ Unlock(c) \/ Wake(c)
  <2>1. /\ owner' = owner /\ owner = c /\ c # None
        /\ pc[c] \in {"mark", "add", "write", "wake"}
    <3>1. /\ owner' = owner /\ pc[c] \in {"mark", "add", "write", "wake"}
      BY <1>9 DEF Mark, AddWait, Unlock, Wake, Goto, From, CallWait, CallNotify, Call
    <3>2. QED  BY <1>2, <3>1 DEF Holds
  <2>2. /\ Writing <=> pc[c] = "write"
        /\ Adding <=> pc[c] = "add"
        /\ Releasing <=> pc[c] = "wake"
        /\ ~Asleep
    BY <1>4, <2>1 DEF Writing, Adding, Asleep, Releasing
  <2>3. /\ Writing' <=> pc'[c] = "write"
        /\ Adding' <=> pc'[c] = "add"
        /\ Asleep' <=> on'[c] = "wsem" /\ ret'[c] = "write"
        /\ Releasing' <=> pc'[c] = "wake" \/ ret'[c] = "wake"
    BY <2>1 DEF Writing, Adding, Asleep, Releasing
  <2>4. CASE Mark(c)
    <3>1. /\ pc[c] = "mark" /\ wait_' = wait_ /\ r'[c] = count_ /\ count_' = count_ - RWMax
      BY <1>5, <2>4 DEF Mark, Goto, From, SetR
    <3>2. /\ count_ = nRead + nWait /\ nWait = nPass /\ wait_ = 0 /\ nTurn = 0 /\ nLeft = 0
      BY <1>2, <2>2, <3>1 DEF Counts
    <3>3. CASE count_ = 0
      <4>1. Goto(c, pc[c], "write")
        BY <2>4, <3>3 DEF Mark, Goto, From
      <4>2. Writing' /\ ~Adding' /\ ~Asleep' /\ ~Releasing'
        BY <1>6, <2>3, <4>1
      <4>3. nRead = 0 /\ nPass = 0
        BY <1>2, <3>2, <3>3
      <4>4. QED  BY <1>2, <1>6, <3>1, <3>2, <4>1, <4>2, <4>3 DEF Counts
    <3>4. CASE count_ # 0
      <4>1. Goto(c, pc[c], "add")
        BY <2>4, <3>4 DEF Mark, Goto, From
      <4>2. ~Writing' /\ Adding' /\ ~Asleep' /\ ~Releasing'
        BY <1>6, <2>3, <4>1
      <4>3. QED  BY <1>2, <1>6, <2>1, <3>1, <3>2, <4>1, <4>2 DEF Counts
    <3>5. QED  BY <3>3, <3>4
  <2>5. CASE AddWait(c)
    <3>1. /\ pc[c] = "add" /\ wait_' = wait_ + r[c] /\ count_' = count_
      BY <2>5 DEF AddWait, Goto, From, CallWait, Call
    <3>2. /\ wait_ + r[c] = nRead + nPass + nLeft /\ nTurn = 0
          /\ count_ = nRead + nWait - RWMax
      BY <2>1, <2>2, <3>1 DEF Counts
    <3>3. CASE wait_ + r[c] = 0
      <4>1. Goto(c, pc[c], "write")
        BY <2>5, <3>3 DEF AddWait, Goto, From
      <4>2. Writing' /\ ~Adding' /\ ~Asleep' /\ ~Releasing'
        BY <1>6, <2>3, <4>1
      <4>3. nRead = 0 /\ nPass = 0 /\ nLeft = 0
        BY <1>2, <3>2, <3>3
      <4>4. QED  BY <1>2, <1>6, <3>1, <3>2, <3>3, <4>1, <4>2, <4>3 DEF Counts
    <3>4. CASE wait_ + r[c] # 0
      <4>1. pc'[c] = "dec" /\ on'[c] = "wsem" /\ ret'[c] = "write"
        BY <1>5, <2>5, <3>4, SemAssumption DEF AddWait, CallWait, Call, From
      <4>2. ~Writing' /\ ~Adding' /\ Asleep' /\ ~Releasing'
        BY <2>3, <4>1
      <4>3. /\ nRead' = nRead /\ nLeft' = nLeft /\ nWait' = nWait
            /\ nPass' = nPass /\ nTurn' = nTurn
        BY <1>2, <1>3, <3>1, <4>1 DEF N
      <4>4. QED  BY <1>2, <3>1, <3>2, <3>4, <4>2, <4>3 DEF Counts
    <3>5. QED  BY <3>3, <3>4
  <2>6. CASE Unlock(c)
    <3>1. /\ pc[c] = "write" /\ wait_' = wait_ /\ count_' = count_ + RWMax
          /\ r'[c] = count_ + RWMax
      BY <1>5, <2>6 DEF Unlock, Goto, From, SetR
    <3>2. Goto(c, pc[c], "wake")
      BY <2>6 DEF Unlock, Goto, From
    <3>3. ~Writing' /\ ~Adding' /\ ~Asleep' /\ Releasing'
      BY <1>6, <2>3, <3>2
    <3>4. /\ nRead = 0 /\ nLeft = 0 /\ nPass = 0 /\ nTurn = 0 /\ wait_ = 0
          /\ count_ = nRead + nWait - RWMax
      BY <2>2, <3>1 DEF Counts
    <3>5. QED  BY <1>2, <1>6, <2>1, <3>1, <3>2, <3>3, <3>4 DEF Counts
  <2>7. CASE Wake(c)
    <3>1. /\ pc[c] = "wake" /\ wait_' = wait_ /\ count_' = count_
      BY <2>7 DEF Wake, Goto, From, CallNotify, Call
    <3>2. /\ wait_ = 0 /\ nTurn = 0 /\ nLeft = 0 /\ nWait = nPass + r[c]
          /\ count_ = nRead + nWait
      BY <1>2, <2>1, <2>2, <3>1 DEF Counts
    <3>3. CASE r[c] # 0
      <4>1. pc'[c] = "inc" /\ on'[c] = "rsem" /\ ret'[c] = "wake" /\ r'[c] = r[c] - 1
        BY <1>5, <2>7, <3>3, SemAssumption DEF Wake, CallNotify, Call, From, SetR
      <4>2. ~Writing' /\ ~Adding' /\ ~Asleep' /\ Releasing'
        BY <2>3, <4>1
      <4>3. /\ nRead' = nRead /\ nLeft' = nLeft /\ nWait' = nWait
            /\ nPass' = nPass + 1 /\ nTurn' = nTurn
        BY <1>2, <1>3, <3>1, <4>1 DEF N
      <4>4. QED  BY <1>2, <2>1, <3>1, <3>2, <4>1, <4>2, <4>3 DEF Counts
    <3>4. CASE r[c] = 0
      <4>1. Goto(c, pc[c], "release")
        BY <2>7, <3>4 DEF Wake, Goto, From
      <4>2. ~Writing' /\ ~Adding' /\ ~Asleep' /\ ~Releasing'
        BY <1>6, <2>3, <4>1
      <4>3. QED  BY <1>2, <1>6, <3>1, <3>2, <3>4, <4>1, <4>2 DEF Counts
    <3>5. QED  BY <3>3, <3>4
  <2>8. QED  BY <1>9, <2>4, <2>5, <2>6, <2>7
<1>10. QED  BY <1>7, <1>8, <1>9

LEMMA InvariantInit == Init => IInv
<1> SUFFICES ASSUME Init PROVE IInv
  OBVIOUS
<1> USE SemAssumption, NoneAssumption, RWMaxAssumption
    DEF Init, SemInit, wmtx_!Init
<1>1. TypeOK
  BY DEF TypeOK, SemTypeOK, SemPC, UserPC, Status
<1>2. Places /\ Owners
  BY DEF Places, Place, UserPC, NotifyPC, Owners, Holds
<1>3. /\ nRead = 0 /\ nLeft = 0 /\ nWait = 0 /\ nPass = 0 /\ nTurn = 0
  <2>1. At("read") = {} /\ At("left") = {} /\ InWait("rsem") = {}
        /\ Raising("rsem") = {} /\ Raising("wsem") = {}
    BY DEF At, InWait, Raising
  <2>2. QED  BY <2>1, FS_EmptySet DEF nRead, nLeft, nWait, nPass, nTurn, Permits
<1>4. ~Writing /\ ~Adding /\ ~Asleep /\ ~Releasing
  BY DEF Writing, Adding, Asleep, Releasing
<1>5. Counts
  BY <1>3, <1>4 DEF Counts
<1>6. QED  BY <1>1, <1>2, <1>5 DEF IInv

LEMMA InvariantStep == IInv /\ [Next]_vars => IInv'
<1> SUFFICES ASSUME IInv, [Next]_vars PROVE IInv'
  OBVIOUS
<1>1. ASSUME NEW c \in Ctx, SemCall(c) \/ UserStep(c) PROVE IInv'
  <2>1. TypeOK' /\ Places' /\ Owners'
    BY <1>1, SemTypes, UserTypes, PlacesPreserved, OwnersPreserved DEF IInv
  <2>2. Counts'
    BY <1>1, CountsSemaphores, CountsReaders, CountsHolder DEF IInv, UserStep
  <2>3. QED  BY <2>1, <2>2 DEF IInv
<1>2. CASE Next
  BY <1>1, <1>2 DEF Next, Step, UserStep
<1>3. CASE UNCHANGED vars
  BY <1>3
  DEF vars, semVars, rwVars, IInv, TypeOK, SemTypeOK, Places, Place, Waits, Notifies, Owners,
      Holds, Counts, nRead, nLeft, nWait, nPass, nTurn, Permits, Raising, At, InWait, Writing,
      Adding, Asleep, Releasing
<1>4. QED  BY <1>2, <1>3

THEOREM Invariant == Spec => []IInv
BY InvariantInit, InvariantStep, PTL DEF Spec

------------------------------------------------------------------------------
(* Types and permits *)

(* Every variable of comutexshared and of its semaphores keeps its type, for   *)
(* every number of coroutines below _rw_max_count.                             *)
THEOREM TypeCorrect == Spec => []TypeOK
<1>1. IInv => TypeOK
  BY DEF IInv
<1>2. QED  BY <1>1, Invariant, PTL

LEMMA Matching ==
  ASSUME IInv
  PROVE  PermitsMatch
<1> USE DEF IInv
<1>1. /\ \A c \in Ctx : Holds(c) <=> owner = c
      /\ None \notin Ctx /\ owner \in Ctx \cup {None}
  BY NoneAssumption DEF Owners, TypeOK
<1>2. /\ \A c \in At("write") : owner = c /\ Writing
      /\ \A c \in At("add") : owner = c /\ Adding
      /\ \A c \in InWait("wsem") : owner = c /\ Asleep
      /\ \A c \in Waking : owner = c /\ Releasing
  BY <1>1, SemAssumption DEF At, InWait, Waking, Holds, Writing, Adding, Asleep, Releasing
<1>3. /\ Marked = {} => ~(Writing \/ Asleep \/ Adding)
      /\ Releasing => owner \in Waking
  BY <1>1, SemAssumption DEF Marked, At, InWait, Waking, Writing, Adding, Asleep, Releasing
<1>4. nRead \in Nat /\ nLeft \in Nat /\ nWait \in Nat /\ nPass \in Nat /\ nTurn \in Nat
  <2>1. /\ IsFiniteSet(At("read")) /\ IsFiniteSet(At("left")) /\ IsFiniteSet(InWait("rsem"))
        /\ IsFiniteSet(Raising("rsem")) /\ IsFiniteSet(Raising("wsem"))
    BY FS_Subset, RWMaxAssumption DEF At, InWait, Raising
  <2>2. sem_["rsem"] \in Nat /\ sem_["wsem"] \in Nat
    BY SemAssumption DEF TypeOK, SemTypeOK
  <2>3. QED
    BY <2>1, <2>2, FS_CardinalityType DEF nRead, nLeft, nWait, nPass, nTurn, Permits
<1>5. \A c \in At("write") : Permits("rsem") = 0 /\ Permits("wsem") = 0 /\ wait_ = 0
  BY <1>2 DEF Counts, nPass, nTurn
<1>6. \A c \in InWait("wsem") :
        /\ wait_ = Cardinality(At("read")) + Permits("rsem") + Cardinality(At("left"))
        /\ Permits("wsem") = IF wait_ = 0 THEN 1 ELSE 0
  BY <1>2 DEF Counts, nPass, nTurn, nRead, nLeft
<1>7. \A c \in At("add") :
        wait_ + r[c] = Cardinality(At("read")) + Permits("rsem") + Cardinality(At("left"))
  BY <1>2 DEF Counts, nPass, nTurn, nRead, nLeft
<1>8. ASSUME Marked = {}
      PROVE  /\ wait_ = 0 /\ Permits("wsem") = 0 /\ At("left") = {}
             /\ Cardinality(InWait("rsem")) =
                  Permits("rsem") + (IF Waking = {} THEN 0 ELSE r[CHOOSE c \in Waking : TRUE])
  <2>1. wait_ = 0 /\ nTurn = 0 /\ nLeft = 0
        /\ nWait = nPass + (IF Releasing THEN r[owner] ELSE 0)
    BY <1>3, <1>8 DEF Counts
  <2>2. At("left") = {}
    BY <2>1, FS_Subset, FS_EmptySet, RWMaxAssumption DEF nLeft, At
  <2>3. CASE Waking = {}
    BY <1>3, <2>1, <2>2, <2>3 DEF nWait, nPass, nTurn
  <2>4. CASE Waking # {}
    <3>1. (CHOOSE c \in Waking : TRUE) \in Waking
      BY <2>4
    <3>2. (CHOOSE c \in Waking : TRUE) = owner /\ Releasing
      BY <1>2, <3>1
    <3>3. QED  BY <2>1, <2>2, <2>4, <3>2 DEF nWait, nPass, nTurn
  <2>5. QED  BY <2>3, <2>4
<1>9. QED  BY <1>5, <1>6, <1>7, <1>8 DEF PermitsMatch

(* The permits of the two semaphores are those that somebody is meant to take, *)
(* for every number of readers and writers: none is left over when a writer    *)
(* has the mutex, and none is missing when the readers wait for no writer.     *)
THEOREM PermitsStayMatched == Spec => []PermitsMatch
BY Invariant, Matching, PTL

------------------------------------------------------------------------------
(* comutexshared implements a readers-writer mutex *)

Locker(c) == pc[c] \in {"wmtx", "mark", "add"} \/ (on[c] = "wsem" /\ ret[c] = "write")

LEMMA SetsMove ==
  ASSUME TypeOK, NEW c \in Ctx, SemCall(c) \/ UserStep(c)
  PROVE  /\ Lockers' = IF Locker(c)' THEN Lockers \cup {c} ELSE Lockers \ {c}
         /\ At("read")' = IF pc'[c] = "read" THEN At("read") \cup {c} ELSE At("read") \ {c}
         /\ InWait("rsem")' = IF on'[c] = "rsem" /\ ret'[c] = "read"
                              THEN InWait("rsem") \cup {c} ELSE InWait("rsem") \ {c}
<1>1. \A d \in Ctx : d # c => pc'[d] = pc[d] /\ on'[d] = on[d] /\ ret'[d] = ret[d]
  BY Local
<1>2. At("read")' = IF pc'[c] = "read" THEN At("read") \cup {c} ELSE At("read") \ {c}
  BY <1>1 DEF At
<1>3. InWait("rsem")' = IF on'[c] = "rsem" /\ ret'[c] = "read"
                        THEN InWait("rsem") \cup {c} ELSE InWait("rsem") \ {c}
  BY <1>1 DEF InWait
<1>4. \A d \in Ctx : d \in Lockers <=> Locker(d)
  BY SemAssumption DEF Lockers, At, InWait, Locker
<1>5. \A d \in Ctx : d \in Lockers' <=> Locker(d)'
  BY SemAssumption DEF Lockers, At, InWait, Locker
<1>6. \A d \in Ctx : d # c => (Locker(d)' <=> Locker(d))
  BY <1>1 DEF Locker
<1>7. Lockers \subseteq Ctx /\ Lockers' \subseteq Ctx
  BY DEF Lockers, At, InWait
<1>8. Lockers' = IF Locker(c)' THEN Lockers \cup {c} ELSE Lockers \ {c}
  BY <1>4, <1>5, <1>6, <1>7
<1>9. QED  BY <1>2, <1>3, <1>8

\* The writer is whoever is at that place: there is one place in wmtx_.
LEMMA WriterMoves ==
  ASSUME TypeOK, Places, Owners, NEW c \in Ctx, SemCall(c) \/ UserStep(c)
  PROVE  /\ Writer \in Ctx \cup {None} /\ \A d \in Ctx : Writer = d <=> pc[d] = "write"
         /\ pc'[c] = "write" => Writer' = c
         /\ pc'[c] # "write" => Writer' = IF Writer = c THEN None ELSE Writer
<1>0. Owners'
  BY OwnersPreserved
<1>1. \A d, e \in Ctx : pc[d] = "write" /\ pc[e] = "write" => d = e
  BY DEF Owners, Holds
<1>2. \A d, e \in Ctx : pc'[d] = "write" /\ pc'[e] = "write" => d = e
  BY <1>0 DEF Owners, Holds
<1>3. PICK S : S = {d \in Ctx : pc[d] = "write"}
  OBVIOUS
<1>4. PICK T : T = {d \in Ctx : pc'[d] = "write"}
  OBVIOUS
<1>5. /\ Writer = IF S = {} THEN None ELSE CHOOSE d \in S : TRUE
      /\ Writer' = IF T = {} THEN None ELSE CHOOSE d \in T : TRUE
  BY <1>3, <1>4 DEF Writer, At
<1>6. /\ S # {} => (CHOOSE d \in S : TRUE) \in S
      /\ T # {} => (CHOOSE d \in T : TRUE) \in T
  OBVIOUS
<1>7. Writer \in Ctx \cup {None} /\ \A d \in Ctx : Writer = d <=> pc[d] = "write"
  BY <1>1, <1>3, <1>5, <1>6, NoneAssumption
<1>8. Writer' \in Ctx \cup {None} /\ \A d \in Ctx : Writer' = d <=> pc'[d] = "write"
  BY <1>2, <1>4, <1>5, <1>6, NoneAssumption
<1>9. \A d \in Ctx : d # c => pc'[d] = pc[d]
  BY Local
<1>10. QED  BY <1>7, <1>8, <1>9, NoneAssumption

\* The steps of the semaphores: who takes a permit that was meant for it gets
\* the mutex, the others change nothing.
LEMMA SemImplements ==
  ASSUME IInv, NEW c \in Ctx, SemCall(c)
  PROVE  [RWLock!Next]_(RWLock!vars)
<1> USE SemAssumption, NoneAssumption DEF IInv
<1>1. /\ Lockers' = IF Locker(c)' THEN Lockers \cup {c} ELSE Lockers \ {c}
      /\ At("read")' = IF pc'[c] = "read" THEN At("read") \cup {c} ELSE At("read") \ {c}
      /\ InWait("rsem")' = IF on'[c] = "rsem" /\ ret'[c] = "read"
                           THEN InWait("rsem") \cup {c} ELSE InWait("rsem") \ {c}
  BY SetsMove
<1>2. /\ Writer \in Ctx \cup {None} /\ \A d \in Ctx : Writer = d <=> pc[d] = "write"
      /\ pc'[c] = "write" => Writer' = c
      /\ pc'[c] # "write" => Writer' = IF Writer = c THEN None ELSE Writer
  BY WriterMoves
<1>3. /\ c \in At("read") <=> pc[c] = "read"
      /\ c \in InWait("rsem") <=> (on[c] = "rsem" /\ ret[c] = "read")
      /\ c \in Lockers <=> Locker(c)
  BY DEF At, InWait, Lockers, Locker
<1>4. nRead \in Nat /\ nLeft \in Nat /\ nPass \in Nat /\ nTurn \in Nat
      /\ nPass >= sem_["rsem"] /\ nTurn >= sem_["wsem"]
      /\ sem_["rsem"] \in Nat /\ sem_["wsem"] \in Nat
  BY Counting, Passing DEF nPass, nTurn, TypeOK, SemTypeOK
<1>5. \A d \in Ctx : pc[d] = "write" => owner = d /\ Writing
  BY DEF Owners, Holds, Writing
<1>6. CASE Within(c) \/ Raises(c)
  <2>1. /\ Locker(c)' <=> Locker(c)
        /\ pc[c] \notin {"read", "write"} /\ pc'[c] \notin {"read", "write"}
        /\ on'[c] = on[c] /\ ret'[c] = ret[c]
    BY <1>6 DEF Within, Raises, Locker, UserPC
  <2>2. UNCHANGED RWLock!vars
    BY <1>1, <1>2, <1>3, <2>1 DEF RWLock!vars
  <2>3. QED  BY <2>2
<1>7. CASE Notified(c, "wake") \/ Notified(c, "out")
  <2>1. /\ ~Locker(c)' /\ ~Locker(c)
        /\ pc[c] \notin {"read", "write"} /\ pc'[c] \notin {"read", "write"}
        /\ ret[c] # "read" /\ ret'[c] = "out"
    BY <1>7 DEF Notified, NotifyPC, Locker
  <2>2. UNCHANGED RWLock!vars
    BY <1>1, <1>2, <1>3, <2>1 DEF RWLock!vars
  <2>3. QED  BY <2>2
<1>8. CASE Takes(c, "rsem", "read")
  <2>1. /\ pc[c] = "dec" /\ on[c] = "rsem" /\ ret[c] = "read" /\ sem_["rsem"] > 0
        /\ pc'[c] = "read" /\ ret'[c] = "out"
    BY <1>8 DEF Takes
  <2>2. ~Locker(c) /\ ~Locker(c)'
    BY <2>1 DEF Locker
  <2>3. nPass # 0
    BY <1>4, <2>1
  <2>4. Writer = None
    BY <1>2, <1>5, <2>3 DEF Counts
  <2>5. RWLock!AcquireShared(c)
    BY <1>1, <1>2, <1>3, <2>1, <2>2, <2>4 DEF RWLock!AcquireShared
  <2>6. QED  BY <2>5 DEF RWLock!Next
<1>9. CASE Takes(c, "wsem", "write")
  <2>1. /\ pc[c] = "dec" /\ on[c] = "wsem" /\ ret[c] = "write" /\ sem_["wsem"] > 0
        /\ pc'[c] = "write" /\ ret'[c] = "out" /\ on'[c] = None
    BY <1>9 DEF Takes
  <2>2. Locker(c) /\ ~Locker(c)'
    BY <2>1 DEF Locker
  <2>3. owner = c /\ Asleep
    BY <2>1 DEF Owners, Holds, Asleep
  <2>4. wait_ = 0 /\ nRead = 0
    <3>1. nTurn # 0
      BY <1>4, <2>1
    <3>2. wait_ = nRead + nPass + nLeft /\ nTurn = IF wait_ = 0 THEN 1 ELSE 0
      BY <2>3 DEF Counts
    <3>3. QED  BY <1>4, <3>1, <3>2
  <2>5. At("read") = {}
    BY <2>4, FS_Subset, FS_EmptySet, RWMaxAssumption DEF nRead, At
  <2>6. Writer = None
    BY <1>2, <1>5, <2>1, <2>3
  <2>7. RWLock!Acquire(c)
    BY <1>1, <1>2, <1>3, <2>1, <2>2, <2>5, <2>6 DEF RWLock!Acquire
  <2>8. QED  BY <2>7 DEF RWLock!Next
<1>10. QED  BY <1>6, <1>7, <1>8, <1>9, SemMoves

LEMMA UserImplements ==
  ASSUME IInv, NEW c \in Ctx, UserStep(c)
  PROVE  [RWLock!Next]_(RWLock!vars)
<1> USE SemAssumption, NoneAssumption DEF IInv
<1>1. /\ Lockers' = IF Locker(c)' THEN Lockers \cup {c} ELSE Lockers \ {c}
      /\ At("read")' = IF pc'[c] = "read" THEN At("read") \cup {c} ELSE At("read") \ {c}
      /\ InWait("rsem")' = IF on'[c] = "rsem" /\ ret'[c] = "read"
                           THEN InWait("rsem") \cup {c} ELSE InWait("rsem") \ {c}
  BY SetsMove
<1>2. /\ Writer \in Ctx \cup {None} /\ \A d \in Ctx : Writer = d <=> pc[d] = "write"
      /\ pc'[c] = "write" => Writer' = c
      /\ pc'[c] # "write" => Writer' = IF Writer = c THEN None ELSE Writer
  BY WriterMoves
<1>3. /\ c \in At("read") <=> pc[c] = "read"
      /\ c \in InWait("rsem") <=> (on[c] = "rsem" /\ ret[c] = "read")
      /\ c \in Lockers <=> Locker(c)
  BY DEF At, InWait, Lockers, Locker
<1>4. /\ pc[c] \in UserPC /\ on[c] = None /\ ret[c] = "out"
      /\ Locker(c) <=> pc[c] \in {"wmtx", "mark", "add"}
  <2>1. pc[c] \in UserPC
    BY UserNumbers
  <2>2. QED  BY <2>1 DEF Places, Place, Locker
<1>5. /\ count_ \in Int /\ wait_ \in Int /\ r[c] \in Int /\ RWMax \in Nat
      /\ nRead \in Nat /\ nLeft \in Nat /\ nWait \in Nat /\ nPass \in Nat
  BY UserNumbers
<1>6. \A d \in Ctx : pc[d] = "write" => owner = d /\ Writing
  BY DEF Owners, Holds, Writing
<1>7. /\ pc \in [Ctx -> SemPC \cup UserPC] /\ on \in [Ctx -> Sem \cup {None}]
      /\ ret \in [Ctx -> UserPC]
  BY DEF TypeOK, SemTypeOK
\* c goes on at p; c calls wait() or notify() and returns to p.
<1>8. ASSUME NEW q, NEW p, Goto(c, q, p)
      PROVE  /\ pc[c] = q /\ pc'[c] = p /\ ret'[c] = "out"
             /\ Locker(c)' <=> p \in {"wmtx", "mark", "add"}
  BY <1>4, <1>7, <1>8 DEF Goto, From, Locker
<1>9. CASE Lock(c)
  <2>1. Goto(c, "out", "wmtx")
    BY <1>9 DEF Lock
  <2>2. RWLock!Request(c)
    BY <1>1, <1>2, <1>3, <1>4, <1>8, <2>1 DEF RWLock!Request, RWLock!Idle
  <2>3. QED  BY <2>2 DEF RWLock!Next
<1>10. CASE LockShared(c)
  <2>1. pc[c] = "out"
    BY <1>10 DEF LockShared, Goto, From, CallWait, Call
  <2>2. RWLock!Idle(c)
    BY <1>2, <1>3, <1>4, <2>1 DEF RWLock!Idle
  <2>3. CASE count_ + 1 < 0
    <3>1. pc'[c] = "dec" /\ on'[c] = "rsem" /\ ret'[c] = "read"
      BY <1>7, <1>10, <2>3 DEF LockShared, CallWait, Call, From
    <3>2. ~Locker(c) /\ ~Locker(c)'
      BY <1>4, <2>1, <3>1 DEF Locker
    <3>3. RWLock!RequestShared(c)
      BY <1>1, <1>2, <1>3, <2>1, <2>2, <3>1, <3>2 DEF RWLock!RequestShared
    <3>4. QED  BY <3>3 DEF RWLock!Next
  <2>4. CASE ~(count_ + 1 < 0)
    <3>1. Goto(c, "out", "read")
      BY <1>10, <2>4 DEF LockShared
    <3>2. ~Writing
      <4>1. nRead + nWait + 1 <= Cardinality(Ctx) /\ Cardinality(Ctx) < RWMax
        BY <2>1, Room, RWMaxAssumption
      <4>2. Cardinality(Ctx) \in Nat
        BY RWMaxAssumption, FS_CardinalityType
      <4>3. Writing => count_ = nRead + nWait - RWMax
        BY DEF Counts
      <4>4. QED  BY <1>5, <2>4, <4>1, <4>2, <4>3
    <3>3. Writer = None
      BY <1>2, <1>6, <3>2
    <3>4. RWLock!AcquireShared(c)
      BY <1>1, <1>2, <1>3, <1>4, <1>8, <2>1, <2>2, <3>1, <3>3 DEF RWLock!AcquireShared
    <3>5. QED  BY <3>4 DEF RWLock!Next
  <2>5. QED  BY <2>3, <2>4
<1>11. CASE LockWriters(c)
  <2>1. Goto(c, "wmtx", "mark")
    BY <1>11 DEF LockWriters
  <2>2. UNCHANGED RWLock!vars
    BY <1>1, <1>2, <1>3, <1>4, <1>8, <2>1 DEF RWLock!vars
  <2>3. QED  BY <2>2
\* The holder of wmtx_ gets the mutex: nobody else writes, and nobody reads.
<1>12. ASSUME NEW q \in {"mark", "add"}, Goto(c, q, "write"), nRead = 0
       PROVE  RWLock!Next
  <2>1. pc[c] = q /\ pc'[c] = "write" /\ ret'[c] = "out" /\ ~Locker(c)'
    BY <1>8, <1>12
  <2>2. At("read") = {}
    BY <1>12, FS_Subset, FS_EmptySet, RWMaxAssumption DEF nRead, At
  <2>3. owner = c
    BY <2>1 DEF Owners, Holds
  <2>4. Writer = None
    BY <1>2, <1>6, <2>1, <2>3
  <2>5. RWLock!Acquire(c)
    BY <1>1, <1>2, <1>3, <1>4, <2>1, <2>2, <2>4 DEF RWLock!Acquire
  <2>6. QED  BY <2>5 DEF RWLock!Next
<1>13. CASE Mark(c)
  <2>1. CASE count_ = 0
    <3>1. Goto(c, "mark", "write")
      BY <1>13, <2>1 DEF Mark
    <3>2. owner = c /\ pc[c] = "mark"
      BY <1>8, <3>1 DEF Owners, Holds
    <3>3. ~Writing /\ ~Adding /\ ~Asleep
      BY <1>4, <3>2 DEF Writing, Adding, Asleep
    <3>4. nRead = 0
      BY <1>5, <2>1, <3>3 DEF Counts
    <3>5. QED  BY <1>12, <3>1, <3>4
  <2>2. CASE count_ # 0
    <3>1. Goto(c, "mark", "add")
      BY <1>13, <2>2 DEF Mark
    <3>2. UNCHANGED RWLock!vars
      BY <1>1, <1>2, <1>3, <1>4, <1>8, <3>1 DEF RWLock!vars
    <3>3. QED  BY <3>2
  <2>3. QED  BY <2>1, <2>2
<1>14. CASE AddWait(c)
  <2>1. CASE wait_ + r[c] = 0
    <3>1. Goto(c, "add", "write")
      BY <1>14, <2>1 DEF AddWait
    <3>2. owner = c /\ Adding
      BY <1>8, <3>1 DEF Owners, Holds, Adding
    <3>3. wait_ + r[c] = nRead + nPass + nLeft
      BY <3>2 DEF Counts
    <3>4. nRead = 0
      BY <1>5, <2>1, <3>3
    <3>5. QED  BY <1>12, <3>1, <3>4
  <2>2. CASE wait_ + r[c] # 0
    <3>1. pc[c] = "add" /\ pc'[c] = "dec" /\ on'[c] = "wsem" /\ ret'[c] = "write"
      BY <1>7, <1>14, <2>2 DEF AddWait, CallWait, Call, From
    <3>2. Locker(c) /\ Locker(c)'
      BY <3>1 DEF Locker
    <3>3. UNCHANGED RWLock!vars
      BY <1>1, <1>2, <1>3, <1>4, <3>1, <3>2 DEF RWLock!vars
    <3>4. QED  BY <3>3
  <2>3. QED  BY <2>1, <2>2
<1>15. CASE Unlock(c)
  <2>1. Goto(c, "write", "wake")
    BY <1>15 DEF Unlock
  <2>2. Writer = c
    BY <1>2, <1>8, <2>1
  <2>3. RWLock!Release(c)
    BY <1>1, <1>2, <1>3, <1>4, <1>8, <2>1, <2>2 DEF RWLock!Release
  <2>4. QED  BY <2>3 DEF RWLock!Next
<1>16. CASE Wake(c) \/ UnlockWriters(c) \/ Left(c)
  <2>1. /\ pc[c] \in {"wake", "release", "left"} /\ pc'[c] \in {"inc", "release", "out"}
        /\ ret'[c] # "read" /\ ~Locker(c)'
    BY <1>4, <1>7, <1>16
    DEF Wake, UnlockWriters, Left, Goto, From, CallNotify, Call, Locker
  <2>2. UNCHANGED RWLock!vars
    BY <1>1, <1>2, <1>3, <1>4, <2>1 DEF RWLock!vars
  <2>3. QED  BY <2>2
<1>17. CASE UnlockShared(c)
  <2>1. PICK p \in {"out", "left"} : Goto(c, "read", p)
    BY <1>17 DEF UnlockShared
  <2>2. RWLock!ReleaseShared(c)
    BY <1>1, <1>2, <1>3, <1>4, <1>8, <2>1 DEF RWLock!ReleaseShared
  <2>3. QED  BY <2>2 DEF RWLock!Next
<1>18. QED
  BY <1>9, <1>10, <1>11, <1>13, <1>14, <1>15, <1>16, <1>17 DEF UserStep

(* comutexshared implements CoRWLock for every number of coroutines: writers   *)
(* exclude one another and the readers, whatever is interleaved with whatever. *)
THEOREM Implements == Spec => ImplementsRWLock
<1>1. Init => RWLock!Init
  <2> SUFFICES ASSUME Init PROVE RWLock!Init
    OBVIOUS
  <2>1. At("write") = {} /\ At("read") = {} /\ Lockers = {} /\ InWait("rsem") = {}
    BY DEF Init, SemInit, At, InWait, Lockers
  <2>2. QED  BY <2>1 DEF RWLock!Init, Writer
<1>2. IInv /\ [Next]_vars => [RWLock!Next]_(RWLock!vars)
  <2> SUFFICES ASSUME IInv, [Next]_vars PROVE [RWLock!Next]_(RWLock!vars)
    OBVIOUS
  <2>1. CASE Next
    BY <2>1, SemImplements, UserImplements DEF Next, Step, UserStep
  <2>2. CASE UNCHANGED vars
    BY <2>2 DEF vars, semVars, rwVars, RWLock!vars, Writer, At, Lockers, InWait
  <2>3. QED  BY <2>1, <2>2
<1>3. QED  BY <1>1, <1>2, Invariant, PTL DEF Spec, ImplementsRWLock, RWLock!Spec
------------------------------------------------------------------------------
(* One wake-up *)

Resumes(d, c) == pc[d] = "resume" /\ popped[d] = c
IsQueued(c) == \E s \in Sem : ctx_que_[s][c] > 0
Coming(c) == IsQueued(c) \/ \E d \in Ctx : Resumes(d, c)

\* c has yielded and has not been resumed; c is in its callback, before its push.
Unwoken(c) == status[c] \in {"Yield_Reset_Reset", "Yield_Set_Reset"}
Unqueued(c) == pc[c] \in {"check", "push"}

\* A coroutine has one wake-up coming exactly while it waits unwoken, from the
\* semaphore it has called.
WakeUp(c) ==
  /\ Unqueued(c) => status[c] = "Yield_Reset_Reset"
  /\ \A s \in Sem : ctx_que_[s][c] > 0 =>
       on[c] = s /\ ctx_que_[s][c] = 1 /\ \A d \in Ctx : ~Resumes(d, c)
  /\ \A d \in Ctx : Resumes(d, c) => on[d] = on[c]
  /\ \A d, e \in Ctx : Resumes(d, c) /\ Resumes(e, c) => d = e
  /\ Coming(c) <=> Unwoken(c) /\ ~Unqueued(c)

WakeInv == \A c \in Ctx : WakeUp(c)

LEMMA PlaceType ==
  ASSUME TypeOK, Places, NEW c \in Ctx
  PROVE  /\ pc[c] \notin UserPC => on[c] \in Sem /\ ret[c] \in UserPC
         /\ pc[c] = "resume" => popped[c] \in Ctx
         /\ pc[c] = "inc" => status[c] = "Ready_Reset_Reset"
         /\ pc[c] \in UserPC \cup {"dec", "yield"} => status[c] = "Ready_Reset_Reset"
BY SemAssumption DEF Places, Place, Waits, Notifies, UserPC

\* A step that leaves the queues, the status words and the resumers alone.
LEMMA WakeSteady ==
  ASSUME TypeOK, WakeInv, NEW c \in Ctx, SemCall(c) \/ UserStep(c),
         UNCHANGED <<ctx_que_, status, popped>>,
         pc[c] # "resume", pc'[c] # "resume", ~Unqueued(c), ~Unqueued(c)',
         on'[c] = on[c] \/ status[c] = "Ready_Reset_Reset"
  PROVE  WakeInv'
<1>1. \A d \in Ctx : d # c => pc'[d] = pc[d] /\ on'[d] = on[d]
  BY Local
<1> SUFFICES ASSUME NEW e \in Ctx PROVE WakeUp(e)'
  BY DEF WakeInv
<1>2. WakeUp(e)
  BY DEF WakeInv
<1>3. \A d \in Ctx : Resumes(d, e)' <=> Resumes(d, e)
  BY <1>1 DEF Resumes
<1>4. (Unqueued(e)' <=> Unqueued(e)) /\ (Unwoken(e)' <=> Unwoken(e))
      /\ (Coming(e)' <=> Coming(e))
  BY <1>1, <1>3 DEF Unqueued, Unwoken, Coming, IsQueued
<1>5. Coming(e) => on'[e] = on[e]
  BY <1>1, <1>2 DEF WakeUp, Unwoken
<1>6. \A d \in Ctx : Resumes(d, e) => on'[d] = on[d]
  BY <1>1 DEF Resumes
<1>7. \A s \in Sem : ctx_que_'[s][e] > 0 => on'[e] = s
  BY <1>2, <1>5 DEF WakeUp, Coming, IsQueued
<1>8. \A d \in Ctx : Resumes(d, e)' => on'[d] = on'[e]
  BY <1>2, <1>3, <1>5, <1>6 DEF WakeUp, Coming
<1>9. QED  BY <1>2, <1>3, <1>4, <1>7, <1>8 DEF WakeUp

\* A step in which c touches neither the resumers nor anybody else's word.
LEMMA WakeOther ==
  ASSUME TypeOK, WakeInv, NEW c \in Ctx, SemCall(c) \/ UserStep(c),
         NEW e \in Ctx, e # c, status'[e] = status[e],
         \A s \in Sem : ctx_que_'[s][e] = ctx_que_[s][e],
         ~Resumes(c, e), ~Resumes(c, e)'
  PROVE  WakeUp(e)'
<1>1. \A d \in Ctx : d # c => pc'[d] = pc[d] /\ on'[d] = on[d]
  BY Local
<1>2. \A d \in Ctx : d # c => popped'[d] = popped[d]
  BY DEF TypeOK, SemTypeOK, SemCall, SemStep, Dec, dco_yield, Check, Push, Recheck, Switch, Run,
         Inc, PopNothing, Resume, Pop, UserStep, Lock, LockShared, LockWriters, Mark, AddWait,
         Unlock, Wake, UnlockWriters, UnlockShared, Left, Goto, CallWait, CallNotify, Call
<1>3. WakeUp(e)
  BY DEF WakeInv
<1>4. \A d \in Ctx : Resumes(d, e)' <=> Resumes(d, e)
  BY <1>1, <1>2 DEF Resumes
<1>5. (Unqueued(e)' <=> Unqueued(e)) /\ (Unwoken(e)' <=> Unwoken(e))
      /\ (Coming(e)' <=> Coming(e))
  BY <1>1, <1>4 DEF Unqueued, Unwoken, Coming, IsQueued
<1>6. \A d \in Ctx : Resumes(d, e) => on'[d] = on[d]
  BY <1>1 DEF Resumes
<1>7. on'[e] = on[e]
  BY <1>1
<1>8. QED  BY <1>3, <1>4, <1>5, <1>6, <1>7 DEF WakeUp

LEMMA WakeUser ==
  ASSUME TypeOK, Places, WakeInv, NEW c \in Ctx, UserStep(c)
  PROVE  WakeInv'
<1>1. pc[c] \in UserPC /\ UNCHANGED <<ctx_que_, status, popped>>
  BY DEF UserStep, Lock, LockShared, LockWriters, Mark, AddWait, Unlock, Wake, UnlockWriters,
         UnlockShared, Left, Goto, From, CallWait, CallNotify, Call, UserPC
<1>2. pc'[c] \in UserPC \cup {"dec", "inc"}
  BY DEF TypeOK, SemTypeOK, UserStep, Lock, LockShared, LockWriters, Mark, AddWait, Unlock, Wake,
         UnlockWriters, UnlockShared, Left, Goto, From, CallWait, CallNotify, Call, UserPC
<1>3. status[c] = "Ready_Reset_Reset"
  BY <1>1, PlaceType
<1>4. pc[c] # "resume" /\ pc'[c] # "resume" /\ ~Unqueued(c) /\ ~Unqueued(c)'
  BY <1>1, <1>2 DEF UserPC, Unqueued
<1>5. QED  BY <1>1, <1>3, <1>4, WakeSteady

LEMMA WakeSem ==
  ASSUME TypeOK, Places, WakeInv, NEW c \in Ctx, SemCall(c)
  PROVE  WakeInv'
<1> USE DEF TypeOK, SemTypeOK
<1>0. /\ Place(c) /\ WakeUp(c) /\ Place(c)'
  BY SemMoves DEF Places, WakeInv
<1>1. /\ pc[c] \notin UserPC => on[c] \in Sem /\ ret[c] \in UserPC
      /\ pc[c] = "resume" => popped[c] \in Ctx
      /\ pc[c] = "inc" => status[c] = "Ready_Reset_Reset"
      /\ pc[c] \in UserPC \cup {"dec", "yield"} => status[c] = "Ready_Reset_Reset"
  BY PlaceType
<1>2. CASE Dec(c) \/ Recheck(c) \/ Run(c) \/ Inc(c) \/ PopNothing(c)
  <2>1. UNCHANGED <<ctx_que_, status, popped>> /\ pc[c] \in {"dec", "recheck", "parked", "inc", "pop"}
    BY <1>2 DEF Dec, Recheck, Run, Inc, PopNothing, From
  <2>2. ret[c] \in UserPC
    BY <1>1, <2>1 DEF UserPC
  <2>3. pc'[c] \in UserPC \cup {"yield", "pop", "sw", "dec"}
    BY <1>2, <2>2 DEF Dec, Recheck, Run, Inc, PopNothing, From, NotifyDone, Return
  <2>4. on'[c] = on[c] \/ status[c] = "Ready_Reset_Reset"
    <3>1. CASE Dec(c) \/ Inc(c)
      BY <1>1, <3>1 DEF Dec, Inc, From
    <3>2. CASE Recheck(c) \/ Run(c)
      BY <3>2 DEF Recheck, Run
    <3>3. CASE PopNothing(c)
      <4>1. Waiting(c) \/ status[c] = "Ready_Reset_Reset"
        BY <1>0, <3>3 DEF PopNothing, Place, NotifyPC, Waiting, YieldStatus
      <4>2. QED  BY <3>3, <4>1 DEF PopNothing, NotifyDone
    <3>4. QED  BY <1>2, <3>1, <3>2, <3>3
  <2>5. pc[c] # "resume" /\ pc'[c] # "resume" /\ ~Unqueued(c) /\ ~Unqueued(c)'
    BY <2>1, <2>3 DEF UserPC, Unqueued
  <2>6. QED  BY <2>1, <2>4, <2>5, WakeSteady
<1>3. CASE dco_yield(c) \/ Check(c) \/ Push(c) \/ Switch(c)
  <2>1. /\ pc[c] \in {"yield", "check", "push", "sw"} /\ on' = on
        /\ \A e \in Ctx : e # c => status'[e] = status[e]
        /\ \A e \in Ctx, s \in Sem : e # c => ctx_que_'[s][e] = ctx_que_[s][e]
        /\ pc'[c] = "resume" => popped'[c] = c
    BY <1>3 DEF dco_yield, Check, Push, Switch, From, SetStatus
  <2>2. ASSUME NEW e \in Ctx, e # c PROVE WakeUp(e)'
    <3>1. ~Resumes(c, e) /\ ~Resumes(c, e)'
      BY <2>1, <2>2 DEF Resumes
    <3>2. QED  BY <2>1, <2>2, <3>1, WakeOther
  <2>3. \A d \in Ctx : d # c => pc'[d] = pc[d] /\ popped'[d] = popped[d]
    BY <1>3, Local DEF dco_yield, Check, Push, Switch
  <2>4. \A d \in Ctx : d # c => (Resumes(d, c)' <=> Resumes(d, c))
    BY <2>3 DEF Resumes
  <2>5. ~Resumes(c, c)
    BY <2>1 DEF Resumes
  <2>6. WakeUp(c)'
    <3>1. CASE dco_yield(c)
      <4>1. status[c] = "Ready_Reset_Reset" /\ UNCHANGED ctx_que_
        BY <1>1, <3>1 DEF dco_yield, From
      <4>2. pc'[c] = "check" /\ status'[c] = "Yield_Reset_Reset"
        BY <3>1, <4>1 DEF dco_yield, From, SetStatus, TryYield, Becomes
      <4>3. ~Coming(c)
        BY <1>0, <4>1 DEF WakeUp, Unwoken
      <4>4. ~Resumes(c, c)'
        BY <4>2 DEF Resumes
      <4>5. ~Coming(c)'
        BY <2>4, <4>1, <4>3, <4>4 DEF Coming, IsQueued
      <4>6. QED  BY <4>2, <4>5 DEF WakeUp, Coming, IsQueued, Unqueued
    <3>2. CASE Check(c)
      <4>1. pc[c] = "check" /\ Unqueued(c) /\ status' = status /\ ctx_que_' = ctx_que_
            /\ status[c] = "Yield_Reset_Reset" /\ ~Coming(c)
        BY <1>0, <3>2 DEF Check, From, WakeUp, Unqueued
      <4>2. \A d \in Ctx : d # c => ~Resumes(d, c)'
        BY <2>4, <4>1 DEF Coming
      <4>3. ~IsQueued(c)'
        BY <4>1 DEF Coming, IsQueued
      <4>4. CASE pc'[c] = "resume"
        <5>1. Resumes(c, c)' /\ ~Unqueued(c)'
          BY <2>1, <4>4 DEF Resumes, Unqueued
        <5>2. QED  BY <4>1, <4>2, <4>3, <5>1 DEF WakeUp, Coming, IsQueued, Unwoken
      <4>5. CASE pc'[c] = "push"
        <5>1. ~Resumes(c, c)' /\ Unqueued(c)'
          BY <4>5 DEF Resumes, Unqueued
        <5>2. QED  BY <4>1, <4>2, <4>3, <5>1 DEF WakeUp, Coming, IsQueued, Unwoken
      <4>6. pc'[c] = "resume" \/ pc'[c] = "push"
        BY <3>2 DEF Check, From
      <4>7. QED  BY <4>4, <4>5, <4>6
    <3>3. CASE Push(c)
      <4>1. pc[c] = "push" /\ pc'[c] = "recheck" /\ Unqueued(c) /\ status' = status
            /\ status[c] = "Yield_Reset_Reset" /\ ~Coming(c)
        BY <1>0, <3>3 DEF Push, From, WakeUp, Unqueued
      <4>2. \A d \in Ctx : ~Resumes(d, c)'
        BY <2>4, <4>1 DEF Coming, Resumes
      <4>3. on[c] \in Sem
        BY <1>1, <4>1 DEF UserPC
      <4>4. \A s \in Sem : ctx_que_[s][c] = 0
        BY <4>1 DEF Coming, IsQueued
      <4>5. \A s \in Sem : ctx_que_'[s][c] = IF s = on[c] THEN 1 ELSE 0
        BY <3>3, <4>3, <4>4 DEF Push
      <4>6. IsQueued(c)' /\ ~Unqueued(c)' /\ Unwoken(c)'
        BY <4>1, <4>3, <4>5 DEF IsQueued, Unqueued, Unwoken
      <4>7. QED  BY <2>1, <4>2, <4>5, <4>6 DEF WakeUp, Coming
    <3>4. CASE Switch(c)
      <4>1. /\ pc[c] = "sw" /\ pc'[c] = "parked" /\ UNCHANGED ctx_que_
            /\ status[c] \in {"Yield_Reset_Reset", "Yield_Break_Reset"}
        BY <1>0, <3>4 DEF Switch, From, Place
      <4>2. Unwoken(c)' <=> Unwoken(c)
        BY <3>4, <4>1 DEF Switch, SetStatus, TrySw, Becomes, Unwoken
      <4>3. ~Unqueued(c) /\ ~Unqueued(c)'
        BY <4>1 DEF Unqueued
      <4>4. \A d \in Ctx : Resumes(d, c)' <=> Resumes(d, c)
        BY <2>4, <4>1 DEF Resumes
      <4>5. Coming(c)' <=> Coming(c)
        BY <4>1, <4>4 DEF Coming, IsQueued
      <4>6. QED  BY <1>0, <2>1, <4>1, <4>2, <4>3, <4>4, <4>5 DEF WakeUp
    <3>5. QED  BY <1>3, <3>1, <3>2, <3>3, <3>4
  <2>7. QED  BY <2>2, <2>6 DEF WakeInv
<1>4. ASSUME NEW d \in Ctx, Pop(c, d) PROVE WakeInv'
  <2>1. /\ pc[c] = "pop" /\ pc'[c] = "resume" /\ popped'[c] = d
        /\ UNCHANGED <<sem_, status, on, ret>> /\ ctx_que_[on[c]][d] > 0
    BY <1>4 DEF Pop, From
  <2>2. on[c] \in Sem
    BY <1>1, <2>1 DEF UserPC
  <2>3. WakeUp(d)
    BY DEF WakeInv
  <2>4. /\ on[d] = on[c] /\ ctx_que_[on[c]][d] = 1 /\ \A e \in Ctx : ~Resumes(e, d)
        /\ Unwoken(d) /\ ~Unqueued(d)
    BY <2>1, <2>2, <2>3 DEF WakeUp, Coming, IsQueued
  <2>5. \A s \in Sem : s # on[c] => ~(ctx_que_[s][d] > 0)
    BY <2>3, <2>4 DEF WakeUp
  <2>6. \A s \in Sem : ~(ctx_que_'[s][d] > 0)
    BY <1>4, <2>2, <2>4, <2>5 DEF Pop
  <2>7. \A e \in Ctx : e # c => pc'[e] = pc[e] /\ popped'[e] = popped[e]
    BY <1>4, Local DEF Pop
  <2>8. \A e \in Ctx : Resumes(e, d)' <=> e = c
    BY <2>1, <2>4, <2>7 DEF Resumes
  <2>9. ~Unqueued(d)' /\ Unwoken(d)'
    BY <2>1, <2>4, <2>7 DEF Unqueued, Unwoken
  <2>10. WakeUp(d)'
    BY <2>1, <2>4, <2>6, <2>8, <2>9 DEF WakeUp, Coming
  <2>11. ASSUME NEW e \in Ctx, e # d PROVE WakeUp(e)'
    <3>1. ~Resumes(c, e) /\ ~Resumes(c, e)'
      BY <2>1, <2>11 DEF Resumes
    <3>2. \A f \in Ctx : Resumes(f, e)' <=> Resumes(f, e)
      BY <2>7, <3>1 DEF Resumes
    <3>3. \A s \in Sem : ctx_que_'[s][e] = ctx_que_[s][e]
      BY <1>4, <2>11 DEF Pop
    <3>4. (Unqueued(e)' <=> Unqueued(e)) /\ (Unwoken(e)' <=> Unwoken(e))
      BY <2>1, <2>7 DEF Unqueued, Unwoken
    <3>5. Coming(e)' <=> Coming(e)
      BY <3>2, <3>3 DEF Coming, IsQueued
    <3>6. WakeUp(e)
      BY DEF WakeInv
    <3>7. QED  BY <2>1, <3>2, <3>3, <3>4, <3>5, <3>6 DEF WakeUp
  <2>12. QED  BY <2>10, <2>11 DEF WakeInv
<1>5. CASE Resume(c)
  <2>1. PICK d \in Ctx : d = popped[c]
    BY <1>1, <1>5 DEF Resume
  <2>2. /\ pc[c] = "resume" /\ popped'[c] = None /\ UNCHANGED <<sem_, ctx_que_>>
        /\ status' = [status EXCEPT ![d] = TryResume(status[d]).to]
    BY <1>5, <2>1 DEF Resume, SetStatus
  <2>3. Resumes(c, d) /\ WakeUp(d)
    BY <2>1, <2>2 DEF Resumes, WakeInv
  <2>4. /\ \A e \in Ctx : Resumes(e, d) => e = c
        /\ \A s \in Sem : ~(ctx_que_[s][d] > 0)
        /\ Unwoken(d) /\ ~Unqueued(d)
    BY <2>3 DEF WakeUp, Coming
  <2>5. pc'[c] \in UserPC \cup {"sw"}
    BY <1>1, <1>5 DEF Resume, NotifyDone, Return, UserPC
  <2>6. pc'[c] # "resume" /\ ~Unqueued(c) /\ ~Unqueued(c)'
    BY <2>2, <2>5 DEF UserPC, Unqueued
  <2>7. \A e \in Ctx : e # c => pc'[e] = pc[e] /\ on'[e] = on[e] /\ popped'[e] = popped[e]
    BY <1>5, Local DEF Resume
  <2>8. \A e \in Ctx : e # d => (\A f \in Ctx : Resumes(f, e)' <=> Resumes(f, e))
    BY <2>1, <2>6, <2>7 DEF Resumes
  <2>9. \A f \in Ctx : ~Resumes(f, d)'
    BY <2>4, <2>6, <2>7 DEF Resumes
  <2>10. ~Unwoken(d)' /\ ~Unqueued(d)'
    <3>1. status'[d] \in {"Yield_Break_Reset", "Ready_Reset_Reset"}
      BY <2>2, <2>4 DEF TryResume, Becomes, Unwoken
    <3>2. QED  BY <2>4, <2>6, <2>7, <3>1 DEF Unwoken, Unqueued
  <2>11. WakeUp(d)'
    BY <2>2, <2>4, <2>9, <2>10 DEF WakeUp, Coming, IsQueued
  <2>12. ASSUME NEW e \in Ctx, e # d PROVE WakeUp(e)'
    <3>1. WakeUp(e)
      BY DEF WakeInv
    <3>2. status'[e] = status[e]
      BY <2>2, <2>12
    <3>3. (Unqueued(e)' <=> Unqueued(e)) /\ (Unwoken(e)' <=> Unwoken(e))
          /\ (Coming(e)' <=> Coming(e))
      BY <2>2, <2>6, <2>7, <2>8, <2>12, <3>2 DEF Unqueued, Unwoken, Coming, IsQueued
    <3>4. Coming(e) => on'[e] = on[e]
      <4>1. CASE e # c
        BY <2>7, <4>1
      <4>2. CASE e = c
        <5>1. Coming(c) => Unwoken(c)
          BY <1>0 DEF WakeUp
        <5>2. Unwoken(c) => Waiting(c)
          BY DEF Unwoken, Waiting, YieldStatus
        <5>3. Waiting(c) => on'[c] = on[c]
          BY <1>5 DEF Resume, NotifyDone
        <5>4. QED  BY <4>2, <5>1, <5>2, <5>3
      <4>3. QED  BY <4>1, <4>2
    <3>5. \A f \in Ctx : Resumes(f, e) => f # c
      BY <2>1, <2>12 DEF Resumes
    <3>6. \A s \in Sem : ctx_que_'[s][e] > 0 => on'[e] = s
      BY <2>2, <3>1, <3>4 DEF WakeUp, Coming, IsQueued
    <3>7. \A f \in Ctx : Resumes(f, e)' => on'[f] = on'[e]
      BY <2>7, <2>8, <2>12, <3>1, <3>4, <3>5 DEF WakeUp, Coming
    <3>8. QED  BY <2>2, <2>8, <2>12, <3>1, <3>3, <3>6, <3>7 DEF WakeUp
  <2>13. QED  BY <2>11, <2>12 DEF WakeInv
<1>6. QED  BY <1>2, <1>3, <1>4, <1>5 DEF SemCall, SemStep

LEMMA OneComing == TypeOK /\ Places /\ WakeInv => OneWakeUp
<1> SUFFICES ASSUME TypeOK, Places, WakeInv, NEW c \in Ctx
             PROVE  LET woken == Resumers(c) # {}
                        queues == {s \in Sem : ctx_que_[s][c] > 0}
                    IN  /\ queues \subseteq {on[c]}
                        /\ \A s \in queues : ctx_que_[s][c] = 1 /\ ~woken
                        /\ \A d, e \in Resumers(c) : d = e
                        /\ queues # {} \/ woken => TryResume(status[c]).res >= 0
                        /\ pc[c] = "parked" /\ status[c] # "Ready_Reset_Reset"
                             => queues # {} \/ woken
  BY DEF OneWakeUp
<1>1. WakeUp(c) /\ Place(c)
  BY DEF WakeInv, Places
<1>2. Resumers(c) # {} <=> \E d \in Ctx : Resumes(d, c)
  BY DEF Resumers, Resumes
<1>3. {s \in Sem : ctx_que_[s][c] > 0} # {} <=> IsQueued(c)
  BY DEF IsQueued
<1>4. \A d, e \in Resumers(c) : d = e
  BY <1>1 DEF Resumers, Resumes, WakeUp
<1>5. Unwoken(c) => TryResume(status[c]).res >= 0
  BY DEF Unwoken, TryResume, Becomes
<1>6. pc[c] = "parked" /\ status[c] # "Ready_Reset_Reset" => Unwoken(c) /\ ~Unqueued(c)
  BY <1>1 DEF Place, Unwoken, Unqueued
<1>7. QED  BY <1>1, <1>2, <1>3, <1>4, <1>5, <1>6 DEF WakeUp, Coming

------------------------------------------------------------------------------
(* No permit is left lying *)

\* Who will look into the queue of s; who will look at its permits, or has been
\* resumed, or is about to resume somebody without being a waiter himself.
QueueLookers(s) == {c \in Ctx : on[c] = s /\ pc[c] \in {"recheck", "pop"}}
TakesPermit(c) ==
  \/ pc[c] = "dec"
  \/ pc[c] \in NotifyPC /\ ~Waiting(c)
  \/ status[c] = "Yield_Break_Reset"
  \/ pc[c] = "parked" /\ status[c] = "Ready_Reset_Reset"
PermitTakers(s) == {c \in Ctx : on[c] = s /\ TakesPermit(c)}

SeenAt(s) ==
  \/ Cardinality(Queued(s)) <= Cardinality(QueueLookers(s))
  \/ sem_[s] <= Cardinality(PermitTakers(s))

Seen == \A s \in Sem : SeenAt(s)

\* The three sets are finite, and how each changes with one coroutine.
LEMMA SeenSets ==
  ASSUME NEW s
  PROVE  /\ IsFiniteSet(Queued(s)) /\ IsFiniteSet(QueueLookers(s))
         /\ IsFiniteSet(PermitTakers(s))
         /\ Cardinality(Queued(s)) \in Nat /\ Cardinality(QueueLookers(s)) \in Nat
         /\ Cardinality(PermitTakers(s)) \in Nat
BY RWMaxAssumption, FS_Subset, FS_CardinalityType DEF Queued, QueueLookers, PermitTakers

\* Everything but c stays where it was.
LEMMA SeenMoves ==
  ASSUME TypeOK, NEW s \in Sem, NEW c \in Ctx,
         \A d \in Ctx : d # c => pc'[d] = pc[d] /\ on'[d] = on[d] /\ status'[d] = status[d]
                                 /\ ctx_que_'[s][d] = ctx_que_[s][d]
  PROVE  /\ Cardinality(Queued(s))' \in Nat /\ Cardinality(QueueLookers(s))' \in Nat
         /\ Cardinality(PermitTakers(s))' \in Nat
         /\ Cardinality(Queued(s))' =
              Cardinality(Queued(s)) + N(ctx_que_'[s][c] > 0) - N(ctx_que_[s][c] > 0)
         /\ Cardinality(QueueLookers(s))' =
              Cardinality(QueueLookers(s)) + N(on'[c] = s /\ pc'[c] \in {"recheck", "pop"})
                                           - N(on[c] = s /\ pc[c] \in {"recheck", "pop"})
         /\ Cardinality(PermitTakers(s))' =
              Cardinality(PermitTakers(s)) + N(on'[c] = s /\ TakesPermit(c)')
                                           - N(on[c] = s /\ TakesPermit(c))
<1>1. PICK Q : Q = Queued(s)
  OBVIOUS
<1>2. PICK Q1 : Q1 = {d \in Ctx : ctx_que_'[s][d] > 0}
  OBVIOUS
<1>3. PICK L : L = QueueLookers(s)
  OBVIOUS
<1>4. PICK L1 : L1 = {d \in Ctx : on'[d] = s /\ pc'[d] \in {"recheck", "pop"}}
  OBVIOUS
<1>5. PICK P : P = PermitTakers(s)
  OBVIOUS
<1>6. PICK P1 : P1 = {d \in Ctx : on'[d] = s /\ TakesPermit(d)'}
  OBVIOUS
<1>7. /\ \A d : d # c => (d \in Q <=> d \in Q1)
      /\ \A d : d # c => (d \in L <=> d \in L1)
  BY <1>1, <1>2, <1>3, <1>4 DEF Queued, QueueLookers
<1>8. \A d : d # c => (d \in P <=> d \in P1)
  BY <1>5, <1>6 DEF PermitTakers, TakesPermit, Waiting
<1>9. /\ Q1 = Queued(s)' /\ L1 = QueueLookers(s)' /\ P1 = PermitTakers(s)'
  BY <1>2, <1>4, <1>6 DEF Queued, QueueLookers, PermitTakers
<1>10. IsFiniteSet(Q) /\ IsFiniteSet(L) /\ IsFiniteSet(P)
  BY <1>1, <1>3, <1>5, SeenSets
<1>11. /\ Cardinality(Q1) \in Nat /\ Cardinality(L1) \in Nat /\ Cardinality(P1) \in Nat
       /\ Cardinality(Q1) = Cardinality(Q) + N(c \in Q1) - N(c \in Q)
       /\ Cardinality(L1) = Cardinality(L) + N(c \in L1) - N(c \in L)
       /\ Cardinality(P1) = Cardinality(P) + N(c \in P1) - N(c \in P)
  BY <1>7, <1>8, <1>10, CountOne
<1>12. /\ (c \in Q <=> ctx_que_[s][c] > 0) /\ (c \in Q1 <=> ctx_que_'[s][c] > 0)
       /\ (c \in L <=> on[c] = s /\ pc[c] \in {"recheck", "pop"})
       /\ (c \in L1 <=> on'[c] = s /\ pc'[c] \in {"recheck", "pop"})
       /\ (c \in P <=> on[c] = s /\ TakesPermit(c))
       /\ (c \in P1 <=> on'[c] = s /\ TakesPermit(c)')
  BY <1>1, <1>2, <1>3, <1>4, <1>5, <1>6 DEF Queued, QueueLookers, PermitTakers
<1>13. /\ N(c \in Q) = N(ctx_que_[s][c] > 0) /\ N(c \in Q1) = N(ctx_que_'[s][c] > 0)
       /\ N(c \in L) = N(on[c] = s /\ pc[c] \in {"recheck", "pop"})
       /\ N(c \in L1) = N(on'[c] = s /\ pc'[c] \in {"recheck", "pop"})
       /\ N(c \in P) = N(on[c] = s /\ TakesPermit(c))
       /\ N(c \in P1) = N(on'[c] = s /\ TakesPermit(c)')
  BY <1>12 DEF N
<1>14. QED  BY <1>1, <1>3, <1>5, <1>9, <1>11, <1>13

LEMMA SeenUser ==
  ASSUME TypeOK, TypeOK', Places, Seen, NEW c \in Ctx, UserStep(c)
  PROVE  Seen'
<1> USE DEF TypeOK, SemTypeOK
<1> SUFFICES ASSUME NEW s \in Sem PROVE SeenAt(s)'
  BY DEF Seen
<1>1. pc[c] \in UserPC /\ UNCHANGED <<sem_, ctx_que_, status, popped>>
  BY DEF UserStep, Lock, LockShared, LockWriters, Mark, AddWait, Unlock, Wake, UnlockWriters,
         UnlockShared, Left, Goto, From, CallWait, CallNotify, Call, UserPC
<1>2. pc'[c] \in UserPC \cup {"dec", "inc"}
  BY DEF UserStep, Lock, LockShared, LockWriters, Mark, AddWait, Unlock, Wake,
         UnlockWriters, UnlockShared, Left, Goto, From, CallWait, CallNotify, Call, UserPC
<1>3. status[c] = "Ready_Reset_Reset"
  BY <1>1, PlaceType
<1>4. \A d \in Ctx : d # c => pc'[d] = pc[d] /\ on'[d] = on[d]
  BY Local
<1>5. ~TakesPermit(c)
  BY <1>1, <1>3 DEF TakesPermit, UserPC, NotifyPC
<1>6. pc[c] \notin {"recheck", "pop"} /\ pc'[c] \notin {"recheck", "pop"}
  BY <1>1, <1>2 DEF UserPC
<1>7. /\ Cardinality(Queued(s))' \in Nat /\ Cardinality(QueueLookers(s))' \in Nat
      /\ Cardinality(PermitTakers(s))' \in Nat
      /\ Cardinality(Queued(s))' =
           Cardinality(Queued(s)) + N(ctx_que_'[s][c] > 0) - N(ctx_que_[s][c] > 0)
      /\ Cardinality(QueueLookers(s))' =
           Cardinality(QueueLookers(s)) + N(on'[c] = s /\ pc'[c] \in {"recheck", "pop"})
                                        - N(on[c] = s /\ pc[c] \in {"recheck", "pop"})
      /\ Cardinality(PermitTakers(s))' =
           Cardinality(PermitTakers(s)) + N(on'[c] = s /\ TakesPermit(c)')
                                        - N(on[c] = s /\ TakesPermit(c))
  BY <1>1, <1>4, SeenMoves
<1>8. /\ Cardinality(Queued(s)) \in Nat /\ Cardinality(QueueLookers(s)) \in Nat
      /\ Cardinality(PermitTakers(s)) \in Nat
  BY SeenSets
<1>9. /\ Cardinality(Queued(s))' = Cardinality(Queued(s))
      /\ Cardinality(QueueLookers(s))' = Cardinality(QueueLookers(s))
      /\ Cardinality(PermitTakers(s))' >= Cardinality(PermitTakers(s))
  BY <1>1, <1>5, <1>6, <1>7, <1>8 DEF N
<1>10. sem_[s] \in Nat /\ sem_'[s] = sem_[s]
  BY <1>1
<1>11. QED  BY <1>7, <1>8, <1>9, <1>10 DEF Seen, SeenAt

\* A step of a semaphore other than dco_resume: only c moves.
LEMMA SeenSem ==
  ASSUME TypeOK, TypeOK', Places, WakeInv, Seen, NEW c \in Ctx, SemCall(c), ~Resume(c)
  PROVE  Seen'
<1> USE DEF TypeOK, SemTypeOK
<1> SUFFICES ASSUME NEW s \in Sem PROVE SeenAt(s)'
  BY DEF Seen
<1>0. Place(c) /\ WakeUp(c) /\ SeenAt(s)
  BY DEF Places, WakeInv, Seen
<1>1. /\ pc[c] \notin UserPC => on[c] \in Sem /\ ret[c] \in UserPC
      /\ pc[c] = "inc" => status[c] = "Ready_Reset_Reset"
      /\ pc[c] \in UserPC \cup {"dec", "yield"} => status[c] = "Ready_Reset_Reset"
  BY PlaceType
<1>2. \A d \in Ctx : d # c => pc'[d] = pc[d] /\ on'[d] = on[d]
  BY Local
<1>3. \A d \in Ctx : d # c => status'[d] = status[d]
  BY DEF SemCall, SemStep, Dec, dco_yield, Check, Push, Recheck, Switch, Run, Inc, PopNothing,
         Pop, SetStatus
<1>4. /\ Cardinality(Queued(s)) \in Nat /\ Cardinality(QueueLookers(s)) \in Nat
      /\ Cardinality(PermitTakers(s)) \in Nat /\ sem_[s] \in Nat /\ sem_'[s] \in Nat
  BY SeenSets
<1>5. ASSUME \A d \in Ctx : d # c => ctx_que_'[s][d] = ctx_que_[s][d]
      PROVE  /\ Cardinality(Queued(s))' \in Nat /\ Cardinality(QueueLookers(s))' \in Nat
             /\ Cardinality(PermitTakers(s))' \in Nat
             /\ Cardinality(Queued(s))' =
                  Cardinality(Queued(s)) + N(ctx_que_'[s][c] > 0) - N(ctx_que_[s][c] > 0)
             /\ Cardinality(QueueLookers(s))' =
                  Cardinality(QueueLookers(s)) + N(on'[c] = s /\ pc'[c] \in {"recheck", "pop"})
                                               - N(on[c] = s /\ pc[c] \in {"recheck", "pop"})
             /\ Cardinality(PermitTakers(s))' =
                  Cardinality(PermitTakers(s)) + N(on'[c] = s /\ TakesPermit(c)')
                                               - N(on[c] = s /\ TakesPermit(c))
  BY <1>2, <1>3, <1>5, SeenMoves
<1>6. CASE Dec(c)
  <2>1. pc[c] = "dec" /\ TakesPermit(c) /\ ctx_que_' = ctx_que_ /\ on[c] \in Sem
        /\ ret[c] \in UserPC
    BY <1>1, <1>6 DEF Dec, From, TakesPermit, UserPC
  <2>2. CASE sem_[on[c]] > 0
    <3>1. /\ sem_' = [sem_ EXCEPT ![on[c]] = @ - 1] /\ pc'[c] \in UserPC
          /\ on'[c] \in {on[c], None}
      BY <1>6, <2>1, <2>2 DEF Dec, Return
    <3>2. pc'[c] \notin {"recheck", "pop"}
      BY <3>1 DEF UserPC
    <3>3. sem_'[s] = sem_[s] - N(on[c] = s)
      BY <2>1, <3>1 DEF N
    <3>4. N(on[c] = s /\ TakesPermit(c)) = N(on[c] = s) /\ N(on[c] = s) \in Nat
      BY <2>1 DEF N
    <3>5. N(on'[c] = s /\ TakesPermit(c)') \in Nat
      BY DEF N
    <3>6. /\ Cardinality(Queued(s))' = Cardinality(Queued(s))
          /\ Cardinality(QueueLookers(s))' = Cardinality(QueueLookers(s))
      BY <1>4, <1>5, <2>1, <3>2 DEF N
    <3>7. Cardinality(PermitTakers(s))' >= Cardinality(PermitTakers(s)) - N(on[c] = s)
      BY <1>4, <1>5, <2>1, <3>4, <3>5
    <3>8. QED  BY <1>0, <1>4, <1>5, <2>1, <3>3, <3>4, <3>6, <3>7 DEF SeenAt
  <2>3. CASE ~(sem_[on[c]] > 0)
    <3>1. pc'[c] = "yield" /\ on' = on /\ sem_' = sem_
      BY <1>6, <2>3 DEF Dec, From
    <3>2. CASE on[c] = s
      <4>1. sem_'[s] = 0
        BY <1>4, <2>3, <3>1, <3>2
      <4>2. QED  BY <1>5, <2>1, <4>1 DEF SeenAt
    <3>3. CASE on[c] # s
      <4>1. /\ Cardinality(Queued(s))' = Cardinality(Queued(s))
            /\ Cardinality(QueueLookers(s))' = Cardinality(QueueLookers(s))
            /\ Cardinality(PermitTakers(s))' = Cardinality(PermitTakers(s))
        BY <1>4, <1>5, <2>1, <3>1, <3>3 DEF N
      <4>2. QED  BY <1>0, <3>1, <4>1 DEF SeenAt
    <3>4. QED  BY <3>2, <3>3
  <2>4. QED  BY <2>2, <2>3
<1>7. CASE dco_yield(c) \/ Check(c) \/ Switch(c) \/ Run(c)
  <2>1. ctx_que_' = ctx_que_ /\ on' = on /\ sem_' = sem_
    BY <1>7 DEF dco_yield, Check, Switch, Run
  <2>2. pc[c] \notin {"recheck", "pop"} /\ pc'[c] \notin {"recheck", "pop"}
    BY <1>7 DEF dco_yield, Check, Switch, Run, From
  <2>3. TakesPermit(c)' <=> TakesPermit(c)
    <3>1. CASE dco_yield(c)
      <4>1. pc[c] = "yield" /\ status[c] = "Ready_Reset_Reset"
        BY <1>1, <3>1 DEF dco_yield, From
      <4>2. pc'[c] = "check" /\ status'[c] = "Yield_Reset_Reset"
        BY <3>1, <4>1 DEF dco_yield, From, SetStatus, TryYield, Becomes
      <4>3. QED  BY <4>1, <4>2 DEF TakesPermit, NotifyPC
    <3>2. CASE Check(c)
      <4>1. pc[c] = "check" /\ pc'[c] \in {"resume", "push"} /\ status' = status
        BY <3>2 DEF Check, From
      <4>2. status[c] = "Yield_Reset_Reset"
        BY <1>0, <4>1 DEF WakeUp, Unqueued
      <4>3. QED  BY <4>1, <4>2 DEF TakesPermit, NotifyPC, Waiting, YieldStatus
    <3>3. CASE Switch(c)
      <4>1. /\ pc[c] = "sw" /\ pc'[c] = "parked"
            /\ status[c] \in {"Yield_Reset_Reset", "Yield_Break_Reset"}
        BY <1>0, <3>3 DEF Switch, From, Place
      <4>2. status'[c] = IF status[c] = "Yield_Break_Reset" THEN "Ready_Reset_Reset"
                         ELSE "Yield_Set_Reset"
        BY <3>3, <4>1 DEF Switch, SetStatus, TrySw, Becomes
      <4>3. QED  BY <4>1, <4>2 DEF TakesPermit, NotifyPC
    <3>4. CASE Run(c)
      <4>1. pc[c] = "parked" /\ pc'[c] = "dec" /\ status[c] = "Ready_Reset_Reset"
        BY <3>4 DEF Run, From
      <4>2. QED  BY <4>1 DEF TakesPermit
    <3>5. QED  BY <1>7, <3>1, <3>2, <3>3, <3>4
  <2>4. N(on'[c] = s /\ TakesPermit(c)') = N(on[c] = s /\ TakesPermit(c))
        /\ N(on[c] = s /\ TakesPermit(c)) \in Nat
    BY <2>1, <2>3 DEF N
  <2>5. /\ Cardinality(Queued(s))' = Cardinality(Queued(s))
        /\ Cardinality(QueueLookers(s))' = Cardinality(QueueLookers(s))
    BY <1>4, <1>5, <2>1, <2>2 DEF N
  <2>6. Cardinality(PermitTakers(s))' = Cardinality(PermitTakers(s))
    BY <1>4, <1>5, <2>1, <2>4
  <2>7. QED  BY <1>0, <2>1, <2>5, <2>6 DEF SeenAt
<1>8. CASE Push(c)
  <2>1. /\ pc[c] = "push" /\ pc'[c] = "recheck" /\ on' = on /\ sem_' = sem_ /\ on[c] \in Sem
        /\ status'[c] = "Yield_Reset_Reset" /\ status[c] = "Yield_Reset_Reset" /\ ~Coming(c)
    BY <1>0, <1>1, <1>8 DEF Push, From, WakeUp, Unqueued, UserPC
  <2>2. ctx_que_[s][c] = 0
    BY <2>1 DEF Coming, IsQueued
  <2>3. /\ ctx_que_'[s][c] = N(on[c] = s)
        /\ \A d \in Ctx : d # c => ctx_que_'[s][d] = ctx_que_[s][d]
    BY <1>8, <2>1, <2>2 DEF Push, N
  <2>4. ~TakesPermit(c) /\ ~TakesPermit(c)'
    BY <2>1 DEF TakesPermit, NotifyPC
  <2>5. /\ Cardinality(Queued(s))' = Cardinality(Queued(s)) + N(on[c] = s)
        /\ Cardinality(QueueLookers(s))' = Cardinality(QueueLookers(s)) + N(on[c] = s)
        /\ Cardinality(PermitTakers(s))' = Cardinality(PermitTakers(s))
    BY <1>4, <1>5, <2>1, <2>2, <2>3, <2>4 DEF N
  <2>6. N(on[c] = s) \in Nat
    BY DEF N
  <2>7. QED  BY <1>0, <1>4, <2>1, <2>5, <2>6 DEF SeenAt
<1>9. CASE Recheck(c)
  <2>1. /\ pc[c] = "recheck" /\ on' = on /\ sem_' = sem_ /\ ctx_que_' = ctx_que_
        /\ status' = status
        /\ pc'[c] = IF sem_[on[c]] > 0 THEN "pop" ELSE "sw"
    BY <1>9 DEF Recheck, From
  <2>2. Waiting(c)
    BY <1>0, <2>1 DEF Place, Waiting, YieldStatus
  <2>3. TakesPermit(c)' <=> TakesPermit(c)
    BY <2>1, <2>2 DEF TakesPermit, Waiting
  <2>4. N(on'[c] = s /\ TakesPermit(c)') = N(on[c] = s /\ TakesPermit(c))
        /\ N(on[c] = s /\ TakesPermit(c)) \in Nat
    BY <2>1, <2>3 DEF N
  <2>5. /\ Cardinality(PermitTakers(s))' = Cardinality(PermitTakers(s))
        /\ Cardinality(Queued(s))' = Cardinality(Queued(s))
    BY <1>4, <1>5, <2>1, <2>4 DEF N
  <2>6. CASE on[c] = s /\ ~(sem_[s] > 0)
    BY <1>4, <2>1, <2>5, <2>6 DEF SeenAt
  <2>7. CASE ~(on[c] = s /\ ~(sem_[s] > 0))
    <3>1. Cardinality(QueueLookers(s))' = Cardinality(QueueLookers(s))
      BY <1>4, <1>5, <2>1, <2>7 DEF N
    <3>2. QED  BY <1>0, <2>1, <2>5, <3>1 DEF SeenAt
  <2>8. QED  BY <2>6, <2>7
<1>10. CASE Inc(c)
  <2>1. /\ pc[c] = "inc" /\ pc'[c] = "pop" /\ on' = on /\ ctx_que_' = ctx_que_
        /\ status' = status /\ status[c] = "Ready_Reset_Reset" /\ on[c] \in Sem
        /\ sem_' = [sem_ EXCEPT ![on[c]] = @ + 1]
    BY <1>1, <1>10 DEF Inc, From, UserPC
  <2>2. ~TakesPermit(c) /\ TakesPermit(c)'
    BY <2>1 DEF TakesPermit, NotifyPC, Waiting, YieldStatus
  <2>3. sem_'[s] = sem_[s] + N(on[c] = s) /\ N(on[c] = s) \in Nat
    BY <1>4, <2>1 DEF N
  <2>4. /\ Cardinality(Queued(s))' = Cardinality(Queued(s))
        /\ Cardinality(QueueLookers(s))' = Cardinality(QueueLookers(s)) + N(on[c] = s)
        /\ Cardinality(PermitTakers(s))' = Cardinality(PermitTakers(s)) + N(on[c] = s)
    BY <1>4, <1>5, <2>1, <2>2 DEF N
  <2>5. QED  BY <1>0, <1>4, <2>3, <2>4 DEF SeenAt
<1>11. ASSUME NEW d \in Ctx, Pop(c, d) PROVE SeenAt(s)'
  <2>1. /\ pc[c] = "pop" /\ pc'[c] = "resume" /\ UNCHANGED <<sem_, status, on>>
        /\ on[c] \in Sem /\ ctx_que_[on[c]][d] > 0
    BY <1>1, <1>11 DEF Pop, From, UserPC
  <2>2. WakeUp(d)
    BY DEF WakeInv
  <2>3. ctx_que_[on[c]][d] = 1
    BY <2>1, <2>2 DEF WakeUp
  <2>4. \A e \in Ctx : ctx_que_'[s][e] = IF on[c] = s /\ e = d THEN 0 ELSE ctx_que_[s][e]
    BY <1>11, <2>1, <2>3 DEF Pop
  <2>5. TakesPermit(c)' <=> TakesPermit(c)
    BY <2>1 DEF TakesPermit, Waiting, NotifyPC
  \* As if d had left the queue, and then c had moved.
  <2>6. PICK Q : Q = Queued(s)
    OBVIOUS
  <2>7. PICK Q1 : Q1 = {e \in Ctx : ctx_que_'[s][e] > 0}
    OBVIOUS
  <2>8. Q1 = Queued(s)'
    BY <2>7 DEF Queued
  <2>9. /\ \A e : e # d => (e \in Q <=> e \in Q1)
        /\ on[c] = s => d \in Q /\ d \notin Q1
        /\ on[c] # s => (d \in Q <=> d \in Q1)
    BY <2>1, <2>4, <2>6, <2>7 DEF Queued
  <2>10. /\ Cardinality(Q1) \in Nat
         /\ Cardinality(Q1) = Cardinality(Q) + N(d \in Q1) - N(d \in Q)
    <3>1. IsFiniteSet(Q)
      BY <2>6, SeenSets
    <3>2. \A e : e # d => (e \in Q <=> e \in Q1)
      BY <2>9
    <3>3. QED  BY <3>1, <3>2, CountOne
  <2>11. Cardinality(Q1) = Cardinality(Q) - N(on[c] = s) /\ N(on[c] = s) \in Nat
    BY <1>4, <2>6, <2>9, <2>10 DEF N
  <2>12. PICK L : L = QueueLookers(s)
    OBVIOUS
  <2>13. PICK L1 : L1 = {e \in Ctx : on'[e] = s /\ pc'[e] \in {"recheck", "pop"}}
    OBVIOUS
  <2>14. L1 = QueueLookers(s)'
    BY <2>13 DEF QueueLookers
  <2>15. /\ \A e : e # c => (e \in L <=> e \in L1)
         /\ c \notin L1 /\ (c \in L <=> on[c] = s)
    BY <1>2, <2>1, <2>12, <2>13 DEF QueueLookers
  <2>16. /\ Cardinality(L1) \in Nat
         /\ Cardinality(L1) = Cardinality(L) + N(c \in L1) - N(c \in L)
    <3>1. IsFiniteSet(L)
      BY <2>12, SeenSets
    <3>2. \A e : e # c => (e \in L <=> e \in L1)
      BY <2>15
    <3>3. QED  BY <3>1, <3>2, CountOne
  <2>17. Cardinality(L1) = Cardinality(L) - N(on[c] = s)
    BY <1>4, <2>12, <2>15, <2>16 DEF N
  <2>18. PermitTakers(s)' = PermitTakers(s)
    <3>1. \A e \in Ctx : on'[e] = on[e] /\ (TakesPermit(e)' <=> TakesPermit(e))
      BY <1>2, <2>1, <2>5 DEF TakesPermit, Waiting
    <3>2. QED  BY <3>1 DEF PermitTakers
  <2>19. QED
    BY <1>0, <1>4, <2>1, <2>6, <2>8, <2>10, <2>11, <2>12, <2>14, <2>16, <2>17, <2>18 DEF SeenAt
<1>12. CASE PopNothing(c)
  <2>1. /\ pc[c] = "pop" /\ UNCHANGED <<sem_, ctx_que_, status>> /\ on[c] \in Sem
        /\ \A d \in Ctx : ctx_que_[on[c]][d] = 0
    BY <1>1, <1>12 DEF PopNothing, UserPC
  <2>2. CASE on[c] = s
    <3>1. Queued(s)' = {}
      BY <2>1, <2>2 DEF Queued
    <3>2. Cardinality(Queued(s))' = 0
      BY <3>1, FS_EmptySet
    <3>3. QED  BY <1>5, <2>1, <3>2 DEF SeenAt
  <2>3. CASE on[c] # s
    <3>1. on'[c] = on[c] \/ (pc'[c] \in UserPC /\ status[c] = "Ready_Reset_Reset")
      <4>1. Waiting(c) \/ status[c] = "Ready_Reset_Reset"
        BY <1>0, <2>1 DEF Place, NotifyPC, Waiting, YieldStatus
      <4>2. ret[c] \in UserPC
        BY <1>1, <2>1 DEF UserPC
      <4>3. QED  BY <1>12, <4>1, <4>2 DEF PopNothing, NotifyDone, Return
    <3>2. ~(on'[c] = s /\ pc'[c] \in {"recheck", "pop"}) /\ ~(on'[c] = s /\ TakesPermit(c)')
      BY <2>1, <2>3, <3>1 DEF TakesPermit, NotifyPC, UserPC
    <3>3. /\ Cardinality(Queued(s))' = Cardinality(Queued(s))
          /\ Cardinality(QueueLookers(s))' = Cardinality(QueueLookers(s))
          /\ Cardinality(PermitTakers(s))' = Cardinality(PermitTakers(s))
      BY <1>4, <1>5, <2>1, <2>3, <3>2 DEF N
    <3>4. QED  BY <1>0, <2>1, <3>3 DEF SeenAt
  <2>4. QED  BY <2>2, <2>3
<1>13. QED
  BY <1>6, <1>7, <1>8, <1>9, <1>10, <1>11, <1>12 DEF SemCall, SemStep

\* dco_resume: a notifier that is done passes its place on to the one it has
\* resumed; a waiter keeps its own.
LEMMA SeenResume ==
  ASSUME TypeOK, TypeOK', Places, WakeInv, Seen, NEW c \in Ctx, Resume(c)
  PROVE  Seen'
<1> USE DEF TypeOK, SemTypeOK
<1> SUFFICES ASSUME NEW s \in Sem PROVE SeenAt(s)'
  BY DEF Seen
<1>1. pc[c] = "resume" /\ on[c] \in Sem /\ ret[c] \in UserPC /\ Place(c)
  BY PlaceType DEF Resume, UserPC, Places
<1>2. PICK d \in Ctx : d = popped[c]
  BY <1>1, PlaceType
<1>3. /\ UNCHANGED <<sem_, ctx_que_>>
      /\ status' = [status EXCEPT ![d] = TryResume(status[d]).to]
  BY <1>2 DEF Resume, SetStatus
<1>4. Unwoken(d) /\ on[d] = on[c] /\ Place(d)
  BY <1>1, <1>2 DEF WakeInv, WakeUp, Coming, Resumes, Places
<1>5. \/ status[d] = "Yield_Reset_Reset" /\ status'[d] = "Yield_Break_Reset"
      \/ status[d] = "Yield_Set_Reset" /\ status'[d] = "Ready_Reset_Reset" /\ pc[d] = "parked"
  BY <1>3, <1>4 DEF Unwoken, TryResume, Becomes, Place, SemPC, WaitPC, NotifyPC
<1>6. \A e \in Ctx : e # c => pc'[e] = pc[e] /\ on'[e] = on[e]
  BY DEF Resume, NotifyDone, Return
<1>7. \A e \in Ctx : e # d => status'[e] = status[e]
  BY <1>3
<1>8. /\ ~TakesPermit(d)
      /\ d # c => TakesPermit(d)'
  BY <1>1, <1>5, <1>6, <1>4 DEF TakesPermit, Waiting, YieldStatus, Unwoken, Place, UserPC
<1>9. SeenAt(s)
  BY DEF Seen
<1>10. Queued(s)' = Queued(s)
  BY <1>3 DEF Queued
<1>11. pc'[c] \in UserPC \cup {"sw"}
  BY <1>1 DEF Resume, NotifyDone, Return
<1>12. QueueLookers(s)' = QueueLookers(s)
  BY <1>1, <1>6, <1>11 DEF QueueLookers, UserPC
<1>13. PICK P : P = PermitTakers(s)
  OBVIOUS
<1>14. PICK P1 : P1 = {e \in Ctx : on'[e] = s /\ TakesPermit(e)'}
  OBVIOUS
<1>15. P1 = PermitTakers(s)'
  BY <1>14 DEF PermitTakers
<1>16. IsFiniteSet(P) /\ IsFiniteSet(P1) /\ Cardinality(P) \in Nat /\ Cardinality(P1) \in Nat
       /\ sem_[s] \in Nat
  BY <1>13, <1>14, SeenSets, RWMaxAssumption, FS_Subset, FS_CardinalityType
<1>17. \A e \in Ctx : e # c /\ e # d => (e \in P <=> e \in P1)
  BY <1>6, <1>7, <1>13, <1>14 DEF PermitTakers, TakesPermit, Waiting
<1>18. d \notin P
  BY <1>8, <1>13 DEF PermitTakers
<1>19. Cardinality(P) <= Cardinality(P1)
  <2>1. CASE Waiting(c)
    <3>1. pc'[c] = "sw" /\ on'[c] = on[c]
      BY <2>1 DEF Resume, NotifyDone
    <3>2. TakesPermit(c) => TakesPermit(c)'
      BY <1>1, <1>7, <1>8, <2>1 DEF TakesPermit, NotifyPC
    <3>3. c \in P => c \in P1
      BY <1>13, <1>14, <3>1, <3>2 DEF PermitTakers
    <3>4. P \subseteq P1
      BY <1>13, <1>17, <1>18, <3>3 DEF PermitTakers
    <3>5. QED  BY <1>16, <3>4, FS_Subset
  <2>2. CASE ~Waiting(c)
    <3>1. status[c] = "Ready_Reset_Reset" /\ pc'[c] \in UserPC
      BY <1>1, <2>2 DEF Place, NotifyPC, Waiting, YieldStatus, Resume, NotifyDone, Return
    <3>2. c # d /\ TakesPermit(c)
      BY <1>1, <1>4, <2>2, <3>1 DEF Unwoken, TakesPermit, NotifyPC
    <3>3. ~TakesPermit(c)'
      BY <1>7, <3>1, <3>2 DEF TakesPermit, UserPC, NotifyPC
    <3>4. /\ c \in P <=> on[c] = s
          /\ c \notin P1
          /\ d \in P1 <=> on[c] = s
      BY <1>4, <1>6, <1>8, <1>13, <1>14, <3>2, <3>3 DEF PermitTakers
    <3>5. PICK S : S = P \ {c}
      OBVIOUS
    <3>6. /\ \A e : e # c => (e \in P <=> e \in S)
          /\ \A e : e # d => (e \in S <=> e \in P1)
      BY <1>13, <1>14, <1>17, <3>4, <3>5 DEF PermitTakers
    <3>7. IsFiniteSet(S)
      BY <1>16, <3>5, FS_Subset
    <3>8. /\ Cardinality(S) \in Nat
          /\ Cardinality(S) = Cardinality(P) + N(c \in S) - N(c \in P)
      BY <1>16, <3>6, CountOne
    <3>9. Cardinality(P1) = Cardinality(S) + N(d \in P1) - N(d \in S)
      BY <3>6, <3>7, CountOne
    <3>10. c \notin S /\ d \notin S
      BY <1>18, <3>5
    <3>11. Cardinality(P1) = Cardinality(P)
      BY <1>16, <3>4, <3>8, <3>9, <3>10 DEF N
    <3>12. QED  BY <1>16, <3>11
  <2>3. QED  BY <2>1, <2>2
<1>20. QED
  BY <1>3, <1>9, <1>10, <1>12, <1>13, <1>15, <1>16, <1>19 DEF SeenAt

------------------------------------------------------------------------------
(* The theorems *)

LEMMA WakeInit == Init => WakeInv /\ Seen
<1> SUFFICES ASSUME Init PROVE WakeInv /\ Seen
  OBVIOUS
<1>1. WakeInv
  BY DEF Init, SemInit, WakeInv, WakeUp, Unqueued, Unwoken, Coming, IsQueued, Resumes
<1>2. ASSUME NEW s \in Sem PROVE SeenAt(s)
  <2>1. Queued(s) = {}
    BY DEF Init, SemInit, Queued
  <2>2. Cardinality(Queued(s)) = 0
    BY <2>1, FS_EmptySet
  <2>3. QED  BY <2>2, SeenSets DEF SeenAt
<1>3. QED  BY <1>1, <1>2 DEF Seen

LEMMA WakeStep == IInv /\ IInv' /\ WakeInv /\ Seen /\ [Next]_vars => WakeInv' /\ Seen'
<1> SUFFICES ASSUME IInv, IInv', WakeInv, Seen, [Next]_vars PROVE WakeInv' /\ Seen'
  OBVIOUS
<1>1. TypeOK /\ TypeOK' /\ Places
  BY DEF IInv
<1>2. ASSUME NEW c \in Ctx, SemCall(c) PROVE WakeInv' /\ Seen'
  BY <1>1, <1>2, WakeSem, SeenSem, SeenResume
<1>3. ASSUME NEW c \in Ctx, UserStep(c) PROVE WakeInv' /\ Seen'
  BY <1>1, <1>3, WakeUser, SeenUser
<1>4. CASE UNCHANGED vars
  <2>1. UNCHANGED <<sem_, ctx_que_, status, pc, on, popped>>
    BY <1>4 DEF vars, semVars
  <2>2. ASSUME NEW c \in Ctx PROVE WakeUp(c)'
    <3>1. WakeUp(c)
      BY DEF WakeInv
    <3>2. \A d \in Ctx : Resumes(d, c)' <=> Resumes(d, c)
      BY <2>1 DEF Resumes
    <3>3. (Unqueued(c)' <=> Unqueued(c)) /\ (Unwoken(c)' <=> Unwoken(c))
          /\ (Coming(c)' <=> Coming(c))
      BY <2>1, <3>2 DEF Unqueued, Unwoken, Coming, IsQueued
    <3>4. QED  BY <2>1, <3>1, <3>2, <3>3 DEF WakeUp
  <2>3. ASSUME NEW s \in Sem PROVE SeenAt(s)'
    <3>1. /\ Queued(s)' = Queued(s) /\ QueueLookers(s)' = QueueLookers(s)
          /\ PermitTakers(s)' = PermitTakers(s)
      BY <2>1 DEF Queued, QueueLookers, PermitTakers, TakesPermit, Waiting
    <3>2. QED  BY <2>1, <3>1 DEF Seen, SeenAt
  <2>4. QED  BY <2>2, <2>3 DEF WakeInv, Seen
<1>5. QED  BY <1>2, <1>3, <1>4 DEF Next, Step, UserStep

LEMMA WakeInvariant == Spec => []((WakeInv /\ Seen) /\ IInv)
<1>1. Init => WakeInv /\ Seen
  BY WakeInit
<1>2. IInv /\ IInv' /\ (WakeInv /\ Seen) /\ [Next]_vars => (WakeInv /\ Seen)'
  BY WakeStep
<1>3. QED  BY <1>1, <1>2, Invariant, PTL DEF Spec

(* A coroutine that waits for a permit has at most one wake-up coming, the     *)
(* wake-up finds it in a state dco_resume accepts, and no coroutine is         *)
(* switched out without one, for any number of coroutines.                     *)
THEOREM WakeUpsMatch == Spec => []OneWakeUp
<1>1. WakeInv /\ IInv => OneWakeUp
  BY OneComing DEF IInv
<1>2. QED  BY <1>1, WakeInvariant, PTL

(* cosemaphore leaves no permit lying while coroutines wait for it, however    *)
(* many there are: for each permit that a queued coroutine could take somebody *)
(* is going to look.                                                           *)
THEOREM PermitsAreSeen == Spec => []PermitsSeen
<1>1. ASSUME Seen, IInv PROVE PermitsSeen
  <2> SUFFICES ASSUME NEW s \in Sem
               PROVE  Cardinality(Looking(s)) < Cardinality(Queued(s))
                        => sem_[s] <= Cardinality(Looking(s))
    BY DEF PermitsSeen
  <2>1. QueueLookers(s) \subseteq Looking(s)
    BY DEF QueueLookers, Looking, WaitPC, NotifyPC
  <2>2. PermitTakers(s) \subseteq Looking(s)
    <3> SUFFICES ASSUME NEW c \in Ctx, on[c] = s, TakesPermit(c) PROVE c \in Looking(s)
      BY DEF PermitTakers
    <3>1. Place(c) /\ pc[c] \in SemPC \cup UserPC
      BY <1>1 DEF IInv, Places, TypeOK, SemTypeOK
    <3>2. status[c] = "Yield_Break_Reset" => pc[c] \in WaitPC \cup NotifyPC \cup {"sw"}
      BY <3>1 DEF Place, SemPC, WaitPC, NotifyPC
    <3>3. QED  BY <3>2 DEF TakesPermit, Looking, WaitPC, NotifyPC
  <2>3. IsFiniteSet(Looking(s)) /\ Cardinality(Looking(s)) \in Nat
    BY RWMaxAssumption, FS_Subset, FS_CardinalityType DEF Looking
  <2>4. /\ Cardinality(QueueLookers(s)) <= Cardinality(Looking(s))
        /\ Cardinality(PermitTakers(s)) <= Cardinality(Looking(s))
    BY <2>1, <2>2, <2>3, FS_Subset
  <2>5. SeenAt(s) /\ sem_[s] \in Nat
    BY <1>1 DEF Seen, IInv, TypeOK, SemTypeOK
  <2>6. QED  BY <2>3, <2>4, <2>5, SeenSets DEF SeenAt
<1>2. QED  BY <1>1, WakeInvariant, PTL
===============================================================================
