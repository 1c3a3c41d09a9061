---------------------------- MODULE CoMutex_proofs ----------------------------
(***************************************************************************)
(* What CoMutex promises, proved for every number of coroutines: it is a   *)
(* lock, every coroutine that waits for it has exactly one wake-up coming, *)
(* and a free lock is never left to itself while somebody is queued.       *)
(***************************************************************************)
EXTENDS CoMutex, TLAPS

------------------------------------------------------------------------------
(* The invariant *)

\* What the status word of c may be at each place in the code.
Phase(c) ==
  /\ pc[c] \in {"out", "try", "yield"} \cup HoldPC => status[c] = "Ready_Reset_Reset"
  /\ pc[c] \in {"check", "push"} => status[c] = "Yield_Reset_Reset"
  /\ pc[c] \in {"recheck", "sw"} => status[c] \in {"Yield_Reset_Reset", "Yield_Break_Reset"}
  /\ pc[c] \in NotifyPC =>
       status[c] \in {"Ready_Reset_Reset", "Yield_Reset_Reset", "Yield_Break_Reset"}
  /\ pc[c] = "parked" => status[c] \in {"Yield_Set_Reset", "Ready_Reset_Reset"}
  /\ pc[c] = "resume" => popped[c] \in Ctx

PhaseInv == \A c \in Ctx : Phase(c)

\* The flag is up exactly when a coroutine, and only one, holds the lock.
HoldInv ==
  /\ \A c, d \in Ctx : Holding(c) /\ Holding(d) => c = d
  /\ flag_ <=> \E c \in Ctx : Holding(c)
  /\ \A c \in Ctx : pc[c] \in {"critical", "release"} => ctx_curr_ = c

\* d has popped c and will resume it.
Resumes(d, c) == pc[d] = "resume" /\ popped[d] = c

\* The wake-ups of c.  It has one exactly while it waits to be resumed.
Unwoken(c) == status[c] \in {"Yield_Reset_Reset", "Yield_Set_Reset"}

WakeUp(c) ==
  /\ ctx_que_[c] \in {0, 1}
  /\ ctx_que_[c] = 1 => \A d \in Ctx : ~Resumes(d, c)
  /\ \A d, e \in Ctx : Resumes(d, c) /\ Resumes(e, c) => d = e
  /\ ctx_que_[c] = 1 \/ (\E d \in Ctx : Resumes(d, c)) <=>
       Unwoken(c) /\ pc[c] \notin {"check", "push"}

WakeInv == \A c \in Ctx : WakeUp(c)

------------------------------------------------------------------------------
(* Each action preserves it *)

\* The types.
LEMMA TypePreserved ==
  ASSUME TypeOK, PhaseInv, [Next]_vars
  PROVE  TypeOK'
<1> USE DEF TypeOK, PC, HoldPC, WaitPC, NotifyPC, Status, YieldStatus, SleepStatus
<1>1. ASSUME NEW c \in Ctx, Lock(c) PROVE TypeOK'
  BY <1>1 DEF Lock, From
<1>2. ASSUME NEW c \in Ctx, Step(c) PROVE TypeOK'
  <2>1. CASE TryLock(c)
    BY <2>1 DEF TryLock, From
  <2>2. CASE Own(c)
    BY <2>2 DEF Own, From
  <2>3. CASE dco_yield(c)
    BY <2>3 DEF dco_yield, From, SetStatus, TryYield, Becomes, Fails
  <2>4. CASE Check(c)
    BY <2>4 DEF Check, From
  <2>5. CASE Push(c)
    BY <2>5 DEF Push, From
  <2>6. CASE Recheck(c)
    BY <2>6 DEF Recheck, From
  <2>7. CASE Switch(c)
    BY <2>7 DEF Switch, From, SetStatus, TrySw, Becomes, Fails
  <2>8. CASE Run(c)
    BY <2>8 DEF Run, From
  <2>9. CASE Unlock(c)
    BY <2>9 DEF Unlock, From
  <2>10. CASE Release(c)
    BY <2>10 DEF Release, From
  <2>11. ASSUME NEW d \in Ctx, Pop(c, d) PROVE TypeOK'
    BY <2>11 DEF Pop, From
  <2>12. CASE PopNothing(c)
    BY <2>12 DEF PopNothing, From, AfterNotify, Waiting
  <2>13. CASE Resume(c)
    <3>1. popped[c] \in Ctx
      BY <2>13 DEF Resume, From, PhaseInv, Phase
    <3> QED BY <2>13, <3>1 DEF Resume, From, AfterNotify, SetStatus, TryResume,
        Becomes, Fails
  <2> QED BY <1>2, <2>1, <2>2, <2>3, <2>4, <2>5, <2>6, <2>7, <2>8, <2>9, <2>10, <2>11,
      <2>12, <2>13 DEF Step
<1>3. CASE UNCHANGED vars
  BY <1>3 DEF vars
<1> QED BY <1>1, <1>2, <1>3 DEF Next

\* The status word of a coroutine and its place in the code.
LEMMA PhasePreserved ==
  ASSUME TypeOK, PhaseInv, WakeInv, [Next]_vars
  PROVE  PhaseInv'
<1> USE DEF TypeOK, PhaseInv, Phase, PC, HoldPC, WaitPC, NotifyPC, Status,
    YieldStatus, SleepStatus
<1>1. ASSUME NEW c \in Ctx, Lock(c) PROVE PhaseInv'
  BY <1>1 DEF Lock, From
<1>2. ASSUME NEW c \in Ctx, Step(c) PROVE PhaseInv'
  <2>1. CASE TryLock(c)
    BY <2>1 DEF TryLock, From
  <2>2. CASE Own(c)
    BY <2>2 DEF Own, From
  <2>3. CASE dco_yield(c)
    BY <2>3 DEF dco_yield, From, SetStatus, TryYield, Becomes, Fails
  <2>4. CASE Check(c)
    BY <2>4 DEF Check, From
  <2>5. CASE Push(c)
    BY <2>5 DEF Push, From
  <2>6. CASE Recheck(c)
    BY <2>6 DEF Recheck, From
  <2>7. CASE Switch(c)
    BY <2>7 DEF Switch, From, SetStatus, TrySw, Becomes, Fails
  <2>8. CASE Run(c)
    BY <2>8 DEF Run, From
  <2>9. CASE Unlock(c)
    BY <2>9 DEF Unlock, From
  <2>10. CASE Release(c)
    BY <2>10 DEF Release, From
  <2>11. ASSUME NEW d \in Ctx, Pop(c, d) PROVE PhaseInv'
    BY <2>11 DEF Pop, From
  <2>12. CASE PopNothing(c)
    BY <2>12 DEF PopNothing, From, AfterNotify, Waiting
  <2>13. CASE Resume(c)
    <3>1. popped[c] \in Ctx /\ Unwoken(popped[c]) /\ pc[popped[c]] \notin {"check",
        "push"}
      BY <2>13 DEF Resume, From, WakeInv, WakeUp, Resumes
    <3>2. CASE popped[c] = c
      BY <2>13, <3>1, <3>2 DEF Resume, From, AfterNotify, Waiting, SetStatus,
          TryResume, Becomes,
        Unwoken
    <3>3. CASE popped[c] # c
      BY <2>13, <3>1, <3>3 DEF Resume, From, AfterNotify, Waiting, SetStatus,
          TryResume, Becomes,
        Unwoken
    <3> QED BY <3>2, <3>3
  <2> QED BY <1>2, <2>1, <2>2, <2>3, <2>4, <2>5, <2>6, <2>7, <2>8, <2>9, <2>10, <2>11,
      <2>12, <2>13 DEF Step
<1>3. CASE UNCHANGED vars
  BY <1>3 DEF vars
<1> QED BY <1>1, <1>2, <1>3 DEF Next

\* The flag and the holder.
LEMMA HoldPreserved ==
  ASSUME TypeOK, HoldInv, [Next]_vars
  PROVE  HoldInv'
<1> USE DEF TypeOK, HoldInv, Holding, HoldPC
<1>1. ASSUME NEW c \in Ctx, Lock(c) PROVE HoldInv'
  BY <1>1 DEF Lock, From
<1>2. ASSUME NEW c \in Ctx, Step(c) PROVE HoldInv'
  <2>1. CASE TryLock(c)
    BY <2>1 DEF TryLock, From
  <2>2. CASE Own(c)
    BY <2>2 DEF Own, From
  <2>3. CASE dco_yield(c)
    BY <2>3 DEF dco_yield, From, SetStatus, TryYield, Becomes, Fails
  <2>4. CASE Check(c)
    BY <2>4 DEF Check, From
  <2>5. CASE Push(c)
    BY <2>5 DEF Push, From
  <2>6. CASE Recheck(c)
    BY <2>6 DEF Recheck, From
  <2>7. CASE Switch(c)
    BY <2>7 DEF Switch, From, SetStatus, TrySw, Becomes, Fails
  <2>8. CASE Run(c)
    BY <2>8 DEF Run, From
  <2>9. CASE Unlock(c)
    BY <2>9 DEF Unlock, From
  <2>10. CASE Release(c)
    BY <2>10 DEF Release, From
  <2>11. ASSUME NEW d \in Ctx, Pop(c, d) PROVE HoldInv'
    BY <2>11 DEF Pop, From
  <2>12. CASE PopNothing(c)
    BY <2>12 DEF PopNothing, From, AfterNotify, Waiting
  <2>13. CASE Resume(c)
    BY <2>13 DEF Resume, From, AfterNotify, Waiting, SetStatus, TryResume, Becomes,
        Fails
  <2> QED BY <1>2, <2>1, <2>2, <2>3, <2>4, <2>5, <2>6, <2>7, <2>8, <2>9, <2>10, <2>11,
      <2>12, <2>13 DEF Step
<1>3. CASE UNCHANGED vars
  BY <1>3 DEF vars
<1> QED BY <1>1, <1>2, <1>3 DEF Next

\* One wake-up for each coroutine that waits.
LEMMA WakePreserved ==
  ASSUME TypeOK, PhaseInv, WakeInv, [Next]_vars
  PROVE  WakeInv'
<1> USE DEF TypeOK, WakeInv, WakeUp, Resumes, Unwoken, PhaseInv, Phase, HoldPC, NotifyPC
<1>1. ASSUME NEW c \in Ctx, Lock(c) PROVE WakeInv'
  BY <1>1 DEF Lock, From
<1>2. ASSUME NEW c \in Ctx, Step(c) PROVE WakeInv'
  <2>1. CASE TryLock(c)
    BY <2>1 DEF TryLock, From
  <2>2. CASE Own(c)
    BY <2>2 DEF Own, From
  <2>3. CASE dco_yield(c)
    BY <2>3 DEF dco_yield, From, SetStatus, TryYield, Becomes, Fails
  <2>4. CASE Check(c)
    BY <2>4 DEF Check, From
  <2>5. CASE Push(c)
    BY <2>5 DEF Push, From
  <2>6. CASE Recheck(c)
    BY <2>6 DEF Recheck, From
  <2>7. CASE Switch(c)
    BY <2>7 DEF Switch, From, SetStatus, TrySw, Becomes, Fails
  <2>8. CASE Run(c)
    BY <2>8 DEF Run, From
  <2>9. CASE Unlock(c)
    BY <2>9 DEF Unlock, From
  <2>10. CASE Release(c)
    BY <2>10 DEF Release, From
  <2>11. ASSUME NEW d \in Ctx, Pop(c, d) PROVE WakeInv'
    BY <2>11 DEF Pop, From
  <2>12. CASE PopNothing(c)
    BY <2>12 DEF PopNothing, From, AfterNotify, Waiting
  <2>13. CASE Resume(c)
    BY <2>13 DEF Resume, From, AfterNotify, Waiting, SetStatus, TryResume, Becomes,
        Fails
  <2> QED BY <1>2, <2>1, <2>2, <2>3, <2>4, <2>5, <2>6, <2>7, <2>8, <2>9, <2>10, <2>11,
      <2>12, <2>13 DEF Step
<1>3. CASE UNCHANGED vars
  BY <1>3 DEF vars
<1> QED BY <1>1, <1>2, <1>3 DEF Next

\* A free lock is looked at.
LEMMA LookPreserved ==
  ASSUME TypeOK, PhaseInv, HoldInv, WakeInv, FreeLockSeen, [Next]_vars
  PROVE  FreeLockSeen'
<1> USE DEF TypeOK, FreeLockSeen, WillLook, PC, HoldPC, WaitPC, NotifyPC
<1>1. ASSUME NEW c \in Ctx, Lock(c) PROVE FreeLockSeen'
  BY <1>1 DEF Lock, From
<1>2. ASSUME NEW c \in Ctx, Step(c) PROVE FreeLockSeen'
  <2>1. CASE TryLock(c)
    BY <2>1 DEF TryLock, From
  <2>2. CASE Own(c)
    BY <2>2 DEF Own, From
  <2>3. CASE dco_yield(c)
    BY <2>3 DEF dco_yield, From, SetStatus, TryYield, Becomes, Fails
  <2>4. CASE Check(c)
    BY <2>4 DEF Check, From
  <2>5. CASE Push(c)
    BY <2>5 DEF Push, From
  <2>6. CASE Recheck(c)
    BY <2>6 DEF Recheck, From
  <2>7. CASE Switch(c)
    BY <2>7 DEF Switch, From, SetStatus, TrySw, Becomes, Fails
  <2>8. CASE Run(c)
    BY <2>8 DEF Run, From
  <2>9. CASE Unlock(c)
    BY <2>9 DEF Unlock, From
  <2>10. CASE Release(c)
    BY <2>10 DEF Release, From
  <2>11. ASSUME NEW d \in Ctx, Pop(c, d) PROVE FreeLockSeen'
    BY <2>11 DEF Pop, From
  <2>12. CASE PopNothing(c)
    BY <2>12 DEF PopNothing, From, AfterNotify, Waiting
  <2>13. CASE Resume(c)
    <3> DEFINE d == popped[c]
    <3>1. d \in Ctx /\ Unwoken(d) /\ pc[d] \notin {"check", "push"}
      BY <2>13 DEF Resume, From, WakeInv, WakeUp, Resumes, PhaseInv, Phase
    <3>2. pc[d] \in {"recheck", "sw", "pop", "resume", "parked"}
      BY <3>1 DEF PhaseInv, Phase, Unwoken
    <3>3. status'[d] = IF status[d] = "Yield_Set_Reset" THEN "Ready_Reset_Reset"
                       ELSE "Yield_Break_Reset"
      BY <2>13, <3>1 DEF Resume, SetStatus, TryResume, Becomes, Unwoken
    <3>4. CASE d = c
      BY <2>13, <3>1, <3>2, <3>3, <3>4
      DEF Resume, From, AfterNotify, Waiting, Unwoken, YieldStatus, PhaseInv, Phase
    <3>5. CASE d # c
      BY <2>13, <3>1, <3>2, <3>3, <3>5 DEF Resume, From, Unwoken, PhaseInv, Phase
    <3> QED BY <3>4, <3>5
  <2> QED BY <1>2, <2>1, <2>2, <2>3, <2>4, <2>5, <2>6, <2>7, <2>8, <2>9, <2>10, <2>11,
      <2>12, <2>13 DEF Step
<1>3. CASE UNCHANGED vars
  BY <1>3 DEF vars
<1> QED BY <1>1, <1>2, <1>3 DEF Next

------------------------------------------------------------------------------
(* The theorems *)

MutexInv == TypeOK /\ PhaseInv /\ HoldInv /\ WakeInv /\ FreeLockSeen

LEMMA InitInv == Init => MutexInv
<1> SUFFICES ASSUME Init PROVE MutexInv
  OBVIOUS
<1> USE DEF Init
<1>1. TypeOK
  BY DEF TypeOK, PC, Status
<1>2. PhaseInv
  BY DEF PhaseInv, Phase, HoldPC, NotifyPC
<1>3. HoldInv
  BY DEF HoldInv, Holding, HoldPC
<1>4. WakeInv
  BY DEF WakeInv, WakeUp, Resumes, Unwoken
<1>5. FreeLockSeen
  BY DEF FreeLockSeen
<1> QED BY <1>1, <1>2, <1>3, <1>4, <1>5 DEF MutexInv

LEMMA StepInv == MutexInv /\ [Next]_vars => MutexInv'
BY TypePreserved, PhasePreserved, HoldPreserved, WakePreserved, LookPreserved
DEF MutexInv

\* Types, places in the code, the holder and the wake-ups together are an
\* inductive invariant of the mutex.
THEOREM Invariance == Spec => []MutexInv
BY InitInv, StepInv, PTL DEF Spec

\* Every variable of comutex and of the coroutines that use it keeps its type.
THEOREM TypeCorrect == Spec => []TypeOK
<1>1. MutexInv => TypeOK
  BY DEF MutexInv
<1> QED BY Invariance, <1>1, PTL

\* unlock() never refuses the coroutine that holds the lock.
THEOREM UnlockAccepted == Spec => []OwnerKnown
<1>1. MutexInv => OwnerKnown
  BY DEF MutexInv, HoldInv, OwnerKnown, Holding, HoldPC
<1> QED BY Invariance, <1>1, PTL

\* Every coroutine that waits has exactly one wake-up coming, and no wake-up
\* finds its coroutine gone.
THEOREM WakeUpsMatch == Spec => []OneWakeUp
<1>1. MutexInv => OneWakeUp
  <2> SUFFICES ASSUME MutexInv, NEW c \in Ctx
               PROVE  /\ ctx_que_[c] <= 1
                      /\ ctx_que_[c] = 1 => Resumers(c) = {}
                      /\ \A d, e \in Resumers(c) : d = e
                      /\ ctx_que_[c] = 1 \/ Resumers(c) # {} => TryResume(status[c]).res >= 0
                      /\ pc[c] = "parked" /\ status[c] # "Ready_Reset_Reset" =>
                           ctx_que_[c] = 1 \/ Resumers(c) # {}
    BY DEF OneWakeUp
  <2>1. WakeUp(c) /\ Phase(c)
    BY DEF MutexInv, WakeInv, PhaseInv
  <2>2. Resumers(c) = {d \in Ctx : Resumes(d, c)}
    BY DEF Resumers, Resumes
  <2>3. Unwoken(c) => TryResume(status[c]).res >= 0
    BY DEF Unwoken, TryResume, Becomes, Fails
  <2>4. pc[c] = "parked" /\ status[c] # "Ready_Reset_Reset" => Unwoken(c)
    BY <2>1 DEF Phase, Unwoken
  <2> QED BY <2>1, <2>2, <2>3, <2>4 DEF WakeUp
<1> QED BY Invariance, <1>1, PTL

\* A free lock is never left to itself while somebody is queued.
THEOREM FreeLockIsSeen == Spec => []FreeLockSeen
<1>1. MutexInv => FreeLockSeen
  BY DEF MutexInv
<1> QED BY Invariance, <1>1, PTL

------------------------------------------------------------------------------
(* Refinement of CoLock *)

\* Owner is whoever holds the lock.
LEMMA OwnerHolds ==
  ASSUME HoldInv
  PROVE  /\ \A c \in Ctx : Holding(c) => Owner = c
         /\ (\A c \in Ctx : ~Holding(c)) => Owner = None
<1>1. ASSUME NEW c \in Ctx, Holding(c) PROVE Owner = c
  <2>1. Owner \in Ctx /\ Holding(Owner)
    BY <1>1 DEF Owner
  <2> QED BY <1>1, <2>1 DEF HoldInv
<1>2. (\A c \in Ctx : ~Holding(c)) => Owner = None
  BY DEF Owner
<1> QED BY <1>1, <1>2

\* And so it is after a step.
LEMMA OwnerHoldsNext ==
  ASSUME HoldInv'
  PROVE  /\ \A c \in Ctx : Holding(c)' => Owner' = c
         /\ (\A c \in Ctx : ~Holding(c)') => Owner' = None
<1>1. ASSUME NEW c \in Ctx, Holding(c)' PROVE Owner' = c
  <2>1. Owner' \in Ctx /\ pc'[Owner'] \in HoldPC
    BY <1>1 DEF Owner, Holding
  <2> QED BY <1>1, <2>1 DEF HoldInv, Holding
<1>2. (\A c \in Ctx : ~Holding(c)') => Owner' = None
  BY DEF Owner
<1> QED BY <1>1, <1>2

\* A coroutine that does not hold the lock is not its owner.
LEMMA NotOwner ==
  ASSUME HoldInv, NEW c \in Ctx, ~Holding(c)
  PROVE  c # Owner
<1>1. CASE \E d \in Ctx : Holding(d)
  BY <1>1, OwnerHolds
<1>2. CASE \A d \in Ctx : ~Holding(d)
  BY <1>2, OwnerHolds, NoneAssumption
<1> QED BY <1>1, <1>2

\* The owner is the same while the same coroutines hold the lock.
LEMMA SameOwner ==
  ASSUME HoldInv, HoldInv', \A c \in Ctx : Holding(c)' <=> Holding(c)
  PROVE  Owner' = Owner
<1>1. CASE \E c \in Ctx : Holding(c)
  <2>1. PICK c \in Ctx : Holding(c)
    BY <1>1
  <2>2. Owner = c
    BY <2>1, OwnerHolds
  <2>3. Owner' = c
    BY <2>1, OwnerHoldsNext
  <2> QED BY <2>2, <2>3
<1>2. CASE \A c \in Ctx : ~Holding(c)
  BY <1>2, OwnerHolds, OwnerHoldsNext
<1> QED BY <1>1, <1>2

\* Every step of comutex is a step of the lock or changes nothing of it.
LEMMA StepRefines ==
  ASSUME MutexInv, MutexInv', [Next]_vars
  PROVE  [Mutex!Next]_(Mutex!vars)
<1> DEFINE Askers == {d \in Ctx : Asking(d)}
<1>1. TypeOK /\ PhaseInv /\ HoldInv /\ WakeInv /\ HoldInv'
  BY DEF MutexInv
<1>2. ASSUME NEW c \in Ctx, Lock(c) PROVE Mutex!Request(c)
  <2>1. /\ \A d \in Ctx : Holding(d)' <=> Holding(d)
        /\ \A d \in Ctx : Asking(d)' <=> Asking(d) \/ d = c
        /\ ~Holding(c) /\ ~Asking(c)
    BY <1>1, <1>2 DEF TypeOK, Lock, From, Holding, HoldPC, Asking, WaitPC, NotifyPC, Waiting
  <2>2. Owner' = Owner /\ c # Owner
    BY <1>1, <2>1, SameOwner, NotOwner
  <2>3. Askers' = Askers \cup {c} /\ c \notin Askers
    BY <2>1
  <2> QED BY <2>2, <2>3 DEF Mutex!Request
<1>3. ASSUME NEW c \in Ctx, TryLock(c), ~flag_ PROVE Mutex!Acquire(c)
  <2>1. /\ \A d \in Ctx : ~Holding(d)
        /\ \A d \in Ctx : Asking(d)' <=> Asking(d) /\ d # c
        /\ Holding(c)' /\ Asking(c)
    BY <1>1, <1>3 DEF TypeOK, HoldInv, TryLock, From, Holding, HoldPC, Asking, WaitPC,
      NotifyPC, Waiting
  <2>2. Owner = None /\ Owner' = c
    BY <1>1, <2>1, OwnerHolds, OwnerHoldsNext
  <2>3. Askers' = Askers \ {c} /\ c \in Askers
    BY <2>1
  <2> QED BY <2>2, <2>3 DEF Mutex!Acquire
<1>4. ASSUME NEW c \in Ctx, Release(c) PROVE Mutex!Release(c)
  <2>1. flag_ /\ Holding(c) /\ status[c] = "Ready_Reset_Reset"
    BY <1>1, <1>4 DEF HoldInv, PhaseInv, Phase, Release, From, Holding, HoldPC
  <2>2. /\ \A d \in Ctx : ~Holding(d)'
        /\ \A d \in Ctx : Asking(d)' <=> Asking(d)
    BY <1>1, <1>4, <2>1 DEF TypeOK, HoldInv, Release, From, Holding, HoldPC, Asking, WaitPC,
      NotifyPC, Waiting, YieldStatus
  <2>3. Owner = c /\ Owner' = None
    BY <1>1, <2>1, <2>2, OwnerHolds, OwnerHoldsNext
  <2>4. Askers' = Askers
    BY <2>2
  <2> QED BY <2>3, <2>4 DEF Mutex!Release
<1>5. ASSUME \A d \in Ctx : Holding(d)' <=> Holding(d),
             \A d \in Ctx : Asking(d)' <=> Asking(d)
      PROVE  UNCHANGED Mutex!vars
  <2>1. Owner' = Owner
    BY <1>1, <1>5, SameOwner
  <2>2. Askers' = Askers
    BY <1>5
  <2> QED BY <2>1, <2>2 DEF Mutex!vars
<1> USE DEF TypeOK, Holding, HoldPC, Asking, WaitPC, NotifyPC, Waiting, YieldStatus
<1>6. ASSUME NEW c \in Ctx, Step(c), ~Release(c), ~(TryLock(c) /\ ~flag_)
      PROVE  UNCHANGED Mutex!vars
  <2> USE <1>1, <1>5
  <2>1. CASE TryLock(c)
    BY <1>6, <2>1 DEF TryLock, From
  <2>2. CASE Own(c)
    BY <2>2 DEF Own, From
  <2>3. CASE dco_yield(c)
    BY <2>3 DEF dco_yield, From, SetStatus, TryYield, Becomes, Fails, PhaseInv, Phase
  <2>4. CASE Check(c)
    BY <2>4 DEF Check, From, PhaseInv, Phase
  <2>5. CASE Push(c)
    BY <2>5 DEF Push, From
  <2>6. CASE Recheck(c)
    BY <2>6 DEF Recheck, From, PhaseInv, Phase
  <2>7. CASE Switch(c)
    BY <2>7 DEF Switch, From, SetStatus, TrySw, Becomes, Fails, PhaseInv, Phase
  <2>8. CASE Run(c)
    BY <2>8 DEF Run, From
  <2>9. CASE Unlock(c)
    BY <2>9 DEF Unlock, From, HoldInv
  <2>10. ASSUME NEW d \in Ctx, Pop(c, d) PROVE UNCHANGED Mutex!vars
    BY <2>10 DEF Pop, From
  <2>11. CASE PopNothing(c)
    BY <2>11 DEF PopNothing, From, AfterNotify, PhaseInv, Phase
  <2>12. CASE Resume(c)
    <3>1. /\ popped[c] \in Ctx /\ status[popped[c]] \in YieldStatus
          /\ status'[popped[c]] \in {"Yield_Break_Reset", "Ready_Reset_Reset"}
          /\ status'[popped[c]] = "Ready_Reset_Reset" => pc[popped[c]] = "parked"
      <4>1. popped[c] \in Ctx /\ Unwoken(popped[c])
        BY <2>12 DEF Resume, From, WakeInv, WakeUp, Resumes, PhaseInv, Phase
      <4>2. status' = [status EXCEPT ![popped[c]] = TryResume(status[popped[c]]).to]
        BY <2>12 DEF Resume, SetStatus
      <4>3. CASE status[popped[c]] = "Yield_Reset_Reset"
        BY <4>1, <4>2, <4>3 DEF TryResume, Becomes
      <4>4. CASE status[popped[c]] = "Yield_Set_Reset"
        <5>1. pc[popped[c]] = "parked"
          BY <4>1, <4>4 DEF PhaseInv, Phase, PC
        <5> QED BY <4>1, <4>2, <4>4, <5>1 DEF TryResume, Becomes
      <4> QED BY <4>1, <4>3, <4>4 DEF Unwoken
    <3>2. \A d \in Ctx \ {popped[c]} : status'[d] = status[d]
      BY <2>12 DEF Resume, SetStatus
    <3>3. \A d \in Ctx \ {c} : pc'[d] = pc[d]
      BY <2>12 DEF Resume, From
    <3>4. pc[c] = "resume" /\ pc'[c] = IF status[c] \in YieldStatus THEN "sw" ELSE "out"
      BY <2>12 DEF Resume, From, AfterNotify
    <3> QED BY <3>1, <3>2, <3>3, <3>4
  <2> QED BY <1>6, <2>1, <2>2, <2>3, <2>4, <2>5, <2>6, <2>7, <2>8, <2>9, <2>10, <2>11, <2>12 DEF Step
<1>7. CASE UNCHANGED vars
  BY <1>5, <1>7 DEF vars
<1> QED
  BY <1>2, <1>3, <1>4, <1>6, <1>7 DEF Next, Mutex!Next

\* comutex implements the lock: whoever asked for it gets it from nobody or
\* from an owner that released it.
THEOREM Refinement == Spec => ImplementsLock
<1>1. Init => Mutex!Init
  <2> SUFFICES ASSUME Init PROVE Mutex!Init
    OBVIOUS
  <2>1. \A c \in Ctx : ~Holding(c) /\ ~Asking(c)
    BY DEF Init, Holding, HoldPC, Asking, WaitPC, NotifyPC
  <2>2. Owner = None
    BY <2>1 DEF Owner
  <2>3. {c \in Ctx : Asking(c)} = {}
    BY <2>1
  <2> QED BY <2>2, <2>3 DEF Mutex!Init
<1>2. MutexInv /\ MutexInv' /\ [Next]_vars => [Mutex!Next]_(Mutex!vars)
  BY StepRefines
<1> QED BY <1>1, <1>2, Invariance, PTL DEF Spec, ImplementsLock, Mutex!Spec
===============================================================================
