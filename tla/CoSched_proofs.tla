---------------------------- MODULE CoSched_proofs ----------------------------
EXTENDS CoSched, TLAPS

(***************************************************************************)
(* The inductive invariant.                                                *)
(***************************************************************************)

(* What the other parts rest on: whose hands a context is in decides its     *)
(* status, and only contexts in use have one that means anything.            *)
Hands ==
  /\ \A w \in Worker : pc[w] \in {"remove", "timeout", "pop"} <=> local_ctx_[w] = None
  /\ \A w \in Worker : local_ctx_[w] # None => local_ctx_[w] \in live
  /\ \A t \in Thread : adding[t] # None =>
       adding[t] \in live /\ status[adding[t]] = "Ready_Reset_Reset"
  /\ \A t \in Thread : handing[t] # None => status[handing[t]] = "Sleep_Set_Remove"
  /\ \A c \in Ctx : status[c] \in SleepStatus => tid_[c] \in Worker

IInv ==
  /\ TypeOK
  /\ Hands
  /\ OneOwner
  /\ AssertsHold
  /\ TimersBelong
  /\ IdleIsReset

(***************************************************************************)
(* What each compare-and-swap can do, case by case.                        *)
(***************************************************************************)
LEMMA TryResumeCases ==
  ASSUME NEW s \in Status, NEW r, r = TryResume(s)
  PROVE  \/ s = "Yield_Set_Reset" /\ r.to = "Ready_Reset_Reset" /\ r.res = 0
         \/ s = "Yield_Reset_Reset" /\ r.to = "Yield_Break_Reset" /\ r.res = 1
         \/ s = "Sleep_Reset_Reset" /\ r.to = "Sleep_Break_Reset" /\ r.res = 2
         \/ s = "Sleep_Set_Reset" /\ r.to = "Sleep_Set_Break" /\ r.res = 3
         \/ s = "Sleep_Set_Set" /\ r.to = "Sleep_Set_Remove" /\ r.res = 4
         \/ r.to = s /\ r.res = -1
  BY DEF TryResume, Becomes, Fails

LEMMA TrySwCases ==
  ASSUME NEW s \in Status, NEW r, r = TrySw(s)
  PROVE  \/ s = "Yield_Reset_Reset" /\ r.to = "Yield_Set_Reset" /\ r.res = 1
         \/ s = "Yield_Break_Reset" /\ r.to = "Ready_Reset_Reset" /\ r.res = 0
         \/ s = "Sleep_Reset_Reset" /\ r.to = "Sleep_Set_Reset" /\ r.res = 2
         \/ s = "Sleep_Break_Reset" /\ r.to = "Ready_Reset_Reset" /\ r.res = 0
         \/ /\ s \notin {"Yield_Reset_Reset", "Yield_Break_Reset",
                         "Sleep_Reset_Reset", "Sleep_Break_Reset"}
            /\ r.to = s /\ r.res = -1
  BY DEF TrySw, Becomes, Fails

LEMMA TrySleepAddCases ==
  ASSUME NEW s \in Status, NEW r, r = TrySleepAdd(s)
  PROVE  \/ s = "Sleep_Set_Reset" /\ r.to = "Sleep_Set_Set" /\ r.res = 1
         \/ s = "Sleep_Set_Break" /\ r.to = "Ready_Reset_Reset" /\ r.res = 0
         \/ /\ s \notin {"Sleep_Set_Reset", "Sleep_Set_Break"}
            /\ r.to = s /\ r.res = -1
  BY DEF TrySleepAdd, Becomes, Fails

(***************************************************************************)
(* One lemma per action: the step preserves the inductive invariant.       *)
(***************************************************************************)

LEMMA Step_dco_create ==
  ASSUME IInv, NEW t \in Thread, NEW c \in Ctx, dco_create(t, c)
  PROVE  IInv'
<1>1. TypeOK'
  BY ConstantsAssumption DEF IInv, TypeOK, PC, Status, YieldStatus,
     SleepStatus, Thread, dco_create, ctxVars, queVars, workerVars
<1>2. Hands'
  BY ConstantsAssumption DEF IInv, Hands, SleepStatus, Thread, dco_create,
     ctxVars, queVars, workerVars
<1>3. OneOwner'
  BY ConstantsAssumption DEF IInv, OneOwner, Queued, Handed, Thread,
     dco_create, ctxVars, queVars, workerVars
<1>4. AssertsHold'
  BY ConstantsAssumption DEF IInv, AssertsHold, HeldStatus, Queued,
     dco_create, ctxVars, queVars, workerVars
<1>5. TimersBelong'
  BY ConstantsAssumption DEF IInv, TimersBelong, Handed, dco_create, ctxVars,
     queVars, workerVars
<1>6. IdleIsReset'
  BY ConstantsAssumption DEF IInv, IdleIsReset, StatusReset, dco_create,
     ctxVars, queVars, workerVars
<1>7. QED  BY <1>1, <1>2, <1>3, <1>4, <1>5, <1>6 DEF IInv

LEMMA Step_dco_resume ==
  ASSUME IInv, NEW t \in Thread, NEW c \in Ctx, dco_resume(t, c)
  PROVE  IInv'
<1> DEFINE step == TryResume(status[c])
<1>1. PICK r : r = step
  OBVIOUS
<1>2. /\ adding[t] = None /\ handing[t] = None /\ c \in live
      /\ status' = [status EXCEPT ![c] = r.to]
      /\ adding' = IF r.res = 0 THEN [adding EXCEPT ![t] = c] ELSE adding
      /\ handing' = IF r.res = 4 THEN [handing EXCEPT ![t] = c] ELSE handing
      /\ UNCHANGED <<break_, tid_, live, queVars, workerVars>>
  BY <1>1 DEF dco_resume, InUserCode, Free, SetStatus, AddIf
<1>3. \/ status[c] = "Yield_Set_Reset" /\ r.to = "Ready_Reset_Reset" /\ r.res = 0
      \/ status[c] = "Yield_Reset_Reset" /\ r.to = "Yield_Break_Reset" /\ r.res = 1
      \/ status[c] = "Sleep_Reset_Reset" /\ r.to = "Sleep_Break_Reset" /\ r.res = 2
      \/ status[c] = "Sleep_Set_Reset" /\ r.to = "Sleep_Set_Break" /\ r.res = 3
      \/ status[c] = "Sleep_Set_Set" /\ r.to = "Sleep_Set_Remove" /\ r.res = 4
      \/ r.to = status[c] /\ r.res = -1
  BY <1>1, TryResumeCases DEF IInv, TypeOK
<1> HIDE DEF step
<1> USE DEF IInv, TypeOK, queVars, workerVars
<1>4. TypeOK'
  BY <1>2, <1>3 DEF Status, YieldStatus, SleepStatus
<1>5. Hands'
  BY <1>2, <1>3, ConstantsAssumption DEF Hands, SleepStatus
<1>6. OneOwner'
  <2>1. CASE r.res = 0
    <3>1. /\ ~Queued(c)
          /\ \A u \in Thread : adding[u] # c
          /\ \A w \in Worker : local_ctx_[w] # c
      <4>1. status[c] = "Yield_Set_Reset" /\ c # None
        BY <1>2, <1>3, <2>1, ConstantsAssumption
      <4>2. ~Queued(c)
        BY <4>1 DEF AssertsHold
      <4>3. \A u \in Thread : adding[u] # c
        BY <4>1 DEF Hands
      <4>4. \A w \in Worker : local_ctx_[w] # c
        BY <4>1 DEF AssertsHold, HeldStatus
      <4>5. QED  BY <4>2, <4>3, <4>4
    <3>2. handing' = handing /\ adding' = [adding EXCEPT ![t] = c]
      BY <1>2, <2>1
    <3>3. QED  BY <1>2, <3>1, <3>2, ConstantsAssumption DEF OneOwner, Queued, Handed
  <2>2. CASE r.res = 4
    <3>1. /\ \A u \in Thread : handing[u] # c
          /\ \A w \in Worker : ~Handed(w, c)
      BY <1>2, <1>3, <2>2, ConstantsAssumption DEF Hands, TimersBelong
    <3>2. adding' = adding /\ handing' = [handing EXCEPT ![t] = c]
      BY <1>2, <2>2
    <3>3. QED  BY <1>2, <3>1, <3>2, ConstantsAssumption DEF OneOwner, Queued, Handed
  <2>3. CASE r.res \notin {0, 4}
    BY <1>2, <2>3 DEF OneOwner, Queued, Handed
  <2>4. QED  BY <2>1, <2>2, <2>3
<1>7. AssertsHold'
  <2>1. ASSUME NEW d \in Ctx, Queued(d)' PROVE status[d]' = "Ready_Reset_Reset"
    BY <1>2, <1>3, <2>1 DEF AssertsHold, Queued
  <2>2. ASSUME NEW v \in Worker, local_ctx_[v]' # None
        PROVE  /\ tid_[local_ctx_[v]]' = v
               /\ status[local_ctx_[v]]' \in HeldStatus(pc[v])'
               /\ \A u \in Worker : local_ctx_[v]' \notin time_wait_[u]'
    <3>1. /\ tid_[local_ctx_[v]] = v
          /\ status[local_ctx_[v]] \in HeldStatus(pc[v])
          /\ \A u \in Worker : local_ctx_[v] \notin time_wait_[u]
      BY <1>2, <2>2 DEF AssertsHold
    <3>2. CASE local_ctx_[v] # c
      BY <1>2, <3>1, <3>2
    <3>3. CASE local_ctx_[v] = c
      <4>1. status[c]' = r.to /\ r.to \in HeldStatus(pc[v])
        BY <1>2, <1>3, <3>1, <3>3 DEF HeldStatus
      <4>2. QED  BY <1>2, <3>1, <3>3, <4>1
    <3>4. QED  BY <3>2, <3>3
  <2>3. QED  BY <2>1, <2>2 DEF AssertsHold
<1>8. TimersBelong'
  BY <1>2, <1>3 DEF TimersBelong, Handed
<1>9. IdleIsReset'
  BY <1>2 DEF IdleIsReset
<1>10. QED  BY <1>4, <1>5, <1>6, <1>7, <1>8, <1>9

LEMMA Step_in_dco_add_que ==
  ASSUME IInv, NEW t \in Thread, in_dco_add_que(t)
  PROVE  IInv'
<1>1. TypeOK'
  BY ConstantsAssumption DEF IInv, TypeOK, PC, Status, YieldStatus,
     SleepStatus, Thread, in_dco_add_que, ctxVars, workerVars
<1>2. Hands'
  BY ConstantsAssumption DEF IInv, Hands, SleepStatus, Thread, in_dco_add_que,
     ctxVars, workerVars
<1>3. OneOwner'
  BY ConstantsAssumption DEF IInv, TypeOK, PC, Status, YieldStatus,
     SleepStatus, Thread, OneOwner, Queued, Handed, in_dco_add_que, ctxVars,
     workerVars
<1>4. AssertsHold'
  BY ConstantsAssumption DEF IInv, TypeOK, PC, Status, YieldStatus,
     SleepStatus, Thread, Hands, AssertsHold, HeldStatus, Queued,
     in_dco_add_que, ctxVars, workerVars
<1>5. TimersBelong'
  BY ConstantsAssumption DEF IInv, TimersBelong, Handed, in_dco_add_que,
     ctxVars, workerVars
<1>6. IdleIsReset'
  BY ConstantsAssumption DEF IInv, IdleIsReset, StatusReset, in_dco_add_que,
     ctxVars, workerVars
<1>7. QED  BY <1>1, <1>2, <1>3, <1>4, <1>5, <1>6 DEF IInv

LEMMA Step_dco_sleep_resume ==
  ASSUME IInv, NEW t \in Thread, dco_sleep_resume(t)
  PROVE  IInv'
<1>1. TypeOK'
  BY ConstantsAssumption DEF IInv, TypeOK, PC, Status, YieldStatus,
     SleepStatus, Thread, Hands, dco_sleep_resume, ctxVars, workerVars
<1>2. Hands'
  BY ConstantsAssumption DEF IInv, Hands, SleepStatus, Thread,
     dco_sleep_resume, ctxVars, workerVars
<1>3. OneOwner'
  BY ConstantsAssumption DEF IInv, TypeOK, PC, Status, YieldStatus,
     SleepStatus, Thread, OneOwner, Queued, Handed, dco_sleep_resume, ctxVars,
     workerVars
<1>4. AssertsHold'
  BY ConstantsAssumption DEF IInv, AssertsHold, HeldStatus, Queued,
     dco_sleep_resume, ctxVars, workerVars
<1>5. TimersBelong'
  BY ConstantsAssumption DEF IInv, TypeOK, PC, Status, YieldStatus,
     SleepStatus, Thread, Hands, TimersBelong, Handed, dco_sleep_resume,
     ctxVars, workerVars
<1>6. IdleIsReset'
  BY ConstantsAssumption DEF IInv, IdleIsReset, StatusReset, dco_sleep_resume,
     ctxVars, workerVars
<1>7. QED  BY <1>1, <1>2, <1>3, <1>4, <1>5, <1>6 DEF IInv

LEMMA Step_dco_yield ==
  ASSUME IInv, NEW w \in Worker, dco_yield(w)
  PROVE  IInv'
<1>1. TypeOK'
  BY ConstantsAssumption DEF IInv, TypeOK, PC, Status, YieldStatus,
     SleepStatus, Thread, dco_yield, Suspend, SetStatus, TryYield, Becomes,
     Fails, At, Free, Goto, queVars
<1>2. Hands'
  BY ConstantsAssumption DEF IInv, TypeOK, PC, Status, YieldStatus,
     SleepStatus, Thread, Hands, OneOwner, Queued, Handed, dco_yield, Suspend,
     SetStatus, TryYield, Becomes, Fails, At, Free, Goto, queVars
<1>3. OneOwner'
  BY ConstantsAssumption DEF IInv, OneOwner, Queued, Handed, Thread,
     dco_yield, Suspend, SetStatus, TryYield, Becomes, Fails, At, Free, Goto,
     queVars
<1>4. AssertsHold'
  BY ConstantsAssumption DEF IInv, TypeOK, PC, Status, YieldStatus,
     SleepStatus, Thread, OneOwner, Queued, Handed, AssertsHold, HeldStatus,
     dco_yield, Suspend, SetStatus, TryYield, Becomes, Fails, At, Free, Goto,
     queVars
<1>5. TimersBelong'
  BY ConstantsAssumption DEF IInv, TimersBelong, Handed, dco_yield, Suspend,
     SetStatus, TryYield, Becomes, Fails, At, Free, Goto, queVars
<1>6. IdleIsReset'
  BY ConstantsAssumption DEF IInv, IdleIsReset, StatusReset, dco_yield,
     Suspend, SetStatus, TryYield, Becomes, Fails, At, Free, Goto, queVars
<1>7. QED  BY <1>1, <1>2, <1>3, <1>4, <1>5, <1>6 DEF IInv

LEMMA Step_dco_sleep_until ==
  ASSUME IInv, NEW w \in Worker, dco_sleep_until(w)
  PROVE  IInv'
<1>1. TypeOK'
  BY ConstantsAssumption DEF IInv, TypeOK, PC, Status, YieldStatus,
     SleepStatus, Thread, dco_sleep_until, Suspend, SetStatus, TrySleep,
     Becomes, Fails, At, Free, Goto, queVars
<1>2. Hands'
  BY ConstantsAssumption DEF IInv, TypeOK, PC, Status, YieldStatus,
     SleepStatus, Thread, Hands, OneOwner, Queued, Handed, AssertsHold,
     HeldStatus, dco_sleep_until, Suspend, SetStatus, TrySleep, Becomes,
     Fails, At, Free, Goto, queVars
<1>3. OneOwner'
  BY ConstantsAssumption DEF IInv, OneOwner, Queued, Handed, Thread,
     dco_sleep_until, Suspend, SetStatus, TrySleep, Becomes, Fails, At, Free,
     Goto, queVars
<1>4. AssertsHold'
  BY ConstantsAssumption DEF IInv, TypeOK, PC, Status, YieldStatus,
     SleepStatus, Thread, OneOwner, Queued, Handed, AssertsHold, HeldStatus,
     dco_sleep_until, Suspend, SetStatus, TrySleep, Becomes, Fails, At, Free,
     Goto, queVars
<1>5. TimersBelong'
  BY ConstantsAssumption DEF IInv, TimersBelong, Handed, dco_sleep_until,
     Suspend, SetStatus, TrySleep, Becomes, Fails, At, Free, Goto, queVars
<1>6. IdleIsReset'
  BY ConstantsAssumption DEF IInv, IdleIsReset, StatusReset, dco_sleep_until,
     Suspend, SetStatus, TrySleep, Becomes, Fails, At, Free, Goto, queVars
<1>7. QED  BY <1>1, <1>2, <1>3, <1>4, <1>5, <1>6 DEF IInv

LEMMA Step_swout_ ==
  ASSUME IInv, NEW w \in Worker, swout_(w)
  PROVE  IInv'
<1>1. TypeOK'
  BY ConstantsAssumption DEF IInv, TypeOK, PC, Status, YieldStatus,
     SleepStatus, Thread, swout_, At, Free, Goto, queVars
<1>2. Hands'
  BY ConstantsAssumption DEF IInv, Hands, SleepStatus, Thread, swout_, At,
     Free, Goto, queVars
<1>3. OneOwner'
  BY ConstantsAssumption DEF IInv, OneOwner, Queued, Handed, Thread, swout_,
     At, Free, Goto, queVars
<1>4. AssertsHold'
  BY ConstantsAssumption DEF IInv, AssertsHold, HeldStatus, Queued, swout_,
     At, Free, Goto, queVars
<1>5. TimersBelong'
  BY ConstantsAssumption DEF IInv, TimersBelong, Handed, swout_, At, Free,
     Goto, queVars
<1>6. IdleIsReset'
  BY ConstantsAssumption DEF IInv, IdleIsReset, StatusReset, swout_, At, Free,
     Goto, queVars
<1>7. QED  BY <1>1, <1>2, <1>3, <1>4, <1>5, <1>6 DEF IInv

LEMMA End_Hands ==
  ASSUME IInv, NEW w \in Worker, End(w)
  PROVE  Hands'
<1> USE DEF IInv, TypeOK, End, At, Free
<1> DEFINE c == local_ctx_[w]
<1>1. c \in Ctx /\ status[c] = "Ready_Reset_Reset" /\ c # None
  BY DEF Hands, AssertsHold, HeldStatus
<1>2. \A v \in Worker : pc[v]' \in {"remove", "timeout", "pop"} <=> local_ctx_[v]' = None
  BY DEF Hands, Goto, Loop
<1>3. \A v \in Worker : local_ctx_[v]' # None => local_ctx_[v]' \in live'
  BY <1>1 DEF Hands, OneOwner, Loop
<1>4. \A t \in Thread : adding[t]' # None =>
        adding[t]' \in live' /\ status[adding[t]]' = "Ready_Reset_Reset"
  BY <1>1 DEF Hands, OneOwner, Loop, queVars
<1>5. \A t \in Thread : handing[t]' # None => status[handing[t]]' = "Sleep_Set_Remove"
  BY <1>1 DEF Hands, Loop, queVars
<1>6. \A d \in Ctx : status[d]' \in SleepStatus => tid_[d]' \in Worker
  BY <1>1 DEF Hands, Loop, queVars, SleepStatus, StatusReset
<1>7. QED  BY <1>2, <1>3, <1>4, <1>5, <1>6 DEF Hands

LEMMA Step_End ==
  ASSUME IInv, NEW w \in Worker, End(w)
  PROVE  IInv'
<1>1. TypeOK'
  BY ConstantsAssumption DEF IInv, TypeOK, PC, Status, YieldStatus,
     SleepStatus, Thread, IdleIsReset, StatusReset, End, At, Free, Goto, Loop,
     queVars
<1>2. Hands'
  BY End_Hands
<1>3. OneOwner'
  BY ConstantsAssumption DEF IInv, OneOwner, Queued, Handed, Thread, End, At,
     Free, Goto, Loop, queVars
<1>4. AssertsHold'
  BY ConstantsAssumption DEF IInv, TypeOK, PC, Status, YieldStatus,
     SleepStatus, Thread, OneOwner, Queued, Handed, AssertsHold, HeldStatus,
     End, At, Free, Goto, Loop, queVars
<1>5. TimersBelong'
  <2>1. status[local_ctx_[w]] = "Ready_Reset_Reset"
    BY DEF IInv, Hands, AssertsHold, HeldStatus, End, At
  <2>2. \A c \in Ctx : c # local_ctx_[w] => status'[c] = status[c]
    BY DEF IInv, TypeOK, End
  <2>3. QED  BY <2>1, <2>2 DEF IInv, TimersBelong, Handed, End, queVars
<1>6. IdleIsReset'
  BY ConstantsAssumption DEF IInv, TypeOK, PC, Status, YieldStatus,
     SleepStatus, Thread, IdleIsReset, StatusReset, End, At, Free, Goto, Loop,
     queVars
<1>7. QED  BY <1>1, <1>2, <1>3, <1>4, <1>5, <1>6 DEF IInv

LEMMA Step_in_dco_sw ==
  ASSUME IInv, NEW w \in Worker, in_dco_sw(w)
  PROVE  IInv'
<1> DEFINE c == local_ctx_[w]
<1>1. PICK r : r = TrySw(status[c])
  OBVIOUS
<1>2. /\ adding[w] = None /\ handing[w] = None /\ pc[w] = "sw"
      /\ status' = [status EXCEPT ![c] = r.to]
      /\ adding' = IF r.res = 0 THEN [adding EXCEPT ![w] = c] ELSE adding
      /\ IF r.res = 2
           THEN Goto(w, "add") /\ local_ctx_' = local_ctx_
           ELSE Loop(w)
      /\ UNCHANGED <<break_, tid_, live, queVars, handing>>
  BY <1>1 DEF in_dco_sw, At, Free, SetStatus, AddIf
<1>3. /\ c \in Ctx /\ c # None /\ c \in live /\ w \in Thread /\ tid_[c] = w
      /\ status[c] \in {"Yield_Reset_Reset", "Yield_Break_Reset",
                        "Sleep_Reset_Reset", "Sleep_Break_Reset"}
      /\ ~Queued(c) /\ \A t \in Thread : adding[t] # c
      /\ \A v \in Worker : local_ctx_[v] = c => v = w
      /\ \A v \in Worker : c \notin time_wait_[v]
  <2>1. c \in Ctx /\ c # None /\ c \in live /\ w \in Thread
    BY <1>2 DEF IInv, TypeOK, Hands, Thread
  <2>2. /\ tid_[c] = w
        /\ status[c] \in HeldStatus("sw")
        /\ \A v \in Worker : c \notin time_wait_[v]
    BY <1>2, <2>1 DEF IInv, AssertsHold
  <2>3. /\ ~Queued(c) /\ \A t \in Thread : adding[t] # c
        /\ \A v \in Worker : local_ctx_[v] = c => v = w
    BY <2>1 DEF IInv, OneOwner
  <2>4. QED  BY <2>1, <2>2, <2>3 DEF HeldStatus
<1>4. \/ status[c] = "Yield_Reset_Reset" /\ r.to = "Yield_Set_Reset" /\ r.res = 1
      \/ status[c] = "Yield_Break_Reset" /\ r.to = "Ready_Reset_Reset" /\ r.res = 0
      \/ status[c] = "Sleep_Reset_Reset" /\ r.to = "Sleep_Set_Reset" /\ r.res = 2
      \/ status[c] = "Sleep_Break_Reset" /\ r.to = "Ready_Reset_Reset" /\ r.res = 0
  BY <1>1, <1>3, TrySwCases DEF IInv, TypeOK
<1> USE DEF IInv, TypeOK, queVars
<1>5. TypeOK'
  <2>1. r.to \in Status
    BY <1>4 DEF Status, YieldStatus, SleepStatus
  <2>2. status' \in [Ctx -> Status] /\ adding' \in [Thread -> Ctx \cup {None}]
    BY <1>2, <1>3, <2>1
  <2>3. pc' \in [Worker -> PC] /\ local_ctx_' \in [Worker -> Ctx \cup {None}]
    BY <1>2 DEF Loop, Goto, PC
  <2>4. QED  BY <1>2, <2>2, <2>3
<1>6. Hands'
  <2>1. ASSUME NEW v \in Worker
        PROVE  pc[v]' \in {"remove", "timeout", "pop"} <=> local_ctx_[v]' = None
    <3>1. CASE v = w
      BY <1>2, <1>3, <3>1 DEF Goto, Loop
    <3>2. CASE v # w
      BY <1>2, <3>2 DEF Hands, Goto, Loop
    <3>3. QED  BY <3>1, <3>2
  <2>2. \A v \in Worker : local_ctx_[v]' # None => local_ctx_[v]' \in live'
    BY <1>2 DEF Hands, Goto, Loop
  <2>3. QED  BY <1>2, <1>3, <1>4, <2>1, <2>2, ConstantsAssumption DEF Hands, SleepStatus
<1>7. OneOwner'
  <2>1. CASE r.res = 0
    <3>1. /\ adding' = [adding EXCEPT ![w] = c]
          /\ local_ctx_' = [local_ctx_ EXCEPT ![w] = None]
      BY <1>2, <2>1 DEF Loop
    <3>2. QED  BY <1>2, <1>3, <3>1, ConstantsAssumption DEF OneOwner, Queued, Handed
  <2>2. CASE r.res # 0
    <3>1. adding' = adding /\ handing' = handing
      BY <1>2, <2>2
    <3>2. \A v \in Worker : local_ctx_[v]' \in {local_ctx_[v], None}
      BY <1>2 DEF Loop
    <3>3. QED  BY <1>2, <3>1, <3>2, ConstantsAssumption DEF OneOwner, Queued, Handed
  <2>3. QED  BY <2>1, <2>2
<1>8. AssertsHold'
  <2>1. ASSUME NEW d \in Ctx, Queued(d)' PROVE status[d]' = "Ready_Reset_Reset"
    BY <1>2, <1>3, <2>1 DEF AssertsHold, Queued
  <2>2. ASSUME NEW v \in Worker, local_ctx_[v]' # None
        PROVE  /\ tid_[local_ctx_[v]]' = v
               /\ status[local_ctx_[v]]' \in HeldStatus(pc[v])'
               /\ \A u \in Worker : local_ctx_[v]' \notin time_wait_[u]'
    <3>1. CASE v = w
      BY <1>2, <1>3, <1>4, <2>2, <3>1 DEF HeldStatus, Goto, Loop
    <3>2. CASE v # w
      <4>1. local_ctx_[v]' = local_ctx_[v] /\ pc'[v] = pc[v] /\ local_ctx_[v] # c
        BY <1>2, <1>3, <3>2 DEF Goto, Loop
      <4>2. QED  BY <1>2, <4>1, <2>2 DEF AssertsHold, HeldStatus
    <3>3. QED  BY <3>1, <3>2
  <2>3. QED  BY <2>1, <2>2 DEF AssertsHold
<1>9. TimersBelong'
  BY <1>2, <1>3 DEF TimersBelong, Handed
<1>10. IdleIsReset'
  BY <1>2, <1>3 DEF IdleIsReset
<1>11. QED  BY <1>5, <1>6, <1>7, <1>8, <1>9, <1>10

LEMMA Step_dco_sleep_add ==
  ASSUME IInv, NEW w \in Worker, dco_sleep_add(w)
  PROVE  IInv'
<1> DEFINE c == local_ctx_[w]
<1>1. PICK r : r = TrySleepAdd(status[c])
  OBVIOUS
<1>2. /\ adding[w] = None /\ handing[w] = None /\ pc[w] = "add"
      /\ status' = [status EXCEPT ![c] = r.to]
      /\ adding' = IF r.res = 0 THEN [adding EXCEPT ![w] = c] ELSE adding
      /\ IF r.res = 1
           THEN Goto(w, "added") /\ local_ctx_' = local_ctx_
           ELSE Loop(w)
      /\ UNCHANGED <<break_, tid_, live, queVars, handing>>
  BY <1>1 DEF dco_sleep_add, At, Free, SetStatus, AddIf
<1>3. /\ c \in Ctx /\ c # None /\ c \in live /\ w \in Thread /\ tid_[c] = w
      /\ status[c] \in {"Sleep_Set_Reset", "Sleep_Set_Break"}
      /\ ~Queued(c) /\ \A t \in Thread : adding[t] # c
      /\ \A v \in Worker : local_ctx_[v] = c => v = w
      /\ \A v \in Worker : c \notin time_wait_[v]
  BY <1>2, ConstantsAssumption DEF IInv, TypeOK, Hands, AssertsHold, HeldStatus, OneOwner, Thread
<1>4. \/ status[c] = "Sleep_Set_Reset" /\ r.to = "Sleep_Set_Set" /\ r.res = 1
      \/ status[c] = "Sleep_Set_Break" /\ r.to = "Ready_Reset_Reset" /\ r.res = 0
  BY <1>1, <1>3, TrySleepAddCases DEF IInv, TypeOK
<1> USE DEF IInv, TypeOK, queVars
<1>5. TypeOK'
  <2>1. r.to \in Status
    BY <1>4 DEF Status, YieldStatus, SleepStatus
  <2>2. status' \in [Ctx -> Status] /\ adding' \in [Thread -> Ctx \cup {None}]
    BY <1>2, <1>3, <2>1
  <2>3. pc' \in [Worker -> PC] /\ local_ctx_' \in [Worker -> Ctx \cup {None}]
    BY <1>2 DEF Loop, Goto, PC
  <2>4. QED  BY <1>2, <2>2, <2>3
<1>6. Hands'
  <2>1. ASSUME NEW v \in Worker
        PROVE  pc[v]' \in {"remove", "timeout", "pop"} <=> local_ctx_[v]' = None
    <3>1. CASE v = w
      BY <1>2, <1>3, <3>1 DEF Goto, Loop
    <3>2. CASE v # w
      BY <1>2, <3>2 DEF Hands, Goto, Loop
    <3>3. QED  BY <3>1, <3>2
  <2>2. \A v \in Worker : local_ctx_[v]' # None => local_ctx_[v]' \in live'
    BY <1>2 DEF Hands, Goto, Loop
  <2>3. QED  BY <1>2, <1>3, <1>4, <2>1, <2>2, ConstantsAssumption DEF Hands, SleepStatus
<1>7. OneOwner'
  <2>1. CASE r.res = 0
    <3>1. /\ adding' = [adding EXCEPT ![w] = c]
          /\ local_ctx_' = [local_ctx_ EXCEPT ![w] = None]
      BY <1>2, <2>1 DEF Loop
    <3>2. QED  BY <1>2, <1>3, <3>1, ConstantsAssumption DEF OneOwner, Queued, Handed
  <2>2. CASE r.res # 0
    <3>1. adding' = adding /\ handing' = handing
      BY <1>2, <2>2
    <3>2. \A v \in Worker : local_ctx_[v]' \in {local_ctx_[v], None}
      BY <1>2 DEF Loop
    <3>3. QED  BY <1>2, <3>1, <3>2, ConstantsAssumption DEF OneOwner, Queued, Handed
  <2>3. QED  BY <2>1, <2>2
<1>8. AssertsHold'
  <2>1. ASSUME NEW d \in Ctx, Queued(d)' PROVE status[d]' = "Ready_Reset_Reset"
    BY <1>2, <1>3, <2>1 DEF AssertsHold, Queued
  <2>2. ASSUME NEW v \in Worker, local_ctx_[v]' # None
        PROVE  /\ tid_[local_ctx_[v]]' = v
               /\ status[local_ctx_[v]]' \in HeldStatus(pc[v])'
               /\ \A u \in Worker : local_ctx_[v]' \notin time_wait_[u]'
    <3>1. CASE v = w
      BY <1>2, <1>3, <1>4, <2>2, <3>1 DEF HeldStatus, Goto, Loop
    <3>2. CASE v # w
      <4>1. local_ctx_[v]' = local_ctx_[v] /\ pc'[v] = pc[v] /\ local_ctx_[v] # c
        BY <1>2, <1>3, <3>2 DEF Goto, Loop
      <4>2. QED  BY <1>2, <4>1, <2>2 DEF AssertsHold, HeldStatus
    <3>3. QED  BY <3>1, <3>2
  <2>3. QED  BY <2>1, <2>2 DEF AssertsHold
<1>9. TimersBelong'
  BY <1>2, <1>3 DEF TimersBelong, Handed
<1>10. IdleIsReset'
  BY <1>2, <1>3 DEF IdleIsReset
<1>11. QED  BY <1>5, <1>6, <1>7, <1>8, <1>9, <1>10

LEMMA Step_TimeWaitPush ==
  ASSUME IInv, NEW w \in Worker, TimeWaitPush(w)
  PROVE  IInv'
<1>1. TypeOK'
  <2>1. local_ctx_[w] \in Ctx
    BY DEF IInv, TypeOK, Hands, TimeWaitPush, At
  <2>2. time_wait_' \in [Worker -> SUBSET Ctx]
    BY <2>1 DEF IInv, TypeOK, TimeWaitPush
  <2>3. pc' \in [Worker -> PC] /\ local_ctx_' \in [Worker -> Ctx \cup {None}]
    BY DEF IInv, TypeOK, TimeWaitPush, Loop, Goto, PC
  <2>4. QED  BY <2>2, <2>3 DEF IInv, TypeOK, TimeWaitPush, ctxVars
<1>2. Hands'
  BY ConstantsAssumption DEF IInv, TypeOK, PC, Status, YieldStatus,
     SleepStatus, Thread, Hands, TimeWaitPush, At, Free, Goto, Loop, ctxVars
<1>3. OneOwner'
  BY ConstantsAssumption DEF IInv, OneOwner, Queued, Handed, Thread,
     TimeWaitPush, At, Free, Goto, Loop, ctxVars
<1>4. AssertsHold'
  BY ConstantsAssumption DEF IInv, TypeOK, PC, Status, YieldStatus,
     SleepStatus, Thread, AssertsHold, HeldStatus, Queued, TimeWaitPush, At,
     Free, Goto, Loop, ctxVars
<1>5. TimersBelong'
  <2>1. /\ status[local_ctx_[w]] \in {"Sleep_Set_Set", "Sleep_Set_Remove"}
        /\ tid_[local_ctx_[w]] = w
    BY DEF IInv, Hands, AssertsHold, HeldStatus, TimeWaitPush, At
  <2>2. \A v \in Worker :
          time_wait_'[v] = IF v = w THEN time_wait_[v] \cup {local_ctx_[w]}
                                    ELSE time_wait_[v]
    BY DEF IInv, TypeOK, TimeWaitPush
  <2>3. QED  BY <2>1, <2>2 DEF IInv, TimersBelong, Handed, TimeWaitPush, ctxVars
<1>6. IdleIsReset'
  BY ConstantsAssumption DEF IInv, IdleIsReset, StatusReset, TimeWaitPush, At,
     Free, Goto, Loop, ctxVars
<1>7. QED  BY <1>1, <1>2, <1>3, <1>4, <1>5, <1>6 DEF IInv

LEMMA Step_TimeoutAtOnce ==
  ASSUME IInv, NEW w \in Worker, TimeoutAtOnce(w)
  PROVE  IInv'
<1>1. TypeOK'
  BY ConstantsAssumption DEF IInv, TypeOK, PC, Status, YieldStatus,
     SleepStatus, Thread, TimeoutAtOnce, dco_sleep_timeout, SetStatus, AddIf,
     TrySleepTimeout, Becomes, Fails, At, Free, Goto, Loop
<1>2. Hands'
  BY ConstantsAssumption DEF IInv, TypeOK, PC, Status, YieldStatus,
     SleepStatus, Thread, Hands, TimeoutAtOnce, dco_sleep_timeout, SetStatus,
     AddIf, TrySleepTimeout, Becomes, Fails, At, Free, Goto, Loop
<1>3. OneOwner'
  BY ConstantsAssumption DEF IInv, TypeOK, PC, Status, YieldStatus,
     SleepStatus, Thread, OneOwner, Queued, Handed, TimeoutAtOnce,
     dco_sleep_timeout, SetStatus, AddIf, TrySleepTimeout, Becomes, Fails, At,
     Free, Goto, Loop
<1>4. AssertsHold'
  BY ConstantsAssumption DEF IInv, TypeOK, PC, Status, YieldStatus,
     SleepStatus, Thread, AssertsHold, HeldStatus, Queued, TimeoutAtOnce,
     dco_sleep_timeout, SetStatus, AddIf, TrySleepTimeout, Becomes, Fails, At,
     Free, Goto, Loop
<1>5. TimersBelong'
  BY ConstantsAssumption DEF IInv, TypeOK, PC, Status, YieldStatus,
     SleepStatus, Thread, AssertsHold, HeldStatus, Queued, TimersBelong,
     Handed, TimeoutAtOnce, dco_sleep_timeout, SetStatus, AddIf,
     TrySleepTimeout, Becomes, Fails, At, Free, Goto, Loop
<1>6. IdleIsReset'
  BY ConstantsAssumption DEF IInv, IdleIsReset, StatusReset, TimeoutAtOnce,
     dco_sleep_timeout, SetStatus, AddIf, TrySleepTimeout, Becomes, Fails, At,
     Free, Goto, Loop
<1>7. QED  BY <1>1, <1>2, <1>3, <1>4, <1>5, <1>6 DEF IInv

LEMMA Step_dco_sleep_remove ==
  ASSUME IInv, NEW w \in Worker, NEW c \in Ctx, dco_sleep_remove(w, c)
  PROVE  IInv'
<1>1. TypeOK'
  BY ConstantsAssumption DEF IInv, TypeOK, PC, Status, YieldStatus,
     SleepStatus, Thread, dco_sleep_remove, SetStatus, AddIf, TrySleepRemove,
     Becomes, Fails, At, Free, workerVars
<1>2. Hands'
  BY ConstantsAssumption DEF IInv, TypeOK, PC, Status, YieldStatus,
     SleepStatus, Thread, Hands, OneOwner, Queued, Handed, AssertsHold,
     HeldStatus, TimersBelong, IdleIsReset, StatusReset, dco_sleep_remove,
     SetStatus, AddIf, TrySleepRemove, Becomes, Fails, At, Free, workerVars
<1>3. OneOwner'
  BY ConstantsAssumption DEF IInv, TypeOK, PC, Status, YieldStatus,
     SleepStatus, Thread, Hands, OneOwner, Queued, Handed, AssertsHold,
     HeldStatus, TimersBelong, dco_sleep_remove, SetStatus, AddIf,
     TrySleepRemove, Becomes, Fails, At, Free, workerVars
<1>4. AssertsHold'
  BY ConstantsAssumption DEF IInv, TypeOK, PC, Status, YieldStatus,
     SleepStatus, Thread, Hands, OneOwner, Queued, Handed, AssertsHold,
     HeldStatus, TimersBelong, dco_sleep_remove, SetStatus, AddIf,
     TrySleepRemove, Becomes, Fails, At, Free, workerVars
<1>5. TimersBelong'
  BY ConstantsAssumption DEF IInv, TypeOK, PC, Status, YieldStatus,
     SleepStatus, Thread, OneOwner, Queued, Handed, TimersBelong,
     dco_sleep_remove, SetStatus, AddIf, TrySleepRemove, Becomes, Fails, At,
     Free, workerVars
<1>6. IdleIsReset'
  BY ConstantsAssumption DEF IInv, IdleIsReset, StatusReset, dco_sleep_remove,
     SetStatus, AddIf, TrySleepRemove, Becomes, Fails, At, Free, workerVars
<1>7. QED  BY <1>1, <1>2, <1>3, <1>4, <1>5, <1>6 DEF IInv

LEMMA Step_RemoveDone ==
  ASSUME IInv, NEW w \in Worker, RemoveDone(w)
  PROVE  IInv'
<1>1. TypeOK'
  BY ConstantsAssumption DEF IInv, TypeOK, PC, Status, YieldStatus,
     SleepStatus, Thread, RemoveDone, At, Goto, ctxVars, queVars, workerVars
<1>2. Hands'
  BY ConstantsAssumption DEF IInv, Hands, SleepStatus, Thread, RemoveDone, At,
     Goto, ctxVars, queVars, workerVars
<1>3. OneOwner'
  BY ConstantsAssumption DEF IInv, OneOwner, Queued, Handed, Thread,
     RemoveDone, At, Goto, ctxVars, queVars, workerVars
<1>4. AssertsHold'
  BY ConstantsAssumption DEF IInv, AssertsHold, HeldStatus, Queued,
     RemoveDone, At, Goto, ctxVars, queVars, workerVars
<1>5. TimersBelong'
  BY ConstantsAssumption DEF IInv, TimersBelong, Handed, RemoveDone, At, Goto,
     ctxVars, queVars, workerVars
<1>6. IdleIsReset'
  BY ConstantsAssumption DEF IInv, IdleIsReset, StatusReset, RemoveDone, At,
     Goto, ctxVars, queVars, workerVars
<1>7. QED  BY <1>1, <1>2, <1>3, <1>4, <1>5, <1>6 DEF IInv

LEMMA Step_TimerExpires ==
  ASSUME IInv, NEW w \in Worker, NEW c \in Ctx, TimerExpires(w, c)
  PROVE  IInv'
<1>1. TypeOK'
  BY ConstantsAssumption DEF IInv, TypeOK, PC, Status, YieldStatus,
     SleepStatus, Thread, TimerExpires, dco_sleep_timeout, SetStatus, AddIf,
     TrySleepTimeout, Becomes, Fails, At, Free, workerVars
<1>2. Hands'
  BY ConstantsAssumption DEF IInv, TypeOK, PC, Status, YieldStatus,
     SleepStatus, Thread, Hands, IdleIsReset, StatusReset, TimerExpires,
     dco_sleep_timeout, SetStatus, AddIf, TrySleepTimeout, Becomes, Fails, At,
     Free, workerVars
<1>3. OneOwner'
  BY ConstantsAssumption DEF IInv, TypeOK, PC, Status, YieldStatus,
     SleepStatus, Thread, Hands, OneOwner, Queued, Handed, AssertsHold,
     HeldStatus, TimerExpires, dco_sleep_timeout, SetStatus, AddIf,
     TrySleepTimeout, Becomes, Fails, At, Free, workerVars
<1>4. AssertsHold'
  BY ConstantsAssumption DEF IInv, AssertsHold, HeldStatus, Queued,
     TimerExpires, dco_sleep_timeout, SetStatus, AddIf, TrySleepTimeout,
     Becomes, Fails, At, Free, workerVars
<1>5. TimersBelong'
  BY ConstantsAssumption DEF IInv, TypeOK, PC, Status, YieldStatus,
     SleepStatus, Thread, TimersBelong, Handed, TimerExpires,
     dco_sleep_timeout, SetStatus, AddIf, TrySleepTimeout, Becomes, Fails, At,
     Free, workerVars
<1>6. IdleIsReset'
  BY ConstantsAssumption DEF IInv, IdleIsReset, StatusReset, TimerExpires,
     dco_sleep_timeout, SetStatus, AddIf, TrySleepTimeout, Becomes, Fails, At,
     Free, workerVars
<1>7. QED  BY <1>1, <1>2, <1>3, <1>4, <1>5, <1>6 DEF IInv

LEMMA Step_TimeoutDone ==
  ASSUME IInv, NEW w \in Worker, TimeoutDone(w)
  PROVE  IInv'
<1>1. TypeOK'
  BY ConstantsAssumption DEF IInv, TypeOK, PC, Status, YieldStatus,
     SleepStatus, Thread, TimeoutDone, At, Goto, ctxVars, queVars, workerVars
<1>2. Hands'
  BY ConstantsAssumption DEF IInv, Hands, SleepStatus, Thread, TimeoutDone,
     At, Goto, ctxVars, queVars, workerVars
<1>3. OneOwner'
  BY ConstantsAssumption DEF IInv, OneOwner, Queued, Handed, Thread,
     TimeoutDone, At, Goto, ctxVars, queVars, workerVars
<1>4. AssertsHold'
  BY ConstantsAssumption DEF IInv, AssertsHold, HeldStatus, Queued,
     TimeoutDone, At, Goto, ctxVars, queVars, workerVars
<1>5. TimersBelong'
  BY ConstantsAssumption DEF IInv, TimersBelong, Handed, TimeoutDone, At,
     Goto, ctxVars, queVars, workerVars
<1>6. IdleIsReset'
  BY ConstantsAssumption DEF IInv, IdleIsReset, StatusReset, TimeoutDone, At,
     Goto, ctxVars, queVars, workerVars
<1>7. QED  BY <1>1, <1>2, <1>3, <1>4, <1>5, <1>6 DEF IInv

LEMMA dco_get_next_AssertsHold ==
  ASSUME IInv, NEW w \in Worker, NEW c \in Ctx, dco_get_next(w, c)
  PROVE  AssertsHold'
<1> USE DEF IInv, TypeOK, dco_get_next
<1>1. /\ status[c] = "Ready_Reset_Reset"
      /\ \A v \in Worker : c \notin time_wait_[v]
      /\ \A v \in Worker : local_ctx_[v] # c
  <2>1. Queued(c)
    BY DEF Queued
  <2>2. status[c] = "Ready_Reset_Reset"
    BY <2>1 DEF AssertsHold
  <2>3. \A v \in Worker : c \notin time_wait_[v]
    BY <2>2 DEF TimersBelong
  <2>4. QED  BY <2>1, <2>2, <2>3 DEF OneOwner, Thread
<1>2. ASSUME NEW d \in Ctx, Queued(d)' PROVE status[d]' = "Ready_Reset_Reset"
  <2>1. Queued(d)
    BY <1>2, ConstantsAssumption DEF Queued
  <2>2. QED  BY <2>1 DEF AssertsHold
<1>3. ASSUME NEW v \in Worker, local_ctx_[v]' # None
      PROVE  /\ tid_[local_ctx_[v]]' = v
             /\ status[local_ctx_[v]]' \in HeldStatus(pc[v])'
             /\ \A u \in Worker : local_ctx_[v]' \notin time_wait_[u]'
  <2>1. CASE v = w
    BY <1>1, <2>1 DEF Goto, HeldStatus
  <2>2. CASE v # w
    <3>1. local_ctx_[v]' = local_ctx_[v] /\ pc'[v] = pc[v] /\ local_ctx_[v] # c
      BY <2>2, <1>1 DEF Goto
    <3>2. QED  BY <3>1, <1>3 DEF AssertsHold, HeldStatus
  <2>3. QED  BY <2>1, <2>2
<1>4. QED  BY <1>2, <1>3 DEF AssertsHold

LEMMA Step_dco_get_next ==
  ASSUME IInv, NEW w \in Worker, NEW c \in Ctx, dco_get_next(w, c)
  PROVE  IInv'
<1>1. TypeOK'
  BY ConstantsAssumption DEF IInv, TypeOK, PC, Status, YieldStatus,
     SleepStatus, Thread, dco_get_next, At, Free, Goto
<1>2. Hands'
  BY ConstantsAssumption DEF IInv, TypeOK, PC, Status, YieldStatus,
     SleepStatus, Thread, Hands, AssertsHold, HeldStatus, Queued, IdleIsReset,
     StatusReset, dco_get_next, At, Free, Goto
<1>3. OneOwner'
  BY ConstantsAssumption DEF IInv, TypeOK, PC, Status, YieldStatus,
     SleepStatus, Thread, OneOwner, Queued, Handed, dco_get_next, At, Free,
     Goto
<1>4. AssertsHold'
  BY dco_get_next_AssertsHold
<1>5. TimersBelong'
  BY ConstantsAssumption DEF IInv, TypeOK, PC, Status, YieldStatus,
     SleepStatus, Thread, AssertsHold, HeldStatus, Queued, TimersBelong,
     Handed, dco_get_next, At, Free, Goto
<1>6. IdleIsReset'
  BY ConstantsAssumption DEF IInv, IdleIsReset, StatusReset, dco_get_next, At,
     Free, Goto
<1>7. QED  BY <1>1, <1>2, <1>3, <1>4, <1>5, <1>6 DEF IInv

LEMMA Step_WaitAgain ==
  ASSUME IInv, NEW w \in Worker, WaitAgain(w)
  PROVE  IInv'
<1>1. TypeOK'
  BY ConstantsAssumption DEF IInv, TypeOK, PC, Status, YieldStatus,
     SleepStatus, Thread, WaitAgain, At, Goto, ctxVars, queVars, workerVars
<1>2. Hands'
  BY ConstantsAssumption DEF IInv, Hands, SleepStatus, Thread, WaitAgain, At,
     Goto, ctxVars, queVars, workerVars
<1>3. OneOwner'
  BY ConstantsAssumption DEF IInv, OneOwner, Queued, Handed, Thread,
     WaitAgain, At, Goto, ctxVars, queVars, workerVars
<1>4. AssertsHold'
  BY ConstantsAssumption DEF IInv, AssertsHold, HeldStatus, Queued, WaitAgain,
     At, Goto, ctxVars, queVars, workerVars
<1>5. TimersBelong'
  BY ConstantsAssumption DEF IInv, TimersBelong, Handed, WaitAgain, At, Goto,
     ctxVars, queVars, workerVars
<1>6. IdleIsReset'
  BY ConstantsAssumption DEF IInv, IdleIsReset, StatusReset, WaitAgain, At,
     Goto, ctxVars, queVars, workerVars
<1>7. QED  BY <1>1, <1>2, <1>3, <1>4, <1>5, <1>6 DEF IInv

(***************************************************************************)
(* Nothing is forgotten.  IInv says where a context cannot be; NothingLost *)
(* says that it is somewhere.  Again one lemma per action.                 *)
(***************************************************************************)

\* What NothingLost says of one context.
Kept(c) ==
  /\ status[c] = "Ready_Reset_Reset" =>
       InHands(c, {"run"}) \/ Queued(c) \/ \E t \in Thread : adding[t] = c
  /\ status[c] = "Sleep_Set_Remove" =>
       (\E w \in Worker : Handed(w, c)) \/ \E t \in Thread : handing[t] = c
  /\ status[c] = "Sleep_Set_Set" =>
       InHands(c, {"added"}) \/ \E w \in Worker : c \in time_wait_[w]
  /\ status[c] \in {"Sleep_Set_Reset", "Sleep_Set_Break"} => InHands(c, {"add"})
  /\ status[c] \in {"Yield_Reset_Reset", "Yield_Break_Reset",
                    "Sleep_Reset_Reset", "Sleep_Break_Reset"} => InHands(c, {"call", "sw"})

LEMMA Kept_dco_create ==
  ASSUME IInv, NothingLost, NEW t \in Thread, NEW c \in Ctx, dco_create(t, c)
  PROVE  NothingLost'
  BY DEF NothingLost, InHands, Queued, Handed, dco_create, ctxVars, queVars, workerVars

LEMMA Kept_dco_resume ==
  ASSUME IInv, NothingLost, NEW t \in Thread, NEW c \in Ctx, dco_resume(t, c)
  PROVE  NothingLost'
<1> USE DEF IInv, TypeOK
<1>1. PICK r : r = TryResume(status[c])
  OBVIOUS
<1>2. /\ adding[t] = None /\ handing[t] = None
      /\ status' = [status EXCEPT ![c] = r.to]
      /\ adding' = IF r.res = 0 THEN [adding EXCEPT ![t] = c] ELSE adding
      /\ handing' = IF r.res = 4 THEN [handing EXCEPT ![t] = c] ELSE handing
      /\ UNCHANGED <<queVars, workerVars>>
  BY <1>1 DEF dco_resume, InUserCode, Free, SetStatus, AddIf
<1>3. ASSUME NEW d \in Ctx, d # c PROVE Kept(d)'
  <2>1. status'[d] = status[d] /\ Kept(d) /\ d # None
    BY <1>2, <1>3, ConstantsAssumption DEF NothingLost, Kept
  <2>2. /\ \A u \in Thread : adding[u] = d => adding'[u] = d
        /\ \A u \in Thread : handing[u] = d => handing'[u] = d
    BY <1>2, <2>1
  <2>3. QED  BY <1>2, <2>1, <2>2 DEF Kept, InHands, Queued, Handed, queVars, workerVars
<1>4. Kept(c)'
  <2>1. Kept(c) /\ status'[c] = r.to
    BY <1>2 DEF NothingLost, Kept
  <2>2. /\ r.res = 0 => adding'[t] = c
        /\ r.res = 4 => handing'[t] = c
        /\ r.res # 0 => adding' = adding
        /\ r.res # 4 => handing' = handing
    BY <1>2
  <2>3. QED
    BY <1>1, <1>2, <2>1, <2>2, TryResumeCases DEF Kept, InHands, Queued, Handed, queVars, workerVars
<1>5. QED  BY <1>3, <1>4 DEF NothingLost, Kept

LEMMA Kept_in_dco_add_que ==
  ASSUME IInv, NothingLost, NEW t \in Thread, in_dco_add_que(t)
  PROVE  NothingLost'
<1> SUFFICES ASSUME NEW d \in Ctx PROVE Kept(d)'
  BY DEF NothingLost, Kept
<1>1. /\ Kept(d)
      /\ \A u \in Thread : adding[u] = d => adding'[u] = d \/ ctx_que_'[d] > 0
      /\ ctx_que_[d] > 0 => ctx_que_'[d] > 0
  BY ConstantsAssumption DEF NothingLost, Kept, IInv, TypeOK, in_dco_add_que
<1>2. QED
  BY <1>1 DEF Kept, InHands, Queued, Handed, in_dco_add_que, ctxVars, workerVars

LEMMA Kept_dco_sleep_resume ==
  ASSUME IInv, NothingLost, NEW t \in Thread, dco_sleep_resume(t)
  PROVE  NothingLost'
<1> SUFFICES ASSUME NEW d \in Ctx PROVE Kept(d)'
  BY DEF NothingLost, Kept
<1> DEFINE v == tid_[handing[t]]
<1>1. v \in Worker /\ handing[t] \in Ctx
  BY ConstantsAssumption DEF IInv, TypeOK, Hands, SleepStatus, dco_sleep_resume
<1>2. /\ \A u \in Thread : handing[u] = d => handing'[u] = d \/ time_remove_'[v][d] > 0
      /\ \A w \in Worker : time_remove_[w][d] > 0 => time_remove_'[w][d] > 0
  BY <1>1, ConstantsAssumption DEF IInv, TypeOK, dco_sleep_resume
<1>3. Kept(d)
  BY DEF NothingLost, Kept
<1> HIDE DEF v
<1>4. QED
  BY <1>1, <1>2, <1>3
  DEF Kept, InHands, Queued, Handed, dco_sleep_resume, ctxVars, workerVars

LEMMA Kept_Suspend ==
  ASSUME IInv, NothingLost, NEW w \in Worker, NEW c \in Ctx, c = local_ctx_[w], NEW step,
         step \in {TryYield(status[c]), TrySleep(status[c])},
         Suspend(w, step)
  PROVE  NothingLost'
<1> USE DEF IInv, TypeOK
<1>1. status[c] = "Ready_Reset_Reset"
  BY DEF Suspend, At, Hands, AssertsHold, HeldStatus
<1>2. step.to \in {"Yield_Reset_Reset", "Sleep_Reset_Reset"} /\ step.res = 1
  BY <1>1 DEF TryYield, TrySleep, Becomes
<1>3. /\ status' = [status EXCEPT ![c] = step.to]
      /\ pc' = [pc EXCEPT ![w] = "call"]
      /\ UNCHANGED <<queVars, local_ctx_, adding, handing>>
  BY <1>2 DEF Suspend, SetStatus, Goto
<1>4. ASSUME NEW d \in Ctx, d # c PROVE Kept(d)'
  <2>1. Kept(d) /\ status'[d] = status[d]
    BY <1>3, <1>4 DEF NothingLost, Kept
  <2>2. \A v \in Worker : local_ctx_[v] = d => local_ctx_'[v] = d /\ pc'[v] = pc[v]
    BY <1>3, <1>4
  <2>3. QED
    BY <1>3, <2>1, <2>2 DEF Kept, InHands, Queued, Handed, queVars
<1>5. Kept(c)'
  BY <1>2, <1>3 DEF Kept, InHands
<1>6. QED  BY <1>4, <1>5 DEF NothingLost, Kept

LEMMA Kept_swout_ ==
  ASSUME IInv, NothingLost, NEW w \in Worker, swout_(w)
  PROVE  NothingLost'
<1> SUFFICES ASSUME NEW d \in Ctx PROVE Kept(d)'
  BY DEF NothingLost, Kept
<1>1. Kept(d)
  BY DEF NothingLost, Kept
<1>2. /\ pc[w] = "call" /\ pc' = [pc EXCEPT ![w] = "sw"]
      /\ UNCHANGED <<status, queVars, local_ctx_, adding, handing>>
  BY DEF swout_, At, Goto
<1>3. QED
  BY <1>1, <1>2 DEF Kept, InHands, Queued, Handed, queVars, IInv, TypeOK

LEMMA Kept_End ==
  ASSUME IInv, NothingLost, NEW w \in Worker, NEW c \in Ctx, c = local_ctx_[w], End(w)
  PROVE  NothingLost'
<1> USE DEF IInv, TypeOK
<1>1. /\ status' = [status EXCEPT ![c] = StatusReset]
      /\ pc' = [pc EXCEPT ![w] = "remove"]
      /\ local_ctx_' = [local_ctx_ EXCEPT ![w] = None]
      /\ UNCHANGED <<queVars, adding, handing>>
  BY DEF End, Loop, Goto
<1>2. ASSUME NEW d \in Ctx, d # c PROVE Kept(d)'
  <2>1. Kept(d) /\ status'[d] = status[d]
    BY <1>1, <1>2 DEF NothingLost, Kept
  <2>2. \A v \in Worker : local_ctx_[v] = d => local_ctx_'[v] = d /\ pc'[v] = pc[v]
    BY <1>1, <1>2
  <2>3. QED
    BY <1>1, <2>1, <2>2 DEF Kept, InHands, Queued, Handed, queVars
<1>3. Kept(c)'
  BY <1>1 DEF Kept, StatusReset
<1>4. QED  BY <1>2, <1>3 DEF NothingLost, Kept

LEMMA Kept_in_dco_sw ==
  ASSUME IInv, NothingLost, NEW w \in Worker, NEW c \in Ctx, c = local_ctx_[w], in_dco_sw(w)
  PROVE  NothingLost'
<1> USE DEF IInv, TypeOK
<1>1. PICK r : r = TrySw(status[c])
  OBVIOUS
<1>2. /\ pc[w] = "sw" /\ w \in Thread /\ adding[w] = None
      /\ status' = [status EXCEPT ![c] = r.to]
      /\ adding' = IF r.res = 0 THEN [adding EXCEPT ![w] = c] ELSE adding
      /\ pc' = [pc EXCEPT ![w] = IF r.res = 2 THEN "add" ELSE "remove"]
      /\ local_ctx_' = IF r.res = 2 THEN local_ctx_ ELSE [local_ctx_ EXCEPT ![w] = None]
      /\ UNCHANGED <<queVars, handing>>
  BY <1>1 DEF in_dco_sw, At, Free, SetStatus, AddIf, Loop, Goto, Thread
<1>3. \/ r.to = "Yield_Set_Reset" /\ r.res = 1
      \/ r.to = "Ready_Reset_Reset" /\ r.res = 0
      \/ r.to = "Sleep_Set_Reset" /\ r.res = 2
  <2>1. status[c] \in {"Yield_Reset_Reset", "Yield_Break_Reset",
                       "Sleep_Reset_Reset", "Sleep_Break_Reset"}
    BY <1>2, ConstantsAssumption DEF AssertsHold, HeldStatus
  <2>2. QED  BY <1>1, <2>1, TrySwCases
<1>4. ASSUME NEW d \in Ctx, d # c PROVE Kept(d)'
  <2>1. Kept(d) /\ status'[d] = status[d] /\ d # None
    BY <1>2, <1>4, ConstantsAssumption DEF NothingLost, Kept
  <2>2. \A v \in Worker : local_ctx_[v] = d => local_ctx_'[v] = d /\ pc'[v] = pc[v]
    BY <1>2, <1>4
  <2>3. \A t \in Thread : adding[t] = d => adding'[t] = d
    BY <1>2, <2>1
  <2>4. QED
    BY <1>2, <2>1, <2>2, <2>3 DEF Kept, InHands, Queued, Handed, queVars
<1>5. Kept(c)'
  <2>1. /\ status'[c] = r.to
        /\ r.res = 0 => adding'[w] = c
        /\ r.res = 2 => local_ctx_'[w] = c /\ pc'[w] = "add"
    BY <1>2
  <2>2. QED  BY <1>2, <1>3, <2>1 DEF Kept, InHands
<1>6. QED  BY <1>4, <1>5 DEF NothingLost, Kept

LEMMA Kept_dco_sleep_add ==
  ASSUME IInv, NothingLost, NEW w \in Worker, NEW c \in Ctx, c = local_ctx_[w],
         dco_sleep_add(w)
  PROVE  NothingLost'
<1> USE DEF IInv, TypeOK
<1>1. PICK r : r = TrySleepAdd(status[c])
  OBVIOUS
<1>2. /\ pc[w] = "add" /\ w \in Thread /\ adding[w] = None
      /\ status' = [status EXCEPT ![c] = r.to]
      /\ adding' = IF r.res = 0 THEN [adding EXCEPT ![w] = c] ELSE adding
      /\ pc' = [pc EXCEPT ![w] = IF r.res = 1 THEN "added" ELSE "remove"]
      /\ local_ctx_' = IF r.res = 1 THEN local_ctx_ ELSE [local_ctx_ EXCEPT ![w] = None]
      /\ UNCHANGED <<queVars, handing>>
  BY <1>1 DEF dco_sleep_add, At, Free, SetStatus, AddIf, Loop, Goto, Thread
<1>3. \/ r.to = "Sleep_Set_Set" /\ r.res = 1
      \/ r.to = "Ready_Reset_Reset" /\ r.res = 0
  <2>1. status[c] \in {"Sleep_Set_Reset", "Sleep_Set_Break"}
    BY <1>2, ConstantsAssumption DEF AssertsHold, HeldStatus
  <2>2. QED  BY <1>1, <2>1, TrySleepAddCases
<1>4. ASSUME NEW d \in Ctx, d # c PROVE Kept(d)'
  <2>1. Kept(d) /\ status'[d] = status[d] /\ d # None
    BY <1>2, <1>4, ConstantsAssumption DEF NothingLost, Kept
  <2>2. \A v \in Worker : local_ctx_[v] = d => local_ctx_'[v] = d /\ pc'[v] = pc[v]
    BY <1>2, <1>4
  <2>3. \A t \in Thread : adding[t] = d => adding'[t] = d
    BY <1>2, <2>1
  <2>4. QED
    BY <1>2, <2>1, <2>2, <2>3 DEF Kept, InHands, Queued, Handed, queVars
<1>5. Kept(c)'
  <2>1. /\ status'[c] = r.to
        /\ r.res = 0 => adding'[w] = c
        /\ r.res = 1 => local_ctx_'[w] = c /\ pc'[w] = "added"
    BY <1>2
  <2>2. QED  BY <1>2, <1>3, <2>1 DEF Kept, InHands
<1>6. QED  BY <1>4, <1>5 DEF NothingLost, Kept

LEMMA Kept_TimeWaitPush ==
  ASSUME IInv, NothingLost, NEW w \in Worker, NEW c \in Ctx, c = local_ctx_[w],
         TimeWaitPush(w)
  PROVE  NothingLost'
<1> USE DEF IInv, TypeOK
<1>1. /\ pc[w] = "added" /\ time_wait_' = [time_wait_ EXCEPT ![w] = @ \cup {c}]
      /\ pc' = [pc EXCEPT ![w] = "remove"]
      /\ local_ctx_' = [local_ctx_ EXCEPT ![w] = None]
      /\ UNCHANGED <<status, ctx_que_, time_remove_, adding, handing>>
  BY DEF TimeWaitPush, At, Loop, Goto, ctxVars
<1>2. /\ c \in time_wait_'[w]
      /\ \A v \in Worker : time_wait_[v] \subseteq time_wait_'[v]
  BY <1>1
<1>3. ASSUME NEW d \in Ctx, d # c PROVE Kept(d)'
  <2>1. Kept(d)
    BY DEF NothingLost, Kept
  <2>2. \A v \in Worker : local_ctx_[v] = d => local_ctx_'[v] = d /\ pc'[v] = pc[v]
    BY <1>1, <1>3
  <2>3. QED
    BY <1>1, <1>2, <2>1, <2>2 DEF Kept, InHands, Queued, Handed
<1>4. Kept(c)'
  <2>1. status[c] \in {"Sleep_Set_Set", "Sleep_Set_Remove"} /\ Kept(c)
    BY <1>1, ConstantsAssumption DEF AssertsHold, HeldStatus, NothingLost, Kept
  <2>2. QED  BY <1>1, <1>2, <2>1 DEF Kept, Handed
<1>5. QED  BY <1>3, <1>4 DEF NothingLost, Kept

LEMMA Kept_TimeoutAtOnce ==
  ASSUME IInv, NothingLost, NEW w \in Worker, NEW c \in Ctx, c = local_ctx_[w],
         TimeoutAtOnce(w)
  PROVE  NothingLost'
<1> USE DEF IInv, TypeOK
<1>1. PICK r : r = TrySleepTimeout(status[c])
  OBVIOUS
<1>2. /\ pc[w] = "added" /\ w \in Thread /\ adding[w] = None
      /\ status' = [status EXCEPT ![c] = r.to]
      /\ adding' = IF r.res = 0 THEN [adding EXCEPT ![w] = c] ELSE adding
      /\ pc' = [pc EXCEPT ![w] = "remove"]
      /\ local_ctx_' = [local_ctx_ EXCEPT ![w] = None]
      /\ UNCHANGED <<queVars, handing>>
  BY <1>1 DEF TimeoutAtOnce, dco_sleep_timeout, At, Free, SetStatus, AddIf, Loop, Goto,
              Thread, queVars
<1>3. \/ r.to = "Ready_Reset_Reset" /\ r.res = 0
      \/ status[c] = "Sleep_Set_Remove" /\ r.to = status[c] /\ r.res # 0
  <2>1. status[c] \in {"Sleep_Set_Set", "Sleep_Set_Remove"}
    BY <1>2, ConstantsAssumption DEF AssertsHold, HeldStatus
  <2>2. QED  BY <1>1, <2>1 DEF TrySleepTimeout, Becomes, Fails
<1>4. ASSUME NEW d \in Ctx, d # c PROVE Kept(d)'
  <2>1. Kept(d) /\ status'[d] = status[d] /\ d # None
    BY <1>2, <1>4, ConstantsAssumption DEF NothingLost, Kept
  <2>2. \A v \in Worker : local_ctx_[v] = d => local_ctx_'[v] = d /\ pc'[v] = pc[v]
    BY <1>2, <1>4
  <2>3. \A t \in Thread : adding[t] = d => adding'[t] = d
    BY <1>2, <2>1
  <2>4. QED
    BY <1>2, <2>1, <2>2, <2>3 DEF Kept, InHands, Queued, Handed, queVars
<1>5. Kept(c)'
  <2>1. /\ status'[c] = r.to /\ Kept(c)
        /\ r.res = 0 => adding'[w] = c
    BY <1>2 DEF NothingLost, Kept
  <2>2. QED  BY <1>2, <1>3, <2>1 DEF Kept, Handed, queVars
<1>6. QED  BY <1>4, <1>5 DEF NothingLost, Kept

LEMMA Kept_dco_sleep_remove ==
  ASSUME IInv, NothingLost, NEW w \in Worker, NEW c \in Ctx, dco_sleep_remove(w, c)
  PROVE  NothingLost'
<1> USE DEF IInv, TypeOK
<1>1. status[c] = "Sleep_Set_Remove"
  BY DEF dco_sleep_remove, TimersBelong, Handed
<1>2. TrySleepRemove(status[c]) = Becomes("Ready_Reset_Reset", 0)
  BY <1>1 DEF TrySleepRemove
<1>3. /\ w \in Thread /\ adding[w] = None
      /\ status' = [status EXCEPT ![c] = "Ready_Reset_Reset"]
      /\ adding' = [adding EXCEPT ![w] = c]
      /\ time_remove_' = [time_remove_ EXCEPT ![w][c] = @ - 1]
      /\ time_wait_' = [time_wait_ EXCEPT ![w] = @ \ {c}]
      /\ UNCHANGED <<ctx_que_, workerVars, handing>>
  BY <1>2 DEF dco_sleep_remove, At, Free, SetStatus, AddIf, Becomes, Thread
<1>4. ASSUME NEW d \in Ctx, d # c PROVE Kept(d)'
  <2>1. Kept(d) /\ status'[d] = status[d] /\ d # None
    BY <1>3, <1>4, ConstantsAssumption DEF NothingLost, Kept
  <2>2. \A t \in Thread : adding[t] = d => adding'[t] = d
    BY <1>3, <2>1
  <2>3. \A v \in Worker : /\ time_remove_'[v][d] = time_remove_[v][d]
                          /\ d \in time_wait_[v] => d \in time_wait_'[v]
    BY <1>3, <1>4
  <2>4. QED
    BY <1>3, <2>1, <2>2, <2>3 DEF Kept, InHands, Queued, Handed, workerVars
<1>5. Kept(c)'
  <2>1. status'[c] = "Ready_Reset_Reset" /\ adding'[w] = c
    BY <1>3
  <2>2. QED  BY <1>3, <2>1 DEF Kept
<1>6. QED  BY <1>4, <1>5 DEF NothingLost, Kept

LEMMA Kept_TimerExpires ==
  ASSUME IInv, NothingLost, NEW w \in Worker, NEW c \in Ctx, TimerExpires(w, c)
  PROVE  NothingLost'
<1> USE DEF IInv, TypeOK
<1>1. PICK r : r = TrySleepTimeout(status[c])
  OBVIOUS
<1>2. /\ w \in Thread /\ adding[w] = None
      /\ status' = [status EXCEPT ![c] = r.to]
      /\ adding' = IF r.res = 0 THEN [adding EXCEPT ![w] = c] ELSE adding
      /\ time_wait_' = [time_wait_ EXCEPT ![w] = @ \ {c}]
      /\ UNCHANGED <<ctx_que_, time_remove_, workerVars, handing>>
  BY <1>1 DEF TimerExpires, dco_sleep_timeout, At, Free, SetStatus, AddIf, Thread
<1>3. \/ r.to = "Ready_Reset_Reset" /\ r.res = 0
      \/ status[c] = "Sleep_Set_Remove" /\ r.to = status[c] /\ r.res # 0
  <2>1. status[c] \in {"Sleep_Set_Set", "Sleep_Set_Remove"}
    BY DEF TimersBelong, TimerExpires
  <2>2. QED  BY <1>1, <2>1 DEF TrySleepTimeout, Becomes, Fails
<1>4. ASSUME NEW d \in Ctx, d # c PROVE Kept(d)'
  <2>1. Kept(d) /\ status'[d] = status[d] /\ d # None
    BY <1>2, <1>4, ConstantsAssumption DEF NothingLost, Kept
  <2>2. \A t \in Thread : adding[t] = d => adding'[t] = d
    BY <1>2, <2>1
  <2>3. \A v \in Worker : d \in time_wait_[v] => d \in time_wait_'[v]
    BY <1>2, <1>4
  <2>4. QED
    BY <1>2, <2>1, <2>2, <2>3 DEF Kept, InHands, Queued, Handed, workerVars
<1>5. Kept(c)'
  <2>1. /\ status'[c] = r.to /\ Kept(c)
        /\ r.res = 0 => adding'[w] = c
    BY <1>2 DEF NothingLost, Kept
  <2>2. QED  BY <1>2, <1>3, <2>1 DEF Kept, Handed
<1>6. QED  BY <1>4, <1>5 DEF NothingLost, Kept

LEMMA Kept_dco_get_next ==
  ASSUME IInv, NothingLost, NEW w \in Worker, NEW c \in Ctx, dco_get_next(w, c)
  PROVE  NothingLost'
<1> USE DEF IInv, TypeOK
<1>1. /\ local_ctx_[w] = None /\ status[c] = "Ready_Reset_Reset"
      /\ ctx_que_' = [ctx_que_ EXCEPT ![c] = @ - 1]
      /\ local_ctx_' = [local_ctx_ EXCEPT ![w] = c]
      /\ pc' = [pc EXCEPT ![w] = "run"]
      /\ UNCHANGED <<status, time_remove_, time_wait_, adding, handing>>
  BY DEF dco_get_next, At, Goto, Hands, AssertsHold, Queued
<1>2. ASSUME NEW d \in Ctx, d # c PROVE Kept(d)'
  <2>1. Kept(d) /\ ctx_que_'[d] = ctx_que_[d] /\ d # None
    BY <1>1, <1>2, ConstantsAssumption DEF NothingLost, Kept
  <2>2. \A v \in Worker : local_ctx_[v] = d => local_ctx_'[v] = d /\ pc'[v] = pc[v]
    BY <1>1, <2>1
  <2>3. QED
    BY <1>1, <2>1, <2>2 DEF Kept, InHands, Queued, Handed
<1>3. Kept(c)'
  BY <1>1 DEF Kept, InHands
<1>4. QED  BY <1>2, <1>3 DEF NothingLost, Kept

LEMMA Kept_Idle ==
  ASSUME IInv, NothingLost, NEW w \in Worker, RemoveDone(w) \/ TimeoutDone(w) \/ WaitAgain(w)
  PROVE  NothingLost'
<1> SUFFICES ASSUME NEW d \in Ctx PROVE Kept(d)'
  BY DEF NothingLost, Kept
<1> USE DEF IInv, TypeOK
<1>1. /\ local_ctx_[w] = None
      /\ \A v \in Worker : v # w => pc'[v] = pc[v]
      /\ UNCHANGED <<status, queVars, local_ctx_, adding, handing>>
  BY DEF RemoveDone, TimeoutDone, WaitAgain, At, Goto, Hands, ctxVars
<1>2. Kept(d) /\ d # None
  BY ConstantsAssumption DEF NothingLost, Kept
<1>3. QED
  BY <1>1, <1>2 DEF Kept, InHands, Queued, Handed, queVars

(***************************************************************************)
(* The theorems.                                                           *)
(***************************************************************************)
LEMMA InitIInv == Init => IInv
  BY ConstantsAssumption
  DEF Init, IInv, TypeOK, Hands, OneOwner, AssertsHold, TimersBelong, IdleIsReset,
      Queued, Handed, HeldStatus, PC, Status, YieldStatus, SleepStatus, StatusReset,
      Thread

LEMMA NextIInv == IInv /\ [Next]_vars => IInv'
<1> SUFFICES ASSUME IInv, [Next]_vars PROVE IInv'
  OBVIOUS
<1>1. ASSUME NEW t \in Thread, ThreadStep(t) \/ UserCall(t) PROVE IInv'
  BY <1>1, Step_in_dco_add_que, Step_dco_sleep_resume, Step_dco_create,
     Step_dco_resume
  DEF ThreadStep, UserCall
<1>2. ASSUME NEW w \in Worker, WorkerStep(w) PROVE IInv'
  BY <1>2, Step_swout_, Step_in_dco_sw, Step_dco_sleep_add, Step_TimeWaitPush,
     Step_TimeoutAtOnce, Step_RemoveDone, Step_TimeoutDone, Step_WaitAgain,
     Step_dco_sleep_remove, Step_TimerExpires, Step_dco_get_next
  DEF WorkerStep
<1>3. ASSUME NEW w \in Worker, Leave(w) PROVE IInv'
  BY <1>3, Step_dco_yield, Step_dco_sleep_until, Step_End DEF Leave
<1>4. CASE UNCHANGED vars
  BY <1>4
  DEF IInv, TypeOK, Hands, OneOwner, AssertsHold, TimersBelong, IdleIsReset,
      Queued, Handed, vars, ctxVars, queVars, workerVars
<1>5. QED  BY <1>1, <1>2, <1>3, <1>4 DEF Next

LEMMA InitNothingLost == Init => NothingLost
  BY DEF Init, NothingLost, StatusReset

LEMMA NextNothingLost == IInv /\ NothingLost /\ [Next]_vars => NothingLost'
<1> SUFFICES ASSUME IInv, NothingLost, [Next]_vars PROVE NothingLost'
  OBVIOUS
<1>1. ASSUME NEW t \in Thread, ThreadStep(t) \/ UserCall(t) PROVE NothingLost'
  BY <1>1, Kept_in_dco_add_que, Kept_dco_sleep_resume, Kept_dco_create, Kept_dco_resume
  DEF ThreadStep, UserCall
<1>2. ASSUME NEW w \in Worker, WorkerStep(w) \/ Leave(w) PROVE NothingLost'
  <2>1. ASSUME pc[w] \notin {"remove", "timeout", "pop"} PROVE local_ctx_[w] \in Ctx
    BY <2>1 DEF IInv, TypeOK, Hands
  <2>2. CASE dco_yield(w) \/ dco_sleep_until(w)
    <3>1. local_ctx_[w] \in Ctx
      BY <2>1, <2>2 DEF dco_yield, dco_sleep_until, Suspend, At
    <3>2. QED  BY <2>2, <3>1, Kept_Suspend DEF dco_yield, dco_sleep_until
  <2>3. CASE End(w) \/ in_dco_sw(w) \/ dco_sleep_add(w) \/ TimeWaitPush(w) \/ TimeoutAtOnce(w)
    <3>1. local_ctx_[w] \in Ctx
      BY <2>1, <2>3 DEF End, in_dco_sw, dco_sleep_add, TimeWaitPush, TimeoutAtOnce, At
    <3>2. QED
      BY <2>3, <3>1, Kept_End, Kept_in_dco_sw, Kept_dco_sleep_add, Kept_TimeWaitPush,
         Kept_TimeoutAtOnce
  <2>4. CASE \/ swout_(w) \/ RemoveDone(w) \/ TimeoutDone(w) \/ WaitAgain(w)
             \/ \E c \in Ctx : dco_sleep_remove(w, c) \/ TimerExpires(w, c) \/ dco_get_next(w, c)
    BY <2>4, Kept_swout_, Kept_Idle, Kept_dco_sleep_remove, Kept_TimerExpires, Kept_dco_get_next
  <2>5. QED  BY <1>2, <2>2, <2>3, <2>4 DEF WorkerStep, Leave
<1>3. CASE UNCHANGED vars
  BY <1>3 DEF NothingLost, InHands, Queued, Handed, vars, ctxVars, queVars, workerVars
<1>4. QED  BY <1>1, <1>2, <1>3 DEF Next

(* The inductive invariant: every step of a worker or of an outside thread    *)
(* keeps the places a context can be in apart, and its status word in step    *)
(* with them (coschedule.cpp:82-118).                                         *)
THEOREM Invariance == Spec => []IInv
  BY InitIInv, NextIInv, PTL DEF Spec

(* The scheduler's variables keep their types, in particular no queue count   *)
(* goes below zero: no worker takes a context that is not there               *)
(* (coworker.cpp:17).                                                         *)
THEOREM TypeCorrect == Spec => []TypeOK
  BY Invariance, PTL DEF IInv

(* Any number of workers, outside threads and coroutines, resumed at any      *)
(* moment: no context has two owners (coctx.cpp:46-139).                      *)
THEOREM SingleOwnership == Spec => []OneOwner
  BY Invariance, PTL DEF IInv

(* No assertion of coschedule.cpp and coctx.cpp fails.                        *)
THEOREM AssertionsNeverFail == Spec => []AssertsHold
  BY Invariance, PTL DEF IInv

(* Timer heaps are touched by their own worker only (coworker.cpp:33-102).    *)
THEOREM TimersStayHome == Spec => []TimersBelong
  BY Invariance, PTL DEF IInv

(* A context that is not in use has the reset status (coctx.cpp:254-263).     *)
THEOREM RecycledIsReset == Spec => []IdleIsReset
  BY Invariance, PTL DEF IInv

(* No context is ever forgotten: whatever its status promises, a worker, a   *)
(* queue, a heap or a thread on its way to one of them has it               *)
(* (coschedule.cpp:107-178, coworker.cpp:33-102).                            *)
THEOREM NoneForgotten == Spec => []NothingLost
<1>1. IInv /\ NothingLost /\ [Next]_vars => (IInv /\ NothingLost)'
  BY NextIInv, NextNothingLost
<1>2. QED  BY InitIInv, InitNothingLost, <1>1, PTL DEF Spec

(***************************************************************************)
(* The scheduler implements CoTask: every step is a step of CoTask of one  *)
(* coroutine, or leaves what CoTask sees alone.                            *)
(***************************************************************************)

\* What a sleep would report is set from the end of its callback on.
BreakSet ==
  \A c \in Ctx : status[c] \in SleepStatus /\ ~break_[c] => InHands(c, {"call"})

Running(c) == InHands(c, {"run"})
Broken(c) == InSleep(status[c]) \/ break_[c]

\* What a step may mean for c.
Goes(c, from, to) == TaskState(c) \in from /\ TaskState(c)' = to
Stays(c) == TaskState(c)' = TaskState(c) /\ Broken(c)' = Broken(c)
Moves(c) ==
  \/ /\ \/ Goes(c, {"none", "running"}, "yielding")
        \/ Goes(c, {"yielding", "sleeping"}, "resumed")
        \/ Goes(c, {"resumed", "yielding"}, "ready")
        \/ Goes(c, {"ready"}, "running")
     /\ Broken(c)' = Broken(c)
  \/ Goes(c, {"running"}, "sleeping") /\ Broken(c)' = TRUE
  \/ Goes(c, {"sleeping"}, "ready") /\ Broken(c)' = FALSE
  \/ Goes(c, {"running"}, "none")
OneMoves ==
  \E d \in Ctx : (Stays(d) \/ Moves(d)) /\ \A e \in Ctx \ {d} : Stays(e)

\* The cases of TaskState.
LEMMA TaskStates ==
  ASSUME NEW L, NEW R \in BOOLEAN, NEW c, NEW s, NEW x,
         x = IF c \notin L THEN "none" ELSE IF R THEN "running" ELSE StatusState(s)
  PROVE  /\ c \notin L => x = "none"
         /\ c \in L /\ R => x = "running"
         /\ c \in L /\ ~R /\ s \in {"Yield_Reset_Reset", "Yield_Set_Reset"} => x = "yielding"
         /\ c \in L /\ ~R /\ s \in {"Sleep_Reset_Reset", "Sleep_Set_Reset", "Sleep_Set_Set"} =>
              x = "sleeping"
         /\ c \in L /\ ~R /\ s = "Ready_Reset_Reset" => x = "ready"
         /\ c \in L /\ ~R /\ s \in {"Yield_Break_Reset", "Sleep_Break_Reset",
                                    "Sleep_Set_Break", "Sleep_Set_Remove"} => x = "resumed"
  BY DEF StatusState

LEMMA StateNow ==
  ASSUME NEW c \in Ctx
  PROVE  TaskState(c) = IF c \notin live THEN "none"
                        ELSE IF Running(c) THEN "running" ELSE StatusState(status[c])
  BY DEF TaskState, Running

LEMMA StateThen ==
  ASSUME NEW c \in Ctx
  PROVE  TaskState(c)' = IF c \notin live' THEN "none"
                         ELSE IF Running(c)' THEN "running" ELSE StatusState(status'[c])
  BY DEF TaskState, Running

LEMMA Untouched ==
  ASSUME NEW c \in Ctx, status'[c] = status[c], break_'[c] = break_[c],
         c \in live' <=> c \in live, Running(c)' <=> Running(c)
  PROVE  Stays(c)
<1>1. Broken(c)' = Broken(c)
  BY DEF Broken
<1>2. TaskState(c)' = TaskState(c)
  BY StateNow, StateThen
<1>3. QED  BY <1>1, <1>2 DEF Stays

LEMMA UpdatedAt ==
  ASSUME NEW f, NEW g, NEW d \in Ctx, f = [c \in Ctx |-> f[c]], g = [c \in Ctx |-> g[c]],
         \A e \in Ctx \ {d} : g[e] = f[e]
  PROVE  g = [f EXCEPT ![d] = g[d]]
  OBVIOUS

\* A move of one coroutine is a step of CoTask.
LEMMA MoveIsTaskStep ==
  OneMoves => [Task!Next]_(Task!vars)
<1> SUFFICES ASSUME OneMoves PROVE [Task!Next]_(Task!vars)
  OBVIOUS
<1>1. PICK f : f = [c \in Ctx |-> TaskState(c)]
  OBVIOUS
<1>2. PICK g : g = [c \in Ctx |-> TaskState(c)']
  OBVIOUS
<1>3. PICK b : b = [c \in Ctx |-> Broken(c)]
  OBVIOUS
<1>4. PICK h : h = [c \in Ctx |-> Broken(c)']
  OBVIOUS
<1>5. PICK d \in Ctx : (Stays(d) \/ Moves(d)) /\ \A e \in Ctx \ {d} : Stays(e)
  BY DEF OneMoves
<1>6. /\ g = [f EXCEPT ![d] = g[d]]
      /\ h = [b EXCEPT ![d] = h[d]]
  <2>1. \A e \in Ctx \ {d} : g[e] = f[e] /\ h[e] = b[e]
    BY <1>1, <1>2, <1>3, <1>4, <1>5 DEF Stays
  <2>2. /\ f = [c \in Ctx |-> f[c]]
        /\ g = [c \in Ctx |-> g[c]]
        /\ b = [c \in Ctx |-> b[c]]
        /\ h = [c \in Ctx |-> h[c]]
    BY <1>1, <1>2, <1>3, <1>4
  <2>3. QED  BY <2>1, <2>2, UpdatedAt
<1>7. /\ f[d] = TaskState(d) /\ g[d] = TaskState(d)'
      /\ b[d] = Broken(d) /\ h[d] = Broken(d)'
  BY <1>1, <1>2, <1>3, <1>4
<1>8. h[d] \in BOOLEAN
  BY <1>7 DEF Broken
<1>9. CASE Stays(d)
  <2>1. g = f /\ h = b
    BY <1>1, <1>2, <1>3, <1>4, <1>5, <1>9 DEF Stays
  <2>2. QED  BY <1>1, <1>2, <1>3, <1>4, <2>1 DEF Task!vars, Broken
<1>10. CASE Moves(d)
  <2>1. h[d] = b[d] => h = b
    BY <1>3, <1>4, <1>5, <1>7 DEF Stays
  <2>2. \/ f[d] = "none" /\ g[d] = "yielding" /\ h = b
        \/ f[d] = "running" /\ g[d] = "yielding" /\ h = b
        \/ f[d] \in {"yielding", "sleeping"} /\ g[d] = "resumed" /\ h = b
        \/ f[d] \in {"resumed", "yielding"} /\ g[d] = "ready" /\ h = b
        \/ f[d] = "ready" /\ g[d] = "running" /\ h = b
        \/ f[d] = "running" /\ g[d] = "sleeping" /\ h[d] = TRUE
        \/ f[d] = "sleeping" /\ g[d] = "ready" /\ h[d] = FALSE
        \/ f[d] = "running" /\ g[d] = "none"
    BY <1>7, <1>10, <2>1 DEF Moves, Goes
  <2>3. \/ Task!Create(d) \/ Task!Run(d) \/ Task!Yield(d) \/ Task!Sleep(d) \/ Task!End(d)
        \/ Task!Resume(d) \/ Task!Wake(d) \/ Task!Timeout(d)
    <3>1. f = [c \in Ctx |-> TaskState(c)] /\ g = [c \in Ctx |-> TaskState(c)']
      BY <1>1, <1>2
    <3>2. /\ b = [c \in Ctx |-> InSleep(status[c]) \/ break_[c]]
          /\ h = [c \in Ctx |-> (InSleep(status[c]) \/ break_[c])']
      BY <1>3, <1>4 DEF Broken
    <3>3. QED
      BY <1>6, <1>8, <2>2, <3>1, <3>2
      DEF Task!Create, Task!Run, Task!Yield, Task!Sleep, Task!End, Task!Resume, Task!Wake,
          Task!Timeout, Task!Go, Task!Report, Task!Waiting
  <2>4. QED  BY <2>3 DEF Task!Next
<1>11. QED  BY <1>5, <1>9, <1>10

\* Only c is touched by a step that leaves all others as they are.
LEMMA OneTouched ==
  ASSUME NEW c \in Ctx, Stays(c) \/ Moves(c),
         \A e \in Ctx \ {c} : /\ status'[e] = status[e] /\ break_'[e] = break_[e]
                              /\ e \in live' <=> e \in live
                              /\ Running(e)' <=> Running(e)
  PROVE  OneMoves
<1>1. \A e \in Ctx \ {c} : Stays(e)
  BY Untouched
<1>2. QED  BY <1>1 DEF OneMoves

LEMMA RunningIsReady ==
  ASSUME IInv, NEW c \in Ctx, Running(c)
  PROVE  status[c] = "Ready_Reset_Reset" /\ c \in live
  BY ConstantsAssumption DEF IInv, AssertsHold, HeldStatus, Hands, Running, InHands

\* The state of a context that is in use and not running is that of its status.
LEMMA StateOfStatus ==
  ASSUME NEW c \in Ctx
  PROVE  /\ c \in live /\ ~Running(c) => TaskState(c) = StatusState(status[c])
         /\ c \in live' /\ ~Running(c)' => TaskState(c)' = StatusState(status'[c])
         /\ c \in live /\ Running(c) => TaskState(c) = "running"
         /\ c \in live' /\ Running(c)' => TaskState(c)' = "running"
         /\ c \notin live => TaskState(c) = "none"
         /\ c \notin live' => TaskState(c)' = "none"
  BY StateNow, StateThen

LEMMA Sim_dco_create ==
  ASSUME IInv, BreakSet, NEW t \in Thread, NEW c \in Ctx, dco_create(t, c)
  PROVE  OneMoves /\ BreakSet'
<1>1. /\ c \notin live /\ live' = live \cup {c}
      /\ UNCHANGED <<ctxVars, workerVars>>
  BY DEF dco_create
<1>2. status[c] = "Yield_Set_Reset" /\ ~Running(c)
  BY <1>1, RunningIsReady DEF IInv, IdleIsReset, StatusReset
<1>3. \A e \in Ctx : Running(e)' <=> Running(e)
  BY <1>1 DEF Running, InHands, workerVars
<1>4. TaskState(c) = "none" /\ TaskState(c)' = "yielding"
  BY <1>1, <1>2, <1>3, StateOfStatus DEF StatusState, ctxVars
<1>5. Moves(c)
  BY <1>1, <1>4 DEF Moves, Goes, Broken, ctxVars
<1>6. OneMoves
  BY <1>1, <1>3, <1>5, OneTouched DEF ctxVars
<1>7. BreakSet'
  BY <1>1 DEF BreakSet, InHands, ctxVars, workerVars
<1>8. QED  BY <1>6, <1>7

LEMMA Sim_dco_resume ==
  ASSUME IInv, BreakSet, NEW t \in Thread, NEW c \in Ctx, dco_resume(t, c)
  PROVE  OneMoves /\ BreakSet'
<1>1. PICK r : r = TryResume(status[c])
  OBVIOUS
<1>2. /\ c \in live /\ live' = live /\ break_' = break_
      /\ status' = [status EXCEPT ![c] = r.to]
      /\ UNCHANGED workerVars
  BY <1>1 DEF dco_resume, SetStatus
<1>3. status \in [Ctx -> Status]
  BY DEF IInv, TypeOK
<1>4. /\ status'[c] = r.to
      /\ \A e \in Ctx \ {c} : status'[e] = status[e]
  BY <1>2, <1>3
<1>5. \A e \in Ctx : Running(e)' <=> Running(e)
  BY <1>2 DEF Running, InHands, workerVars
<1>6. Stays(c) \/ Moves(c)
  <2>1. CASE r.to = status[c]
    BY <1>2, <1>4, <1>5, <2>1, Untouched
  <2>2. CASE r.to # status[c]
    <3>1. \/ status[c] = "Yield_Set_Reset" /\ r.to = "Ready_Reset_Reset"
          \/ status[c] = "Yield_Reset_Reset" /\ r.to = "Yield_Break_Reset"
          \/ status[c] = "Sleep_Reset_Reset" /\ r.to = "Sleep_Break_Reset"
          \/ status[c] = "Sleep_Set_Reset" /\ r.to = "Sleep_Set_Break"
          \/ status[c] = "Sleep_Set_Set" /\ r.to = "Sleep_Set_Remove"
      BY <1>1, <1>3, <2>2, TryResumeCases
    <3>2. ~Running(c)
      BY <3>1, RunningIsReady
    <3>3. TaskState(c) = StatusState(status[c]) /\ TaskState(c)' = StatusState(r.to)
      BY <1>2, <1>4, <1>5, <3>2, StateOfStatus
    <3>4. Broken(c)' = Broken(c)
      BY <1>2, <1>4, <3>1 DEF Broken, InSleep, SleepStatus
    <3>5. \/ TaskState(c) \in {"yielding", "sleeping"} /\ TaskState(c)' = "resumed"
          \/ TaskState(c) = "yielding" /\ TaskState(c)' = "ready"
      BY <3>1, <3>3 DEF StatusState
    <3>6. QED  BY <3>4, <3>5 DEF Moves, Goes
  <2>3. QED  BY <2>1, <2>2
<1>7. OneMoves
  BY <1>2, <1>4, <1>5, <1>6, OneTouched
<1>8. BreakSet'
  <2>1. r.to \in SleepStatus => status[c] \in SleepStatus
    BY <1>1, <1>3, TryResumeCases DEF SleepStatus
  <2>2. QED  BY <1>2, <1>4, <2>1 DEF BreakSet, InHands, workerVars
<1>9. QED  BY <1>7, <1>8

\* Steps that CoTask does not see.
LEMMA Sim_Unseen ==
  ASSUME IInv, BreakSet,
         \/ \E t \in Thread : ThreadStep(t)
         \/ \E w \in Worker : TimeWaitPush(w) \/ RemoveDone(w) \/ TimeoutDone(w) \/ WaitAgain(w)
         \/ UNCHANGED vars
  PROVE  (\A e \in Ctx : Stays(e)) /\ BreakSet'
<1>1. UNCHANGED <<ctxVars, live>>
  BY DEF ThreadStep, in_dco_add_que, dco_sleep_resume, TimeWaitPush, RemoveDone, TimeoutDone,
         WaitAgain, vars
<1>2. \A e \in Ctx : /\ Running(e)' <=> Running(e)
                     /\ InHands(e, {"call"}) => InHands(e, {"call"})'
  <2>1. CASE UNCHANGED workerVars
    BY <2>1 DEF Running, InHands, workerVars
  <2>2. CASE \E w \in Worker : TimeWaitPush(w) \/ RemoveDone(w) \/ TimeoutDone(w) \/ WaitAgain(w)
    <3>1. PICK w \in Worker, p \in PC :
            /\ pc[w] \notin {"run", "call"} /\ p \notin {"run", "call"}
            /\ pc' = [pc EXCEPT ![w] = p]
            /\ \A v \in Worker \ {w} : local_ctx_'[v] = local_ctx_[v]
      BY <2>2 DEF TimeWaitPush, RemoveDone, TimeoutDone, WaitAgain, Loop, Goto, At, PC, IInv, TypeOK
    <3>2. QED  BY <3>1 DEF Running, InHands, IInv, TypeOK
  <2>3. QED
    BY <2>1, <2>2 DEF ThreadStep, in_dco_add_que, dco_sleep_resume, vars
<1>3. \A e \in Ctx : Stays(e)
  BY <1>1, <1>2, Untouched DEF ctxVars
<1>4. BreakSet'
  BY <1>1, <1>2 DEF BreakSet, ctxVars
<1>5. QED  BY <1>3, <1>4

LEMMA Sim_swout_ ==
  ASSUME IInv, BreakSet, NEW w \in Worker, NEW c \in Ctx, c = local_ctx_[w], swout_(w)
  PROVE  OneMoves /\ BreakSet'
<1> USE DEF IInv, TypeOK
<1>1. /\ pc[w] = "call" /\ pc' = [pc EXCEPT ![w] = "sw"]
      /\ break_' = [break_ EXCEPT ![c] = InSleep(status[c]) \/ @]
      /\ UNCHANGED <<status, live, local_ctx_>>
  BY DEF swout_, At, Goto
<1>2. /\ break_'[c] = (InSleep(status[c]) \/ break_[c])
      /\ \A e \in Ctx \ {c} : break_'[e] = break_[e]
  BY <1>1
<1>3. \A e \in Ctx : Running(e)' <=> Running(e)
  BY <1>1 DEF Running, InHands
<1>4. Stays(c)
  <2>1. Broken(c)' = Broken(c)
    BY <1>1, <1>2 DEF Broken
  <2>2. TaskState(c)' = TaskState(c)
    BY <1>1, <1>3, StateNow, StateThen
  <2>3. QED  BY <2>1, <2>2 DEF Stays
<1>5. OneMoves
  BY <1>1, <1>2, <1>3, <1>4, OneTouched
<1>6. BreakSet'
  <2>1. ASSUME NEW d \in Ctx, d # c, status'[d] \in SleepStatus, ~break_'[d]
        PROVE  InHands(d, {"call"})'
    <3>1. InHands(d, {"call"})
      BY <1>1, <1>2, <2>1 DEF BreakSet
    <3>2. QED  BY <1>1, <2>1, <3>1 DEF InHands
  <2>2. status'[c] \in SleepStatus => break_'[c]
    BY <1>1, <1>2 DEF InSleep
  <2>3. QED  BY <2>1, <2>2 DEF BreakSet
<1>7. QED  BY <1>5, <1>6

\* c leaves the processor: no worker runs it any more.
LEMMA Sim_Leaves ==
  ASSUME IInv, NEW w \in Worker, NEW c \in Ctx, c = local_ctx_[w], NEW p \in PC \ {"run"},
         pc' = [pc EXCEPT ![w] = p],
         \A v \in Worker \ {w} : local_ctx_'[v] = local_ctx_[v],
         local_ctx_'[w] \in {c, None}
  PROVE  /\ ~Running(c)'
         /\ \A e \in Ctx \ {c} : /\ Running(e)' <=> Running(e)
                                 /\ InHands(e, {"call"}) => InHands(e, {"call"})'
<1>1. \A v \in Worker \ {w} : local_ctx_[v] # c /\ pc'[v] = pc[v]
  BY DEF IInv, TypeOK, OneOwner
<1>2. pc'[w] = p /\ None \notin Ctx
  BY ConstantsAssumption DEF IInv, TypeOK
<1>3. ~Running(c)'
  BY <1>1, <1>2 DEF Running, InHands
<1>4. ASSUME NEW e \in Ctx \ {c}
      PROVE  /\ Running(e)' <=> Running(e)
             /\ InHands(e, {"call"}) => InHands(e, {"call"})'
  BY <1>1, <1>2 DEF Running, InHands
<1>5. QED  BY <1>3, <1>4

LEMMA Sim_Suspend ==
  ASSUME IInv, BreakSet, NEW w \in Worker, NEW c \in Ctx, c = local_ctx_[w],
         dco_yield(w) \/ dco_sleep_until(w)
  PROVE  OneMoves /\ BreakSet'
<1>1. PICK step : step \in {TryYield(status[c]), TrySleep(status[c])} /\ Suspend(w, step)
  BY DEF dco_yield, dco_sleep_until
<1>2. pc[w] = "run" /\ Running(c)
  BY <1>1 DEF Suspend, At, Running, InHands
<1>3. status[c] = "Ready_Reset_Reset" /\ c \in live
  BY <1>2, RunningIsReady
<1>4. step.to \in {"Yield_Reset_Reset", "Sleep_Reset_Reset"} /\ step.res = 1
  BY <1>1, <1>3 DEF TryYield, TrySleep, Becomes
<1>5. /\ status' = [status EXCEPT ![c] = step.to]
      /\ pc' = [pc EXCEPT ![w] = "call"]
      /\ UNCHANGED <<break_, live, local_ctx_>>
  BY <1>1, <1>4 DEF Suspend, SetStatus, Goto
<1>6. status'[c] = step.to /\ \A e \in Ctx \ {c} : status'[e] = status[e]
  BY <1>5 DEF IInv, TypeOK
<1>7. /\ ~Running(c)'
      /\ \A e \in Ctx \ {c} : /\ Running(e)' <=> Running(e)
                              /\ InHands(e, {"call"}) => InHands(e, {"call"})'
  BY <1>5, Sim_Leaves DEF PC
<1>8. TaskState(c) = "running" /\ TaskState(c)' = StatusState(step.to)
  BY <1>2, <1>3, <1>5, <1>6, <1>7, StateOfStatus
<1>9. Moves(c)
  <2>1. CASE step.to = "Yield_Reset_Reset"
    <3>1. Broken(c)' = Broken(c)
      BY <1>3, <1>5, <1>6, <2>1 DEF Broken, InSleep, SleepStatus
    <3>2. TaskState(c)' = "yielding"
      BY <1>8, <2>1 DEF StatusState
    <3>3. QED  BY <1>8, <3>1, <3>2 DEF Moves, Goes
  <2>2. CASE step.to = "Sleep_Reset_Reset"
    <3>1. Broken(c)' = TRUE
      BY <1>6, <2>2 DEF Broken, InSleep, SleepStatus
    <3>2. TaskState(c)' = "sleeping"
      BY <1>8, <2>2 DEF StatusState
    <3>3. QED  BY <1>8, <3>1, <3>2 DEF Moves, Goes
  <2>3. QED  BY <1>4, <2>1, <2>2
<1>10. OneMoves
  BY <1>5, <1>6, <1>7, <1>9, OneTouched
<1>11. BreakSet'
  <2>1. InHands(c, {"call"})'
    BY <1>5 DEF InHands, IInv, TypeOK
  <2>2. QED  BY <1>5, <1>6, <1>7, <2>1 DEF BreakSet
<1>12. QED  BY <1>10, <1>11

LEMMA Sim_End ==
  ASSUME IInv, BreakSet, NEW w \in Worker, NEW c \in Ctx, c = local_ctx_[w], End(w)
  PROVE  OneMoves /\ BreakSet'
<1>1. /\ status' = [status EXCEPT ![c] = StatusReset]
      /\ break_' = [break_ EXCEPT ![c] = TRUE]
      /\ live' = live \ {c}
      /\ pc' = [pc EXCEPT ![w] = "remove"]
      /\ local_ctx_' = [local_ctx_ EXCEPT ![w] = None]
  BY DEF End, Loop, Goto
<1>2. /\ status'[c] = "Yield_Set_Reset"
      /\ \A e \in Ctx \ {c} : status'[e] = status[e] /\ break_'[e] = break_[e]
      /\ local_ctx_'[w] = None
      /\ \A v \in Worker \ {w} : local_ctx_'[v] = local_ctx_[v]
  BY <1>1 DEF StatusReset, IInv, TypeOK
<1>3. Running(c) /\ c \in live
  <2>1. Running(c)
    BY DEF End, At, Running, InHands
  <2>2. QED  BY <2>1, RunningIsReady
<1>4. \A e \in Ctx \ {c} : /\ Running(e)' <=> Running(e)
                           /\ InHands(e, {"call"}) => InHands(e, {"call"})'
  BY <1>1, <1>2, Sim_Leaves DEF PC
<1>5. Moves(c)
  BY <1>1, <1>3, StateOfStatus DEF Moves, Goes
<1>6. OneMoves
  BY <1>1, <1>2, <1>4, <1>5, OneTouched
<1>7. BreakSet'
  BY <1>2, <1>4 DEF BreakSet, SleepStatus
<1>8. QED  BY <1>6, <1>7

\* The two steps of the switch-out that decide about the status.
LEMMA Sim_switch_out ==
  ASSUME IInv, BreakSet, NEW w \in Worker, NEW c \in Ctx, c = local_ctx_[w],
         in_dco_sw(w) \/ dco_sleep_add(w)
  PROVE  OneMoves /\ BreakSet'
<1>0. PICK r : r = IF pc[w] = "sw" THEN TrySw(status[c]) ELSE TrySleepAdd(status[c])
  OBVIOUS
<1>1. PICK p \in PC \ {"run", "call"} :
        /\ pc[w] \in {"sw", "add"}
        /\ r = (IF pc[w] = "sw" THEN TrySw(status[c]) ELSE TrySleepAdd(status[c]))
        /\ status' = [status EXCEPT ![c] = r.to]
        /\ pc' = [pc EXCEPT ![w] = p]
        /\ local_ctx_' \in {local_ctx_, [local_ctx_ EXCEPT ![w] = None]}
        /\ UNCHANGED <<break_, live>>
  <2>1. CASE in_dco_sw(w)
    <3>1. r = TrySw(status[c])
      BY <1>0, <2>1 DEF in_dco_sw, At
    <3>2. QED  BY <2>1, <3>1 DEF in_dco_sw, SetStatus, Loop, Goto, At, PC
  <2>2. CASE dco_sleep_add(w)
    <3>1. r = TrySleepAdd(status[c])
      BY <1>0, <2>2 DEF dco_sleep_add, At
    <3>2. QED  BY <2>2, <3>1 DEF dco_sleep_add, SetStatus, Loop, Goto, At, PC
  <2>3. QED  BY <2>1, <2>2
<1>2. c # None /\ c \in live /\ status[c] \in HeldStatus(pc[w]) /\ status[c] # "Ready_Reset_Reset"
  BY <1>1, ConstantsAssumption DEF IInv, Hands, AssertsHold, HeldStatus
<1>3. \/ status[c] = "Yield_Reset_Reset" /\ r.to = "Yield_Set_Reset"
      \/ status[c] = "Yield_Break_Reset" /\ r.to = "Ready_Reset_Reset"
      \/ status[c] = "Sleep_Reset_Reset" /\ r.to = "Sleep_Set_Reset"
      \/ status[c] = "Sleep_Break_Reset" /\ r.to = "Ready_Reset_Reset"
      \/ status[c] = "Sleep_Set_Reset" /\ r.to = "Sleep_Set_Set"
      \/ status[c] = "Sleep_Set_Break" /\ r.to = "Ready_Reset_Reset"
  <2>1. status[c] \in Status
    BY DEF IInv, TypeOK
  <2>2. CASE pc[w] = "sw"
    <3>1. r = TrySw(status[c])
      BY <1>1, <2>2
    <3>2. status[c] \in {"Yield_Reset_Reset", "Yield_Break_Reset",
                         "Sleep_Reset_Reset", "Sleep_Break_Reset"}
      BY <1>2, <2>2 DEF HeldStatus
    <3>3. QED  BY <2>1, <3>1, <3>2, TrySwCases
  <2>3. CASE pc[w] = "add"
    <3>1. r = TrySleepAdd(status[c])
      BY <1>1, <2>3
    <3>2. status[c] \in {"Sleep_Set_Reset", "Sleep_Set_Break"}
      BY <1>2, <2>3 DEF HeldStatus
    <3>3. QED  BY <2>1, <3>1, <3>2, TrySleepAddCases
  <2>4. QED  BY <1>1, <2>2, <2>3
<1>4. status'[c] = r.to /\ \A e \in Ctx \ {c} : status'[e] = status[e]
  BY <1>1 DEF IInv, TypeOK
<1>5. /\ local_ctx_'[w] \in {c, None}
      /\ \A v \in Worker \ {w} : local_ctx_'[v] = local_ctx_[v]
  BY <1>1 DEF IInv, TypeOK
<1>6. /\ ~Running(c)'
      /\ \A e \in Ctx \ {c} : /\ Running(e)' <=> Running(e)
                              /\ InHands(e, {"call"}) => InHands(e, {"call"})'
  BY <1>1, <1>5, Sim_Leaves
<1>7. TaskState(c) = StatusState(status[c]) /\ TaskState(c)' = StatusState(r.to)
  BY <1>1, <1>2, <1>4, <1>6, RunningIsReady, StateOfStatus
<1>8. status[c] \in SleepStatus => break_[c]
  <2>1. ~InHands(c, {"call"})
    BY <1>1, <1>2 DEF InHands, IInv, OneOwner
  <2>2. QED  BY <2>1 DEF BreakSet, IInv, TypeOK
<1>9. Broken(c)' = Broken(c)
  BY <1>1, <1>3, <1>4, <1>8 DEF Broken, InSleep, SleepStatus
<1>10. Stays(c) \/ Moves(c)
  <2>1. \/ TaskState(c)' = TaskState(c)
        \/ TaskState(c) = "resumed" /\ TaskState(c)' = "ready"
    BY <1>3, <1>7 DEF StatusState
  <2>2. QED  BY <1>9, <2>1 DEF Stays, Moves, Goes
<1>11. OneMoves
  BY <1>1, <1>4, <1>6, <1>10, OneTouched
<1>12. BreakSet'
  <2>1. r.to \in SleepStatus => status[c] \in SleepStatus
    BY <1>3 DEF SleepStatus
  <2>2. QED  BY <1>1, <1>4, <1>6, <1>8, <2>1 DEF BreakSet
<1>13. QED  BY <1>11, <1>12

\* A timeout or a resume ends the sleep of c: it becomes ready.
LEMMA Sim_Ready ==
  ASSUME IInv, BreakSet, NEW c \in Ctx, NEW b \in BOOLEAN,
         \/ status[c] = "Sleep_Set_Set" /\ b = FALSE
         \/ status[c] = "Sleep_Set_Remove" /\ b = TRUE,
         status' = [status EXCEPT ![c] = "Ready_Reset_Reset"],
         break_' = [break_ EXCEPT ![c] = b], live' = live,
         \A e \in Ctx : /\ Running(e)' <=> Running(e)
                        /\ InHands(e, {"call"}) => InHands(e, {"call"})'
  PROVE  OneMoves /\ BreakSet'
<1>1. /\ status'[c] = "Ready_Reset_Reset" /\ break_'[c] = b
      /\ \A e \in Ctx \ {c} : status'[e] = status[e] /\ break_'[e] = break_[e]
  BY DEF IInv, TypeOK
<1>2. c \in live /\ ~Running(c)
  BY RunningIsReady DEF IInv, IdleIsReset, StatusReset
<1>3. TaskState(c) = StatusState(status[c]) /\ TaskState(c)' = "ready"
  BY <1>1, <1>2, StateOfStatus DEF StatusState
<1>4. Broken(c) = TRUE /\ Broken(c)' = b
  BY <1>1 DEF Broken, InSleep, SleepStatus
<1>5. Moves(c)
  BY <1>3, <1>4 DEF StatusState, Moves, Goes
<1>6. OneMoves
  BY <1>1, <1>5, OneTouched
<1>7. BreakSet'
  BY <1>1 DEF BreakSet, SleepStatus
<1>8. QED  BY <1>6, <1>7

LEMMA Sim_Untouched ==
  ASSUME BreakSet, UNCHANGED <<status, break_, live>>,
         \A e \in Ctx : /\ Running(e)' <=> Running(e)
                        /\ InHands(e, {"call"}) => InHands(e, {"call"})'
  PROVE  (\A e \in Ctx : Stays(e)) /\ BreakSet'
<1>1. \A e \in Ctx : Stays(e)
  BY Untouched
<1>2. QED  BY <1>1 DEF BreakSet

LEMMA Sim_timers ==
  ASSUME IInv, BreakSet, NEW w \in Worker, NEW c \in Ctx,
         \/ dco_sleep_remove(w, c)
         \/ TimerExpires(w, c)
         \/ TimeoutAtOnce(w) /\ c = local_ctx_[w]
  PROVE  (OneMoves \/ \A e \in Ctx : Stays(e)) /\ BreakSet'
<1>1. \A e \in Ctx : /\ Running(e)' <=> Running(e)
                     /\ InHands(e, {"call"}) => InHands(e, {"call"})'
  <2>1. CASE TimeoutAtOnce(w) /\ c = local_ctx_[w]
    <3>1. /\ pc[w] = "added" /\ pc' = [pc EXCEPT ![w] = "remove"]
          /\ \A v \in Worker \ {w} : local_ctx_'[v] = local_ctx_[v]
      BY <2>1 DEF TimeoutAtOnce, Loop, Goto, At, IInv, TypeOK
    <3>2. QED  BY <3>1 DEF Running, InHands, IInv, TypeOK
  <2>2. CASE UNCHANGED workerVars
    BY <2>2 DEF Running, InHands, workerVars
  <2>3. QED  BY <2>1, <2>2 DEF dco_sleep_remove, TimerExpires
<1>2. status \in [Ctx -> Status] /\ break_ \in [Ctx -> BOOLEAN]
  BY DEF IInv, TypeOK
<1>3. CASE dco_sleep_remove(w, c)
  <2>1. status[c] = "Sleep_Set_Remove"
    BY <1>3 DEF dco_sleep_remove, IInv, TimersBelong, Handed
  <2>2. /\ status' = [status EXCEPT ![c] = "Ready_Reset_Reset"]
        /\ break_' = [break_ EXCEPT ![c] = TRUE] /\ live' = live
    BY <1>3, <2>1 DEF dco_sleep_remove, SetStatus, TrySleepRemove, Becomes
  <2>3. QED  BY <1>1, <2>1, <2>2, Sim_Ready
<1>4. CASE dco_sleep_timeout(w, c)
  <2>1. CASE status[c] = "Sleep_Set_Set"
    <3>1. /\ status' = [status EXCEPT ![c] = "Ready_Reset_Reset"]
          /\ break_' = [break_ EXCEPT ![c] = FALSE] /\ live' = live
      BY <1>4, <2>1 DEF dco_sleep_timeout, SetStatus, TrySleepTimeout, Becomes
    <3>2. QED  BY <1>1, <2>1, <3>1, Sim_Ready
  <2>2. CASE status[c] # "Sleep_Set_Set"
    <3>1. UNCHANGED <<status, break_, live>>
      BY <1>2, <1>4, <2>2 DEF dco_sleep_timeout, SetStatus, TrySleepTimeout, Becomes, Fails
    <3>2. QED  BY <1>1, <3>1, Sim_Untouched
  <2>3. QED  BY <2>1, <2>2
<1>5. QED  BY <1>3, <1>4 DEF TimerExpires, TimeoutAtOnce

LEMMA Sim_dco_get_next ==
  ASSUME IInv, BreakSet, NEW w \in Worker, NEW c \in Ctx, dco_get_next(w, c)
  PROVE  OneMoves /\ BreakSet'
<1>1. /\ pc[w] = "pop" /\ ctx_que_[c] > 0
      /\ local_ctx_' = [local_ctx_ EXCEPT ![w] = c]
      /\ pc' = [pc EXCEPT ![w] = "run"]
      /\ UNCHANGED <<status, break_, live>>
  BY DEF dco_get_next, At, Goto
<1>2. status[c] = "Ready_Reset_Reset" /\ \A v \in Worker : local_ctx_[v] # c
  <2>1. \A v \in Worker : v \in Thread
    BY DEF Thread
  <2>2. QED  BY <1>1, <2>1 DEF IInv, AssertsHold, OneOwner, Queued
<1>3. c \in live
  BY <1>2 DEF IInv, IdleIsReset, StatusReset
<1>4. /\ local_ctx_'[w] = c /\ pc'[w] = "run" /\ local_ctx_[w] = None
      /\ \A v \in Worker \ {w} : local_ctx_'[v] = local_ctx_[v] /\ pc'[v] = pc[v]
  BY <1>1 DEF IInv, TypeOK, Hands
<1>5. \A e \in Ctx : InHands(e, {"call"}) => InHands(e, {"call"})'
  BY <1>1, <1>4 DEF InHands
<1>6. \A e \in Ctx \ {c} : Running(e)' <=> Running(e)
  BY <1>1, <1>4 DEF Running, InHands
<1>7. ~Running(c) /\ Running(c)'
  BY <1>2, <1>4 DEF Running, InHands
<1>8. TaskState(c) = "ready" /\ TaskState(c)' = "running"
  BY <1>1, <1>2, <1>3, <1>7, StateOfStatus DEF StatusState
<1>9. Moves(c)
  BY <1>1, <1>8 DEF Moves, Goes, Broken
<1>10. OneMoves
  BY <1>1, <1>6, <1>9, OneTouched
<1>11. BreakSet'
  BY <1>1, <1>5 DEF BreakSet
<1>12. QED  BY <1>10, <1>11

LEMMA NextTask ==
  IInv /\ BreakSet /\ [Next]_vars => (OneMoves \/ \A e \in Ctx : Stays(e)) /\ BreakSet'
<1> SUFFICES ASSUME IInv, BreakSet, [Next]_vars
             PROVE  (OneMoves \/ \A e \in Ctx : Stays(e)) /\ BreakSet'
  OBVIOUS
<1>1. CASE \E t \in Thread : UserCall(t)
  BY <1>1, Sim_dco_create, Sim_dco_resume DEF UserCall
<1>2. CASE \/ \E t \in Thread : ThreadStep(t)
           \/ \E w \in Worker : TimeWaitPush(w) \/ RemoveDone(w) \/ TimeoutDone(w) \/ WaitAgain(w)
           \/ UNCHANGED vars
  BY <1>2, Sim_Unseen
<1>3. ASSUME NEW w \in Worker,
             \/ Leave(w) \/ swout_(w) \/ in_dco_sw(w) \/ dco_sleep_add(w) \/ TimeoutAtOnce(w)
      PROVE  (OneMoves \/ \A e \in Ctx : Stays(e)) /\ BreakSet'
  <2>1. pc[w] \notin {"remove", "timeout", "pop"}
    BY <1>3 DEF Leave, dco_yield, dco_sleep_until, Suspend, End, swout_, in_dco_sw, dco_sleep_add,
                TimeoutAtOnce, At
  <2>2. local_ctx_[w] \in Ctx
    BY <2>1 DEF IInv, TypeOK, Hands
  <2>3. QED
    BY <1>3, <2>2, Sim_Suspend, Sim_End, Sim_swout_, Sim_switch_out, Sim_timers DEF Leave
<1>4. ASSUME NEW w \in Worker, NEW c \in Ctx,
             dco_sleep_remove(w, c) \/ TimerExpires(w, c) \/ dco_get_next(w, c)
      PROVE  (OneMoves \/ \A e \in Ctx : Stays(e)) /\ BreakSet'
  BY <1>4, Sim_timers, Sim_dco_get_next
<1>5. QED  BY <1>1, <1>2, <1>3, <1>4 DEF Next, WorkerStep

(* The scheduler implements CoTask, whatever the number of workers, threads   *)
(* and contexts: every wait is ended once, by one resume or its timeout, and  *)
(* a sleep reports which of them it was (coschedule.cpp:15-178,              *)
(* coworker.cpp:33-102).                                                     *)
THEOREM TaskImplemented == Spec => ImplementsTask
<1>1. Init => Task!Init
  <2>1. Init => \A c \in Ctx : TaskState(c) = "none"
    BY StateNow DEF Init
  <2>2. QED  BY <2>1 DEF Task!Init, Init, InSleep
<1>2. Init => BreakSet
  BY DEF Init, BreakSet, StatusReset, SleepStatus
<1>3. IInv /\ BreakSet /\ [Next]_vars => BreakSet' /\ [Task!Next]_(Task!vars)
  <2>1. (\A e \in Ctx : Stays(e)) => UNCHANGED Task!vars
    BY DEF Stays, Broken, Task!vars
  <2>2. QED  BY <2>1, NextTask, MoveIsTaskStep
<1>4. QED
  BY InitIInv, NextIInv, <1>1, <1>2, <1>3, PTL DEF Spec, ImplementsTask, Task!Spec
===============================================================================
