--------------------------- MODULE CoGenerator_proofs ---------------------------
(***************************************************************************)
(* What a generator promises, proved for any number of functions that are  *)
(* called one after another and any number of values: the control, and     *)
(* with it the value, is with one side at a time.                          *)
(***************************************************************************)
EXTENDS CoGenerator, FiniteSetTheorems, TLAPS

------------------------------------------------------------------------------
(* The invariant *)

\* Where the caller and a function can be, and the status word there.
Place(c) ==
  /\ pc[c] \in IF c = Main THEN {"out", "pass", "sw", "parked", "woken"}
               ELSE {"new", "pass", "sw", "parked", "woken", "body", "exit", "ended"}
  /\ ~timed_out[c]
  /\ pc[c] \in {"out", "woken", "body", "exit", "ended"} => status[c] = "Ready_Reset_Reset"
  /\ pc[c] = "pass" => status[c] = "Yield_Reset_Reset"
  /\ pc[c] = "sw" => status[c] \in {"Yield_Reset_Reset", "Yield_Break_Reset"}
  /\ pc[c] = "parked" => status[c] \in {"Yield_Set_Reset", "Ready_Reset_Reset"}
  /\ pc[c] = "new" => status[c] = StatusReset

Places == \A c \in Ctx : Place(c)

\* The function in func_ctx_ is the only one that has begun and not ended, and
\* the caller passes the control to nobody else.
Roles ==
  /\ end_ <=> func_ctx_ = None
  /\ pc[Main] = "pass" => func_ctx_ # None
  /\ \A f \in Func :
       /\ pc[f] \notin {"new", "exit", "ended"} <=> func_ctx_ = f
       /\ pc[f] = "exit" => func_ctx_ = None

OneControls ==
  /\ \E c \in Ctx : InControl(c)
  /\ \A c, d \in Ctx : InControl(c) /\ InControl(d) => c = d

\* It is the function's turn to answer while it has the control or the caller
\* passes it on, and the caller's while it is the other way round.
AnswersNext(c) == (c = Main) = (pc[c] = "pass")

Turns ==
  \A c \in Ctx : InControl(c) /\ ~end_ =>
    IF AnswersNext(c)
    THEN given = sent /\ (given > 0 => main_arg_ = <<func_ctx_, given>>)
    ELSE given = sent + 1 /\ func_arg_ = <<func_ctx_, given>>

IInv == TypeOK /\ Places /\ Roles /\ OneControls /\ Turns

------------------------------------------------------------------------------
(* Steps in which the one in control keeps it *)

\* c moves from p to q in the code and nobody gets or loses the control.
LEMMA ControlStays ==
  ASSUME OneControls, \A d \in Ctx : InControl(d)' <=> InControl(d)
  PROVE  OneControls'
BY DEF OneControls

LEMMA StepCreate ==
  ASSUME IInv, NEW f \in Func, Create(f)
  PROVE  IInv'
<1> USE GeneratorAssumption, CtxAssumption DEF Func
<1>1. /\ pc[Main] = "out" /\ status[Main] = "Ready_Reset_Reset" /\ Place(f) /\ f # Main
      /\ pc \in [Ctx -> AsleepPC \cup {"out", "new", "pass", "body", "exit", "ended"}]
      /\ status \in [Ctx -> Status]
  BY DEF IInv, TypeOK, AsleepTypeOK, Places, Place, Create
<1>2. /\ func_ctx_ = None /\ pc[f] = "new" /\ func_ctx_' = f /\ end_' = FALSE
      /\ pc' = [pc EXCEPT ![Main] = "pass", ![f] = "parked"]
      /\ status' = [status EXCEPT ![Main] = "Yield_Reset_Reset"]
      /\ sent' = 0 /\ given' = 0 /\ UNCHANGED <<timed_out, main_arg_, func_arg_>>
  BY <1>1 DEF Create, SetStatus, TryYield, Becomes
<1>3. /\ pc'[Main] = "pass" /\ pc'[f] = "parked"
      /\ status'[Main] = "Yield_Reset_Reset" /\ status'[f] = StatusReset
      /\ \A d \in Ctx : d # Main /\ d # f => pc'[d] = pc[d] /\ status'[d] = status[d]
  BY <1>1, <1>2 DEF Place
<1>4. TypeOK'
  <2>1. pc' \in [Ctx -> AsleepPC \cup {"out", "new", "pass", "body", "exit", "ended"}]
    BY <1>1, <1>2 DEF AsleepPC
  <2>2. status' \in [Ctx -> Status]
    BY <1>1, <1>2 DEF Status, YieldStatus
  <2>3. timed_out' \in [Ctx -> BOOLEAN] /\ main_arg_' \in Values /\ func_arg_' \in Values
    BY <1>2 DEF IInv, TypeOK, AsleepTypeOK
  <2>4. sent' \in 0 .. MaxValues /\ given' \in 0 .. MaxValues
    BY <1>2
  <2>5. QED  BY <1>2, <2>1, <2>2, <2>3, <2>4 DEF TypeOK, AsleepTypeOK
<1>5. Places'
  <2> SUFFICES ASSUME NEW d \in Ctx PROVE Place(d)'
    BY DEF Places
  <2>1. Place(d) /\ timed_out'[d] = timed_out[d]
    BY <1>2 DEF IInv, Places
  <2>2. CASE d \in {Main, f}
    BY <1>1, <1>3, <2>1, <2>2 DEF Place, StatusReset
  <2>3. CASE d \notin {Main, f}
    BY <1>3, <2>1, <2>3 DEF Place
  <2>4. QED  BY <2>2, <2>3
<1>6. Roles'
  <2>1. \A g \in Func : pc[g] # "exit"
    BY <1>1 DEF IInv, OneControls, InControl
  <2>2. \A g \in Func : pc[g] \in {"new", "ended"}
    BY <1>2, <2>1 DEF IInv, Roles
  <2>3. QED  BY <1>1, <1>2, <1>3, <2>2 DEF Roles
<1>7. \A d \in Ctx : InControl(d)' <=> InControl(d)
  BY <1>1, <1>2, <1>3 DEF InControl, StatusReset
<1>8. OneControls'
  BY <1>7, ControlStays DEF IInv
<1>9. Turns'
  <2>1. \A d \in Ctx : InControl(d)' => d = Main
    BY <1>1, <1>7 DEF IInv, OneControls, InControl
  <2>2. AnswersNext(Main)'
    BY <1>3 DEF AnswersNext
  <2>3. QED  BY <1>2, <2>1, <2>2 DEF Turns
<1>10. QED  BY <1>4, <1>5, <1>6, <1>8, <1>9 DEF IInv

\* A step of c from p to q, in control before and after.
LEMMA StepMove ==
  ASSUME IInv, NEW c \in Ctx, NEW q, pc' = [pc EXCEPT ![c] = q],
         InControl(c), InControl(c)', \A d \in Ctx : d # c => status'[d] = status[d]
  PROVE  /\ OneControls' /\ (\A d \in Ctx : InControl(d)' => d = c)
         /\ \A d \in Ctx : d # c => pc'[d] = pc[d]
<1>1. \A d \in Ctx : d # c => pc'[d] = pc[d]
  BY DEF IInv, TypeOK, AsleepTypeOK
<1>2. \A d \in Ctx : InControl(d)' <=> InControl(d)
  BY <1>1 DEF InControl
<1>3. QED  BY <1>1, <1>2, ControlStays DEF IInv, OneControls

LEMMA StepPassing ==
  ASSUME IInv, Send \/ \E f \in Func : dco_yield_func(f)
  PROVE  IInv'
<1> USE GeneratorAssumption, CtxAssumption DEF Func
<1>1. PICK c \in Ctx : IF c = Main THEN Send ELSE dco_yield_func(c)
  OBVIOUS
<1>2. /\ Place(c) /\ pc[c] = IF c = Main THEN "out" ELSE "body"
      /\ pc \in [Ctx -> AsleepPC \cup {"out", "new", "pass", "body", "exit", "ended"}]
      /\ status \in [Ctx -> Status] /\ timed_out \in [Ctx -> BOOLEAN]
  BY <1>1 DEF IInv, TypeOK, AsleepTypeOK, Places, Send, dco_yield_func, Suspend, From
<1>3. status[c] = "Ready_Reset_Reset"
  BY <1>2 DEF Place
<1>4. /\ pc' = [pc EXCEPT ![c] = "pass"] /\ status' = [status EXCEPT ![c] = "Yield_Reset_Reset"]
      /\ timed_out' = [timed_out EXCEPT ![c] = FALSE]
  BY <1>1, <1>3 DEF Send, dco_yield_func, Suspend, From, SetStatus, TryYield, Becomes
<1>5. pc'[c] = "pass" /\ status'[c] = "Yield_Reset_Reset" /\ ~timed_out'[c]
      /\ \A d \in Ctx : d # c => status'[d] = status[d] /\ timed_out'[d] = timed_out[d]
  BY <1>2, <1>4
<1>6. InControl(c) /\ InControl(c)'
  BY <1>2, <1>5 DEF InControl
<1>7. /\ OneControls' /\ (\A d \in Ctx : InControl(d)' => d = c)
      /\ \A d \in Ctx : d # c => pc'[d] = pc[d]
  BY <1>4, <1>5, <1>6, StepMove
<1>8. UNCHANGED <<func_ctx_, end_>>
  BY <1>1 DEF Send, dco_yield_func
<1>9. func_ctx_ # None /\ ~end_ /\ func_ctx_ \in Func
  <2>1. c = Main => ~end_
    BY <1>1 DEF Send
  <2>2. c # Main => func_ctx_ = c
    BY <1>2 DEF IInv, Roles
  <2>3. QED  BY <2>1, <2>2 DEF IInv, Roles, TypeOK
<1>10. sent \in 0 .. MaxValues /\ given \in 0 .. MaxValues
  BY DEF IInv, TypeOK
<1>11. IF c = Main THEN given = sent + 1 ELSE given = sent
  BY <1>2, <1>6, <1>9 DEF IInv, Turns, AnswersNext
<1>12. IF c = Main
       THEN /\ sent' = sent + 1 /\ main_arg_' = <<func_ctx_, sent + 1>>
            /\ UNCHANGED <<func_arg_, given>> /\ sent < MaxValues
       ELSE /\ given' = given + 1 /\ func_arg_' = <<func_ctx_, given + 1>>
            /\ UNCHANGED <<main_arg_, sent>> /\ given < MaxValues
  <2>1. c # Main => func_ctx_ = c
    BY <1>2 DEF IInv, Roles
  <2>2. QED  BY <1>1, <2>1 DEF Send, dco_yield_func
<1>13. TypeOK'
  <2>1. sent' \in 0 .. MaxValues /\ given' \in 0 .. MaxValues
    BY <1>10, <1>12
  <2>2. main_arg_' \in Values /\ func_arg_' \in Values
    <3>1. main_arg_ \in Values /\ func_arg_ \in Values
      BY DEF IInv, TypeOK
    <3>2. \A n \in 0 .. MaxValues : <<func_ctx_, n>> \in Values
      BY <1>9 DEF Values
    <3>3. QED  BY <1>10, <1>12, <3>1, <3>2
  <2>3. pc' \in [Ctx -> AsleepPC \cup {"out", "new", "pass", "body", "exit", "ended"}]
        /\ status' \in [Ctx -> Status] /\ timed_out' \in [Ctx -> BOOLEAN]
    BY <1>2, <1>4 DEF Status, YieldStatus
  <2>4. QED  BY <1>8, <2>1, <2>2, <2>3 DEF IInv, TypeOK, AsleepTypeOK
<1>14. Places'
  BY <1>2, <1>5, <1>7 DEF IInv, Places, Place
<1>15. Roles'
  BY <1>2, <1>5, <1>7, <1>8, <1>9 DEF IInv, Roles
<1>16. Turns'
  <2>1. AnswersNext(c)' <=> c = Main
    BY <1>5 DEF AnswersNext
  <2>2. IF c = Main
        THEN given' = sent' /\ main_arg_' = <<func_ctx_', given'>>
        ELSE given' = sent' + 1 /\ func_arg_' = <<func_ctx_', given'>>
    BY <1>8, <1>10, <1>11, <1>12
  <2>3. QED  BY <1>7, <2>1, <2>2 DEF Turns
<1>17. QED  BY <1>7, <1>13, <1>14, <1>15, <1>16 DEF IInv

LEMMA StepExit ==
  ASSUME IInv, NEW f \in Func, dco_func_exit(f)
  PROVE  IInv'
<1> USE GeneratorAssumption, CtxAssumption DEF Func
<1>1. /\ pc[f] = "body" /\ pc' = [pc EXCEPT ![f] = "exit"] /\ f # Main
      /\ func_ctx_' = None /\ end_' = TRUE
      /\ UNCHANGED <<main_arg_, func_arg_, sent, given, status, timed_out>>
  BY DEF dco_func_exit, From
<1>2. pc'[f] = "exit"
  BY <1>1 DEF IInv, TypeOK, AsleepTypeOK
<1>3. InControl(f) /\ InControl(f)'
  BY <1>1, <1>2 DEF InControl
<1>4. /\ OneControls' /\ (\A d \in Ctx : InControl(d)' => d = f)
      /\ \A d \in Ctx : d # f => pc'[d] = pc[d]
  BY <1>1, <1>3, StepMove
<1>5. func_ctx_ = f /\ \A g \in Func : g # f => pc[g] \in {"new", "exit", "ended"}
  BY <1>1 DEF IInv, Roles
<1>6. \A g \in Func : g # f => pc[g] # "exit"
  BY <1>3 DEF IInv, OneControls, InControl
<1>7. pc[Main] # "pass"
  BY <1>1, <1>3 DEF IInv, OneControls, InControl
<1>8. TypeOK'
  BY <1>1 DEF IInv, TypeOK, AsleepTypeOK
<1>9. Places'
  BY <1>1, <1>2, <1>4 DEF IInv, Places, Place
<1>10. Roles'
  BY <1>1, <1>2, <1>4, <1>5, <1>6, <1>7 DEF IInv, Roles
<1>11. QED  BY <1>1, <1>4, <1>8, <1>9, <1>10 DEF IInv, Turns

LEMMA StepAlong ==
  ASSUME IInv, NEW c \in Ctx, Return(c) \/ (Run(c) /\ UNCHANGED genVars)
  PROVE  IInv'
<1> USE GeneratorAssumption, CtxAssumption DEF Func
<1>1. Place(c) /\ UNCHANGED genVars /\ UNCHANGED <<status, timed_out>>
  BY DEF IInv, Places, Return, Run
<1>2. PICK q \in {"out", "body", "woken"} :
        /\ pc' = [pc EXCEPT ![c] = q]
        /\ pc[c] \in {"woken", "parked"} /\ status[c] = "Ready_Reset_Reset"
        /\ q = "out" => c = Main
        /\ q = "body" => c # Main
  BY <1>1 DEF Return, Run, From, Place
<1>3. pc'[c] = q
  BY <1>2 DEF IInv, TypeOK, AsleepTypeOK
<1>4. InControl(c) /\ InControl(c)'
  BY <1>1, <1>2, <1>3 DEF InControl
<1>5. /\ OneControls' /\ (\A d \in Ctx : InControl(d)' => d = c)
      /\ \A d \in Ctx : d # c => pc'[d] = pc[d]
  BY <1>1, <1>2, <1>4, StepMove
<1>6. TypeOK'
  BY <1>1, <1>2 DEF IInv, TypeOK, AsleepTypeOK, AsleepPC, genVars
<1>7. Places'
  BY <1>1, <1>2, <1>3, <1>5 DEF IInv, Places, Place
<1>8. Roles'
  BY <1>1, <1>2, <1>3, <1>5 DEF IInv, Roles, genVars
<1>9. Turns'
  <2>1. AnswersNext(c)' <=> AnswersNext(c)
    BY <1>2, <1>3 DEF AnswersNext
  <2>2. QED  BY <1>1, <1>4, <1>5, <2>1 DEF IInv, Turns, genVars
<1>10. QED  BY <1>5, <1>6, <1>7, <1>8, <1>9 DEF IInv

LEMMA StepSwitch ==
  ASSUME IInv, NEW c \in Ctx, Switch(c), UNCHANGED genVars
  PROVE  IInv'
<1> USE GeneratorAssumption, CtxAssumption DEF Func
<1>1. /\ pc[c] = "sw" /\ pc' = [pc EXCEPT ![c] = "parked"] /\ UNCHANGED timed_out
      /\ status[c] \in {"Yield_Reset_Reset", "Yield_Break_Reset"}
  BY DEF IInv, Places, Place, Switch, From
<1>2. status' = [status EXCEPT ![c] = IF status[c] = "Yield_Break_Reset"
                                      THEN "Ready_Reset_Reset" ELSE "Yield_Set_Reset"]
  BY <1>1 DEF Switch, SetStatus, TrySw, Becomes
<1>3. /\ pc'[c] = "parked"
      /\ status'[c] = IF status[c] = "Yield_Break_Reset"
                      THEN "Ready_Reset_Reset" ELSE "Yield_Set_Reset"
      /\ \A d \in Ctx : d # c => pc'[d] = pc[d] /\ status'[d] = status[d]
  BY <1>1, <1>2 DEF IInv, TypeOK, AsleepTypeOK
<1>4. \A d \in Ctx : InControl(d)' <=> InControl(d)
  BY <1>1, <1>3 DEF InControl
<1>5. OneControls'
  BY <1>4, ControlStays DEF IInv
<1>6. TypeOK'
  BY <1>1, <1>2 DEF IInv, TypeOK, AsleepTypeOK, AsleepPC, Status, YieldStatus, genVars
<1>7. Places'
  BY <1>1, <1>3 DEF IInv, Places, Place
<1>8. Roles'
  BY <1>1, <1>3 DEF IInv, Roles, genVars
<1>9. Turns'
  <2>1. \A d \in Ctx : AnswersNext(d)' <=> AnswersNext(d)
    BY <1>1, <1>3 DEF AnswersNext
  <2>2. QED  BY <1>4, <2>1 DEF IInv, Turns, genVars
<1>10. QED  BY <1>5, <1>6, <1>7, <1>8, <1>9 DEF IInv

------------------------------------------------------------------------------
(* The step that passes the control *)

\* The one that gets the control has yielded and has not been resumed.
LEMMA OtherWaits ==
  ASSUME IInv, NEW c \in Ctx, pc[c] \in {"pass", "exit"}
  PROVE  /\ Other(c) \in Ctx /\ Other(c) # c
         /\ pc[Other(c)] \in {"sw", "parked"}
         /\ status[Other(c)] = IF pc[Other(c)] = "sw" THEN "Yield_Reset_Reset"
                               ELSE "Yield_Set_Reset"
<1> USE GeneratorAssumption, CtxAssumption DEF Func
<1>1. Other(c) \in Ctx /\ Other(c) # c
  BY DEF IInv, TypeOK, Places, Place, Roles, Other
<1>2. ~InControl(Other(c))
  BY <1>1 DEF IInv, OneControls, InControl
<1>3. Place(Other(c))
  BY <1>1 DEF IInv, Places
<1>4. Other(c) # Main => pc[Other(c)] \notin {"new", "exit", "ended"}
  BY <1>1 DEF IInv, Roles, Other
<1>5. QED  BY <1>1, <1>2, <1>3, <1>4 DEF Place, InControl

LEMMA StepPass ==
  ASSUME IInv, NEW c \in Ctx, Pass(c)
  PROVE  IInv'
<1> USE GeneratorAssumption, CtxAssumption DEF Func
<1>1. /\ pc[c] \in {"pass", "exit"} /\ UNCHANGED genVars /\ UNCHANGED timed_out
      /\ pc' = [pc EXCEPT ![c] = IF pc[c] = "pass" THEN "sw" ELSE "ended"]
      /\ status' = [status EXCEPT ![Other(c)] = TryResume(status[Other(c)]).to]
      /\ InControl(c) /\ Place(c)
  BY DEF Pass, SetStatus, InControl, IInv, Places
<1>2. PICK d \in Ctx : d = Other(c)
  BY <1>1, OtherWaits
<1>3. /\ d # c /\ pc[d] \in {"sw", "parked"}
      /\ status[d] = IF pc[d] = "sw" THEN "Yield_Reset_Reset" ELSE "Yield_Set_Reset"
  BY <1>1, <1>2, OtherWaits
<1>4. status' = [status EXCEPT ![d] = IF pc[d] = "sw" THEN "Yield_Break_Reset"
                                      ELSE "Ready_Reset_Reset"]
  BY <1>1, <1>2, <1>3 DEF TryResume, Becomes
<1>5. /\ pc'[c] = (IF pc[c] = "pass" THEN "sw" ELSE "ended")
      /\ status'[d] = IF pc[d] = "sw" THEN "Yield_Break_Reset" ELSE "Ready_Reset_Reset"
      /\ \A e \in Ctx : e # c => pc'[e] = pc[e]
      /\ \A e \in Ctx : e # d => status'[e] = status[e]
  BY <1>1, <1>4 DEF IInv, TypeOK, AsleepTypeOK
<1>6. ~InControl(c)'
  BY <1>1, <1>3, <1>5 DEF Place, InControl
<1>7. InControl(d)'
  BY <1>3, <1>5 DEF InControl
<1>8. \A e \in Ctx : InControl(e)' <=> e = d
  <2>1. \A e \in Ctx : e # c /\ e # d => ~InControl(e)
    BY <1>1 DEF IInv, OneControls
  <2>2. \A e \in Ctx : e # c /\ e # d => ~InControl(e)'
    BY <1>5, <2>1 DEF InControl
  <2>3. QED  BY <1>6, <1>7, <2>2
<1>9. OneControls'
  BY <1>8 DEF OneControls
<1>10. TypeOK'
  BY <1>1, <1>4 DEF IInv, TypeOK, AsleepTypeOK, AsleepPC, Status, YieldStatus, genVars
<1>11. Places'
  BY <1>1, <1>3, <1>5 DEF IInv, Places, Place
<1>12. Roles'
  BY <1>1, <1>3, <1>5 DEF IInv, Roles, genVars, Place
<1>13. Turns'
  <2>1. pc'[d] # "pass"
    BY <1>3, <1>5
  <2>2. end_' \/ (AnswersNext(d)' <=> AnswersNext(c))
    <3>1. pc[c] = "exit" => end_
      BY <1>1 DEF IInv, Roles, Place
    <3>2. pc[c] = "pass" => (AnswersNext(c) <=> c = Main)
      BY DEF AnswersNext
    <3>3. AnswersNext(d)' <=> d # Main
      BY <2>1 DEF AnswersNext
    <3>4. c = Main <=> d # Main
      BY <1>2, <1>3 DEF Other
    <3>5. QED  BY <1>1, <3>1, <3>2, <3>3, <3>4 DEF genVars
  <2>3. QED  BY <1>1, <1>8, <2>2 DEF IInv, Turns, genVars
<1>14. QED  BY <1>9, <1>10, <1>11, <1>12, <1>13 DEF IInv

------------------------------------------------------------------------------
(* The theorems *)

LEMMA InvariantInit == Init => IInv
<1> SUFFICES ASSUME Init PROVE IInv
  OBVIOUS
<1> USE GeneratorAssumption, CtxAssumption DEF Func, Init
<1>1. TypeOK
  BY DEF TypeOK, AsleepTypeOK, Values, Status, YieldStatus, StatusReset
<1>2. Places
  BY DEF Places, Place, StatusReset
<1>3. Roles
  BY DEF Roles
<1>4. \A c \in Ctx : InControl(c) <=> c = Main
  BY DEF InControl
<1>5. OneControls
  BY <1>4 DEF OneControls
<1>6. QED  BY <1>1, <1>2, <1>3, <1>5 DEF IInv, Turns

LEMMA InvariantStep == IInv /\ [Next]_vars => IInv'
<1> SUFFICES ASSUME IInv, [Next]_vars PROVE IInv'
  OBVIOUS
<1>1. CASE Send \/ \E f \in Func : dco_yield_func(f)
  BY <1>1, StepPassing
<1>2. CASE \E f \in Func : Create(f)
  BY <1>2, StepCreate
<1>3. CASE \E f \in Func : dco_func_exit(f)
  BY <1>3, StepExit
<1>4. ASSUME NEW c \in Ctx, Pass(c) PROVE IInv'
  BY <1>4, StepPass
<1>5. ASSUME NEW c \in Ctx, Return(c) PROVE IInv'
  BY <1>5, StepAlong
<1>6. ASSUME NEW c \in Ctx, SchedStep(c), UNCHANGED genVars PROVE IInv'
  <2>1. ~SleepAdd(c) /\ ~SleepTimeout(c) /\ ~SleepRemove(c)
    BY DEF IInv, Places, Place, SleepAdd, SleepTimeout, SleepRemove, TrySleepAdd,
           TrySleepTimeout, TrySleepRemove, Fails, Becomes
  <2>2. QED  BY <1>6, <2>1, StepSwitch, StepAlong DEF SchedStep
<1>7. CASE UNCHANGED vars
  <2>1. UNCHANGED genVars /\ UNCHANGED <<status, timed_out, pc>>
    BY <1>7 DEF vars
  <2>2. \A c \in Ctx : /\ InControl(c)' <=> InControl(c)
                       /\ AnswersNext(c)' <=> AnswersNext(c)
                       /\ Place(c)' <=> Place(c)
    BY <2>1 DEF InControl, AnswersNext, Place
  <2>3. TypeOK' /\ Roles'
    BY <2>1 DEF IInv, TypeOK, AsleepTypeOK, Roles, genVars
  <2>4. QED  BY <2>1, <2>2, <2>3 DEF IInv, Places, OneControls, Turns, genVars
<1>8. QED  BY <1>1, <1>2, <1>3, <1>4, <1>5, <1>6, <1>7 DEF Next, Step

LEMMA Invariant == Spec => []IInv
BY InvariantInit, InvariantStep, PTL DEF Spec

(* The variables of the generator and of its coroutines keep their types.      *)
THEOREM TypeCorrect == Spec => []TypeOK
<1>1. IInv => TypeOK
  BY DEF IInv
<1>2. QED  BY <1>1, Invariant, PTL

(* Caller and function pass the control to and fro without losing or doubling  *)
(* it, and each finds the value that the other has passed last, for any number *)
(* of functions and values.                                                    *)
THEOREM ControlIsHandedOver == Spec => []HandsOver
<1>1. ASSUME IInv PROVE HandsOver
  <2>1. Cardinality({c \in Ctx : InControl(c)}) = 1
    <3>1. PICK c \in Ctx : {d \in Ctx : InControl(d)} = {c}
      BY <1>1 DEF IInv, OneControls
    <3>2. QED  BY <3>1, FS_Singleton
  <2>2. ASSUME NEW c \in Ctx, pc[c] \in {"pass", "exit"}
        PROVE  TryResume(status[Other(c)]).res >= 0
    BY <1>1, <2>2, OtherWaits DEF TryResume, Becomes
  <2>3. pc[Main] = "woken" /\ ~end_ => func_arg_ = <<func_ctx_, sent + 1>>
    BY <1>1, GeneratorAssumption DEF IInv, Turns, InControl, AnswersNext
  <2>4. ASSUME NEW f \in Func, pc[f] = "woken", given > 0 PROVE main_arg_ = <<f, given>>
    <3>1. f \in Ctx /\ f # Main /\ func_ctx_ = f /\ ~end_
      BY <1>1, <2>4, CtxAssumption DEF IInv, Roles, Func
    <3>2. QED  BY <1>1, <2>4, <3>1 DEF IInv, Turns, InControl, AnswersNext
  <2>5. QED  BY <2>1, <2>2, <2>3, <2>4 DEF HandsOver
<1>2. QED  BY <1>1, Invariant, PTL
===============================================================================
