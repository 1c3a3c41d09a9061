------------------------------ MODULE CoGenerator ------------------------------
(***************************************************************************)
(* cogenerator: a coroutine, main_ctx_, runs a function in a coroutine of  *)
(* its own, func_ctx_, and the two pass the control, and a value, to each  *)
(* other: who passes it yields, and resumes the other one in the callback, *)
(* when it is still on its own stack.  The other one may be run by another *)
(* worker at once, and be back before the first has been switched out.     *)
(*                                                                         *)
(* A function yields any number of values and ends.  The caller calls no   *)
(* function that has ended: it would yield with nobody to resume it.       *)
(* The n-th value that one side passes is <<f, n>>, f being the function.  *)
(***************************************************************************)
EXTENDS CoAsleep, FiniteSets

CONSTANTS
  Main,        \* the coroutine that calls create
  MaxValues    \* bound: values that a function yields

Func == Ctx \ {Main}    \* the contexts that dco_create returns, each once

ASSUME GeneratorAssumption == Main \in Ctx /\ Timed = {} /\ MaxValues \in Nat

VARIABLES
  func_ctx_, end_, main_arg_, func_arg_,
  sent, given    \* how many values the caller and the function have passed

genVars == <<func_ctx_, end_, main_arg_, func_arg_, sent, given>>
vars == <<genVars, status, timed_out, pc>>

Values == (Func \X (0 .. MaxValues)) \cup {None}

TypeOK ==
  /\ AsleepTypeOK({"out", "new", "pass", "body", "exit", "ended"})
  /\ func_ctx_ \in Func \cup {None} /\ end_ \in BOOLEAN
  /\ main_arg_ \in Values /\ func_arg_ \in Values
  /\ sent \in 0 .. MaxValues /\ given \in 0 .. MaxValues

Init ==
  /\ status = [c \in Ctx |-> IF c = Main THEN "Ready_Reset_Reset" ELSE StatusReset]
  /\ timed_out = [c \in Ctx |-> FALSE]
  /\ pc = [c \in Ctx |-> IF c = Main THEN "out" ELSE "new"]
  /\ func_ctx_ = None /\ end_ = TRUE
  /\ main_arg_ = None /\ func_arg_ = None
  /\ sent = 0 /\ given = 0

------------------------------------------------------------------------------
(* The caller *)

\* create() makes the coroutine of f and yields to it.
Create(f) ==
  /\ func_ctx_ = None /\ pc[f] = "new"
  /\ func_ctx_' = f /\ end_' = FALSE
  /\ LET step == TryYield(status[Main])
     IN  /\ pc[Main] = "out" /\ pc' = [pc EXCEPT ![Main] = "pass", ![f] = "parked"]
         /\ SetStatus(Main, step)
  /\ sent' = 0 /\ given' = 0
  /\ UNCHANGED <<timed_out, main_arg_, func_arg_>>

Send ==
  /\ ~end_ /\ sent < MaxValues
  /\ sent' = sent + 1 /\ main_arg_' = <<func_ctx_, sent + 1>>
  /\ Suspend(Main, "out", "pass", "out")
  /\ UNCHANGED <<func_ctx_, end_, func_arg_, given>>

(* The function *)

\* Mutant: the value is stored when the caller has been resumed.
dco_yield_func_late(f) ==
  /\ given < MaxValues /\ given' = given + 1
  /\ Suspend(f, "body", "pass", "body")
  /\ func_arg_' = IF given = 0 THEN None ELSE <<f, given>>
  /\ UNCHANGED <<func_ctx_, end_, main_arg_, sent>>

dco_yield_func(f) ==
  /\ given < MaxValues /\ given' = given + 1
  /\ func_arg_' = <<f, given + 1>>
  /\ Suspend(f, "body", "pass", "body")
  /\ UNCHANGED <<func_ctx_, end_, main_arg_, sent>>

\* Mutant: end_ is left alone.
dco_func_exit_no_end(f) ==
  /\ From(f, "body", "exit")
  /\ func_ctx_' = None
  /\ UNCHANGED <<end_, main_arg_, func_arg_, sent, given, status, timed_out>>

dco_func_exit(f) ==
  /\ From(f, "body", "exit")
  /\ func_ctx_' = None /\ end_' = TRUE
  /\ UNCHANGED <<main_arg_, func_arg_, sent, given, status, timed_out>>

(* Both *)

\* Whom c resumes in its callback; the function when it ends.
Other(c) == IF c = Main THEN func_ctx_ ELSE Main

\* Mutant: the caller's callback resumes a function that waits, and only that.
Pass_checked(c) ==
  /\ pc[c] \in {"pass", "exit"}
  /\ pc' = [pc EXCEPT ![c] = IF pc[c] = "pass" THEN "sw" ELSE "ended"]
  /\ IF status[Other(c)] = "Yield_Set_Reset"
     THEN SetStatus(Other(c), TryResume(status[Other(c)]))
     ELSE UNCHANGED status
  /\ UNCHANGED <<genVars, timed_out>>

Pass(c) ==
  /\ pc[c] \in {"pass", "exit"}
  /\ pc' = [pc EXCEPT ![c] = IF pc[c] = "pass" THEN "sw" ELSE "ended"]
  /\ SetStatus(Other(c), TryResume(status[Other(c)]))
  /\ UNCHANGED <<genVars, timed_out>>

\* c runs again and returns the value it was passed.
Return(c) ==
  /\ From(c, "woken", IF c = Main THEN "out" ELSE "body")
  /\ UNCHANGED <<genVars, status, timed_out>>

------------------------------------------------------------------------------
Step(c) ==
  \/ Pass(c) \/ Return(c)
  \/ SchedStep(c) /\ UNCHANGED genVars
  \/ c \in Func /\ (dco_yield_func(c) \/ dco_func_exit(c))

Next == Send \/ (\E f \in Func : Create(f)) \/ \E c \in Ctx : Step(c)

Spec == Init /\ [][Next]_vars

\* Ready coroutines are run (CoSched, CoPark); the function goes on to its next
\* yield, or ends.
FairSpec == Spec /\ \A c \in Ctx : WF_vars(Step(c))

------------------------------------------------------------------------------
(* Properties *)

\* c has the control: it runs its own code, is about to, or passes it on.
InControl(c) ==
  \/ pc[c] \in {"out", "woken", "body", "pass", "exit"}
  \/ pc[c] = "sw" /\ status[c] = "Yield_Break_Reset"
  \/ pc[c] = "parked" /\ status[c] = "Ready_Reset_Reset"

(* The control is with one of the two, always: it is not lost when it is       *)
(* passed back to a coroutine that has not been switched out yet, by then on   *)
(* another worker, and never doubled.  So main_arg_ and func_arg_, which are   *)
(* plain members, are handed over in step: whoever runs again finds the value  *)
(* that the other one has passed last, in answer to its own.                   *)
HandsOver ==
  /\ Cardinality({c \in Ctx : InControl(c)}) = 1
  /\ \A c \in Ctx : pc[c] \in {"pass", "exit"} => TryResume(status[Other(c)]).res >= 0
  /\ pc[Main] = "woken" /\ ~end_ => func_arg_ = <<func_ctx_, sent + 1>>
  /\ \A f \in Func : pc[f] = "woken" /\ given > 0 => main_arg_ = <<f, given>>

(* A call of the function returns, with a value or because the function ended. *)
CallReturns == pc[Main] # "out" ~> pc[Main] = "out"
===============================================================================
