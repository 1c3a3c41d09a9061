-------------------------------- MODULE CoTask --------------------------------
(***************************************************************************)
(* What the scheduler promises about one coroutine, whatever workers,      *)
(* queues and timers it uses: a coroutine alternates between running and   *)
(* waiting; each wait is ended exactly once, by one resume or - if it is a *)
(* sleep - by its timeout; and a sleep reports which of the two ended it   *)
(* (dco_sleep_until returns 1 when interrupted, 0 on timeout).  A resume   *)
(* claims the wait first and the coroutine becomes ready later; a timeout  *)
(* does both at once, and so may the resume of a coroutine that yielded.   *)
(***************************************************************************)
CONSTANT Ctx

VARIABLES
  state,     \* state[c]: one of States
  broken     \* broken[c]: the last sleep of c was interrupted, not timed out

vars == <<state, broken>>

Waiting == {"yielding", "sleeping"}
States == Waiting \cup {"none", "resumed", "ready", "running"}

\* Before a coroutine has slept, what its last sleep reported is anything.
Init ==
  /\ state = [c \in Ctx |-> "none"]
  /\ broken \in [Ctx -> BOOLEAN]

Go(c, from, to) == state[c] \in from /\ state' = [state EXCEPT ![c] = to]
Report(c, b) == broken' = [broken EXCEPT ![c] = b]

\* A new coroutine waits for its first resume as if it had yielded.
Create(c) == Go(c, {"none"}, "yielding") /\ UNCHANGED broken

Yield(c) == Go(c, {"running"}, "yielding") /\ UNCHANGED broken

\* A sleep counts as interrupted until its timeout ends it.
Sleep(c) == Go(c, {"running"}, "sleeping") /\ Report(c, TRUE)

Resume(c) == Go(c, Waiting, "resumed") /\ UNCHANGED broken

Wake(c) == Go(c, {"resumed", "yielding"}, "ready") /\ UNCHANGED broken

Timeout(c) == Go(c, {"sleeping"}, "ready") /\ Report(c, FALSE)

Run(c) == Go(c, {"ready"}, "running") /\ UNCHANGED broken

End(c) == Go(c, {"running"}, "none") /\ \E b \in BOOLEAN : Report(c, b)

Next ==
  \E c \in Ctx :
    \/ Create(c) \/ Run(c) \/ Yield(c) \/ Sleep(c) \/ End(c)
    \/ Resume(c) \/ Wake(c) \/ Timeout(c)

Spec == Init /\ [][Next]_vars
===============================================================================
