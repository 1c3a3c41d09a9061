------------------------------ MODULE MC_CoFdCtx ------------------------------
(***************************************************************************)
(* A coroutine that polls once without a timeout, and one that polls twice *)
(* with a timeout: its first event may still be listed when it polls again *)
(* and when target() comes to it.  What is checked is the same for POLLIN  *)
(* and POLLOUT, so that the first one need not poll for both in turn.      *)
(***************************************************************************)
EXTENDS CoFdCtx, TLC

CONSTANTS c1, t1

MCCtx == {c1, t1}
MCTimed == {t1}
MCInterests == (c1 :> {{"OUT"}, {"IN", "OUT"}}) @@ (t1 :> {{"IN"}, {"OUT"}, {"IN", "OUT"}})
MCArrivals == {"IN", "OUT"}
MCMaxPolls == (c1 :> 1) @@ (t1 :> 2)
===============================================================================
