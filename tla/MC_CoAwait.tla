------------------------------ MODULE MC_CoAwait ------------------------------
(* A coroutine that awaits without a timeout and one that does with one, both  *)
(* twice, so that a late call of the first handle finds the second await; two  *)
(* threads that call the handles, each handle at most twice.                   *)
EXTENDS CoAwait, TLC

CONSTANTS c1, t1, h1, h2

MCCtx == {c1, t1}
MCTimed == {t1}
MCCaller == {h1, h2}
Symmetry == Permutations(MCCaller)
===============================================================================
