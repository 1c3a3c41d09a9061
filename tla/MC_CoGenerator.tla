---------------------------- MODULE MC_CoGenerator ----------------------------
(* A coroutine that calls one function after another, each yielding up to four *)
(* values: the coroutine of one that has ended may still be on its stack when  *)
(* the next one is created.                                                    *)
EXTENDS CoGenerator

CONSTANTS f1, f2

MCCtx == {Main, f1, f2}
MCTimed == {}
===============================================================================
