------------------------------ MODULE MC_CoTimed ------------------------------
(***************************************************************************)
(* Two coroutines without a timeout and one with: one that times out may   *)
(* be in front of, behind, or between others in either list.               *)
(***************************************************************************)
EXTENDS CoTimed, TLC

CONSTANTS c1, c2, t

MCCtx == {c1, c2, t}
MCTimed == {t}
MCList == {"sem", "cond"}
Symmetry == Permutations({c1, c2})
===============================================================================
