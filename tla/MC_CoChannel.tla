----------------------------- MODULE MC_CoChannel -----------------------------
(***************************************************************************)
(* Two posters and two receivers, one of them with a timeout, and a buffer *)
(* of one slot: two coroutines may be in either queue while a third one    *)
(* passes by, and every value may be in a different place.                 *)
(***************************************************************************)
EXTENDS CoChannel, TLC

CONSTANTS p1, p2, r1, r2, v1, v2, v3

MCList == {"wait_", "post_"}
MCPosters == {p1, p2}
MCReceivers == {r1, r2}
MCCtx == MCPosters \cup MCReceivers
MCTimed == {r1}
MCCloser == {r2}
MCVal == {v1, v2, v3}
Nobody == {}

\* Values are only moved, and the posters are alike.
Symmetry == Permutations(MCVal) \cup Permutations(MCPosters)
===============================================================================
