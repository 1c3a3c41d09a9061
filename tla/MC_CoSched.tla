------------------------------ MODULE MC_CoSched ------------------------------
(* Two workers and one outside thread, two contexts: enough for a context to *)
(* be switched out by one worker while the other worker and the outsider     *)
(* both resume it, and for its timer to expire meanwhile.                    *)
EXTENDS CoSched

CONSTANTS c1, c2, w1, w2, x1

MCCtx == {c1, c2}
MCWorker == {w1, w2}
MCExternal == {x1}
===============================================================================
