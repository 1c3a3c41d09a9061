------------------------------ MODULE MC_CoPark -------------------------------
(***************************************************************************)
(* park: a worker and two threads of their own, with two contexts: callers *)
(* race each other and the worker, and a context can be queued while the   *)
(* other one is executed.  park_blocked has two workers, of which one is   *)
(* listed while the other is called; park_lost needs no more than one      *)
(* worker and one thread.                                                  *)
(***************************************************************************)
EXTENDS CoPark

CONSTANTS x1, x2

MCExternal == {x1}
MCTwo == {x1, x2}

\* sem_ as the constructor ought to leave it, and every value up to its bound.
Zeroed == {0}
UpToSize == 0 .. size
===============================================================================
