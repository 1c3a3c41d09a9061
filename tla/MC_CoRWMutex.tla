----------------------------- MODULE MC_CoRWMutex -----------------------------
(* Three coroutines, each of them a reader or a writer each time it asks: two  *)
(* readers and a writer, or two writers and a reader, in every order.          *)
EXTENDS CoRWMutex

CONSTANTS c1, c2, c3

MCCtx == {c1, c2, c3}
MCSem == {"rsem", "wsem"}
===============================================================================
