------------------------------ MODULE CoWaitList ------------------------------
(***************************************************************************)
(* conolist_mt, the list of waiting coroutines that condition variables,   *)
(* channels and timed semaphores share, and the coroutines in it.          *)
(*                                                                         *)
(* A node lives on the stack of the coroutine that waits, so the node is   *)
(* the coroutine here.  A coroutine enters the list in the callback of its *)
(* yield or sleep; who pops it resumes it under the lock of the list; a    *)
(* sleeper whose timer wins removes itself when it runs again, whether it  *)
(* is still listed or not.  Each list operation is one step: the callers   *)
(* hold its spinlock.  So is dco_resume within a pop, because nobody       *)
(* reads the links in between.                                             *)
(***************************************************************************)
EXTENDS CoAsleep, FiniteSets

CONSTANT List  \* the lists

ASSUME ListAssumption == None \notin List

\* However many coroutines a program creates.
ASSUME FiniteAssumption == IsFiniteSet(Ctx)

VARIABLES
  head_, tail_,  \* of each list
  prev_, next_,  \* of each node
  on             \* on[c]: the list c waits on

listVars == <<head_, tail_, prev_, next_>>
waitVars == <<listVars, on, status, timed_out, pc>>

WaitTypeOK(PC) ==
  /\ AsleepTypeOK({"push"} \cup PC)
  /\ head_ \in [List -> Ctx \cup {None}] /\ tail_ \in [List -> Ctx \cup {None}]
  /\ prev_ \in [Ctx -> Ctx \cup {None}] /\ next_ \in [Ctx -> Ctx \cup {None}]
  /\ on \in [Ctx -> List \cup {None}]

WaitInit ==
  /\ AsleepInit
  /\ head_ = [l \in List |-> None] /\ tail_ = [l \in List |-> None]
  /\ prev_ = [c \in Ctx |-> None] /\ next_ = [c \in Ctx |-> None]
  /\ on = [c \in Ctx |-> None]

------------------------------------------------------------------------------
(* conolist_st *)

Push(l, n) ==
  /\ head_' = IF tail_[l] = None THEN [head_ EXCEPT ![l] = n] ELSE head_
  /\ tail_' = [tail_ EXCEPT ![l] = n]
  /\ prev_' = [prev_ EXCEPT ![n] = tail_[l]]
  /\ next_' = [x \in Ctx |-> IF x = tail_[l] THEN n ELSE IF x = n THEN None ELSE next_[x]]

Pop(l) ==
  LET n == head_[l]
  IN  /\ head_' = [head_ EXCEPT ![l] = next_[n]]
      /\ tail_' = IF next_[n] = None THEN [tail_ EXCEPT ![l] = None] ELSE tail_
      /\ prev_' = [x \in Ctx |-> IF x \in {n, next_[n]} THEN None ELSE prev_[x]]
      /\ next_' = [next_ EXCEPT ![n] = None]

\* Mutant: a node in front of the others is taken for one in the middle.
Remove_no_head(l, n) ==
  /\ tail_' = IF n = tail_[l] THEN [tail_ EXCEPT ![l] = prev_[n]] ELSE tail_
  /\ prev_' = [x \in Ctx |-> CASE x = n        -> None
                               [] x = next_[n] -> prev_[n]
                               [] OTHER        -> prev_[x]]
  /\ next_' = [x \in Ctx |-> CASE x = n        -> None
                               [] x = prev_[n] -> next_[n]
                               [] OTHER        -> next_[x]]
  /\ UNCHANGED head_

\* The branches of the code: n is the head, or else the tail, or else in the
\* middle or, with no neighbours, in no list.
Remove(l, n) ==
  LET p == prev_[n]
      s == next_[n]
      isHead == n = head_[l]
      isTail == ~isHead /\ n = tail_[l]
  IN  /\ head_' = IF isHead THEN [head_ EXCEPT ![l] = s]
                  ELSE IF isTail /\ p = None THEN [head_ EXCEPT ![l] = None]
                  ELSE head_
      /\ tail_' = IF isHead /\ s = None THEN [tail_ EXCEPT ![l] = None]
                  ELSE IF isTail THEN [tail_ EXCEPT ![l] = p]
                  ELSE tail_
      /\ prev_' = [x \in Ctx |-> CASE x = n            -> None
                                   [] x = s /\ isHead  -> None
                                   [] x = s /\ ~isTail -> p
                                   [] OTHER            -> prev_[x]]
      /\ next_' = [x \in Ctx |-> CASE x = n                        -> None
                                   [] x = p /\ isTail              -> None
                                   [] x = p /\ ~isHead /\ ~isTail  -> s
                                   [] OTHER                        -> next_[x]]

------------------------------------------------------------------------------
\* c moves on, and neither the lists nor any status change.
Move(c, p, q) == From(c, p, q) /\ UNCHANGED <<listVars, status, timed_out>>

SuspendSelf(c, p, q, r) == Suspend(c, p, q, r) /\ UNCHANGED <<listVars, on>>

\* A look in the callback: c resumes itself if it is a success.  Nobody knows
\* c yet, so the look and the dco_resume are one step.
Look(c, p, success, q) ==
  /\ From(c, p, IF success THEN "sw" ELSE q)
  /\ IF success THEN SetStatus(c, TryResume(status[c])) ELSE UNCHANGED status
  /\ UNCHANGED <<listVars, timed_out, on>>

PushSelf(c, q) ==
  /\ From(c, "push", q)
  /\ Push(on[c], c)
  /\ UNCHANGED <<status, timed_out, on>>

\* dco_notify: the first node, if there is one.  Whether the resume succeeds,
\* it is off the list.
PopResume(l) ==
  IF head_[l] = None THEN UNCHANGED <<listVars, status>>
  ELSE Pop(l) /\ SetStatus(head_[l], TryResume(status[head_[l]]))

\* A resume of the first node would come too late: its timer has won.
Missed(l) == head_[l] # None /\ TryResume(status[head_[l]]).res < 0

RemoveSelf(c, q) ==
  /\ From(c, "remove", q)
  /\ Remove(on[c], c)
  /\ UNCHANGED <<status, timed_out>>

ParkStep(c) == SchedStep(c) /\ UNCHANGED <<listVars, on>>

------------------------------------------------------------------------------
(* Properties *)

\* The nodes of l: its head and what is linked to a neighbour.
Listed(l) ==
  {c \in Ctx : c = head_[l] \/ (on[c] = l /\ (prev_[c] # None \/ next_[c] # None))}

\* From the push on a node may be listed, until its coroutine has been resumed
\* or has removed it.
MayBeListed(c, l) ==
  /\ on[c] = l
  /\ \/ Waiting(c) /\ pc[c] # "push"
     \/ timed_out[c] /\ pc[c] \in {"parked", "remove"}

(* The lists stay lists, although a sleeper removes its node without knowing   *)
(* whether a notifier has popped it already: links agree in both directions,   *)
(* only the first node has none before it and only the last one none after it, *)
(* there is no cycle, and no node outlives the call on whose stack it is.      *)
ListSound ==
  \A l \in List :
    /\ head_[l] = None <=> tail_[l] = None
    /\ tail_[l] # None => tail_[l] \in Listed(l)
    /\ \A c \in Listed(l) :
          /\ MayBeListed(c, l)
          /\ IF next_[c] = None THEN tail_[l] = c
             ELSE next_[c] \in Listed(l) /\ prev_[next_[c]] = c
          /\ IF prev_[c] = None THEN head_[l] = c
             ELSE prev_[c] \in Listed(l) /\ next_[prev_[c]] = c
    /\ \A S \in SUBSET Listed(l) : S # {} => \E c \in S : prev_[c] \notin S
===============================================================================
