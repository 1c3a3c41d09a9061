----------------------------- MODULE CoPark_proofs -----------------------------
(***************************************************************************)
(* What CoPark promises, proved for every number of workers, of other      *)
(* threads and of contexts.  Each part of the invariant is inductive with  *)
(* the types and, for SleeperReachable, with the parts before it.          *)
(***************************************************************************)
EXTENDS CoPark, TLAPS

\* Workers are threads, and there is one.
LEMMA WorkerThread == Worker \subseteq Thread /\ 0 \in Worker
BY SizeAssumption DEF Worker, Thread

------------------------------------------------------------------------------
(* The invariant *)

\* Thread t has taken worker w off the list and has yet to clear wait_[w].
Calls(t, w) == pc[t] \in {"call_run", "call_wait"} /\ tid[t] = w

\* OnceListed for one worker, and when its run_ flag may be set.
Once(w) ==
  /\ worker_wait_[w] \in {0, 1}
  /\ wait_[w] <=> worker_wait_[w] = 1 \/ Listing(w) \/ \E t \in Thread : Calls(t, w)
  /\ worker_wait_[w] = 1 \/ Listing(w) => \A t \in Thread : ~Calls(t, w)
  /\ worker_wait_[w] = 1 => ~Listing(w)
  /\ \A t, u \in Thread : Calls(t, w) /\ Calls(u, w) => t = u
  /\ run_[w] => \/ ~wait_[w]
                \/ pc[w] = "run_ex"
                \/ \E t \in Thread : pc[t] = "call_wait" /\ tid[t] = w

FlagsInv == \A w \in Worker : Once(w)

\* Thread t is about to post the semaphore of w.
Posts(t, w) == pc[t] \in NotifyPC /\ tid[t] = w

\* Worker w will sleep without another look at the queue.
Committed(w) ==
  \/ pc[w] \in {"sleep", "token"}
  \/ pc[w] \in CallPC \cup HandPC /\ ret[w] = "sleep"

\* A worker whose wait_ flag somebody has cleared gets a post.
PostInv ==
  \A w \in Worker :
    Committed(w) /\ ~wait_[w] => wsem[w] > 0 \/ \E t \in Thread : Posts(t, w)

\* HandOverSeen, without sets.
HandInv ==
  \A w \in Worker :
    time_remove_[w] > 0 => Removing(w) \/ wsem[w] > 0 \/ \E t \in Thread : Posts(t, w)

NoteInv == sem_ >= 0 /\ WorkNoticed

------------------------------------------------------------------------------
(* Each action preserves it *)

\* Steps that neither touch the flags and the list nor go through their code.
LEMMA QuietFlags ==
  ASSUME TypeOK, FlagsInv, UNCHANGED <<worker_wait_, run_, wait_>>,
         NEW t \in Thread,
         pc[t] \notin {"call_run", "call_wait", "run_ex", "push"},
         pc'[t] \notin {"call_run", "call_wait", "run_ex", "push"},
         \A u \in Thread \ {t} : pc'[u] = pc[u] /\ tid'[u] = tid[u]
  PROVE  FlagsInv'
<1> SUFFICES ASSUME NEW w \in Worker PROVE Once(w)'
  BY DEF FlagsInv
<1> USE WorkerThread
<1>1. Once(w)
  BY DEF FlagsInv
<1>2. \A u \in Thread : Calls(u, w)' <=> Calls(u, w)
  BY DEF Calls
<1>3. \A u \in Thread : 
        (pc[u] = "call_wait" /\ tid[u] = w)' <=> pc[u] = "call_wait" /\ tid[u] = w
  OBVIOUS
<1>4. (Listing(w)' <=> Listing(w)) /\ (pc'[w] = "run_ex" <=> pc[w] = "run_ex")
  BY DEF Listing
<1> QED BY <1>1, <1>2, <1>3, <1>4 DEF Once

\* The types.
LEMMA TypeInv ==
  ASSUME TypeOK, [Next]_vars
  PROVE  TypeOK'
<1> USE WorkerThread DEF TypeOK, PC, CallPC, NotifyPC, HandPC, LoopPC, ListingPC,
    UserPC, RetPC
<1>1. ASSUME NEW t \in Thread, CallStep(t) PROVE TypeOK'
  <2>1. ASSUME NEW w \in Worker, CallPop(t, w) PROVE TypeOK'
    BY <2>1 DEF CallPop, From, Goto, Dec, jobVars, flagVars
  <2>2. CASE CallPopEmpty(t)
    BY <2>2 DEF CallPopEmpty, From, Goto, jobVars, flagVars
  <2>3. CASE CallInc(t)
    BY <2>3 DEF CallInc, Return, Goto, jobVars, flagVars
  <2>4. CASE CallRun(t)
    BY <2>4 DEF CallRun, From, Goto, jobVars, flagVars
  <2>5. CASE CallWait(t)
    BY <2>5 DEF CallWait, From, Goto, jobVars, flagVars
  <2>6. CASE HandOver(t)
    BY <2>6 DEF HandOver, From, Goto, Inc, jobVars, flagVars
  <2>7. CASE Notify(t)
    BY <2>7, SMTT(20) DEF Notify, Return, Goto, jobVars, flagVars
  <2>8. CASE Post(t)
    BY <2>8 DEF Post, Return, Goto, Inc, jobVars, flagVars
  <2> QED BY <1>1, <2>1, <2>2, <2>3, <2>4, <2>5, <2>6, <2>7, <2>8 DEF CallStep
<1>2. ASSUME NEW t \in Thread, UserCall(t) PROVE TypeOK'
  <2>1. CASE Resume(t)
    BY <2>1 DEF Resume, AddQue, Goto, jobVars, flagVars
  <2>2. ASSUME NEW w \in Worker, SleepResume(t, w) PROVE TypeOK'
    BY <2>2 DEF SleepResume, Goto, Dec, jobVars, flagVars
  <2> QED BY <1>2, <2>1, <2>2 DEF UserCall
<1>3. ASSUME NEW w \in Worker, LoopStep(w) PROVE TypeOK'
  <2>1. CASE TimeRemove(w)
    BY <2>1 DEF TimeRemove, AddQue, Goto, Dec, jobVars, flagVars
  <2>2. CASE RemoveDone(w)
    BY <2>2 DEF RemoveDone, From, Goto, jobVars, flagVars
  <2>3. CASE Expire(w)
    BY <2>3 DEF Expire, AddQue, Goto, Dec, jobVars, flagVars
  <2>4. CASE TimeoutDone(w)
    BY <2>4 DEF TimeoutDone, From, Goto, jobVars, flagVars
  <2>5. CASE GetNext(w)
    BY <2>5 DEF GetNext, From, Goto, jobVars, flagVars
  <2>6. CASE GetNothing(w)
    BY <2>6 DEF GetNothing, From, Goto, jobVars, flagVars
  <2>7. CASE WaitExchange(w)
    BY <2>7 DEF WaitExchange, From, Goto, jobVars, flagVars
  <2>8. CASE RunExchange(w)
    BY <2>8 DEF RunExchange, From, Goto, jobVars, flagVars
  <2>9. CASE WaitPush(w)
    BY <2>9 DEF WaitPush, From, Goto, Inc, jobVars, flagVars
  <2>10. CASE TakeNote(w)
    BY <2>10 DEF TakeNote, From, Goto, jobVars, flagVars
  <2>11. CASE NoNote(w)
    BY <2>11 DEF NoNote, From, Goto, jobVars, flagVars
  <2>12. CASE Wake(w)
    BY <2>12 DEF Wake, From, Goto, Dec, jobVars, flagVars
  <2>13. CASE WaitTimeout(w)
    BY <2>13 DEF WaitTimeout, From, Goto, jobVars, flagVars
  <2> QED BY <1>3, <2>1, <2>2, <2>3, <2>4, <2>5, <2>6, <2>7, <2>8, <2>9, <2>10, <2>11,
      <2>12, <2>13 DEF LoopStep
<1>4. ASSUME NEW w \in Worker, Leave(w) PROVE TypeOK'
  <2>1. CASE Yield(w)
    BY <2>1 DEF Yield, From, Goto, jobVars, flagVars
  <2>2. CASE Sleep(w)
    BY <2>2 DEF Sleep, From, Goto, Inc, jobVars, flagVars
  <2>3. CASE Requeue(w)
    BY <2>3 DEF Requeue, AddQue, Goto, jobVars, flagVars
  <2> QED BY <1>4, <2>1, <2>2, <2>3 DEF Leave
<1>5. CASE UNCHANGED vars
  BY <1>5 DEF vars, jobVars, flagVars
<1> QED BY <1>1, <1>2, <1>3, <1>4, <1>5 DEF Next

\* The flags and the list.
LEMMA FlagsPreserved ==
  ASSUME TypeOK, FlagsInv, [Next]_vars
  PROVE  FlagsInv'
<1> USE WorkerThread DEF TypeOK, FlagsInv, Once, Calls, Listing, PC, CallPC, NotifyPC,
    HandPC, LoopPC, ListingPC, UserPC, RetPC
<1>1. ASSUME NEW t \in Thread, CallStep(t) PROVE FlagsInv'
  <2>1. ASSUME NEW w \in Worker, CallPop(t, w) PROVE FlagsInv'
    BY <2>1 DEF CallPop, From, Goto, Dec, jobVars, flagVars
  <2>2. CASE CallPopEmpty(t)
    BY <2>2 DEF CallPopEmpty, From, Goto, jobVars, flagVars
  <2>3. CASE CallInc(t)
    <3> HIDE DEF FlagsInv
    <3>1. /\ pc[t] = "call_inc" /\ UNCHANGED <<worker_wait_, run_, wait_>>
          /\ pc'[t] \in RetPC
          /\ \A u \in Thread \ {t} : pc'[u] = pc[u] /\ tid'[u] = tid[u]
      BY <2>3 DEF CallInc, Return, Goto, flagVars
    <3> QED BY <3>1, QuietFlags
  <2>4. CASE CallRun(t)
    BY <2>4 DEF CallRun, From, Goto, jobVars, flagVars
  <2>5. CASE CallWait(t)
    BY <2>5 DEF CallWait, From, Goto, jobVars, flagVars
  <2>6. CASE HandOver(t)
    BY <2>6 DEF HandOver, From, Goto, Inc, jobVars, flagVars
  <2>7. CASE Notify(t)
    <3> HIDE DEF FlagsInv
    <3>1. /\ pc[t] = "notify" /\ UNCHANGED <<worker_wait_, run_, wait_>>
          /\ pc'[t] \in {"post"} \cup RetPC
          /\ \A u \in Thread \ {t} : pc'[u] = pc[u] /\ tid'[u] = tid[u]
      BY <2>7 DEF Notify, Return, Goto, flagVars
    <3> QED BY <3>1, QuietFlags
  <2>8. CASE Post(t)
    <3> HIDE DEF FlagsInv
    <3>1. /\ pc[t] = "post" /\ UNCHANGED <<worker_wait_, run_, wait_>>
          /\ pc'[t] \in RetPC
          /\ \A u \in Thread \ {t} : pc'[u] = pc[u] /\ tid'[u] = tid[u]
      BY <2>8 DEF Post, Return, Goto, flagVars
    <3> QED BY <3>1, QuietFlags
  <2> QED BY <1>1, <2>1, <2>2, <2>3, <2>4, <2>5, <2>6, <2>7, <2>8 DEF CallStep
<1>2. ASSUME NEW t \in Thread, UserCall(t) PROVE FlagsInv'
  <2>1. CASE Resume(t)
    BY <2>1 DEF Resume, AddQue, Goto, jobVars, flagVars
  <2>2. ASSUME NEW w \in Worker, SleepResume(t, w) PROVE FlagsInv'
    BY <2>2 DEF SleepResume, Goto, Dec, jobVars, flagVars
  <2> QED BY <1>2, <2>1, <2>2 DEF UserCall
<1>3. ASSUME NEW w \in Worker, LoopStep(w) PROVE FlagsInv'
  <2>1. CASE TimeRemove(w)
    BY <2>1 DEF TimeRemove, AddQue, Goto, Dec, jobVars, flagVars
  <2>2. CASE RemoveDone(w)
    BY <2>2 DEF RemoveDone, From, Goto, jobVars, flagVars
  <2>3. CASE Expire(w)
    BY <2>3 DEF Expire, AddQue, Goto, Dec, jobVars, flagVars
  <2>4. CASE TimeoutDone(w)
    BY <2>4 DEF TimeoutDone, From, Goto, jobVars, flagVars
  <2>5. CASE GetNext(w)
    BY <2>5 DEF GetNext, From, Goto, jobVars, flagVars
  <2>6. CASE GetNothing(w)
    BY <2>6 DEF GetNothing, From, Goto, jobVars, flagVars
  <2>7. CASE WaitExchange(w)
    <3>1. /\ \A u \in Thread, v \in Worker : Calls(u, v)' <=> Calls(u, v)
          /\ \A u \in Thread : pc'[u] = "call_wait" <=> pc[u] = "call_wait"
          /\ tid' = tid
      BY <2>7 DEF WaitExchange, From, Goto
    <3>2. Once(w)'
      BY <2>7, <3>1 DEF WaitExchange, From, Goto, jobVars, flagVars
    <3>3. ASSUME NEW v \in Worker, v # w PROVE Once(v)'
      <4>1. UNCHANGED <<worker_wait_[v], run_[v], wait_[v], pc[v]>>
        BY <2>7, <3>3 DEF WaitExchange, From, Goto, flagVars
      <4> HIDE DEF Calls
      <4> QED BY <3>1, <4>1
    <3> QED BY <3>2, <3>3
  <2>8. CASE RunExchange(w)
    BY <2>8 DEF RunExchange, From, Goto, jobVars, flagVars
  <2>9. CASE WaitPush(w)
    <3>1. /\ \A u \in Thread, v \in Worker : Calls(u, v)' <=> Calls(u, v)
          /\ \A u \in Thread : pc'[u] = "call_wait" <=> pc[u] = "call_wait"
          /\ tid' = tid
      BY <2>9 DEF WaitPush, From, Goto
    <3>2. Once(w)'
      BY <2>9, <3>1 DEF WaitPush, From, Goto, Inc, jobVars, flagVars
    <3>3. ASSUME NEW v \in Worker, v # w PROVE Once(v)'
      <4>1. UNCHANGED <<worker_wait_[v], run_[v], wait_[v], pc[v]>>
        BY <2>9, <3>3 DEF WaitPush, From, Goto, Inc, flagVars
      <4> HIDE DEF Calls
      <4> QED BY <3>1, <4>1
    <3> QED BY <3>2, <3>3
  <2>10. CASE TakeNote(w)
    BY <2>10 DEF TakeNote, From, Goto, jobVars, flagVars
  <2>11. CASE NoNote(w)
    BY <2>11 DEF NoNote, From, Goto, jobVars, flagVars
  <2>12. CASE Wake(w)
    BY <2>12 DEF Wake, From, Goto, Dec, jobVars, flagVars
  <2>13. CASE WaitTimeout(w)
    BY <2>13 DEF WaitTimeout, From, Goto, jobVars, flagVars
  <2> QED BY <1>3, <2>1, <2>2, <2>3, <2>4, <2>5, <2>6, <2>7, <2>8, <2>9, <2>10, <2>11,
      <2>12, <2>13 DEF LoopStep
<1>4. ASSUME NEW w \in Worker, Leave(w) PROVE FlagsInv'
  <2>1. CASE Yield(w)
    BY <2>1 DEF Yield, From, Goto, jobVars, flagVars
  <2>2. CASE Sleep(w)
    BY <2>2 DEF Sleep, From, Goto, Inc, jobVars, flagVars
  <2>3. CASE Requeue(w)
    BY <2>3 DEF Requeue, AddQue, Goto, jobVars, flagVars
  <2> QED BY <1>4, <2>1, <2>2, <2>3 DEF Leave
<1>5. CASE UNCHANGED vars
  BY <1>5 DEF vars, jobVars, flagVars
<1> QED BY <1>1, <1>2, <1>3, <1>4, <1>5 DEF Next

\* No worker goes to sleep without the post it was promised.
LEMMA PostPreserved ==
  ASSUME TypeOK, PostInv, FlagsInv, [Next]_vars
  PROVE  PostInv'
<1> USE WorkerThread DEF TypeOK, PostInv, Committed, Posts, PC, CallPC, NotifyPC,
    HandPC, LoopPC, ListingPC, UserPC, RetPC
<1>1. ASSUME NEW t \in Thread, CallStep(t) PROVE PostInv'
  <2>1. ASSUME NEW w \in Worker, CallPop(t, w) PROVE PostInv'
    BY <2>1 DEF CallPop, From, Goto, Dec, jobVars, flagVars
  <2>2. CASE CallPopEmpty(t)
    BY <2>2 DEF CallPopEmpty, From, Goto, jobVars, flagVars
  <2>3. CASE CallInc(t)
    BY <2>3 DEF CallInc, Return, Goto, jobVars, flagVars
  <2>4. CASE CallRun(t)
    BY <2>4 DEF CallRun, From, Goto, jobVars, flagVars
  <2>5. CASE CallWait(t)
    BY <2>5 DEF CallWait, From, Goto, jobVars, flagVars
  <2>6. CASE HandOver(t)
    BY <2>6 DEF HandOver, From, Goto, Inc, jobVars, flagVars
  <2>7. CASE Notify(t)
    <3>1. CASE wsem[tid[t]] < 1
      BY <2>7, <3>1 DEF Notify, Goto, jobVars, flagVars
    <3>2. CASE ~(wsem[tid[t]] < 1)
      BY <2>7, <3>2 DEF Notify, Return, Goto, jobVars, flagVars
    <3> QED BY <3>1, <3>2
  <2>8. CASE Post(t)
    BY <2>8 DEF Post, Return, Goto, Inc, jobVars, flagVars
  <2> QED BY <1>1, <2>1, <2>2, <2>3, <2>4, <2>5, <2>6, <2>7, <2>8 DEF CallStep
<1>2. ASSUME NEW t \in Thread, UserCall(t) PROVE PostInv'
  <2>1. CASE Resume(t)
    BY <2>1 DEF Resume, AddQue, Goto, jobVars, flagVars
  <2>2. ASSUME NEW w \in Worker, SleepResume(t, w) PROVE PostInv'
    BY <2>2 DEF SleepResume, Goto, Dec, jobVars, flagVars
  <2> QED BY <1>2, <2>1, <2>2 DEF UserCall
<1>3. ASSUME NEW w \in Worker, LoopStep(w) PROVE PostInv'
  <2>1. CASE TimeRemove(w)
    BY <2>1 DEF TimeRemove, AddQue, Goto, Dec, jobVars, flagVars
  <2>2. CASE RemoveDone(w)
    BY <2>2 DEF RemoveDone, From, Goto, jobVars, flagVars
  <2>3. CASE Expire(w)
    BY <2>3 DEF Expire, AddQue, Goto, Dec, jobVars, flagVars
  <2>4. CASE TimeoutDone(w)
    BY <2>4 DEF TimeoutDone, From, Goto, jobVars, flagVars
  <2>5. CASE GetNext(w)
    BY <2>5 DEF GetNext, From, Goto, jobVars, flagVars
  <2>6. CASE GetNothing(w)
    BY <2>6 DEF GetNothing, From, Goto, jobVars, flagVars
  <2>7. CASE WaitExchange(w)
    BY <2>7 DEF WaitExchange, From, Goto, jobVars, flagVars
  <2>8. CASE RunExchange(w)
    BY <2>8 DEF RunExchange, From, Goto, jobVars, flagVars
  <2>9. CASE WaitPush(w)
    <3>1. wait_[w] /\ UNCHANGED <<wait_, wsem, tid>>
      BY <2>9 DEF WaitPush, From, flagVars, FlagsInv, Once, Listing
    <3>2. \A v \in Worker \ {w} : Committed(v)' <=> Committed(v)
      BY <2>9 DEF WaitPush, From, Goto
    <3>3. \A u \in Thread, v \in Worker : Posts(u, v) => Posts(u, v)'
      BY <2>9 DEF WaitPush, From, Goto
    <3> QED BY <3>1, <3>2, <3>3
  <2>10. CASE TakeNote(w)
    BY <2>10 DEF TakeNote, From, Goto, jobVars, flagVars
  <2>11. CASE NoNote(w)
    BY <2>11 DEF NoNote, From, Goto, jobVars, flagVars
  <2>12. CASE Wake(w)
    BY <2>12 DEF Wake, From, Goto, Dec, jobVars, flagVars
  <2>13. CASE WaitTimeout(w)
    BY <2>13 DEF WaitTimeout, From, Goto, jobVars, flagVars
  <2> QED BY <1>3, <2>1, <2>2, <2>3, <2>4, <2>5, <2>6, <2>7, <2>8, <2>9, <2>10, <2>11,
      <2>12, <2>13 DEF LoopStep
<1>4. ASSUME NEW w \in Worker, Leave(w) PROVE PostInv'
  <2>1. CASE Yield(w)
    BY <2>1 DEF Yield, From, Goto, jobVars, flagVars
  <2>2. CASE Sleep(w)
    BY <2>2 DEF Sleep, From, Goto, Inc, jobVars, flagVars
  <2>3. CASE Requeue(w)
    BY <2>3 DEF Requeue, AddQue, Goto, jobVars, flagVars
  <2> QED BY <1>4, <2>1, <2>2, <2>3 DEF Leave
<1>5. CASE UNCHANGED vars
  BY <1>5 DEF vars, jobVars, flagVars
<1> QED BY <1>1, <1>2, <1>3, <1>4, <1>5 DEF Next

\* No resumed sleeper is left behind.
LEMMA HandPreserved ==
  ASSUME TypeOK, HandInv, [Next]_vars
  PROVE  HandInv'
<1> USE WorkerThread DEF TypeOK, HandInv, Removing, Posts, PC, CallPC, NotifyPC,
    HandPC, LoopPC, ListingPC, UserPC, RetPC
<1>1. ASSUME NEW t \in Thread, CallStep(t) PROVE HandInv'
  <2>1. ASSUME NEW w \in Worker, CallPop(t, w) PROVE HandInv'
    BY <2>1 DEF CallPop, From, Goto, Dec, jobVars, flagVars
  <2>2. CASE CallPopEmpty(t)
    BY <2>2 DEF CallPopEmpty, From, Goto, jobVars, flagVars
  <2>3. CASE CallInc(t)
    <3>1. \A u \in Thread, v \in Worker : Posts(u, v)' <=> Posts(u, v)
      BY <2>3 DEF CallInc, Return, Goto
    <3>2. \A v \in Worker : Removing(v) => Removing(v)'
      BY <2>3 DEF CallInc, Return, Goto
    <3> HIDE DEF Posts, Removing
    <3> QED BY <2>3, <3>1, <3>2 DEF CallInc, jobVars
  <2>4. CASE CallRun(t)
    BY <2>4 DEF CallRun, From, Goto, jobVars, flagVars
  <2>5. CASE CallWait(t)
    BY <2>5 DEF CallWait, From, Goto, jobVars, flagVars
  <2>6. CASE HandOver(t)
    BY <2>6 DEF HandOver, From, Goto, Inc, jobVars, flagVars
  <2>7. CASE Notify(t)
    BY <2>7 DEF Notify, Return, Goto, jobVars, flagVars
  <2>8. CASE Post(t)
    BY <2>8 DEF Post, Return, Goto, Inc, jobVars, flagVars
  <2> QED BY <1>1, <2>1, <2>2, <2>3, <2>4, <2>5, <2>6, <2>7, <2>8 DEF CallStep
<1>2. ASSUME NEW t \in Thread, UserCall(t) PROVE HandInv'
  <2>1. CASE Resume(t)
    BY <2>1 DEF Resume, AddQue, Goto, jobVars, flagVars
  <2>2. ASSUME NEW w \in Worker, SleepResume(t, w) PROVE HandInv'
    BY <2>2 DEF SleepResume, Goto, Dec, jobVars, flagVars
  <2> QED BY <1>2, <2>1, <2>2 DEF UserCall
<1>3. ASSUME NEW w \in Worker, LoopStep(w) PROVE HandInv'
  <2>1. CASE TimeRemove(w)
    BY <2>1 DEF TimeRemove, AddQue, Goto, Dec, jobVars, flagVars
  <2>2. CASE RemoveDone(w)
    BY <2>2 DEF RemoveDone, From, Goto, jobVars, flagVars
  <2>3. CASE Expire(w)
    BY <2>3 DEF Expire, AddQue, Goto, Dec, jobVars, flagVars
  <2>4. CASE TimeoutDone(w)
    BY <2>4 DEF TimeoutDone, From, Goto, jobVars, flagVars
  <2>5. CASE GetNext(w)
    BY <2>5 DEF GetNext, From, Goto, jobVars, flagVars
  <2>6. CASE GetNothing(w)
    BY <2>6 DEF GetNothing, From, Goto, jobVars, flagVars
  <2>7. CASE WaitExchange(w)
    BY <2>7 DEF WaitExchange, From, Goto, jobVars, flagVars
  <2>8. CASE RunExchange(w)
    BY <2>8 DEF RunExchange, From, Goto, jobVars, flagVars
  <2>9. CASE WaitPush(w)
    BY <2>9 DEF WaitPush, From, Goto, Inc, jobVars, flagVars
  <2>10. CASE TakeNote(w)
    BY <2>10 DEF TakeNote, From, Goto, jobVars, flagVars
  <2>11. CASE NoNote(w)
    BY <2>11 DEF NoNote, From, Goto, jobVars, flagVars
  <2>12. CASE Wake(w)
    BY <2>12 DEF Wake, From, Goto, Dec, jobVars, flagVars
  <2>13. CASE WaitTimeout(w)
    BY <2>13 DEF WaitTimeout, From, Goto, jobVars, flagVars
  <2> QED BY <1>3, <2>1, <2>2, <2>3, <2>4, <2>5, <2>6, <2>7, <2>8, <2>9, <2>10, <2>11,
      <2>12, <2>13 DEF LoopStep
<1>4. ASSUME NEW w \in Worker, Leave(w) PROVE HandInv'
  <2>1. CASE Yield(w)
    BY <2>1 DEF Yield, From, Goto, jobVars, flagVars
  <2>2. CASE Sleep(w)
    BY <2>2 DEF Sleep, From, Goto, Inc, jobVars, flagVars
  <2>3. CASE Requeue(w)
    BY <2>3 DEF Requeue, AddQue, Goto, jobVars, flagVars
  <2> QED BY <1>4, <2>1, <2>2, <2>3 DEF Leave
<1>5. CASE UNCHANGED vars
  BY <1>5 DEF vars, jobVars, flagVars
<1> QED BY <1>1, <1>2, <1>3, <1>4, <1>5 DEF Next

\* No work in the queue goes unnoticed.
LEMMA NotePreserved ==
  ASSUME TypeOK, NoteInv, [Next]_vars
  PROVE  NoteInv'
<1> USE WorkerThread DEF TypeOK, NoteInv, WorkNoticed, PC, CallPC, NotifyPC, HandPC,
    LoopPC, ListingPC, UserPC, RetPC
<1>1. ASSUME NEW t \in Thread, CallStep(t) PROVE NoteInv'
  <2>1. ASSUME NEW w \in Worker, CallPop(t, w) PROVE NoteInv'
    BY <2>1 DEF CallPop, From, Goto, Dec, jobVars, flagVars
  <2>2. CASE CallPopEmpty(t)
    BY <2>2 DEF CallPopEmpty, From, Goto, jobVars, flagVars
  <2>3. CASE CallInc(t)
    BY <2>3, SizeAssumption DEF CallInc, Return, Goto, jobVars, flagVars
  <2>4. CASE CallRun(t)
    BY <2>4 DEF CallRun, From, Goto, jobVars, flagVars
  <2>5. CASE CallWait(t)
    BY <2>5 DEF CallWait, From, Goto, jobVars, flagVars
  <2>6. CASE HandOver(t)
    BY <2>6 DEF HandOver, From, Goto, Inc, jobVars, flagVars
  <2>7. CASE Notify(t)
    BY <2>7 DEF Notify, Return, Goto, jobVars, flagVars
  <2>8. CASE Post(t)
    BY <2>8 DEF Post, Return, Goto, Inc, jobVars, flagVars
  <2> QED BY <1>1, <2>1, <2>2, <2>3, <2>4, <2>5, <2>6, <2>7, <2>8 DEF CallStep
<1>2. ASSUME NEW t \in Thread, UserCall(t) PROVE NoteInv'
  <2>1. CASE Resume(t)
    BY <2>1 DEF Resume, AddQue, Goto, jobVars, flagVars
  <2>2. ASSUME NEW w \in Worker, SleepResume(t, w) PROVE NoteInv'
    BY <2>2 DEF SleepResume, Goto, Dec, jobVars, flagVars
  <2> QED BY <1>2, <2>1, <2>2 DEF UserCall
<1>3. ASSUME NEW w \in Worker, LoopStep(w) PROVE NoteInv'
  <2>1. CASE TimeRemove(w)
    BY <2>1 DEF TimeRemove, AddQue, Goto, Dec, jobVars, flagVars
  <2>2. CASE RemoveDone(w)
    BY <2>2 DEF RemoveDone, From, Goto, jobVars, flagVars
  <2>3. CASE Expire(w)
    BY <2>3 DEF Expire, AddQue, Goto, Dec, jobVars, flagVars
  <2>4. CASE TimeoutDone(w)
    BY <2>4 DEF TimeoutDone, From, Goto, jobVars, flagVars
  <2>5. CASE GetNext(w)
    BY <2>5 DEF GetNext, From, Goto, jobVars, flagVars
  <2>6. CASE GetNothing(w)
    BY <2>6 DEF GetNothing, From, Goto, jobVars, flagVars
  <2>7. CASE WaitExchange(w)
    BY <2>7 DEF WaitExchange, From, Goto, jobVars, flagVars
  <2>8. CASE RunExchange(w)
    BY <2>8 DEF RunExchange, From, Goto, jobVars, flagVars
  <2>9. CASE WaitPush(w)
    BY <2>9 DEF WaitPush, From, Goto, Inc, jobVars, flagVars
  <2>10. CASE TakeNote(w)
    BY <2>10 DEF TakeNote, From, Goto, jobVars, flagVars
  <2>11. CASE NoNote(w)
    BY <2>11 DEF NoNote, From, Goto, jobVars, flagVars
  <2>12. CASE Wake(w)
    BY <2>12 DEF Wake, From, Goto, Dec, jobVars, flagVars
  <2>13. CASE WaitTimeout(w)
    BY <2>13 DEF WaitTimeout, From, Goto, jobVars, flagVars
  <2> QED BY <1>3, <2>1, <2>2, <2>3, <2>4, <2>5, <2>6, <2>7, <2>8, <2>9, <2>10, <2>11,
      <2>12, <2>13 DEF LoopStep
<1>4. ASSUME NEW w \in Worker, Leave(w) PROVE NoteInv'
  <2>1. CASE Yield(w)
    BY <2>1 DEF Yield, From, Goto, jobVars, flagVars
  <2>2. CASE Sleep(w)
    BY <2>2 DEF Sleep, From, Goto, Inc, jobVars, flagVars
  <2>3. CASE Requeue(w)
    BY <2>3 DEF Requeue, AddQue, Goto, jobVars, flagVars
  <2> QED BY <1>4, <2>1, <2>2, <2>3 DEF Leave
<1>5. CASE UNCHANGED vars
  BY <1>5 DEF vars, jobVars, flagVars
<1> QED BY <1>1, <1>2, <1>3, <1>4, <1>5 DEF Next

------------------------------------------------------------------------------
(* The theorems *)

ParkInv == TypeOK /\ FlagsInv /\ PostInv /\ HandInv

\* A state in which every worker is listed and nobody has called one yet.
LEMMA InitInv == Init => ParkInv
<1> SUFFICES ASSUME Init PROVE ParkInv
  OBVIOUS
<1> USE WorkerThread, JobsAssumption, SemAssumption DEF Init
<1>1. TypeOK
  BY DEF TypeOK, PC, CallPC, NotifyPC, HandPC, LoopPC, ListingPC, UserPC, RetPC
<1>2. \A t \in Thread, w \in Worker : ~Calls(t, w)
  BY DEF Calls
<1>3. \A w \in Worker : ~Listing(w)
  BY DEF Listing
<1>4. FlagsInv
  BY <1>2, <1>3 DEF FlagsInv, Once
<1>5. PostInv /\ HandInv
  BY DEF PostInv, HandInv, Committed
<1> QED BY <1>1, <1>4, <1>5 DEF ParkInv

\* The flags of every worker, the posts that are due and the sleepers that are
\* handed over satisfy the inductive invariant at all times.
THEOREM Invariance == Spec => []ParkInv
<1>1. ParkInv /\ [Next]_vars => ParkInv'
  BY TypeInv, FlagsPreserved, PostPreserved, HandPreserved DEF ParkInv
<1> QED BY InitInv, <1>1, PTL DEF Spec

\* Every variable of coschedule and of the workers keeps its type; no counter
\* of contexts or of semaphore posts goes below zero.
THEOREM TypeCorrect == Spec => []TypeOK
<1>1. ParkInv => TypeOK
  BY DEF ParkInv
<1> QED BY Invariance, <1>1, PTL

\* The run_ and wait_ flags keep a worker on the list at most once, and only
\* one thread at a time calls it: it is never found running.
THEOREM ListedAtMostOnce == Spec => []OnceListed
<1>1. ParkInv => OnceListed
  <2> SUFFICES ASSUME ParkInv, NEW w \in Worker
               PROVE  /\ worker_wait_[w] <= 1
                      /\ wait_[w] <=> worker_wait_[w] = 1 \/ Listing(w) \/ Calling(w) # {}
                      /\ worker_wait_[w] = 1 => ~Listing(w) /\ Calling(w) = {}
                      /\ Listing(w) => Calling(w) = {}
                      /\ \A t, u \in Calling(w) : t = u
                      /\ \A t \in Calling(w) : pc[t] = "call_run" => ~run_[w]
    BY DEF OnceListed
  <2>1. Once(w)
    BY DEF ParkInv, FlagsInv
  <2>2. Calling(w) = {t \in Thread : Calls(t, w)}
    BY DEF Calling, At, Calls
  <2>3. \A t \in Calling(w) : pc[t] = "call_run" => ~run_[w]
    <3> SUFFICES ASSUME NEW t \in Calling(w), pc[t] = "call_run", run_[w] PROVE FALSE
      OBVIOUS
    <3>1. t \in Thread /\ Calls(t, w)
      BY <2>2
    <3>2. wait_[w] /\ ~Listing(w)
      BY <2>1, <3>1 DEF Once
    <3>3. PICK u \in Thread : pc[u] = "call_wait" /\ tid[u] = w
      BY <2>1, <3>2 DEF Once, Listing
    <3>4. Calls(u, w)
      BY <3>3 DEF Calls
    <3>5. t = u
      BY <2>1, <3>1, <3>4 DEF Once
    <3> QED BY <3>3, <3>5
  <2>4. /\ worker_wait_[w] <= 1
        /\ wait_[w] <=> worker_wait_[w] = 1 \/ Listing(w) \/ Calling(w) # {}
        /\ worker_wait_[w] = 1 => ~Listing(w) /\ Calling(w) = {}
        /\ Listing(w) => Calling(w) = {}
    BY <2>1, <2>2 DEF Once
  <2>5. \A t, u \in Calling(w) : t = u
    BY <2>1, <2>2 DEF Once
  <2> QED BY <2>3, <2>4, <2>5
<1> QED BY Invariance, <1>1, PTL

\* A worker that sleeps without a post can be woken up: it is on the list, or
\* a thread that took it off is about to post.
THEOREM SleepersReachable == Spec => []SleeperReachable
<1>1. ParkInv => SleeperReachable
  <2> SUFFICES ASSUME ParkInv, NEW w \in Worker, pc[w] = "sleep", wsem[w] = 0,
                      worker_wait_[w] # 1
               PROVE  Calling(w) \cup Notifying(w) # {}
    BY DEF SleeperReachable
  <2>1. CASE wait_[w]
    <3>1. PICK t \in Thread : Calls(t, w)
      BY <2>1 DEF ParkInv, FlagsInv, Once, Listing
    <3>2. t \in Calling(w)
      BY <3>1 DEF Calls, Calling, At
    <3> QED BY <3>2
  <2>2. CASE ~wait_[w]
    <3>1. PICK t \in Thread : Posts(t, w)
      BY <2>2 DEF ParkInv, PostInv, Committed
    <3>2. t \in Notifying(w)
      BY <3>1 DEF Posts, Notifying, At
    <3> QED BY <3>2
  <2> QED BY <2>1, <2>2
<1> QED BY Invariance, <1>1, PTL

\* A sleeper that was resumed is never left with its worker asleep and nobody
\* about to post.
THEOREM HandOversSeen == Spec => []HandOverSeen
<1>1. ParkInv => HandOverSeen
  <2> SUFFICES ASSUME ParkInv, NEW w \in Worker, time_remove_[w] > 0, ~Removing(w),
                      ~(wsem[w] > 0)
               PROVE  Notifying(w) # {}
    BY DEF HandOverSeen
  <2>1. PICK t \in Thread : Posts(t, w)
    BY DEF ParkInv, HandInv
  <2>2. t \in Notifying(w)
    BY <2>1 DEF Posts, Notifying, At
  <2> QED BY <2>2
<1> QED BY Invariance, <1>1, PTL

\* If sem_ starts with zero or more, as it does when its memory happens to be
\* clean, work in the queue is always known to a thread on its way to it or
\* noted in sem_.
THEOREM WorkIsNoticed ==
  ASSUME SemInit \subseteq Nat
  PROVE  Spec => []WorkNoticed
<1>1. Init => TypeOK /\ NoteInv
  <2>1. Init => NoteInv
    BY DEF Init, NoteInv, WorkNoticed
  <2> QED BY <2>1, InitInv DEF ParkInv
<1>2. TypeOK /\ NoteInv /\ [Next]_vars => (TypeOK /\ NoteInv)'
  BY TypeInv, NotePreserved
<1>3. NoteInv => WorkNoticed
  BY DEF NoteInv
<1> QED BY <1>1, <1>2, <1>3, PTL DEF Spec
================================================================================
