---------------------------- MODULE CoWaiters_proofs ----------------------------
(***************************************************************************)
(* What those who wait in lists are promised, proved for any number of     *)
(* coroutines.  First the lemmas on the lists: what push, pop and remove   *)
(* do to one, and to the number of its nodes.  Then the timed semaphore    *)
(* and the condition variable together: the lists stay lists, wait returns *)
(* with the mutex held, and no permit and no item is overlooked.  Last the *)
(* channel: no value is lost or duplicated, results are true, the two      *)
(* sides do not wait for each other, and close releases everybody.         *)
(***************************************************************************)
EXTENDS CoTimed, CoChannel, FiniteSetTheorems, TLAPS

------------------------------------------------------------------------------
(* Lists: their types *)

ListType ==
  /\ head_ \in [List -> Ctx \cup {None}] /\ tail_ \in [List -> Ctx \cup {None}]
  /\ prev_ \in [Ctx -> Ctx \cup {None}] /\ next_ \in [Ctx -> Ctx \cup {None}]
  /\ on \in [Ctx -> List \cup {None}]

\* c is in the list it waits on.
InList(c) ==
  \/ prev_[c] # None \/ next_[c] # None
  \/ on[c] \in List /\ head_[on[c]] = c

\* Links agree in both directions and stay within a list, whose ends are the
\* nodes without a neighbour.
Linked ==
  /\ \A l \in List :
       /\ head_[l] = None <=> tail_[l] = None
       /\ head_[l] # None => on[head_[l]] = l /\ prev_[head_[l]] = None
       /\ tail_[l] # None => on[tail_[l]] = l /\ next_[tail_[l]] = None
       /\ \A c \in Ctx : tail_[l] = c => InList(c)
  /\ \A c \in Ctx :
       /\ InList(c) => on[c] \in List
       /\ next_[c] # None => prev_[next_[c]] = c /\ on[next_[c]] = on[c]
       /\ prev_[c] # None => next_[prev_[c]] = c /\ on[prev_[c]] = on[c]
       /\ InList(c) /\ prev_[c] = None => head_[on[c]] = c
       /\ InList(c) /\ next_[c] = None => tail_[on[c]] = c

\* Whoever follows prev_ comes to an end.
NoCycle == \A S \in SUBSET Ctx : S # {} => \E c \in S : prev_[c] \notin S

LEMMA NoSelfLink ==
  ASSUME NoCycle, NEW n \in Ctx PROVE prev_[n] # n
<1>1. {n} \in SUBSET Ctx /\ {n} # {}
  OBVIOUS
<1>2. \E c \in {n} : prev_[c] \notin {n}
  BY <1>1 DEF NoCycle
<1>3. QED  BY <1>2

LEMMA PushLinked ==
  ASSUME ListType, Linked, NEW n \in Ctx, on[n] \in List, ~InList(n),
         Push(on[n], n), on' = on
  PROVE  /\ ListType' /\ Linked'
         /\ \A c \in Ctx : InList(c)' <=> InList(c) \/ c = n
<1>0. PICK l \in List, t \in Ctx \cup {None} : l = on[n] /\ t = tail_[l]
  BY DEF ListType
<1>1. /\ head_' = IF t = None THEN [head_ EXCEPT ![l] = n] ELSE head_
      /\ tail_' = [tail_ EXCEPT ![l] = n]
      /\ prev_' = [prev_ EXCEPT ![n] = t]
      /\ next_' = [x \in Ctx |-> IF x = t THEN n ELSE IF x = n THEN None ELSE next_[x]]
  BY <1>0 DEF Push
<1>2. /\ on[n] = l /\ t = tail_[l] /\ l \in List /\ t \in Ctx \cup {None}
      /\ t # n /\ n # None
  BY <1>0, CtxAssumption DEF ListType, Linked, InList
<1>3. ListType'
  BY <1>1, <1>2 DEF ListType
<1>4. prev_[n] = None /\ next_[n] = None
  BY DEF InList
<1>5. \A c \in Ctx : InList(c)' <=> InList(c) \/ c = n
  <2>1. ASSUME NEW c \in Ctx, c # n, c # t PROVE InList(c)' <=> InList(c)
    <3>1. prev_'[c] = prev_[c] /\ next_'[c] = next_[c]
      BY <1>1, <1>2, <2>1 DEF ListType
    <3>2. \A k \in List : head_'[k] = c <=> head_[k] = c
      BY <1>1, <1>2, <2>1 DEF ListType, Linked
    <3>3. QED  BY <3>1, <3>2 DEF InList
  <2>2. InList(n)'
    BY <1>1, <1>2 DEF ListType, InList, Linked
  <2>3. t # None => InList(t)' /\ InList(t)
    BY <1>1, <1>2, CtxAssumption DEF ListType, Linked, InList
  <2>4. QED  BY <1>2, <2>1, <2>2, <2>3, CtxAssumption
<1>6. Linked'
  <2>1. ASSUME NEW k \in List
        PROVE  /\ head_'[k] = None <=> tail_'[k] = None
               /\ head_'[k] # None => on[head_'[k]] = k /\ prev_'[head_'[k]] = None
               /\ tail_'[k] # None => on[tail_'[k]] = k /\ next_'[tail_'[k]] = None
    BY <1>1, <1>2, <1>4, CtxAssumption DEF ListType, Linked, InList
  <2>2. ASSUME NEW c \in Ctx
        PROVE  /\ next_'[c] # None => prev_'[next_'[c]] = c /\ on[next_'[c]] = on[c]
               /\ prev_'[c] # None => next_'[prev_'[c]] = c /\ on[prev_'[c]] = on[c]
    BY <1>1, <1>2, <1>4, CtxAssumption DEF ListType, Linked, InList
  <2>3. ASSUME NEW c \in Ctx, InList(c) \/ c = n
        PROVE  /\ prev_'[c] = None => head_'[on[c]] = c
               /\ next_'[c] = None => tail_'[on[c]] = c
               /\ on[c] \in List
    BY <1>1, <1>2, <1>4, <2>3, CtxAssumption DEF ListType, Linked, InList
  <2>4. \A k \in List, c \in Ctx : tail_'[k] = c => InList(c)'
    BY <1>1, <1>2, <1>5 DEF ListType, Linked
  <2>5. QED  BY <1>5, <2>1, <2>2, <2>3, <2>4 DEF Linked
<1>7. QED  BY <1>3, <1>5, <1>6

LEMMA PopLinked ==
  ASSUME ListType, Linked, NEW l \in List, NEW n \in Ctx, n = head_[l], Pop(l), on' = on
  PROVE  /\ ListType' /\ Linked'
         /\ \A c \in Ctx : InList(c)' <=> InList(c) /\ c # n
<1>0. PICK s \in Ctx \cup {None} : s = next_[n]
  BY DEF ListType
<1>1. /\ head_' = [head_ EXCEPT ![l] = s]
      /\ tail_' = IF s = None THEN [tail_ EXCEPT ![l] = None] ELSE tail_
      /\ prev_' = [x \in Ctx |-> IF x \in {n, s} THEN None ELSE prev_[x]]
      /\ next_' = [next_ EXCEPT ![n] = None]
  BY <1>0 DEF Pop
<1>2. /\ n # None /\ on[n] = l /\ prev_[n] = None /\ InList(n)
      /\ s # None => prev_[s] = n /\ on[s] = l /\ InList(s) /\ s # n
      /\ s = None => tail_[l] = n
  BY <1>0, CtxAssumption DEF ListType, Linked, InList
<1>3. ListType'
  BY <1>1, <1>2 DEF ListType
<1>4. \A c \in Ctx : InList(c)' <=> InList(c) /\ c # n
  <2>1. ASSUME NEW c \in Ctx, c # n, c # s PROVE InList(c)' <=> InList(c)
    <3>1. prev_'[c] = prev_[c] /\ next_'[c] = next_[c]
      BY <1>1, <2>1 DEF ListType
    <3>2. \A k \in List : head_'[k] = c <=> head_[k] = c
      BY <1>1, <2>1 DEF ListType
    <3>3. QED  BY <3>1, <3>2 DEF InList
  <2>2. ~InList(n)'
    BY <1>1, <1>2 DEF ListType, InList
  <2>3. s # None => InList(s)'
    BY <1>1, <1>2 DEF ListType, InList
  <2>4. QED  BY <1>2, <2>1, <2>2, <2>3, CtxAssumption
<1>5. Linked'
  <2>1. ASSUME NEW k \in List
        PROVE  /\ head_'[k] = None <=> tail_'[k] = None
               /\ head_'[k] # None => on[head_'[k]] = k /\ prev_'[head_'[k]] = None
               /\ tail_'[k] # None => on[tail_'[k]] = k /\ next_'[tail_'[k]] = None
    BY <1>0, <1>1, <1>2, CtxAssumption DEF ListType, Linked
  <2>2. ASSUME NEW c \in Ctx
        PROVE  /\ next_'[c] # None => prev_'[next_'[c]] = c /\ on[next_'[c]] = on[c]
               /\ prev_'[c] # None => next_'[prev_'[c]] = c /\ on[prev_'[c]] = on[c]
    BY <1>0, <1>1, <1>2, CtxAssumption DEF ListType, Linked
  <2>3. ASSUME NEW c \in Ctx, InList(c), c # n
        PROVE  /\ prev_'[c] = None => head_'[on[c]] = c
               /\ next_'[c] = None => tail_'[on[c]] = c
               /\ on[c] \in List
    BY <1>0, <1>1, <1>2, <2>3, CtxAssumption DEF ListType, Linked
  <2>4. \A k \in List, c \in Ctx : tail_'[k] = c => InList(c)'
    BY <1>0, <1>1, <1>2, <1>4, CtxAssumption DEF ListType, Linked
  <2>5. QED  BY <1>4, <2>1, <2>2, <2>3, <2>4 DEF Linked
<1>6. QED  BY <1>3, <1>4, <1>5

\* Also when the node's call returns at once.
LEMMA RemoveLinked ==
  ASSUME ListType, Linked, NoCycle, NEW n \in Ctx, on[n] \in List, Remove(on[n], n),
         on' = on \/ on' = [on EXCEPT ![n] = None]
  PROVE  /\ ListType' /\ Linked'
         /\ \A c \in Ctx : InList(c)' <=> InList(c) /\ c # n
<1>0. PICK l \in List, p \in Ctx \cup {None}, s \in Ctx \cup {None} :
        l = on[n] /\ p = prev_[n] /\ s = next_[n]
  BY DEF ListType
<1>1. /\ head_' = IF n = head_[l] THEN [head_ EXCEPT ![l] = s]
                  ELSE IF n = tail_[l] /\ p = None THEN [head_ EXCEPT ![l] = None]
                  ELSE head_
      /\ tail_' = IF n = head_[l] /\ s = None THEN [tail_ EXCEPT ![l] = None]
                  ELSE IF n # head_[l] /\ n = tail_[l] THEN [tail_ EXCEPT ![l] = p]
                  ELSE tail_
  BY <1>0 DEF Remove
<1>2. /\ on[n] = l /\ n # None
      /\ n = head_[l] => p = None
      /\ n = tail_[l] => s = None
      /\ s # None => prev_[s] = n /\ on[s] = l /\ InList(s) /\ s # n
      /\ p # None => next_[p] = n /\ on[p] = l /\ InList(p) /\ p # n
      /\ p = s => p = None
      /\ InList(n) /\ p = None => n = head_[l]
      /\ InList(n) /\ s = None => n = tail_[l]
      /\ ~InList(n) => p = None /\ s = None /\ n # head_[l] /\ n # tail_[l]
  <2>1. on[n] = l /\ n # None
    BY <1>0, CtxAssumption
  <2>2. (n = head_[l] => p = None) /\ (n = tail_[l] => s = None)
    BY <1>0, CtxAssumption DEF Linked
  <2>3. InList(n) => (p = None => n = head_[l]) /\ (s = None => n = tail_[l])
    BY <1>0 DEF Linked
  <2>4. ~InList(n) => p = None /\ s = None /\ n # head_[l] /\ n # tail_[l]
    BY <1>0 DEF Linked, InList
  <2>5. s # None => prev_[s] = n /\ on[s] = l /\ InList(s)
    BY <1>0, <2>1 DEF Linked, InList
  <2>6. p # None => next_[p] = n /\ on[p] = l /\ InList(p)
    BY <1>0, <2>1 DEF Linked, InList
  <2>7. s # n /\ p # n
    <3>1. prev_[n] # n
      BY NoSelfLink
    <3>2. QED  BY <1>0, <2>1, <2>5, <3>1
  <2>8. p = s => p = None
    <3> SUFFICES ASSUME p = s, p # None PROVE FALSE
      OBVIOUS
    <3>1. prev_[n] = p /\ prev_[p] = n /\ {n, p} \in SUBSET Ctx
      BY <1>0, <2>5
    <3>2. PICK c \in {n, p} : prev_[c] \notin {n, p}
      BY <3>1 DEF NoCycle
    <3>3. QED  BY <3>1, <3>2
  <2>9. QED  BY <2>1, <2>2, <2>3, <2>4, <2>5, <2>6, <2>7, <2>8
<1>3. ASSUME NEW x \in Ctx
      PROVE  /\ prev_'[x] = IF x = n THEN None
                            ELSE IF x = s /\ n = head_[l] THEN None
                            ELSE IF x = s /\ n # tail_[l] THEN p
                            ELSE prev_[x]
             /\ next_'[x] = IF x = n THEN None
                            ELSE IF x = p /\ n # head_[l] /\ n = tail_[l] THEN None
                            ELSE IF x = p /\ n # head_[l] THEN s
                            ELSE next_[x]
  BY <1>0, <1>2 DEF Remove
<1>4. ListType'
  <2>1. prev_' \in [Ctx -> Ctx \cup {None}] /\ next_' \in [Ctx -> Ctx \cup {None}]
    BY <1>0 DEF Remove, ListType
  <2>2. QED  BY <1>0, <1>1, <2>1 DEF ListType
<1>5. \A c \in Ctx : on[c] \in List /\ c # n => on'[c] = on[c]
  BY DEF ListType
<1>6. \A c \in Ctx : InList(c)' <=> InList(c) /\ c # n
  <2>1. ASSUME NEW c \in Ctx, c # n, c # s, c # p PROVE InList(c)' <=> InList(c)
    <3>1. prev_'[c] = prev_[c] /\ next_'[c] = next_[c] /\ on'[c] = on[c]
      BY <1>3, <2>1 DEF ListType
    <3>2. \A k \in List : head_'[k] = c <=> head_[k] = c
      BY <1>0, <1>1, <1>2, <2>1, CtxAssumption DEF ListType
    <3>3. QED  BY <3>1, <3>2 DEF InList
  <2>2. ~InList(n)'
    <3>1. prev_'[n] = None /\ next_'[n] = None
      BY <1>3
    <3>2. head_'[l] # n
      BY <1>0, <1>1, <1>2 DEF ListType
    <3>3. QED  BY <1>2, <3>1, <3>2, ListAssumption DEF InList, ListType
  <2>3. s # None => InList(s)'
    BY <1>0, <1>1, <1>3, <1>2, <1>5 DEF ListType, InList
  <2>4. p # None => InList(p)'
    <3>1. p # None /\ p = head_[l] => head_'[l] = p /\ on'[p] = l
      BY <1>0, <1>1, <1>2, <1>5, CtxAssumption DEF ListType
    <3>2. p # None /\ p # head_[l] => prev_[p] # None
      BY <1>0, <1>2 DEF Linked
    <3>3. p # None /\ p # s => prev_'[p] = prev_[p]
      BY <1>3, <1>2
    <3>4. QED  BY <1>0, <1>2, <2>3, <3>1, <3>2, <3>3 DEF InList
  <2>5. QED  BY <1>2, <2>1, <2>2, <2>3, <2>4, CtxAssumption
<1>7. Linked'
  <2>1. ASSUME NEW k \in List
        PROVE  /\ head_'[k] = None <=> tail_'[k] = None
               /\ \A c \in Ctx : head_'[k] = c => on'[c] = k /\ prev_'[c] = None
               /\ \A c \in Ctx : tail_'[k] = c => on'[c] = k /\ next_'[c] = None
    <3>1. CASE k = l
      BY <1>0, <1>1, <1>3, <1>2, <1>5, <3>1, CtxAssumption DEF ListType, Linked
    <3>2. CASE k # l
      <4>1. head_'[k] = head_[k] /\ tail_'[k] = tail_[k]
        BY <1>0, <1>1, <3>2 DEF ListType
      <4>2. ASSUME NEW c \in Ctx, head_[k] = c \/ tail_[k] = c
            PROVE  on'[c] = k /\ prev_'[c] = prev_[c] /\ next_'[c] = next_[c]
        <5>1. on[c] = k /\ c # n /\ c # s /\ c # p
          BY <1>0, <1>2, <3>2, <4>2, CtxAssumption DEF Linked
        <5>2. QED  BY <1>3, <1>5, <5>1
      <4>3. QED  BY <4>1, <4>2, CtxAssumption DEF Linked
    <3>3. QED  BY <3>1, <3>2
  <2>2. ASSUME NEW c \in Ctx, NEW d \in Ctx
        PROVE  /\ next_'[c] = d => prev_'[d] = c /\ on'[d] = on'[c]
               /\ prev_'[c] = d => next_'[d] = c /\ on'[d] = on'[c]
    BY <1>0, <1>1, <1>3, <1>2, <1>5, CtxAssumption DEF ListType, Linked, InList
  <2>3. ASSUME NEW c \in Ctx, InList(c), c # n
        PROVE  /\ prev_'[c] = None => head_'[on[c]] = c
               /\ next_'[c] = None => tail_'[on[c]] = c
               /\ on'[c] = on[c] /\ on[c] \in List
    BY <1>0, <1>1, <1>3, <1>2, <1>5, <2>3, CtxAssumption DEF ListType, Linked
  <2>4. \A k \in List, c \in Ctx : tail_'[k] = c => InList(c)'
    BY <1>0, <1>1, <1>3, <1>2, <1>6, CtxAssumption DEF ListType, Linked
  <2>5. QED  BY <1>4, <1>6, <2>1, <2>2, <2>3, <2>4, CtxAssumption DEF Linked, ListType
<1>8. QED  BY <1>4, <1>6, <1>7

(* No operation closes a cycle. *)

LEMMA PushNoCycle ==
  ASSUME ListType, Linked, NoCycle, NEW n \in Ctx, on[n] \in List, ~InList(n), Push(on[n], n)
  PROVE  NoCycle'
<1> SUFFICES ASSUME NEW S \in SUBSET Ctx, S # {} PROVE \E c \in S : prev_'[c] \notin S
  BY DEF NoCycle
<1>1. /\ \A c \in Ctx : prev_[c] # n
      /\ tail_[on[n]] # n
      /\ \A c \in Ctx \ {n} : prev_'[c] = prev_[c]
      /\ prev_'[n] = tail_[on[n]]
  BY CtxAssumption DEF ListType, Linked, InList, Push
<1>2. CASE S = {n}
  BY <1>1, <1>2
<1>3. CASE S # {n}
  <2>1. S \ {n} \in SUBSET Ctx /\ S \ {n} # {}
    BY <1>3
  <2>2. PICK c \in S \ {n} : prev_[c] \notin S \ {n}
    BY <2>1 DEF NoCycle
  <2>3. QED  BY <1>1, <2>2
<1>4. QED  BY <1>2, <1>3

LEMMA PopNoCycle ==
  ASSUME NoCycle, ListType, NEW l \in List, Pop(l)
  PROVE  NoCycle'
<1> SUFFICES ASSUME NEW S \in SUBSET Ctx, S # {} PROVE \E c \in S : prev_'[c] \notin S
  BY DEF NoCycle
<1>1. PICK c \in S : prev_[c] \notin S
  BY DEF NoCycle
<1>2. prev_'[c] \in {prev_[c], None}
  BY DEF Pop
<1>3. None \notin S
  BY CtxAssumption
<1>4. QED  BY <1>1, <1>2, <1>3

LEMMA RemoveNoCycle ==
  ASSUME ListType, Linked, NoCycle, NEW n \in Ctx, on[n] \in List, Remove(on[n], n)
  PROVE  NoCycle'
<1> SUFFICES ASSUME NEW S \in SUBSET Ctx, S # {} PROVE \E c \in S : prev_'[c] \notin S
  BY DEF NoCycle
<1>1. PICK p \in Ctx \cup {None}, s \in Ctx \cup {None} : p = prev_[n] /\ s = next_[n]
  BY DEF ListType
<1>2. s # n /\ (s # None => prev_[s] = n)
  <2>1. s # None => prev_[s] = n
    BY <1>1 DEF Linked
  <2>2. prev_[n] # n
    BY NoSelfLink
  <2>3. QED  BY <2>1, <2>2, CtxAssumption
<1>3. /\ prev_'[n] = None
      /\ \A c \in Ctx : c # n /\ c # s => prev_'[c] = prev_[c]
      /\ s # None => prev_'[s] \in {None, p}
  <2>1. n = head_[on[n]] => p = None
    BY <1>1, CtxAssumption DEF Linked
  <2>2. n # head_[on[n]] /\ n = tail_[on[n]] => s = None
    BY <1>1, CtxAssumption DEF Linked
  <2>3. QED  BY <1>1, <1>2, <2>1, <2>2 DEF Remove
<1>4. CASE n \in S
  BY <1>3, <1>4, CtxAssumption
<1>5. CASE n \notin S /\ s \in S /\ p \notin S
  BY <1>3, <1>5, CtxAssumption
<1>6. CASE n \notin S /\ s \in S /\ p \in S
  <2>1. S \cup {n} \in SUBSET Ctx /\ S \cup {n} # {}
    OBVIOUS
  <2>2. PICK c \in S \cup {n} : prev_[c] \notin S \cup {n}
    BY <2>1 DEF NoCycle
  <2>3. c # n /\ c # s
    BY <1>1, <1>2, <1>6, <2>2, CtxAssumption
  <2>4. QED  BY <1>3, <2>2, <2>3
<1>7. CASE n \notin S /\ s \notin S
  <2>1. PICK c \in S : prev_[c] \notin S
    BY DEF NoCycle
  <2>2. QED  BY <1>3, <1>7, <2>1
<1>8. QED  BY <1>4, <1>5, <1>6, <1>7

(* A node that is in no list may change to another one. *)
LEMMA MoveLinked ==
  ASSUME ListType, Linked, NEW c \in Ctx, ~InList(c), UNCHANGED listVars,
         on' \in [Ctx -> List \cup {None}], \A d \in Ctx \ {c} : on'[d] = on[d]
  PROVE  ListType' /\ Linked' /\ \A d \in Ctx : InList(d)' <=> InList(d)
<1>1. /\ head_' = head_ /\ tail_' = tail_ /\ prev_' = prev_ /\ next_' = next_
      /\ prev_[c] = None /\ next_[c] = None
      /\ \A l \in List : head_[l] # c /\ tail_[l] # c
      /\ \A d \in Ctx : next_[d] # c /\ prev_[d] # c
  BY CtxAssumption DEF listVars, InList, Linked, ListType
<1>2. ListType'
  BY <1>1 DEF ListType
<1>3. \A d \in Ctx : InList(d)' <=> InList(d)
  BY <1>1 DEF InList
<1>4. Linked'
  BY <1>1, <1>3, CtxAssumption DEF Linked, ListType
<1>5. QED  BY <1>2, <1>3, <1>4

(* Linked nodes and no cycle: that is what ListSound says, but for who may be *)
(* in a list.                                                                 *)
LEMMA LinkedIsSound ==
  ASSUME ListType, Linked, NoCycle, \A c \in Ctx : InList(c) => MayBeListed(c, on[c])
  PROVE  ListSound
<1> SUFFICES ASSUME NEW l \in List
             PROVE  /\ head_[l] = None <=> tail_[l] = None
                    /\ tail_[l] # None => tail_[l] \in Listed(l)
                    /\ \A c \in Listed(l) :
                          /\ MayBeListed(c, l)
                          /\ IF next_[c] = None THEN tail_[l] = c
                             ELSE next_[c] \in Listed(l) /\ prev_[next_[c]] = c
                          /\ IF prev_[c] = None THEN head_[l] = c
                             ELSE prev_[c] \in Listed(l) /\ next_[prev_[c]] = c
                    /\ \A S \in SUBSET Listed(l) : S # {} => \E c \in S : prev_[c] \notin S
  BY DEF ListSound
<1>1. \A c \in Ctx : c \in Listed(l) <=> InList(c) /\ on[c] = l
  BY CtxAssumption DEF Listed, InList, Linked, ListType
<1>2. Listed(l) \subseteq Ctx
  BY DEF Listed
<1>3. head_[l] = None <=> tail_[l] = None
  BY DEF Linked
<1>4. tail_[l] # None => tail_[l] \in Listed(l)
  BY <1>1 DEF Linked, ListType
<1>5. ASSUME NEW c \in Listed(l)
      PROVE  /\ MayBeListed(c, l)
             /\ IF next_[c] = None THEN tail_[l] = c
                ELSE next_[c] \in Listed(l) /\ prev_[next_[c]] = c
             /\ IF prev_[c] = None THEN head_[l] = c
                ELSE prev_[c] \in Listed(l) /\ next_[prev_[c]] = c
  <2>1. c \in Ctx /\ InList(c) /\ on[c] = l
    BY <1>1, <1>2
  <2>2. next_[c] # None => next_[c] \in Ctx /\ prev_[next_[c]] = c /\ on[next_[c]] = l
    BY <2>1 DEF Linked, ListType
  <2>3. prev_[c] # None => prev_[c] \in Ctx /\ next_[prev_[c]] = c /\ on[prev_[c]] = l
    BY <2>1 DEF Linked, ListType
  <2>4. next_[c] # None => InList(next_[c])
    BY <2>1, <2>2, CtxAssumption DEF InList
  <2>5. prev_[c] # None => InList(prev_[c])
    BY <2>1, <2>3, CtxAssumption DEF InList
  <2>6. QED  BY <1>1, <2>1, <2>2, <2>3, <2>4, <2>5 DEF Linked
<1>6. ASSUME NEW S \in SUBSET Listed(l), S # {} PROVE \E c \in S : prev_[c] \notin S
  <2>1. S \in SUBSET Ctx /\ S # {}
    BY <1>2, <1>6
  <2>2. QED  BY <2>1 DEF NoCycle
<1>7. QED  BY <1>3, <1>4, <1>5, <1>6

------------------------------------------------------------------------------
(* Lists: counting coroutines *)

One(b) == IF b THEN 1 ELSE 0

\* Two sets that differ in c at most.
LEMMA CountOne ==
  ASSUME NEW S \in SUBSET Ctx, NEW T \in SUBSET Ctx, NEW c, S \ {c} = T \ {c}
  PROVE  /\ Cardinality(S) \in Nat /\ Cardinality(T) \in Nat
         /\ Cardinality(T) = Cardinality(S) + One(c \in T) - One(c \in S)
<1>0. IsFiniteSet(S) /\ IsFiniteSet(T) /\ Cardinality(S) \in Nat /\ Cardinality(T) \in Nat
  BY FiniteAssumption, FS_Subset, FS_CardinalityType
<1>1. CASE c \in S /\ c \notin T
  <2>1. T = S \ {c}
    BY <1>1
  <2>2. QED  BY <1>0, <1>1, <2>1, FS_RemoveElement DEF One
<1>2. CASE c \notin S /\ c \in T
  <2>1. T = S \cup {c}
    BY <1>2
  <2>2. QED  BY <1>0, <1>2, <2>1, FS_AddElement DEF One
<1>3. CASE c \in S <=> c \in T
  <2>1. S = T
    BY <1>3
  <2>2. QED  BY <1>0, <1>3, <2>1 DEF One
<1>4. QED  BY <1>1, <1>2, <1>3

LEMMA CountNone ==
  ASSUME NEW S \in SUBSET Ctx
  PROVE  Cardinality(S) \in Nat /\ (Cardinality(S) = 0 <=> S = {})
BY FiniteAssumption, FS_Subset, FS_CardinalityType, FS_EmptySet

LEMMA CountFewer ==
  ASSUME NEW S \in SUBSET Ctx, NEW T \in SUBSET S
  PROVE  Cardinality(T) <= Cardinality(S)
<1>1. IsFiniteSet(S)
  BY FiniteAssumption, FS_Subset
<1>2. QED  BY <1>1, FS_Subset

\* h comes instead of c.
LEMMA CountSwapped ==
  ASSUME NEW S \in SUBSET Ctx, NEW T \in SUBSET Ctx, NEW c, NEW h \in T \ S,
         S \subseteq T \cup {c}
  PROVE  Cardinality(S) <= Cardinality(T)
<1>1. S \ {c} \in SUBSET Ctx /\ S \ {c} \in SUBSET (T \ {h}) /\ T \ {h} \in SUBSET Ctx
  OBVIOUS
<1>2. Cardinality(S \ {c}) <= Cardinality(T \ {h})
  BY <1>1, CountFewer
<1>3. /\ Cardinality(T) \in Nat /\ Cardinality(T \ {h}) \in Nat
      /\ Cardinality(T \ {h}) = Cardinality(T) + One(h \in T \ {h}) - One(h \in T)
  BY <1>1, CountOne
<1>4. /\ Cardinality(S) \in Nat /\ Cardinality(S \ {c}) \in Nat
      /\ Cardinality(S \ {c}) = Cardinality(S) + One(c \in S \ {c}) - One(c \in S)
  BY <1>1, CountOne
<1>5. QED  BY <1>2, <1>3, <1>4 DEF One

\* The nodes in a list.
Queued(l) == {c \in Ctx : InList(c) /\ on[c] = l}

LEMMA QueuedListed ==
  ASSUME ListType, Linked, NoCycle, NEW l \in List
  PROVE  Queued(l) = Listed(l) /\ (Queued(l) = {} <=> head_[l] = None)
<1>1. \A c \in Ctx : c \in Listed(l) <=> InList(c) /\ on[c] = l
  BY CtxAssumption DEF Listed, InList, Linked, ListType
<1>2. Queued(l) = Listed(l)
  BY <1>1 DEF Listed, Queued
<1>3. head_[l] # None => head_[l] \in Queued(l)
  BY DEF ListType, Linked, InList, Queued
<1>4. Queued(l) # {} => head_[l] # None
  <2> SUFFICES ASSUME Queued(l) # {} PROVE head_[l] # None
    OBVIOUS
  <2>1. PICK c \in Queued(l) : prev_[c] \notin Queued(l)
    BY DEF NoCycle, Queued
  <2>2. c \in Ctx /\ InList(c) /\ on[c] = l
    BY <2>1 DEF Queued
  <2>3. ASSUME prev_[c] # None PROVE FALSE
    <3>1. prev_[c] \in Ctx /\ next_[prev_[c]] = c /\ on[prev_[c]] = l
      BY <2>2, <2>3 DEF ListType, Linked
    <3>2. prev_[c] \in Queued(l)
      BY <2>2, <3>1, CtxAssumption DEF Queued, InList
    <3>3. QED  BY <2>1, <3>2
  <2>4. QED  BY <2>2, <2>3, CtxAssumption DEF Linked
<1>5. QED  BY <1>2, <1>3, <1>4

------------------------------------------------------------------------------
(* Lists: the coroutines in them *)

\* The status words of a coroutine that nobody has resumed from its callback, of one
\* in its callback, of one that sleeps, and of one that has left its stack.
Unresumed == {"Yield_Reset_Reset", "Sleep_Reset_Reset"}
InCallback == Unresumed \cup {"Yield_Break_Reset", "Sleep_Break_Reset"}
AsleepStatus == {"Yield_Set_Reset", "Sleep_Set_Reset", "Sleep_Set_Set"}
ParkedStatus == AsleepStatus \cup {"Ready_Reset_Reset", "Sleep_Set_Break", "Sleep_Set_Remove"}

LEMMA TryTypes ==
  ASSUME NEW s \in Status
  PROVE  /\ TryResume(s).to \in Status /\ TryYield(s).to \in Status /\ TrySleep(s).to \in Status
         /\ TrySw(s).to \in Status /\ TrySleepAdd(s).to \in Status
         /\ TrySleepRemove(s).to \in Status /\ TrySleepTimeout(s).to \in Status
  BY DEF TryResume, TryYield, TrySleep, TrySw, TrySleepAdd, TrySleepRemove, TrySleepTimeout,
         Becomes, Fails, Status, YieldStatus, SleepStatus

LEMMA PopResumeType ==
  ASSUME ListType, status \in [Ctx -> Status], NEW l \in List, PopResume(l), on' = on
  PROVE  ListType' /\ status' \in [Ctx -> Status]
<1>1. CASE head_[l] = None
  BY <1>1 DEF PopResume, ListType, listVars
<1>2. CASE head_[l] # None
  BY <1>2, TryTypes DEF PopResume, Pop, SetStatus, ListType
<1>3. QED  BY <1>1, <1>2

\* What a resume makes of a coroutine that may be in a list.
LEMMA ResumeStatus ==
  ASSUME NEW s \in Status
  PROVE  LET t == TryResume(s).to
         IN  /\ s = "Ready_Reset_Reset" => t = s
             /\ s \in InCallback => t \in InCallback
             /\ s \in ParkedStatus => t \in ParkedStatus
  BY DEF TryResume, Becomes, Fails, Status, YieldStatus, SleepStatus, InCallback, Unresumed,
         ParkedStatus, AsleepStatus

\* What a step leaves alone of d.
Same(d) ==
  pc'[d] = pc[d] /\ status'[d] = status[d] /\ on'[d] = on[d] /\ timed_out'[d] = timed_out[d]

\* A step of c that leaves the others where they are.
Alone(c) == \A d \in Ctx \ {c} : Same(d) /\ (InList(d)' <=> InList(d))

------------------------------------------------------------------------------
(* Semaphore and condition variable: the invariant *)

CallbackPC == {"sem_again", "sem_self", "unlock", "sw"}
RunningPC == {"out", "dec", "sem_wait", "sem_notify", "test", "relock", "return", "timeout",
              "cond_notify", "notify_all", "woken", "remove"}

\* The status word and the list of c at each place in the code.
Place(c) ==
  /\ pc[c] \in RunningPC => status[c] = "Ready_Reset_Reset"
  /\ pc[c] \in {"sem_check", "push"} => status[c] \in Unresumed
  /\ pc[c] \in CallbackPC => status[c] \in InCallback
  /\ pc[c] = "parked" => status[c] \in ParkedStatus
  /\ pc[c] \in {"dec", "sem_wait", "sem_check", "sem_again", "sem_self"} => on[c] = SemQue
  /\ pc[c] \in {"test", "unlock", "relock", "return", "timeout"} => on[c] = CondQue
  /\ pc[c] \in {"push", "sw", "parked", "woken", "remove"} => on[c] \in List

\* When c may be in its list: it has queued itself and nobody has resumed it,
\* or its timer has gone off and it has not removed itself.
MayBeIn(c) ==
  \/ pc[c] \in CallbackPC /\ status[c] \in Unresumed
  \/ pc[c] = "parked" /\ status[c] \in AsleepStatus
  \/ pc[c] \in {"parked", "remove"} /\ status[c] = "Ready_Reset_Reset" /\ timed_out[c]

ListInv ==
  /\ Linked /\ NoCycle
  /\ \A c \in Ctx : Place(c) /\ (InList(c) => MayBeIn(c))

IInv == TypeOK /\ ListInv /\ CondHolds

------------------------------------------------------------------------------
(* Semaphore and condition variable: types *)

LEMMA TypePreserved == TypeOK /\ ListInv /\ CondHolds /\ [Next]_vars => TypeOK'
<1> SUFFICES ASSUME TypeOK, ListInv, CondHolds, [Next]_vars PROVE TypeOK'
  OBVIOUS
<1> USE DEF TypeOK, WaitTypeOK, AsleepTypeOK, AsleepPC, SemPC, CondPC, SemTypeOK, CondTypeOK
<1> USE SemAssumption, CondAssumption
<1>1. ASSUME NEW c \in Ctx, SemStep(c), UNCHANGED condVars PROVE TypeOK'
  <2> USE DEF condVars, spentVars, semVars, listVars
  <2>1. CASE SemWait(c) \/ SemWoken(c) \/ DecFails(c) \/ SemAgain(c)
    BY <1>1, <2>1 DEF SemWait, SemWoken, DecFails, SemAgain, Move, From
  <2>2. CASE Dec(c) \/ SemNotify(c)
    <3>1. sem_' \in 0 .. MaxSem
      BY <2>2 DEF Dec, SemNotify
    <3>2. semSpent' \in 0 .. sem_'
      BY <2>2 DEF Dec, SemNotify
    <3>3. pc' \in [Ctx -> AsleepPC \cup {"push", "out"} \cup SemPC \cup CondPC]
      BY <2>2 DEF Dec, SemNotify, Move, From
    <3>4. on' \in [Ctx -> List \cup {None}]
      BY <2>2 DEF Dec, SemNotify
    <3>5. UNCHANGED <<listVars, status, timed_out>>
      BY <2>2 DEF Dec, SemNotify, Move
    <3>6. QED  BY <1>1, <3>1, <3>2, <3>3, <3>4, <3>5
  <2>3. CASE SemSuspend(c)
    BY <1>1, <2>3, TryTypes DEF SemSuspend, SuspendSelf, Suspend, From, SetStatus
  <2>4. CASE SemCheck(c)
    BY <1>1, <2>4, TryTypes DEF SemCheck, Look, From, SetStatus
  <2>5. CASE SemPush(c)
    BY <1>1, <2>5 DEF SemPush, PushSelf, Push, From
  <2>6. CASE SemSelf(c) \/ SemWakeOne(c)
    <3>1. ListType' /\ status' \in [Ctx -> Status]
      BY <2>6, PopResumeType DEF SemSelf, SemWakeOne, SemPop, ListType
    <3>2. QED  BY <1>1, <2>6, <3>1 DEF SemSelf, SemWakeOne, SemPop, From, ListType
  <2>7. CASE SemTimedOut(c)
    BY <1>1, <2>7 DEF SemTimedOut, RemoveSelf, Remove, From
  <2>8. QED  BY <1>1, <2>1, <2>2, <2>3, <2>4, <2>5, <2>6, <2>7 DEF SemStep
<1>2. ASSUME NEW c \in Ctx, CondStep(c), UNCHANGED semVars PROVE TypeOK'
  <2> USE DEF condVars, spentVars, semVars, listVars
  <2>1. CASE CondWait(c) \/ Unlock(c) \/ Relock(c) \/ RelockTimedOut(c)
    BY <1>2, <2>1 DEF CondWait, Unlock, Relock, RelockTimedOut, Acquire, Move, From
  <2>2. CASE Test(c)
    <3>1. CASE Cond
      BY <1>2, <2>2, <3>1 DEF Test, Move, From
    <3>2. CASE ~Cond
      <4>1. SuspendSelf(c, "test", "push", "return") /\ UNCHANGED condVars
        BY <2>2, <3>2 DEF Test
      <4>2. QED  BY <1>2, <4>1, TryTypes DEF SuspendSelf, Suspend, From, SetStatus
    <3>3. QED  BY <3>1, <3>2
  <2>3. CASE CondPush(c)
    BY <1>2, <2>3 DEF CondPush, PushSelf, Push, From
  <2>4. CASE CondTimedOut(c)
    BY <1>2, <2>4 DEF CondTimedOut, RemoveSelf, Remove, From
  <2>5. CASE Consume(c)
    <3>1. pc[c] = "return" /\ ~end => items - 1 \in 0 .. MaxItems
      BY DEF CondHolds, Cond
    <3>2. QED  BY <1>2, <2>5, <3>1 DEF Consume, Move, From
  <2>6. CASE Produce(c) \/ Finish(c)
    <3>1. CASE Produce(c)
      BY <1>2, <3>1 DEF Produce, Move, From
    <3>2. CASE Finish(c)
      BY <1>2, <3>2 DEF Finish, Move, From
    <3>3. QED  BY <2>6, <3>1, <3>2
  <2>7. CASE CondNotify(c) \/ NotifyAll(c)
    <3>1. ListType' /\ status' \in [Ctx -> Status]
      BY <2>7, PopResumeType DEF CondNotify, NotifyAll, ListType
    <3>2. pc' \in [Ctx -> AsleepPC \cup {"push", "out"} \cup SemPC \cup CondPC]
      BY <2>7 DEF CondNotify, NotifyAll, From
    <3>3. items' = items /\ condSpent' \in 0 .. items /\ cut' \in BOOLEAN
      <4>1. items \in Nat /\ condSpent \in 0 .. items /\ cut \in BOOLEAN
        OBVIOUS
      <4>2. CASE CondNotify(c)
        BY <4>1, <4>2 DEF CondNotify
      <4>3. CASE NotifyAll(c)
        <5>1. cut' \in BOOLEAN
          BY <4>3 DEF NotifyAll
        <5>2. QED  BY <4>1, <4>3, <5>1 DEF NotifyAll
      <4>4. QED  BY <2>7, <4>2, <4>3
    <3>4. UNCHANGED <<timed_out, on, owner, end>>
      BY <2>7 DEF CondNotify, NotifyAll
    <3>5. QED  BY <1>2, <3>1, <3>2, <3>3, <3>4 DEF ListType
  <2>8. QED  BY <1>2, <2>1, <2>2, <2>3, <2>4, <2>5, <2>6, <2>7 DEF CondStep
<1>3. ASSUME NEW c \in Ctx, ParkStep(c), UNCHANGED <<semVars, condVars>> PROVE TypeOK'
  BY <1>3, TryTypes
  DEF ParkStep, SchedStep, Switch, SleepAdd, SleepTimeout, SleepRemove, Run, From, SetStatus,
      semVars, condVars, spentVars, listVars
<1>4. CASE UNCHANGED vars
  BY <1>4 DEF vars, waitVars, semVars, condVars, spentVars, listVars
<1>5. QED  BY <1>1, <1>2, <1>3, <1>4 DEF Next

------------------------------------------------------------------------------
(* Semaphore and condition variable: the mutex *)

\* The part of CondHolds that is about c.
Holds(c) ==
  /\ pc[c] \in {"test", "return", "timeout", "unlock"} => owner = c
  /\ pc[c] = "push" /\ on[c] = CondQue => owner = c
  /\ pc[c] = "return" => items > 0 \/ end

LEMMA HoldsAll == CondHolds <=> \A c \in Ctx : Holds(c)
  BY DEF CondHolds, Holds, Cond

LEMMA CondPreserved == IInv /\ [Next]_vars => CondHolds'
<1> SUFFICES ASSUME IInv, [Next]_vars PROVE CondHolds'
  OBVIOUS
<1>0. \A c \in Ctx : Holds(c)
  BY HoldsAll DEF IInv
<1> SUFFICES ASSUME NEW d \in Ctx PROVE Holds(d)'
  BY DEF CondHolds, Holds, Cond
<1> USE DEF IInv, TypeOK, WaitTypeOK, AsleepTypeOK
<1>1. ASSUME NEW c \in Ctx, SemStep(c), UNCHANGED condVars PROVE Holds(d)'
  <2>1. CASE d # c
    <3>1. pc'[d] = pc[d] /\ on'[d] = on[d]
      BY <1>1, <2>1
      DEF SemStep, SemWait, Dec, DecFails, SemSuspend, SuspendSelf, Suspend, SemCheck, Look,
          SemPush, PushSelf, SemAgain, SemSelf, SemWoken, SemTimedOut, RemoveSelf,
          SemNotify, SemWakeOne, Move, From
    <3>2. QED  BY <1>0, <1>1, <3>1 DEF Holds, condVars
  <2>2. CASE d = c
    <3>1. pc'[c] \notin {"test", "return", "timeout", "unlock"}
      BY <1>1
      DEF SemStep, SemWait, Dec, DecFails, SemSuspend, SuspendSelf, Suspend, SemCheck, Look,
          SemPush, PushSelf, SemAgain, SemSelf, SemWoken, SemTimedOut, RemoveSelf,
          SemNotify, SemWakeOne, Move, From
    <3>2. pc'[c] = "push" => on'[c] = SemQue
      BY <1>1
      DEF ListInv, Place, SemStep, SemWait, Dec, DecFails, SemSuspend, SuspendSelf, Suspend,
          SemCheck, Look, SemPush, PushSelf, SemAgain, SemSelf, SemWoken, SemTimedOut,
          RemoveSelf, SemNotify, SemWakeOne, Move, From
    <3>3. QED  BY <2>2, <3>1, <3>2, QueuesAssumption DEF Holds
  <2>3. QED  BY <2>1, <2>2
<1>2. ASSUME NEW c \in Ctx, CondStep(c), UNCHANGED semVars PROVE Holds(d)'
  <2> USE CtxAssumption, <1>0
  <2>1. CASE CondWait(c)
    BY <2>1 DEF CondWait, Acquire, Move, From, Holds
  <2>2. CASE Test(c)
    <3>1. CASE Cond
      BY <2>2, <3>1 DEF Test, Move, From, condVars, Cond, Holds
    <3>2. CASE ~Cond
      <4>1. SuspendSelf(c, "test", "push", "return") /\ UNCHANGED condVars
        BY <2>2, <3>2 DEF Test
      <4>2. status[c] = "Ready_Reset_Reset"
        BY <4>1 DEF ListInv, Place, RunningPC, SuspendSelf, Suspend, From
      <4>3. /\ TryYield(status[c]).res = 1
            /\ TrySleep(status[c]).res = 1
        BY <4>2 DEF TryYield, TrySleep, Becomes
      <4>4. From(c, "test", "push")
        BY <4>1, <4>3 DEF SuspendSelf, Suspend
      <4>5. QED  BY <4>1, <4>4 DEF SuspendSelf, From, condVars, Holds
    <3>3. QED  BY <3>1, <3>2
  <2>3. CASE CondPush(c)
    BY <2>3 DEF CondPush, PushSelf, From, condVars, Holds
  <2>4. CASE Unlock(c)
    BY <2>4 DEF Unlock, Move, From, Holds
  <2>5. CASE Relock(c) \/ RelockTimedOut(c)
    BY <2>5 DEF Relock, RelockTimedOut, Acquire, Move, From, Holds
  <2>6. CASE CondTimedOut(c)
    BY <2>6 DEF CondTimedOut, RemoveSelf, From, condVars, Holds
  <2>7. CASE Consume(c)
    BY <2>7 DEF Consume, Move, From, Holds
  <2>8. CASE Produce(c)
    BY <2>8 DEF Produce, Move, From, Holds, CondTypeOK
  <2>9. CASE Finish(c)
    BY <2>9 DEF Finish, Move, From, Holds
  <2>10. CASE CondNotify(c) \/ NotifyAll(c)
    BY <2>10 DEF CondNotify, NotifyAll, From, Holds
  <2>11. QED
    BY <1>2, <2>1, <2>2, <2>3, <2>4, <2>5, <2>6, <2>7, <2>8, <2>9, <2>10 DEF CondStep
<1>3. ASSUME NEW c \in Ctx, ParkStep(c), UNCHANGED <<semVars, condVars>> PROVE Holds(d)'
  BY <1>0, <1>3
  DEF ParkStep, SchedStep, Switch, SleepAdd, SleepTimeout, SleepRemove, Run, From, condVars,
      Holds
<1>4. CASE UNCHANGED vars
  BY <1>0, <1>4 DEF vars, waitVars, condVars, Holds
<1>5. QED  BY <1>1, <1>2, <1>3, <1>4 DEF Next

------------------------------------------------------------------------------
(* Semaphore and condition variable: the lists *)

Fits(c) == Place(c) /\ (InList(c) => MayBeIn(c))

LEMMA SameFits ==
  ASSUME NEW d \in Ctx, Fits(d), Same(d), InList(d)' => InList(d)
  PROVE  Fits(d)'
<1>1. Place(d)'
  BY DEF Fits, Same, Place, RunningPC, CallbackPC, Unresumed, InCallback, ParkedStatus,
         AsleepStatus
<1>2. MayBeIn(d) => MayBeIn(d)'
  BY DEF Same, MayBeIn, CallbackPC, Unresumed, AsleepStatus
<1>3. QED  BY <1>1, <1>2 DEF Fits

\* A step of c that does not touch the links.
LEMMA NeutralStep ==
  ASSUME TypeOK, ListInv, NEW c \in Ctx, UNCHANGED listVars,
         \A d \in Ctx \ {c} : Same(d),
         on' = on \/ (~InList(c) /\ on' \in [Ctx -> List \cup {None}]),
         Place(c)', InList(c) => MayBeIn(c)'
  PROVE  ListInv'
<1>0. ListType /\ Linked /\ NoCycle /\ \A d \in Ctx : Fits(d)
  BY DEF TypeOK, WaitTypeOK, ListType, ListInv, Fits
<1>1. Linked' /\ \A d \in Ctx : InList(d)' <=> InList(d)
  <2>1. CASE on' = on
    BY <1>0, <2>1 DEF listVars, Linked, InList
  <2>2. CASE ~InList(c) /\ on' \in [Ctx -> List \cup {None}]
    <3>1. \A d \in Ctx \ {c} : on'[d] = on[d]
      BY DEF Same
    <3>2. QED  BY <1>0, <2>2, <3>1, MoveLinked
  <2>3. QED  BY <2>1, <2>2
<1>2. NoCycle'
  BY <1>0 DEF listVars, NoCycle
<1>3. \A d \in Ctx \ {c} : Fits(d)'
  BY <1>0, <1>1, SameFits
<1>4. Fits(c)'
  BY <1>1 DEF Fits
<1>5. QED  BY <1>1, <1>2, <1>3, <1>4 DEF ListInv, Fits

LEMMA PushStep ==
  ASSUME TypeOK, ListInv, NEW c \in Ctx, NEW q \in {"sem_again", "unlock"},
         PushSelf(c, q), on[c] = (IF q = "sem_again" THEN SemQue ELSE CondQue)
  PROVE  ListInv'
<1>0. ListType /\ Linked /\ NoCycle /\ \A d \in Ctx : Fits(d)
  BY DEF TypeOK, WaitTypeOK, ListType, ListInv, Fits
<1>1. /\ pc[c] = "push" /\ pc' = [pc EXCEPT ![c] = q] /\ Push(on[c], c)
      /\ status' = status /\ timed_out' = timed_out /\ on' = on
  BY DEF PushSelf, From
<1>2. pc[c] = "push" /\ on[c] \in List /\ status[c] \in Unresumed /\ ~InList(c)
  BY <1>0, <1>1 DEF Fits, Place, MayBeIn, CallbackPC
<1>3. Linked' /\ \A d \in Ctx : InList(d)' <=> InList(d) \/ d = c
  BY <1>0, <1>1, <1>2, PushLinked
<1>4. NoCycle'
  BY <1>0, <1>1, <1>2, PushNoCycle
<1>5. \A d \in Ctx \ {c} : Fits(d)'
  <2> SUFFICES ASSUME NEW d \in Ctx \ {c} PROVE Fits(d)'
    OBVIOUS
  <2>1. Same(d)
    BY <1>1 DEF Same, TypeOK, WaitTypeOK, AsleepTypeOK
  <2>2. QED  BY <1>0, <1>3, <2>1, SameFits
<1>6. Fits(c)'
  <2>1. pc'[c] = q /\ status'[c] \in Unresumed /\ on'[c] = on[c]
    BY <1>1, <1>2 DEF TypeOK, WaitTypeOK, AsleepTypeOK
  <2>2. CASE q = "sem_again"
    BY <2>1, <2>2 DEF Fits, Place, MayBeIn, CallbackPC, RunningPC, InCallback
  <2>3. CASE q = "unlock"
    BY <2>1, <2>3 DEF Fits, Place, MayBeIn, CallbackPC, RunningPC, InCallback
  <2>4. QED  BY <2>2, <2>3
<1>7. QED  BY <1>3, <1>4, <1>5, <1>6 DEF ListInv, Fits

LEMMA RemoveStep ==
  ASSUME TypeOK, ListInv, NEW c \in Ctx, NEW q \in {"out", "relock"}, RemoveSelf(c, q),
         \/ q = "out" /\ on' = [on EXCEPT ![c] = None]
         \/ q = "relock" /\ on' = on /\ on[c] = CondQue
  PROVE  ListInv'
<1>0. ListType /\ Linked /\ NoCycle /\ \A d \in Ctx : Fits(d)
  BY DEF TypeOK, WaitTypeOK, ListType, ListInv, Fits
<1>1. /\ pc[c] = "remove" /\ pc' = [pc EXCEPT ![c] = q] /\ Remove(on[c], c)
      /\ status' = status /\ timed_out' = timed_out
  BY DEF RemoveSelf, From
<1>2. on[c] \in List /\ status[c] = "Ready_Reset_Reset"
  BY <1>0, <1>1 DEF Fits, Place, RunningPC
<1>3. Linked' /\ \A d \in Ctx : InList(d)' <=> InList(d) /\ d # c
  BY <1>0, <1>1, <1>2, RemoveLinked
<1>4. NoCycle'
  BY <1>0, <1>1, <1>2, RemoveNoCycle
<1>5. \A d \in Ctx \ {c} : Fits(d)'
  <2> SUFFICES ASSUME NEW d \in Ctx \ {c} PROVE Fits(d)'
    OBVIOUS
  <2>1. Same(d)
    BY <1>1 DEF Same, TypeOK, WaitTypeOK, AsleepTypeOK
  <2>2. QED  BY <1>0, <1>3, <2>1, SameFits
<1>6. Fits(c)'
  <2>1. pc'[c] = q /\ status'[c] = "Ready_Reset_Reset" /\ (q = "relock" => on'[c] = CondQue)
    BY <1>1, <1>2 DEF TypeOK, WaitTypeOK, AsleepTypeOK
  <2>2. Place(c)'
    BY <2>1 DEF Place, RunningPC, CallbackPC
  <2>3. QED  BY <1>3, <2>2 DEF Fits
<1>7. QED  BY <1>3, <1>4, <1>5, <1>6 DEF ListInv, Fits

LEMMA PopStep ==
  ASSUME TypeOK, ListInv, NEW c \in Ctx, NEW l \in List, NEW q, PopResume(l),
         pc' = [pc EXCEPT ![c] = q], on' = on, timed_out' = timed_out,
         \/ pc[c] = "sem_self" /\ q = "sw"
         \/ pc[c] \in {"sem_notify", "cond_notify", "notify_all"} /\ q \in {"out", "notify_all"}
  PROVE  ListInv'
<1>0. ListType /\ Linked /\ NoCycle /\ \A d \in Ctx : Fits(d)
  BY DEF TypeOK, WaitTypeOK, ListType, ListInv, Fits
<1>1. pc'[c] = q /\ \A d \in Ctx \ {c} : pc'[d] = pc[d]
  BY DEF TypeOK, WaitTypeOK, AsleepTypeOK
<1>2. \A d \in Ctx : status[d] \in Status
  BY DEF TypeOK, WaitTypeOK, AsleepTypeOK
\* The step moves c on, and the place it comes to asks no more of it.
<1>3. ASSUME NEW d \in Ctx,
             status'[d] = status[d] \/ (MayBeIn(d) /\ status'[d] = TryResume(status[d]).to)
      PROVE  Place(d)'
  <2>1. /\ status[d] = "Ready_Reset_Reset" => status'[d] = "Ready_Reset_Reset"
        /\ status[d] \in InCallback => status'[d] \in InCallback
        /\ status[d] \in ParkedStatus => status'[d] \in ParkedStatus
    BY <1>2, <1>3, ResumeStatus
  <2>0. status'[d] = status[d] \/ pc[d] \in CallbackPC \cup {"parked", "remove"}
    BY <1>3 DEF MayBeIn
  <2>2. on'[d] = on[d] /\ Place(d)
    BY <1>0 DEF Fits
  <2>3. CASE d = c
    BY <1>1, <2>0, <2>1, <2>2, <2>3, SemAssumption DEF Place, RunningPC, CallbackPC
  <2>4. CASE d # c
    <3>1. pc'[d] = pc[d]
      BY <1>1, <2>4
    <3>2. QED  BY <2>0, <2>1, <2>2, <3>1 DEF Place, RunningPC, CallbackPC
  <2>5. QED  BY <2>3, <2>4
<1>4. ASSUME NEW d \in Ctx, status'[d] = status[d], MayBeIn(d) PROVE MayBeIn(d)'
  <2>1. timed_out'[d] = timed_out[d]
    OBVIOUS
  <2>2. CASE d = c
    BY <1>1, <1>4, <2>2 DEF MayBeIn, CallbackPC
  <2>3. CASE d # c
    BY <1>1, <1>4, <2>1, <2>3 DEF MayBeIn
  <2>4. QED  BY <2>2, <2>3
<1>5. CASE head_[l] = None
  <2>1. UNCHANGED <<listVars, status>>
    BY <1>5 DEF PopResume
  <2>2. Linked' /\ NoCycle' /\ \A d \in Ctx : InList(d)' <=> InList(d)
    BY <1>0, <2>1 DEF listVars, Linked, InList, NoCycle
  <2>3. QED  BY <1>0, <1>3, <1>4, <2>1, <2>2 DEF ListInv, Fits
<1>6. CASE head_[l] # None
  <2>1. PICK n \in Ctx : n = head_[l]
    BY <1>0, <1>6 DEF ListType
  <2>2. Pop(l) /\ status' = [status EXCEPT ![n] = TryResume(status[n]).to]
    BY <1>6, <2>1 DEF PopResume, SetStatus
  <2>3. Linked' /\ \A d \in Ctx : InList(d)' <=> InList(d) /\ d # n
    BY <1>0, <2>1, <2>2, PopLinked
  <2>4. NoCycle'
    BY <1>0, <2>2, PopNoCycle
  <2>5. InList(n) /\ status'[n] = TryResume(status[n]).to
    BY <1>0, <2>1, <2>2, CtxAssumption DEF TypeOK, WaitTypeOK, AsleepTypeOK, Linked, InList
  <2>6. \A d \in Ctx \ {n} : status'[d] = status[d]
    BY <2>2 DEF TypeOK, WaitTypeOK, AsleepTypeOK
  <2>7. \A d \in Ctx : InList(d)' => MayBeIn(d)'
    BY <1>0, <1>4, <2>3, <2>6 DEF Fits
  <2>8. \A d \in Ctx : Place(d)'
    BY <1>0, <1>3, <2>5, <2>6 DEF Fits
  <2>9. QED  BY <2>3, <2>4, <2>7, <2>8 DEF ListInv
<1>7. QED  BY <1>5, <1>6

LEMMA ListPreserved == TypeOK /\ ListInv /\ CondHolds /\ [Next]_vars => ListInv'
<1> SUFFICES ASSUME TypeOK, ListInv, [Next]_vars PROVE ListInv'
  OBVIOUS
<1> USE SemAssumption, CondAssumption
\* A step of c that leaves the links alone.
<1>1. ASSUME NEW c \in Ctx, UNCHANGED listVars,
             pc' = [pc EXCEPT ![c] = pc'[c]], status' = [status EXCEPT ![c] = status'[c]],
             timed_out' = [timed_out EXCEPT ![c] = timed_out'[c]],
             on' = on \/ (on' = [on EXCEPT ![c] = on'[c]] /\ on'[c] \in List \cup {None}),
             Place(c) => Place(c)', MayBeIn(c) => MayBeIn(c)' /\ on' = on
      PROVE  ListInv'
  <2>1. \A d \in Ctx \ {c} : Same(d)
    BY <1>1 DEF Same, TypeOK, WaitTypeOK, AsleepTypeOK
  <2>2. Place(c) /\ (InList(c) => MayBeIn(c))
    BY DEF ListInv
  <2>3. on' = on \/ (~InList(c) /\ on' \in [Ctx -> List \cup {None}])
    BY <1>1, <2>2 DEF TypeOK, WaitTypeOK
  <2>4. Place(c)' /\ (InList(c) => MayBeIn(c)')
    BY <1>1, <2>2
  <2>5. QED  BY <1>1, <2>1, <2>3, <2>4, NeutralStep
<1>2. ASSUME NEW c \in Ctx, SemStep(c), UNCHANGED condVars PROVE ListInv'
  <2> USE DEF TypeOK, WaitTypeOK, AsleepTypeOK
  <2>1. CASE SemWait(c) \/ Dec(c) \/ DecFails(c) \/ SemAgain(c) \/ SemWoken(c) \/ SemNotify(c)
    <3>1. Place(c) => Place(c)'
      BY <2>1 DEF SemWait, Dec, DecFails, SemAgain, SemWoken, SemNotify, Move, From, Place,
                  RunningPC, CallbackPC
    <3>2. MayBeIn(c) => MayBeIn(c)' /\ on' = on
      BY <2>1 DEF SemWait, Dec, DecFails, SemAgain, SemWoken, SemNotify, Move, From, MayBeIn,
                  CallbackPC
    <3>3. UNCHANGED <<listVars, status, timed_out>> /\ pc' = [pc EXCEPT ![c] = pc'[c]]
      BY <2>1 DEF SemWait, Dec, DecFails, SemAgain, SemWoken, SemNotify, Move, From
    <3>4. on' = on \/ (on' = [on EXCEPT ![c] = on'[c]] /\ on'[c] \in List \cup {None})
      BY <2>1 DEF SemWait, Dec, DecFails, SemAgain, SemWoken, SemNotify
    <3>5. QED  BY <1>1, <3>1, <3>2, <3>3, <3>4
  <2>2. CASE SemSuspend(c)
    <3>1. Place(c) => Place(c)'
      BY <2>2 DEF SemSuspend, SuspendSelf, Suspend, From, SetStatus, TryYield, TrySleep,
                  Becomes, Place, RunningPC, CallbackPC, Unresumed
    <3>2. ~MayBeIn(c)
      BY <2>2 DEF SemSuspend, SuspendSelf, Suspend, From, MayBeIn, CallbackPC
    <3>3. /\ UNCHANGED listVars /\ on' = on
          /\ pc' = [pc EXCEPT ![c] = pc'[c]] /\ status' = [status EXCEPT ![c] = status'[c]]
          /\ timed_out' = [timed_out EXCEPT ![c] = timed_out'[c]]
      BY <2>2 DEF SemSuspend, SuspendSelf, Suspend, From, SetStatus
    <3>4. QED  BY <1>1, <3>1, <3>2, <3>3
  <2>3. CASE SemCheck(c)
    <3>1. Place(c) => Place(c)'
      BY <2>3 DEF SemCheck, Look, From, SetStatus, TryResume, Becomes, Place, RunningPC,
                  CallbackPC, InCallback, Unresumed
    <3>2. ~MayBeIn(c)
      BY <2>3 DEF SemCheck, Look, From, MayBeIn, CallbackPC
    <3>3. /\ UNCHANGED <<listVars, timed_out, on>>
          /\ pc' = [pc EXCEPT ![c] = pc'[c]] /\ status' = [status EXCEPT ![c] = status'[c]]
      BY <2>3 DEF SemCheck, Look, From, SetStatus
    <3>4. QED  BY <1>1, <3>1, <3>2, <3>3
  <2>4. CASE SemPush(c)
    BY <2>4, PushStep DEF SemPush
  <2>5. CASE SemSelf(c) \/ SemWakeOne(c)
    <3>1. PopResume(SemQue) /\ on' = on /\ timed_out' = timed_out
      BY <2>5 DEF SemSelf, SemWakeOne, SemPop
    <3>2. CASE SemSelf(c)
      BY <3>1, <3>2, PopStep DEF SemSelf, From
    <3>3. CASE SemWakeOne(c)
      BY <3>1, <3>3, PopStep DEF SemWakeOne, From
    <3>4. QED  BY <2>5, <3>2, <3>3
  <2>6. CASE SemTimedOut(c)
    BY <2>6, RemoveStep DEF SemTimedOut
  <2>7. QED  BY <1>2, <2>1, <2>2, <2>3, <2>4, <2>5, <2>6 DEF SemStep
<1>3. ASSUME NEW c \in Ctx, CondStep(c), UNCHANGED semVars PROVE ListInv'
  <2> USE DEF TypeOK, WaitTypeOK, AsleepTypeOK
  <2>1. CASE CondWait(c) \/ Unlock(c) \/ Relock(c) \/ RelockTimedOut(c) \/ Consume(c)
             \/ Produce(c) \/ Finish(c)
    <3>1. Place(c) => Place(c)'
      BY <2>1 DEF CondWait, Unlock, Relock, RelockTimedOut, Consume, Produce, Finish, Move,
                  From, Place, RunningPC, CallbackPC
    <3>2. MayBeIn(c) => MayBeIn(c)' /\ on' = on
      BY <2>1 DEF CondWait, Unlock, Relock, RelockTimedOut, Consume, Produce, Finish, Move,
                  From, MayBeIn, CallbackPC
    <3>3. UNCHANGED <<listVars, status, timed_out>> /\ pc' = [pc EXCEPT ![c] = pc'[c]]
      BY <2>1 DEF CondWait, Unlock, Relock, RelockTimedOut, Consume, Produce, Finish, Move, From
    <3>4. on' = on \/ (on' = [on EXCEPT ![c] = on'[c]] /\ on'[c] \in List \cup {None})
      BY <2>1 DEF CondWait, Unlock, Relock, RelockTimedOut, Consume, Produce, Finish
    <3>5. QED  BY <1>1, <3>1, <3>2, <3>3, <3>4
  <2>2. CASE Test(c)
    <3>1. CASE Cond
      <4>1. Move(c, "test", "return") /\ on' = on
        BY <2>2, <3>1 DEF Test
      <4>2. Place(c) => Place(c)'
        BY <4>1 DEF Move, From, Place, RunningPC, CallbackPC
      <4>3. ~MayBeIn(c)
        BY <4>1 DEF Move, From, MayBeIn, CallbackPC
      <4>4. UNCHANGED <<listVars, status, timed_out>> /\ pc' = [pc EXCEPT ![c] = pc'[c]]
        BY <4>1 DEF Move, From
      <4>5. QED  BY <1>1, <4>1, <4>2, <4>3, <4>4
    <3>2. CASE ~Cond
      <4>1. SuspendSelf(c, "test", "push", "return")
        BY <2>2, <3>2 DEF Test
      <4>2. Place(c) => Place(c)'
        BY <4>1 DEF SuspendSelf, Suspend, From, SetStatus, TryYield, TrySleep, Becomes, Place,
                    RunningPC, CallbackPC, Unresumed
      <4>3. ~MayBeIn(c)
        BY <4>1 DEF SuspendSelf, Suspend, From, MayBeIn, CallbackPC
      <4>4. /\ UNCHANGED listVars /\ on' = on
            /\ pc' = [pc EXCEPT ![c] = pc'[c]] /\ status' = [status EXCEPT ![c] = status'[c]]
            /\ timed_out' = [timed_out EXCEPT ![c] = timed_out'[c]]
        BY <4>1 DEF SuspendSelf, Suspend, From, SetStatus
      <4>5. QED  BY <1>1, <4>2, <4>3, <4>4
    <3>3. QED  BY <3>1, <3>2
  <2>3. CASE CondPush(c)
    <3>1. "unlock" \in {"sem_again", "unlock"} /\ on[c] = CondQue /\ PushSelf(c, "unlock")
      BY <2>3 DEF CondPush
    <3>2. QED  BY <3>1, PushStep
  <2>4. CASE CondTimedOut(c)
    <3>1. "relock" \in {"out", "relock"} /\ RemoveSelf(c, "relock") /\ on' = on
          /\ on[c] = CondQue
      BY <2>4 DEF CondTimedOut
    <3>2. QED  BY <3>1, RemoveStep
  <2>5. CASE CondNotify(c) \/ NotifyAll(c)
    <3>1. PopResume(CondQue) /\ on' = on /\ timed_out' = timed_out
      BY <2>5 DEF CondNotify, NotifyAll
    <3>2. PICK q \in {"out", "notify_all"} :
            pc[c] \in {"cond_notify", "notify_all"} /\ pc' = [pc EXCEPT ![c] = q]
      BY <2>5 DEF CondNotify, NotifyAll, From
    <3>3. QED  BY <3>1, <3>2, PopStep
  <2>6. QED  BY <1>3, <2>1, <2>2, <2>3, <2>4, <2>5 DEF CondStep
<1>4. ASSUME NEW c \in Ctx, ParkStep(c) PROVE ListInv'
  <2> USE DEF TypeOK, WaitTypeOK, AsleepTypeOK
  <2>1. /\ UNCHANGED listVars /\ on' = on
        /\ pc' = [pc EXCEPT ![c] = pc'[c]] /\ status' = [status EXCEPT ![c] = status'[c]]
        /\ timed_out' = [timed_out EXCEPT ![c] = timed_out'[c]]
    BY <1>4 DEF ParkStep, SchedStep, Switch, SleepAdd, SleepTimeout, SleepRemove, Run, From,
                SetStatus
  <2>2. Place(c) => Place(c)'
    BY <1>4 DEF ParkStep, SchedStep, Switch, SleepAdd, SleepTimeout, SleepRemove, Run, From,
                SetStatus, TrySw, TrySleepAdd, TrySleepTimeout, TrySleepRemove, Becomes, Fails,
                Place, RunningPC, CallbackPC, InCallback, Unresumed, ParkedStatus, AsleepStatus
  <2>3. MayBeIn(c) => MayBeIn(c)'
    BY <1>4 DEF ParkStep, SchedStep, Switch, SleepAdd, SleepTimeout, SleepRemove, Run, From,
                SetStatus, TrySw, TrySleepAdd, TrySleepTimeout, TrySleepRemove, Becomes, Fails,
                MayBeIn, CallbackPC, Unresumed, AsleepStatus
  <2>4. QED  BY <1>1, <2>1, <2>2, <2>3
<1>5. CASE UNCHANGED vars
  <2>1. \A d \in Ctx : Same(d)
    BY <1>5 DEF Same, vars, waitVars
  <2>2. UNCHANGED listVars /\ on' = on
    BY <1>5 DEF vars, waitVars
  <2>3. Linked' /\ NoCycle' /\ \A d \in Ctx : InList(d)' <=> InList(d)
    BY <2>2 DEF ListInv, listVars, Linked, NoCycle, InList
  <2>4. \A d \in Ctx : Fits(d)'
    BY <2>1, <2>3, SameFits DEF ListInv, Fits
  <2>5. QED  BY <2>3, <2>4 DEF ListInv, Fits
<1>6. QED  BY <1>2, <1>3, <1>4, <1>5 DEF Next

------------------------------------------------------------------------------
(* Semaphore and condition variable: types, lists and mutex stay sound *)

LEMMA Initially == Init => IInv
<1> SUFFICES ASSUME Init PROVE IInv
  OBVIOUS
<1> USE SemAssumption, CondAssumption, CtxAssumption, ListAssumption
    DEF Init, WaitInit, AsleepInit, SemInit, CondInit
<1>1. TypeOK
  <2>1. WaitTypeOK({"out"} \cup SemPC \cup CondPC)
    BY DEF WaitTypeOK, AsleepTypeOK, AsleepPC, Status
  <2>2. sem_ \in 0 .. MaxSem /\ items \in 0 .. MaxItems
    OBVIOUS
  <2>3. /\ semSpent \in 0 .. sem_ /\ condSpent \in 0 .. items
        /\ end \in BOOLEAN /\ cut \in BOOLEAN /\ owner \in Ctx \cup {None}
    <3>1. 0 \in 0 .. 0
      OBVIOUS
    <3>2. semSpent \in 0 .. sem_ /\ condSpent \in 0 .. items
      BY <3>1, Zenon
    <3>3. QED  BY <3>2, Zenon
  <2>4. SemTypeOK /\ CondTypeOK
    BY <2>2, <2>3 DEF SemTypeOK, CondTypeOK
  <2>5. QED  BY <2>1, <2>4 DEF TypeOK
<1>2. \A c \in Ctx : ~InList(c)
  BY DEF InList
<1>3. Linked
  BY <1>2 DEF Linked
<1>4. NoCycle
  BY DEF NoCycle
<1>5. \A c \in Ctx : Place(c)
  BY DEF Place, RunningPC, CallbackPC
<1>6. CondHolds
  BY DEF CondHolds
<1>7. QED  BY <1>1, <1>2, <1>3, <1>4, <1>5, <1>6 DEF IInv, ListInv

LEMMA Invariance == Spec => []IInv
<1>1. IInv /\ [Next]_vars => IInv'
  BY TypePreserved, ListPreserved, CondPreserved DEF IInv
<1>2. QED  BY Initially, <1>1, PTL DEF Spec

\* Every variable keeps its type: the links are nodes or nullptr, the count of
\* permits never goes below zero, and no item is taken that is not there.
THEOREM TypeCorrect == Spec => []TypeOK
<1>1. IInv => TypeOK
  BY DEF IInv
<1>2. QED  BY Invariance, <1>1, PTL

\* The lists of conolist_mt stay lists under pushes from callbacks, pops by
\* notifiers and removals by sleepers that have timed out, and no node stays
\* in one after the call on whose stack it lives.
THEOREM ListsStaySound == Spec => []ListSound
<1>1. IInv => ListSound
  <2> SUFFICES ASSUME IInv PROVE ListSound
    OBVIOUS
  <2>1. ListType /\ Linked /\ NoCycle
    BY DEF IInv, TypeOK, WaitTypeOK, ListType, ListInv
  <2>2. ASSUME NEW c \in Ctx, InList(c) PROVE MayBeListed(c, on[c])
    BY <2>2 DEF IInv, ListInv, MayBeIn, MayBeListed, Waiting, CallbackPC, Unresumed,
                AsleepStatus, YieldStatus, SleepStatus
  <2>3. QED  BY <2>1, <2>2, LinkedIsSound
<1>2. QED  BY Invariance, <1>1, PTL

\* wait and wait_until of cocondvariable return with the mutex held, and the
\* former only when the predicate holds.
THEOREM WaitReturnsLocked == Spec => []CondHolds
<1>1. IInv => CondHolds
  BY DEF IInv
<1>2. QED  BY Invariance, <1>1, PTL

------------------------------------------------------------------------------
(* Semaphore and condition variable: nobody is overlooked *)

Resumed == {"Yield_Break_Reset", "Sleep_Break_Reset", "Sleep_Set_Break", "Sleep_Set_Remove"}

\* c has been resumed from its wait and has not run yet.
OnHisWay(c) ==
  \/ pc[c] = "woken" \/ status[c] \in Resumed
  \/ pc[c] = "parked" /\ status[c] = "Ready_Reset_Reset" /\ ~timed_out[c]

AtPC(P) == {c \in Ctx : pc[c] \in P}

\* Who will look at what l is about, or wake up somebody who will.
Coming(l, P) == {c \in Ctx : pc[c] \in P \/ (on[c] = l /\ OnHisWay(c))}

\* Each node in l has somebody who will look, or resume a node, after its push;
\* or else each of the k units has somebody who is coming for it.
Found(k, l, L, P) ==
  Cardinality(Queued(l)) <= Cardinality(AtPC(L)) \/ k <= Cardinality(Coming(l, P))

SemLookPC == {"sem_again", "sem_self", "sem_notify"}
SemComePC == {"dec", "sem_notify"}
CondComePC == {"cond_notify", "test", "return"}

SemFound == Found(sem_ - semSpent, SemQue, SemLookPC, SemComePC)

ItemFound == end \/ Found(items - condSpent, CondQue, {}, CondComePC)

EndFound == end /\ ~cut => Queued(CondQue) = {} \/ AtPC({"notify_all"}) # {}

\* A timer ends a sleep when nobody has resumed it; who queues himself holds the
\* mutex and has seen the predicate false; notify_all comes after the end.
Told(c) ==
  /\ status[c] # "Ready_Reset_Reset" => ~timed_out[c]
  /\ pc[c] = "push" /\ on[c] = CondQue => items = 0 /\ ~end
  /\ pc[c] = "notify_all" => end

FInv == IInv /\ (\A c \in Ctx : Told(c)) /\ SemFound /\ ItemFound /\ EndFound

------------------------------------------------------------------------------

\* Nobody counts more notifications as spent than there are units.
LEMMA UnitTypes ==
  ASSUME TypeOK, TypeOK'
  PROVE  /\ sem_ \in Nat /\ semSpent \in Nat /\ semSpent <= sem_ /\ sem_ - semSpent \in Int
         /\ sem_' \in Nat /\ semSpent' \in Nat /\ sem_' - semSpent' \in Int
         /\ items \in Nat /\ condSpent \in Nat /\ condSpent <= items /\ items - condSpent \in Int
         /\ items' \in Nat /\ condSpent' \in Nat /\ items' - condSpent' \in Int
<1>1. sem_ \in Nat /\ items \in Nat /\ sem_' \in Nat /\ items' \in Nat
  BY SemAssumption, CondAssumption DEF TypeOK, SemTypeOK, CondTypeOK
<1>2. /\ semSpent \in 0 .. sem_ /\ condSpent \in 0 .. items
      /\ semSpent' \in 0 .. sem_' /\ condSpent' \in 0 .. items'
  BY DEF TypeOK, SemTypeOK, CondTypeOK
<1>3. QED  BY <1>1, <1>2

\* The steps that pop nothing.
Plain(c) ==
  \/ SemWait(c) \/ Dec(c) \/ DecFails(c) \/ SemSuspend(c) \/ SemCheck(c) \/ SemPush(c)
  \/ SemAgain(c) \/ SemWoken(c) \/ SemTimedOut(c) \/ SemNotify(c)
  \/ CondWait(c) \/ Test(c) \/ CondPush(c) \/ Unlock(c) \/ Relock(c) \/ CondTimedOut(c)
  \/ RelockTimedOut(c) \/ Consume(c) \/ Produce(c) \/ Finish(c)
  \/ ParkStep(c)

LEMMA PlainPopsNot ==
  ASSUME NEW c \in Ctx, Plain(c)
  PROVE  ~SemSelf(c) /\ ~SemWakeOne(c) /\ ~CondNotify(c) /\ ~NotifyAll(c)
<1>1. pc[c] \notin {"sem_self", "sem_notify", "cond_notify", "notify_all"}
  BY DEF Plain, SemWait, Dec, DecFails, SemSuspend, SuspendSelf, Suspend, SemCheck, Look,
         SemPush, SemAgain, SemWoken, SemTimedOut, RemoveSelf, SemNotify, CondWait, Test,
         CondPush, PushSelf, Unlock, Relock, CondTimedOut, RelockTimedOut, Consume, Produce,
         Finish, ParkStep, SchedStep, Switch, SleepAdd, SleepTimeout, SleepRemove, Run, Move,
         From
<1>2. QED  BY <1>1 DEF SemSelf, SemWakeOne, CondNotify, NotifyAll, From

LEMMA PlainAlone ==
  ASSUME IInv, NEW c \in Ctx, Plain(c)
  PROVE  /\ Alone(c)
         /\ InList(c)' => InList(c) \/ pc[c] = "push"
         /\ InList(c) /\ InList(c)' => on'[c] = on[c]
<1> USE DEF IInv, TypeOK, WaitTypeOK, AsleepTypeOK
<1>0. ListType /\ Linked /\ NoCycle /\ \A d \in Ctx : Fits(d)
  BY DEF ListType, ListInv, Fits
<1>1. ASSUME NEW d \in Ctx \ {c} PROVE Same(d)
  <2>1. CASE \/ SemWait(c) \/ Dec(c) \/ DecFails(c) \/ SemSuspend(c) \/ SemCheck(c) \/ SemPush(c)
             \/ SemAgain(c) \/ SemWoken(c) \/ SemTimedOut(c) \/ SemNotify(c)
    BY <2>1
    DEF Same, SemWait, Dec, DecFails, SemSuspend, SuspendSelf, Suspend, SemCheck, Look, SemPush,
        PushSelf, SemAgain, SemWoken, SemTimedOut, RemoveSelf, SemNotify, Move, From, SetStatus
  <2>2. CASE \/ CondWait(c) \/ CondPush(c) \/ Unlock(c) \/ Relock(c) \/ CondTimedOut(c)
             \/ RelockTimedOut(c) \/ Consume(c) \/ Produce(c) \/ Finish(c)
    BY <2>2
    DEF Same, CondWait, CondPush, PushSelf, Unlock, Relock, CondTimedOut, RemoveSelf,
        RelockTimedOut, Consume, Produce, Finish, Move, From
  <2>3. CASE Test(c)
    BY <2>3 DEF Same, Test, SuspendSelf, Suspend, Move, From, SetStatus
  <2>4. CASE ParkStep(c)
    BY <2>4 DEF Same, ParkStep, SchedStep, Switch, SleepAdd, SleepTimeout, SleepRemove, Run,
                From, SetStatus
  <2>5. QED  BY <2>1, <2>2, <2>3, <2>4 DEF Plain
<1>2. CASE SemPush(c) \/ CondPush(c)
  <2>1. pc[c] = "push" /\ Push(on[c], c) /\ on' = on
    BY <1>2 DEF SemPush, CondPush, PushSelf, From
  <2>2. on[c] \in List /\ ~InList(c)
    BY <1>0, <2>1 DEF Fits, Place, MayBeIn, CallbackPC
  <2>3. \A d \in Ctx : InList(d)' <=> InList(d) \/ d = c
    BY <1>0, <2>1, <2>2, PushLinked
  <2>4. QED  BY <1>1, <2>1, <2>3 DEF Alone
<1>3. CASE SemTimedOut(c) \/ CondTimedOut(c)
  <2>1. pc[c] = "remove" /\ Remove(on[c], c) /\ (on' = on \/ on' = [on EXCEPT ![c] = None])
    BY <1>3 DEF SemTimedOut, CondTimedOut, RemoveSelf, From
  <2>2. on[c] \in List
    BY <1>0, <2>1 DEF Fits, Place
  <2>3. \A d \in Ctx : InList(d)' <=> InList(d) /\ d # c
    BY <1>0, <2>1, <2>2, RemoveLinked
  <2>4. QED  BY <1>1, <2>3 DEF Alone
<1>4. CASE ~(SemPush(c) \/ CondPush(c) \/ SemTimedOut(c) \/ CondTimedOut(c))
  <2>1. UNCHANGED listVars
    <3>1. CASE Test(c)
      BY <3>1 DEF Test, SuspendSelf, Move
    <3>2. CASE ~Test(c)
      BY <1>4, <3>2
      DEF Plain, SemWait, Dec, DecFails, SemSuspend, SuspendSelf, SemCheck, Look,
          SemAgain, SemWoken, SemNotify, CondWait, Unlock, Relock,
          RelockTimedOut, Consume, Produce, Finish, Move, ParkStep
    <3>3. QED  BY <3>1, <3>2
  <2>2. \A d \in Ctx \ {c} : InList(d)' <=> InList(d)
    BY <1>1, <2>1 DEF Same, InList, listVars
  <2>3. CASE on' = on
    <3>1. InList(c)' <=> InList(c)
      BY <2>1, <2>3 DEF InList, listVars
    <3>2. QED  BY <1>1, <2>2, <2>3, <3>1 DEF Alone
  <2>4. CASE on' # on
    <3>1. SemWait(c) \/ Dec(c) \/ CondWait(c) \/ Consume(c)
      BY <1>4, <2>4
      DEF Plain, DecFails, SemSuspend, SuspendSelf, SemCheck, Look,
          SemAgain, SemWoken, SemNotify, Test, Unlock, Relock,
          RelockTimedOut, Produce, Finish, ParkStep
    <3>2. /\ pc[c] \in {"out", "dec", "return", "timeout"}
          /\ on' \in [Ctx -> List \cup {None}]
      BY <3>1, SemAssumption, CondAssumption
      DEF SemWait, Dec, CondWait, Consume, Move, From
    <3>3. ~InList(c)
      BY <1>0, <3>2 DEF Fits, MayBeIn, CallbackPC
    <3>4. InList(c)' <=> InList(c)
      BY <1>0, <1>1, <2>1, <3>2, <3>3, MoveLinked DEF Same
    <3>5. QED  BY <1>1, <2>2, <3>3, <3>4 DEF Alone
  <2>5. QED  BY <2>3, <2>4
<1>5. QED  BY <1>2, <1>3, <1>4

\* What a plain step of c does to the two counts, and to the number k of units.
LEMMA PlainFound ==
  ASSUME NEW c \in Ctx, Alone(c), NEW l \in List, NEW L, NEW P, NEW k \in Int, NEW m \in Int,
         Found(k, l, L, P),
         c \in Queued(l)' => c \in Queued(l) \/ (c \notin AtPC(L) /\ c \in AtPC(L)'),
         \/ m <= 0
         \/ /\ c \in AtPC(L) => c \in AtPC(L)'
            /\ \/ m = k /\ (c \in Coming(l, P) => c \in Coming(l, P)')
               \/ m = k + 1 /\ c \notin Coming(l, P) /\ c \in Coming(l, P)'
               \/ m = k - 1
  PROVE  Found(m, l, L, P)'
<1>1. PICK Q, LL, C, Q1, L1, C1 \in SUBSET Ctx :
        /\ Q = Queued(l) /\ LL = AtPC(L) /\ C = Coming(l, P)
        /\ Q1 = Queued(l)' /\ L1 = AtPC(L)' /\ C1 = Coming(l, P)'
  BY DEF Queued, AtPC, Coming
<1>2. Q \ {c} = Q1 \ {c} /\ LL \ {c} = L1 \ {c} /\ C \ {c} = C1 \ {c}
  BY <1>1 DEF Alone, Same, Queued, AtPC, Coming, OnHisWay
<1>3. /\ Cardinality(Q) \in Nat /\ Cardinality(Q1) \in Nat
      /\ Cardinality(Q1) = Cardinality(Q) + One(c \in Q1) - One(c \in Q)
  BY <1>2, CountOne
<1>4. /\ Cardinality(LL) \in Nat /\ Cardinality(L1) \in Nat
      /\ Cardinality(L1) = Cardinality(LL) + One(c \in L1) - One(c \in LL)
  BY <1>2, CountOne
<1>5. /\ Cardinality(C) \in Nat /\ Cardinality(C1) \in Nat
      /\ Cardinality(C1) = Cardinality(C) + One(c \in C1) - One(c \in C)
  BY <1>2, CountOne
<1>6. Cardinality(Q) <= Cardinality(LL) \/ k <= Cardinality(C)
  BY <1>1 DEF Found
<1>7. Cardinality(Q1) <= Cardinality(L1) \/ m <= Cardinality(C1)
  <2>1. CASE m <= 0
    BY <1>5, <2>1
  <2>2. CASE m > 0 /\ Cardinality(Q) <= Cardinality(LL)
    <3>1. c \in Q1 => c \in Q \/ (c \notin LL /\ c \in L1)
      BY <1>1
    <3>2. c \in LL => c \in L1
      BY <1>1, <2>2
    <3>3. QED  BY <1>3, <1>4, <2>2, <3>1, <3>2 DEF One
  <2>3. CASE m > 0 /\ k <= Cardinality(C)
    <3>1. \/ m = k /\ (c \in C => c \in C1)
          \/ m = k + 1 /\ c \notin C /\ c \in C1
          \/ m = k - 1
      BY <1>1, <2>3
    <3>2. QED  BY <1>5, <2>3, <3>1 DEF One
  <2>4. QED  BY <1>6, <2>1, <2>2, <2>3
<1>8. QED  BY <1>1, <1>7 DEF Found

\* What a pop of l by c is to the nodes and to the coroutines on their way.
Pops(c, l) ==
  /\ PopResume(l) /\ on' = on /\ timed_out' = timed_out
  /\ pc' = [pc EXCEPT ![c] = pc'[c]]
  /\ \/ pc[c] = "sem_self" /\ pc'[c] = "sw"
     \/ pc[c] \in {"sem_notify", "cond_notify", "notify_all"} /\ pc'[c] \in {"out", "notify_all"}

LEMMA PopNone ==
  ASSUME IInv, NEW c \in Ctx, NEW l \in List, Pops(c, l), head_[l] = None
  PROVE  /\ status' = status /\ Queued(l)' = {}
         /\ \A d \in Ctx : InList(d)' <=> InList(d)
<1>1. ListType /\ Linked /\ NoCycle
  BY DEF IInv, TypeOK, WaitTypeOK, ListType, ListInv
<1>2. UNCHANGED <<listVars, status, on>>
  BY DEF Pops, PopResume
<1>3. \A d \in Ctx : InList(d)' <=> InList(d)
  BY <1>2 DEF listVars, InList
<1>4. Queued(l) = {}
  BY <1>1, QueuedListed
<1>5. QED  BY <1>2, <1>3, <1>4 DEF Queued

LEMMA PopFirst ==
  ASSUME IInv, \A d \in Ctx : Told(d), NEW c \in Ctx, NEW l \in List, Pops(c, l),
         NEW h \in Ctx, h = head_[l], ~Missed(l)
  PROVE  /\ h \in Queued(l) /\ ~OnHisWay(h) /\ OnHisWay(h)'
         /\ pc[h] \in CallbackPC \cup {"parked", "remove"} /\ on[h] = l
         /\ \A d \in Ctx : InList(d)' <=> InList(d) /\ d # h
         /\ \A d \in Ctx \ {h} : status'[d] = status[d]
<1> USE DEF IInv, TypeOK, WaitTypeOK, AsleepTypeOK
<1>1. ListType /\ Linked /\ NoCycle /\ h # None
  BY CtxAssumption DEF ListType, ListInv
<1>2. Pop(l) /\ status' = [status EXCEPT ![h] = TryResume(status[h]).to] /\ on' = on
  BY <1>1 DEF Pops, PopResume, SetStatus
<1>3. \A d \in Ctx : InList(d)' <=> InList(d) /\ d # h
  BY <1>1, <1>2, PopLinked
<1>4. on[h] = l /\ InList(h) /\ MayBeIn(h)
  BY <1>1 DEF Linked, InList, ListInv
<1>5. TryResume(status[h]).res >= 0 /\ status[h] \in Status
  <2>1. status[h] \in Status
    OBVIOUS
  <2>2. ~(TryResume(status[h]).res < 0)
    BY <1>1 DEF Missed
  <2>3. QED  BY <2>1, <2>2 DEF TryResume, Becomes, Fails
<1>6. \/ status[h] \in Unresumed /\ status'[h] \in Resumed
      \/ status[h] \in {"Sleep_Set_Reset", "Sleep_Set_Set"} /\ status'[h] \in Resumed
      \/ status[h] = "Yield_Set_Reset" /\ status'[h] = "Ready_Reset_Reset"
  BY <1>2, <1>4, <1>5
  DEF TryResume, Becomes, Fails, MayBeIn, Unresumed, AsleepStatus, Resumed
<1>7. pc[h] \in CallbackPC \cup {"parked", "remove"}
  BY <1>4 DEF MayBeIn
<1>8. ~OnHisWay(h)
  BY <1>4, <1>6, <1>7 DEF OnHisWay, CallbackPC, Resumed, Unresumed
<1>9. OnHisWay(h)'
  <2>1. CASE status'[h] \in Resumed
    BY <2>1 DEF OnHisWay
  <2>2. CASE status[h] = "Yield_Set_Reset" /\ status'[h] = "Ready_Reset_Reset"
    <3>1. pc[h] = "parked"
      BY <1>4, <2>2 DEF MayBeIn, Unresumed
    <3>2. h # c
      BY <3>1 DEF Pops
    <3>3. pc'[h] = "parked" /\ ~timed_out'[h]
      BY <2>2, <3>1, <3>2 DEF Pops, Told
    <3>4. QED  BY <2>2, <3>3 DEF OnHisWay
  <2>3. QED  BY <1>6, <2>1, <2>2
<1>10. \A d \in Ctx \ {h} : status'[d] = status[d]
  BY <1>2
<1>11. QED  BY <1>3, <1>4, <1>7, <1>8, <1>9, <1>10 DEF Queued

\* Places of those who come that are not in any callback.
ComePC == {"dec", "sem_notify", "cond_notify", "test", "return"}

LEMMA PopFound ==
  ASSUME IInv, \A d \in Ctx : Told(d), NEW c \in Ctx, NEW l \in List, Pops(c, l), ~Missed(l),
         NEW L, NEW P \in SUBSET ComePC, NEW k \in Int, Found(k, l, L, P)
  PROVE  Found(k, l, L, P)'
<1>0. ListType
  BY DEF IInv, TypeOK, WaitTypeOK, ListType
<1>1. PICK Q, LL, C, Q1, L1, C1 \in SUBSET Ctx :
        /\ Q = Queued(l) /\ LL = AtPC(L) /\ C = Coming(l, P)
        /\ Q1 = Queued(l)' /\ L1 = AtPC(L)' /\ C1 = Coming(l, P)'
  BY DEF Queued, AtPC, Coming
<1>2. CASE head_[l] = None
  <2>1. Q1 = {}
    BY <1>1, <1>2, PopNone
  <2>2. Cardinality(Q1) = 0 /\ Cardinality(L1) \in Nat
    BY <2>1, CountNone
  <2>3. QED  BY <1>1, <2>2 DEF Found
<1>3. CASE head_[l] # None
  <2>1. PICK h \in Ctx : h = head_[l]
    BY <1>0, <1>3 DEF ListType
  <2>2. /\ h \in Queued(l) /\ ~OnHisWay(h) /\ OnHisWay(h)'
        /\ pc[h] \in CallbackPC \cup {"parked", "remove"} /\ on[h] = l
        /\ \A d \in Ctx : InList(d)' <=> InList(d) /\ d # h
        /\ \A d \in Ctx \ {h} : status'[d] = status[d]
    BY <2>1, PopFirst
  <2>3. on' = on /\ timed_out' = timed_out /\ \A d \in Ctx \ {c} : pc'[d] = pc[d]
    BY DEF Pops, IInv, TypeOK, WaitTypeOK, AsleepTypeOK
  <2>4. h \in Q /\ h \notin Q1 /\ Q \ {h} = Q1 \ {h}
    BY <1>1, <2>2, <2>3 DEF Queued
  <2>5. LL \ {c} = L1 \ {c}
    BY <1>1, <2>3 DEF AtPC
  <2>6. h \in C1 \ C
    <3>1. h \notin C
      BY <1>1, <2>2 DEF Coming, ComePC, CallbackPC
    <3>2. h \in C1
      BY <1>1, <2>2, <2>3 DEF Coming
    <3>3. QED  BY <3>1, <3>2
  <2>7. C \subseteq C1 \cup {c}
    <3> SUFFICES ASSUME NEW d \in C, d # c, d # h PROVE d \in C1
      BY <2>6
    <3>1. pc'[d] = pc[d] /\ status'[d] = status[d] /\ timed_out'[d] = timed_out[d]
          /\ on'[d] = on[d]
      BY <2>2, <2>3
    <3>2. QED  BY <1>1, <3>1 DEF Coming, OnHisWay
  <2>8. /\ Cardinality(Q) \in Nat /\ Cardinality(Q1) = Cardinality(Q) - 1
    <3>1. /\ Cardinality(Q) \in Nat /\ Cardinality(Q1) \in Nat
          /\ Cardinality(Q1) = Cardinality(Q) + One(h \in Q1) - One(h \in Q)
      BY <2>4, CountOne
    <3>2. QED  BY <2>4, <3>1 DEF One
  <2>9. Cardinality(L1) >= Cardinality(LL) - 1 /\ Cardinality(LL) \in Nat /\ Cardinality(L1) \in Nat
    <3>1. /\ Cardinality(LL) \in Nat /\ Cardinality(L1) \in Nat
          /\ Cardinality(L1) = Cardinality(LL) + One(c \in L1) - One(c \in LL)
      BY <2>5, CountOne
    <3>2. QED  BY <3>1 DEF One
  <2>10. Cardinality(C) <= Cardinality(C1) /\ Cardinality(C) \in Nat /\ Cardinality(C1) \in Nat
    BY <2>6, <2>7, CountSwapped, CountNone
  <2>11. Cardinality(Q) <= Cardinality(LL) \/ k <= Cardinality(C)
    BY <1>1 DEF Found
  <2>12. Cardinality(Q1) <= Cardinality(L1) \/ k <= Cardinality(C1)
    BY <2>8, <2>9, <2>10, <2>11
  <2>13. QED  BY <1>1, <2>12 DEF Found
<1>4. QED  BY <1>2, <1>3

\* A pop that meets somebody whose timer has won.
LEMMA PopMissed ==
  ASSUME IInv, NEW c \in Ctx, NEW l \in List, Pops(c, l), Missed(l),
         NEW L, NEW P, NEW k \in Int, Found(k, l, L, P)
  PROVE  Found(k - 1, l, L, P)'
<1> USE DEF IInv, TypeOK, WaitTypeOK, AsleepTypeOK
<1>0. ListType /\ Linked /\ NoCycle
  BY DEF ListType, ListInv
<1>1. PICK Q, LL, C, Q1, L1, C1 \in SUBSET Ctx :
        /\ Q = Queued(l) /\ LL = AtPC(L) /\ C = Coming(l, P)
        /\ Q1 = Queued(l)' /\ L1 = AtPC(L)' /\ C1 = Coming(l, P)'
  BY DEF Queued, AtPC, Coming
<1>2. PICK h \in Ctx : h = head_[l]
  BY <1>0 DEF Missed, ListType
<1>3. /\ Pop(l) /\ on' = on /\ timed_out' = timed_out
      /\ status' = [status EXCEPT ![h] = TryResume(status[h]).to]
      /\ \A d \in Ctx \ {c} : pc'[d] = pc[d]
  BY <1>2 DEF Missed, Pops, PopResume, SetStatus
<1>4. status' = status
  <2>1. TryResume(status[h]).to = status[h]
    BY <1>2 DEF Missed, TryResume, Becomes, Fails
  <2>2. QED  BY <1>3, <2>1
<1>5. h \in Q /\ h \notin Q1 /\ Q \ {h} = Q1 \ {h}
  <2>1. \A d \in Ctx : InList(d)' <=> InList(d) /\ d # h
    BY <1>0, <1>2, <1>3, PopLinked DEF Missed
  <2>2. on[h] = l /\ InList(h)
    BY <1>0, <1>2 DEF Missed, Linked, InList
  <2>3. QED  BY <1>1, <1>3, <2>1, <2>2 DEF Queued
<1>6. LL \ {c} = L1 \ {c} /\ C \ {c} = C1 \ {c}
  BY <1>1, <1>3, <1>4 DEF AtPC, Coming, OnHisWay
<1>7. /\ Cardinality(Q) \in Nat /\ Cardinality(Q1) \in Nat
      /\ Cardinality(Q1) = Cardinality(Q) + One(h \in Q1) - One(h \in Q)
  BY <1>5, CountOne
<1>8. /\ Cardinality(LL) \in Nat /\ Cardinality(L1) \in Nat
      /\ Cardinality(L1) = Cardinality(LL) + One(c \in L1) - One(c \in LL)
  BY <1>6, CountOne
<1>9. /\ Cardinality(C) \in Nat /\ Cardinality(C1) \in Nat
      /\ Cardinality(C1) = Cardinality(C) + One(c \in C1) - One(c \in C)
  BY <1>6, CountOne
<1>10. Cardinality(Q) <= Cardinality(LL) \/ k <= Cardinality(C)
  BY <1>1 DEF Found
<1>11. Cardinality(Q1) <= Cardinality(L1) \/ k - 1 <= Cardinality(C1)
  BY <1>5, <1>7, <1>8, <1>9, <1>10 DEF One
<1>12. QED  BY <1>1, <1>11 DEF Found

\* A pop, and the units k and m that are left before and after it.
LEMMA PopUnits ==
  ASSUME IInv, \A d \in Ctx : Told(d), NEW c \in Ctx, NEW l \in List, Pops(c, l),
         NEW L, NEW P \in SUBSET ComePC, NEW k \in Int, NEW m \in Int, Found(k, l, L, P),
         m = IF Missed(l) /\ k > 0 THEN k - 1 ELSE k
  PROVE  Found(m, l, L, P)'
<1>1. CASE ~Missed(l)
  BY <1>1, PopFound
<1>2. CASE Missed(l) /\ k > 0
  BY <1>2, PopMissed
<1>3. CASE Missed(l) /\ k <= 0
  <2>1. m <= 0
    BY <1>3
  <2>2. PICK C1 \in SUBSET Ctx : C1 = Coming(l, P)'
    BY DEF Coming
  <2>3. Cardinality(C1) \in Nat
    BY CountNone
  <2>4. QED  BY <2>1, <2>2, <2>3 DEF Found
<1>4. QED  BY <1>1, <1>2, <1>3

\* A pop of another list.
LEMMA PopElsewhere ==
  ASSUME IInv, \A d \in Ctx : Told(d), NEW c \in Ctx, NEW l \in List, Pops(c, l),
         NEW o \in List, o # l,
         NEW L, NEW P, NEW k \in Int, c \notin AtPC(L), c \notin Coming(o, P), Found(k, o, L, P)
  PROVE  Found(k, o, L, P)'
<1>0. ListType /\ Linked
  BY DEF IInv, TypeOK, WaitTypeOK, ListType, ListInv
<1>1. PICK Q, LL, C, Q1, L1, C1 \in SUBSET Ctx :
        /\ Q = Queued(o) /\ LL = AtPC(L) /\ C = Coming(o, P)
        /\ Q1 = Queued(o)' /\ L1 = AtPC(L)' /\ C1 = Coming(o, P)'
  BY DEF Queued, AtPC, Coming
<1>2. on' = on /\ timed_out' = timed_out /\ \A d \in Ctx \ {c} : pc'[d] = pc[d]
  BY DEF Pops, IInv, TypeOK, WaitTypeOK, AsleepTypeOK
<1>3. \A d \in Ctx : on[d] = o => (InList(d)' <=> InList(d)) /\ status'[d] = status[d]
  <2>1. CASE head_[l] = None
    BY <2>1, PopNone
  <2>2. CASE head_[l] # None
    <3>1. PICK h \in Ctx : h = head_[l]
      BY <1>0, <2>2 DEF ListType
    <3>2. on[h] = l /\ Pop(l) /\ status' = [status EXCEPT ![h] = TryResume(status[h]).to]
      BY <1>0, <2>2, <3>1 DEF Pops, PopResume, SetStatus, Linked
    <3>3. \A d \in Ctx : InList(d)' <=> InList(d) /\ d # h
      BY <1>0, <1>2, <3>1, <3>2, PopLinked
    <3>4. QED  BY <3>2, <3>3 DEF IInv, TypeOK, WaitTypeOK, AsleepTypeOK
  <2>3. QED  BY <2>1, <2>2
<1>4. Q1 = Q
  BY <1>1, <1>2, <1>3 DEF Queued
<1>5. LL \subseteq L1
  BY <1>1, <1>2 DEF AtPC
<1>6. C \subseteq C1
  <2> SUFFICES ASSUME NEW d \in C PROVE d \in C1
    OBVIOUS
  <2>1. d # c /\ d \in Ctx
    BY <1>1
  <2>2. CASE pc[d] \in P
    BY <1>1, <1>2, <2>1, <2>2 DEF Coming
  <2>3. CASE pc[d] \notin P
    BY <1>1, <1>2, <1>3, <2>1, <2>3 DEF Coming, OnHisWay
  <2>4. QED  BY <2>2, <2>3
<1>7. /\ Cardinality(LL) <= Cardinality(L1) /\ Cardinality(C) <= Cardinality(C1)
      /\ Cardinality(Q) \in Nat /\ Cardinality(LL) \in Nat /\ Cardinality(L1) \in Nat
      /\ Cardinality(C) \in Nat /\ Cardinality(C1) \in Nat
  BY <1>5, <1>6, CountFewer, CountNone
<1>8. Cardinality(Q) <= Cardinality(LL) \/ k <= Cardinality(C)
  BY <1>1 DEF Found
<1>9. QED  BY <1>1, <1>4, <1>7, <1>8 DEF Found

------------------------------------------------------------------------------

LEMMA PopPlaces ==
  ASSUME NEW c \in Ctx, IInv, SemSelf(c) \/ SemWakeOne(c) \/ CondNotify(c) \/ NotifyAll(c)
  PROVE  /\ SemSelf(c) \/ SemWakeOne(c) => Pops(c, SemQue)
         /\ CondNotify(c) \/ NotifyAll(c) => Pops(c, CondQue)
BY DEF Pops, IInv, TypeOK, WaitTypeOK, AsleepTypeOK, SemSelf, SemWakeOne, CondNotify, NotifyAll,
       SemPop, From

\* A pop wakes nobody whose timer has gone off.
LEMMA PopTold ==
  ASSUME IInv, NEW c \in Ctx, NEW l \in List, Pops(c, l), \A d \in Ctx : Told(d)
  PROVE  \A d \in Ctx : status'[d] # "Ready_Reset_Reset" => ~timed_out'[d]
<1> USE DEF IInv, TypeOK, WaitTypeOK, AsleepTypeOK
<1>1. CASE head_[l] = None
  BY <1>1 DEF Pops, PopResume, Told
<1>2. CASE head_[l] # None
  <2>1. PICK h \in Ctx : h = head_[l]
    BY <1>2
  <2>2. status' = [status EXCEPT ![h] = TryResume(status[h]).to] /\ status[h] \in Status
    BY <1>2, <2>1 DEF Pops, PopResume, SetStatus
  <2>3. status[h] = "Ready_Reset_Reset" => status'[h] = "Ready_Reset_Reset"
    BY <2>2, ResumeStatus
  <2>4. QED  BY <2>2, <2>3 DEF Pops, Told
<1>3. QED  BY <1>1, <1>2

LEMMA ToldPreserved ==
  ASSUME IInv, \A d \in Ctx : Told(d), [Next]_vars
  PROVE  \A d \in Ctx : Told(d)'
<1> SUFFICES ASSUME NEW d \in Ctx PROVE Told(d)'
  OBVIOUS
<1> USE SemAssumption, CondAssumption, QueuesAssumption
    DEF IInv, TypeOK, WaitTypeOK, AsleepTypeOK
<1>0. Told(d)
  OBVIOUS
<1>1. ASSUME NEW c \in Ctx, SemStep(c), UNCHANGED condVars PROVE Told(d)'
  <2>1. CASE SemSelf(c) \/ SemWakeOne(c)
    <3>1. Pops(c, SemQue)
      BY <2>1, PopPlaces
    <3>2. status'[d] # "Ready_Reset_Reset" => ~timed_out'[d]
      BY <3>1, PopTold
    <3>3. (pc'[d] = pc[d] \/ pc'[d] \in {"sw", "out"}) /\ on'[d] = on[d]
      BY <2>1 DEF SemSelf, SemWakeOne, From
    <3>4. QED  BY <1>0, <1>1, <3>2, <3>3 DEF Told, condVars
  <2>2. CASE SemWait(c) \/ Dec(c) \/ DecFails(c) \/ SemAgain(c) \/ SemWoken(c) \/ SemNotify(c)
             \/ SemTimedOut(c)
    <3>1. UNCHANGED <<status, timed_out>>
      BY <2>2 DEF SemWait, Dec, DecFails, SemAgain, SemWoken, SemNotify, SemTimedOut, RemoveSelf,
                  Move
    <3>2. (pc'[d] = pc[d] /\ on'[d] = on[d]) \/ pc'[d] \notin {"push", "notify_all"}
      BY <2>2 DEF SemWait, Dec, DecFails, SemAgain, SemWoken, SemNotify, SemTimedOut, RemoveSelf,
                  Move, From
    <3>3. QED  BY <1>0, <1>1, <3>1, <3>2 DEF Told, condVars
  <2>3. CASE SemSuspend(c)
    BY <1>0, <1>1, <2>3
    DEF SemSuspend, SuspendSelf, Suspend, From, SetStatus, Told, condVars
  <2>4. CASE SemCheck(c)
    <3>1. on[c] = SemQue /\ ~timed_out[c]
      BY <2>4 DEF SemCheck, Look, From, ListInv, Place, Told, Unresumed
    <3>2. QED
      BY <1>0, <1>1, <2>4, <3>1 DEF SemCheck, Look, From, SetStatus, Told, condVars
  <2>5. CASE SemPush(c)
    BY <1>0, <1>1, <2>5 DEF SemPush, PushSelf, From, Told, condVars
  <2>6. QED  BY <1>1, <2>1, <2>2, <2>3, <2>4, <2>5 DEF SemStep
<1>2. ASSUME NEW c \in Ctx, CondStep(c) PROVE Told(d)'
  <2>1. CASE CondNotify(c) \/ NotifyAll(c)
    <3>1. Pops(c, CondQue)
      BY <2>1, PopPlaces
    <3>2. status'[d] # "Ready_Reset_Reset" => ~timed_out'[d]
      BY <3>1, PopTold
    <3>3. pc'[d] = pc[d] \/ pc'[d] = "out"
      <4>1. CASE CondNotify(c)
        BY <4>1 DEF CondNotify, From
      <4>2. CASE NotifyAll(c)
        BY <4>2 DEF NotifyAll, From
      <4>3. QED  BY <2>1, <4>1, <4>2
    <3>4. UNCHANGED <<on, items, end>>
      BY <2>1 DEF CondNotify, NotifyAll
    <3>5. QED  BY <1>0, <3>2, <3>3, <3>4 DEF Told
  <2>2. CASE CondWait(c) \/ CondPush(c) \/ Unlock(c) \/ Relock(c) \/ CondTimedOut(c)
             \/ RelockTimedOut(c)
    <3>1. UNCHANGED <<status, timed_out, items, end>>
      BY <2>2 DEF CondWait, CondPush, PushSelf, Unlock, Relock, CondTimedOut, RemoveSelf,
                  RelockTimedOut, Move, condVars
    <3>2. (pc'[d] = pc[d] /\ on'[d] = on[d]) \/ pc'[d] \notin {"push", "notify_all"}
      BY <2>2 DEF CondWait, CondPush, PushSelf, Unlock, Relock, CondTimedOut, RemoveSelf,
                  RelockTimedOut, Move, From
    <3>3. QED  BY <1>0, <3>1, <3>2 DEF Told
  <2>3. CASE Test(c)
    <3>1. CASE Cond
      BY <1>0, <2>3, <3>1 DEF Test, Move, From, Told, condVars
    <3>2. CASE ~Cond
      <4>1. SuspendSelf(c, "test", "push", "return") /\ UNCHANGED condVars
        BY <2>3, <3>2 DEF Test
      <4>2. items = 0 /\ ~end
        BY <3>2 DEF Cond, CondTypeOK
      <4>3. QED
        BY <1>0, <4>1, <4>2 DEF SuspendSelf, Suspend, From, SetStatus, Told, condVars
    <3>3. QED  BY <3>1, <3>2
  <2>4. CASE Consume(c) \/ Produce(c) \/ Finish(c)
    <3>1. UNCHANGED <<status, timed_out>>
      BY <2>4 DEF Consume, Produce, Finish, Move
    <3>2. owner = c \/ owner = None
      BY <2>4 DEF Consume, Produce, Finish, CondHolds
    <3>3. pc[c] # "push" /\ pc'[c] # "push" /\ (end => end')
          /\ (pc'[c] = "notify_all" => end') /\ (d # c => pc'[d] = pc[d] /\ on'[d] = on[d])
      BY <2>4 DEF Consume, Produce, Finish, Move, From
    <3>4. pc[d] = "push" /\ on[d] = CondQue => owner = d
      BY DEF CondHolds
    <3>5. ~(pc'[d] = "push" /\ on'[d] = CondQue)
      BY <3>2, <3>3, <3>4, CtxAssumption
    <3>6. pc'[d] = "notify_all" => end'
      BY <1>0, <3>3 DEF Told
    <3>7. QED  BY <1>0, <3>1, <3>5, <3>6 DEF Told
  <2>5. QED  BY <1>2, <2>1, <2>2, <2>3, <2>4 DEF CondStep
<1>3. ASSUME NEW c \in Ctx, ParkStep(c), UNCHANGED condVars PROVE Told(d)'
  <2>1. /\ status'[d] # "Ready_Reset_Reset" => ~timed_out'[d]
    BY <1>0, <1>3
    DEF ParkStep, SchedStep, Switch, SleepAdd, SleepTimeout, SleepRemove, Run, From,
        SetStatus, TrySw, TrySleepAdd, TrySleepTimeout, TrySleepRemove, Becomes, Fails, Told
  <2>2. pc'[d] = pc[d] \/ pc'[d] \in {"parked", "woken", "remove"}
    BY <1>3
    DEF ParkStep, SchedStep, Switch, SleepAdd, SleepTimeout, SleepRemove, Run, From
  <2>3. QED  BY <1>0, <1>3, <2>1, <2>2 DEF ParkStep, Told, condVars
<1>4. CASE UNCHANGED vars
  BY <1>0, <1>4 DEF vars, waitVars, condVars, Told
<1>5. QED  BY <1>1, <1>2, <1>3, <1>4 DEF Next

LEMMA NoUnits ==
  ASSUME NEW m \in Int, m <= 0, NEW l, NEW L, NEW P
  PROVE  Found(m, l, L, P)'
<1>1. PICK C1 \in SUBSET Ctx : C1 = Coming(l, P)'
  BY DEF Coming
<1>2. Cardinality(C1) \in Nat
  BY CountNone
<1>3. QED  BY <1>1, <1>2 DEF Found

\* The scheduler takes nobody off his way.
LEMMA ParkOnHisWay ==
  ASSUME IInv, \A d \in Ctx : Told(d), NEW c \in Ctx, ParkStep(c)
  PROVE  /\ pc[c] \in {"sw", "parked"} /\ pc'[c] \in {"sw", "parked", "remove", "woken"}
         /\ OnHisWay(c) => OnHisWay(c)'
         /\ on' = on
<1> USE DEF IInv, TypeOK, WaitTypeOK, AsleepTypeOK
<1>0. Place(c) /\ Told(c)
  BY DEF ListInv
<1>1. CASE Switch(c) \/ SleepAdd(c) \/ SleepTimeout(c) \/ SleepRemove(c)
  BY <1>0, <1>1
  DEF ParkStep, Switch, SleepAdd, SleepTimeout, SleepRemove, From, SetStatus, TrySw, TrySleepAdd,
      TrySleepTimeout, TrySleepRemove, Becomes, Fails, OnHisWay, Resumed, Told, Place, CallbackPC,
      InCallback, Unresumed, ParkedStatus, AsleepStatus
<1>2. CASE Run(c)
  BY <1>2 DEF ParkStep, Run, From, OnHisWay, Resumed
<1>3. QED  BY <1>1, <1>2 DEF ParkStep, SchedStep

\* Who is where, for the semaphore, when c takes a plain step that leaves it alone.
LEMMA PlainSem ==
  ASSUME IInv, \A d \in Ctx : Told(d), NEW c \in Ctx, Plain(c),
         ~(Dec(c) \/ SemNotify(c) \/ DecFails(c) \/ SemAgain(c))
  PROVE  /\ c \notin AtPC(SemLookPC)
         /\ c \in Coming(SemQue, SemComePC) => c \in Coming(SemQue, SemComePC)'
<1> USE SemAssumption, CondAssumption, QueuesAssumption
    DEF IInv, TypeOK, WaitTypeOK, AsleepTypeOK
<1>0. Place(c) /\ Told(c)
  BY DEF ListInv
<1>1. CASE SemWait(c) \/ SemSuspend(c) \/ SemCheck(c) \/ SemPush(c) \/ SemTimedOut(c)
  BY <1>0, <1>1
  DEF SemWait, SemSuspend, SuspendSelf, Suspend, SemCheck, Look, SemPush, PushSelf, SemTimedOut,
      RemoveSelf, Move, From, semVars, AtPC, SemLookPC, Coming, SemComePC, OnHisWay, Resumed,
      Place, RunningPC, Unresumed
<1>2. CASE SemWoken(c)
  BY <1>2 DEF SemWoken, Move, From, semVars, AtPC, SemLookPC, Coming, SemComePC
<1>3. CASE CondWait(c) \/ CondPush(c) \/ Relock(c) \/ CondTimedOut(c)
             \/ RelockTimedOut(c) \/ Consume(c) \/ Produce(c) \/ Finish(c) \/ Test(c) \/ Unlock(c)
  <2>1. /\ pc[c] \in {"out", "push", "woken", "remove", "relock", "return", "timeout", "test",
                      "unlock"}
        /\ pc[c] \in {"push", "woken"} => on[c] = CondQue
    BY <1>3
    DEF CondWait, CondPush, PushSelf, Relock, CondTimedOut, RemoveSelf, RelockTimedOut, Consume,
        Produce, Finish, Test, Unlock, SuspendSelf, Suspend, Move, From
  <2>2. c \notin AtPC(SemLookPC)
    BY <2>1 DEF AtPC, SemLookPC
  <2>3. c \notin Coming(SemQue, SemComePC)
    BY <1>0, <2>1 DEF Coming, SemComePC, OnHisWay, Resumed, Place, RunningPC, Unresumed
  <2>4. QED  BY <2>2, <2>3
<1>4. CASE ParkStep(c)
  <2>1. /\ pc[c] \in {"sw", "parked"} /\ pc'[c] \in {"sw", "parked", "remove", "woken"}
        /\ OnHisWay(c) => OnHisWay(c)'
        /\ on' = on
    BY <1>4, ParkOnHisWay
  <2>2. QED  BY <2>1 DEF AtPC, SemLookPC, Coming, SemComePC
<1>5. QED  BY <1>1, <1>2, <1>3, <1>4 DEF Plain

LEMMA SemFoundPlain ==
  ASSUME FInv, NEW c \in Ctx, Plain(c), SemStep(c) \/ UNCHANGED semVars, TypeOK'
  PROVE  SemFound'
<1> USE SemAssumption, CondAssumption, QueuesAssumption
    DEF FInv
<1> TypeOK
  BY DEF IInv
<1>1. PICK k, m \in Int : k = sem_ - semSpent /\ m = sem_' - semSpent'
  <2>1. sem_ - semSpent \in Int /\ sem_' - semSpent' \in Int
    BY UnitTypes
  <2>2. QED  BY <2>1
<1>2. Alone(c) /\ (InList(c)' => InList(c) \/ pc[c] = "push")
      /\ (InList(c) /\ InList(c)' => on'[c] = on[c])
  BY PlainAlone
<1>3. CASE m <= 0
  <2>1. Found(m, SemQue, SemLookPC, SemComePC)'
    BY <1>3, NoUnits
  <2>2. QED  BY <1>1, <2>1 DEF SemFound
<1>4. CASE m > 0
  <2>1. sem_' > 0
    BY <1>1, <1>4, UnitTypes
  <2>2. SUFFICES Found(m, SemQue, SemLookPC, SemComePC)'
    BY <1>1 DEF SemFound
  <2>3. Found(k, SemQue, SemLookPC, SemComePC)
    BY <1>1 DEF SemFound
  <2>4. c \in Queued(SemQue)' =>
          c \in Queued(SemQue) \/ (c \notin AtPC(SemLookPC) /\ c \in AtPC(SemLookPC)')
    <3> SUFFICES ASSUME c \in Queued(SemQue)', c \notin Queued(SemQue)
                 PROVE  c \notin AtPC(SemLookPC) /\ c \in AtPC(SemLookPC)'
      OBVIOUS
    <3>1. pc[c] = "push" /\ on'[c] = SemQue
      BY <1>2 DEF Queued
    <3>2. SemPush(c)
      BY <3>1
      DEF Plain, SemWait, Dec, DecFails, SemSuspend, SuspendSelf, Suspend, SemCheck, Look,
          SemAgain, SemWoken, SemTimedOut, RemoveSelf, SemNotify, CondWait, Test, CondPush,
          PushSelf, Unlock, Relock, CondTimedOut, RelockTimedOut, Consume, Produce, Finish,
          ParkStep, SchedStep, Switch, SleepAdd, SleepTimeout, SleepRemove, Run, Move, From
    <3>3. pc'[c] = "sem_again"
      BY <3>2 DEF SemPush, PushSelf, From, IInv, TypeOK, WaitTypeOK, AsleepTypeOK
    <3>4. QED  BY <3>1, <3>3 DEF AtPC, SemLookPC
  <2>5. CASE Dec(c)
    <3>1. m = k - 1 /\ pc[c] = "dec"
      <4>1. semSpent < sem_
        BY <1>1, <1>4, <2>5 DEF Dec, IInv, TypeOK, SemTypeOK
      <4>2. QED  BY <1>1, <2>5, <4>1 DEF Dec, Move, From, IInv, TypeOK, SemTypeOK
    <3>2. c \notin AtPC(SemLookPC)
      BY <3>1 DEF AtPC, SemLookPC
    <3>3. QED  BY <1>2, <2>3, <2>4, <3>1, <3>2, PlainFound
  <2>6. CASE SemNotify(c)
    <3>1. m = k + 1 /\ pc[c] = "out" /\ pc'[c] = "sem_notify"
      BY <1>1, <2>6 DEF SemNotify, Move, From, IInv, TypeOK, WaitTypeOK, AsleepTypeOK, SemTypeOK
    <3>2. status[c] = "Ready_Reset_Reset"
      BY <3>1 DEF IInv, ListInv, Place, RunningPC
    <3>3. /\ c \notin AtPC(SemLookPC)
          /\ c \notin Coming(SemQue, SemComePC) /\ c \in Coming(SemQue, SemComePC)'
      BY <3>1, <3>2 DEF AtPC, SemLookPC, Coming, SemComePC, OnHisWay, Resumed
    <3>4. QED  BY <1>2, <2>3, <2>4, <3>1, <3>3, PlainFound
  <2>7. CASE SemAgain(c)
    <3>1. m = k /\ pc[c] = "sem_again" /\ pc'[c] = "sem_self" /\ status' = status /\ on' = on
      BY <1>1, <2>1, <2>7 DEF SemAgain, Move, From, semVars, IInv, TypeOK, WaitTypeOK, AsleepTypeOK
    <3>2. /\ c \in AtPC(SemLookPC)'
          /\ c \in Coming(SemQue, SemComePC) => c \in Coming(SemQue, SemComePC)'
      BY <3>1 DEF AtPC, SemLookPC, Coming, SemComePC, OnHisWay
    <3>3. QED  BY <1>2, <2>3, <2>4, <3>1, <3>2, PlainFound
  <2>8. CASE ~(Dec(c) \/ SemNotify(c) \/ DecFails(c) \/ SemAgain(c))
    <3>1. m = k
      BY <1>1, <2>8, PlainPopsNot
      DEF SemStep, SemWait, SemSuspend, SemCheck, SemPush, SemWoken, SemTimedOut, semVars
    <3>2. /\ c \notin AtPC(SemLookPC)
          /\ c \in Coming(SemQue, SemComePC) => c \in Coming(SemQue, SemComePC)'
      BY <2>8, PlainSem
    <3>3. QED  BY <1>2, <2>3, <2>4, <3>1, <3>2, PlainFound
  <2>9. CASE DecFails(c)
    BY <2>1, <2>9 DEF DecFails, semVars
  <2>10. QED  BY <2>5, <2>6, <2>7, <2>8, <2>9
<1>5. QED  BY <1>1, <1>3, <1>4

LEMMA SemFoundPreserved ==
  ASSUME FInv, [Next]_vars, TypeOK'
  PROVE  SemFound'
<1> USE SemAssumption, CondAssumption, QueuesAssumption
    DEF FInv
<1> TypeOK
  BY DEF IInv
<1>1. PICK k, m \in Int : k = sem_ - semSpent /\ m = sem_' - semSpent'
  <2>1. sem_ - semSpent \in Int /\ sem_' - semSpent' \in Int
    BY UnitTypes
  <2>2. QED  BY <2>1
<1>0. Found(k, SemQue, SemLookPC, SemComePC)
  BY <1>1 DEF SemFound
<1>2. ASSUME NEW c \in Ctx, SemSelf(c) \/ SemWakeOne(c) PROVE SemFound'
  <2>1. Pops(c, SemQue) /\ sem_' = sem_
        /\ semSpent' = IF Missed(SemQue) /\ semSpent < sem_ THEN semSpent + 1 ELSE semSpent
    BY <1>2, PopPlaces DEF SemSelf, SemWakeOne, SemPop
  <2>2. m = IF Missed(SemQue) /\ k > 0 THEN k - 1 ELSE k
    <3>1. sem_ \in Int /\ semSpent \in Int
      BY DEF IInv, TypeOK, SemTypeOK
    <3>2. QED  BY <1>1, <2>1, <3>1
  <2>3. SemComePC \in SUBSET ComePC
    BY DEF SemComePC, ComePC
  <2>4. Found(m, SemQue, SemLookPC, SemComePC)'
    BY <1>0, <2>1, <2>2, <2>3, PopUnits
  <2>5. QED  BY <1>1, <2>4 DEF SemFound
<1>3. ASSUME NEW c \in Ctx, CondNotify(c) \/ NotifyAll(c), UNCHANGED semVars PROVE SemFound'
  <2>1. Pops(c, CondQue) /\ m = k
    BY <1>1, <1>3, PopPlaces DEF semVars
  <2>2. pc[c] \in {"cond_notify", "notify_all"} /\ status[c] = "Ready_Reset_Reset"
    BY <1>3 DEF CondNotify, NotifyAll, From, IInv, ListInv, Place, RunningPC
  <2>3. c \notin AtPC(SemLookPC) /\ c \notin Coming(SemQue, SemComePC)
    BY <2>2 DEF AtPC, SemLookPC, Coming, SemComePC, OnHisWay, Resumed
  <2>4. Found(k, SemQue, SemLookPC, SemComePC)'
    BY <1>0, <2>1, <2>3, PopElsewhere
  <2>5. QED  BY <1>1, <2>1, <2>4 DEF SemFound
<1>4. CASE UNCHANGED vars
  <2>1. Found(k, SemQue, SemLookPC, SemComePC) => Found(k, SemQue, SemLookPC, SemComePC)'
    BY <1>4 DEF vars, waitVars, listVars, Found, Queued, InList, AtPC, Coming, OnHisWay
  <2>2. m = k
    BY <1>1, <1>4 DEF vars, semVars
  <2>3. QED  BY <1>0, <1>1, <2>1, <2>2 DEF SemFound
<1>5. ASSUME NEW c \in Ctx, SemStep(c) PROVE SemFound'
  <2>1. CASE SemSelf(c) \/ SemWakeOne(c)
    BY <1>2, <2>1
  <2>2. CASE ~(SemSelf(c) \/ SemWakeOne(c))
    <3>1. Plain(c)
      BY <1>5, <2>2 DEF SemStep, Plain
    <3>2. QED  BY <1>5, <3>1, SemFoundPlain
  <2>3. QED  BY <2>1, <2>2
<1>6. ASSUME NEW c \in Ctx, CondStep(c) \/ ParkStep(c), UNCHANGED semVars PROVE SemFound'
  <2>1. CASE CondNotify(c) \/ NotifyAll(c)
    BY <1>3, <1>6, <2>1
  <2>2. CASE ~(CondNotify(c) \/ NotifyAll(c))
    <3>1. Plain(c)
      BY <1>6, <2>2 DEF CondStep, Plain
    <3>2. QED  BY <1>6, <3>1, SemFoundPlain
  <2>3. QED  BY <2>1, <2>2
<1>7. QED  BY <1>4, <1>5, <1>6 DEF Next

------------------------------------------------------------------------------
(* Semaphore and condition variable: no item is overlooked *)

\* Who is where, for the condition variable, when c takes a plain step.
LEMMA PlainCond ==
  ASSUME IInv, \A d \in Ctx : Told(d), NEW c \in Ctx, Plain(c),
         ~(Consume(c) \/ Produce(c) \/ Finish(c)),
         Test(c) => Cond
  PROVE  c \in Coming(CondQue, CondComePC) => c \in Coming(CondQue, CondComePC)'
<1> USE SemAssumption, CondAssumption, QueuesAssumption
    DEF IInv, TypeOK, WaitTypeOK, AsleepTypeOK
<1>0. Place(c) /\ Told(c)
  BY DEF ListInv
<1>1. CASE \/ SemWait(c) \/ Dec(c) \/ DecFails(c) \/ SemSuspend(c) \/ SemCheck(c) \/ SemPush(c)
           \/ SemAgain(c) \/ SemWoken(c) \/ SemTimedOut(c) \/ SemNotify(c)
  <2>1. /\ pc[c] \in {"out", "dec", "sem_wait", "sem_check", "push", "sem_again", "woken",
                      "remove"}
        /\ pc[c] \in {"push", "woken"} => on[c] = SemQue
    BY <1>1
    DEF SemWait, Dec, DecFails, SemSuspend, SuspendSelf, Suspend, SemCheck, Look, SemPush,
        PushSelf, SemAgain, SemWoken, SemTimedOut, RemoveSelf, SemNotify, Move, From
  <2>2. c \notin Coming(CondQue, CondComePC)
    BY <1>0, <2>1
    DEF Coming, CondComePC, OnHisWay, Resumed, Place, RunningPC, Unresumed
  <2>3. QED  BY <2>2
<1>2. CASE CondWait(c) \/ Test(c)
  <2>1. pc'[c] \in {"test", "return"}
    <3>1. CASE CondWait(c)
      BY <3>1 DEF CondWait, Move, From
    <3>2. CASE Test(c)
      BY <3>2 DEF Test, Move, From
    <3>3. QED  BY <1>2, <3>1, <3>2
  <2>2. QED  BY <2>1 DEF Coming, CondComePC
<1>3. CASE Relock(c)
  <2>1. pc'[c] = "test"
    BY <1>3 DEF Relock, Move, From
  <2>2. QED  BY <2>1 DEF Coming, CondComePC
<1>4. CASE CondPush(c) \/ CondTimedOut(c) \/ RelockTimedOut(c)
  <2>1. pc[c] \in {"push", "remove", "relock"}
    BY <1>4 DEF CondPush, PushSelf, CondTimedOut, RemoveSelf, RelockTimedOut, Move, From
  <2>2. c \notin Coming(CondQue, CondComePC)
    BY <1>0, <2>1 DEF Coming, CondComePC, OnHisWay, Resumed, Place, RunningPC, Unresumed
  <2>3. QED  BY <2>2
<1>5. CASE Unlock(c)
  <2>1. pc[c] = "unlock" /\ status' = status /\ on' = on
    BY <1>5 DEF Unlock, Move, From
  <2>2. QED  BY <2>1 DEF Coming, CondComePC, OnHisWay
<1>6. CASE ParkStep(c)
  <2>1. /\ pc[c] \in {"sw", "parked"} /\ pc'[c] \in {"sw", "parked", "remove", "woken"}
        /\ OnHisWay(c) => OnHisWay(c)'
        /\ on' = on
    BY <1>6, ParkOnHisWay
  <2>2. QED  BY <2>1 DEF Coming, CondComePC
<1>7. QED  BY <1>1, <1>2, <1>3, <1>4, <1>5, <1>6 DEF Plain

\* A push to CondQue finds the predicate false.
LEMMA CondQueued ==
  ASSUME IInv, NEW c \in Ctx, Plain(c), c \in Queued(CondQue)', c \notin Queued(CondQue)
  PROVE  pc[c] = "push" /\ on[c] = CondQue /\ CondPush(c)
<1>1. (InList(c)' => InList(c) \/ pc[c] = "push") /\ (InList(c) /\ InList(c)' => on'[c] = on[c])
  BY PlainAlone
<1>2. pc[c] = "push" /\ on'[c] = CondQue
  BY <1>1 DEF Queued
<1>3. SemPush(c) \/ CondPush(c)
  BY <1>2
  DEF Plain, SemWait, Dec, DecFails, SemSuspend, SuspendSelf, Suspend, SemCheck, Look,
      SemAgain, SemWoken, SemTimedOut, RemoveSelf, SemNotify, CondWait, Test,
      PushSelf, Unlock, Relock, CondTimedOut, RelockTimedOut, Consume, Produce, Finish,
      ParkStep, SchedStep, Switch, SleepAdd, SleepTimeout, SleepRemove, Run, Move, From
<1>4. on' = on
  BY <1>3 DEF SemPush, CondPush, PushSelf
<1>5. QED  BY <1>2, <1>3, <1>4, QueuesAssumption DEF SemPush

LEMMA ItemFoundPlain ==
  ASSUME FInv, NEW c \in Ctx, Plain(c), CondStep(c) \/ UNCHANGED condVars, TypeOK'
  PROVE  ItemFound'
<1> USE SemAssumption, CondAssumption, QueuesAssumption
    DEF FInv
<1> TypeOK
  BY DEF IInv
<1>1. PICK k, m \in Int : k = items - condSpent /\ m = items' - condSpent'
  <2>1. items - condSpent \in Int /\ items' - condSpent' \in Int
    BY UnitTypes
  <2>2. QED  BY <2>1
<1>2. Alone(c)
  BY PlainAlone
<1>3. CASE m <= 0
  <2>1. Found(m, CondQue, {}, CondComePC)'
    BY <1>3, NoUnits
  <2>2. QED  BY <1>1, <2>1 DEF ItemFound
<1>4. CASE end'
  BY <1>4 DEF ItemFound
<1>5. CASE m > 0 /\ ~end'
  <2>1. ~end
    BY <1>5
    DEF Plain, CondStep, CondWait, Test, CondPush, Unlock, Relock, CondTimedOut, RelockTimedOut,
        Consume, Produce, Finish, CondNotify, NotifyAll, condVars
  <2>2. items' > 0
    BY <1>1, <1>5, UnitTypes
  <2>3. SUFFICES Found(m, CondQue, {}, CondComePC)'
    BY <1>1 DEF ItemFound
  <2>4. Found(k, CondQue, {}, CondComePC)
    BY <1>1, <2>1 DEF ItemFound
  <2>5. c \notin AtPC({})
    BY DEF AtPC
  <2>6. ASSUME c \in Queued(CondQue)', c \notin Queued(CondQue) PROVE FALSE
    <3>1. pc[c] = "push" /\ on[c] = CondQue /\ CondPush(c)
      BY <2>6, CondQueued
    <3>2. items = 0 /\ items' = items
      BY <3>1 DEF Told, CondPush, condVars
    <3>3. QED  BY <2>2, <3>2
  <2>7. CASE Consume(c)
    <3>1. CASE pc[c] = "return"
      <4>1. m = k - 1
        BY <1>1, <1>5, <2>1, <2>7, <3>1 DEF Consume, IInv, TypeOK, CondTypeOK
      <4>2. QED  BY <1>2, <2>4, <2>5, <2>6, <4>1, PlainFound
    <3>2. CASE pc[c] = "timeout"
      <4>1. m = k
        BY <1>1, <2>7, <3>2 DEF Consume, IInv, TypeOK, CondTypeOK
      <4>2. status[c] = "Ready_Reset_Reset"
        BY <3>2 DEF IInv, ListInv, Place, RunningPC
      <4>3. c \notin Coming(CondQue, CondComePC)
        BY <3>2, <4>2 DEF Coming, CondComePC, OnHisWay, Resumed
      <4>4. QED  BY <1>2, <2>4, <2>5, <2>6, <4>1, <4>3, PlainFound
    <3>3. QED  BY <2>7, <3>1, <3>2 DEF Consume
  <2>8. CASE Produce(c)
    <3>1. m = k + 1 /\ pc[c] = "out" /\ pc'[c] = "cond_notify"
      BY <1>1, <2>8
      DEF Produce, Move, From, spentVars, IInv, TypeOK, WaitTypeOK, AsleepTypeOK, CondTypeOK
    <3>2. status[c] = "Ready_Reset_Reset"
      BY <3>1 DEF IInv, ListInv, Place, RunningPC
    <3>3. c \notin Coming(CondQue, CondComePC) /\ c \in Coming(CondQue, CondComePC)'
      BY <3>1, <3>2 DEF Coming, CondComePC, OnHisWay, Resumed
    <3>4. QED  BY <1>2, <2>4, <2>5, <2>6, <3>1, <3>3, PlainFound
  <2>9. CASE Finish(c)
    BY <1>5, <2>9 DEF Finish
  <2>10. CASE Test(c) /\ ~Cond
    BY <2>2, <2>10 DEF Test, Cond, condVars, IInv, TypeOK, CondTypeOK
  <2>11. CASE ~(Consume(c) \/ Produce(c) \/ Finish(c)) /\ (Test(c) => Cond)
    <3>1. m = k
      BY <1>1, <2>11, PlainPopsNot
      DEF CondStep, CondWait, Test, CondPush, Unlock, Relock, CondTimedOut, RelockTimedOut,
          condVars, spentVars
    <3>2. c \in Coming(CondQue, CondComePC) => c \in Coming(CondQue, CondComePC)'
      BY <2>11, PlainCond
    <3>3. QED  BY <1>2, <2>4, <2>5, <2>6, <3>1, <3>2, PlainFound
  <2>12. QED  BY <2>7, <2>8, <2>9, <2>10, <2>11
<1>6. QED  BY <1>1, <1>3, <1>4, <1>5

LEMMA ItemFoundPreserved ==
  ASSUME FInv, [Next]_vars, TypeOK'
  PROVE  ItemFound'
<1> USE SemAssumption, CondAssumption, QueuesAssumption
    DEF FInv
<1> TypeOK
  BY DEF IInv
<1>1. PICK k, m \in Int : k = items - condSpent /\ m = items' - condSpent'
  <2>1. items - condSpent \in Int /\ items' - condSpent' \in Int
    BY UnitTypes
  <2>2. QED  BY <2>1
<1>0. end \/ Found(k, CondQue, {}, CondComePC)
  BY <1>1 DEF ItemFound
<1>2. ASSUME NEW c \in Ctx, CondNotify(c) \/ NotifyAll(c) PROVE ItemFound'
  <2>1. Pops(c, CondQue) /\ end' = end
    BY <1>2, PopPlaces DEF CondNotify, NotifyAll
  <2>2. CASE end
    BY <2>1, <2>2 DEF ItemFound
  <2>3. CASE ~end
    <3>1. CondNotify(c)
      BY <1>2, <2>3 DEF NotifyAll, From, Told
    <3>2. items \in Int /\ condSpent \in Int
      BY DEF IInv, TypeOK, CondTypeOK
    <3>3. m = IF Missed(CondQue) /\ k > 0 THEN k - 1 ELSE k
      BY <1>1, <3>1, <3>2 DEF CondNotify
    <3>4. CondComePC \in SUBSET ComePC
      BY DEF CondComePC, ComePC
    <3>5. Found(m, CondQue, {}, CondComePC)'
      BY <1>0, <2>1, <2>3, <3>3, <3>4, PopUnits
    <3>6. QED  BY <1>1, <3>5 DEF ItemFound
  <2>4. QED  BY <2>2, <2>3
<1>3. ASSUME NEW c \in Ctx, SemSelf(c) \/ SemWakeOne(c), UNCHANGED condVars PROVE ItemFound'
  <2>1. Pops(c, SemQue) /\ m = k /\ end' = end
    BY <1>1, <1>3, PopPlaces DEF condVars, spentVars
  <2>2. CASE end
    BY <2>1, <2>2 DEF ItemFound
  <2>3. CASE ~end
    <3>1. /\ pc[c] \in {"sem_self", "sem_notify"}
          /\ pc[c] = "sem_notify" => status[c] = "Ready_Reset_Reset"
          /\ pc[c] = "sem_self" => on[c] = SemQue
      BY <1>3 DEF SemSelf, SemWakeOne, From, IInv, ListInv, Place, RunningPC
    <3>2. c \notin AtPC({}) /\ c \notin Coming(CondQue, CondComePC)
      BY <3>1 DEF AtPC, Coming, CondComePC, OnHisWay, Resumed
    <3>3. Found(k, CondQue, {}, CondComePC)'
      BY <1>0, <2>1, <2>3, <3>2, PopElsewhere
    <3>4. QED  BY <1>1, <2>1, <3>3 DEF ItemFound
  <2>4. QED  BY <2>2, <2>3
<1>4. CASE UNCHANGED vars
  <2>1. Found(k, CondQue, {}, CondComePC) => Found(k, CondQue, {}, CondComePC)'
    BY <1>4 DEF vars, waitVars, listVars, Found, Queued, InList, AtPC, Coming, OnHisWay
  <2>2. m = k /\ end' = end
    BY <1>1, <1>4 DEF vars, condVars, spentVars
  <2>3. QED  BY <1>0, <1>1, <2>1, <2>2 DEF ItemFound
<1>5. ASSUME NEW c \in Ctx, CondStep(c) PROVE ItemFound'
  <2>1. CASE CondNotify(c) \/ NotifyAll(c)
    BY <1>2, <2>1
  <2>2. CASE ~(CondNotify(c) \/ NotifyAll(c))
    <3>1. Plain(c)
      BY <1>5, <2>2 DEF CondStep, Plain
    <3>2. QED  BY <1>5, <3>1, ItemFoundPlain
  <2>3. QED  BY <2>1, <2>2
<1>6. ASSUME NEW c \in Ctx, SemStep(c) \/ ParkStep(c), UNCHANGED condVars PROVE ItemFound'
  <2>1. CASE SemSelf(c) \/ SemWakeOne(c)
    BY <1>3, <1>6, <2>1
  <2>2. CASE ~(SemSelf(c) \/ SemWakeOne(c))
    <3>1. Plain(c)
      BY <1>6, <2>2 DEF SemStep, Plain
    <3>2. QED  BY <1>6, <3>1, ItemFoundPlain
  <2>3. QED  BY <2>1, <2>2
<1>7. QED  BY <1>4, <1>5, <1>6 DEF Next

LEMMA PopFewer ==
  ASSUME IInv, NEW c \in Ctx, NEW l \in List, Pops(c, l), NEW o
  PROVE  Queued(o)' \subseteq Queued(o)
<1>1. ListType /\ Linked
  BY DEF IInv, TypeOK, WaitTypeOK, ListType, ListInv
<1>2. on' = on
  BY DEF Pops
<1>3. \A d \in Ctx : InList(d)' => InList(d)
  <2>1. CASE head_[l] = None
    BY <2>1, PopNone
  <2>2. CASE head_[l] # None
    <3>1. PICK h \in Ctx : h = head_[l]
      BY <1>1, <2>2 DEF ListType
    <3>2. Pop(l)
      BY <2>2 DEF Pops, PopResume
    <3>3. QED  BY <1>1, <1>2, <3>1, <3>2, PopLinked
  <2>3. QED  BY <2>1, <2>2
<1>4. QED  BY <1>2, <1>3 DEF Queued

LEMMA EndFoundPreserved ==
  ASSUME FInv, [Next]_vars
  PROVE  EndFound'
<1> USE SemAssumption, CondAssumption, QueuesAssumption
    DEF FInv
<1> SUFFICES ASSUME end', ~cut'
             PROVE  Queued(CondQue)' = {} \/ AtPC({"notify_all"})' # {}
  BY DEF EndFound
<1>1. ASSUME NEW c \in Ctx, Plain(c), CondStep(c) \/ UNCHANGED condVars
      PROVE  Queued(CondQue)' = {} \/ AtPC({"notify_all"})' # {}
  <2>1. CASE Finish(c)
    <3>1. pc'[c] = "notify_all"
      BY <2>1 DEF Finish, Move, From, IInv, TypeOK, WaitTypeOK, AsleepTypeOK
    <3>2. QED  BY <3>1 DEF AtPC
  <2>2. CASE ~Finish(c)
    <3>1. end
      BY <1>1, <2>2
      DEF Plain, CondStep, CondWait, Test, CondPush, Unlock, Relock, CondTimedOut,
          RelockTimedOut, Consume, Produce, CondNotify, NotifyAll, condVars
    <3>2. ~cut
      <4>1. ~CondNotify(c) /\ ~NotifyAll(c)
        BY <1>1, PlainPopsNot
      <4>2. cut' = cut
        BY <1>1, <2>2, <4>1
        DEF CondStep, CondWait, Test, CondPush, Unlock, Relock, CondTimedOut, RelockTimedOut,
            Consume, Produce, condVars, spentVars
      <4>3. QED  BY <4>2
    <3>3. Queued(CondQue) = {} \/ AtPC({"notify_all"}) # {}
      BY <3>1, <3>2 DEF EndFound
    <3>4. Alone(c)
      BY <1>1, PlainAlone
    <3>5. CASE AtPC({"notify_all"}) # {}
      <4>1. PICK d \in Ctx : pc[d] = "notify_all"
        BY <3>5 DEF AtPC
      <4>2. d # c
        BY <1>1, <4>1
        DEF Plain, SemWait, Dec, DecFails, SemSuspend, SuspendSelf, Suspend, SemCheck, Look,
            SemPush, SemAgain, SemWoken, SemTimedOut, RemoveSelf, SemNotify, CondWait, Test,
            CondPush, PushSelf, Unlock, Relock, CondTimedOut, RelockTimedOut, Consume, Produce,
            Finish, ParkStep, SchedStep, Switch, SleepAdd, SleepTimeout, SleepRemove, Run, Move,
            From
      <4>3. pc'[d] = "notify_all"
        BY <3>4, <4>1, <4>2 DEF Alone, Same
      <4>4. QED  BY <4>3 DEF AtPC
    <3>6. CASE Queued(CondQue) = {}
      <4>1. c \notin Queued(CondQue)'
        <5> SUFFICES ASSUME c \in Queued(CondQue)' PROVE FALSE
          OBVIOUS
        <5>1. pc[c] = "push" /\ on[c] = CondQue
          BY <1>1, <3>6, CondQueued
        <5>2. QED  BY <3>1, <5>1 DEF Told
      <4>2. \A d \in Ctx \ {c} : d \notin Queued(CondQue)'
        BY <3>4, <3>6 DEF Alone, Same, Queued
      <4>3. QED  BY <4>1, <4>2 DEF Queued
    <3>7. QED  BY <3>3, <3>5, <3>6
  <2>3. QED  BY <2>1, <2>2
<1>2. ASSUME NEW c \in Ctx, CondNotify(c) \/ NotifyAll(c)
      PROVE  Queued(CondQue)' = {} \/ AtPC({"notify_all"})' # {}
  <2>1. Pops(c, CondQue) /\ end
    BY <1>2, PopPlaces DEF CondNotify, NotifyAll
  <2>3. CASE head_[CondQue] = None
    BY <2>1, <2>3, PopNone
  <2>4. CASE head_[CondQue] # None
    <3>1. CASE NotifyAll(c)
      <4>1. pc'[c] = "notify_all"
        BY <2>4, <3>1 DEF NotifyAll, From, IInv, TypeOK, WaitTypeOK, AsleepTypeOK
      <4>2. QED  BY <4>1 DEF AtPC
    <3>2. CASE CondNotify(c)
      <4>1. \A d \in Ctx : pc[d] = "notify_all" => pc'[d] = "notify_all"
        BY <3>2 DEF CondNotify, From
      <4>2. AtPC({"notify_all"}) # {} => AtPC({"notify_all"})' # {}
        BY <4>1 DEF AtPC
      <4>3. Queued(CondQue)' \subseteq Queued(CondQue)
        BY <2>1, PopFewer
      <4>4. ~cut
        BY <3>2 DEF CondNotify
      <4>5. QED  BY <2>1, <4>2, <4>3, <4>4 DEF EndFound
    <3>3. QED  BY <1>2, <3>1, <3>2
  <2>5. QED  BY <2>3, <2>4
<1>3. ASSUME NEW c \in Ctx, SemSelf(c) \/ SemWakeOne(c), UNCHANGED condVars
      PROVE  Queued(CondQue)' = {} \/ AtPC({"notify_all"})' # {}
  <2>1. Pops(c, SemQue)
    BY <1>3, PopPlaces
  <2>2. end /\ ~cut
    <3>1. end' = end /\ cut' = cut
      BY <1>3 DEF condVars, spentVars
    <3>2. QED  BY <3>1
  <2>3. \A d \in Ctx : pc[d] = "notify_all" => pc'[d] = "notify_all"
    BY <1>3 DEF SemSelf, SemWakeOne, From, IInv, TypeOK, WaitTypeOK, AsleepTypeOK
  <2>4. AtPC({"notify_all"}) # {} => AtPC({"notify_all"})' # {}
    BY <2>3 DEF AtPC
  <2>5. Queued(CondQue)' \subseteq Queued(CondQue)
    BY <2>1, PopFewer
  <2>6. QED  BY <2>2, <2>4, <2>5 DEF EndFound
<1>4. CASE UNCHANGED vars
  <2>1. Queued(CondQue)' = Queued(CondQue) /\ AtPC({"notify_all"})' = AtPC({"notify_all"})
    BY <1>4 DEF vars, waitVars, listVars, Queued, InList, AtPC
  <2>2. end /\ ~cut
    BY <1>4 DEF vars, condVars, spentVars
  <2>3. QED  BY <2>1, <2>2 DEF EndFound
<1>5. ASSUME NEW c \in Ctx, CondStep(c) \/ ((SemStep(c) \/ ParkStep(c)) /\ UNCHANGED condVars)
      PROVE  Queued(CondQue)' = {} \/ AtPC({"notify_all"})' # {}
  <2>1. \/ CondNotify(c) \/ NotifyAll(c)
        \/ (SemSelf(c) \/ SemWakeOne(c)) /\ UNCHANGED condVars
        \/ Plain(c) /\ (CondStep(c) \/ UNCHANGED condVars)
    BY <1>5 DEF CondStep, SemStep, Plain
  <2>2. QED  BY <1>1, <1>2, <1>3, <2>1
<1>6. QED  BY <1>4, <1>5 DEF Next

------------------------------------------------------------------------------

LEMMA FoundInitially == Init => FInv
<1> SUFFICES ASSUME Init PROVE FInv
  OBVIOUS
<1>0. IInv
  BY Initially
<1> USE SemAssumption, CondAssumption, CtxAssumption, ListAssumption
    DEF Init, WaitInit, AsleepInit, SemInit, CondInit
<1>1. \A c \in Ctx : Told(c)
  BY DEF Told
<1>2. Queued(SemQue) = {} /\ Queued(CondQue) = {}
  BY DEF Queued, InList
<1>3. /\ Cardinality(Queued(SemQue)) = 0 /\ Cardinality(Queued(CondQue)) = 0
  BY <1>2, FS_EmptySet
<1>4. Cardinality(AtPC(SemLookPC)) \in Nat /\ Cardinality(AtPC({})) \in Nat
  BY CountNone DEF AtPC
<1>5. SemFound /\ ItemFound /\ EndFound
  BY <1>2, <1>3, <1>4 DEF SemFound, ItemFound, EndFound, Found
<1>6. QED  BY <1>0, <1>1, <1>5 DEF FInv

LEMMA FoundInvariance == Spec => []FInv
<1>1. FInv /\ [Next]_vars => FInv'
  <2> SUFFICES ASSUME FInv, [Next]_vars PROVE FInv'
    OBVIOUS
  <2>1. IInv'
    BY TypePreserved, ListPreserved, CondPreserved DEF FInv, IInv
  <2>2. \A c \in Ctx : Told(c)'
    BY ToldPreserved DEF FInv
  <2>3. TypeOK'
    BY <2>1 DEF IInv
  <2>4. SemFound' /\ ItemFound' /\ EndFound'
    BY <2>3, SemFoundPreserved, ItemFoundPreserved, EndFoundPreserved
  <2>5. QED  BY <2>1, <2>2, <2>4 DEF FInv
<1>2. QED  BY FoundInitially, <1>1, PTL DEF Spec

LEMMA QuietNobody ==
  ASSUME IInv, Quiet, NEW l, NEW P, P \cap {"out", "parked"} = {}
  PROVE  AtPC(P) = {} /\ Coming(l, P) = {}
<1>1. ASSUME NEW c \in Ctx PROVE pc[c] \notin P /\ ~OnHisWay(c)
  <2>1. pc[c] = "out" => status[c] = "Ready_Reset_Reset"
    BY DEF IInv, ListInv, Place, RunningPC
  <2>2. QED  BY <2>1 DEF Quiet, OnHisWay, Resumed
<1>2. QED  BY <1>1 DEF AtPC, Coming

\* No permit of a cosemaphore_tm is overlooked: when nobody is on his way, nobody
\* sleeps while there are more than had their notify spent on a sleeper that had
\* timed out.
THEOREM PermitsAreFound == Spec => []PermitsFound
<1>1. FInv => PermitsFound
  <2> SUFFICES ASSUME FInv, Quiet, sem_ > semSpent PROVE Listed(SemQue) = {}
    BY DEF PermitsFound
  <2>1. Queued(SemQue) = Listed(SemQue)
    BY QueuedListed, SemAssumption
    DEF FInv, IInv, TypeOK, WaitTypeOK, ListType, ListInv
  <2>2. AtPC(SemLookPC) = {} /\ Coming(SemQue, SemComePC) = {}
    BY QuietNobody DEF FInv, SemLookPC, SemComePC
  <2>3. Cardinality(AtPC(SemLookPC)) = 0 /\ Cardinality(Coming(SemQue, SemComePC)) = 0
    BY <2>2, FS_EmptySet
  <2>4. Found(sem_ - semSpent, SemQue, SemLookPC, SemComePC)
    BY DEF FInv, SemFound
  <2>5. Cardinality(Queued(SemQue)) <= 0
    BY <2>3, <2>4 DEF Found, FInv, IInv, TypeOK, SemTypeOK
  <2>6. Queued(SemQue) = {}
    BY <2>5, CountNone DEF Queued
  <2>7. QED  BY <2>1, <2>6
<1>2. QED  BY FoundInvariance, <1>1, PTL

\* No wake-up of a cocondvariable is lost: when nobody is on his way, nobody
\* sleeps while there are more items than had their notify spent on a sleeper that
\* had timed out, or after the end, unless notify_all stopped at such a sleeper.
THEOREM WakeUpsAreFound == Spec => []CondFound
<1>1. FInv => CondFound
  <2> SUFFICES ASSUME FInv, Quiet, IF end THEN ~cut ELSE items > condSpent
               PROVE  Listed(CondQue) = {}
    BY DEF CondFound
  <2>1. Queued(CondQue) = Listed(CondQue)
    BY QueuedListed, CondAssumption
    DEF FInv, IInv, TypeOK, WaitTypeOK, ListType, ListInv
  <2>2. /\ AtPC({}) = {} /\ Coming(CondQue, CondComePC) = {}
        /\ AtPC({"notify_all"}) = {}
    BY QuietNobody DEF FInv, CondComePC
  <2>3. Cardinality(AtPC({})) = 0 /\ Cardinality(Coming(CondQue, CondComePC)) = 0
    BY <2>2, FS_EmptySet
  <2>4. CASE end
    BY <2>1, <2>2, <2>4 DEF FInv, EndFound
  <2>5. CASE ~end
    <3>1. items > condSpent /\ items \in Int /\ condSpent \in Int
      BY <2>5 DEF FInv, IInv, TypeOK, CondTypeOK
    <3>2. Found(items - condSpent, CondQue, {}, CondComePC)
      BY <2>5 DEF FInv, ItemFound
    <3>3. Cardinality(Queued(CondQue)) <= 0
      BY <2>3, <3>1, <3>2 DEF Found
    <3>4. Queued(CondQue) = {}
      BY <3>3, CountNone DEF Queued
    <3>5. QED  BY <2>1, <3>4
  <2>6. QED  BY <2>4, <2>5
<1>2. QED  BY FoundInvariance, <1>1, PTL

------------------------------------------------------------------------------
(* The channel: its types *)

LEMMA ChannelTypes ==
  ASSUME ChannelTypeOK
  PROVE  /\ ListType /\ status \in [Ctx -> Status] /\ timed_out \in [Ctx -> BOOLEAN]
         /\ pc \in [Ctx -> AsleepPC \cup {"push"} \cup UserPC]
BY DEF ChannelTypeOK, WaitTypeOK, AsleepTypeOK, ListType

LEMMA SlotNext ==
  ASSUME NEW i \in Slot
  PROVE  /\ (i + 1) % N \in Slot
         /\ (i + 1) % N = IF i + 1 = N THEN 0 ELSE i + 1
BY ChannelAssumption DEF Slot

LEMMA PushType ==
  ASSUME ListType, NEW l \in List, NEW n \in Ctx, Push(l, n), on' = on
  PROVE  ListType'
BY DEF Push, ListType

LEMMA RemoveType ==
  ASSUME ListType, NEW l \in List, NEW n \in Ctx, Remove(l, n), on' = on
  PROVE  ListType'
<1>1. PICK p, s \in Ctx \cup {None} : p = prev_[n] /\ s = next_[n]
  BY DEF ListType
<1>2. head_' \in [List -> Ctx \cup {None}] /\ tail_' \in [List -> Ctx \cup {None}]
  BY <1>1 DEF Remove, ListType
<1>3. prev_' \in [Ctx -> Ctx \cup {None}] /\ next_' \in [Ctx -> Ctx \cup {None}]
  BY <1>1 DEF Remove, ListType
<1>4. QED  BY <1>2, <1>3 DEF ListType

\* The steps that leave the queues alone.
Walks(c) ==
  \/ Take(c) \/ Put(c) \/ Enter(c) \/ LookBuf(c) \/ LookQue(c) \/ LookStop(c)
  \/ AgainStop(c) \/ AgainBuf(c) \/ AgainQue(c) \/ Woken(c) \/ Stop(c) \/ Drained(c)
  \/ Return(c) \/ wait(c) \/ close(c) \/ (\E v \in Val : post(c, v))
  \/ (Steal(c) /\ head_[PostQue] = None) \/ (Give(c) /\ head_[WaitQue] = None)
  \/ (ParkStep(c) /\ UNCHANGED chanVars)

\* The steps that pop l, if they find a node there.
Draws(c, l) ==
  \/ WakePoster(c) /\ l = PostQue
  \/ Steal(c) /\ l = PostQue /\ head_[l] # None
  \/ Give(c) /\ l = WaitQue /\ head_[l] # None
  \/ Notify(c) /\ l = on[c]
  \/ DrainOne(c) /\ l = on[c]

LEMMA ChannelSteps ==
  ASSUME NEW c \in Ctx, UserCall(c) \/ Step(c)
  PROVE  Walks(c) \/ Enqueue(c) \/ TimedOut(c) \/ \E l \in {WaitQue, PostQue, on[c]} : Draws(c, l)
BY DEF UserCall, Step, Walks, Draws

\* Whoever is in a call is on one of the queues.
InCall == \A c \in Ctx : pc[c] # "out" => on[c] \in Queues

LEMMA ChannelTypePreserved ==
  ASSUME ChannelTypeOK, InCall, NEW c \in Ctx, UserCall(c) \/ Step(c)
  PROVE  ChannelTypeOK'
<1> USE ChannelAssumption, ChannelTypes
<1> USE DEF AsleepPC, UserPC, TryPC, LookPC, AgainPC, ResultPC
<1>1. ListType' /\ status' \in [Ctx -> Status]
  <2>1. CASE Enqueue(c)
    <3>1. pc[c] = "push" /\ Push(on[c], c) /\ on' = on /\ status' = status
      BY <2>1 DEF Enqueue, PushSelf, From
    <3>2. QED  BY <3>1, PushType DEF InCall, Queues
  <2>2. CASE TimedOut(c)
    <3>1. pc[c] = "remove" /\ Remove(on[c], c) /\ on' = on /\ status' = status
      BY <2>2 DEF TimedOut, RemoveSelf, From
    <3>2. QED  BY <3>1, RemoveType DEF InCall, Queues
  <2>3. ASSUME NEW l \in {WaitQue, PostQue, on[c]}, Draws(c, l)
        PROVE  ListType' /\ status' \in [Ctx -> Status]
    <3>1. on' = on /\ PopResume(l) /\ pc[c] # "out"
      BY <2>3 DEF Draws, WakePoster, Steal, Give, Notify, DrainOne, Unpack, PopResume, From
    <3>2. l \in List
      BY <3>1 DEF InCall, Queues
    <3>3. QED  BY <3>1, <3>2, PopResumeType
  <2>4. CASE Walks(c)
    <3>1. UNCHANGED listVars
      BY <2>4
      DEF Walks, Take, Put, Enter, LookBuf, LookQue, LookStop, Look, AgainStop, AgainBuf,
          AgainQue, Woken, Stop, Drained, Return, wait, close, post, Steal, Give, Move,
          SuspendSelf, ParkStep
    <3>2. on' \in [Ctx -> List \cup {None}]
      BY <2>4
      DEF Walks, Take, Put, Enter, LookBuf, LookQue, LookStop, Look, AgainStop, AgainBuf,
          AgainQue, Woken, Stop, Drained, Return, wait, close, post, Steal, Give, Move,
          SuspendSelf, ParkStep, ListType
    <3>3. status' \in [Ctx -> Status]
      <4>1. CASE ParkStep(c)
        BY <4>1, TryTypes
        DEF ParkStep, SchedStep, Switch, SleepAdd, SleepTimeout, SleepRemove, Run, SetStatus
      <4>2. CASE Enter(c) \/ LookBuf(c) \/ LookQue(c) \/ LookStop(c)
        BY <4>2, TryTypes
        DEF Enter, LookBuf, LookQue, LookStop, Look, Move, SuspendSelf, Suspend, SetStatus
      <4>3. CASE ~(ParkStep(c) \/ Enter(c) \/ LookBuf(c) \/ LookQue(c) \/ LookStop(c))
        BY <2>4, <4>3
        DEF Walks, Take, Put, AgainStop, AgainBuf, AgainQue, Woken, Stop, Drained, Return,
            wait, close, post, Steal, Give, Move
      <4>4. QED  BY <4>1, <4>2, <4>3
    <3>4. QED  BY <3>1, <3>2, <3>3 DEF listVars, ListType
  <2>5. QED  BY <2>1, <2>2, <2>3, <2>4, ChannelSteps
<1>2. timed_out' \in [Ctx -> BOOLEAN]
  <2>1. CASE ParkStep(c)
    BY <2>1 DEF ParkStep, SchedStep, Switch, SleepAdd, SleepTimeout, SleepRemove, Run
  <2>2. CASE ~ParkStep(c)
    BY <2>2
    DEF UserCall, Step, Take, WakePoster, Steal, Give, Put, Enter, LookBuf, LookQue, LookStop, Look,
        Enqueue, PushSelf, AgainStop, AgainBuf, AgainQue, Notify, Woken, TimedOut, RemoveSelf,
        Stop, DrainOne, Drained, Return, wait, close, post, Move, SuspendSelf, Suspend
  <2>3. QED  BY <2>1, <2>2
<1>3. pc' \in [Ctx -> AsleepPC \cup {"push"} \cup UserPC]
  <2>1. CASE ParkStep(c)
    BY <2>1 DEF ParkStep, SchedStep, Switch, SleepAdd, SleepTimeout, SleepRemove, Run, From
  <2>2. CASE ~ParkStep(c)
    BY <2>2
    DEF UserCall, Step, Take, WakePoster, Steal, Give, Put, Enter, LookBuf, LookQue, LookStop, Look,
        Enqueue, PushSelf, AgainStop, AgainBuf, AgainQue, Notify, Woken, TimedOut, RemoveSelf,
        Stop, DrainOne, Drained, Return, wait, close, post, Move, SuspendSelf, Suspend, From,
        Start
  <2>3. QED  BY <2>1, <2>2
<1>4. /\ buffer_' \in [Slot -> Val \cup {None}]
      /\ bhead_' \in Slot \cup {0} /\ btail_' \in Slot \cup {0} /\ full_' \in BOOLEAN
      /\ stop_' \in [Queues -> BOOLEAN] /\ unpack_' \in [Ctx -> BOOLEAN]
      /\ val' \in [Ctx -> Val \cup {None}] /\ inplay' \subseteq Val
  <2> USE DEF ChannelTypeOK
  <2>1. CASE Take(c)
    <3>1. CASE Empty
      BY <2>1, <3>1 DEF Take, bufVars
    <3>2. CASE ~Empty
      <4>1. bhead_ \in Slot
        BY <3>2 DEF Empty, Slot
      <4>2. QED  BY <2>1, <3>2, <4>1, SlotNext DEF Take, BufPop
    <3>3. QED  BY <3>1, <3>2
  <2>2. CASE Put(c)
    <3>1. CASE Full
      BY <2>2, <3>1 DEF Put, bufVars
    <3>2. CASE ~Full
      <4>1. btail_ \in Slot
        BY <3>2 DEF Full, Slot
      <4>2. QED  BY <2>2, <3>2, <4>1, SlotNext DEF Put, BufPush
    <3>3. QED  BY <3>1, <3>2
  <2>3. CASE Steal(c) \/ Give(c)
    <3>1. UNCHANGED <<bufVars, stop_, inplay>>
      BY <2>3 DEF Steal, Give
    <3>2. PICK h, g \in Ctx \cup {None} : h = head_[PostQue] /\ g = head_[WaitQue]
      BY DEF ListType
    <3>3. \/ UNCHANGED <<unpack_, val>>
          \/ \E d, e \in Ctx : val' = [val EXCEPT ![d] = val[e], ![e] = None]
             /\ \E x \in Ctx : unpack_' = [unpack_ EXCEPT ![x] = TRUE]
      BY <2>3, <3>2 DEF Steal, Give, Unpack, Moves
    <3>4. val' \in [Ctx -> Val \cup {None}] /\ unpack_' \in [Ctx -> BOOLEAN]
      BY <3>3
    <3>5. QED  BY <3>1, <3>4 DEF bufVars
  <2>4. CASE Stop(c)
    BY <2>4 DEF Stop, bufVars
  <2>5. CASE Return(c)
    BY <2>5 DEF Return, bufVars
  <2>6. ASSUME NEW v \in Val, post(c, v)
        PROVE  /\ UNCHANGED <<bufVars, stop_, unpack_>>
               /\ val' \in [Ctx -> Val \cup {None}] /\ inplay' \subseteq Val
    BY <2>6 DEF post
  <2>7. CASE UNCHANGED chanVars
    BY <2>7 DEF chanVars, bufVars
  <2>8. CASE \E v \in Val : post(c, v)
    BY <2>6, <2>8 DEF bufVars
  <2>9. QED
    BY <2>1, <2>2, <2>3, <2>4, <2>5, <2>7, <2>8
    DEF UserCall, Step, WakePoster, Enter, LookBuf, LookQue, LookStop,
        Enqueue, AgainStop, AgainBuf, AgainQue, Notify, Woken, TimedOut,
        DrainOne, Drained, wait, close
<1>5. QED  BY <1>1, <1>2, <1>3, <1>4 DEF ChannelTypeOK, WaitTypeOK, AsleepTypeOK, ListType
------------------------------------------------------------------------------
(* The channel: where the coroutines are *)

ChanRunningPC == {"out", "close", "woken", "remove", "enter"} \cup TryPC \cup ResultPC

ChanPlace(c) ==
  /\ pc[c] \in ChanRunningPC => status[c] = "Ready_Reset_Reset"
  /\ pc[c] \in {"look_buf", "look_que", "look_stop", "push"} => status[c] \in Unresumed
  /\ pc[c] \in AgainPC \cup {"sw"} => status[c] \in InCallback
  /\ pc[c] = "drain" => status[c] \in InCallback \cup {"Ready_Reset_Reset"}
  /\ pc[c] = "parked" => status[c] \in ParkedStatus
  /\ pc[c] \in {"take", "wake", "steal"} => on[c] = WaitQue
  /\ pc[c] \in {"give", "put"} => on[c] = PostQue
  /\ pc[c] = "out" <=> on[c] = None
  /\ pc[c] # "out" => on[c] \in Queues

\* c has queued itself, and nobody has resumed it.
Asleep(c) ==
  \/ pc[c] \in AgainPC \cup {"drain", "sw"} /\ status[c] \in Unresumed
  \/ pc[c] = "parked" /\ status[c] \in AsleepStatus

\* Who is asleep is in its queue, and so is who timed out and was not popped since.
InQueue(c) ==
  /\ Asleep(c) => InList(c)
  /\ InList(c) => \/ Asleep(c)
                  \/ /\ pc[c] \in {"parked", "remove"}
                     /\ status[c] = "Ready_Reset_Reset" /\ timed_out[c]

\* From its push on somebody else may move the value of c.
Queuing(c) ==
  \/ pc[c] \in AgainPC \cup {"sw", "parked", "woken", "remove"}
  \/ pc[c] = "drain" /\ status[c] # "Ready_Reset_Reset"

InHand(c) ==
  /\ pc[c] \in {"out", "close", "drain"} /\ ~Queuing(c) => val[c] = None /\ ~unpack_[c]
  /\ pc[c] \in LookPC \cup {"take", "steal", "give", "put", "push"} => ~Moved(c) /\ ~unpack_[c]
  /\ pc[c] = "wake" => Moved(c) /\ ~unpack_[c]
  /\ Queuing(c) => (unpack_[c] <=> Moved(c))
  /\ pc[c] = "done" => Moved(c)
  /\ pc[c] = "timeout" => ~Moved(c)
  /\ pc[c] = "closed" => stop_[on[c]] /\ (Moved(c) => unpack_[c])
  /\ InList(c) => ~unpack_[c]

InTurn(c) == ChanPlace(c) /\ InQueue(c) /\ InHand(c)

\* What the steps of the channel keep of the queues and the coroutines.
CallInv == ChannelTypeOK /\ Linked /\ NoCycle /\ \A c \in Ctx : InTurn(c)

\* A queue that was closed stays closed.
StaysClosed == \A l \in Queues : stop_[l] => stop_'[l]

\* d, its place in a queue and its value are left alone.
Untouched(d) ==
  Same(d) /\ (InList(d)' <=> InList(d)) /\ val'[d] = val[d] /\ unpack_'[d] = unpack_[d]

LEMMA UntouchedInTurn ==
  ASSUME NEW d \in Ctx, InTurn(d), Untouched(d), StaysClosed
  PROVE  InTurn(d)'
<1>1. ChanPlace(d)' /\ InQueue(d)'
  BY DEF InTurn, Untouched, Same, ChanPlace, InQueue, Asleep
<1>2. Moved(d)' <=> Moved(d)
  BY DEF Untouched, Same, Moved
<1>3. Queuing(d)' <=> Queuing(d)
  BY DEF Untouched, Same, Queuing
<1>4. InHand(d)'
  BY <1>2, <1>3 DEF InTurn, Untouched, Same, ChanPlace, InHand, StaysClosed
<1>5. QED  BY <1>1, <1>4 DEF InTurn

LEMMA CallFacts ==
  ASSUME CallInv
  PROVE  /\ ListType /\ Linked /\ NoCycle /\ InCall
         /\ status \in [Ctx -> Status] /\ timed_out \in [Ctx -> BOOLEAN]
         /\ pc \in [Ctx -> AsleepPC \cup {"push"} \cup UserPC]
         /\ stop_ \in [Queues -> BOOLEAN] /\ unpack_ \in [Ctx -> BOOLEAN]
         /\ val \in [Ctx -> Val \cup {None}]
BY ChannelTypes DEF CallInv, InTurn, ChanPlace, InCall, ChannelTypeOK

LEMMA StopStays ==
  ASSUME CallInv, NEW c \in Ctx, UserCall(c) \/ Step(c)
  PROVE  StaysClosed
<1>1. CASE Stop(c)
  BY <1>1, CallFacts DEF Stop, StaysClosed
<1>2. CASE ~Stop(c)
  BY <1>2
  DEF UserCall, Step, Take, WakePoster, Steal, Give, Put, Enter, LookBuf, LookQue, LookStop,
      Enqueue, AgainStop, AgainBuf, AgainQue, Notify, Woken, TimedOut,
      DrainOne, Drained, Return, wait, close, post, chanVars, StaysClosed
<1>3. QED  BY <1>1, <1>2

\* A step that leaves the queues alone, for the others.
LEMMA WalkApart ==
  ASSUME CallInv, NEW c \in Ctx, Walks(c)
  PROVE  /\ UNCHANGED listVars
         /\ \A d \in Ctx \ {c} : Untouched(d)
         /\ InList(c)' <=> InList(c)
         /\ on'[c] = on[c] \/ ~InList(c)
         /\ Linked' /\ NoCycle'
<1> USE CallFacts
<1>1. UNCHANGED listVars
  BY DEF Walks, Take, Put, Enter, LookBuf, LookQue, LookStop, Look, AgainStop, AgainBuf,
         AgainQue, Woken, Stop, Drained, Return, wait, close, post, Steal, Give, Move,
         SuspendSelf, ParkStep
<1>2. ASSUME NEW d \in Ctx \ {c}
      PROVE  Same(d) /\ val'[d] = val[d] /\ unpack_'[d] = unpack_[d]
  <2>1. CASE ParkStep(c) /\ UNCHANGED chanVars
    BY <2>1 DEF ParkStep, SchedStep, Switch, SleepAdd, SleepTimeout, SleepRemove, Run, SetStatus,
                From, Same, chanVars
  <2>2. CASE Enter(c) \/ LookBuf(c) \/ LookQue(c) \/ LookStop(c)
    BY <2>2 DEF Enter, LookBuf, LookQue, LookStop, Look, Move, SuspendSelf, Suspend, SetStatus,
                From, Same, chanVars
  <2>3. CASE \/ Take(c) \/ Put(c) \/ AgainStop(c) \/ AgainBuf(c) \/ AgainQue(c) \/ Woken(c)
             \/ (Steal(c) /\ head_[PostQue] = None) \/ (Give(c) /\ head_[WaitQue] = None)
    BY <2>3 DEF Take, Put, AgainStop, AgainBuf, AgainQue, Woken, Steal, Give, Move,
                From, Same, chanVars
  <2>4. CASE \/ Stop(c) \/ Drained(c) \/ Return(c) \/ wait(c) \/ close(c)
             \/ \E v \in Val : post(c, v)
    BY <2>4 DEF Stop, Drained, Return, wait, close, post, Move,
                From, Same, chanVars, ListType
  <2>5. QED  BY <2>1, <2>2, <2>3, <2>4 DEF Walks
<1>3. \A d \in Ctx \ {c} : on'[d] = on[d] /\ (InList(d)' <=> InList(d))
  BY <1>1, <1>2 DEF Same, InList, listVars
<1>4. on' \in [Ctx -> List \cup {None}]
  BY ChannelAssumption
  DEF Walks, Take, Put, Enter, LookBuf, LookQue, LookStop, Look, AgainStop, AgainBuf,
      AgainQue, Woken, Stop, Drained, Return, wait, close, post, Steal, Give, Move,
      SuspendSelf, ParkStep, ListType
<1>5. on'[c] = on[c] \/ ~InList(c)
  <2>1. CASE Drained(c)
    <3>1. ~Waiting(c) \/ on' = on
      BY <2>1 DEF Drained
    <3>2. pc[c] = "drain"
      BY <2>1 DEF Drained
    <3>3. ~Waiting(c) => ~InList(c)
      BY <3>2 DEF CallInv, InTurn, InQueue, Asleep, Waiting, Unresumed, YieldStatus, SleepStatus
    <3>4. QED  BY <3>1, <3>3
  <2>2. CASE \/ Return(c) \/ wait(c) \/ close(c) \/ \E v \in Val : post(c, v)
    <3>1. pc[c] \in {"out"} \cup ResultPC
      BY <2>2 DEF Return, wait, close, post, Move, From
    <3>2. QED  BY <3>1 DEF CallInv, InTurn, InQueue, Asleep, AgainPC, ResultPC
  <2>3. CASE ~(Drained(c) \/ Return(c) \/ wait(c) \/ close(c) \/ \E v \in Val : post(c, v))
    BY <2>3 DEF Walks, Take, Put, Enter, LookBuf, LookQue, LookStop, Look, AgainStop, AgainBuf,
                AgainQue, Woken, Stop, Steal, Give, Move, SuspendSelf, ParkStep
  <2>4. QED  BY <2>1, <2>2, <2>3
<1>6. (InList(c)' <=> InList(c)) /\ Linked'
  <2>1. CASE on'[c] = on[c]
    <3>1. on' = on
      BY <1>3, <1>4, <2>1 DEF ListType
    <3>2. QED  BY <1>1, <3>1 DEF InList, Linked, listVars
  <2>2. CASE ~InList(c)
    BY <1>1, <1>3, <1>4, <2>2, MoveLinked
  <2>3. QED  BY <1>5, <2>1, <2>2
<1>7. NoCycle'
  BY <1>1 DEF NoCycle, listVars
<1>8. QED  BY <1>1, <1>2, <1>3, <1>5, <1>6, <1>7 DEF Untouched

\* A step of c by itself.  The slot at the head of a buffer with values is filled.
LEMMA WalkInTurn ==
  ASSUME CallInv, ~Empty => buffer_[bhead_] # None, NEW c \in Ctx, Walks(c)
  PROVE  InTurn(c)'
<1> USE CallFacts, ChannelAssumption
<1>0. /\ UNCHANGED listVars /\ (InList(c)' <=> InList(c))
      /\ InTurn(c)
  BY WalkApart DEF CallInv
<1> USE DEF InTurn, ChanPlace, InQueue, InHand, Asleep, Queuing, Moved,
            ChanRunningPC, TryPC, LookPC, AgainPC, ResultPC
<1>1. CASE Take(c)
  <2>1. pc[c] = "take" /\ on' = on /\ status' = status /\ unpack_' = unpack_ /\ stop_' = stop_
    BY <1>1 DEF Take, Move, From
  <2>2. CASE Empty
    BY <1>0, <1>1, <2>1, <2>2 DEF Take, Move, From
  <2>3. CASE ~Empty
    <3>1. val'[c] # None
      BY <1>1, <2>3 DEF Take
    <3>2. QED  BY <1>0, <1>1, <2>1, <2>3, <3>1 DEF Take, Move, From
  <2>4. QED  BY <2>2, <2>3
<1>2. CASE Put(c)
  <2>1. pc[c] = "put" /\ on' = on /\ status' = status /\ unpack_' = unpack_ /\ stop_' = stop_
    BY <1>2 DEF Put, Move, From
  <2>2. (pc'[c] = "enter" /\ val' = val) \/ (pc'[c] = "done" /\ val'[c] = None)
    BY <1>2 DEF Put, Move, From
  <2>3. QED  BY <1>0, <2>1, <2>2
<1>3. CASE (Steal(c) /\ head_[PostQue] = None) \/ (Give(c) /\ head_[WaitQue] = None)
  <2>1. /\ on' = on /\ status' = status /\ unpack_' = unpack_ /\ stop_' = stop_ /\ val' = val
        /\ \/ pc[c] = "steal" /\ pc'[c] = "enter"
           \/ pc[c] = "give" /\ pc'[c] = "put"
    BY <1>3 DEF Steal, Give, Move, From
  <2>2. QED  BY <1>0, <2>1
<1>4. CASE wait(c) \/ close(c)
  <2>1. /\ UNCHANGED <<status, unpack_, stop_, val>> /\ pc[c] = "out"
        /\ \/ pc'[c] = "take" /\ on'[c] = WaitQue
           \/ pc'[c] = "close" /\ on'[c] = PostQue
    BY <1>4 DEF wait, close, Move, From, chanVars, ListType
  <2>2. QED  BY <1>0, <2>1, ListAssumption DEF Queues
<1>5. CASE \E v \in Val : post(c, v)
  <2>1. /\ UNCHANGED <<status, unpack_, stop_>> /\ pc[c] = "out"
        /\ pc'[c] = "give" /\ on'[c] = PostQue /\ val'[c] # None
    BY <1>5 DEF post, Move, From, ListType
  <2>2. QED  BY <1>0, <2>1, ListAssumption DEF Queues
<1>6. CASE Enter(c)
  <2>1. /\ UNCHANGED <<on, unpack_, stop_, val>> /\ pc[c] = "enter"
        /\ \/ pc'[c] = "closed" /\ status' = status /\ stop_[on[c]]
           \/ pc'[c] = "look_buf" /\ status'[c] \in Unresumed
    BY <1>0, <1>6
    DEF Enter, Move, SuspendSelf, Suspend, SetStatus, From, chanVars, TryYield, TrySleep,
        Becomes, Fails, Unresumed
  <2>2. QED  BY <1>0, <2>1
<1>7. CASE LookBuf(c) \/ LookQue(c) \/ LookStop(c)
  <2>1. UNCHANGED <<on, unpack_, stop_, val>> /\ pc[c] \in {"look_buf", "look_que", "look_stop"}
    BY <1>7 DEF LookBuf, LookQue, LookStop, Look, From, chanVars
  <2>2. status[c] \in Unresumed
    BY <1>0, <2>1
  <2>3. \/ pc'[c] = "sw" /\ status'[c] \in InCallback \ Unresumed
        \/ pc'[c] \in {"look_que", "look_stop", "push"} /\ status' = status
    BY <1>7, <2>2
    DEF LookBuf, LookQue, LookStop, Look, From, SetStatus, TryResume, Becomes, Fails, Unresumed,
        InCallback
  <2>4. QED  BY <1>0, <2>1, <2>2, <2>3
<1>8. CASE AgainStop(c) \/ AgainBuf(c) \/ AgainQue(c)
  <2>1. /\ UNCHANGED <<on, unpack_, stop_, val, status>>
        /\ pc[c] \in AgainPC /\ pc'[c] \in AgainPC \cup {"drain", "sw"}
    BY <1>8 DEF AgainStop, AgainBuf, AgainQue, Move, From, chanVars
  <2>2. status[c] \in InCallback
    BY <1>0, <2>1
  <2>3. QED  BY <1>0, <2>1, <2>2 DEF InCallback, Unresumed
<1>9. CASE Woken(c)
  <2>1. /\ UNCHANGED <<on, unpack_, stop_, val, status>> /\ pc[c] = "woken"
        /\ \/ pc'[c] = "closed" /\ stop_[on[c]]
           \/ pc'[c] = "done" /\ unpack_[c]
           \/ pc'[c] = "take" /\ on[c] = WaitQue /\ ~unpack_[c]
           \/ pc'[c] = "give" /\ on[c] # WaitQue /\ ~unpack_[c]
    BY <1>9 DEF Woken, Move, From, chanVars, Start
  <2>2. QED  BY <1>0, <2>1 DEF Queues
<1>10. CASE Stop(c)
  <2>1. UNCHANGED <<on, unpack_, val, status>> /\ pc[c] = "close" /\ pc'[c] = "drain"
    BY <1>10 DEF Stop, Move, From
  <2>2. QED  BY <1>0, <2>1 DEF Unresumed
<1>11. CASE Drained(c)
  <2>1. UNCHANGED <<unpack_, val, status, stop_>> /\ pc[c] = "drain"
    BY <1>11 DEF Drained, Move, From, chanVars
  <2>2. CASE Waiting(c)
    <3>1. on' = on /\ pc'[c] = "sw"
      BY <1>11, <2>1, <2>2 DEF Drained, Move, From
    <3>2. status[c] \in InCallback
      BY <1>0, <2>1, <2>2 DEF Waiting, YieldStatus, SleepStatus
    <3>3. QED  BY <1>0, <2>1, <3>1, <3>2 DEF InCallback, Unresumed
  <2>3. CASE ~Waiting(c)
    <3>1. \/ on[c] = PostQue /\ on'[c] = WaitQue /\ pc'[c] = "close"
          \/ on'[c] = None /\ pc'[c] = "out"
      BY <1>11, <2>1, <2>3 DEF Drained, Move, From, ListType
    <3>2. status[c] = "Ready_Reset_Reset"
      BY <1>0, <2>1, <2>3 DEF Waiting, YieldStatus, SleepStatus, InCallback, Unresumed
    <3>3. QED  BY <1>0, <2>1, <3>1, <3>2, ListAssumption DEF Queues, Unresumed
  <2>4. QED  BY <2>2, <2>3
<1>12. CASE Return(c)
  <2>1. /\ UNCHANGED <<status, stop_>> /\ pc[c] \in ResultPC /\ pc'[c] = "out" /\ on'[c] = None
        /\ val'[c] = None /\ ~unpack_'[c]
    BY <1>12 DEF Return, Move, From, ListType
  <2>2. QED  BY <1>0, <2>1, ListAssumption DEF Queues
<1>13. CASE ParkStep(c) /\ UNCHANGED chanVars
  <2>1. UNCHANGED <<on, unpack_, stop_, val>>
    BY <1>13 DEF ParkStep, chanVars
  <2>2. CASE Switch(c)
    <3>1. pc[c] = "sw" /\ pc'[c] = "parked" /\ status'[c] = TrySw(status[c]).to
      BY <2>2 DEF Switch, From, SetStatus
    <3>2. /\ status'[c] \in ParkedStatus
          /\ status[c] \in Unresumed <=> status'[c] \in AsleepStatus
      BY <1>0, <3>1
      DEF TrySw, Becomes, Fails, InCallback, Unresumed, ParkedStatus, AsleepStatus
    <3>3. QED  BY <1>0, <2>1, <3>1, <3>2
  <2>3. CASE SleepAdd(c) \/ SleepRemove(c)
    <3>1. pc[c] = "parked" /\ pc' = pc /\ timed_out' = timed_out
      BY <2>3 DEF SleepAdd, SleepRemove
    <3>2. \/ status[c] = "Sleep_Set_Reset" /\ status'[c] = "Sleep_Set_Set"
          \/ status[c] \in {"Sleep_Set_Break", "Sleep_Set_Remove"}
             /\ status'[c] = "Ready_Reset_Reset"
      BY <2>3 DEF SleepAdd, SleepRemove, SetStatus, TrySleepAdd, TrySleepRemove, Becomes, Fails
    <3>3. QED  BY <1>0, <2>1, <3>1, <3>2 DEF ParkedStatus, AsleepStatus
  <2>4. CASE SleepTimeout(c)
    <3>1. /\ pc[c] = "parked" /\ pc' = pc /\ timed_out'[c]
          /\ status[c] = "Sleep_Set_Set" /\ status'[c] = "Ready_Reset_Reset"
      BY <2>4 DEF SleepTimeout, SetStatus, TrySleepTimeout, Becomes, Fails
    <3>2. QED  BY <1>0, <2>1, <3>1 DEF ParkedStatus, AsleepStatus
  <2>5. CASE Run(c)
    <3>1. /\ pc[c] = "parked" /\ status[c] = "Ready_Reset_Reset"
          /\ status' = status /\ timed_out' = timed_out
          /\ pc'[c] = IF timed_out[c] THEN "remove" ELSE "woken"
      BY <2>5 DEF Run, From
    <3>2. QED  BY <1>0, <2>1, <3>1 DEF AsleepStatus
  <2>6. QED  BY <1>13, <2>2, <2>3, <2>4, <2>5 DEF ParkStep, SchedStep
<1>14. QED
  BY <1>1, <1>2, <1>3, <1>4, <1>5, <1>6, <1>7, <1>8, <1>9, <1>10, <1>11, <1>12, <1>13
  DEF Walks

LEMMA EnqueueInTurn ==
  ASSUME CallInv, NEW c \in Ctx, Enqueue(c)
  PROVE  /\ Linked' /\ NoCycle' /\ \A d \in Ctx : InTurn(d)'
         /\ \A d \in Ctx : InList(d)' <=> InList(d) \/ d = c
         /\ \A d \in Ctx \ {c} : Untouched(d)
<1> USE CallFacts
<1>1. /\ pc[c] = "push" /\ pc' = [pc EXCEPT ![c] = "again_stop"] /\ Push(on[c], c) /\ on' = on
      /\ UNCHANGED <<status, timed_out, val, unpack_, stop_>>
  BY DEF Enqueue, PushSelf, From, chanVars
<1>2. on[c] \in Queues /\ on[c] \in List /\ ~InList(c) /\ status[c] \in Unresumed /\ InTurn(c)
  BY <1>1, ChannelAssumption
  DEF CallInv, InTurn, ChanPlace, InQueue, Asleep, AgainPC, Queues
<1>3. Linked' /\ \A d \in Ctx : InList(d)' <=> InList(d) \/ d = c
  BY <1>1, <1>2, PushLinked
<1>4. NoCycle'
  BY <1>1, <1>2, PushNoCycle
<1>5. \A d \in Ctx \ {c} : Untouched(d)
  BY <1>1, <1>3 DEF Untouched, Same
<1>6. ASSUME NEW d \in Ctx \ {c} PROVE InTurn(d)'
  BY <1>1, <1>5, UntouchedInTurn DEF StaysClosed, CallInv
<1>7. InTurn(c)'
  BY <1>1, <1>2, <1>3
  DEF InTurn, ChanPlace, InQueue, InHand, Asleep, Queuing, Moved, ChanRunningPC, TryPC, LookPC,
      AgainPC, ResultPC, InCallback
<1>8. QED  BY <1>3, <1>4, <1>5, <1>6, <1>7

LEMMA TimedOutInTurn ==
  ASSUME CallInv, NEW c \in Ctx, TimedOut(c)
  PROVE  /\ Linked' /\ NoCycle' /\ \A d \in Ctx : InTurn(d)'
         /\ \A d \in Ctx : InList(d)' <=> InList(d) /\ d # c
         /\ \A d \in Ctx \ {c} : Untouched(d)
<1> USE CallFacts
<1>1. /\ pc[c] = "remove" /\ pc' = [pc EXCEPT ![c] = IF unpack_[c] THEN "done" ELSE "timeout"]
      /\ Remove(on[c], c) /\ on' = on
      /\ UNCHANGED <<status, timed_out, val, unpack_, stop_>>
  BY DEF TimedOut, RemoveSelf, From, chanVars
<1>2. on[c] \in Queues /\ on[c] \in List /\ status[c] = "Ready_Reset_Reset" /\ InTurn(c)
  BY <1>1, ChannelAssumption DEF CallInv, InTurn, ChanPlace, ChanRunningPC, Queues
<1>3. Linked' /\ \A d \in Ctx : InList(d)' <=> InList(d) /\ d # c
  BY <1>1, <1>2, RemoveLinked
<1>4. NoCycle'
  BY <1>1, <1>2, RemoveNoCycle
<1>5. \A d \in Ctx \ {c} : Untouched(d)
  BY <1>1, <1>3 DEF Untouched, Same
<1>6. ASSUME NEW d \in Ctx \ {c} PROVE InTurn(d)'
  BY <1>1, <1>5, UntouchedInTurn DEF StaysClosed, CallInv
<1>7. InTurn(c)'
  <2>1. pc'[c] = IF unpack_[c] THEN "done" ELSE "timeout"
    BY <1>1
  <2>2. unpack_[c] <=> Moved(c)
    BY <1>1, <1>2 DEF InTurn, InHand, Queuing
  <2>3. Moved(c)' <=> Moved(c)
    BY <1>1 DEF Moved
  <2>4. QED
    BY <1>1, <1>2, <1>3, <2>1, <2>2, <2>3
    DEF InTurn, ChanPlace, InQueue, InHand, Asleep, Queuing, ChanRunningPC, TryPC, LookPC,
        AgainPC, ResultPC
<1>8. QED  BY <1>3, <1>4, <1>5, <1>6, <1>7

------------------------------------------------------------------------------
(* The channel: pops *)

DrawPC == {"wake", "steal", "give", "notify", "drain"}

LEMMA DrawMove ==
  ASSUME CallInv, NEW c \in Ctx, NEW l \in {WaitQue, PostQue, on[c]}, Draws(c, l)
  PROVE  /\ l \in Queues /\ l \in List
         /\ on' = on /\ timed_out' = timed_out /\ stop_' = stop_ /\ PopResume(l)
         /\ pc[c] \in DrawPC /\ \A d \in Ctx \ {c} : pc'[d] = pc[d]
         /\ pc[c] \in {"wake", "steal", "give"} => pc'[c] = "done" /\ l = Other(on[c])
         /\ pc[c] = "notify" => pc'[c] = "sw" /\ l = on[c]
         /\ pc[c] = "drain" => pc'[c] = "drain" /\ l = on[c] /\ head_[l] # None
<1>1. on' = on /\ timed_out' = timed_out /\ stop_' = stop_ /\ PopResume(l)
  BY DEF Draws, WakePoster, Steal, Give, Notify, DrainOne, Unpack, PopResume, chanVars
<1>2. /\ pc[c] \in DrawPC /\ \A d \in Ctx \ {c} : pc'[d] = pc[d]
      /\ pc[c] \in {"wake", "steal", "give"} =>
           pc'[c] = "done" /\ l = (IF pc[c] = "give" THEN WaitQue ELSE PostQue)
      /\ pc[c] = "notify" => pc'[c] = "sw" /\ l = on[c]
      /\ pc[c] = "drain" => pc'[c] = "drain" /\ l = on[c] /\ head_[l] # None
  BY CallFacts DEF Draws, WakePoster, Steal, Give, Notify, DrainOne, From, DrawPC
<1>3. /\ pc[c] \in {"wake", "steal"} => on[c] = WaitQue
      /\ pc[c] = "give" => on[c] = PostQue
      /\ on[c] \in Queues
  BY <1>2 DEF CallInv, InTurn, ChanPlace, DrawPC
<1>4. QED  BY <1>1, <1>2, <1>3, ChannelAssumption DEF Other, Queues, DrawPC

\* Whom a pop finds, and what it does to the lists.
LEMMA DrawHead ==
  ASSUME CallInv, NEW c \in Ctx, NEW l \in {WaitQue, PostQue, on[c]}, Draws(c, l),
         NEW h \in Ctx, h = head_[l]
  PROVE  /\ InList(h) /\ on[h] = l /\ Linked' /\ NoCycle'
         /\ \A d \in Ctx : InList(d)' <=> InList(d) /\ d # h
         /\ status' = [status EXCEPT ![h] = TryResume(status[h]).to]
         /\ h = c => pc[c] \in {"notify", "drain"} /\ Queuing(c)
         /\ pc[c] = "steal" => Moves(h, c)
         /\ pc[c] = "give" => Moves(c, h)
         /\ unpack_' = IF pc[c] \in {"steal", "give"} THEN [unpack_ EXCEPT ![h] = TRUE] ELSE unpack_
         /\ pc[c] \notin {"steal", "give"} => val' = val
<1> USE CallFacts
<1>0. l \in List /\ on' = on /\ PopResume(l) /\ h # None
  BY DrawMove, CtxAssumption
<1>1. InList(h) /\ on[h] = l
  BY <1>0 DEF Linked, InList
<1>2. Pop(l) /\ status' = [status EXCEPT ![h] = TryResume(status[h]).to]
  BY <1>0 DEF PopResume, SetStatus
<1>3. Linked' /\ \A d \in Ctx : InList(d)' <=> InList(d) /\ d # h
  BY <1>0, <1>2, PopLinked
<1>4. NoCycle'
  BY <1>0, <1>2, PopNoCycle
<1>5. h = c => pc[c] \in {"notify", "drain"} /\ Queuing(c)
  <2>1. InList(c) => pc[c] \notin {"wake", "steal", "give"}
    BY DEF CallInv, InTurn, InQueue, Asleep, AgainPC
  <2>2. InList(c) /\ pc[c] = "drain" => status[c] # "Ready_Reset_Reset"
    BY DEF CallInv, InTurn, InQueue, Asleep, AgainPC, Unresumed
  <2>3. QED  BY <1>1, <2>1, <2>2, DrawMove DEF DrawPC, Queuing, AgainPC
<1>6. /\ pc[c] = "steal" => Moves(h, c)
      /\ pc[c] = "give" => Moves(c, h)
      /\ unpack_' = IF pc[c] \in {"steal", "give"} THEN [unpack_ EXCEPT ![h] = TRUE] ELSE unpack_
      /\ pc[c] \notin {"steal", "give"} => val' = val
  BY <1>0 DEF Draws, WakePoster, Steal, Give, Notify, DrainOne, From, Unpack, chanVars
<1>7. QED  BY <1>1, <1>2, <1>3, <1>4, <1>5, <1>6

\* A node that is popped has not been unpacked, and its coroutine is not asleep any more.
LEMMA ListedFacts ==
  ASSUME CallInv, NEW h \in Ctx, InList(h)
  PROVE  /\ Queuing(h) /\ ~Moved(h) /\ ~unpack_[h]
         /\ pc[h] \in AgainPC \cup {"drain", "sw", "parked", "remove"}
         /\ \/ pc[h] \in AgainPC \cup {"drain", "sw"} /\ status[h] \in Unresumed
            \/ pc[h] = "parked" /\ status[h] \in AsleepStatus
            \/ pc[h] \in {"parked", "remove"} /\ status[h] = "Ready_Reset_Reset"
<1>1. InTurn(h)
  BY DEF CallInv
<1>2. \/ pc[h] \in AgainPC \cup {"drain", "sw"} /\ status[h] \in Unresumed
      \/ pc[h] = "parked" /\ status[h] \in AsleepStatus
      \/ pc[h] \in {"parked", "remove"} /\ status[h] = "Ready_Reset_Reset"
  BY <1>1 DEF InTurn, InQueue, Asleep
<1>3. Queuing(h)
  BY <1>2 DEF Queuing, Unresumed
<1>4. QED  BY <1>1, <1>2, <1>3 DEF InTurn, InHand

\* What becomes of its status word.
LEMMA DrawStatus ==
  ASSUME NEW s \in Status
  PROVE  LET t == TryResume(s).to
         IN  /\ s \in Unresumed => t \in InCallback \ Unresumed
             /\ s \in AsleepStatus => t \in ParkedStatus \ AsleepStatus
             /\ s = "Ready_Reset_Reset" => t = s
BY DEF TryResume, Becomes, Fails, Unresumed, InCallback, AsleepStatus, ParkedStatus

LEMMA DrawInTurn ==
  ASSUME CallInv, NEW c \in Ctx, NEW l \in {WaitQue, PostQue, on[c]}, Draws(c, l)
  PROVE  Linked' /\ NoCycle' /\ \A d \in Ctx : InTurn(d)'
<1> USE CallFacts, ChannelAssumption
<1>0. /\ l \in Queues /\ l \in List
      /\ on' = on /\ timed_out' = timed_out /\ stop_' = stop_ /\ PopResume(l)
      /\ pc[c] \in DrawPC /\ \A d \in Ctx \ {c} : pc'[d] = pc[d]
      /\ pc[c] \in {"wake", "steal", "give"} => pc'[c] = "done" /\ l = Other(on[c])
      /\ pc[c] = "notify" => pc'[c] = "sw" /\ l = on[c]
      /\ pc[c] = "drain" => pc'[c] = "drain" /\ l = on[c] /\ head_[l] # None
  BY DrawMove
<1>1. InTurn(c) /\ StaysClosed
  BY <1>0 DEF CallInv, StaysClosed
<1>2. CASE head_[l] = None
  <2>1. UNCHANGED <<listVars, status, val, unpack_>> /\ pc[c] \in {"wake", "notify"}
    BY <1>0, <1>2 DEF PopResume, Draws, WakePoster, Steal, Give, Notify, DrainOne, From, chanVars
  <2>2. \A d \in Ctx : InList(d)' <=> InList(d)
    BY <1>0, <2>1 DEF InList, listVars
  <2>3. Linked' /\ NoCycle'
    BY <1>0, <2>1 DEF InList, Linked, NoCycle, listVars
  <2>4. ASSUME NEW d \in Ctx \ {c} PROVE InTurn(d)'
    <3>1. Untouched(d)
      BY <1>0, <2>1, <2>2 DEF Untouched, Same
    <3>2. QED  BY <1>1, <3>1, UntouchedInTurn DEF CallInv
  <2>5. InTurn(c)'
    BY <1>0, <1>1, <2>1, <2>2
    DEF InTurn, ChanPlace, InQueue, InHand, Asleep, Queuing, Moved, ChanRunningPC, TryPC, LookPC,
        AgainPC, ResultPC
  <2>6. QED  BY <2>3, <2>4, <2>5
<1>3. CASE head_[l] # None
  <2>0. PICK h \in Ctx : h = head_[l]
    BY <1>0, <1>3 DEF ListType
  <2>1. /\ InList(h) /\ on[h] = l /\ Linked' /\ NoCycle'
        /\ \A d \in Ctx : InList(d)' <=> InList(d) /\ d # h
        /\ status' = [status EXCEPT ![h] = TryResume(status[h]).to]
        /\ h = c => pc[c] \in {"notify", "drain"} /\ Queuing(c)
        /\ pc[c] = "steal" => Moves(h, c)
        /\ pc[c] = "give" => Moves(c, h)
        /\ unpack_' = IF pc[c] \in {"steal", "give"} THEN [unpack_ EXCEPT ![h] = TRUE] ELSE unpack_
        /\ pc[c] \notin {"steal", "give"} => val' = val
    BY <2>0, DrawHead
  <2>2. /\ Queuing(h) /\ ~Moved(h) /\ ~unpack_[h] /\ InTurn(h)
        /\ \/ pc[h] \in AgainPC \cup {"drain", "sw"} /\ status[h] \in Unresumed
           \/ pc[h] = "parked" /\ status[h] \in AsleepStatus
           \/ pc[h] \in {"parked", "remove"} /\ status[h] = "Ready_Reset_Reset"
    BY <2>1, ListedFacts DEF CallInv
  <2>3. /\ status[h] \in Unresumed => status'[h] \in InCallback \ Unresumed
        /\ status[h] \in AsleepStatus => status'[h] \in ParkedStatus \ AsleepStatus
        /\ status[h] = "Ready_Reset_Reset" => status'[h] = status[h]
    BY <2>1, DrawStatus
  <2>4. ASSUME NEW d \in Ctx \ {c, h} PROVE InTurn(d)'
    <3>1. val'[d] = val[d] /\ unpack_'[d] = unpack_[d]
      BY <2>1 DEF Moves
    <3>2. Untouched(d)
      BY <1>0, <2>1, <3>1 DEF Untouched, Same
    <3>3. QED  BY <1>1, <3>2, UntouchedInTurn DEF CallInv
  <2>5. InTurn(h)'
    <3>1. /\ on'[h] = on[h] /\ timed_out'[h] = timed_out[h] /\ stop_' = stop_ /\ ~InList(h)'
          /\ pc'[h] = pc[h] \/ (pc[h] = "notify" /\ pc'[h] = "sw")
      BY <1>0, <2>1, <2>2
    <3>2. ChanPlace(h)' /\ InQueue(h)'
      BY <2>2, <2>3, <3>1
      DEF InTurn, ChanPlace, InQueue, Asleep, ChanRunningPC, TryPC, ResultPC, AgainPC, Unresumed,
          InCallback, AsleepStatus, ParkedStatus
    <3>3. unpack_'[h] <=> Moved(h)'
      <4>1. CASE pc[c] \notin {"steal", "give"}
        BY <2>1, <2>2, <3>1, <4>1 DEF Moved
      <4>2. CASE pc[c] = "steal"
        <5>1. on[h] = PostQue /\ h # c
          BY <1>0, <1>1, <2>1, <4>2 DEF InTurn, ChanPlace, Other
        <5>2. QED  BY <2>1, <3>1, <4>2, <5>1 DEF Moves, Moved
      <4>3. CASE pc[c] = "give"
        <5>1. on[h] = WaitQue /\ h # c /\ on[c] = PostQue
          BY <1>0, <1>1, <2>1, <4>3 DEF InTurn, ChanPlace, Other
        <5>2. val[c] # None
          BY <1>1, <4>3, <5>1 DEF InTurn, InHand, Moved
        <5>3. QED  BY <2>1, <3>1, <4>3, <5>1, <5>2 DEF Moves, Moved
      <4>4. QED  BY <4>1, <4>2, <4>3
    <3>4. Queuing(h)'
      BY <2>2, <2>3, <3>1 DEF Queuing, AgainPC, InCallback, Unresumed
    <3>5. InHand(h)'
      BY <2>2, <3>1, <3>3, <3>4
      DEF InHand, Queuing, AgainPC, LookPC, ResultPC, Unresumed, AsleepStatus
    <3>6. QED  BY <3>2, <3>5 DEF InTurn
  <2>6. ASSUME h # c PROVE InTurn(c)'
    <3>1. on'[c] = on[c] /\ status'[c] = status[c] /\ timed_out'[c] = timed_out[c]
          /\ stop_' = stop_ /\ (InList(c)' <=> InList(c))
      BY <1>0, <2>1, <2>6
    <3>2. CASE pc[c] \in {"notify", "drain"}
      <4>1. val'[c] = val[c] /\ unpack_'[c] = unpack_[c] /\ pc'[c] \in {"sw", "drain"}
            /\ (pc[c] = "drain" <=> pc'[c] = "drain")
        BY <1>0, <2>1, <3>2
      <4>2. QED
        BY <1>1, <3>1, <3>2, <4>1
        DEF InTurn, ChanPlace, InQueue, InHand, Asleep, Queuing, Moved, ChanRunningPC, TryPC,
            LookPC, AgainPC, ResultPC
    <3>3. CASE pc[c] \in {"wake", "steal", "give"}
      <4>1. pc'[c] = "done"
        BY <1>0, <3>3
      <4>2. Moved(c)'
        <5>1. CASE pc[c] = "wake"
          BY <1>1, <2>1, <3>1, <5>1 DEF InTurn, InHand, Moved
        <5>2. CASE pc[c] = "steal"
          <6>1. on[c] = WaitQue /\ on[h] = PostQue
            BY <1>0, <1>1, <2>1, <5>2 DEF InTurn, ChanPlace, Other
          <6>2. val[h] # None /\ Moves(h, c)
            BY <1>0, <2>1, <2>2, <5>2, <6>1 DEF Moved
          <6>3. QED  BY <2>6, <3>1, <6>1, <6>2 DEF Moved, Moves
        <5>3. CASE pc[c] = "give"
          <6>1. on[c] = PostQue /\ Moves(c, h)
            BY <1>1, <2>1, <5>3 DEF InTurn, ChanPlace
          <6>2. QED  BY <2>6, <3>1, <6>1 DEF Moved, Moves
        <5>4. QED  BY <3>3, <5>1, <5>2, <5>3
      <4>3. QED
        BY <1>1, <3>1, <3>3, <4>1, <4>2
        DEF InTurn, ChanPlace, InQueue, InHand, Asleep, Queuing, ChanRunningPC, TryPC,
            LookPC, AgainPC, ResultPC
    <3>4. QED  BY <1>0, <3>2, <3>3 DEF DrawPC
  <2>7. QED  BY <2>1, <2>4, <2>5, <2>6
<1>4. QED  BY <1>2, <1>3

------------------------------------------------------------------------------
(* The channel: the values *)

\* The slots between the indices are the filled ones, and a value that is in play is
\* in one hand or in one slot.
Ring ==
  /\ full_ => bhead_ = btail_
  /\ \A i \in Slot : i \in Filled <=> buffer_[i] # None
  /\ \A c \in Ctx : val[c] # None => val[c] \in inplay
  /\ \A i \in Slot : buffer_[i] # None => buffer_[i] \in inplay
  /\ \A c, d \in Ctx : val[c] = val[d] /\ val[c] # None => c = d
  /\ \A i, j \in Slot : buffer_[i] = buffer_[j] /\ buffer_[i] # None => i = j
  /\ \A c \in Ctx, i \in Slot : val[c] # None => buffer_[i] # val[c]
  /\ \A v \in inplay : (\E c \in Ctx : val[c] = v) \/ \E i \in Slot : buffer_[i] = v

LEMMA FilledPush ==
  ASSUME ChannelTypeOK, full_ => bhead_ = btail_, ~Full, NEW v \in Val, BufPush(v)
  PROVE  /\ btail_ \in Slot /\ btail_ \notin Filled
         /\ full_' => bhead_' = btail_'
         /\ \A i \in Slot : i \in Filled' <=> i \in Filled \/ i = btail_
<1>1. N \in Nat /\ bhead_ \in Slot /\ btail_ \in Slot /\ N > 0
  BY ChannelAssumption DEF ChannelTypeOK, Full, Slot
<1>2. /\ bhead_' = bhead_ /\ btail_' = (IF btail_ + 1 = N THEN 0 ELSE btail_ + 1)
      /\ full_' <=> btail_' = bhead_
  BY <1>1, SlotNext DEF BufPush
<1>3. ~full_
  BY DEF Full
<1>4. \A i \in Slot : i \in Filled <=>
        /\ bhead_ # btail_
        /\ IF bhead_ < btail_ THEN bhead_ <= i /\ i < btail_ ELSE bhead_ <= i \/ i < btail_
  BY <1>1, <1>3 DEF Filled, Empty
<1>5. \A i \in Slot : i \in Filled' <=>
        IF bhead_' < btail_' THEN bhead_' <= i /\ i < btail_' ELSE bhead_' <= i \/ i < btail_'
  BY <1>1, <1>2 DEF Filled, Empty
<1>6. \A i \in Slot : i \in Filled' <=> i \in Filled \/ i = btail_
  BY <1>1, <1>2, <1>4, <1>5 DEF Slot
<1>7. btail_ \notin Filled
  BY <1>1, <1>4 DEF Slot
<1>8. QED  BY <1>1, <1>2, <1>6, <1>7

LEMMA FilledPop ==
  ASSUME ChannelTypeOK, full_ => bhead_ = btail_, ~Empty
  PROVE  /\ bhead_ \in Slot /\ bhead_ \in Filled
         /\ BufPop => ~full_' /\ \A i \in Slot : i \in Filled' <=> i \in Filled /\ i # bhead_
<1>1. N \in Nat /\ bhead_ \in Slot /\ btail_ \in Slot /\ N > 0
  BY ChannelAssumption DEF ChannelTypeOK, Empty, Slot
<1>2. \A i \in Slot : i \in Filled <=>
        IF bhead_ < btail_ THEN bhead_ <= i /\ i < btail_ ELSE bhead_ <= i \/ i < btail_
  BY <1>1 DEF Filled
<1>3. bhead_ \in Filled
  BY <1>1, <1>2 DEF Slot
<1>4. ASSUME BufPop
      PROVE  ~full_' /\ \A i \in Slot : i \in Filled' <=> i \in Filled /\ i # bhead_
  <2>1. /\ btail_' = btail_ /\ bhead_' = (IF bhead_ + 1 = N THEN 0 ELSE bhead_ + 1)
        /\ full_' = FALSE
    BY <1>1, <1>4, SlotNext DEF BufPop
  <2>2. \A i \in Slot : i \in Filled' <=>
          /\ bhead_' # btail_'
          /\ IF bhead_' < btail_' THEN bhead_' <= i /\ i < btail_'
             ELSE bhead_' <= i \/ i < btail_'
    BY <1>1, <2>1 DEF Filled, Empty
  <2>3. bhead_ # btail_ \/ full_
    BY <1>1 DEF Empty
  <2>4. QED  BY <1>1, <1>2, <2>1, <2>2, <2>3 DEF Slot
<1>5. QED  BY <1>1, <1>3, <1>4

\* A value changes hands.
LEMMA RingMoves ==
  ASSUME CallInv, Ring, NEW c \in Ctx, NEW d \in Ctx, c # d, val[d] = None, Moves(c, d),
         UNCHANGED <<bufVars, inplay>>
  PROVE  Ring'
<1>1. \A e \in Ctx : val'[e] = IF e = d THEN val[c] ELSE IF e = c THEN None ELSE val[e]
  BY CallFacts DEF Moves
<1>2. /\ buffer_' = buffer_ /\ bhead_' = bhead_ /\ btail_' = btail_ /\ full_' = full_
      /\ inplay' = inplay /\ Filled' = Filled
  BY DEF bufVars, Filled, Empty
<1>3. \A v \in inplay : (\E e \in Ctx : val'[e] = v) \/ \E i \in Slot : buffer_[i] = v
  <2> SUFFICES ASSUME NEW v \in inplay, NEW e \in Ctx, val[e] = v
               PROVE  \E x \in Ctx : val'[x] = v
    BY DEF Ring
  <2>1. v # None
    BY ChannelAssumption DEF CallInv, ChannelTypeOK
  <2>2. CASE e = c
    BY <1>1, <2>2
  <2>3. CASE e # c
    BY <1>1, <2>1, <2>3
  <2>4. QED  BY <2>2, <2>3
<1>4. /\ \A e \in Ctx : val'[e] # None => val'[e] \in inplay
      /\ \A x, y \in Ctx : val'[x] = val'[y] /\ val'[x] # None => x = y
      /\ \A e \in Ctx, i \in Slot : val'[e] # None => buffer_[i] # val'[e]
  BY <1>1 DEF Ring
<1>5. QED  BY <1>2, <1>3, <1>4 DEF Ring

LEMMA RingTake ==
  ASSUME CallInv, Ring, NEW c \in Ctx, Take(c), ~Empty
  PROVE  Ring'
<1>0. PICK h \in Slot : h = bhead_ /\ h \in Filled
  BY FilledPop DEF CallInv, Ring
<1>1. BufPop /\ val' = [val EXCEPT ![c] = buffer_[h]] /\ inplay' = inplay
  BY <1>0 DEF Take
<1>2. /\ ~full_' /\ \A i \in Slot : i \in Filled' <=> i \in Filled /\ i # h
      /\ \A i \in Slot : buffer_'[i] = IF i = h THEN None ELSE buffer_[i]
  BY <1>0, <1>1, FilledPop DEF CallInv, Ring, BufPop, ChannelTypeOK
<1>3. buffer_[h] # None /\ val[c] = None
  <2>1. pc[c] = "take" /\ InTurn(c)
    BY DEF Take, Move, From, CallInv
  <2>2. QED  BY <1>0, <2>1 DEF Ring, InTurn, ChanPlace, InHand, Moved
<1>4. \A e \in Ctx : val'[e] = IF e = c THEN buffer_[h] ELSE val[e]
  BY <1>1, CallFacts
<1>5. /\ \A i \in Slot : i \in Filled' <=> buffer_'[i] # None
      /\ \A e \in Ctx : val'[e] # None => val'[e] \in inplay
      /\ \A i \in Slot : buffer_'[i] # None => buffer_'[i] \in inplay
      /\ \A x, y \in Ctx : val'[x] = val'[y] /\ val'[x] # None => x = y
      /\ \A i, j \in Slot : buffer_'[i] = buffer_'[j] /\ buffer_'[i] # None => i = j
      /\ \A e \in Ctx, i \in Slot : val'[e] # None => buffer_'[i] # val'[e]
  BY <1>0, <1>2, <1>3, <1>4 DEF Ring
<1>6. ASSUME NEW v \in inplay
      PROVE  (\E e \in Ctx : val'[e] = v) \/ \E i \in Slot : buffer_'[i] = v
  <2>0. v # None
    BY ChannelAssumption DEF CallInv, ChannelTypeOK
  <2>1. ASSUME NEW e \in Ctx, val[e] = v PROVE val'[e] = v
    BY <1>3, <1>4, <2>0, <2>1
  <2>2. ASSUME NEW i \in Slot, buffer_[i] = v PROVE buffer_'[i] = v \/ val'[c] = v
    BY <1>2, <1>4, <2>2
  <2>3. QED  BY <2>1, <2>2 DEF Ring
<1>7. QED  BY <1>1, <1>2, <1>5, <1>6 DEF Ring

LEMMA RingPut ==
  ASSUME CallInv, Ring, NEW c \in Ctx, Put(c), ~Full
  PROVE  Ring'
<1>1. BufPush(val[c]) /\ val' = [val EXCEPT ![c] = None] /\ inplay' = inplay
  BY DEF Put
<1>2. val[c] # None /\ val[c] \in Val
  <2>1. pc[c] = "put" /\ InTurn(c)
    BY DEF Put, Move, From, CallInv
  <2>2. val[c] # None
    BY <2>1, ChannelAssumption DEF InTurn, ChanPlace, InHand, Moved
  <2>3. QED  BY <2>2, CallFacts
<1>3. PICK t \in Slot : t = btail_ /\ t \notin Filled
  BY <1>1, <1>2, FilledPush DEF CallInv, Ring
<1>4. /\ full_' => bhead_' = btail_'
      /\ \A i \in Slot : i \in Filled' <=> i \in Filled \/ i = t
      /\ \A i \in Slot : buffer_'[i] = IF i = t THEN val[c] ELSE buffer_[i]
  BY <1>1, <1>2, <1>3, FilledPush DEF CallInv, Ring, BufPush, ChannelTypeOK
<1>5. \A e \in Ctx : val'[e] = IF e = c THEN None ELSE val[e]
  BY <1>1, CallFacts
<1>6. /\ \A i \in Slot : i \in Filled' <=> buffer_'[i] # None
      /\ \A e \in Ctx : val'[e] # None => val'[e] \in inplay
      /\ \A i \in Slot : buffer_'[i] # None => buffer_'[i] \in inplay
      /\ \A x, y \in Ctx : val'[x] = val'[y] /\ val'[x] # None => x = y
      /\ \A i, j \in Slot : buffer_'[i] = buffer_'[j] /\ buffer_'[i] # None => i = j
      /\ \A e \in Ctx, i \in Slot : val'[e] # None => buffer_'[i] # val'[e]
  BY <1>2, <1>3, <1>4, <1>5 DEF Ring
<1>7. ASSUME NEW v \in inplay
      PROVE  (\E e \in Ctx : val'[e] = v) \/ \E i \in Slot : buffer_'[i] = v
  <2>0. v # None /\ buffer_[t] = None
    BY <1>3, ChannelAssumption DEF CallInv, ChannelTypeOK, Ring
  <2>1. ASSUME NEW e \in Ctx, val[e] = v PROVE val'[e] = v \/ buffer_'[t] = v
    BY <1>4, <1>5, <2>1
  <2>2. ASSUME NEW i \in Slot, buffer_[i] = v PROVE buffer_'[i] = v
    BY <1>4, <2>0, <2>2
  <2>3. QED  BY <2>1, <2>2 DEF Ring
<1>8. QED  BY <1>1, <1>4, <1>6, <1>7 DEF Ring

\* A value comes into play with post, and goes when a call returns with it.
LEMMA RingPost ==
  ASSUME CallInv, Ring, NEW c \in Ctx, NEW v \in Val, post(c, v)
  PROVE  Ring'
<1>1. /\ inplay' = inplay \cup {v} /\ v \notin inplay /\ v # None
      /\ UNCHANGED bufVars /\ Filled' = Filled
      /\ \A e \in Ctx : val'[e] = IF e = c THEN v ELSE val[e]
  BY CallFacts, ChannelAssumption DEF post, bufVars, Filled, Empty
<1>2. val[c] = None
  <2>1. pc[c] = "out" /\ InTurn(c)
    BY DEF post, Move, From, CallInv
  <2>2. QED  BY <2>1 DEF InTurn, InHand, Queuing, AgainPC
<1>3. \A w \in inplay' : (\E e \in Ctx : val'[e] = w) \/ \E i \in Slot : buffer_[i] = w
  <2>1. \A w \in inplay : w # None
    BY ChannelAssumption DEF CallInv, ChannelTypeOK
  <2>2. QED  BY <1>1, <1>2, <2>1 DEF Ring
<1>4. QED  BY <1>1, <1>2, <1>3 DEF Ring, bufVars

LEMMA RingReturn ==
  ASSUME CallInv, Ring, NEW c \in Ctx, Return(c)
  PROVE  Ring'
<1>1. /\ inplay' = inplay \ {val[c]}
      /\ UNCHANGED bufVars /\ Filled' = Filled
      /\ \A e \in Ctx : val'[e] = IF e = c THEN None ELSE val[e]
  BY CallFacts DEF Return, bufVars, Filled, Empty
<1>2. \A w \in inplay' : (\E e \in Ctx : val'[e] = w) \/ \E i \in Slot : buffer_[i] = w
  BY <1>1 DEF Ring
<1>3. QED  BY <1>1, <1>2 DEF Ring, bufVars

LEMMA RingPreserved ==
  ASSUME CallInv, Ring, NEW c \in Ctx, UserCall(c) \/ Step(c)
  PROVE  Ring'
<1>1. CASE UNCHANGED <<bufVars, val, inplay>>
  BY <1>1 DEF Ring, Filled, Empty, bufVars
<1>2. CASE Take(c) \/ Put(c)
  <2>1. CASE (Take(c) /\ Empty) \/ (Put(c) /\ Full)
    BY <1>1, <2>1 DEF Take, Put
  <2>2. CASE (Take(c) /\ ~Empty) \/ (Put(c) /\ ~Full)
    BY <2>2, RingTake, RingPut
  <2>3. QED  BY <1>2, <2>1, <2>2
<1>3. CASE Steal(c) \/ Give(c)
  <2>1. CASE UNCHANGED val
    BY <1>1, <1>3, <2>1 DEF Steal, Give
  <2>2. CASE ~UNCHANGED val
    <3>1. PICK l \in {WaitQue, PostQue} : Draws(c, l) /\ head_[l] # None
      BY <1>3, <2>2 DEF Steal, Give, Draws
    <3>2. PICK h \in Ctx : h = head_[l]
      BY <3>1, CallFacts, ChannelAssumption DEF ListType
    <3>3. pc[c] \in {"steal", "give"} /\ UNCHANGED <<bufVars, inplay>>
      BY <1>3 DEF Steal, Give, Move, From
    <3>4. /\ InList(h) /\ on[h] = l
          /\ h = c => pc[c] \in {"notify", "drain"}
          /\ pc[c] = "steal" => Moves(h, c)
          /\ pc[c] = "give" => Moves(c, h)
      BY <3>1, <3>2, DrawHead
    <3>5. ~Moved(h) /\ InTurn(c) /\ l = Other(on[c])
      BY <3>1, <3>3, <3>4, ListedFacts, DrawMove DEF CallInv
    <3>6. CASE pc[c] = "steal"
      <4>1. val[c] = None
        BY <3>5, <3>6 DEF InTurn, ChanPlace, InHand, Moved
      <4>2. QED  BY <3>3, <3>4, <3>6, <4>1, RingMoves
    <3>7. CASE pc[c] = "give"
      <4>1. val[h] = None
        BY <3>4, <3>5, <3>7, ChannelAssumption DEF InTurn, ChanPlace, Other, Moved
      <4>2. QED  BY <3>3, <3>4, <3>7, <4>1, RingMoves
    <3>8. QED  BY <3>3, <3>6, <3>7
  <2>3. QED  BY <2>1, <2>2
<1>4. CASE Return(c) \/ \E v \in Val : post(c, v)
  BY <1>4, RingReturn, RingPost
<1>5. QED
  BY <1>1, <1>2, <1>3, <1>4
  DEF UserCall, Step, WakePoster, Enter, LookBuf, LookQue, LookStop, Enqueue, AgainStop,
      AgainBuf, AgainQue, Notify, Woken, TimedOut, Stop, DrainOne, Drained, wait, close, chanVars

------------------------------------------------------------------------------
(* The channel: the two queues *)

\* Who has queued itself in l and will look again, or resume a node of l.
Looking(l) ==
  {c \in Ctx : /\ on[c] = l
               /\ pc[c] \in AgainPC \/ (pc[c] = "drain" /\ status[c] # "Ready_Reset_Reset")}

\* Each node in l has somebody who looks; this is so of one queue at any time.
Side(l) == Cardinality(Queued(l)) <= Cardinality(Looking(l))

Sides == Side(WaitQue) \/ Side(PostQue)

LEMMA SideEmpty ==
  ASSUME NEW l, Queued(l) = {} PROVE Side(l)
BY CountNone DEF Side, Looking

LEMMA SideAlone ==
  ASSUME NEW c \in Ctx, \A d \in Ctx \ {c} : Untouched(d), NEW l, Side(l),
         c \in Queued(l)' => c \in Queued(l) \/ (c \notin Looking(l) /\ c \in Looking(l)'),
         c \in Looking(l) => c \in Looking(l)'
  PROVE  Side(l)'
<1>1. PICK Q, L, Q1, L1 \in SUBSET Ctx :
        Q = Queued(l) /\ L = Looking(l) /\ Q1 = Queued(l)' /\ L1 = Looking(l)'
  BY DEF Queued, Looking
<1>2. Q \ {c} = Q1 \ {c} /\ L \ {c} = L1 \ {c}
  BY <1>1 DEF Untouched, Same, Queued, Looking
<1>3. /\ Cardinality(Q) \in Nat /\ Cardinality(Q1) \in Nat
      /\ Cardinality(Q1) = Cardinality(Q) + One(c \in Q1) - One(c \in Q)
  BY <1>2, CountOne
<1>4. /\ Cardinality(L) \in Nat /\ Cardinality(L1) \in Nat
      /\ Cardinality(L1) = Cardinality(L) + One(c \in L1) - One(c \in L)
  BY <1>2, CountOne
<1>5. /\ c \in Q1 => c \in Q \/ (c \notin L /\ c \in L1)
      /\ c \in L => c \in L1
      /\ Cardinality(Q) <= Cardinality(L)
  BY <1>1 DEF Side
<1>6. Cardinality(Q1) <= Cardinality(L1)
  BY <1>3, <1>4, <1>5 DEF One
<1>7. QED  BY <1>1, <1>6 DEF Side

LEMMA SideDraw ==
  ASSUME CallInv, NEW c \in Ctx, NEW l \in {WaitQue, PostQue, on[c]}, Draws(c, l),
         NEW o \in Queues, Side(o)
  PROVE  Side(o)'
<1> USE CallFacts
<1>0. /\ l \in List /\ on' = on /\ PopResume(l)
      /\ pc[c] \in DrawPC /\ \A d \in Ctx \ {c} : pc'[d] = pc[d]
      /\ pc[c] \in {"notify", "drain"} => l = on[c]
      /\ pc[c] \in {"wake", "steal", "give"} => pc'[c] = "done"
  BY DrawMove
<1>1. CASE head_[l] = None
  <2>1. UNCHANGED <<listVars, status, on>>
    BY <1>0, <1>1 DEF PopResume
  <2>2. Queued(l) = {} /\ Queued(o)' = Queued(o)
    BY <1>1, <1>0, <2>1, QueuedListed DEF Queued, InList, listVars
  <2>3. CASE o = l
    <3>1. Queued(o)' = {}
      BY <2>2, <2>3
    <3>2. PICK L1 \in SUBSET Ctx : L1 = Looking(o)'
      BY DEF Looking
    <3>3. Cardinality(Queued(o)') = 0 /\ Cardinality(L1) \in Nat
      BY <3>1, CountNone
    <3>4. QED  BY <3>2, <3>3 DEF Side
  <2>4. CASE o # l
    <3>1. Looking(o)' = Looking(o)
      BY <1>0, <2>1, <2>4 DEF Looking, DrawPC, AgainPC
    <3>2. QED  BY <2>2, <3>1 DEF Side
  <2>5. QED  BY <2>3, <2>4
<1>2. CASE head_[l] # None
  <2>0. PICK h \in Ctx : h = head_[l]
    BY <1>0, <1>2 DEF ListType
  <2>1. /\ InList(h) /\ on[h] = l
        /\ \A d \in Ctx : InList(d)' <=> InList(d) /\ d # h
        /\ status' = [status EXCEPT ![h] = TryResume(status[h]).to]
    BY <2>0, DrawHead
  <2>2. pc[h] = "drain" => status'[h] # "Ready_Reset_Reset"
    <3>1. pc[h] = "drain" => status[h] \in Unresumed
      BY <2>1, ListedFacts
    <3>2. status[h] \in Unresumed => status'[h] \in InCallback
      BY <2>1, DrawStatus
    <3>3. QED  BY <3>1, <3>2 DEF InCallback, Unresumed
  <2>3. PICK Q, L, Q1, L1 \in SUBSET Ctx :
          Q = Queued(o) /\ L = Looking(o) /\ Q1 = Queued(o)' /\ L1 = Looking(o)'
    BY DEF Queued, Looking
  <2>4. L \ {c} \subseteq L1
    BY <1>0, <2>1, <2>2, <2>3 DEF Looking
  <2>5. CASE o # l
    <3>1. Q1 = Q
      BY <1>0, <2>1, <2>3, <2>5 DEF Queued
    <3>2. c \notin L
      BY <1>0, <2>3, <2>5 DEF Looking, DrawPC, AgainPC
    <3>3. L \in SUBSET L1
      BY <2>4, <3>2
    <3>4. Cardinality(L) <= Cardinality(L1)
      BY <3>3, CountFewer
    <3>5. /\ Cardinality(Q) \in Nat /\ Cardinality(L) \in Nat /\ Cardinality(L1) \in Nat
          /\ Cardinality(Q) <= Cardinality(L)
      BY <2>3, CountNone DEF Side
    <3>6. Cardinality(Q1) <= Cardinality(L1)
      BY <3>1, <3>4, <3>5
    <3>7. QED  BY <2>3, <3>6 DEF Side
  <2>6. CASE o = l
    <3>1. Q1 = Q \ {h} /\ h \in Q
      BY <1>0, <2>1, <2>3, <2>6 DEF Queued
    <3>2. /\ Cardinality(Q) \in Nat /\ Cardinality(Q1) \in Nat
          /\ Cardinality(Q1) = Cardinality(Q) + One(h \in Q1) - One(h \in Q)
      BY <3>1, CountOne
    <3>3. /\ Cardinality(L) \in Nat /\ Cardinality(L \ {c}) \in Nat
          /\ Cardinality(L \ {c}) = Cardinality(L) + One(c \in L \ {c}) - One(c \in L)
      <4>1. L \ {c} \in SUBSET Ctx /\ L \ {c} = (L \ {c}) \ {c}
        OBVIOUS
      <4>2. QED  BY <4>1, CountOne
    <3>4. Cardinality(L \ {c}) <= Cardinality(L1) /\ Cardinality(L1) \in Nat
      BY <2>4, CountFewer, CountNone
    <3>5. Cardinality(Q) <= Cardinality(L)
      BY <2>3 DEF Side
    <3>6. Cardinality(Q1) <= Cardinality(L1)
      BY <3>1, <3>2, <3>3, <3>4, <3>5 DEF One
    <3>7. QED  BY <2>3, <3>6 DEF Side
  <2>7. QED  BY <2>5, <2>6
<1>3. QED  BY <1>1, <1>2

LEMMA WalkQueued ==
  ASSUME CallInv, NEW c \in Ctx, Walks(c), NEW l
  PROVE  Queued(l)' = Queued(l)
<1>1. \A d \in Ctx : (InList(d)' <=> InList(d)) /\ (on'[d] = on[d] \/ ~InList(d))
  BY WalkApart DEF Untouched, Same
<1>2. QED  BY <1>1 DEF Queued

\* Nobody stops looking, but for who finds the other queue empty, or its own.
LEMMA WalkLooking ==
  ASSUME CallInv, NEW c \in Ctx, Walks(c), NEW o \in Queues, c \in Looking(o)
  PROVE  \/ c \in Looking(o)'
         \/ head_[Other(o)] = None \/ head_[o] = None
<1> USE CallFacts
<1>1. /\ on[c] = o
      /\ pc[c] \in AgainPC \/ (pc[c] = "drain" /\ status[c] # "Ready_Reset_Reset")
      /\ InTurn(c)
  BY DEF Looking, CallInv
<1>2. CASE AgainQue(c)
  BY <1>1, <1>2 DEF AgainQue, QueReady, Move, From, Looking, AgainPC
<1>3. CASE Drained(c)
  BY <1>1, <1>3 DEF Drained
<1>4. CASE AgainStop(c) \/ AgainBuf(c)
  <2>1. /\ UNCHANGED <<status, on>> /\ pc[c] \in AgainPC
        /\ pc'[c] \in AgainPC \/ pc'[c] = "drain"
    BY <1>4 DEF AgainStop, AgainBuf, Move, From, AgainPC
  <2>2. status[c] # "Ready_Reset_Reset"
    BY <1>1, <2>1 DEF InTurn, ChanPlace, InCallback, Unresumed
  <2>3. QED  BY <1>1, <2>1, <2>2 DEF Looking
<1>5. CASE ~(AgainQue(c) \/ Drained(c) \/ AgainStop(c) \/ AgainBuf(c))
  <2>1. pc[c] \notin AgainPC \cup {"drain"}
    BY <1>5
    DEF Walks, Take, Put, Enter, LookBuf, LookQue, LookStop, Look, Woken, Stop, Return, wait,
        close, post, Steal, Give, Move, SuspendSelf, Suspend, ParkStep, SchedStep, Switch,
        SleepAdd, SleepTimeout, SleepRemove, Run, From, AgainPC, ResultPC
  <2>2. QED  BY <1>1, <2>1
<1>6. QED  BY <1>2, <1>3, <1>4, <1>5

LEMMA SidesPreserved ==
  ASSUME CallInv, Sides, NEW c \in Ctx, UserCall(c) \/ Step(c)
  PROVE  Sides'
<1> USE CallFacts, ChannelAssumption
<1>0. PICK o \in Queues : Side(o)
  BY DEF Sides, Queues
<1>1. SUFFICES \E l \in Queues : Side(l)'
  BY DEF Sides, Queues
<1>2. CASE Enqueue(c)
  <2>1. /\ \A d \in Ctx \ {c} : Untouched(d)
        /\ pc[c] = "push" /\ pc'[c] = "again_stop" /\ on' = on
    BY <1>2, EnqueueInTurn DEF Enqueue, PushSelf, From
  <2>2. c \notin Looking(o) /\ (c \in Queued(o)' => c \in Looking(o)')
    BY <2>1 DEF Looking, Queued, AgainPC
  <2>3. QED  BY <1>0, <2>1, <2>2, SideAlone
<1>3. CASE TimedOut(c)
  <2>1. /\ \A d \in Ctx \ {c} : Untouched(d)
        /\ pc[c] = "remove" /\ ~InList(c)'
    BY <1>3, TimedOutInTurn DEF TimedOut, RemoveSelf, From
  <2>2. c \notin Looking(o) /\ c \notin Queued(o)'
    BY <2>1 DEF Looking, Queued, AgainPC
  <2>3. QED  BY <1>0, <2>1, <2>2, SideAlone
<1>4. CASE \E l \in {WaitQue, PostQue, on[c]} : Draws(c, l)
  BY <1>0, <1>4, SideDraw
<1>5. CASE Walks(c)
  <2>1. CASE c \in Looking(o) => c \in Looking(o)'
    <3>1. Queued(o)' = Queued(o) /\ \A d \in Ctx \ {c} : Untouched(d)
      BY <1>5, WalkQueued, WalkApart
    <3>2. QED  BY <1>0, <2>1, <3>1, SideAlone
  <2>2. CASE ~(c \in Looking(o) => c \in Looking(o)')
    <3>1. PICK l \in Queues : head_[l] = None
      BY <1>5, <2>2, WalkLooking DEF Other, Queues
    <3>2. Queued(l) = {}
      BY <3>1, QueuedListed DEF Queues
    <3>3. Queued(l)' = {}
      BY <1>5, <3>2, WalkQueued
    <3>4. PICK L1 \in SUBSET Ctx : L1 = Looking(l)'
      BY DEF Looking
    <3>5. Cardinality(Queued(l)') = 0 /\ Cardinality(L1) \in Nat
      BY <3>3, CountNone
    <3>6. QED  BY <3>4, <3>5 DEF Side
  <2>3. QED  BY <2>1, <2>2
<1>6. QED  BY <1>2, <1>3, <1>4, <1>5, ChannelSteps

------------------------------------------------------------------------------
(* The channel: close *)

\* Whoever is left in a queue that was closed is found by close, or by a waiter's
\* second look at stop_.
Closing ==
  \A l \in Queues :
    stop_[l] /\ Queued(l) # {} => \E c \in Ctx : on[c] = l /\ pc[c] \in {"drain", "again_stop"}

LEMMA ClosingPreserved ==
  ASSUME CallInv, Closing, NEW c \in Ctx, UserCall(c) \/ Step(c)
  PROVE  Closing'
<1> USE CallFacts, ChannelAssumption
<1> SUFFICES ASSUME NEW l \in Queues, stop_'[l], Queued(l)' # {}
             PROVE  \E d \in Ctx : on'[d] = l /\ pc'[d] \in {"drain", "again_stop"}
  BY DEF Closing
<1>1. CASE Enqueue(c)
  <2>1. /\ \A d \in Ctx \ {c} : Untouched(d)
        /\ pc'[c] = "again_stop" /\ pc[c] = "push" /\ on' = on /\ stop_' = stop_
    BY <1>1, EnqueueInTurn DEF Enqueue, PushSelf, From, chanVars
  <2>2. CASE on[c] = l
    BY <2>1, <2>2
  <2>3. CASE on[c] # l
    <3>1. Queued(l) # {}
      BY <2>1, <2>3 DEF Queued, Untouched, Same
    <3>2. PICK d \in Ctx : on[d] = l /\ pc[d] \in {"drain", "again_stop"}
      BY <2>1, <3>1 DEF Closing
    <3>3. d # c
      BY <2>1, <3>2
    <3>4. QED  BY <2>1, <3>2, <3>3 DEF Untouched, Same
  <2>4. QED  BY <2>2, <2>3
<1>2. CASE TimedOut(c)
  <2>1. /\ \A d \in Ctx \ {c} : Untouched(d)
        /\ \A d \in Ctx : InList(d)' <=> InList(d) /\ d # c
        /\ pc[c] = "remove" /\ on' = on /\ stop_' = stop_
    BY <1>2, TimedOutInTurn DEF TimedOut, RemoveSelf, From, chanVars
  <2>2. Queued(l) # {}
    BY <2>1 DEF Queued
  <2>3. PICK d \in Ctx : on[d] = l /\ pc[d] \in {"drain", "again_stop"}
    BY <2>1, <2>2 DEF Closing
  <2>4. QED  BY <2>1, <2>3 DEF Untouched, Same
<1>3. CASE \E o \in {WaitQue, PostQue, on[c]} : Draws(c, o)
  <2>0. PICK o \in {WaitQue, PostQue, on[c]} : Draws(c, o)
    BY <1>3
  <2>1. /\ on' = on /\ stop_' = stop_ /\ PopResume(o) /\ o \in List
        /\ pc[c] \in DrawPC /\ \A d \in Ctx \ {c} : pc'[d] = pc[d]
        /\ pc[c] = "drain" => pc'[c] = "drain"
    BY <2>0, DrawMove
  <2>2. Queued(l)' \subseteq Queued(l)
    <3>1. CASE head_[o] = None
      BY <2>1, <3>1 DEF PopResume, Queued, InList, listVars
    <3>2. CASE head_[o] # None
      <4>1. PICK h \in Ctx : h = head_[o]
        BY <2>1, <3>2 DEF ListType
      <4>2. \A d \in Ctx : InList(d)' <=> InList(d) /\ d # h
        BY <2>0, <4>1, DrawHead
      <4>3. QED  BY <2>1, <4>2 DEF Queued
    <3>3. QED  BY <3>1, <3>2
  <2>3. PICK d \in Ctx : on[d] = l /\ pc[d] \in {"drain", "again_stop"}
    BY <2>1, <2>2 DEF Closing
  <2>4. pc'[d] = pc[d]
    BY <2>1, <2>3 DEF DrawPC
  <2>5. QED  BY <2>1, <2>3, <2>4
<1>4. CASE Walks(c)
  <2>1. Queued(l)' = Queued(l) /\ \A d \in Ctx \ {c} : Untouched(d)
    BY <1>4, WalkQueued, WalkApart
  <2>2. CASE Stop(c)
    <3>1. pc'[c] = "drain" /\ on' = on /\ pc[c] = "close"
      BY <2>2 DEF Stop, Move, From
    <3>2. CASE on[c] = l
      BY <3>1, <3>2
    <3>3. CASE on[c] # l
      <4>1. stop_[l]
        BY <2>2, <3>3 DEF Stop
      <4>2. PICK d \in Ctx : on[d] = l /\ pc[d] \in {"drain", "again_stop"}
        BY <2>1, <4>1 DEF Closing
      <4>3. QED  BY <2>1, <3>1, <4>2 DEF Untouched, Same
    <3>4. QED  BY <3>2, <3>3
  <2>3. CASE ~Stop(c)
    <3>1. stop_' = stop_
      BY <1>4, <2>3
      DEF Walks, Take, Put, Enter, LookBuf, LookQue, LookStop, AgainStop, AgainBuf,
          AgainQue, Woken, Drained, Return, wait, close, post, Steal, Give, chanVars
    <3>2. PICK d \in Ctx : on[d] = l /\ pc[d] \in {"drain", "again_stop"}
      BY <2>1, <3>1 DEF Closing
    <3>3. CASE d # c
      BY <2>1, <3>2, <3>3 DEF Untouched, Same
    <3>4. CASE d = c
      <4>1. CASE AgainStop(c)
        <5>1. on' = on /\ pc'[c] = "drain"
          BY <3>1, <3>2, <3>4, <4>1 DEF AgainStop, Move, From
        <5>2. QED  BY <3>2, <3>4, <5>1
      <4>2. CASE Drained(c)
        <5>1. head_[l] = None
          BY <3>2, <3>4, <4>2 DEF Drained
        <5>2. Queued(l) = {}
          BY <5>1, QueuedListed DEF Queues
        <5>3. QED  BY <2>1, <5>2
      <4>3. CASE ~(AgainStop(c) \/ Drained(c))
        <5>1. pc[c] \notin {"drain", "again_stop"}
          BY <1>4, <2>3, <4>3
          DEF Walks, Take, Put, Enter, LookBuf, LookQue, LookStop, Look, Woken, Return, wait,
              AgainBuf, AgainQue, close, post, Steal, Give, Move, SuspendSelf, Suspend,
              ParkStep, SchedStep, Switch, SleepAdd, SleepTimeout, SleepRemove, Run, From,
              ResultPC
        <5>2. QED  BY <3>2, <3>4, <5>1
      <4>4. QED  BY <4>1, <4>2, <4>3
    <3>5. QED  BY <3>3, <3>4
  <2>4. QED  BY <2>2, <2>3
<1>5. QED  BY <1>1, <1>2, <1>3, <1>4, ChannelSteps

------------------------------------------------------------------------------
(* The channel: its invariants *)

ChanInv == CallInv /\ Ring /\ Sides /\ Closing

LEMMA CallPreserved ==
  ASSUME CallInv, Ring, NEW c \in Ctx, UserCall(c) \/ Step(c)
  PROVE  CallInv'
<1>1. ChannelTypeOK'
  BY CallFacts, ChannelTypePreserved DEF CallInv
<1>2. CASE Walks(c)
  <2>1. ~Empty => buffer_[bhead_] # None
    BY FilledPop DEF CallInv, Ring
  <2>2. InTurn(c)' /\ Linked' /\ NoCycle' /\ \A d \in Ctx \ {c} : Untouched(d)
    BY <1>2, <2>1, WalkInTurn, WalkApart
  <2>3. \A d \in Ctx \ {c} : InTurn(d)'
    BY <2>2, StopStays, UntouchedInTurn DEF CallInv
  <2>4. QED  BY <1>1, <2>2, <2>3 DEF CallInv
<1>3. CASE ~Walks(c)
  BY <1>1, <1>3, ChannelSteps, EnqueueInTurn, TimedOutInTurn, DrawInTurn DEF CallInv
<1>4. QED  BY <1>2, <1>3

LEMMA ChannelInitially == ChannelInit => ChanInv
<1> SUFFICES ASSUME ChannelInit PROVE ChanInv
  OBVIOUS
<1> USE ChannelAssumption DEF ChannelInit, WaitInit, AsleepInit
<1>1. ChannelTypeOK
  BY DEF ChannelTypeOK, WaitTypeOK, AsleepTypeOK, AsleepPC, UserPC, Status
<1>2. Linked /\ NoCycle
  BY CtxAssumption DEF Linked, InList, NoCycle
<1>3. \A c \in Ctx : ~InList(c)
  BY CtxAssumption DEF InList
<1>4. \A c \in Ctx : InTurn(c)
  <2> SUFFICES ASSUME NEW c \in Ctx PROVE InTurn(c)
    OBVIOUS
  <2>1. /\ pc[c] = "out" /\ status[c] = "Ready_Reset_Reset" /\ on[c] = None
        /\ val[c] = None /\ ~unpack_[c] /\ ~InList(c)
    BY <1>3
  <2>2. ChanPlace(c)
    BY <2>1 DEF ChanPlace, ChanRunningPC, TryPC, ResultPC, AgainPC
  <2>3. InQueue(c)
    BY <2>1 DEF InQueue, Asleep, AgainPC
  <2>4. InHand(c)
    BY <2>1 DEF InHand, Queuing, AgainPC, LookPC
  <2>5. QED  BY <2>2, <2>3, <2>4 DEF InTurn
<1>5. Ring
  <2>1. Filled = {}
    BY DEF Filled, Empty
  <2>2. QED  BY <2>1 DEF Ring
<1>6. Queued(WaitQue) = {}
  BY <1>3 DEF Queued
<1>7. Sides
  BY <1>6, SideEmpty DEF Sides
<1>8. Closing
  BY DEF Closing
<1>9. QED  BY <1>1, <1>2, <1>4, <1>5, <1>7, <1>8 DEF ChanInv, CallInv

LEMMA ChanStutters ==
  ASSUME ChanInv, UNCHANGED channelVars PROVE ChanInv'
<1>1. /\ UNCHANGED listVars /\ UNCHANGED bufVars
      /\ UNCHANGED <<on, status, timed_out, pc, stop_, unpack_, val, inplay>>
  BY DEF channelVars, waitVars, chanVars
<1>2. ChannelTypeOK'
  BY <1>1 DEF ChanInv, CallInv, ChannelTypeOK, WaitTypeOK, AsleepTypeOK, listVars, bufVars
<1>3. (\A c \in Ctx : InList(c)' <=> InList(c)) /\ Linked' /\ NoCycle'
  BY <1>1 DEF ChanInv, CallInv, InList, Linked, NoCycle, listVars
<1>4. \A c \in Ctx : InTurn(c)'
  <2>1. StaysClosed /\ \A c \in Ctx : Untouched(c) /\ InTurn(c)
    BY <1>1, <1>3 DEF StaysClosed, Untouched, Same, ChanInv, CallInv
  <2>2. QED  BY <2>1, UntouchedInTurn
<1>5. Ring'
  BY <1>1 DEF ChanInv, Ring, Filled, Empty, bufVars
<1>6. \A l : Queued(l)' = Queued(l) /\ Looking(l)' = Looking(l)
  BY <1>1, <1>3 DEF Queued, Looking
<1>7. Sides' /\ Closing'
  BY <1>1, <1>6 DEF ChanInv, Sides, Side, Closing
<1>8. QED  BY <1>2, <1>3, <1>4, <1>5, <1>7 DEF ChanInv, CallInv

LEMMA ChannelInvariance == ChannelSpec => []ChanInv
<1>1. ChanInv /\ [ChannelNext]_channelVars => ChanInv'
  <2>1. ASSUME ChanInv, NEW c \in Ctx, UserCall(c) \/ Step(c) PROVE ChanInv'
    BY <2>1, CallPreserved, RingPreserved, SidesPreserved, ClosingPreserved DEF ChanInv
  <2>2. QED  BY <2>1, ChanStutters DEF ChannelNext
<1>2. QED  BY <1>1, ChannelInitially, PTL DEF ChannelSpec

(* Type correctness of the channel, for any number of coroutines, values and  *)
(* slots.                                                                     *)
THEOREM ChannelTypeCorrect == ChannelSpec => []ChannelTypeOK
<1>1. ChanInv => ChannelTypeOK
  BY DEF ChanInv, CallInv
<1>2. QED  BY <1>1, ChannelInvariance, PTL

(* No value is lost or delivered twice, for a buffer of any size: each posted *)
(* value is in exactly one hand or slot until its call returns.               *)
THEOREM ValuesAreConserved == ChannelSpec => []ValuesConserved
<1>1. ASSUME ChanInv PROVE ValuesConserved
  <2>0. Ring /\ ChannelTypeOK
    BY <1>1 DEF ChanInv, CallInv
  <2>1. ASSUME NEW v \in Val
        PROVE  Cardinality(Hands(v)) + Cardinality(Slots(v)) = IF v \in inplay THEN 1 ELSE 0
    <3>0. v # None
      BY ChannelAssumption
    <3>1. CASE v \notin inplay
      <4>1. Hands(v) = {} /\ Slots(v) = {}
        BY <2>0, <3>0, <3>1 DEF Ring, Hands, Slots
      <4>2. QED  BY <3>1, <4>1, FS_EmptySet
    <3>2. CASE \E c \in Ctx : val[c] = v
      <4>1. PICK c \in Ctx : val[c] = v
        BY <3>2
      <4>2. Hands(v) = {c} /\ Slots(v) = {}
        BY <2>0, <3>0, <4>1 DEF Ring, Hands, Slots
      <4>3. v \in inplay
        BY <2>0, <3>0, <4>1 DEF Ring
      <4>4. Cardinality({c}) = 1 /\ Cardinality({}) = 0
        BY FS_Singleton, FS_EmptySet
      <4>5. QED  BY <4>2, <4>3, <4>4
    <3>3. CASE \E i \in Slot : buffer_[i] = v
      <4>1. PICK i \in Slot : buffer_[i] = v
        BY <3>3
      <4>2. Hands(v) = {} /\ Slots(v) = {i}
        BY <2>0, <3>0, <4>1 DEF Ring, Hands, Slots
      <4>3. v \in inplay
        BY <2>0, <3>0, <4>1 DEF Ring
      <4>4. Cardinality({i}) = 1 /\ Cardinality({}) = 0
        BY FS_Singleton, FS_EmptySet
      <4>5. QED  BY <4>2, <4>3, <4>4
    <3>4. QED  BY <2>0, <3>1, <3>2, <3>3 DEF Ring
  <2>2. QED  BY <2>0, <2>1 DEF ValuesConserved, Ring
<1>2. QED  BY <1>1, ChannelInvariance, PTL

(* A call returns 1 if and only if its value was moved, whoever moved it and   *)
(* whatever its timer and close did in between.                                *)
THEOREM ResultsAreTrue == ChannelSpec => []ResultTrue
<1>1. ASSUME ChanInv, NEW c \in Ctx
      PROVE  /\ pc[c] = "done" => Moved(c)
             /\ pc[c] = "timeout" => ~Moved(c)
             /\ pc[c] = "closed" => stop_[on[c]] /\ (Moved(c) => unpack_[c])
             /\ pc[c] \in LookPC \cup {"take", "steal", "give", "put"} => ~Moved(c)
  <2>1. InHand(c)
    BY <1>1 DEF ChanInv, CallInv, InTurn
  <2>2. QED  BY <2>1 DEF InHand
<1>2. ChanInv => ResultTrue
  BY <1>1 DEF ResultTrue
<1>3. QED  BY <1>2, ChannelInvariance, PTL

(* Receivers and posters never wait for each other.                           *)
THEOREM OneSideOnly == ChannelSpec => []OneSideWaits
<1>1. ASSUME ChanInv, Quiet PROVE Listed(WaitQue) = {} \/ Listed(PostQue) = {}
  <2>1. ASSUME NEW l \in Queues, Side(l) PROVE Listed(l) = {}
    <3>1. ListType /\ Linked /\ NoCycle /\ l \in List
      BY <1>1, CallFacts, ChannelAssumption DEF ChanInv, Queues
    <3>2. Looking(l) = {}
      BY <1>1 DEF Looking, Quiet, AgainPC
    <3>3. Cardinality(Queued(l)) <= 0
      BY <2>1, <3>2, CountNone DEF Side
    <3>4. Queued(l) = {}
      BY <3>3, CountNone DEF Queued
    <3>5. QED  BY <3>1, <3>4, QueuedListed
  <2>2. QED  BY <1>1, <2>1 DEF ChanInv, Sides, Queues
<1>2. ChanInv => OneSideWaits
  BY <1>1 DEF OneSideWaits
<1>3. QED  BY <1>2, ChannelInvariance, PTL

(* close() releases everybody, however many coroutines are queued or about to *)
(* queue themselves.                                                          *)
THEOREM CloseReleases == ChannelSpec => []CloseReleasesAll
<1>1. ASSUME ChanInv, Quiet, \A l \in Queues : stop_[l], NEW c \in Ctx, pc[c] # "out"
      PROVE  FALSE
  <2>1. InTurn(c) /\ pc[c] = "parked" /\ status[c] \in {"Yield_Set_Reset", "Sleep_Set_Set"}
    BY <1>1 DEF ChanInv, CallInv, Quiet
  <2>2. InList(c) /\ on[c] \in Queues
    BY <2>1 DEF InTurn, ChanPlace, InQueue, Asleep, AsleepStatus
  <2>3. Queued(on[c]) # {}
    BY <2>2 DEF Queued
  <2>4. PICK d \in Ctx : pc[d] \in {"drain", "again_stop"}
    BY <1>1, <2>2, <2>3 DEF ChanInv, Closing
  <2>5. QED  BY <1>1, <2>4 DEF Quiet
<1>2. ChanInv => CloseReleasesAll
  BY <1>1 DEF CloseReleasesAll
<1>3. QED  BY <1>2, ChannelInvariance, PTL

===============================================================================
