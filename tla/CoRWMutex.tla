------------------------------- MODULE CoRWMutex -------------------------------
(***************************************************************************)
(* comutexshared: a readers-writer mutex made of two semaphores, a mutex   *)
(* and two counters.  count_ is the number of readers, less RWMax while a  *)
(* writer holds the mutex or waits for the readers to leave; wait_ is how  *)
(* many of those readers have not left yet.  The writers' mutex wmtx_ is   *)
(* what CoLock says of it, which is what CoMutex shows of comutex.         *)
(***************************************************************************)
EXTENDS CoSemaphore

CONSTANT RWMax    \* _rw_max_count: more than there can be readers

ASSUME RWMaxAssumption == RWMax \in Nat /\ IsFiniteSet(Ctx) /\ Cardinality(Ctx) < RWMax
ASSUME SemAssumption == Sem = {"rsem", "wsem"}

VARIABLES
  count_, wait_,
  r,                 \* r[c]: the local r of lock and unlock
  owner, waiting     \* wmtx_

rwVars == <<count_, wait_, r, owner, waiting>>
vars == <<semVars, rwVars>>

wmtx_ == INSTANCE CoLock

UserPC == {"out", "read", "write", "wmtx", "mark", "add", "wake", "release", "left"}

TypeOK ==
  /\ SemTypeOK(UserPC)
  /\ count_ \in Int /\ wait_ \in Int
  /\ r \in [Ctx -> Int]
  /\ owner \in Ctx \cup {None} /\ waiting \subseteq Ctx

Init ==
  /\ SemInit
  /\ wmtx_!Init
  /\ count_ = 0 /\ wait_ = 0
  /\ r = [c \in Ctx |-> 0]

\* c moves on in the code of comutexshared.
Goto(c, p, q) == From(c, p, q) /\ UNCHANGED <<sem_, ctx_que_, status, on, ret, popped>>

SetR(c, n) == r' = [r EXCEPT ![c] = n]

------------------------------------------------------------------------------
(* lock() *)

Lock(c) ==
  /\ Goto(c, "out", "wmtx") /\ wmtx_!Request(c)
  /\ UNCHANGED <<count_, wait_, r>>

LockWriters(c) ==
  /\ Goto(c, "wmtx", "mark") /\ wmtx_!Acquire(c)
  /\ UNCHANGED <<count_, wait_, r>>

\* r = the readers there were when count_ was lowered.
Mark(c) ==
  /\ Goto(c, "mark", IF count_ = 0 THEN "write" ELSE "add")
  /\ count_' = count_ - RWMax
  /\ SetR(c, count_)
  /\ UNCHANGED <<wait_, owner, waiting>>

\* Mutant: whether the readers have left in the meantime is not looked at.
AddWait_always(c) ==
  /\ CallWait(c, "add", "wsem", "write")
  /\ wait_' = wait_ + r[c]
  /\ SetR(c, 0)
  /\ UNCHANGED <<count_, owner, waiting>>

\* The readers that have left since made wait_ negative.
AddWait(c) ==
  /\ IF wait_ + r[c] = 0 THEN Goto(c, "add", "write")
     ELSE CallWait(c, "add", "wsem", "write")
  /\ wait_' = wait_ + r[c]
  /\ SetR(c, 0)
  /\ UNCHANGED <<count_, owner, waiting>>

(* lock_shared() *)

\* Mutant: a reader does not wait for a writer that only waits itself.
LockShared_early(c) ==
  /\ IF count_ + 1 < 0 /\ \E d \in Ctx : pc[d] = "write"
     THEN CallWait(c, "out", "rsem", "read")
     ELSE Goto(c, "out", "read")
  /\ count_' = count_ + 1
  /\ UNCHANGED <<wait_, r, owner, waiting>>

LockShared(c) ==
  /\ IF count_ + 1 < 0 THEN CallWait(c, "out", "rsem", "read")
     ELSE Goto(c, "out", "read")
  /\ count_' = count_ + 1
  /\ UNCHANGED <<wait_, r, owner, waiting>>

(* unlock() *)

Unlock(c) ==
  /\ Goto(c, "write", "wake")
  /\ count_' = count_ + RWMax
  /\ SetR(c, count_ + RWMax)
  /\ UNCHANGED <<wait_, owner, waiting>>

\* Mutant: one reader is woken up, and then the next writer is let in.
Wake_one(c) ==
  /\ IF r[c] > 0 THEN CallNotify(c, "wake", "rsem", "release") ELSE Goto(c, "wake", "release")
  /\ SetR(c, 0)
  /\ UNCHANGED <<count_, wait_, owner, waiting>>

\* while (r--) rsem_.notify();
Wake(c) ==
  /\ IF r[c] # 0
     THEN CallNotify(c, "wake", "rsem", "wake") /\ SetR(c, r[c] - 1)
     ELSE Goto(c, "wake", "release") /\ UNCHANGED r
  /\ UNCHANGED <<count_, wait_, owner, waiting>>

UnlockWriters(c) ==
  /\ Goto(c, "release", "out") /\ wmtx_!Release(c)
  /\ UNCHANGED <<count_, wait_, r>>

(* unlock_shared() *)

UnlockShared(c) ==
  /\ Goto(c, "read", IF count_ - 1 >= 0 THEN "out" ELSE "left")
  /\ count_' = count_ - 1
  /\ UNCHANGED <<wait_, r, owner, waiting>>

\* Mutant: every reader that leaves wakes up the writer.
Left_each(c) ==
  /\ CallNotify(c, "left", "wsem", "out")
  /\ wait_' = wait_ - 1
  /\ UNCHANGED <<count_, r, owner, waiting>>

\* The last of the readers the writer waits for wakes it up.
Left(c) ==
  /\ IF wait_ - 1 = 0 THEN CallNotify(c, "left", "wsem", "out") ELSE Goto(c, "left", "out")
  /\ wait_' = wait_ - 1
  /\ UNCHANGED <<count_, r, owner, waiting>>

------------------------------------------------------------------------------
SemCall(c) == SemStep(c) /\ UNCHANGED rwVars

\* Everything but asking for the mutex, which nobody has to, and getting wmtx_.
Step(c) ==
  \/ SemCall(c)
  \/ Mark(c) \/ AddWait(c) \/ Unlock(c) \/ Wake(c) \/ UnlockWriters(c)
  \/ UnlockShared(c) \/ Left(c)

Next == \E c \in Ctx : Lock(c) \/ LockShared(c) \/ LockWriters(c) \/ Step(c)

Spec == Init /\ [][Next]_vars

(* Workers run what is ready, who holds the mutex gives it back, and a free    *)
(* wmtx_ goes to somebody (CoMutex: LockProgress), though not to everybody.    *)
Fairness ==
  /\ \A c \in Ctx : WF_vars(Step(c))
  /\ WF_vars(\E c \in Ctx : LockWriters(c))

FairSpec == Spec /\ Fairness

------------------------------------------------------------------------------
(* Properties *)

\* In a call of wait() on s, up to the decrement that succeeds; about to
\* raise s.
InWait(s) == {c \in Ctx : /\ on[c] = s
                          /\ ret[c] = (IF s = "rsem" THEN "read" ELSE "write")}
Raising(s) == {c \in Ctx : on[c] = s /\ pc[c] = "inc"}

\* The permits of s that are there or on their way, but for the loop of Wake.
Permits(s) == sem_[s] + Cardinality(Raising(s))

\* The writers from the step that lowers count_ to the one that restores it.
Marked == {c \in Ctx : pc[c] \in {"add", "write"}} \cup InWait("wsem")

At(p) == {c \in Ctx : pc[c] = p}

\* The writer that is still releasing the readers it kept waiting.
Waking == At("wake") \cup {c \in Ctx : ret[c] = "wake"}

(* The permits of both semaphores are exactly those that somebody is meant to  *)
(* take.  When a writer has the mutex none is left over and wait_ is back to   *)
(* zero, so that the next writer cannot be let in by an old one; a writer that *)
(* waits does so for the readers that have the mutex, are about to take the    *)
(* permit that was meant for them or have left without saying so yet; and when *)
(* there is no writer every reader that waits has a permit coming.  The        *)
(* counters are changed in steps of their own, so a reader may leave, or a     *)
(* new one arrive, between any two of them.                                    *)
PermitsMatch ==
  /\ \A c \in At("write") : Permits("rsem") = 0 /\ Permits("wsem") = 0 /\ wait_ = 0
  /\ \A c \in InWait("wsem") :
        /\ wait_ = Cardinality(At("read")) + Permits("rsem") + Cardinality(At("left"))
        /\ Permits("wsem") = IF wait_ = 0 THEN 1 ELSE 0
  /\ \A c \in At("add") :
        wait_ + r[c] = Cardinality(At("read")) + Permits("rsem") + Cardinality(At("left"))
  /\ Marked = {} =>
        /\ wait_ = 0 /\ Permits("wsem") = 0 /\ At("left") = {}
        /\ Cardinality(InWait("rsem")) =
             Permits("rsem") + (IF Waking = {} THEN 0 ELSE r[CHOOSE c \in Waking : TRUE])

(* comutexshared is a readers-writer mutex.                                    *)
Lockers == At("wmtx") \cup At("mark") \cup At("add") \cup InWait("wsem")
Writer == IF At("write") = {} THEN None ELSE CHOOSE c \in At("write") : TRUE

RWLock == INSTANCE CoRWLock WITH
  writer <- Writer,
  readers <- At("read"),
  wwaiting <- Lockers,
  rwaiting <- InWait("rsem")

ImplementsRWLock == RWLock!Spec

(* Readers cannot keep the writers out: as long as one asks for the mutex, a   *)
(* writer gets it, however many readers come and go.                           *)
WriterProgress == Lockers # {} ~> At("write") # {}

(* Nor can writers keep the readers out: the permits a writer leaves behind    *)
(* are taken by readers before the next writer gets in.                        *)
ReaderProgress == InWait("rsem") # {} ~> At("read") # {}
===============================================================================
