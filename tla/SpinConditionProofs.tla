------------------------- MODULE SpinConditionProofs -------------------------
(***************************************************************************)
(* SpinCondition for any number of waiters and notifiers: enter_mtx_ is    *)
(* handed over correctly, until a wait is interrupted the caller's lock is *)
(* held by one thread at a time, waiters_ counts the threads that wait,    *)
(* and a notify_all() ends with none of them left in the loop.             *)
(***************************************************************************)
EXTENDS SpinCondition, FiniteSetTheorems, TLAPS

Labels ==
  {"idle", "locked", "enlist", "sleep", "timed_out", "check", "cas", "sub_one",
   "sub_all", "cas_all", "leave", "relock", "woken", "look", "set",
   "assertion_failed"}

\* The part of the typing the proofs need.
Typed ==
  /\ pc \in [Threads -> Labels]
  /\ cmd \in {"SLEEPING", "NOTIFY_ONE", "NOTIFY_ALL"}
  /\ enterMtx \in BOOLEAN

\* check_mtx_ is held by the one thread between its lock and its unlock.
Checking(t) == pc[t] \in {"cas", "sub_one", "sub_all", "cas_all"}
CheckHeld == \A t \in Threads : Checking(t) => checkMtx = t

\* A waiter that saw NOTIFY_ALL serves it: the command stays until CasAll.
AllServed == \A t \in Threads : pc[t] \in {"sub_all", "cas_all"} => cmd = "NOTIFY_ALL"

IInv == Typed /\ CheckHeld /\ AllServed /\ HandedOver

\* The caller's lock is held by the thread that is between lock and unlock.
Holds(t) == pc[t] \in {"locked", "enlist", "woken", "assertion_failed"}
LockHeld == \A t \in Threads : Holds(t) => mtx = t

----------------------------------------------------------------------------
\* The type of a step that moves one thread.
LEMMA GotoType ==
  ASSUME NEW t \in Threads, NEW label \in Labels, Typed, Goto(t, label)
  PROVE  pc' \in [Threads -> Labels]
  BY DEF Goto, Typed

\* The initial state satisfies the invariant.
LEMMA InitIInv == Init => IInv
  BY DEF Init, IInv, Typed, Labels, CheckHeld, Checking, AllServed, HandedOver, Keepers

\* Every step of every thread keeps it.
LEMMA NextIInv == IInv /\ [Next]_vars => IInv'
<1> SUFFICES ASSUME IInv, [Next]_vars PROVE IInv'
  OBVIOUS
<1> USE DEF Typed, Labels, Goto, Threads
<1>1. CASE UNCHANGED vars
  BY <1>1 DEF vars, IInv, CheckHeld, Checking, AllServed, HandedOver, Keepers
<1>2. ASSUME NEW t \in Waiters, WaitStep(t) PROVE IInv'
  <2>1. CASE WaitEnter(t)
    BY <2>1 DEF WaitEnter, IInv, CheckHeld, Checking, AllServed, HandedOver, Keepers
  <2>2. CASE Enlist(t)
    <3>1. Typed' /\ CheckHeld' /\ AllServed'
      BY <2>2 DEF Enlist, IInv, CheckHeld, Checking, AllServed
    <3>2. t \in Keepers /\ Keepers' = Keepers \ {t} /\ enterMtx' = FALSE /\ cmd' = cmd
      BY <2>2 DEF Enlist, IInv, Keepers
    <3>3. HandedOver /\ pc[t] # "cas_all"
      BY <2>2 DEF Enlist, IInv
    <3>4. HandedOver'
      BY <3>2, <3>3 DEF HandedOver
    <3> QED
      BY <3>1, <3>4 DEF IInv
  <2>3. CASE SeeCommand(t)
    BY <2>3 DEF SeeCommand, IInv, CheckHeld, Checking, AllServed, HandedOver, Keepers
  <2>4. CASE TimedOut(t)
    BY <2>4 DEF TimedOut, IInv, CheckHeld, Checking, AllServed, HandedOver, Keepers
  <2>5. CASE CheckLock(t)
    BY <2>5, FreeIsNoThread
       DEF CheckLock, IInv, CheckHeld, Checking, AllServed, HandedOver, Keepers
  <2>6. CASE CheckCas(t)
    BY <2>6 DEF CheckCas, IInv, CheckHeld, Checking, AllServed, HandedOver, Keepers
  <2>7. CASE SubOne(t)
    BY <2>7 DEF SubOne, IInv, CheckHeld, Checking, AllServed, HandedOver, Keepers
  <2>8. CASE SubAll(t)
    BY <2>8 DEF SubAll, IInv, CheckHeld, Checking, AllServed, HandedOver, Keepers
  <2>9. CASE CasAll(t)
    BY <2>9 DEF CasAll, IInv, CheckHeld, Checking, AllServed, HandedOver, Keepers
  <2>10. CASE Leave(t)
    <3>1. Typed' /\ CheckHeld' /\ AllServed'
      BY <2>10 DEF Leave, IInv, CheckHeld, Checking, AllServed
    <3>2. t \in Keepers /\ Keepers' = Keepers \ {t} /\ enterMtx' = FALSE /\ cmd' = cmd
      BY <2>10 DEF Leave, IInv, Keepers
    <3>3. HandedOver /\ pc[t] # "cas_all"
      BY <2>10 DEF Leave, IInv
    <3>4. HandedOver'
      BY <3>2, <3>3 DEF HandedOver
    <3> QED
      BY <3>1, <3>4 DEF IInv
  <2>11. CASE Relock(t)
    BY <2>11 DEF Relock, IInv, CheckHeld, Checking, AllServed, HandedOver, Keepers
  <2> QED
    BY <1>2, <2>1, <2>2, <2>3, <2>4, <2>5, <2>6, <2>7, <2>8, <2>9, <2>10, <2>11 DEF WaitStep
<1>3. ASSUME NEW t \in Waiters,
             Lock(t) \/ Unlock(t) \/ TimedEnterFails(t) \/ TimeOut(t) \/ Interrupt(t)
      PROVE  IInv'
  <2>1. CASE Lock(t)
    BY <2>1 DEF Lock, IInv, CheckHeld, Checking, AllServed, HandedOver, Keepers
  <2>2. CASE Unlock(t)
    BY <2>2 DEF Unlock, IInv, CheckHeld, Checking, AllServed, HandedOver, Keepers
  <2>3. CASE TimedEnterFails(t)
    BY <2>3 DEF TimedEnterFails, IInv, CheckHeld, Checking, AllServed, HandedOver, Keepers
  <2>4. CASE TimeOut(t)
    BY <2>4 DEF TimeOut, IInv, CheckHeld, Checking, AllServed, HandedOver, Keepers
  <2>5. CASE Interrupt(t)
    BY <2>5 DEF Interrupt, IInv, CheckHeld, Checking, AllServed, HandedOver, Keepers
  <2> QED
    BY <1>3, <2>1, <2>2, <2>3, <2>4, <2>5
<1>4. ASSUME NEW n \in Notifiers, NotifyEnter(n) \/ NotifyStep(n) PROVE IInv'
  <2>1. CASE NotifyEnter(n)
    <3>1. Typed' /\ CheckHeld' /\ AllServed'
      BY <2>1 DEF NotifyEnter, IInv, CheckHeld, Checking, AllServed
    <3>2. Keepers' = Keepers \cup {n} /\ ~ enterMtx /\ enterMtx' = TRUE /\ cmd' = cmd
      BY <2>1 DEF NotifyEnter, IInv, Keepers
    <3>3. HandedOver
      BY DEF IInv
    <3>4. HandedOver'
      BY <3>2, <3>3 DEF HandedOver
    <3> QED
      BY <3>1, <3>4 DEF IInv
  <2>2. CASE NotifyLook(n)
    <3>1. Typed' /\ CheckHeld' /\ AllServed'
      BY <2>2 DEF NotifyLook, IInv, CheckHeld, Checking, AllServed
    <3>2. n \in Keepers /\ pc[n] # "cas_all" /\ cmd' = cmd
      BY <2>2 DEF NotifyLook, IInv, Keepers
    <3>3. HandedOver /\ Keepers = {n} /\ cmd = "SLEEPING"
      BY <3>2 DEF IInv, HandedOver
    <3>4. \/ enterMtx' = FALSE /\ Keepers' = Keepers \ {n}
          \/ enterMtx' = TRUE /\ Keepers' = Keepers
      BY <2>2 DEF NotifyLook, IInv, Keepers
    <3>5. HandedOver'
      BY <3>2, <3>3, <3>4 DEF HandedOver
    <3> QED
      BY <3>1, <3>5 DEF IInv
  <2>3. ASSUME NEW c \in {"NOTIFY_ONE", "NOTIFY_ALL"}, NotifySet(n, c) PROVE IInv'
    BY <2>3 DEF NotifySet, IInv, CheckHeld, Checking, AllServed, HandedOver, Keepers
  <2> QED
    BY <1>4, <2>1, <2>2, <2>3 DEF NotifyStep
<1> QED
  BY <1>1, <1>2, <1>3, <1>4 DEF Next

\* enter_mtx_ is handed over correctly for any number of threads, whoever times
\* out or is interrupted: it is locked exactly while one thread or one command
\* is there to have it unlocked (condition.hpp:160, :249, condition.cpp:18-35).
THEOREM HandsOver == Spec => []HandedOver
<1>1. IInv => HandedOver
  BY DEF IInv
<1> QED
  BY InitIInv, NextIInv, <1>1, PTL DEF Spec

----------------------------------------------------------------------------
LockKept == stranded \in Nat /\ (stranded = 0 => LockHeld)

\* A step that is no interruption leaves the lock with its holder.
LEMMA LockHeldStays ==
  ASSUME Typed, LockHeld, [Next]_vars, stranded' = stranded
  PROVE  LockHeld' \/ \E t \in Waiters : Interrupt(t)
<1> USE DEF Typed, Labels, Goto, Threads, LockHeld, Holds
<1>1. CASE UNCHANGED vars
  BY <1>1 DEF vars
<1>2. ASSUME NEW t \in Waiters, WaitStep(t) PROVE LockHeld'
  <2>1. CASE WaitEnter(t) \/ SeeCommand(t) \/ TimedOut(t) \/ CheckLock(t)
    BY <2>1 DEF WaitEnter, SeeCommand, TimedOut, CheckLock
  <2>2. CASE Enlist(t)
    BY <2>2 DEF Enlist
  <2>3. CASE CheckCas(t) \/ SubOne(t) \/ SubAll(t) \/ CasAll(t) \/ Leave(t)
    BY <2>3 DEF CheckCas, SubOne, SubAll, CasAll, Leave
  <2>4. CASE Relock(t)
    <3>1. \A s \in Threads : ~ Holds(s)
      BY <2>4, FreeIsNoThread DEF Relock
    <3> QED
      BY <2>4, <3>1 DEF Relock
  <2> QED
    BY <1>2, <2>1, <2>2, <2>3, <2>4 DEF WaitStep
<1>3. ASSUME NEW t \in Waiters, Lock(t) \/ Unlock(t) \/ TimedEnterFails(t) \/ TimeOut(t)
      PROVE  LockHeld'
  <2>1. CASE Lock(t)
    <3>1. \A s \in Threads : ~ Holds(s)
      BY <2>1, FreeIsNoThread DEF Lock
    <3> QED
      BY <2>1, <3>1 DEF Lock
  <2>2. CASE Unlock(t)
    BY <2>2 DEF Unlock
  <2>3. CASE TimedEnterFails(t) \/ TimeOut(t)
    BY <2>3 DEF TimedEnterFails, TimeOut
  <2> QED
    BY <1>3, <2>1, <2>2, <2>3
<1>4. ASSUME NEW n \in Notifiers, NotifyEnter(n) \/ NotifyStep(n) PROVE LockHeld'
  BY <1>4 DEF NotifyEnter, NotifyStep, NotifyLook, NotifySet
<1> QED
  BY <1>1, <1>2, <1>3, <1>4 DEF Next

\* Only an interruption strands a wait.
LEMMA StrandedStays ==
  [Next]_vars => stranded' = stranded \/ \E t \in Waiters : Interrupt(t)
<1> SUFFICES ASSUME [Next]_vars
             PROVE  stranded' = stranded \/ \E t \in Waiters : Interrupt(t)
  OBVIOUS
<1>1. CASE UNCHANGED vars
  BY <1>1 DEF vars
<1>2. ASSUME NEW t \in Waiters, WaitStep(t) PROVE stranded' = stranded
  BY <1>2 DEF WaitStep, WaitEnter, Enlist, SeeCommand, TimedOut, CheckLock, CheckCas,
              SubOne, SubAll, CasAll, Leave, Relock
<1>3. ASSUME NEW t \in Waiters, Lock(t) \/ Unlock(t) \/ TimedEnterFails(t) \/ TimeOut(t)
      PROVE  stranded' = stranded
  BY <1>3 DEF Lock, Unlock, TimedEnterFails, TimeOut
<1>4. ASSUME NEW n \in Notifiers, NotifyEnter(n) \/ NotifyStep(n)
      PROVE  stranded' = stranded
  BY <1>4 DEF NotifyEnter, NotifyStep, NotifyLook, NotifySet
<1> QED
  BY <1>1, <1>2, <1>3, <1>4 DEF Next

\* LockKept is kept by every step.
LEMMA NextLockKept == Typed /\ LockKept /\ [Next]_vars => LockKept'
<1> SUFFICES ASSUME Typed, LockKept, [Next]_vars PROVE LockKept'
  OBVIOUS
<1>1. ASSUME NEW t \in Waiters, Interrupt(t) PROVE LockKept'
  BY <1>1 DEF Interrupt, LockKept
<1>2. CASE stranded' = stranded /\ ~ \E t \in Waiters : Interrupt(t)
  <2>1. stranded = 0 => LockHeld'
    BY <1>2, LockHeldStays DEF LockKept
  <2> QED
    BY <1>2, <2>1 DEF LockKept
<1> QED
  BY <1>1, <1>2, StrandedStays

\* Until a wait is interrupted, wait() keeps the lock it was given exclusive, for
\* any number of waiters and notifiers (condition.hpp:119, :163).
THEOREM LockStaysExclusive == Spec => []MutualExclusion
<1>1. Init => Typed /\ LockKept
  <2>1. Init => Typed
    BY InitIInv DEF IInv
  <2>2. Init => LockHeld
    BY DEF Init, LockHeld, Holds
  <2>3. Init => stranded = 0
    BY DEF Init
  <2> QED
    BY <2>1, <2>2, <2>3 DEF LockKept
<1>2. IInv /\ LockKept /\ [Next]_vars => LockKept'
  BY NextLockKept DEF IInv
<1>3. LockKept => MutualExclusion
  BY DEF LockKept, LockHeld, MutualExclusion, OneHolder, Holds, Threads
<1> QED
  BY InitIInv, NextIInv, <1>1, <1>2, <1>3, PTL DEF Spec

----------------------------------------------------------------------------
\* What waiters_ has to be is the number of Enlisted threads and stranded waits.
Counted == stranded \in Nat /\ waiters \in Int /\ WaitersCounted

\* Enlisted is finite, and its size follows one thread that comes or goes.
LEMMA EnlistedFinite == IsFiniteSet(Enlisted) /\ Cardinality(Enlisted) \in Nat
  BY FiniteWaiters, FS_Subset, FS_CardinalityType DEF Enlisted

LEMMA OneComes ==
  ASSUME NEW t, t \notin Enlisted, Enlisted' = Enlisted \cup {t}
  PROVE  Cardinality(Enlisted') = Cardinality(Enlisted) + 1
  BY EnlistedFinite, FS_AddElement

LEMMA OneGoes ==
  ASSUME NEW t, t \in Enlisted, Enlisted' = Enlisted \ {t}
  PROVE  Cardinality(Enlisted') = Cardinality(Enlisted) - 1
  BY EnlistedFinite, FS_RemoveElement

\* A step of a thread that waits before and after it, or neither, moves nobody.
LEMMA NobodyMoves ==
  ASSUME Typed, NEW t \in Threads, NEW label \in Labels, Goto(t, label),
         t \in Waiters =>
           (t \in Enlisted <=>
              label \in {"sleep", "timed_out", "check", "cas", "sub_one", "sub_all"})
  PROVE  Enlisted' = Enlisted
  BY DEF Typed, Threads, Goto, Enlisted

\* A waiter joins when it goes to sleep.
LEMMA WaiterComes ==
  ASSUME Typed, NEW t \in Waiters, t \notin Enlisted, Goto(t, "sleep")
  PROVE  Cardinality(Enlisted') = Cardinality(Enlisted) + 1
<1>1. Enlisted' = Enlisted \cup {t}
  BY DEF Typed, Threads, Goto, Enlisted
<1> QED
  BY <1>1, OneComes

\* A waiter leaves when it goes to the end of the loop or of the call.
LEMMA WaiterGoes ==
  ASSUME Typed, NEW t \in Waiters, t \in Enlisted,
         NEW label \in {"idle", "leave", "cas_all", "relock"}, Goto(t, label)
  PROVE  Cardinality(Enlisted') = Cardinality(Enlisted) - 1
<1>1. Enlisted' = Enlisted \ {t}
  BY DEF Typed, Threads, Goto, Enlisted
<1> QED
  BY <1>1, OneGoes

\* The count follows every step.
LEMMA NextCounted == Typed /\ Counted /\ [Next]_vars => Counted'
<1> SUFFICES ASSUME Typed, Counted, [Next]_vars PROVE Counted'
  OBVIOUS
<1> USE EnlistedFinite DEF Counted, WaitersCounted
<1>0. ASSUME Enlisted' = Enlisted, UNCHANGED <<waiters, stranded>> PROVE Counted'
  BY <1>0
<1>1. CASE UNCHANGED vars
  BY <1>0, <1>1 DEF vars, Enlisted
<1>2. ASSUME NEW t \in Waiters, WaitStep(t) PROVE Counted'
  <2>1. CASE WaitEnter(t) \/ SeeCommand(t) \/ CheckLock(t) \/ CheckCas(t)
    <3>1. Enlisted' = Enlisted
      BY <2>1, NobodyMoves DEF WaitEnter, SeeCommand, CheckLock, CheckCas, Typed, Labels,
                               Threads, Enlisted
    <3> QED
      BY <1>0, <2>1, <3>1 DEF WaitEnter, SeeCommand, CheckLock, CheckCas
  <2>2. CASE Enlist(t)
    <3>1. Cardinality(Enlisted') = Cardinality(Enlisted) + 1
      BY <2>2, WaiterComes DEF Enlist, Enlisted
    <3> QED
      BY <2>2, <3>1 DEF Enlist
  <2>3. CASE TimedOut(t) \/ SubOne(t) \/ SubAll(t)
    <3>1. Cardinality(Enlisted') = Cardinality(Enlisted) - 1
      BY <2>3, WaiterGoes DEF TimedOut, SubOne, SubAll, Enlisted
    <3> QED
      BY <2>3, <3>1 DEF TimedOut, SubOne, SubAll
  <2>4. CASE CasAll(t) \/ Leave(t) \/ Relock(t)
    <3>1. Enlisted' = Enlisted
      BY <2>4, NobodyMoves DEF CasAll, Leave, Relock, Labels, Threads, Enlisted
    <3> QED
      BY <1>0, <2>4, <3>1 DEF CasAll, Leave, Relock
  <2> QED
    BY <1>2, <2>1, <2>2, <2>3, <2>4 DEF WaitStep
<1>3. ASSUME NEW t \in Waiters,
             Lock(t) \/ Unlock(t) \/ TimedEnterFails(t) \/ TimeOut(t)
      PROVE  Counted'
  <2>1. Enlisted' = Enlisted
    BY <1>3, NobodyMoves
       DEF Lock, Unlock, TimedEnterFails, TimeOut, Labels, Threads, Enlisted
  <2> QED
    BY <1>0, <1>3, <2>1 DEF Lock, Unlock, TimedEnterFails, TimeOut
<1>4. ASSUME NEW t \in Waiters, Interrupt(t) PROVE Counted'
  <2>1. Cardinality(Enlisted') = Cardinality(Enlisted) - 1
    BY <1>4, WaiterGoes DEF Interrupt, Enlisted
  <2> QED
    BY <1>4, <2>1 DEF Interrupt
<1>5. ASSUME NEW n \in Notifiers, NotifyEnter(n) \/ NotifyStep(n) PROVE Counted'
  <2>1. Enlisted' = Enlisted
    BY <1>5, NobodyMoves, ThreadsApart
    DEF NotifyEnter, NotifyStep, NotifyLook, NotifySet, Labels, Threads
  <2> QED
    BY <1>0, <1>5, <2>1 DEF NotifyEnter, NotifyStep, NotifyLook, NotifySet
<1> QED
  BY <1>1, <1>2, <1>3, <1>4, <1>5 DEF Next

\* Nobody is counted at the start.
LEMMA InitCounted == Init => Counted
<1> SUFFICES ASSUME Init PROVE Counted
  OBVIOUS
<1>1. Enlisted = {}
  BY DEF Init, Enlisted, Threads
<1> QED
  BY <1>1, FS_EmptySet DEF Init, Counted, WaitersCounted

\* waiters_ is the number of threads that wait and of the waits an interruption
\* left counted, for any number of threads, whoever enlists, times out or serves a
\* command meanwhile (condition.hpp:118, :145, :150, :217, condition.cpp:20).
THEOREM WaitersAreCounted == Spec => []WaitersCounted
<1>1. IInv /\ Counted /\ [Next]_vars => Counted'
  BY NextCounted DEF IInv
<1>2. Counted => WaitersCounted
  BY DEF Counted
<1> QED
  BY InitIInv, NextIInv, InitCounted, <1>1, <1>2, PTL DEF Spec

----------------------------------------------------------------------------
\* The thread that ends a notify_all() took the last waiter off the count, and
\* nobody enlists before enter_mtx_ is unlocked.
AllGone == (\E t \in Threads : pc[t] = "cas_all") => waiters = 0

LEMMA NextAllGone == IInv /\ AllGone /\ [Next]_vars => AllGone'
<1> SUFFICES ASSUME IInv, AllGone, [Next]_vars PROVE AllGone'
  OBVIOUS
<1> USE DEF IInv, Typed, AllGone, Goto, Threads
<1>1. CASE UNCHANGED vars
  BY <1>1 DEF vars
<1>2. ASSUME NEW t \in Waiters, WaitStep(t) PROVE AllGone'
  <2>1. CASE WaitEnter(t) \/ SeeCommand(t) \/ CheckLock(t)
    BY <2>1 DEF WaitEnter, SeeCommand, CheckLock
  <2>2. CASE CheckCas(t)
    BY <2>2 DEF CheckCas
  <2>3. CASE Enlist(t) \/ TimedOut(t) \/ SubOne(t)
    <3>1. \A s \in Threads : pc[s] # "cas_all"
      BY <2>3 DEF Enlist, TimedOut, SubOne, HandedOver, Keepers
    <3> QED
      BY <2>3, <3>1 DEF Enlist, TimedOut, SubOne
  <2>4. CASE SubAll(t)
    <3>1. \A s \in Threads : pc[s] # "cas_all"
      BY <2>4 DEF SubAll, CheckHeld, Checking
    <3> QED
      BY <2>4, <3>1 DEF SubAll
  <2>5. CASE CasAll(t) \/ Leave(t) \/ Relock(t)
    BY <2>5 DEF CasAll, Leave, Relock
  <2> QED
    BY <1>2, <2>1, <2>2, <2>3, <2>4, <2>5 DEF WaitStep
<1>3. ASSUME NEW t \in Waiters,
             Lock(t) \/ Unlock(t) \/ TimedEnterFails(t) \/ TimeOut(t) \/ Interrupt(t)
      PROVE  AllGone'
  BY <1>3 DEF Lock, Unlock, TimedEnterFails, TimeOut, Interrupt
<1>4. ASSUME NEW n \in Notifiers, NotifyEnter(n) \/ NotifyStep(n) PROVE AllGone'
  BY <1>4 DEF NotifyEnter, NotifyStep, NotifyLook, NotifySet
<1> QED
  BY <1>1, <1>2, <1>3, <1>4 DEF Next

\* Only CasAll ends a notify_all().
LEMMA OnlyCasAllEnds ==
  ASSUME [Next]_vars, cmd = "NOTIFY_ALL", cmd' = "SLEEPING"
  PROVE  \E t \in Waiters : CasAll(t)
<1>1. ASSUME NEW t \in Waiters, WaitStep(t) PROVE CasAll(t)
  BY <1>1 DEF WaitStep, WaitEnter, Enlist, SeeCommand, TimedOut, CheckLock, CheckCas,
              SubOne, SubAll, Leave, Relock
<1>2. ASSUME NEW t \in Waiters,
             Lock(t) \/ Unlock(t) \/ TimedEnterFails(t) \/ TimeOut(t) \/ Interrupt(t)
      PROVE  FALSE
  BY <1>2 DEF Lock, Unlock, TimedEnterFails, TimeOut, Interrupt
<1>3. ASSUME NEW n \in Notifiers, NotifyEnter(n) \/ NotifyStep(n) PROVE FALSE
  BY <1>3 DEF NotifyEnter, NotifyStep, NotifyLook, NotifySet
<1> QED
  BY <1>1, <1>2, <1>3 DEF Next, vars

\* A notify_all() is ended by the last thread that waited, for any number of
\* waiters and whatever was interrupted before it: when cmd_ goes back to SLEEPING
\* nobody is left who could take the command for the next one (condition.hpp:148-156).
THEOREM AllHaveLeft == Spec => AllLeave
<1> DEFINE Ends ==
      cmd = "NOTIFY_ALL" /\ cmd' = "SLEEPING" =>
        \A t \in Waiters : pc'[t] \notin {"sleep", "check", "cas"}
<1>1. Init => AllGone
  BY DEF Init, AllGone
<1>2. IInv /\ Counted /\ [Next]_vars => Counted'
  BY NextCounted DEF IInv
<1>3. IInv /\ Counted /\ AllGone /\ [Next]_vars => [Ends]_vars
  <2> SUFFICES ASSUME IInv, Counted, AllGone, [Next]_vars,
                      cmd = "NOTIFY_ALL", cmd' = "SLEEPING"
               PROVE  \A t \in Waiters : pc'[t] \notin {"sleep", "check", "cas"}
    OBVIOUS
  <2>1. PICK t \in Waiters : CasAll(t)
    BY OnlyCasAllEnds
  <2>2. waiters = 0
    BY <2>1 DEF CasAll, AllGone, Threads
  <2>3. Cardinality(Enlisted) = 0
    BY <2>2, EnlistedFinite DEF Counted, WaitersCounted
  <2>4. Enlisted = {}
    BY <2>3, EnlistedFinite, FS_EmptySet
  <2> QED
    BY <2>1, <2>4 DEF CasAll, Goto, IInv, Typed, Threads, Enlisted
<1> QED
  BY InitIInv, NextIInv, InitCounted, NextAllGone, <1>1, <1>2, <1>3, PTL DEF Spec, AllLeave

=============================================================================
