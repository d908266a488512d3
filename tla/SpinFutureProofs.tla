-------------------------- MODULE SpinFutureProofs --------------------------
(***************************************************************************)
(* The result of SpinFuture for every number of producers and waiters: it  *)
(* has one origin and stands.  For a promise both follow from the test of  *)
(* `done' under mtx.  For a packaged_task, whose run() does not test it,   *)
(* they rest on `started': whoever runs is alone and before the result,    *)
(* and a result that is there, a broken one included, was started.         *)
(*                                                                         *)
(* For wait_for_any() the invariant says that a condition left to notify   *)
(* is registered with a future whose mutex is held, and that a waiter that *)
(* leaves is registered at most where it has not yet been: the future is   *)
(* locked by whoever notifies when the waiter comes to it.                 *)
(***************************************************************************)
EXTENDS MCSpinFutures, FiniteSetTheorems, TLAPS

\* A thread that runs the task is alone, and the result is still to come.
RunsAlone ==
  \A t \in Threads :
    pc[t] = "running" =>
      /\ kind = "packaged_task" /\ started /\ ~ done
      /\ \A u \in Threads : pc[u] = "running" => u = t

StartedFirst == kind = "packaged_task" /\ done => started

\* OneOrigin, with the call that produced the result.
Origin ==
  IF done /\ outcome # "broken" THEN \E t \in Threads : made = {t} ELSE made = {}

IInv == TypeOK /\ RunsAlone /\ StartedFirst /\ Origin

Labels == {"idle", "running", "ended", "callback", "relock", "asleep", "woken",
           "timed_out", "returned", "gave_up"}

\* pc after Finish(o, t, label).
Finished(t, label) ==
  [u \in Threads |->
     IF u = t THEN label ELSE IF pc[u] = "asleep" THEN "woken" ELSE pc[u]]

LEMMA InitInv == Init => IInv
BY DEF Init, IInv, TypeOK, RunsAlone, StartedFirst, Origin, NoOutcome, Produced, Threads

----------------------------------------------------------------------------
\* Whoever finishes the result leaves nobody running.
LEMMA FinishedOnce ==
  ASSUME IInv, NEW t \in Threads, NEW label \in Labels \ {"running"},
         pc[t] = "running" \/ (\A u \in Threads : pc[u] # "running"),
         pc' = Finished(t, label)
  PROVE  /\ pc' \in [Threads -> Labels]
         /\ \A u \in Threads : pc'[u] # "running"
BY DEF IInv, TypeOK, RunsAlone, Finished, Labels

\* set_value() and set_exception().
LEMMA SetInv ==
  ASSUME IInv, NEW t \in Threads, Set(t)
  PROVE  IInv'
<1>1. PICK o \in Produced : Finish(o, t, After(t, "ended"))
  BY DEF Set
<1>2. After(t, "ended") \in Labels \ {"running"}
  BY DEF After, Labels
<1>3. \A u \in Threads : pc[u] # "running"
  BY DEF IInv, RunsAlone, Set
<1>4. pc' \in [Threads -> Labels] /\ \A u \in Threads : pc'[u] # "running"
  BY <1>1, <1>2, <1>3, FinishedOnce DEF Finish, Finished
<1>5. done' /\ outcome' = o /\ ~ done /\ made' = made \cup {t}
      /\ UNCHANGED <<fixed, owner, started, saw>> /\ kind = "promise"
  BY <1>1 DEF Set, Finish
<1>6. made = {}
  BY <1>5 DEF IInv, Origin
<1>7. TypeOK'
  BY <1>4, <1>5 DEF IInv, TypeOK, Labels, fixed, Produced, NoOutcome
<1>8. RunsAlone'
  BY <1>4 DEF RunsAlone
<1>9. StartedFirst'
  BY <1>5 DEF StartedFirst, fixed
<1>10. Origin'
  BY <1>5, <1>6 DEF Origin, Produced
<1> QED
  BY <1>7, <1>8, <1>9, <1>10 DEF IInv

\* The end of do_run().
LEMMA RunEndInv ==
  ASSUME IInv, NEW t \in Threads, RunEnd(t)
  PROVE  IInv'
<1>1. PICK o \in Produced : Finish(o, t, After(t, "ended"))
  BY DEF RunEnd
<1>2. After(t, "ended") \in Labels \ {"running"}
  BY DEF After, Labels
<1>3. pc[t] = "running" /\ ~ done /\ started
  BY DEF RunEnd, IInv, RunsAlone
<1>4. pc' \in [Threads -> Labels] /\ \A u \in Threads : pc'[u] # "running"
  BY <1>1, <1>2, <1>3, FinishedOnce DEF Finish, Finished
<1>5. done' /\ outcome' = o /\ made' = made \cup {t}
      /\ UNCHANGED <<fixed, owner, started, saw>>
  BY <1>1 DEF RunEnd, Finish
<1>6. made = {}
  BY <1>3 DEF IInv, Origin
<1>7. TypeOK'
  BY <1>4, <1>5 DEF IInv, TypeOK, Labels, fixed, Produced, NoOutcome
<1>8. RunsAlone'
  BY <1>4 DEF RunsAlone
<1>9. StartedFirst'
  BY <1>3, <1>5 DEF StartedFirst
<1>10. Origin'
  BY <1>5, <1>6 DEF Origin, Produced
<1> QED
  BY <1>7, <1>8, <1>9, <1>10 DEF IInv

\* ~promise() and owner_destroyed().
LEMMA DestroyInv ==
  ASSUME IInv, Destroy
  PROVE  IInv'
<1>1. CASE IF kind = "promise" THEN done ELSE started
  BY <1>1 DEF Destroy, IInv, TypeOK, RunsAlone, StartedFirst, Origin, fixed
<1>2. CASE ~ (IF kind = "promise" THEN done ELSE started)
  <2>1. /\ done' /\ outcome' = "broken" /\ started' = (kind = "packaged_task")
        /\ pc' = Finished(Nobody, "gone")
        /\ owner' = "gone" /\ UNCHANGED <<fixed, saw, made>>
    BY <1>2 DEF Destroy, Finish, Finished
  <2>2. ~ done
    BY <1>2 DEF IInv, TypeOK, StartedFirst
  <2>3. made = {}
    BY <2>2 DEF IInv, Origin
  <2>4. \A u \in Threads : pc[u] # "running"
    BY <1>2 DEF IInv, RunsAlone
  <2>5. pc' \in [Threads -> Labels] /\ \A u \in Threads : pc'[u] # "running"
    BY <2>1, <2>4, OwnerApart DEF IInv, TypeOK, Finished, Labels
  <2>6. TypeOK'
    BY <2>1, <2>5 DEF IInv, TypeOK, Labels, fixed, NoOutcome
  <2>7. RunsAlone'
    BY <2>5 DEF RunsAlone
  <2>8. StartedFirst' /\ Origin'
    BY <2>1, <2>3 DEF StartedFirst, Origin, fixed
  <2> QED
    BY <2>6, <2>7, <2>8 DEF IInv
<1> QED
  BY <1>1, <1>2

\* Every other action leaves the result as it is.
LEMMA StepInv == IInv /\ [Next]_vars => IInv'
<1> SUFFICES ASSUME IInv, [Next]_vars
             PROVE  IInv'
  OBVIOUS
<1> USE DEF IInv, TypeOK, RunsAlone, StartedFirst, Origin, fixed, Goto
<1>1. ASSUME NEW t \in Threads, SetThrows(t) \/ SetOther(t) \/ RunThrows(t)
      PROVE  IInv'
  BY <1>1 DEF SetThrows, SetOther, RunThrows, After
<1>2. ASSUME NEW t \in Threads, Run(t)
      PROVE  IInv'
  BY <1>2 DEF Run
<1>3. ASSUME NEW w \in Waiters, WaitEnter(w) \/ WaitAgain(w) \/ TimedOut(w)
      PROVE  IInv'
  BY <1>3 DEF WaitEnter, WaitAgain, TimedOut, ReturnOrSleep, Threads
<1>4. ASSUME NEW w \in Waiters, WaitCallback(w) \/ TimeOut(w)
      PROVE  IInv'
  BY <1>4 DEF WaitCallback, TimeOut, Threads
<1>5. CASE MoveAssign
  BY <1>5 DEF MoveAssign
<1>6. CASE UNCHANGED vars
  BY <1>6 DEF vars
<1> HIDE DEF IInv
<1> QED
  BY <1>1, <1>2, <1>3, <1>4, <1>5, <1>6, SetInv, RunEndInv, DestroyInv
  DEF Next, Produce, Wait

LEMMA Invariance == Spec => []IInv
BY InitInv, StepInv, PTL DEF Spec

----------------------------------------------------------------------------
\* The variables have their types: `done' tells whether there is an outcome.
THEOREM Typing == Spec => []TypeOK
<1>1. IInv => TypeOK
  BY DEF IInv
<1> QED
  BY <1>1, Invariance, PTL

\* One call, of producers and wait callbacks together, has produced the result,
\* or it was broken and none has (future_object_base, task_base::run()).
THEOREM SingleOrigin == Spec => []OneOrigin
<1>1. IInv => OneOrigin
  BY FS_EmptySet, FS_Singleton DEF IInv, Origin, OneOrigin
<1> QED
  BY <1>1, Invariance, PTL

\* No call, and no destructor, changes a result that is ready.
THEOREM Standing == Spec => OutcomeStands
<1>1. IInv /\ [Next]_vars => (done => done' /\ outcome' = outcome)
  <2> SUFFICES ASSUME IInv, done, [Next]_vars
               PROVE  done' /\ outcome' = outcome
    OBVIOUS
  <2>1. ASSUME NEW t \in Threads, Produce(t)
        PROVE  done' /\ outcome' = outcome
    BY <2>1
    DEF Produce, Set, SetThrows, SetOther, Run, RunThrows, RunEnd, IInv, RunsAlone
  <2>2. ASSUME NEW w \in Waiters, WaitEnter(w) \/ WaitCallback(w) \/ Wait(w) \/
              TimeOut(w)
        PROVE  done' /\ outcome' = outcome
    BY <2>2
    DEF WaitEnter, WaitCallback, Wait, WaitAgain, TimedOut, TimeOut, ReturnOrSleep
  <2>3. CASE Destroy
    BY <2>3 DEF Destroy, IInv, StartedFirst, TypeOK
  <2>4. CASE MoveAssign \/ UNCHANGED vars
    BY <2>4 DEF MoveAssign, vars
  <2> QED
    BY <2>1, <2>2, <2>3, <2>4 DEF Next
<1>2. IInv /\ [Next]_vars => [done => done' /\ outcome' = outcome]_vars
  BY <1>1
<1> QED
  BY <1>2, Invariance, PTL DEF Spec, OutcomeStands

----------------------------------------------------------------------------
(* wait_for_any(), of FutureWaiter.                                        *)

AnyLabels == {"idle", "add", "lock", "look", "asleep", "woken", "remove", "gone"}

\* The typing the proofs need.
AnyTyped ==
  /\ external \in [Futures -> SUBSET AnyWaiters]
  /\ ppc \in [Futures -> {"idle", "notify", "finished"}]
  /\ left \in [Futures -> SUBSET AnyWaiters]
  /\ mtx \in [Futures -> AnyWaiters \cup {Waiter!Free, Waiter!Producer}]
  /\ anyPc \in [AnyWaiters -> AnyLabels]
  /\ at \in [AnyWaiters -> Nat] /\ \A w \in AnyWaiters : at[w] \in DOMAIN Order[w]
  /\ asleep \subseteq AnyWaiters /\ \A w \in asleep : anyPc[w] = "asleep"

\* Whoever finishes a future holds its mutex, and notifies who is registered.
AnyNotifying ==
  \A f \in Futures :
    /\ ppc[f] = "notify" => mtx[f] = Waiter!Producer
    /\ left[f] # {} => ppc[f] = "notify"
    /\ left[f] \subseteq external[f]

\* A registered waiter is in the call; when it leaves, the futures where it is
\* still registered are those it has not come to.
AnyRegistered ==
  \A f \in Futures : \A w \in external[f] :
    /\ anyPc[w] \notin {"idle", "gone"}
    /\ f \in Waiter!Given(w)
    /\ anyPc[w] = "remove" => \E i \in DOMAIN Order[w] : i >= at[w] /\ Order[w][i] = f

AnyOutside == \A w \in AnyWaiters : anyPc[w] \notin {"add", "lock", "remove"}
      => at[w] = 1

AnyInv == AnyTyped /\ AnyNotifying /\ AnyRegistered /\ AnyOutside

\* The futures a waiter gives.
LEMMA AnyGiven ==
  ASSUME NEW w \in AnyWaiters
  PROVE  /\ Len(Order[w]) \in Nat /\ DOMAIN Order[w] = 1 .. Len(Order[w])
         /\ 1 \in DOMAIN Order[w]
         /\ \A i \in DOMAIN Order[w] : Order[w][i] \in Futures
<1>1. Order[w] \in Seq(Futures) /\ Order[w] # <<>>
  BY FutureWaiterAssumption DEF Waiter!FutureWaiterConstants
<1> QED
  BY <1>1

LEMMA AnyInit == Waiter!Init => AnyInv
  BY AnyGiven
  DEF Waiter!Init, AnyInv, AnyTyped, AnyNotifying, AnyRegistered, AnyOutside, AnyLabels

\* A waiter advances through its futures.
LEMMA AnyAdvances ==
  ASSUME AnyTyped, NEW w \in AnyWaiters, NEW label \in AnyLabels,
         Waiter!Advance(w, label)
  PROVE  /\ at' \in [AnyWaiters -> Nat]
         /\ \A u \in AnyWaiters : at'[u] \in DOMAIN Order[u]
         /\ anyPc' \in [AnyWaiters -> AnyLabels]
         /\ \A u \in AnyWaiters : u # w => anyPc'[u] = anyPc[u] /\ at'[u] = at[u]
         /\ \/ at[w] < Len(Order[w]) /\ at'[w] = at[w] + 1 /\ anyPc'[w] = anyPc[w]
            \/ at[w] = Len(Order[w]) /\ at'[w] = 1 /\ anyPc'[w] = label
<1> USE DEF AnyTyped, Waiter!Advance
<1>1. /\ Len(Order[w]) \in Nat /\ DOMAIN Order[w] = 1 .. Len(Order[w])
      /\ at[w] \in DOMAIN Order[w] /\ 1 \in DOMAIN Order[w]
  BY AnyGiven
<1>2. CASE at[w] < Len(Order[w])
  <2>1. at' = [at EXCEPT ![w] = at[w] + 1] /\ anyPc' = anyPc
    BY <1>2
  <2>2. at[w] + 1 \in DOMAIN Order[w] /\ at[w] + 1 \in Nat
    BY <1>1, <1>2
  <2> QED
    BY <1>2, <2>1, <2>2
<1>3. CASE ~ (at[w] < Len(Order[w]))
  <2>1. at' = [at EXCEPT ![w] = 1] /\ anyPc' = [anyPc EXCEPT ![w] = label]
    BY <1>3
  <2>2. at[w] = Len(Order[w])
    BY <1>1, <1>3
  <2> QED
    BY <1>1, <2>1, <2>2
<1> QED
  BY <1>2, <1>3

\* Add(), LockNext() and Remove() by what they do.
LEMMA AnyStep == AnyInv /\ [Waiter!Next]_Waiter!vars => AnyInv'
<1> SUFFICES ASSUME AnyInv, [Waiter!Next]_Waiter!vars PROVE AnyInv'
  OBVIOUS
<1> USE DEF AnyInv, AnyTyped, AnyNotifying, AnyRegistered, AnyOutside, AnyLabels
<1>1. CASE UNCHANGED Waiter!vars
  BY <1>1 DEF Waiter!vars, Waiter!Given
<1>2. ASSUME NEW f \in Futures, Waiter!FinishLock(f) PROVE AnyInv'
  BY <1>2 DEF Waiter!FinishLock, Waiter!Given
<1>3. ASSUME NEW f \in Futures, NEW w \in AnyWaiters, Waiter!FinishNotify(f, w)
      PROVE  AnyInv'
  BY <1>3 DEF Waiter!FinishNotify, Waiter!Given
<1>4. ASSUME NEW f \in Futures, Waiter!FinishUnlock(f) PROVE AnyInv'
  BY <1>4 DEF Waiter!FinishUnlock, Waiter!Given
<1>5. ASSUME NEW w \in AnyWaiters, Waiter!Call(w) PROVE AnyInv'
  BY <1>5 DEF Waiter!Call, Waiter!Given
<1>6. ASSUME NEW w \in AnyWaiters, Waiter!Add(w) PROVE AnyInv'
  <2> DEFINE g == Order[w][at[w]]
  <2>1. g \in Futures /\ g \in Waiter!Given(w)
    BY AnyGiven DEF Waiter!Given
  <2>2. Waiter!Advance(w, "lock") /\ anyPc[w] = "add"
    BY <1>6 DEF Waiter!Add
  <2>3. /\ mtx[g] = Waiter!Free /\ external' = [external EXCEPT ![g] = @ \cup {w}]
        /\ UNCHANGED <<mtx, ppc, left, asleep>>
    BY <1>6 DEF Waiter!Add
  <2> HIDE DEF g
  <2>4. AnyTyped'
    BY <2>1, <2>2, <2>3, AnyAdvances
  <2>5. AnyNotifying'
    BY <2>1, <2>3
  <2>6. AnyRegistered'
    <3> SUFFICES ASSUME NEW f \in Futures, NEW u \in AnyWaiters, u \in external'[f]
                 PROVE  /\ anyPc'[u] \notin {"idle", "gone"} /\ f \in Waiter!Given(u)
                        /\ anyPc'[u] = "remove" =>
                             \E i \in DOMAIN Order[u] : i >= at'[u] /\ Order[u][i] = f
      BY <2>4 DEF Waiter!Given
    <3>1. CASE u = w
      BY <2>1, <2>2, <2>3, <3>1, AnyAdvances
    <3>2. CASE u # w
      BY <2>1, <2>2, <2>3, <3>2, AnyAdvances
    <3> QED
      BY <3>1, <3>2
  <2>7. AnyOutside'
    <3> SUFFICES ASSUME NEW u \in AnyWaiters, anyPc'[u] \notin {"add", "lock", "remove"}
                 PROVE  at'[u] = 1
      OBVIOUS
    <3>1. CASE u = w
      BY <2>2, <3>1, AnyAdvances
    <3>2. CASE u # w
      BY <2>2, <3>2, AnyAdvances
    <3> QED
      BY <3>1, <3>2
  <2> QED
    BY <2>4, <2>5, <2>6, <2>7
<1>7. ASSUME NEW w \in AnyWaiters, Waiter!LockNext(w) PROVE AnyInv'
  <2> DEFINE g == Order[w][at[w]]
  <2>1. g \in Futures
    BY AnyGiven
  <2>2. Waiter!Advance(w, "look") /\ anyPc[w] = "lock"
    BY <1>7 DEF Waiter!LockNext
  <2>3. /\ mtx[g] = Waiter!Free /\ mtx' = [mtx EXCEPT ![g] = w]
        /\ UNCHANGED <<external, ppc, left, asleep>>
    BY <1>7 DEF Waiter!LockNext
  <2> HIDE DEF g
  <2>4. AnyTyped'
    BY <2>1, <2>2, <2>3, AnyAdvances
  <2>5. AnyNotifying'
    BY <2>1, <2>3 DEF Waiter!Free, Waiter!Producer
  <2>6. AnyRegistered'
    <3> SUFFICES ASSUME NEW f \in Futures, NEW u \in AnyWaiters, u \in external'[f]
                 PROVE  /\ anyPc'[u] \notin {"idle", "gone"} /\ f \in Waiter!Given(u)
                        /\ anyPc'[u] = "remove" =>
                             \E i \in DOMAIN Order[u] : i >= at'[u] /\ Order[u][i] = f
      BY <2>4 DEF Waiter!Given
    <3>1. CASE u = w
      BY <2>1, <2>2, <2>3, <3>1, AnyAdvances
    <3>2. CASE u # w
      BY <2>1, <2>2, <2>3, <3>2, AnyAdvances
    <3> QED
      BY <3>1, <3>2
  <2>7. AnyOutside'
    <3> SUFFICES ASSUME NEW u \in AnyWaiters, anyPc'[u] \notin {"add", "lock", "remove"}
                 PROVE  at'[u] = 1
      OBVIOUS
    <3>1. CASE u = w
      BY <2>2, <3>1, AnyAdvances
    <3>2. CASE u # w
      BY <2>2, <3>2, AnyAdvances
    <3> QED
      BY <3>1, <3>2
  <2> QED
    BY <2>4, <2>5, <2>6, <2>7
<1>8. ASSUME NEW w \in AnyWaiters, Waiter!Sleep(w) \/ Waiter!Find(w) PROVE AnyInv'
  <2>1. \A f \in Futures : mtx[f] = Waiter!Producer => mtx'[f] = Waiter!Producer
    BY <1>8, FutureWaiterAssumption
    DEF Waiter!Sleep, Waiter!Find, Waiter!Released, Waiter!FutureWaiterConstants
  <2>2. mtx' \in [Futures -> AnyWaiters \cup {Waiter!Free, Waiter!Producer}]
    BY <1>8 DEF Waiter!Sleep, Waiter!Find, Waiter!Released
  <2>3. UNCHANGED <<external, ppc, left, at>>
    BY <1>8 DEF Waiter!Sleep, Waiter!Find
  <2>4. /\ anyPc[w] = "look"
        /\ anyPc'[w] \in {"asleep", "remove"}
        /\ anyPc' \in [AnyWaiters -> AnyLabels]
        /\ \A u \in AnyWaiters : u # w => anyPc'[u] = anyPc[u]
    BY <1>8 DEF Waiter!Sleep, Waiter!Find
  <2>5. \A u \in asleep' : anyPc'[u] = "asleep"
    BY <1>8 DEF Waiter!Sleep, Waiter!Find
  <2>6. AnyTyped'
    <3>1. asleep' \subseteq AnyWaiters
      BY <1>8 DEF Waiter!Sleep, Waiter!Find
    <3> QED
      BY <2>2, <2>3, <2>4, <2>5, <3>1
  <2>9. AnyNotifying' /\ AnyOutside'
    BY <2>1, <2>3, <2>4
  <2>7. at[w] = 1 /\ \A i \in DOMAIN Order[w] : i >= 1
    <3>1. Len(Order[w]) \in Nat /\ DOMAIN Order[w] = 1 .. Len(Order[w])
      BY AnyGiven
    <3>2. at[w] = 1
      BY <2>4
    <3> QED
      BY <3>1, <3>2
  <2>8. AnyRegistered'
    BY <2>3, <2>4, <2>7 DEF Waiter!Given
  <2> QED
    BY <2>6, <2>8, <2>9
<1>9. ASSUME NEW w \in AnyWaiters, Waiter!Relock(w) PROVE AnyInv'
  <2>1. \A f \in Futures : mtx[f] = Waiter!Producer => mtx'[f] = Waiter!Producer
    BY <1>9 DEF Waiter!Relock, Waiter!Free, Waiter!Producer
  <2>2. mtx' \in [Futures -> AnyWaiters \cup {Waiter!Free, Waiter!Producer}]
    BY <1>9 DEF Waiter!Relock
  <2> QED
    BY <1>9, <2>1, <2>2 DEF Waiter!Relock, Waiter!Given
<1>10. ASSUME NEW w \in AnyWaiters, Waiter!Remove(w) PROVE AnyInv'
  <2> DEFINE g == Order[w][at[w]]
  <2>1. g \in Futures
    BY AnyGiven
  <2>2. Waiter!Advance(w, "gone") /\ anyPc[w] = "remove"
    BY <1>10 DEF Waiter!Remove
  <2>3. /\ mtx[g] = Waiter!Free /\ external' = [external EXCEPT ![g] = @ \ {w}]
        /\ UNCHANGED <<mtx, ppc, left, asleep>>
    BY <1>10 DEF Waiter!Remove
  <2>8. ASSUME NEW f \in Futures, w \in external'[f]
        PROVE  \E i \in DOMAIN Order[w] : i > at[w] /\ Order[w][i] = f
    BY <2>1, <2>2, <2>3, <2>8, AnyGiven
  <2> HIDE DEF g
  <2>4. AnyTyped'
    BY <2>1, <2>2, <2>3, AnyAdvances
  <2>5. AnyNotifying'
    BY <2>1, <2>3 DEF Waiter!Free, Waiter!Producer
  <2>6. AnyRegistered'
    BY <2>1, <2>2, <2>3, <2>8, AnyAdvances, AnyGiven DEF Waiter!Given
  <2>7. AnyOutside'
    <3> SUFFICES ASSUME NEW u \in AnyWaiters, anyPc'[u] \notin {"add", "lock", "remove"}
                 PROVE  at'[u] = 1
      OBVIOUS
    <3>1. CASE u = w
      BY <2>2, <3>1, AnyAdvances
    <3>2. CASE u # w
      BY <2>2, <3>2, AnyAdvances
    <3> QED
      BY <3>1, <3>2
  <2> QED
    BY <2>4, <2>5, <2>6, <2>7
<1> QED
  BY <1>1, <1>2, <1>3, <1>4, <1>5, <1>6, <1>7, <1>8, <1>9, <1>10
  DEF Waiter!Next, Waiter!FinishStep, Waiter!WaitStep

\* Whoever finishes a future notifies no condition that its future_waiter has
\* destroyed: ~future_waiter() takes it back from every future, under the mutex
\* held for the notifications (spin/future.hpp:60-80, :350).
THEOREM AnyConditionLives == Waiter!Spec => []AnyNotifiesTheLiving
<1>1. AnyInv => AnyNotifiesTheLiving
  BY DEF AnyInv, AnyTyped, AnyNotifying, AnyRegistered, AnyNotifiesTheLiving,
         Waiter!NotifiesTheLiving
<1> QED
  BY AnyInit, AnyStep, <1>1, PTL DEF Waiter!Spec

=============================================================================
