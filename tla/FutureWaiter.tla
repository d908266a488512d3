---------------------------- MODULE FutureWaiter ----------------------------
(***************************************************************************)
(* wait_for_any() (spin/future.hpp): a future_waiter registers its         *)
(* condition cv with each future, locks the mutexes of all of them one     *)
(* after the other, looks for one that is done and sleeps on cv with all   *)
(* of them; at the end it removes cv everywhere and destroys it.  A thread *)
(* that finishes a future notifies the registered conditions under the     *)
(* mutex of the future.  Of the condition no more is taken than what       *)
(* SpinCondition shows.  Futures without a result, which add() skips, are  *)
(* left out, and so is the callback that a lazy one runs at registration   *)
(* (SpinFuture): it only finishes the future, which Producer may do.       *)
(***************************************************************************)
EXTENDS Integers, Sequences, FiniteSets

CONSTANTS
  Futures,
  Waiters,      \* threads that call wait_for_any()
  Order         \* the futures each of them gives, in the order it gives them

Free == "free"
Producer == "producer"  \* whoever finishes a future

\* Assumed by the modules that instantiate this one.
FutureWaiterConstants ==
  /\ DOMAIN Order = Waiters
  /\ \A w \in Waiters : Order[w] \in Seq(Futures) \ {<<>>}
  /\ {Free, Producer} \cap Waiters = {}

VARIABLES
  done,         \* done of each future
  mtx,          \* mtx of each future: who holds it
  external,     \* external_waiters: the waiters registered with each future
  ppc,          \* where the producer of each future is
  left,         \* the registered waiters it has still to notify
  asleep,       \* the waiters asleep on their cv
  pc,           \* where each waiter is
  at            \* how far it is through its futures

vars == <<done, mtx, external, ppc, left, asleep, pc, at>>

Init ==
  /\ done = [f \in Futures |-> FALSE]
  /\ mtx = [f \in Futures |-> Free]
  /\ external = [f \in Futures |-> {}]
  /\ ppc = [f \in Futures |-> "idle"]
  /\ left = [f \in Futures |-> {}]
  /\ asleep = {}
  /\ pc = [w \in Waiters |-> "idle"]
  /\ at = [w \in Waiters |-> 1]

Given(w) == {Order[w][i] : i \in DOMAIN Order[w]}

----------------------------------------------------------------------------
(* mark_finished_internal(), called with mtx locked.                       *)

\* Mutant of FinishLock: the mutex is released before the notifications.
FinishUnlocked(f) ==
  /\ ppc[f] = "idle"
  /\ mtx[f] = Free
  /\ done' = [done EXCEPT ![f] = TRUE]
  /\ left' = [left EXCEPT ![f] = external[f]]
  /\ ppc' = [ppc EXCEPT ![f] = "notify"]
  /\ UNCHANGED <<mtx, external, asleep, pc, at>>

FinishLock(f) ==
  /\ ppc[f] = "idle"
  /\ mtx[f] = Free
  /\ mtx' = [mtx EXCEPT ![f] = Producer]
  /\ done' = [done EXCEPT ![f] = TRUE]
  /\ left' = [left EXCEPT ![f] = external[f]]
  /\ ppc' = [ppc EXCEPT ![f] = "notify"]
  /\ UNCHANGED <<external, asleep, pc, at>>

\* notify_all() on a registered cv, on which only w can sleep.
FinishNotify(f, w) ==
  /\ ppc[f] = "notify"
  /\ w \in left[f]
  /\ left' = [left EXCEPT ![f] = @ \ {w}]
  /\ asleep' = asleep \ {w}
  /\ pc' = [pc EXCEPT ![w] = IF w \in asleep THEN "woken" ELSE @]
  /\ UNCHANGED <<done, mtx, external, ppc, at>>

FinishUnlock(f) ==
  /\ ppc[f] = "notify"
  /\ left[f] = {}
  /\ mtx' = [mtx EXCEPT ![f] = Free]
  /\ ppc' = [ppc EXCEPT ![f] = "finished"]
  /\ UNCHANGED <<done, external, left, asleep, pc, at>>

----------------------------------------------------------------------------
(* wait_for_any().                                                         *)

Advance(w, label) ==
  IF at[w] < Len(Order[w])
  THEN at' = [at EXCEPT ![w] = @ + 1] /\ UNCHANGED pc
  ELSE at' = [at EXCEPT ![w] = 1] /\ pc' = [pc EXCEPT ![w] = label]

Call(w) ==
  /\ pc[w] = "idle"
  /\ pc' = [pc EXCEPT ![w] = "add"]
  /\ UNCHANGED <<done, mtx, external, ppc, left, asleep, at>>

\* add(): registers cv under the mutex of the future.
Add(w) ==
  LET f == Order[w][at[w]] IN
  /\ pc[w] = "add"
  /\ mtx[f] = Free
  /\ external' = [external EXCEPT ![f] = @ \cup {w}]
  /\ Advance(w, "lock")
  /\ UNCHANGED <<done, mtx, ppc, left, asleep>>

\* all_futures_lock(): locks one mutex after the other.
LockNext(w) ==
  LET f == Order[w][at[w]] IN
  /\ pc[w] = "lock"
  /\ mtx[f] = Free
  /\ mtx' = [mtx EXCEPT ![f] = w]
  /\ Advance(w, "look")
  /\ UNCHANGED <<done, external, ppc, left, asleep>>

Released(w) == [f \in Futures |-> IF mtx[f] = w THEN Free ELSE mtx[f]]

\* Mutant of Sleep: cv.wait() unlocks before it enlists the waiter.
SleepLate(w) ==
  \/ /\ pc[w] = "look"
     /\ \A f \in Given(w) : ~ done[f]
     /\ mtx' = Released(w)
     /\ pc' = [pc EXCEPT ![w] = "enlist"]
     /\ UNCHANGED <<done, external, ppc, left, asleep, at>>
  \/ /\ pc[w] = "enlist"
     /\ asleep' = asleep \cup {w}
     /\ pc' = [pc EXCEPT ![w] = "asleep"]
     /\ UNCHANGED <<done, mtx, external, ppc, left, at>>

\* None is done: cv.wait() enlists the waiter, then unlocks the mutexes.
Sleep(w) ==
  /\ pc[w] = "look"
  /\ \A f \in Given(w) : ~ done[f]
  /\ asleep' = asleep \cup {w}
  /\ mtx' = Released(w)
  /\ pc' = [pc EXCEPT ![w] = "asleep"]
  /\ UNCHANGED <<done, external, ppc, left, at>>

\* boost::lock() holds on to nothing while it waits for a mutex.
Relock(w) ==
  /\ pc[w] = "woken"
  /\ \A f \in Given(w) : mtx[f] = Free
  /\ mtx' = [f \in Futures |-> IF f \in Given(w) THEN w ELSE mtx[f]]
  /\ pc' = [pc EXCEPT ![w] = "look"]
  /\ UNCHANGED <<done, external, ppc, left, asleep, at>>

\* One is done: wait() returns its index and unlocks all.
Find(w) ==
  /\ pc[w] = "look"
  /\ \E f \in Given(w) : done[f]
  /\ mtx' = Released(w)
  /\ pc' = [pc EXCEPT ![w] = "remove"]
  /\ UNCHANGED <<done, external, ppc, left, asleep, at>>

\* ~future_waiter(): takes cv back under the mutex of each future; after the last
\* one cv is destroyed.
Remove(w) ==
  LET f == Order[w][at[w]] IN
  /\ pc[w] = "remove"
  /\ mtx[f] = Free
  /\ external' = [external EXCEPT ![f] = @ \ {w}]
  /\ Advance(w, "gone")
  /\ UNCHANGED <<done, mtx, ppc, left, asleep>>

----------------------------------------------------------------------------
FinishStep(f) == FinishUnlock(f) \/ \E w \in Waiters : FinishNotify(f, w)

WaitStep(w) ==
  Add(w) \/ LockNext(w) \/ Sleep(w) \/ Relock(w) \/ Find(w) \/ Remove(w)

Next ==
  \/ \E f \in Futures : FinishLock(f) \/ FinishStep(f)
  \/ \E w \in Waiters : Call(w) \/ WaitStep(w)

Spec == Init /\ [][Next]_vars

\* Whoever finishes a future, or has called wait_for_any(), runs on and gets a
\* mutex that is free again and again; nobody has to call or to finish a future.
Fairness ==
  /\ \A f \in Futures : WF_vars(FinishStep(f))
  /\ \A w \in Waiters : SF_vars(WaitStep(w))

----------------------------------------------------------------------------
(* Properties.                                                             *)

TypeOK ==
  /\ done \in [Futures -> BOOLEAN]
  /\ mtx \in [Futures -> Waiters \cup {Free, Producer}]
  /\ external \in [Futures -> SUBSET Waiters]
  /\ ppc \in [Futures -> {"idle", "notify", "finished"}]
  /\ left \in [Futures -> SUBSET Waiters]
  /\ asleep = {w \in Waiters : pc[w] = "asleep"}
  /\ pc \in [Waiters -> {"idle", "add", "lock", "look", "asleep", "woken", "remove",
                         "gone"}]
  /\ \A w \in Waiters : at[w] \in DOMAIN Order[w]

\* No cv is notified after it was destroyed with its future_waiter.
NotifiesTheLiving == \A f \in Futures : \A w \in left[f] : pc[w] # "gone"

\* wait_for_any() returns once one of its futures is done, wherever it is when
\* that happens (spin_futures.qbk:98).
AnyReturns ==
  \A w \in Waiters :
    (pc[w] # "idle" /\ \E f \in Given(w) : done[f]) ~> pc[w] = "gone"

=============================================================================
