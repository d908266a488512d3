---------------------------- MODULE FastSemaphore ----------------------------
(***************************************************************************)
(* boost::tasks::fast_semaphore (src/fast_semaphore.cpp): an atomic        *)
(* counter in front of a kernel semaphore.  Worker threads of a pool wait  *)
(* on it when they find no work, queues post it for every item, shutdown   *)
(* deactivates it.  Every atomic access is a step of its own.              *)
(*                                                                         *)
(* A negative sem_count is the number of threads that went below zero; the *)
(* kernel semaphore sem is only entered below zero.  The first of these    *)
(* threads does not sleep: wait() returns when fetch_sub found 0.          *)
(***************************************************************************)
EXTENDS Integers, FiniteSets

CONSTANTS
  Threads,      \* threads that call wait() and post()
  InitCount,    \* sem_count of the constructor, 0 in pool_base
  SpinCount,    \* spin_count of the constructor, 0 in pool_base
  MaxCalls      \* bound: calls of wait() and post() per thread

ASSUME FiniteThreads  == IsFiniteSet(Threads)
ASSUME InitCountNat   == InitCount \in Nat   \* else the constructor throws
ASSUME SpinCountNat   == SpinCount \in Nat
ASSUME MaxCallsNat    == MaxCalls \in Nat

VARIABLES
  sem_count,    \* atomic< int > sem_count_
  sem_active,   \* atomic< bool > sem_active_
  sem,          \* value of the kernel semaphore sem_
  pc,           \* where each thread is in wait(), try_wait() or post()
  spins,        \* wait(): tries left in the spin loop
  seen,         \* try_wait(): the counter it loaded
  calls,        \* calls left to each thread
  dpc,          \* where the thread that runs deactivate() is
  dcount        \* deactivate(): the argument of post(), then of sem_.post()

vars == <<sem_count, sem_active, sem, pc, spins, seen, calls, dpc, dcount>>

Abs(n) == IF n < 0 THEN -n ELSE n
Lesser(m, n) == IF m < n THEN m ELSE n

Init ==
  /\ sem_count = InitCount
  /\ sem_active = TRUE
  /\ sem = InitCount
  /\ pc = [t \in Threads |-> "idle"]
  /\ spins = [t \in Threads |-> 0]
  /\ seen = [t \in Threads |-> 0]
  /\ calls = [t \in Threads |-> MaxCalls]
  /\ dpc = "idle"
  /\ dcount = 0

Goto(t, label) == pc' = [pc EXCEPT ![t] = label]

----------------------------------------------------------------------------
(* wait() and the try_wait() of its spin loop.                             *)

BeginWait(t) ==
  /\ pc[t] = "idle"
  /\ calls[t] > 0
  /\ calls' = [calls EXCEPT ![t] = @ - 1]
  /\ spins' = [spins EXCEPT ![t] = SpinCount]
  /\ Goto(t, IF SpinCount > 0 THEN "try_load" ELSE "fetch_sub")
  /\ UNCHANGED <<sem_count, sem_active, sem, seen, dpc, dcount>>

TryLoad(t) ==
  /\ pc[t] = "try_load"
  /\ seen' = [seen EXCEPT ![t] = sem_count]
  /\ Goto(t, "try_active")
  /\ UNCHANGED <<sem_count, sem_active, sem, spins, calls, dpc, dcount>>

\* A failed try_wait(): the next round of the spin loop, or its end.
TryFailed(t) ==
  /\ spins' = [spins EXCEPT ![t] = @ - 1]
  /\ Goto(t, IF spins[t] > 1 THEN "try_load" ELSE "fetch_sub")

TryActive(t) ==
  /\ pc[t] = "try_active"
  /\ IF sem_active /\ seen[t] > 0
       THEN Goto(t, "try_cas") /\ UNCHANGED spins
       ELSE TryFailed(t)
  /\ UNCHANGED <<sem_count, sem_active, sem, seen, calls, dpc, dcount>>

TryCas(t) ==
  /\ pc[t] = "try_cas"
  /\ IF sem_count = seen[t]
       THEN sem_count' = sem_count - 1 /\ Goto(t, "idle")
       ELSE UNCHANGED sem_count /\ Goto(t, "try_load")
  /\ UNCHANGED <<sem_active, sem, spins, seen, calls, dpc, dcount>>

FetchSub(t) ==
  /\ pc[t] = "fetch_sub"
  /\ sem_count' = sem_count - 1
  /\ Goto(t, IF 0 <= sem_count THEN "idle" ELSE "check_active")
  /\ UNCHANGED <<sem_active, sem, spins, seen, calls, dpc, dcount>>

CheckActive(t) ==
  /\ pc[t] = "check_active"
  /\ Goto(t, IF sem_active THEN "sem_wait" ELSE "idle")
  /\ UNCHANGED <<sem_count, sem_active, sem, spins, seen, calls, dpc, dcount>>

\* semaphore::wait(): the kernel blocks the thread until a token is there.
SemWait(t) ==
  /\ pc[t] = "sem_wait"
  /\ sem > 0
  /\ sem' = sem - 1
  /\ Goto(t, "idle")
  /\ UNCHANGED <<sem_count, sem_active, spins, seen, calls, dpc, dcount>>

----------------------------------------------------------------------------
(* post() with its default argument 1, the only one a queue passes.        *)

\* Mutant of Post: a token only when the counter reaches 0.
PostAtCrossing(t) ==
  /\ pc[t] = "idle"
  /\ calls[t] > 0
  /\ calls' = [calls EXCEPT ![t] = @ - 1]
  /\ sem_count' = sem_count + 1
  /\ Goto(t, IF sem_count = -1 THEN "sem_post" ELSE "idle")
  /\ UNCHANGED <<sem_active, sem, spins, seen, dpc, dcount>>

Post(t) ==
  /\ pc[t] = "idle"
  /\ calls[t] > 0
  /\ calls' = [calls EXCEPT ![t] = @ - 1]
  /\ sem_count' = sem_count + 1
  /\ Goto(t, IF sem_count < 0 THEN "sem_post" ELSE "idle")
  /\ UNCHANGED <<sem_active, sem, spins, seen, dpc, dcount>>

SemPost(t) ==
  /\ pc[t] = "sem_post"
  /\ sem' = sem + 1
  /\ Goto(t, "idle")
  /\ UNCHANGED <<sem_count, sem_active, spins, seen, calls, dpc, dcount>>

----------------------------------------------------------------------------
(* deactivate(), called once: pool_base::deactivate_() guards it.          *)

\* Mutant of Deactivate: the flag is not stored.
DeactivateNoStore ==
  /\ dpc = "idle"
  /\ dpc' = "load"
  /\ UNCHANGED <<sem_count, sem_active, sem, pc, spins, seen, calls, dcount>>

Deactivate ==
  /\ dpc = "idle"
  /\ sem_active' = FALSE
  /\ dpc' = "load"
  /\ UNCHANGED <<sem_count, sem, pc, spins, seen, calls, dcount>>

\* Mutant of DeactivateLoad: post() with its default argument.
DeactivateLoadOne ==
  /\ dpc = "load"
  /\ dcount' = 1
  /\ dpc' = "post"
  /\ UNCHANGED <<sem_count, sem_active, sem, pc, spins, seen, calls>>

DeactivateLoad ==
  /\ dpc = "load"
  /\ dcount' = Abs(sem_count)
  /\ dpc' = "post"
  /\ UNCHANGED <<sem_count, sem_active, sem, pc, spins, seen, calls>>

\* post( std::abs( ...)): semaphore::post() throws on an argument of 0,
\* which it gets when the counter was 0 at the load and is below 0 now.
DeactivatePost ==
  /\ dpc = "post"
  /\ sem_count' = sem_count + dcount
  /\ IF sem_count < 0
       THEN /\ dcount' = Lesser(dcount, -sem_count)
            /\ dpc' = IF dcount = 0 THEN "threw" ELSE "sem_post"
       ELSE /\ dpc' = "done"
            /\ UNCHANGED dcount
  /\ UNCHANGED <<sem_active, sem, pc, spins, seen, calls>>

DeactivateSemPost ==
  /\ dpc = "sem_post"
  /\ sem' = sem + dcount
  /\ dpc' = "done"
  /\ UNCHANGED <<sem_count, sem_active, pc, spins, seen, calls, dcount>>

----------------------------------------------------------------------------
WaitStep(t) ==
  \/ TryLoad(t) \/ TryActive(t) \/ TryCas(t)
  \/ FetchSub(t) \/ CheckActive(t) \/ SemWait(t)

DeactivateStep == DeactivateLoad \/ DeactivatePost \/ DeactivateSemPost

Next ==
  \/ \E t \in Threads :
       BeginWait(t) \/ WaitStep(t) \/ Post(t) \/ SemPost(t)
  \/ Deactivate
  \/ DeactivateStep

\* A thread inside a call keeps running (the scheduler runs every ready
\* thread); nobody has to call anything.
Fairness ==
  /\ \A t \in Threads : WF_vars(WaitStep(t) \/ SemPost(t))
  /\ WF_vars(DeactivateStep)

Spec == Init /\ [][Next]_vars /\ Fairness

----------------------------------------------------------------------------
(* Properties.                                                             *)

Labels == {"idle", "try_load", "try_active", "try_cas",
           "fetch_sub", "check_active", "sem_wait", "sem_post"}

TypeOK ==
  /\ sem_count \in Int
  /\ sem_active \in BOOLEAN
  /\ sem \in Nat
  /\ pc \in [Threads -> Labels]
  /\ spins \in [Threads -> Int]
  /\ seen \in [Threads -> Int]
  /\ calls \in [Threads -> Nat]
  /\ dpc \in {"idle", "load", "post", "sem_post", "done", "threw"}
  /\ dcount \in Nat

\* The threads that nothing but a token of the kernel semaphore releases.
Committed ==
  {t \in Threads : \/ pc[t] = "sem_wait"
                   \/ pc[t] = "check_active" /\ sem_active}

\* The threads whose post() still has to put its token.
Posting == {t \in Threads : pc[t] = "sem_post"}

\* Tokens that are there or on their way.
Tokens ==
  sem + Cardinality(Posting) + (IF dpc = "sem_post" THEN dcount ELSE 0)

\* With `owed' threads asleep beyond the tokens, a counter that is not
\* negative leaves none, and -n leaves at most n - 1: the first of the n
\* threads below zero does not sleep.
Covered(owed, n) == /\ n >= 0 => owed <= 0
                    /\ n < 0  => owed + n < 0

\* No lost wakeup, in wait() and post(): once post() has brought the counter
\* back to 0 no thread sleeps without a token there or on its way.
NoLostWakeup == Covered(Cardinality(Committed) - Tokens, sem_count)

\* deactivate() releases everyone: once it has added to the counter, as many
\* tokens are there or on their way as threads sleep, although the counter
\* moved between its load and its post().
DeactivationReleasesAll ==
  dpc \in {"sem_post", "done", "threw"} => Cardinality(Committed) <= Tokens

\* A thread asleep in wait() when deactivate() ends does wake up.
DeactivationWakes ==
  \A t \in Threads :
    (dpc = "done" /\ pc[t] = "sem_wait") ~> (pc[t] # "sem_wait")

\* The documentation: the destructor of a pool, which runs deactivate(),
\* throws nothing.
DeactivateThrowsNothing == dpc # "threw"

=============================================================================
