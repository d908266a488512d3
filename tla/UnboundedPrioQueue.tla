------------------------- MODULE UnboundedPrioQueue -------------------------
(***************************************************************************)
(* detail::unbounded_prio_queue_base (unbounded_prio_queue.hpp) and the    *)
(* workers that live on it.  Every function holds mtx_ from its first      *)
(* access to its last; what does not is the semaphore: put() posts it      *)
(* before it unlocks, and a worker that found nothing waits on it without  *)
(* the mutex.  As in BoundedPrioQueue the queue is its length, and the     *)
(* semaphore is what FastSemaphore promises, a number of permits.          *)
(***************************************************************************)
EXTENDS Naturals, FiniteSets

CONSTANTS
  Producers,    \* threads that call put()
  Workers,      \* threads that call try_take(), and wait when it finds nothing
  MaxPermits    \* bound: posts that no wait() has used, at which no put() begins

Free == "free"

UnboundedPrioQueueConstants ==
  /\ MaxPermits \in Nat
  /\ IsFiniteSet(Producers) /\ IsFiniteSet(Workers)
  /\ Producers \cap Workers = {} /\ Free \notin Producers

VARIABLES
  active,       \* state_ is ACTIVE
  size,         \* size of queue_
  mtx,          \* the thread that holds mtx_ for longer than a step
  pc,           \* where each thread is
  permits       \* posts to fsem_ that no wait() has used

vars == <<active, size, mtx, pc, permits>>

Init ==
  /\ active = TRUE
  /\ size = 0
  /\ mtx = Free
  /\ pc = [t \in Producers \cup Workers |-> "idle"]
  /\ permits = 0

Goto(t, label) == pc' = [pc EXCEPT ![t] = label]

----------------------------------------------------------------------------
(* put().                                                                  *)

PutLock(p) ==
  /\ pc[p] = "idle"
  /\ permits < MaxPermits
  /\ mtx = Free
  /\ mtx' = p
  /\ Goto(p, "check")
  /\ UNCHANGED <<active, size, permits>>

\* Throws task_rejected.
PutReject(p) ==
  /\ pc[p] = "check"
  /\ ~ active
  /\ mtx' = Free
  /\ Goto(p, "idle")
  /\ UNCHANGED <<active, size, permits>>

PutCheck(p) ==
  /\ pc[p] = "check"
  /\ active
  /\ Goto(p, "push")
  /\ UNCHANGED <<active, size, mtx, permits>>

PutPush(p) ==
  /\ pc[p] = "push"
  /\ size' = size + 1
  /\ Goto(p, "post")
  /\ UNCHANGED <<active, mtx, permits>>

\* Mutant of PutPost: only the task that an empty queue gets is posted.
PutPostFirst(p) ==
  /\ pc[p] = "post"
  /\ permits' = IF size = 1 THEN permits + 1 ELSE permits
  /\ mtx' = Free
  /\ Goto(p, "idle")
  /\ UNCHANGED <<active, size>>

PutPost(p) ==
  /\ pc[p] = "post"
  /\ permits' = permits + 1
  /\ mtx' = Free
  /\ Goto(p, "idle")
  /\ UNCHANGED <<active, size>>

----------------------------------------------------------------------------
(* The workers, and deactivate().                                          *)

\* try_take(); the task runs before the worker comes back.
Take(w) ==
  /\ pc[w] = "idle"
  /\ mtx = Free
  /\ size > 0
  /\ size' = size - 1
  /\ UNCHANGED <<active, mtx, pc, permits>>

TakeEmpty(w) ==
  /\ pc[w] = "idle"
  /\ mtx = Free
  /\ size = 0
  /\ Goto(w, "wait")
  /\ UNCHANGED <<active, size, mtx, permits>>

\* fsem_.wait() uses a permit or sleeps until there is one.
Wait(w) ==
  /\ pc[w] = "wait"
  /\ permits > 0
  /\ permits' = permits - 1
  /\ Goto(w, "idle")
  /\ UNCHANGED <<active, size, mtx>>

Deactivate ==
  /\ mtx = Free
  /\ active' = FALSE
  /\ UNCHANGED <<size, mtx, pc, permits>>

----------------------------------------------------------------------------
Next ==
  \/ \E p \in Producers :
       PutLock(p) \/ PutReject(p) \/ PutCheck(p) \/ PutPush(p) \/ PutPost(p)
  \/ \E w \in Workers : Take(w) \/ TakeEmpty(w) \/ Wait(w)
  \/ Deactivate

Spec == Init /\ [][Next]_vars

----------------------------------------------------------------------------
(* Properties.                                                             *)

TypeOK ==
  /\ active \in BOOLEAN
  /\ size \in Nat /\ permits \in Nat
  /\ mtx \in Producers \cup {Free}
  /\ pc \in [Producers \cup Workers -> {"idle", "check", "push", "post", "wait"}]

At(S, label) == {t \in S : pc[t] = label}

\* No worker sleeps beside a task that nobody comes for: every task in the queue
\* has a permit, a put() that is about to post, or a worker that will look again.
NobodySleepsBesideWork ==
  size <= permits + Cardinality(At(Producers, "post"))
                  + Cardinality(At(Workers, "idle"))

\* A closed queue takes nothing more.
NothingEntersClosed == [][~ active => size' <= size]_vars

=============================================================================
