----------------------------- MODULE TaskHandle -----------------------------
(***************************************************************************)
(* A function that is run by new_thread, own_thread or a pool, the handle  *)
(* to it (task, task_object) with a future and a context, and the callable *)
(* with the promise.  Every operation of a context is one step under its   *)
(* mtx_; promise and future are those of SpinFuture or of boost.thread.    *)
(*                                                                         *)
(* The promise is destroyed, and an unset one broken, with the last copy   *)
(* of the callable.  A boost::thread keeps its copy until it is joined or  *)
(* destroyed, and the context of the handle keeps the thread.              *)
(***************************************************************************)
EXTENDS Naturals

CONSTANTS
  Users,        \* threads that call operations of the handle
  Timed,        \* those that wait with a time
  MaxCalls      \* bound: calls of each user

TaskHandleConstants == Timed \subseteq Users /\ MaxCalls \in Nat

VARIABLES
  by,           \* what runs the function
  launch,       \* where operator(), or submit(), is
  fn,           \* what the function does
  outcome,      \* what the future holds
  requested,    \* requested_ of the handle's context
  thrd,         \* its thrd_ is set
  interruption, \* the thread was told to interrupt and has not reacted yet
  handle,       \* the handle lives
  pc, calls     \* where each user is, and the calls it has made

vars == <<by, launch, fn, outcome, requested, thrd, interruption, handle, pc, calls>>

Init ==
  /\ by \in {"new_thread", "own_thread", "pool"}
  /\ launch = "made"                    \* promise, future, contexts, callable
  /\ fn = "none"
  /\ outcome = "none"
  /\ requested = FALSE /\ thrd = FALSE /\ interruption = FALSE
  /\ handle = "made"
  /\ pc = [u \in Users |-> "idle"]
  /\ calls = [u \in Users |-> 0]

----------------------------------------------------------------------------
(* Launching it.                                                           *)

\* new_thread: `new thread( ca)', the callable has a context of its own.
StartThread ==
  /\ by = "new_thread" /\ launch = "made"
  /\ launch' = "started"
  /\ fn' = "running"
  /\ UNCHANGED <<by, outcome, requested, thrd, interruption, handle, pc, calls>>

\* `ctx1.reset( thrd)', which passes a request on, and the handle is returned.
Reset ==
  /\ launch = "started"
  /\ thrd' = TRUE
  /\ interruption' = requested
  /\ launch' = "returned"
  /\ handle' = "alive"
  /\ UNCHANGED <<by, fn, outcome, requested, pc, calls>>

\* own_thread: the function runs before the handle is returned ...
RunHere ==
  /\ by = "own_thread" /\ launch = "made"
  /\ fn' = "returned"
  /\ outcome' = "value"
  /\ launch' = "returned"
  /\ handle' = "alive"
  /\ UNCHANGED <<by, requested, thrd, interruption, pc, calls>>

\* ... and its exception goes to the caller, who gets no handle.
RunHereThrows ==
  /\ by = "own_thread" /\ launch = "made"
  /\ fn' = "thrown"
  /\ outcome' = "broken"
  /\ launch' = "returned"
  /\ handle' = "gone"
  /\ UNCHANGED <<by, requested, thrd, interruption, pc, calls>>

\* submit(): the callable shares the context, and nobody gives it a thread.
Submit ==
  /\ by = "pool" /\ launch = "made"
  /\ fn' = "pending"
  /\ launch' = "returned"
  /\ handle' = "alive"
  /\ UNCHANGED <<by, outcome, requested, thrd, interruption, pc, calls>>

----------------------------------------------------------------------------
(* The function, in its thread or in a worker.                             *)

WorkerTakes ==
  /\ fn = "pending"
  /\ fn' = "running"
  /\ UNCHANGED <<by, launch, outcome, requested, thrd, interruption, handle, pc, calls>>

\* Mutant of Returns: the promise is not set.
ReturnsUnset ==
  /\ fn = "running"
  /\ fn' = "returned"
  /\ UNCHANGED <<by, launch, outcome, requested, thrd, interruption, handle, pc, calls>>

Returns ==
  /\ fn = "running"
  /\ fn' = "returned"
  /\ outcome' = "value"
  /\ UNCHANGED <<by, launch, requested, thrd, interruption, handle, pc, calls>>

\* An interruption point throws.  callable::run() does not catch it; it ends
\* the thread, which keeps its copy of the callable.
Interrupted ==
  /\ fn = "running" /\ interruption
  /\ fn' = "thrown"
  /\ interruption' = FALSE
  /\ UNCHANGED <<by, launch, outcome, requested, thrd, handle, pc, calls>>

\* The function catches the interruption and goes on.
Swallows ==
  /\ fn = "running" /\ interruption
  /\ interruption' = FALSE
  /\ UNCHANGED <<by, launch, fn, outcome, requested, thrd, handle, pc, calls>>

----------------------------------------------------------------------------
(* The handle.                                                             *)

Called(u) ==
  /\ handle = "alive"
  /\ pc[u] = "idle"
  /\ calls[u] < MaxCalls
  /\ calls' = [calls EXCEPT ![u] = @ + 1]

\* interrupt(), by itself or as the first half of interrupt_and_wait().  Only
\* the first request is passed on.
Interrupt(u, label) ==
  /\ Called(u)
  /\ requested' = TRUE
  /\ interruption' = (interruption \/ (thrd /\ ~ requested))
  /\ pc' = [pc EXCEPT ![u] = label]
  /\ UNCHANGED <<by, launch, fn, outcome, thrd, handle>>

Wait(u) ==
  /\ Called(u)
  /\ pc' = [pc EXCEPT ![u] = "waiting"]
  /\ UNCHANGED <<by, launch, fn, outcome, requested, thrd, interruption, handle>>

WaitReturns(u) ==
  /\ pc[u] = "waiting"
  /\ outcome # "none"
  /\ pc' = [pc EXCEPT ![u] = "idle"]
  /\ UNCHANGED <<by, launch, fn, outcome, requested, thrd, interruption, handle, calls>>

TimesOut(u) ==
  /\ u \in Timed /\ pc[u] = "waiting"
  /\ pc' = [pc EXCEPT ![u] = "idle"]
  /\ UNCHANGED <<by, launch, fn, outcome, requested, thrd, interruption, handle, calls>>

\* The owner destroys the handle, and with it the context, when nobody is in a
\* call.  The joiner of the thread waits for the function to end.
Destroy ==
  /\ handle = "alive"
  /\ \A u \in Users : pc[u] = "idle"
  /\ handle' = IF thrd THEN "joining" ELSE "gone"
  /\ UNCHANGED <<by, launch, fn, outcome, requested, thrd, interruption, pc, calls>>

\* The thread is deleted, its callable, and the promise.
Joined ==
  /\ handle = "joining"
  /\ fn \in {"returned", "thrown"}
  /\ handle' = "gone"
  /\ thrd' = FALSE
  /\ outcome' = IF outcome = "none" THEN "broken" ELSE outcome
  /\ UNCHANGED <<by, launch, fn, requested, interruption, pc, calls>>

----------------------------------------------------------------------------
Launch == StartThread \/ Reset \/ RunHere \/ RunHereThrows \/ Submit
Runs   == WorkerTakes \/ Returns \/ Interrupted

Next ==
  \/ Launch \/ Runs \/ Swallows \/ Destroy \/ Joined
  \/ \E u \in Users :
       \/ Interrupt(u, "idle") \/ Interrupt(u, "waiting") \/ Wait(u)
       \/ WaitReturns(u) \/ TimesOut(u)

Spec == Init /\ [][Next]_vars

\* A worker takes the task in the end, the function ends, and a thread whose
\* wait is over runs on.
Fairness ==
  /\ WF_vars(Runs)
  /\ WF_vars(Joined)
  /\ \A u \in Users : WF_vars(WaitReturns(u))

----------------------------------------------------------------------------
(* Properties.                                                             *)

TypeOK ==
  /\ by \in {"new_thread", "own_thread", "pool"}
  /\ launch \in {"made", "started", "returned"}
  /\ fn \in {"none", "pending", "running", "returned", "thrown"}
  /\ outcome \in {"none", "value", "broken"}
  /\ requested \in BOOLEAN /\ thrd \in BOOLEAN /\ interruption \in BOOLEAN
  /\ handle \in {"made", "alive", "joining", "gone"}
  /\ pc \in [Users -> {"idle", "waiting"}]
  /\ calls \in [Users -> 0 .. MaxCalls]

\* A wait for a function that nobody interrupts out of its run comes to an end,
\* whatever was requested and by whom the function is run.
HandleWaitEnds ==
  \A u \in Users : (pc[u] = "waiting") ~> (pc[u] # "waiting" \/ fn = "thrown")

\* interrupt_and_wait() ends.  (Refuted: the promise of an interrupted thread
\* is destroyed with the thread, which the handle that is waited on keeps.)
InterruptedWaitEnds ==
  \A u \in Users : (pc[u] = "waiting") ~> (pc[u] # "waiting")

\* A request reaches the thread that runs the function.  (Refuted: in a pool no
\* context is given a thread.)
RequestReaches == [][(requested' # requested /\ fn = "running") => interruption']_vars

=============================================================================
