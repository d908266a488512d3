---------------------------- MODULE MCSpinFutures ----------------------------
(***************************************************************************)
(* An instance for TLC of one result with its producers and waiters, of    *)
(* wait_for_any() over several futures, and of the handle to a function    *)
(* that another thread runs.  They are views of a future, so a behaviour   *)
(* is about one of them, and the others stay as they were created.         *)
(***************************************************************************)
EXTENDS SpinFuture, Sequences, TLC

CONSTANTS
  Futures, AnyWaiters, Order,         \* of wait_for_any()
  a1, a2, a3, f1, f2,
  Users, TimedUsers, MaxCalls         \* of the handle

VARIABLES
  object,                                             \* what a behaviour is about
  finished, mtx, external, ppc, left, asleep, anyPc, at,  \* wait_for_any()
  by, launch, fn, result, requested, thrd, interruption,
  handle, userPc, calls                               \* the handle

anyVars == <<finished, mtx, external, ppc, left, asleep, anyPc, at>>
handleVars == <<by, launch, fn, result, requested, thrd, interruption, handle,
                userPc, calls>>

Waiter == INSTANCE FutureWaiter
  WITH Waiters <- AnyWaiters, done <- finished, pc <- anyPc

Handle == INSTANCE TaskHandle
  WITH Timed <- TimedUsers, outcome <- result, pc <- userPc

ASSUME FutureWaiterAssumption == Waiter!FutureWaiterConstants
ASSUME TaskHandleAssumption == Handle!TaskHandleConstants

\* Order for TLC: all give the futures in one order, one of them only the second.
OneOrder == (a1 :> <<f1, f2>>) @@ (a2 :> <<f1, f2>>) @@ (a3 :> <<f2>>)

FuturesInit ==
  /\ object \in {"result", "wait_for_any", "handle"}
  /\ Init /\ Waiter!Init /\ Handle!Init

FuturesNext ==
  /\ UNCHANGED object
  /\ \/ object = "result" /\ Next /\ UNCHANGED <<anyVars, handleVars>>
     \/ object = "wait_for_any" /\ Waiter!Next /\ UNCHANGED <<vars, handleVars>>
     \/ object = "handle" /\ Handle!Next /\ UNCHANGED <<vars, anyVars>>

\* The fairness of each asks for nothing as long as nobody has called.
FuturesSpec ==
  /\ FuturesInit
  /\ [][FuturesNext]_<<object, vars, anyVars, handleVars>>
  /\ Fairness /\ Waiter!Fairness /\ Handle!Fairness

----------------------------------------------------------------------------
(* The properties of the instance, under names of their own.               *)

\* No condition of wait_for_any() is notified after it was destroyed.
AnyNotifiesTheLiving == Waiter!NotifiesTheLiving

\* wait_for_any() returns once a future is done.
AnyReturns == Waiter!AnyReturns

\* A wait on the handle ends, unless the function is interrupted.
HandleWaitEnds == Handle!HandleWaitEnds

=============================================================================
