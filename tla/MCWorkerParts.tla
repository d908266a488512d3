--------------------------- MODULE MCWorkerParts ---------------------------
(***************************************************************************)
(* An instance for TLC of the two lock-free parts that a worker lives on:  *)
(* the semaphore it sleeps on and its work-stealing deque.  They share     *)
(* nothing, so a behaviour uses one of them, and the other stays as it was *)
(* constructed.                                                            *)
(***************************************************************************)
EXTENDS FastSemaphore

CONSTANTS
  Thieves, InitialSize, MaxPuts   \* of the deque

VARIABLES
  object,                         \* the part that is used
  array, capacity, head, tail, mtx, opc, tpc, thead, puts, posts, given,
  gaveEmpty, misled               \* the deque

dequeVars == <<array, capacity, head, tail, mtx, opc, tpc, thead, puts, posts,
               given, gaveEmpty, misled>>

Deque == INSTANCE Wsq

ASSUME DequeAssumption == Deque!WsqConstants

PartsInit ==
  /\ object \in {"semaphore", "deque"}
  /\ Init /\ Deque!Init

PartsNext ==
  /\ UNCHANGED object
  /\ \/ object = "semaphore" /\ Next /\ UNCHANGED dequeVars
     \/ object = "deque" /\ Deque!Next /\ UNCHANGED vars

\* No call of the deque blocks for good, so nothing is asked of it that needs
\* fairness.
PartsSpec ==
  /\ PartsInit
  /\ [][PartsNext]_<<object, vars, dequeVars>>
  /\ Fairness

----------------------------------------------------------------------------
(* The properties of the deque, under names of their own.                  *)

\* A task is handed out once, and stored until then.
EachTaskOnceUnlessMisled == Deque!EachTaskOnceUnlessMisled

\* The owner gets the newest task in the deque, a thief the oldest.
NewestToOwnerOldestToThief == Deque!NewestToOwnerOldestToThief

\* try_take() finds nothing only if nothing is stored.
FailsOnlyWhenEmpty == Deque!FailsOnlyWhenEmpty

=============================================================================
