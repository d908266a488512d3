------------------------------- MODULE Barrier -------------------------------
(***************************************************************************)
(* spin::barrier (src/spin/barrier.cpp).  The whole of wait() runs under   *)
(* mtx_ except while it sleeps on cond_, so each stretch between two       *)
(* sleeps is one step.  Of cond_ no more is taken than what SpinCondition  *)
(* shows: the sleepers of a notify_all() wake, later ones do not.          *)
(***************************************************************************)
EXTENDS Integers, FiniteSets

CONSTANTS
  Threads,      \* the threads that use the barrier
  Size,         \* initial_
  MaxBatches    \* bound: batches that are counted, for TLC

ASSUME FiniteThreads == IsFiniteSet(Threads)
ASSUME SizePositive  == Size \in Nat \ {0}
ASSUME BatchesAreNat == MaxBatches \in Nat

VARIABLES
  current,      \* current_
  cycle,        \* cycle_
  pc,           \* where each thread is
  seen,         \* cycle of each wait()
  batch,        \* how many batches are complete
  joined        \* batch when each thread called wait()

vars == <<current, cycle, pc, seen, batch, joined>>

Init ==
  /\ current = Size
  /\ cycle = TRUE
  /\ pc = [t \in Threads |-> "idle"]
  /\ seen = [t \in Threads |-> TRUE]
  /\ batch = 0
  /\ joined = [t \in Threads |-> 0]

\* Mutant of Complete: the cycle is not turned over.
CompleteNoTurn(t) ==
  /\ pc[t] = "idle"
  /\ batch < MaxBatches
  /\ current = 1
  /\ current' = Size
  /\ pc' = [u \in Threads |-> IF pc[u] = "asleep" THEN "woken" ELSE pc[u]]
  /\ batch' = batch + 1
  /\ UNCHANGED <<cycle, seen, joined>>

\* The thread that completes a batch turns the barrier over, wakes the others
\* and returns true.
Complete(t) ==
  /\ pc[t] = "idle"
  /\ batch < MaxBatches
  /\ current = 1
  /\ current' = Size
  /\ cycle' = ~ cycle
  /\ pc' = [u \in Threads |-> IF pc[u] = "asleep" THEN "woken" ELSE pc[u]]
  /\ batch' = batch + 1
  /\ UNCHANGED <<seen, joined>>

\* Any other thread sleeps until the cycle has turned.
Join(t) ==
  /\ pc[t] = "idle"
  /\ current # 1
  /\ current' = current - 1
  /\ pc' = [pc EXCEPT ![t] = "asleep"]
  /\ seen' = [seen EXCEPT ![t] = cycle]
  /\ joined' = [joined EXCEPT ![t] = batch]
  /\ UNCHANGED <<cycle, batch>>

\* It wakes up, returns false if the cycle is another one, and sleeps again if
\* it is the same.
Wake(t) ==
  /\ pc[t] = "woken"
  /\ pc' = [pc EXCEPT ![t] = IF cycle = seen[t] THEN "asleep" ELSE "idle"]
  /\ UNCHANGED <<current, cycle, seen, batch, joined>>

Next == \E t \in Threads : Complete(t) \/ Join(t) \/ Wake(t)

Spec == Init /\ [][Next]_vars

----------------------------------------------------------------------------
(* Properties.                                                             *)

TypeOK ==
  /\ current \in 1 .. Size
  /\ cycle \in BOOLEAN
  /\ pc \in [Threads -> {"idle", "asleep", "woken"}]
  /\ seen \in [Threads -> BOOLEAN]
  /\ batch \in 0 .. MaxBatches
  /\ joined \in [Threads -> 0 .. MaxBatches]

\* The threads that wait for the batch in the making.
Members == {t \in Threads : pc[t] = "asleep" /\ joined[t] = batch}

\* current_ counts the threads that are still to come, while others of earlier
\* batches have not left yet.
CountsMembers == current = Size - Cardinality(Members)

\* Whoever sleeps does so for the batch in the making: no thread of a complete
\* batch goes back to sleep (spin_barrier.qbk:38-39: all waiting tasks are
\* unblocked).
NobodyLeftBehind == \A t \in Threads : pc[t] = "asleep" => joined[t] = batch

=============================================================================
