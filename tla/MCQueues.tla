------------------------------ MODULE MCQueues ------------------------------
(***************************************************************************)
(* An instance for TLC of the four queues a pool may have.  They share     *)
(* nothing, so a behaviour uses one of them, and the others stay as they   *)
(* were constructed.                                                       *)
(***************************************************************************)
EXTENDS BoundedPrioQueue, Sequences

CONSTANTS
  FifoProducers, FifoConsumers,   \* threads at the fifo queues
  FifoTimed, FifoHwm, FifoLwm,    \* of the bounded one
  FifoPuts, OpenPuts,             \* bounds: items of a producer at either
  OpenProducers, OpenWorkers, MaxPermits    \* of the unbounded priority queue

VARIABLES
  object,                         \* the queue that is used
  state, count, head, tail, va, next, headMtx, tailMtx, sleeping, pcs, puts,
  cpc, got, dpc, posts, late,     \* the bounded fifo
  state2, head2, tail2, va2, next2, uses, freed, headMtx2, tailMtx2, pc2, puts2,
  mine, changes, loaded, lost,    \* the unbounded one
  active3, size3, mtx3, pc3, permits        \* the unbounded priority queue

boundedVars == <<state, count, head, tail, va, next, headMtx, tailMtx, sleeping,
                 pcs, puts, cpc, got, dpc, posts, late>>
unboundedVars == <<state2, head2, tail2, va2, next2, uses, freed, headMtx2,
                   tailMtx2, pc2, puts2, mine, changes, loaded, lost>>
openVars == <<active3, size3, mtx3, pc3, permits>>

Bounded == INSTANCE BoundedFifo
  WITH Producers <- FifoProducers, Consumers <- FifoConsumers, Timed <- FifoTimed,
       HWM <- FifoHwm, LWM <- FifoLwm, MaxPuts <- FifoPuts, pc <- pcs

Unbounded == INSTANCE UnboundedFifo
  WITH Producers <- FifoProducers, Consumers <- FifoConsumers,
       MaxPuts <- OpenPuts, state <- state2, head <- head2, tail <- tail2,
       va <- va2, next <- next2, headMtx <- headMtx2, tailMtx <- tailMtx2,
       pc <- pc2, puts <- puts2

Open == INSTANCE UnboundedPrioQueue
  WITH Producers <- OpenProducers, Workers <- OpenWorkers, active <- active3,
       size <- size3, mtx <- mtx3, pc <- pc3

ASSUME BoundedAssumption   == Bounded!BoundedFifoConstants
ASSUME UnboundedAssumption == Unbounded!UnboundedFifoConstants
ASSUME OpenAssumption      == Open!UnboundedPrioQueueConstants

QueuesInit ==
  /\ object \in {"priority", "bounded", "unbounded", "open"}
  /\ Init /\ Bounded!Init /\ Unbounded!Init /\ Open!Init

QueuesNext ==
  /\ UNCHANGED object
  /\ \/ object = "priority" /\ Next /\ UNCHANGED <<boundedVars, unboundedVars, openVars>>
     \/ object = "bounded" /\ Bounded!Next /\ UNCHANGED <<vars, unboundedVars, openVars>>
     \/ object = "unbounded" /\ Unbounded!Next /\ UNCHANGED <<vars, boundedVars, openVars>>
     \/ object = "open" /\ Open!Next /\ UNCHANGED <<vars, boundedVars, unboundedVars>>

\* Nothing that is asked of the other three needs fairness.  The consumers of the
\* bounded fifo come back for ever, so it is asked of it only where it is used.
QueuesSpec ==
  /\ QueuesInit
  /\ [][QueuesNext]_<<object, vars, boundedVars, unboundedVars, openVars>>
  /\ object = "bounded" => Bounded!Fairness

----------------------------------------------------------------------------
(* The properties of the instances, under names of their own.              *)

\* A put() to the bounded fifo that deactivate() finds before its last test, asleep
\* or on its way, or that begins later, adds nothing.
NothingEntersLate == Bounded!NothingEntersLate

\* The two-lock list of the bounded fifo is a bounded queue.
BoundedIsQueue == Bounded!ImplementsBoundedQueue

\* A producer that sleeps at the bounded fifo gets to run again.
ProducerWakes == object = "bounded" => Bounded!ProducerWakes

\* The two-lock list of the unbounded fifo is a queue.
UnboundedIsQueue == Unbounded!ImplementsQueue

\* The nodes of the unbounded fifo are deleted when they have left it.
NodesReclaimed == Unbounded!NodesReclaimed

\* No worker sleeps beside a task of the unbounded priority queue.
NobodySleepsBesideWork == Open!NobodySleepsBesideWork

=============================================================================
