---------------------------- MODULE MCSpinEvents ----------------------------
(***************************************************************************)
(* An instance for TLC of the four objects tasks synchronize at.  They     *)
(* share nothing, so a behaviour uses one of them, and the others stay as  *)
(* they were constructed.                                                  *)
(***************************************************************************)
EXTENDS Barrier

CONSTANTS
  Calls, CountWaiters, Initial, Modulus,
  EventWaiters, EventTriers, Controllers, Interruptible, IsSet, MaxSets, MaxWaiters,
  Setters, SetsEach                 \* of the auto-reset event

VARIABLES
  object,                           \* the one that is used
  count, expected, countPc,         \* the count-down event
  state, waiters, enterMtx, eventPc, sets, stranded, owed,  \* the manual-reset event
  autoState, autoPc, autoSets, signals, observed                \* the auto-reset event

countVars == <<count, expected, countPc>>
eventVars == <<state, waiters, enterMtx, eventPc, sets, stranded, owed>>
autoVars == <<autoState, autoPc, autoSets, signals, observed>>

CountDown == INSTANCE CountDownEvent
  WITH Waiters <- CountWaiters, current <- count, pc <- countPc

ManualReset == INSTANCE ManualResetEvent
  WITH Waiters <- EventWaiters, Triers <- EventTriers, pc <- eventPc

AutoReset == INSTANCE AutoResetEvent
  WITH Waiters <- EventWaiters, Leavers <- Interruptible, MaxSets <- SetsEach,
       state <- autoState, pc <- autoPc, sets <- autoSets

ASSUME CountDownAssumption   == CountDown!CountDownConstants
ASSUME ManualResetAssumption == ManualReset!ManualResetConstants
ASSUME AutoResetAssumption   == AutoReset!AutoResetConstants

EventsInit ==
  /\ object \in {"barrier", "count_down", "manual_reset", "auto_reset"}
  /\ Init /\ CountDown!Init /\ ManualReset!Init /\ AutoReset!Init

EventsNext ==
  /\ UNCHANGED object
  /\ \/ /\ object = "barrier"
        /\ Next
        /\ UNCHANGED <<countVars, eventVars, autoVars>>
     \/ /\ object = "count_down"
        /\ CountDown!Next
        /\ UNCHANGED <<vars, eventVars, autoVars>>
     \/ /\ object = "manual_reset"
        /\ ManualReset!Next
        /\ UNCHANGED <<vars, countVars, autoVars>>
     \/ /\ object = "auto_reset"
        /\ AutoReset!Next
        /\ UNCHANGED <<vars, countVars, eventVars>>

\* The fairness of an object that is not used asks for nothing: each obliges
\* only threads inside a call.
EventsSpec ==
  /\ EventsInit
  /\ [][EventsNext]_<<object, vars, countVars, eventVars, autoVars>>
  /\ CountDown!Fairness /\ ManualReset!Fairness

----------------------------------------------------------------------------
(* The properties of the instances, under names of their own.              *)

\* The wait() calls of the count-down event return once all calls it counts are made.
CountedDown == CountDown!AllReturn

\* The enter_mtx_ of the manual-reset event is unlocked again by whoever has to.
EventEnterFreed == ManualReset!EnterFreed

\* While it is locked there is somebody to unlock it.
EventUnlockerThere == ManualReset!UnlockerThere

\* Every signal of the auto-reset event is seen by one call.
OneCallPerSignal == AutoReset!OneCallPerSignal

=============================================================================
