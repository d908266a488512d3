-------------------------- MODULE BoundedPrioQueue --------------------------
(***************************************************************************)
(* detail::bounded_prio_queue_base (bounded_prio_queue.hpp).  All of it    *)
(* runs under mtx_, a sleeping put() too except while it sleeps, so each   *)
(* stretch between two sleeps is one step.  In which order tasks are taken *)
(* is std::priority_queue's affair; here the queue is its length.          *)
(***************************************************************************)
EXTENDS Integers, FiniteSets

CONSTANTS
  Producers,    \* threads that call put()
  Timed,        \* those that call it with a rel_time
  Hwm, Lwm      \* hwm_ and lwm_

ASSUME FiniteProducers == IsFiniteSet(Producers) /\ Timed \subseteq Producers
\* high_watermark (watermark.cpp:18) and the constructor (line 185) throw otherwise.
ASSUME Watermarks == Hwm \in Nat \ {0} /\ Lwm \in Nat /\ Lwm <= Hwm

VARIABLES
  active,       \* state_ is ACTIVE
  size,         \* size of queue_
  pc            \* where each producer is

vars == <<active, size, pc>>

Init ==
  /\ active = TRUE
  /\ size = 0
  /\ pc = [p \in Producers |-> "idle"]

full == size >= Hwm

Goto(p, label) == pc' = [pc EXCEPT ![p] = label]

At(label) == {p \in Producers : pc[p] = label}

\* A put() that holds mtx_: it has just been called, it was woken up or its time
\* is up.
Running(p) == pc[p] \in {"idle", "woken", "timed_out"}

----------------------------------------------------------------------------
(* put().                                                                  *)

\* Puts the task and posts to the semaphore, the last call included of a wait
\* that is over without a notification.
Put(p) ==
  /\ Running(p)
  /\ active
  /\ ~ full
  /\ size' = size + 1
  /\ Goto(p, "idle")
  /\ UNCHANGED active

\* Throws task_rejected: not active, or timed out.
PutReject(p) ==
  /\ Running(p)
  /\ ~ active \/ (pc[p] = "timed_out" /\ full)
  /\ Goto(p, "idle")
  /\ UNCHANGED <<active, size>>

PutSleep(p) ==
  /\ Running(p)
  /\ pc[p] # "timed_out"
  /\ active
  /\ full
  /\ Goto(p, "asleep")
  /\ UNCHANGED <<active, size>>

\* boost::condition may wake without a notification.
SpuriousWake(p) ==
  /\ pc[p] = "asleep"
  /\ Goto(p, "woken")
  /\ UNCHANGED <<active, size>>

TimeOut(p) ==
  /\ pc[p] = "asleep"
  /\ p \in Timed
  /\ Goto(p, "timed_out")
  /\ UNCHANGED <<active, size>>

----------------------------------------------------------------------------
(* try_take() and deactivate().                                            *)

\* pc when the producers in S wake up.
Woken(S) == [p \in Producers |-> IF p \in S THEN "woken" ELSE pc[p]]

\* Mutant of Take: only the take that makes room in a full queue notifies.
TakeFromFull ==
  /\ size > 0
  /\ size' = size - 1
  /\ IF full /\ size - 1 <= Lwm
     THEN IF Lwm = Hwm
          THEN \/ /\ At("asleep") = {}
                  /\ UNCHANGED pc
               \/ \E p \in At("asleep") : pc' = Woken({p})
          ELSE pc' = Woken(At("asleep"))
     ELSE UNCHANGED pc
  /\ UNCHANGED active

\* Notifies when no more than lwm_ are left: one producer if lwm_ is hwm_, all of
\* them if it is less.
Take ==
  /\ size > 0
  /\ size' = size - 1
  /\ IF size - 1 <= Lwm
     THEN IF Lwm = Hwm
          THEN \/ /\ At("asleep") = {}
                  /\ UNCHANGED pc
               \/ \E p \in At("asleep") : pc' = Woken({p})
          ELSE pc' = Woken(At("asleep"))
     ELSE UNCHANGED pc
  /\ UNCHANGED active

Deactivate ==
  /\ active' = FALSE
  /\ pc' = Woken(At("asleep"))
  /\ UNCHANGED size

----------------------------------------------------------------------------
PutStep(p) == Put(p) \/ PutReject(p) \/ PutSleep(p)

Next ==
  \/ \E p \in Producers : PutStep(p) \/ SpuriousWake(p) \/ TimeOut(p)
  \/ Take
  \/ Deactivate

Spec == Init /\ [][Next]_vars

----------------------------------------------------------------------------
(* Properties.                                                             *)

\* The queue never outgrows hwm_.
TypeOK ==
  /\ active \in BOOLEAN
  /\ size \in 0 .. Hwm
  /\ pc \in [Producers -> {"idle", "asleep", "woken", "timed_out"}]

\* Nobody sleeps beside room that nobody else is on the way to (queue.qbk:18-21).
\* With one watermark there are at least as many producers awake as there are
\* free places; with two nobody sleeps at or below the lower one.
NoSleeperBesideRoom ==
  At("asleep") # {} =>
    /\ active
    /\ IF Lwm = Hwm THEN Hwm - size <= Cardinality(At("woken")) ELSE size > Lwm

\* A closed queue takes nothing more, woken producers included.
NothingEntersClosed == [][~ active => size' <= size]_vars

=============================================================================
