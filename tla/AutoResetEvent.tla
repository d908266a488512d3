--------------------------- MODULE AutoResetEvent ---------------------------
(***************************************************************************)
(* spin::auto_reset_event (src/spin/auto_reset_event.cpp).  set() stores   *)
(* SET; a waiting thread polls with a compare-and-exchange that resets the *)
(* event in the same step, and yields in between.                          *)
(***************************************************************************)
EXTENDS Naturals

CONSTANTS
  Waiters,      \* threads that call wait() or timed_wait() again and again
  Leavers,      \* the waiters that may be interrupted, or whose time may be up
  Setters,      \* threads that call set()
  IsSet,        \* isset of the constructor
  MaxSets       \* bound: calls of set() of each setter

AutoResetConstants ==
  Leavers \subseteq Waiters /\ IsSet \in BOOLEAN /\ MaxSets \in Nat

VARIABLES
  state,        \* state_
  pc,           \* where each waiter is
  sets,         \* calls of set() of each setter
  signals,      \* history: set() calls that turned RESET to SET
  observed      \* history: calls of wait(), try_wait() or timed_wait() that saw one

vars == <<state, pc, sets, signals, observed>>

Init ==
  /\ state = IF IsSet THEN "SET" ELSE "RESET"
  /\ pc = [w \in Waiters |-> "idle"]
  /\ sets = [s \in Setters |-> 0]
  /\ signals = IF IsSet THEN 1 ELSE 0
  /\ observed = 0

Set(s) ==
  /\ sets[s] < MaxSets
  /\ sets' = [sets EXCEPT ![s] = @ + 1]
  /\ signals' = IF state = "RESET" THEN signals + 1 ELSE signals
  /\ state' = "SET"
  /\ UNCHANGED <<pc, observed>>

Call(w) ==
  /\ pc[w] = "idle"
  /\ pc' = [pc EXCEPT ![w] = "polling"]
  /\ UNCHANGED <<state, sets, signals, observed>>

\* Mutant of Take: a load, and a store when it has found SET.
TakeInTwoSteps(w) ==
  \/ /\ pc[w] = "polling"
     /\ state = "SET"
     /\ pc' = [pc EXCEPT ![w] = "taking"]
     /\ UNCHANGED <<state, sets, signals, observed>>
  \/ /\ pc[w] = "taking"
     /\ state' = "RESET"
     /\ observed' = observed + 1
     /\ pc' = [pc EXCEPT ![w] = "idle"]
     /\ UNCHANGED <<sets, signals>>

\* The exchange that succeeds.  One that fails changes nothing.
Take(w) ==
  /\ pc[w] = "polling"
  /\ state = "SET"
  /\ state' = "RESET"
  /\ observed' = observed + 1
  /\ pc' = [pc EXCEPT ![w] = "idle"]
  /\ UNCHANGED <<sets, signals>>

\* An interruption point throws, the time is up, or try_wait() has failed.
Leave(w) ==
  /\ w \in Leavers
  /\ pc[w] = "polling"
  /\ pc' = [pc EXCEPT ![w] = "idle"]
  /\ UNCHANGED <<state, sets, signals, observed>>

Next ==
  \/ \E s \in Setters : Set(s)
  \/ \E w \in Waiters : Call(w) \/ Take(w) \/ Leave(w)

Spec == Init /\ [][Next]_vars

----------------------------------------------------------------------------
(* Properties.                                                             *)

TypeOK ==
  /\ state \in {"SET", "RESET"}
  /\ pc \in [Waiters -> {"idle", "polling"}]
  /\ sets \in [Setters -> 0 .. MaxSets]
  /\ signals \in Nat /\ observed \in Nat

\* Every signal is seen by one call, and stays until it is: not by two that
\* poll at the same time, and not lost with one that leaves.
OneCallPerSignal == observed + (IF state = "SET" THEN 1 ELSE 0) = signals

\* A set() unblocks somebody who waits, also when another set() came just
\* before it.  (Refuted: the second store of SET is one with the first.)
EverySetUnblocks ==
  [][\A s \in Setters :
       (/\ sets'[s] # sets[s]
        /\ \E v, w \in Waiters : v # w /\ pc[v] = "polling" /\ pc[w] = "polling")
       => signals' = signals + 1]_vars

=============================================================================
