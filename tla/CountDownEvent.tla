--------------------------- MODULE CountDownEvent ---------------------------
(***************************************************************************)
(* spin::count_down_event (src/spin/count_down_event.cpp): set() counts    *)
(* down with a compare-exchange loop, wait() spins until the count is 0.   *)
(* timed_wait() and interruptions only end a wait and change nothing here. *)
(***************************************************************************)
EXTENDS Integers, FiniteSets

CONSTANTS
  Calls,        \* the calls of set(), each by a thread of its own
  Waiters,      \* the calls of wait()
  Initial,      \* the initial count
  Modulus       \* 2^w for a size_t of w bits

\* The hypothesis of the theorems about this module, assumed by the modules that
\* instantiate it.
CountDownConstants ==
  /\ IsFiniteSet(Calls)
  /\ Calls \cap Waiters = {}
  /\ Initial \in Nat /\ Modulus \in Nat /\ Initial < Modulus

VARIABLES
  current,      \* current_
  expected,     \* expected of each set()
  pc            \* where each call is

vars == <<current, expected, pc>>

Init ==
  /\ current = Initial
  /\ expected = [c \in Calls |-> 0]
  /\ pc = [t \in Calls \cup Waiters |-> IF t \in Calls THEN "call" ELSE "wait"]

Goto(t, label) == pc' = [pc EXCEPT ![t] = label]

Below(n) == (n - 1) % Modulus

----------------------------------------------------------------------------
SetCall(c) ==
  /\ pc[c] = "call"
  /\ Goto(c, "look")
  /\ UNCHANGED <<current, expected>>

\* set() returns if the count is 0.
SetLook(c) ==
  /\ pc[c] = "look"
  /\ Goto(c, IF current = 0 THEN "done" ELSE "reload")
  /\ UNCHANGED <<current, expected>>

\* It loads the count a second time, whatever the first load has found.
SetReload(c) ==
  /\ pc[c] = "reload"
  /\ expected' = [expected EXCEPT ![c] = current]
  /\ Goto(c, "cas")
  /\ UNCHANGED current

\* Mutant of SetCas: a store instead of the compare-exchange.
SetStore(c) ==
  /\ pc[c] = "cas"
  /\ current' = Below(expected[c])
  /\ Goto(c, "done")
  /\ UNCHANGED expected

SetCas(c) ==
  /\ pc[c] = "cas"
  /\ \/ /\ current = expected[c]
        /\ current' = Below(current)
        /\ Goto(c, "done")
     \/ /\ current # expected[c]
        /\ Goto(c, "look")
        /\ UNCHANGED current
  /\ UNCHANGED expected

\* wait() goes on once it finds 0.
WaitEnds(w) ==
  /\ pc[w] = "wait"
  /\ current = 0
  /\ Goto(w, "done")
  /\ UNCHANGED <<current, expected>>

SetRuns(c) == SetLook(c) \/ SetReload(c) \/ SetCas(c)

Next ==
  \/ \E c \in Calls : SetCall(c) \/ SetRuns(c)
  \/ \E w \in Waiters : WaitEnds(w)

Spec == Init /\ [][Next]_vars

\* A call runs on once it is made; nobody has to make it.
Fairness ==
  /\ \A c \in Calls : WF_vars(SetRuns(c))
  /\ \A w \in Waiters : WF_vars(WaitEnds(w))

----------------------------------------------------------------------------
(* Properties.                                                             *)

Done == {c \in Calls : pc[c] = "done"}

\* Every set() that has returned has counted, however the loads and exchanges of
\* several of them interleave (for at most Initial calls).
EveryCallCounts == current = Initial - Cardinality(Done)

\* Once set the event remains so (spin_event_variables.qbk:272; the test
\* test_spin_count_down_event.cpp:53-55 calls set() once more at 0).
RemainsSignaled == [][current = 0 => current' = 0]_vars

\* Once as many calls of set() were made as the initial count, every wait()
\* returns.
AllReturn ==
  (\A c \in Calls : pc[c] # "call") ~> (\A w \in Waiters : pc[w] = "done")

=============================================================================
