-------------------------- MODULE ManualResetEvent --------------------------
(***************************************************************************)
(* spin::manual_reset_event (src/spin/manual_reset_event.cpp).  wait() and *)
(* try_wait() count themselves under enter_mtx_; set() leaves enter_mtx_   *)
(* locked when it finds somebody counted, so that the event is not reset   *)
(* before all of them have seen it: the one that counts down to 0 unlocks. *)
(*                                                                         *)
(* timed_wait() reads state_ without being counted and changes nothing.    *)
(* enter_mtx_ is a spin::mutex: whoever calls unlock() unlocks it.         *)
(***************************************************************************)
EXTENDS Integers, FiniteSets

CONSTANTS
  Waiters,      \* threads that call wait()
  Triers,       \* threads that call try_wait()
  Controllers,  \* threads that call set() and reset()
  Interruptible,\* the waiters whose task or thread may be interrupted
  IsSet,        \* isset of the constructor
  MaxSets,      \* bound: calls of set()
  MaxWaiters    \* bound: waiters_ up to which interruptions go on

\* Assumed by the modules that instantiate this one.
ManualResetConstants ==
  /\ Waiters \cap Triers = {}
  /\ (Waiters \cup Triers) \cap Controllers = {}
  /\ Interruptible \subseteq Waiters
  /\ IsFiniteSet(Waiters \cup Triers)
  /\ IsSet \in BOOLEAN
  /\ MaxSets \in Nat /\ MaxWaiters \in Nat

VARIABLES
  state,        \* state_
  waiters,      \* waiters_
  enterMtx,     \* enter_mtx_ is LOCKED
  pc,           \* where each thread is
  sets,         \* how often set() was called
  stranded,     \* history: how many interrupted waits are still counted
  owed          \* the threads that were waiting when the event was last set,
                \* as long as they have not seen it

vars == <<state, waiters, enterMtx, pc, sets, stranded, owed>>

Counted == Waiters \cup Triers
Callers == Counted \cup Controllers

Init ==
  /\ state = IF IsSet THEN "SET" ELSE "RESET"
  /\ waiters = 0
  /\ enterMtx = FALSE
  /\ pc = [t \in Callers |-> "idle"]
  /\ sets = 0
  /\ stranded = 0
  /\ owed = {}

Goto(t, label) == pc' = [pc EXCEPT ![t] = label]

LockEnter(t, label) ==
  /\ pc[t] = "idle"
  /\ ~ enterMtx
  /\ enterMtx' = TRUE
  /\ Goto(t, label)

----------------------------------------------------------------------------
(* set() and reset().                                                      *)

SetLock(c) ==
  /\ sets < MaxSets
  /\ sets' = sets + 1
  /\ LockEnter(c, "set_cas")
  /\ UNCHANGED <<state, waiters, owed, stranded>>

SetCas(c) ==
  /\ pc[c] = "set_cas"
  /\ state' = "SET"
  /\ Goto(c, IF state = "RESET" THEN "set_look" ELSE "unlock")
  /\ owed' = IF state = "RESET"
             THEN {w \in Waiters : pc[w] \in {"enter_unlock", "spin"}}
             ELSE owed
  /\ UNCHANGED <<waiters, enterMtx, sets, stranded>>

\* With somebody counted set() returns and enter_mtx_ stays locked.
SetLook(c) ==
  /\ pc[c] = "set_look"
  /\ Goto(c, IF waiters = 0 THEN "unlock" ELSE "idle")
  /\ UNCHANGED <<state, waiters, enterMtx, sets, owed, stranded>>

ResetLock(c) ==
  /\ LockEnter(c, "reset_store")
  /\ UNCHANGED <<state, waiters, sets, owed, stranded>>

ResetStore(c) ==
  /\ pc[c] = "reset_store"
  /\ state' = "RESET"
  /\ Goto(c, "unlock")
  /\ UNCHANGED <<waiters, enterMtx, sets, owed, stranded>>

\* The end of reset(), and of a set() that leaves nobody to unlock.
Unlock(c) ==
  /\ pc[c] = "unlock"
  /\ enterMtx' = FALSE
  /\ Goto(c, "idle")
  /\ UNCHANGED <<state, waiters, sets, owed, stranded>>

----------------------------------------------------------------------------
(* wait() and try_wait().                                                  *)

EnterLock(t) ==
  /\ LockEnter(t, "count")
  /\ UNCHANGED <<state, waiters, sets, owed, stranded>>

Count(t) ==
  /\ pc[t] = "count"
  /\ waiters' = waiters + 1
  /\ Goto(t, "enter_unlock")
  /\ UNCHANGED <<state, enterMtx, sets, owed, stranded>>

EnterUnlock(t) ==
  /\ pc[t] = "enter_unlock"
  /\ enterMtx' = FALSE
  /\ Goto(t, "spin")
  /\ UNCHANGED <<state, waiters, sets, owed, stranded>>

\* wait() goes on once it reads SET, try_wait() whatever it reads.
See(t) ==
  /\ pc[t] = "spin"
  /\ state = "SET" \/ t \in Triers
  /\ Goto(t, "leave")
  /\ owed' = owed \ {t}
  /\ UNCHANGED <<state, waiters, enterMtx, sets, stranded>>

Leave(t) ==
  /\ pc[t] = "leave"
  /\ waiters' = waiters - 1
  /\ Goto(t, IF waiters = 1 THEN "last" ELSE "idle")
  /\ UNCHANGED <<state, enterMtx, sets, owed, stranded>>

\* Mutant of LastUnlock: enter_mtx_ stays locked.
LastUnlockNot(t) ==
  /\ pc[t] = "last"
  /\ Goto(t, "idle")
  /\ UNCHANGED <<state, waiters, enterMtx, sets, owed, stranded>>

\* The last one unlocks enter_mtx_, whether a set() left it locked or not.
LastUnlock(t) ==
  /\ pc[t] = "last"
  /\ enterMtx' = FALSE
  /\ Goto(t, "idle")
  /\ UNCHANGED <<state, waiters, sets, owed, stranded>>

\* interruption_point() throws out of wait(), which stays counted.
Interrupt(t) ==
  /\ pc[t] = "spin"
  /\ t \in Interruptible
  /\ waiters + Cardinality(Counted) <= MaxWaiters
  /\ Goto(t, "idle")
  /\ owed' = owed \ {t}
  /\ stranded' = stranded + 1
  /\ UNCHANGED <<state, waiters, enterMtx, sets>>

----------------------------------------------------------------------------
ControlStep(c) == SetCas(c) \/ SetLook(c) \/ ResetStore(c) \/ Unlock(c)

WaitStep(t) == Count(t) \/ EnterUnlock(t) \/ See(t) \/ Leave(t) \/ LastUnlock(t)

Next ==
  \/ \E c \in Controllers : SetLock(c) \/ ResetLock(c) \/ ControlStep(c)
  \/ \E t \in Counted : EnterLock(t) \/ WaitStep(t) \/ Interrupt(t)

Spec == Init /\ [][Next]_vars

\* A call that has entered runs on; nobody has to call.
Fairness ==
  /\ \A c \in Controllers : WF_vars(ControlStep(c))
  /\ \A t \in Counted : WF_vars(WaitStep(t))

----------------------------------------------------------------------------
(* Properties.                                                             *)

TypeOK ==
  /\ state \in {"SET", "RESET"}
  /\ waiters \in 0 .. MaxWaiters
  /\ enterMtx \in BOOLEAN
  /\ pc \in [Callers -> {"idle", "set_cas", "set_look", "reset_store", "unlock",
                         "count", "enter_unlock", "spin", "leave", "last"}]
  /\ sets \in 0 .. MaxSets
  /\ stranded \in 0 .. MaxWaiters
  /\ owed \subseteq Waiters

\* The event is not reset before every thread that waited for it has seen it
\* (spin_event_variables.qbk:165-166).
SignalSeen == owed # {} => state = "SET"

\* Whatever locks enter_mtx_ there is somebody to unlock it: a thread between lock
\* and unlock, or, when set() left it to the waiters, a set event and a thread that
\* will leave it.  A last waiter may unlock while others are between lock and unlock,
\* so that one's set() and another's reset() overlap; interrupted waits stay counted.
UnlockerThere ==
  enterMtx /\ stranded = 0 =>
    \/ \E t \in Callers : pc[t] \notin {"idle", "spin", "leave"}
    \/ state = "SET" /\ \E t \in Counted : pc[t] \in {"spin", "leave"}

\* enter_mtx_ does not stay locked: a set() finds somebody that will unlock it,
\* as long as no wait was interrupted.
EnterFreed == enterMtx ~> ~ enterMtx \/ stranded > 0

=============================================================================
