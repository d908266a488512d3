--------------------------- MODULE SpinCondition ---------------------------
(***************************************************************************)
(* spin::condition (spin/condition.hpp, src/spin/condition.cpp) and the    *)
(* spin::mutex its callers hold.  A waiter enlists under enter_mtx_ and    *)
(* spins on cmd_.  A notifier locks enter_mtx_, writes a command and       *)
(* returns WITHOUT unlocking: the waiter that finishes the command does,   *)
(* so that nobody enlists or times out while a command is being served.    *)
(*                                                                         *)
(* A spin::mutex is a state_ that anybody may store UNLOCKED to; who       *)
(* locked it is kept here for mtx and check_mtx_ to state properties.      *)
(***************************************************************************)
EXTENDS Integers, FiniteSets

CONSTANTS
  Waiters,      \* threads that lock mtx and call wait() or timed_wait()
  Notifiers,    \* threads that call notify_one() and notify_all()
  Timed,        \* the waiters that call timed_wait()
  Interruptible,\* the waiters whose task or thread may be interrupted
  MaxWaiters    \* bound: waiters_ up to which interruptions go on

ASSUME FiniteWaiters   == IsFiniteSet(Waiters)
ASSUME ThreadsApart    == Waiters \cap Notifiers = {}
ASSUME TimedWait       == Timed \subseteq Waiters
ASSUME InterruptibleWait == Interruptible \subseteq Waiters
ASSUME MaxWaitersEnough == MaxWaiters \in Nat /\ MaxWaiters >= Cardinality(Waiters)

Free == "free"  \* nobody: no thread has this name

ASSUME FreeIsNoThread == Free \notin Waiters \cup Notifiers

VARIABLES
  mtx,          \* the lock passed to wait(): who holds it
  enterMtx,     \* enter_mtx_ is LOCKED
  checkMtx,     \* check_mtx_: who holds it
  cmd,          \* cmd_
  waiters,      \* waiters_
  pc,           \* where each thread is
  stranded      \* history: how many interrupted waits are still counted

vars == <<mtx, enterMtx, checkMtx, cmd, waiters, pc, stranded>>

Threads == Waiters \cup Notifiers

Init ==
  /\ mtx = Free
  /\ enterMtx = FALSE
  /\ checkMtx = Free
  /\ cmd = "SLEEPING"
  /\ waiters = 0
  /\ pc = [t \in Threads |-> "idle"]
  /\ stranded = 0

Goto(t, label) == pc' = [pc EXCEPT ![t] = label]

----------------------------------------------------------------------------
(* The caller of wait(), with its unique_lock.                             *)

Lock(t) ==
  /\ pc[t] = "idle"
  /\ mtx = Free
  /\ mtx' = t
  /\ Goto(t, "locked")
  /\ UNCHANGED <<enterMtx, checkMtx, cmd, waiters, stranded>>

Unlock(t) ==
  /\ pc[t] \in {"locked", "woken"}
  /\ mtx' = Free
  /\ Goto(t, "idle")
  /\ UNCHANGED <<enterMtx, checkMtx, cmd, waiters, stranded>>

----------------------------------------------------------------------------
(* wait() and timed_wait().                                                *)

WaitEnter(t) ==
  /\ pc[t] = "locked"
  /\ ~ enterMtx
  /\ enterMtx' = TRUE
  /\ Goto(t, "enlist")
  /\ UNCHANGED <<mtx, checkMtx, cmd, waiters, stranded>>

\* timed_wait(): abs_time passes before timed_lock() has enter_mtx_, be it free or
\* not, and the assertion that follows fails.
TimedEnterFails(t) ==
  /\ pc[t] = "locked"
  /\ t \in Timed
  /\ Goto(t, "assertion_failed")
  /\ UNCHANGED <<mtx, enterMtx, checkMtx, cmd, waiters, stranded>>

\* Up to the end of the block: enter_mtx_ keeps everybody out who could see the
\* three stores one by one.
Enlist(t) ==
  /\ pc[t] = "enlist"
  /\ waiters' = waiters + 1
  /\ mtx' = Free
  /\ enterMtx' = FALSE
  /\ Goto(t, "sleep")
  /\ UNCHANGED <<checkMtx, cmd, stranded>>

SeeCommand(t) ==
  /\ pc[t] = "sleep"
  /\ cmd # "SLEEPING"
  /\ Goto(t, "check")
  /\ UNCHANGED <<mtx, enterMtx, checkMtx, cmd, waiters, stranded>>

\* Mutant of TimeOut: enter_mtx_.try_lock() is left out.
TimeOutUnlocked(t) ==
  /\ pc[t] = "sleep"
  /\ t \in Timed
  /\ Goto(t, "timed_out")
  /\ UNCHANGED <<mtx, enterMtx, checkMtx, cmd, waiters, stranded>>

\* A waiter may only give up while no command is being served.
TimeOut(t) ==
  /\ pc[t] = "sleep"
  /\ t \in Timed
  /\ ~ enterMtx
  /\ enterMtx' = TRUE
  /\ Goto(t, "timed_out")
  /\ UNCHANGED <<mtx, checkMtx, cmd, waiters, stranded>>

TimedOut(t) ==
  /\ pc[t] = "timed_out"
  /\ waiters' = waiters - 1
  /\ Goto(t, "leave")
  /\ UNCHANGED <<mtx, enterMtx, checkMtx, cmd, stranded>>

\* interruption_point() throws: the waiter stays counted, mtx is not locked
\* again, and the destructor of the caller's unique_lock unlocks it.
Interrupt(t) ==
  /\ pc[t] = "sleep"
  /\ t \in Interruptible
  /\ waiters + Cardinality(Waiters) <= MaxWaiters
  /\ mtx' = Free
  /\ Goto(t, "idle")
  /\ stranded' = stranded + 1
  /\ UNCHANGED <<enterMtx, checkMtx, cmd, waiters>>

CheckLock(t) ==
  /\ pc[t] = "check"
  /\ checkMtx = Free
  /\ checkMtx' = t
  /\ Goto(t, "cas")
  /\ UNCHANGED <<mtx, enterMtx, cmd, waiters, stranded>>

\* The compare-exchange of NOTIFY_ONE: one waiter gets it, the others find
\* SLEEPING and go on.
CheckCas(t) ==
  /\ pc[t] = "cas"
  /\ cmd' = IF cmd = "NOTIFY_ONE" THEN "SLEEPING" ELSE cmd
  /\ checkMtx' = IF cmd = "SLEEPING" THEN Free ELSE checkMtx
  /\ Goto(t, CASE cmd = "SLEEPING"   -> "sleep"
               [] cmd = "NOTIFY_ONE" -> "sub_one"
               [] cmd = "NOTIFY_ALL" -> "sub_all")
  /\ UNCHANGED <<mtx, enterMtx, waiters, stranded>>

SubOne(t) ==
  /\ pc[t] = "sub_one"
  /\ waiters' = waiters - 1
  /\ checkMtx' = Free
  /\ Goto(t, "leave")
  /\ UNCHANGED <<mtx, enterMtx, cmd, stranded>>

\* Mutant of SubAll: the first waiter ends the command for all.
SubAllFirst(t) ==
  /\ pc[t] = "sub_all"
  /\ waiters' = waiters - 1
  /\ Goto(t, "cas_all")
  /\ UNCHANGED <<mtx, enterMtx, checkMtx, cmd, stranded>>

\* The last waiter of a notify_all() ends it.
SubAll(t) ==
  /\ pc[t] = "sub_all"
  /\ waiters' = waiters - 1
  /\ checkMtx' = IF waiters = 1 THEN checkMtx ELSE Free
  /\ Goto(t, IF waiters = 1 THEN "cas_all" ELSE "relock")
  /\ UNCHANGED <<mtx, enterMtx, cmd, stranded>>

CasAll(t) ==
  /\ pc[t] = "cas_all"
  /\ cmd' = IF cmd = "NOTIFY_ALL" THEN "SLEEPING" ELSE cmd
  /\ checkMtx' = Free
  /\ Goto(t, "leave")
  /\ UNCHANGED <<mtx, enterMtx, waiters, stranded>>

\* Mutant of Leave: the waiter that serves the command forgets enter_mtx_.
LeaveLocked(t) ==
  /\ pc[t] = "leave"
  /\ Goto(t, "relock")
  /\ UNCHANGED <<mtx, enterMtx, checkMtx, cmd, waiters, stranded>>

Leave(t) ==
  /\ pc[t] = "leave"
  /\ enterMtx' = FALSE
  /\ Goto(t, "relock")
  /\ UNCHANGED <<mtx, checkMtx, cmd, waiters, stranded>>

Relock(t) ==
  /\ pc[t] = "relock"
  /\ mtx = Free
  /\ mtx' = t
  /\ Goto(t, "woken")
  /\ UNCHANGED <<enterMtx, checkMtx, cmd, waiters, stranded>>

----------------------------------------------------------------------------
(* notify_one() and notify_all().                                          *)

NotifyEnter(n) ==
  /\ pc[n] = "idle"
  /\ ~ enterMtx
  /\ enterMtx' = TRUE
  /\ Goto(n, "look")
  /\ UNCHANGED <<mtx, checkMtx, cmd, waiters, stranded>>

NotifyLook(n) ==
  /\ pc[n] = "look"
  /\ enterMtx' = (waiters # 0)
  /\ Goto(n, IF waiters = 0 THEN "idle" ELSE "set")
  /\ UNCHANGED <<mtx, checkMtx, cmd, waiters, stranded>>

NotifySet(n, c) ==
  /\ pc[n] = "set"
  /\ cmd = "SLEEPING"
  /\ cmd' = c
  /\ Goto(n, "idle")
  /\ UNCHANGED <<mtx, enterMtx, checkMtx, waiters, stranded>>

----------------------------------------------------------------------------
WaitStep(t) ==
  \/ WaitEnter(t) \/ Enlist(t) \/ SeeCommand(t) \/ TimedOut(t)
  \/ CheckLock(t) \/ CheckCas(t) \/ SubOne(t) \/ SubAll(t) \/ CasAll(t)
  \/ Leave(t) \/ Relock(t)

NotifyStep(n) ==
  \/ NotifyLook(n)
  \/ \E c \in {"NOTIFY_ONE", "NOTIFY_ALL"} : NotifySet(n, c)

Next ==
  \/ \E t \in Waiters :
       \/ WaitStep(t) \/ Lock(t) \/ Unlock(t)
       \/ TimedEnterFails(t) \/ TimeOut(t) \/ Interrupt(t)
  \/ \E n \in Notifiers : NotifyEnter(n) \/ NotifyStep(n)

Spec == Init /\ [][Next]_vars

\* Threads inside wait() and notify() run; nobody has to call them, and no
\* wait has to time out.
FairSpec ==
  /\ Spec
  /\ \A t \in Waiters : WF_vars(WaitStep(t)) /\ WF_vars(Unlock(t))
  /\ \A n \in Notifiers : WF_vars(NotifyStep(n))

----------------------------------------------------------------------------
(* Properties.                                                             *)

TypeOK ==
  /\ mtx \in Threads \cup {Free} /\ checkMtx \in Threads \cup {Free}
  /\ enterMtx \in BOOLEAN
  /\ cmd \in {"SLEEPING", "NOTIFY_ONE", "NOTIFY_ALL"}
  /\ waiters \in 0 .. MaxWaiters
  /\ pc \in [Threads -> {"idle", "locked", "enlist", "sleep", "timed_out",
                         "check", "cas", "sub_one", "sub_all", "cas_all",
                         "leave", "relock", "woken", "look", "set",
                         "assertion_failed"}]
  /\ stranded \in 0 .. MaxWaiters

\* The threads waiters_ stands for.
Enlisted ==
  {t \in Waiters : pc[t] \in {"sleep", "timed_out", "check", "cas", "sub_one", "sub_all"}}

\* waiters_ is the number of threads that wait, through time-outs, and commands
\* that are served while others come and go, plus one for every wait that was
\* interrupted: notify() decides by it.
WaitersCounted == waiters = Cardinality(Enlisted) + stranded

\* Who has to unlock enter_mtx_: a thread between its lock and its unlock, or
\* the command that its notifier left behind.
Keepers ==
  {t \in Threads : pc[t] \in {"enlist", "timed_out", "leave", "sub_one", "cas_all",
                              "look", "set"}}

\* enter_mtx_ is handed from the notifier to one waiter: it is locked exactly
\* while one thread, or an unserved command, is there to unlock it; two threads
\* never are, and with a command unserved only the waiter that ends it.
HandedOver ==
  /\ enterMtx <=> (cmd # "SLEEPING" \/ Keepers # {})
  /\ \A s, t \in Keepers : s = t
  /\ cmd # "SLEEPING" => \A t \in Keepers : pc[t] = "cas_all"

\* A notify_all() ends when every thread that waited has left the loop.
AllLeave ==
  [][cmd = "NOTIFY_ALL" /\ cmd' = "SLEEPING" =>
       \A t \in Waiters : pc'[t] \notin {"sleep", "check", "cas"}]_vars

\* A command is served, and enter_mtx_ is unlocked again after it, as long as no
\* wait was interrupted.
EnterFreed == enterMtx ~> ~ enterMtx \/ stranded > 0

\* The same whatever happens: spin_condition_variables.qbk:124, :132 promise
\* that a notification unblocks waiting tasks.
EnterAlwaysFreed == enterMtx ~> ~ enterMtx

\* The lock of the caller is held by one thread at a time.
OneHolder ==
  \A s, t \in Waiters :
    pc[s] \in {"locked", "enlist", "woken"} /\ pc[t] \in {"locked", "enlist", "woken"}
      => s = t

\* wait() gives the caller its lock back, exclusive, until a wait is interrupted
\* (OneHolder itself is what spin_condition_variables.qbk:149-151 promises: the
\* lock is locked again when wait() exits with an exception).
MutualExclusion == stranded = 0 => OneHolder

\* condition.hpp:189: BOOST_ASSERT( lk).
EnterAssertionHolds == \A t \in Waiters : pc[t] # "assertion_failed"

=============================================================================
