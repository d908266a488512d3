-------------------------------- MODULE Pool --------------------------------
(***************************************************************************)
(* What a pool promises (static_pool.qbk:188-202, fork_join.qbk): every    *)
(* task it accepts runs on at most Size workers, in its own time and once; *)
(* a task that forks a sub-task ends after it; shutdown() comes back when  *)
(* all that was accepted is done, and nothing is accepted later            *)
(* (shutdown.qbk:14-15).                                                   *)
(*                                                                         *)
(* It promises less than the documents say where the code does: a submit() *)
(* that began in time may be accepted by a closed pool, until its workers  *)
(* are joined, and a shutdown() may leave a forked sub-task and the task   *)
(* that joins it behind.                                                   *)
(***************************************************************************)
EXTENDS Naturals, FiniteSets

CONSTANTS
  Size,         \* number of workers
  Roots,        \* tasks that are submitted
  Forks,        \* the ones that fork a sub-task and join it
  Sub(_)        \* their sub-task

Tasks == Roots \cup {Sub(r) : r \in Forks}

VARIABLES
  stage,        \* of each task
  state,        \* "open", "closed" or "joined"
  hurry         \* closed by shutdown_now()

vars == <<stage, state, hurry>>

Init ==
  /\ stage = [t \in Tasks |-> "new"]
  /\ state = "open"
  /\ hurry = FALSE

Become(t, label) == stage' = [stage EXCEPT ![t] = label]
OnlyStage == UNCHANGED <<state, hurry>>

Call(r) ==
  /\ stage[r] = "new"
  /\ state = "open"
  /\ Become(r, "calling")
  /\ OnlyStage

Accept(r) ==
  /\ stage[r] = "calling"
  /\ state # "joined" \/ hurry
  /\ Become(r, "pending")
  /\ OnlyStage

Refuse(r) ==
  /\ stage[r] \in {"new", "calling"}
  /\ state # "open"
  /\ Become(r, "refused")
  /\ OnlyStage

Take(t) ==
  /\ stage[t] = "pending"
  /\ state # "joined"
  /\ Cardinality({u \in Tasks : stage[u] = "running"}) < Size
  /\ Become(t, "running")
  /\ OnlyStage

Fork(r) ==
  /\ stage[r] = "running"
  /\ stage[Sub(r)] = "new"
  /\ Become(Sub(r), "pending")
  /\ OnlyStage

\* The worker turns to other tasks while r joins its sub-task.
Suspend(r) ==
  /\ stage[r] = "running"
  /\ stage[Sub(r)] \in {"pending", "running"}
  /\ Become(r, "pending")
  /\ OnlyStage

Finish(t) ==
  /\ stage[t] = "running"
  /\ t \in Forks => stage[Sub(t)] = "done"
  /\ Become(t, "done")
  /\ OnlyStage

Close ==
  /\ state = "open"
  /\ state' = "closed"
  /\ UNCHANGED <<stage, hurry>>

Hurry ==
  /\ state = "closed"
  /\ hurry' = TRUE
  /\ UNCHANGED <<stage, state>>

Joined ==
  /\ state = "closed"
  /\ \A t \in Tasks : stage[t] # "running"
  /\ hurry \/ \A r \in Roots \ Forks : stage[r] # "pending"
  /\ state' = "joined"
  /\ UNCHANGED <<stage, hurry>>

Next ==
  \/ \E r \in Roots : Call(r) \/ Accept(r) \/ Refuse(r)
  \/ \E t \in Tasks : Take(t) \/ Finish(t)
  \/ \E r \in Forks : Fork(r) \/ Suspend(r)
  \/ Close \/ Hurry \/ Joined

Spec == Init /\ [][Next]_vars

=============================================================================
