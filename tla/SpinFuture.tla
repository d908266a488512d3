----------------------------- MODULE SpinFuture -----------------------------
(***************************************************************************)
(* The result shared by a spin::promise or spin::packaged_task and the     *)
(* futures (spin/future.hpp).  future_object_base keeps it under mtx, and  *)
(* wait() enlists on `waiters' before it unlocks mtx, so each stretch      *)
(* under mtx is one step.  The wait callback runs without mtx; it is the   *)
(* one of lazy futures (spin_futures.qbk:159-165), which produces the      *)
(* result and ignores the exception that somebody else already did.        *)
(***************************************************************************)
EXTENDS Integers, FiniteSets

CONSTANTS
  Producers,    \* threads that call set_value(), set_exception() or operator()()
  Waiters,      \* threads that call get(), wait() or timed_wait()
  Timed,        \* those that call timed_wait()
  OwnerWaits    \* the owner destroys it only while no callback runs

ASSUME RolesApart == Producers \cap Waiters = {} /\ Timed \subseteq Waiters
ASSUME OwnerWaitsIsBool == OwnerWaits \in BOOLEAN

Threads == Producers \cup Waiters
Nobody  == "nobody"     \* the thread of the owner
ASSUME OwnerApart == Nobody \notin Threads

VARIABLES
  kind,         \* "promise" or "packaged_task"
  callback,     \* a wait callback is set
  owner,        \* the promise or packaged_task: "held", "assigned" over or "gone"
  started,      \* task_base::started
  done,         \* done
  outcome,      \* what result and exception hold
  pc,           \* where each thread is
  saw,          \* the outcome each wait() or get() came back with
  made          \* the threads whose call has produced the result

fixed == <<kind, callback>>
vars == <<fixed, owner, started, done, outcome, pc, saw, made>>

NoOutcome == "none"
Produced  == {"value", "exception"}

Init ==
  /\ kind \in {"promise", "packaged_task"}
  /\ callback \in BOOLEAN
  /\ owner = "held"
  /\ started = FALSE
  /\ done = FALSE
  /\ outcome = NoOutcome
  /\ pc = [t \in Threads |-> "idle"]
  /\ saw = [w \in Waiters |-> NoOutcome]
  /\ made = {}

Goto(t, label) == pc' = [pc EXCEPT ![t] = label]

----------------------------------------------------------------------------
(* The side that produces the result.                                      *)

\* A thread that is to call the promise or packaged_task: a producer or a wait
\* callback; and where it goes on.
Calls(t) ==
  /\ owner = "held"
  /\ pc[t] = IF t \in Producers THEN "idle" ELSE "callback"

After(t, label) == IF t \in Producers THEN label ELSE "relock"

\* mark_finished_internal(): stores the outcome o and wakes all waiters; t, if it
\* is a thread of ours, goes on at label.
Finish(o, t, label) ==
  /\ done' = TRUE
  /\ outcome' = o
  /\ pc' = [u \in Threads |->
              IF u = t THEN label ELSE IF pc[u] = "asleep" THEN "woken" ELSE pc[u]]

\* promise::set_value() and set_exception().
Set(t) ==
  /\ kind = "promise"
  /\ Calls(t)
  /\ ~ done
  /\ \E o \in Produced : Finish(o, t, After(t, "ended"))
  /\ made' = made \cup {t}
  /\ UNCHANGED <<fixed, owner, started, saw>>

\* They throw promise_already_satisfied.
SetThrows(t) ==
  /\ kind = "promise"
  /\ Calls(t)
  /\ done
  /\ Goto(t, After(t, "ended"))
  /\ UNCHANGED <<fixed, owner, started, done, outcome, saw, made>>

\* After an assignment the calls are about the other result.
SetOther(t) ==
  /\ owner = "assigned"
  /\ pc[t] = IF t \in Producers THEN "idle" ELSE "callback"
  /\ Goto(t, After(t, "ended"))
  /\ UNCHANGED <<fixed, owner, started, done, outcome, saw, made>>

\* Mutant of Run: started is tested, but not set.
RunUnmarked(t) ==
  /\ kind = "packaged_task"
  /\ Calls(t)
  /\ ~ started
  /\ Goto(t, "running")
  /\ UNCHANGED <<fixed, owner, started, done, outcome, saw, made>>

\* task_base::run(): marks the task started, then runs it without mtx.
Run(t) ==
  /\ kind = "packaged_task"
  /\ Calls(t)
  /\ ~ started
  /\ started' = TRUE
  /\ Goto(t, "running")
  /\ UNCHANGED <<fixed, owner, done, outcome, saw, made>>

\* It throws task_already_started.
RunThrows(t) ==
  /\ kind = "packaged_task"
  /\ Calls(t)
  /\ started
  /\ Goto(t, After(t, "ended"))
  /\ UNCHANGED <<fixed, owner, started, done, outcome, saw, made>>

\* The end of do_run(): done is not tested here.
RunEnd(t) ==
  /\ pc[t] = "running"
  /\ \E o \in Produced : Finish(o, t, After(t, "ended"))
  /\ made' = made \cup {t}
  /\ UNCHANGED <<fixed, owner, started, saw>>

\* Nobody destroys or assigns a promise or packaged_task while a producer runs in
\* it; of the wait callbacks the owner knows nothing.
Unused ==
  /\ \A p \in Producers : pc[p] # "running"
  /\ OwnerWaits => \A w \in Waiters : pc[w] \notin {"callback", "running"}

\* Mutant of Destroy: whatever there is is overwritten.
DestroyBreaks ==
  /\ owner = "held"
  /\ Unused
  /\ owner' = "gone"
  /\ started' = TRUE
  /\ Finish("broken", Nobody, "gone")
  /\ UNCHANGED <<fixed, saw, made>>

\* ~promise(), and owner_destroyed() of ~packaged_task() or of an assignment to
\* it: futures whose result is still to come get broken_promise.
Destroy ==
  /\ owner = "held"
  /\ Unused
  /\ owner' = "gone"
  /\ IF IF kind = "promise" THEN done ELSE started
     THEN UNCHANGED <<started, done, outcome, pc>>
     ELSE /\ started' = (kind = "packaged_task")
          /\ Finish("broken", Nobody, "gone")
  /\ UNCHANGED <<fixed, saw, made>>

\* promise::operator=: the promise now refers to another result.  This one is
\* dropped as it is.
MoveAssign ==
  /\ kind = "promise"
  /\ owner = "held"
  /\ Unused
  /\ owner' = "assigned"
  /\ UNCHANGED <<fixed, started, done, outcome, pc, saw, made>>

----------------------------------------------------------------------------
(* The side that waits.                                                    *)

\* wait() and timed_wait_until() go on with the result, or to sleep.
ReturnOrSleep(w) ==
  /\ Goto(w, IF done THEN "returned" ELSE "asleep")
  /\ saw' = [saw EXCEPT ![w] = outcome]
  /\ UNCHANGED <<fixed, owner, started, done, outcome, made>>

WaitEnter(w) ==
  /\ pc[w] = "idle"
  /\ ~ callback \/ done
  /\ ReturnOrSleep(w)

\* do_callback(): releases mtx and calls the callback.
WaitCallback(w) ==
  /\ pc[w] = "idle"
  /\ callback
  /\ ~ done
  /\ Goto(w, "callback")
  /\ UNCHANGED <<fixed, owner, started, done, outcome, saw, made>>

\* Mutant of WaitAgain: done is not tested after the callback.
WaitAgainAsleep(w) ==
  \/ /\ pc[w] = "relock"
     /\ Goto(w, "asleep")
     /\ UNCHANGED <<fixed, owner, started, done, outcome, saw, made>>
  \/ /\ pc[w] = "woken"
     /\ ReturnOrSleep(w)

\* After the callback, and after each sleep.
WaitAgain(w) ==
  /\ pc[w] \in {"relock", "woken"}
  /\ ReturnOrSleep(w)

TimeOut(w) ==
  /\ w \in Timed
  /\ pc[w] = "asleep"
  /\ Goto(w, "timed_out")
  /\ UNCHANGED <<fixed, owner, started, done, outcome, saw, made>>

\* timed_wait_until() looks once more, and returns false if there is no result.
TimedOut(w) ==
  /\ pc[w] = "timed_out"
  /\ Goto(w, IF done THEN "returned" ELSE "gave_up")
  /\ saw' = [saw EXCEPT ![w] = outcome]
  /\ UNCHANGED <<fixed, owner, started, done, outcome, made>>

----------------------------------------------------------------------------
Produce(t) ==
  \/ Set(t) \/ SetThrows(t) \/ SetOther(t)
  \/ Run(t) \/ RunThrows(t) \/ RunEnd(t)

Wait(w) == WaitAgain(w) \/ TimedOut(w)

Next ==
  \/ \E t \in Threads : Produce(t)
  \/ \E w \in Waiters : WaitEnter(w) \/ WaitCallback(w) \/ Wait(w) \/ TimeOut(w)
  \/ Destroy
  \/ MoveAssign

Spec == Init /\ [][Next]_vars

\* Functions and callbacks come to their end and a thread that is inside wait()
\* runs on; nobody has to produce a result.  Without a callback the promise or
\* packaged_task that somebody waits for is destroyed in the end.
Fairness ==
  /\ \A t \in Producers : WF_vars(RunEnd(t))
  /\ \A w \in Waiters : WF_vars(Produce(w)) /\ WF_vars(Wait(w))
  /\ WF_vars(~ callback /\ (\E w \in Waiters : pc[w] # "idle") /\ Destroy)


----------------------------------------------------------------------------
(* Properties.                                                             *)

TypeOK ==
  /\ kind \in {"promise", "packaged_task"} /\ callback \in BOOLEAN
  /\ owner \in {"held", "assigned", "gone"}
  /\ started \in BOOLEAN /\ done \in BOOLEAN
  /\ outcome \in Produced \cup {"broken", NoOutcome}
  /\ done <=> outcome # NoOutcome
  /\ pc \in [Threads -> {"idle", "running", "ended", "callback", "relock",
                         "asleep", "woken", "timed_out", "returned", "gave_up"}]
  /\ saw \in [Waiters -> Produced \cup {"broken", NoOutcome}]
  /\ made \subseteq Threads

\* A result that is ready stays what it is, whoever tries to produce another one
\* and whenever its producer is destroyed.
OutcomeStands == [][done => done' /\ outcome' = outcome]_vars

\* A ready result has one origin: one call has produced it, of producers and
\* callbacks together, or the promise was broken and none has.
OneOrigin ==
  Cardinality(made) = IF done /\ outcome # "broken" THEN 1 ELSE 0

\* Whoever comes back from a wait comes back with the result, and nobody sleeps
\* beside it.
ReturnsResult ==
  \A w \in Waiters :
    /\ pc[w] = "returned" => done /\ saw[w] = outcome
    /\ done => pc[w] # "asleep"

\* A wait comes to its end once the promise or packaged_task is gone, and no
\* later for a lazy future, unless the promise was assigned to.
WaitEnds ==
  \A w \in Waiters :
    pc[w] # "idle" ~> pc[w] \in {"returned", "gave_up"} \/ owner = "assigned"

\* When another promise is assigned to the promise the result gets ready
\* (spin_future_ref.qbk:611-613).
AssignedIsReady == owner = "assigned" => done

\* f(*this) is invoked on a promise or packaged_task that is there
\* (spin_future_ref.qbk:708-709, :879-880).
CallbackFindsOwner ==
  \A w \in Waiters : pc[w] \in {"callback", "running"} => owner # "gone"

=============================================================================
