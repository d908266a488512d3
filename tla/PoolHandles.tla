---------------------------- MODULE PoolHandles ----------------------------
(***************************************************************************)
(* static_pool objects as a program uses them (static_pool.hpp): the       *)
(* thread that owns them constructs, moves, swaps and destroys them and    *)
(* shuts pools down, other threads submit tasks, and a task may submit     *)
(* another one to the pool that runs it (pool_base.hpp:195).               *)
(*                                                                         *)
(* Below is what the other modules show of a pool_base: put() tests room   *)
(* and state and links the task with the tail locked, deactivate(), which  *)
(* takes another mutex, may come between; a full queue holds put() up      *)
(* until there is room (BoundedPrioQueue, and BoundedFifo as long as it    *)
(* loses no notification).  A free worker takes a pending task, in         *)
(* whichever order its queue has, and leaves at shutdown when it finds the *)
(* queue empty: take and empty() lock the tail for a moment, too.          *)
(* That fsem_.deactivate() throws (FastSemaphore) is left out, and so is   *)
(* what tasks fork.  The four specializations of static_pool differ in the *)
(* arguments of submit() and in whether their queue is bounded.            *)
(***************************************************************************)
EXTENDS Naturals, FiniteSets

CONSTANTS
  Handles,      \* static_pool objects
  MaxPools,     \* bound: pool_base objects that are ever made
  Size,         \* poolsize of each
  Hwm,          \* high watermark of a bounded queue
  Roots,        \* tasks submitted by a thread of their own
  Children,     \* tasks submitted by a task
  Parent        \* the root that submits each of them

PoolHandlesConstants ==
  /\ Size \in Nat \ {0} /\ Hwm \in Nat \ {0} /\ MaxPools \in Nat
  /\ Parent \in [Children -> Roots] /\ Roots \cap Children = {}

Pools == 1 .. MaxPools
None  == 0
Tasks == Roots \cup Children

VARIABLES
  bounded,      \* the queues are bounded ones
  pool,         \* pool_ of each static_pool
  state,        \* of each pool: "unmade", "active", "closing" (state_ is DEACTIVE),
                \* "joining" (its queue's too, and the flag is set) or "closed"
  now,          \* it is closed by shutdown_now()
  left,         \* how many of its workers have left worker_function()
  owner,        \* the pool whose shutdown() the owner is in
  at,           \* where each task is
  into          \* the pool it is submitted to

vars == <<bounded, pool, state, now, left, owner, at, into>>
tasks == <<left, at, into>>

Init ==
  /\ bounded \in BOOLEAN
  /\ pool = [h \in Handles |-> None]
  /\ state = [p \in Pools |-> "unmade"]
  /\ now = [p \in Pools |-> FALSE]
  /\ left = [p \in Pools |-> 0]
  /\ owner = None
  /\ at = [t \in Tasks |-> "new"]
  /\ into = [t \in Tasks |-> None]

In(p, label) == {t \in Tasks : into[t] = p /\ at[t] = label}

----------------------------------------------------------------------------
(* The owner.                                                              *)

\* pool_base() starts the workers; pools are made in the order of their names.
Construct(h) ==
  /\ owner = None
  /\ pool[h] = None
  /\ \E p \in Pools :
       /\ state[p] = "unmade"
       /\ \A q \in 1 .. p - 1 : state[q] # "unmade"
       /\ state' = [state EXCEPT ![p] = "active"]
       /\ pool' = [pool EXCEPT ![h] = p]
  /\ UNCHANGED <<bounded, now, owner, tasks>>

\* shutdown() or shutdown_now(): the first one closes the pool and goes on to
\* join the workers.
Close(p, hurry) ==
  IF state[p] = "active"
  THEN /\ state' = [state EXCEPT ![p] = "closing"]
       /\ now' = [now EXCEPT ![p] = hurry]
       /\ owner' = p
  ELSE UNCHANGED <<state, now, owner>>

Shutdown(h, hurry) ==
  /\ owner = None
  /\ pool[h] # None
  /\ Close(pool[h], hurry)
  /\ UNCHANGED <<bounded, pool, tasks>>

\* The last reference to p goes, and ~pool_base() shuts it down.  That no other
\* thread is in a call to the pool is up to the program.
Release(p) ==
  IF p = None
  THEN UNCHANGED <<state, now, owner>>
  ELSE /\ (In(p, "putting") \cup In(p, "linking")) \cap Roots = {}
       /\ Close(p, FALSE)

\* ~static_pool(), and a new object in the same place.
Destroy(h) ==
  /\ owner = None
  /\ pool' = [pool EXCEPT ![h] = None]
  /\ Release(pool[h])
  /\ UNCHANGED <<bounded, tasks>>

\* operator=: g moves to a temporary, which is swapped with h and destroyed.
MoveAssign(h, g) ==
  /\ owner = None
  /\ h # g
  /\ pool' = [pool EXCEPT ![h] = pool[g], ![g] = None]
  /\ Release(pool[h])
  /\ UNCHANGED <<bounded, tasks>>

\* swap(), and with a new object the move constructor.
Swap(h, g) ==
  /\ owner = None
  /\ pool' = [pool EXCEPT ![h] = pool[g], ![g] = pool[h]]
  /\ UNCHANGED <<bounded, state, now, owner, tasks>>

\* queue_.deactivate(), and on to the flag that lets the workers go.
CloseQueue ==
  /\ owner # None
  /\ state[owner] = "closing"
  /\ state' = [state EXCEPT ![owner] = "joining"]
  /\ UNCHANGED <<bounded, pool, now, owner, tasks>>

\* wg_.join_all()
Joined ==
  /\ owner # None
  /\ state[owner] = "joining"
  /\ left[owner] = Size
  /\ state' = [state EXCEPT ![owner] = "closed"]
  /\ owner' = None
  /\ UNCHANGED <<bounded, pool, now, tasks>>

----------------------------------------------------------------------------
(* The threads that submit, and the workers.                               *)

Goto(t, label) == at' = [at EXCEPT ![t] = label]

\* submit() throws if the pool is closed.
Called(p) == IF state[p] = "active" THEN "putting" ELSE "rejected"

Submit(t, h) ==
  /\ t \in Roots
  /\ at[t] = "new"
  /\ pool[h] # None
  /\ Goto(t, Called(pool[h]))
  /\ into' = [into EXCEPT ![t] = pool[h]]
  /\ UNCHANGED <<bounded, pool, state, now, left, owner>>

\* The parent is in submit() until the child is put.
SubmitChild(c) ==
  /\ at[c] = "new"
  /\ at[Parent[c]] = "running"
  /\ at' = [at EXCEPT ![c] = Called(into[Parent[c]]), ![Parent[c]] = "submitting"]
  /\ into' = [into EXCEPT ![c] = into[Parent[c]]]
  /\ UNCHANGED <<bounded, pool, state, now, left, owner>>

HasRoom(p) == ~ bounded \/ Cardinality(In(p, "pending")) < Hwm

\* active_() of the queue of p.
QueueActive(p) == state[p] \in {"active", "closing"}

\* tail_mtx_ is free, which is held from the tests to the link.
TailFree(p) == In(p, "linking") = {}

\* queue_.put() goes past its tests, after a sleep if the queue was full.
Put(t) ==
  /\ at[t] = "putting"
  /\ TailFree(into[t])
  /\ QueueActive(into[t])
  /\ HasRoom(into[t])
  /\ Goto(t, "linking")
  /\ UNCHANGED <<bounded, pool, state, now, left, owner, into>>

\* The task is in the queue, which may have been deactivated in between.
Link(t) ==
  /\ at[t] = "linking"
  /\ Goto(t, "pending")
  /\ UNCHANGED <<bounded, pool, state, now, left, owner, into>>

\* Mutant of PutReject: a sleeping put() is not woken up by deactivate().
PutRejectAwake(t) ==
  /\ at[t] = "putting"
  /\ TailFree(into[t])
  /\ ~ QueueActive(into[t])
  /\ HasRoom(into[t])
  /\ Goto(t, "rejected")
  /\ UNCHANGED <<bounded, pool, state, now, left, owner, into>>

PutReject(t) ==
  /\ at[t] = "putting"
  /\ TailFree(into[t])
  /\ ~ QueueActive(into[t])
  /\ Goto(t, "rejected")
  /\ UNCHANGED <<bounded, pool, state, now, left, owner, into>>

Busy(p) == In(p, "running") \cup In(p, "submitting")

\* A worker that has not left runs no task.
Idle(p) == left[p] + Cardinality(Busy(p)) < Size

\* A free worker takes a task.
Take(t) ==
  /\ at[t] = "pending"
  /\ TailFree(into[t])
  /\ Idle(into[t])
  /\ Goto(t, "running")
  /\ UNCHANGED <<bounded, pool, state, now, left, owner, into>>

\* Mutant of Leave: empty() compares head_ and tail_ without tail_mtx_.
LeaveUnlocked(p) ==
  /\ state[p] = "joining"
  /\ Idle(p)
  /\ now[p] \/ In(p, "pending") = {}
  /\ left' = [left EXCEPT ![p] = @ + 1]
  /\ UNCHANGED <<bounded, pool, state, now, owner, at, into>>

\* shutdown_() lets a free worker go: after shutdown() when queue_.empty(), which
\* waits for a put() that holds tail_mtx_, after shutdown_now() at once.
Leave(p) ==
  /\ state[p] = "joining"
  /\ Idle(p)
  /\ now[p] \/ (TailFree(p) /\ In(p, "pending") = {})
  /\ left' = [left EXCEPT ![p] = @ + 1]
  /\ UNCHANGED <<bounded, pool, state, now, owner, at, into>>

Waiting(t) == \E c \in Children : Parent[c] = t /\ at[c] \in {"putting", "linking"}

\* The function ends; task_rejected in its own submit() ends it, too.
Finish(t) ==
  /\ at[t] \in {"running", "submitting"}
  /\ ~ Waiting(t)
  /\ Goto(t, "done")
  /\ UNCHANGED <<bounded, pool, state, now, left, owner, into>>

----------------------------------------------------------------------------
OwnerStep(h) ==
  \/ Construct(h) \/ Destroy(h)
  \/ \E hurry \in BOOLEAN : Shutdown(h, hurry)
  \/ \E g \in Handles : MoveAssign(h, g) \/ Swap(h, g)

Shutting == CloseQueue \/ Joined

TaskStep(t) == Put(t) \/ Link(t) \/ PutReject(t) \/ Take(t) \/ Finish(t)

Next ==
  \/ \E h \in Handles : OwnerStep(h) \/ \E t \in Roots : Submit(t, h)
  \/ Shutting
  \/ \E p \in Pools : Leave(p)
  \/ \E c \in Children : SubmitChild(c)
  \/ \E t \in Tasks : TaskStep(t)

Spec == Init /\ [][Next]_vars

\* Functions end, free workers take tasks or leave, a call that can go on does.
Fairness ==
  /\ WF_vars(Shutting)
  /\ \A p \in Pools : WF_vars(Leave(p))
  /\ \A t \in Tasks : WF_vars(TaskStep(t))

----------------------------------------------------------------------------
(* Properties.                                                             *)

TypeOK ==
  /\ bounded \in BOOLEAN
  /\ pool \in [Handles -> Pools \cup {None}]
  /\ state \in [Pools -> {"unmade", "active", "closing", "joining", "closed"}]
  /\ now \in [Pools -> BOOLEAN]
  /\ left \in [Pools -> 0 .. Size]
  /\ owner \in Pools \cup {None}
  /\ at \in [Tasks -> {"new", "rejected", "putting", "linking", "pending",
                       "running", "submitting", "done"}]
  /\ into \in [Tasks -> Pools \cup {None}]

\* However pools are moved, assigned and swapped: one static_pool refers to an
\* active pool, and a pool that none refers to is shut down or about to be.  When
\* its workers are joined none of them was in a task, and after shutdown() or the
\* destructor no task is in the queue or ever gets there (static_pool.qbk:197), also
\* none whose put() had tested the state when deactivate() came.
NoPoolLeaks ==
  \A p \in Pools :
    LET H == {h \in Handles : pool[h] = p} IN
    /\ state[p] = "active" => Cardinality(H) = 1
    /\ state[p] = "closed" => Busy(p) = {}
    /\ state[p] = "closed" /\ ~ now[p] => In(p, "linking") \cup In(p, "pending") = {}

\* All workers of p sleep in a submit() to its full queue.
Jammed(p) == {t \in Roots : into[t] = p /\ at[t] = "submitting" /\ Waiting(t)} = Busy(p)
             /\ Cardinality(Busy(p)) = Size

\* submit() comes back: the only thing that may hold it up for ever is that all
\* workers are in a submit() of their own to the same bounded queue.  And a
\* shutdown comes back, by name, by destruction or by assignment, also from a pool
\* whose workers are all in submit().
CallsReturn ==
  /\ \A t \in Tasks :
       at[t] = "putting" ~> at[t] \notin {"putting", "linking"} \/ Jammed(into[t])
  /\ \A p \in Pools : state[p] = "closing" ~> state[p] = "closed"

\* submit() comes back, whoever calls it.  (Refuted: see Jammed.)
NobodyJams == \A t \in Tasks : at[t] = "putting" ~> at[t] # "putting"

=============================================================================
