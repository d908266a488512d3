----------------------------- MODULE StaticPool -----------------------------
(***************************************************************************)
(* A static_pool: pool_base (detail/pool_base.hpp) with its workers        *)
(* (detail/worker.hpp, worker_group.cpp), their work-stealing deques, the  *)
(* global queue (unbounded_fifo.hpp) and the semaphore workers sleep on.   *)
(* Application threads submit tasks, workers run them, tasks fork and join *)
(* sub-tasks, several threads may shut the pool down.                      *)
(*                                                                         *)
(* Deques and queue are sequences here: Wsq and BoundedFifo look inside.   *)
(* The semaphore keeps the steps that matter to a worker and to shutdown.  *)
(***************************************************************************)
EXTENDS Integers, Sequences, SequencesExt, FiniteSets

CONSTANTS
  PoolSize,     \* poolsize of the constructor
  Roots,        \* tasks the application submits, each from a thread of its own
  Forking,      \* the ones that fork a sub-task and join it
  Closers,      \* threads that may call shutdown(), or the destructor
  NowClosers,   \* threads that may call shutdown_now(), maybe the same ones
  MaxPermits    \* bound: where the counts of the semaphore saturate (see Capped)

ASSUME PoolSizePos   == PoolSize \in Nat \ {0}      \* else invalid_poolsize
ASSUME RootsPos      == Roots \subseteq Nat \ {0}
ASSUME ForkingRoots  == Forking \subseteq Roots
ASSUME MaxPermitsAll == MaxPermits \in Nat /\ MaxPermits > PoolSize

Workers  == 0 .. PoolSize - 1       \* positions in wg_
Child(r) == -r                      \* the sub-task r forks
Tasks    == Roots \cup {Child(r) : r \in Forking}
None     == 0                       \* no task

VARIABLES
  closed,       \* state_ is DEACTIVE
  queue,        \* queue_, the tasks in order
  queueActive,  \* state_ of queue_
  semCount,     \* fsem_: sem_count_
  semActive,    \* fsem_: sem_active_
  tokens,       \* fsem_: the kernel semaphore
  shtdwn,       \* shtdwn_
  shtdwnNow,    \* shtdwn_now_
  wsq,          \* wsq_ of each worker, head first
  wpc,          \* where each worker is in worker_function()
  active,       \* the task it runs
  scan,         \* the victims try_steal_other_work_() has picked so far
  stage,        \* of each task: "new", "forked" (it joins) or "done"
  spc,          \* where the thread that submits a root is
  cpc,          \* where each closer is
  loaded        \* fsem_.deactivate(): the count it loaded

queueVars  == <<queue, queueActive>>
semVars    == <<semCount, semActive, tokens>>
workerVars == <<wsq, wpc, active, scan, stage>>
closeVars  == <<closed, shtdwn, shtdwnNow, cpc, loaded>>
vars == <<queueVars, semVars, workerVars, closeVars, spc>>

Init ==
  /\ closed = FALSE
  /\ queue = <<>> /\ queueActive = TRUE
  /\ semCount = 0 /\ semActive = TRUE /\ tokens = 0
  /\ shtdwn = FALSE /\ shtdwnNow = FALSE
  /\ wsq = [w \in Workers |-> <<>>]
  /\ wpc = [w \in Workers |-> "loop"]
  /\ active = [w \in Workers |-> None]
  /\ scan = [w \in Workers |-> <<>>]
  /\ stage = [t \in Tasks |-> "new"]
  /\ spc = [r \in Roots |-> "idle"]
  /\ cpc = [c \in Closers \cup NowClosers |-> "idle"]
  /\ loaded = 0

----------------------------------------------------------------------------
(* fast_semaphore, post() in one step.  Only the width of int bounds its   *)
(* counter: every yield of a task posts, and the worker that takes the     *)
(* task back does not wait; with the semaphore deactivated and the flag    *)
(* not set yet, idle workers count down.  More than one permit or token    *)
(* per worker does not change who may sleep, so the counts saturate.       *)

Capped(n) ==
  CASE n > MaxPermits -> MaxPermits [] n < -MaxPermits -> -MaxPermits [] OTHER -> n

SemPost ==
  /\ semCount' = Capped(semCount + 1)
  /\ tokens' = IF semCount < 0 THEN Capped(tokens + 1) ELSE tokens
  /\ UNCHANGED semActive

----------------------------------------------------------------------------
(* submit(), by the thread of root r.                                      *)

SubmitAt(r, label) == spc' = [spc EXCEPT ![r] = label]

SubmitCheck(r) ==
  /\ spc[r] = "idle"
  /\ SubmitAt(r, IF closed THEN "rejected" ELSE "put")
  /\ UNCHANGED <<queueVars, semVars, workerVars, closeVars>>

\* tail_mtx_ is held from the test of active_() to the link.  Who compares head_ with
\* tail_, in try_take() and empty(), needs it for a moment (get_tail_()).
TailFree == \A r \in Roots : spc[r] # "link"

\* queue_.put() tests active_() with its tail locked; deactivate() takes the
\* other lock and may come between the test and the link.
PutCheck(r) ==
  /\ spc[r] = "put"
  /\ TailFree
  /\ SubmitAt(r, IF queueActive THEN "link" ELSE "rejected")
  /\ UNCHANGED <<queueVars, semVars, workerVars, closeVars>>

PutLink(r) ==
  /\ spc[r] = "link"
  /\ queue' = Append(queue, r)
  /\ SubmitAt(r, "post")
  /\ UNCHANGED <<queueActive, semVars, workerVars, closeVars>>

\* Mutant of PutPost: no post, a sleeping worker is not told.
PutPostNothing(r) ==
  /\ spc[r] = "post"
  /\ SubmitAt(r, "accepted")
  /\ UNCHANGED <<queueVars, semVars, workerVars, closeVars>>

PutPost(r) ==
  /\ spc[r] = "post"
  /\ SemPost
  /\ SubmitAt(r, "accepted")
  /\ UNCHANGED <<queueVars, workerVars, closeVars>>

Submit(r) == SubmitCheck(r) \/ PutCheck(r) \/ PutLink(r) \/ PutPost(r)

----------------------------------------------------------------------------
(* worker_function(), by worker w.                                         *)

WorkerAt(w, label) == wpc' = [wpc EXCEPT ![w] = label]

Take(w, t) == active' = [active EXCEPT ![w] = t] /\ WorkerAt(w, "run")

\* shutdown_(): only one of the flags is ever set, and none is taken back.
Shutdown == (shtdwn /\ queue = <<>>) \/ shtdwnNow

\* Mutant of Loop: empty() looks at tail_ without its mutex.
LoopUnlocked(w) ==
  /\ wpc[w] = "loop"
  /\ WorkerAt(w, IF Shutdown THEN "exited" ELSE "local")
  /\ UNCHANGED <<queueVars, semVars, wsq, active, scan, stage, closeVars, spc>>

Loop(w) ==
  /\ wpc[w] = "loop"
  /\ shtdwn => TailFree
  /\ WorkerAt(w, IF Shutdown THEN "exited" ELSE "local")
  /\ UNCHANGED <<queueVars, semVars, wsq, active, scan, stage, closeVars, spc>>

TakeLocal(w) ==
  /\ wpc[w] = "local"
  /\ IF wsq[w] # <<>>
       THEN /\ Take(w, Last(wsq[w]))
            /\ wsq' = [wsq EXCEPT ![w] = Front(@)]
       ELSE WorkerAt(w, "global") /\ UNCHANGED <<active, wsq>>
  /\ UNCHANGED <<queueVars, semVars, scan, stage, closeVars, spc>>

TakeGlobal(w) ==
  /\ wpc[w] = "global"
  /\ TailFree
  /\ IF queue # <<>>
       THEN /\ Take(w, Head(queue))
            /\ queue' = Tail(queue)
       ELSE WorkerAt(w, "pick") /\ UNCHANGED <<active, queue>>
  /\ UNCHANGED <<queueActive, semVars, wsq, scan, stage, closeVars, spc>>

\* rnd_idx_()
PickVictim(w, v) ==
  /\ wpc[w] = "pick"
  /\ scan' = [scan EXCEPT ![w] = <<v>>]
  /\ WorkerAt(w, "steal")
  /\ UNCHANGED <<queueVars, semVars, wsq, active, stage, closeVars, spc>>

\* Mutant of StealHit: the victim keeps the task.
StealCopy(w) ==
  LET v == Last(scan[w])
  IN  /\ wpc[w] = "steal"
      /\ v # w
      /\ wsq[v] # <<>>
      /\ Take(w, Head(wsq[v]))
      /\ scan' = [scan EXCEPT ![w] = <<>>]
      /\ UNCHANGED <<queueVars, semVars, wsq, stage, closeVars, spc>>

StealHit(w) ==
  LET v == Last(scan[w])
  IN  /\ wpc[w] = "steal"
      /\ v # w
      /\ wsq[v] # <<>>
      /\ Take(w, Head(wsq[v]))
      /\ wsq' = [wsq EXCEPT ![v] = Tail(@)]
      /\ scan' = [scan EXCEPT ![w] = <<>>]
      /\ UNCHANGED <<queueVars, semVars, stage, closeVars, spc>>

\* The victim has nothing, or its mtx_ is locked: another thief is there, or it is
\* about to put what it runs, or what that forks, into a deque that has to grow.
StealMiss(w) ==
  LET v == Last(scan[w])
  IN  /\ wpc[w] = "steal"
      /\ v # w
      /\ \/ wsq[v] = <<>>
         \/ \E o \in Workers \ {w} : wpc[o] = "steal" /\ Last(scan[o]) = v
         \/ wpc[v] = "run"
      /\ scan' = [scan EXCEPT ![w] = Append(@, (v + 1) % PoolSize)]
      /\ UNCHANGED <<queueVars, semVars, wsq, wpc, active, stage, closeVars, spc>>

\* At its own position the loop goes on without ++idx: it stays there, and
\* try_steal_other_work_() returns false.
StealSelf(w) ==
  /\ wpc[w] = "steal"
  /\ Last(scan[w]) = w
  /\ WorkerAt(w, "wait")
  /\ scan' = [scan EXCEPT ![w] = <<>>]
  /\ UNCHANGED <<queueVars, semVars, wsq, active, stage, closeVars, spc>>

\* fsem_.wait(): fetch_sub, the test of sem_active_, sem_.wait().
WaitCount(w) ==
  /\ wpc[w] = "wait"
  /\ semCount' = Capped(semCount - 1)
  /\ WorkerAt(w, IF semCount >= 0 THEN "loop" ELSE "check")
  /\ UNCHANGED <<queueVars, semActive, tokens, wsq, active, scan, stage,
                 closeVars, spc>>

WaitCheck(w) ==
  /\ wpc[w] = "check"
  /\ WorkerAt(w, IF semActive THEN "asleep" ELSE "loop")
  /\ UNCHANGED <<queueVars, semVars, wsq, active, scan, stage, closeVars, spc>>

WaitToken(w) ==
  /\ wpc[w] = "asleep"
  /\ tokens > 0
  /\ tokens' = tokens - 1
  /\ WorkerAt(w, "loop")
  /\ UNCHANGED <<queueVars, semCount, semActive, wsq, active, scan, stage,
                 closeVars, spc>>

----------------------------------------------------------------------------
(* A task on worker w.                                                     *)

Complete(w) ==
  /\ stage' = [stage EXCEPT ![active[w]] = "done"]
  /\ active' = [active EXCEPT ![w] = None]
  /\ WorkerAt(w, "loop")
  /\ UNCHANGED <<queueVars, semVars, wsq, scan, closeVars, spc>>

Run(w) ==
  /\ wpc[w] = "run"
  /\ active[w] \notin Forking
  /\ Complete(w)

\* fork(): the sub-task goes to the worker's own deque.
Fork(w) ==
  LET r == active[w]
  IN  /\ wpc[w] = "run"
      /\ r \in Forking
      /\ stage[r] = "new"
      /\ stage' = [stage EXCEPT ![r] = "forked"]
      /\ wsq' = [wsq EXCEPT ![w] = Append(@, Child(r))]
      /\ WorkerAt(w, "post")
      /\ UNCHANGED <<queueVars, semVars, active, scan, closeVars, spc>>

\* The future is ready.
Join(w) ==
  LET r == active[w]
  IN  /\ wpc[w] = "run"
      /\ r \in Forking
      /\ stage[r] = "forked"
      /\ stage[Child(r)] = "done"
      /\ Complete(w)

\* It is not: the spin loop yields, and the worker puts the incomplete work
\* back into its deque.
Yield(w) ==
  LET r == active[w]
  IN  /\ wpc[w] = "run"
      /\ r \in Forking
      /\ stage[r] = "forked"
      /\ stage[Child(r)] # "done"
      /\ active' = [active EXCEPT ![w] = None]
      /\ wsq' = [wsq EXCEPT ![w] = Append(@, r)]
      /\ WorkerAt(w, "post")
      /\ UNCHANGED <<queueVars, semVars, scan, stage, closeVars, spc>>

\* wsq_.put() ends with a post; fork() then returns to the task.
WorkerPost(w) ==
  /\ wpc[w] = "post"
  /\ SemPost
  /\ WorkerAt(w, IF active[w] = None THEN "loop" ELSE "run")
  /\ UNCHANGED <<queueVars, wsq, active, scan, stage, closeVars, spc>>

Search(w) ==
  \/ TakeLocal(w) \/ TakeGlobal(w)
  \/ \E v \in Workers : PickVictim(w, v)
  \/ StealHit(w) \/ StealMiss(w) \/ StealSelf(w)
Wait(w)  == WaitCount(w) \/ WaitCheck(w) \/ WaitToken(w)
Execute(w) == Run(w) \/ Fork(w) \/ Join(w) \/ Yield(w) \/ WorkerPost(w)
Worker(w) == Loop(w) \/ Search(w) \/ Wait(w) \/ Execute(w)

----------------------------------------------------------------------------
(* shutdown() and shutdown_now(), by closer c.                             *)

CloserAt(c, label) == cpc' = [cpc EXCEPT ![c] = label]

\* state_.exchange(); whoever comes second returns.
CloseBegin(c) ==
  /\ cpc[c] = "idle"
  /\ IF closed
       THEN CloserAt(c, "returned") /\ UNCHANGED closed
       ELSE /\ closed' = TRUE
            /\ CloserAt(c, "queue")
  /\ UNCHANGED <<queueVars, semVars, workerVars, shtdwn, shtdwnNow, loaded, spc>>

CloseQueue(c) ==
  /\ cpc[c] = "queue"
  /\ queueActive' = FALSE
  /\ CloserAt(c, "sem")
  /\ UNCHANGED <<queue, semVars, workerVars, closed, shtdwn, shtdwnNow, loaded, spc>>

\* fsem_.deactivate(): the store, the load, the post of what was loaded.
CloseSem(c) ==
  /\ cpc[c] = "sem"
  /\ semActive' = FALSE
  /\ CloserAt(c, "load")
  /\ UNCHANGED <<queueVars, semCount, tokens, workerVars, closed, shtdwn,
                 shtdwnNow, loaded, spc>>

CloseLoad(c) ==
  /\ cpc[c] = "load"
  /\ loaded' = IF semCount < 0 THEN -semCount ELSE semCount
  /\ CloserAt(c, "post")
  /\ UNCHANGED <<queueVars, semVars, workerVars, closed, shtdwn, shtdwnNow, spc>>

\* Mutant of ClosePost: the sleepers get no tokens.
ClosePostCount(c) ==
  /\ cpc[c] = "post"
  /\ semCount' = Capped(semCount + loaded)
  /\ CloserAt(c, "flag")
  /\ UNCHANGED <<queueVars, semActive, tokens, workerVars, closed, shtdwn,
                 shtdwnNow, loaded, spc>>

\* semaphore::post( 0) throws, and the exception leaves shutdown().
ClosePost(c) ==
  LET sleeping == IF semCount < 0 THEN -semCount ELSE 0
  IN  /\ cpc[c] = "post"
      /\ semCount' = Capped(semCount + loaded)
      /\ tokens' = Capped(tokens + (IF sleeping < loaded THEN sleeping ELSE loaded))
      /\ CloserAt(c, IF semCount < 0 /\ loaded = 0 THEN "threw" ELSE "flag")
      /\ UNCHANGED <<queueVars, semActive, workerVars, closed, shtdwn,
                     shtdwnNow, loaded, spc>>

CloseFlag(c) ==
  /\ cpc[c] = "flag"
  /\ \/ c \in Closers /\ shtdwn' = TRUE /\ UNCHANGED shtdwnNow
     \/ c \in NowClosers /\ shtdwnNow' = TRUE /\ UNCHANGED shtdwn
  /\ CloserAt(c, "join")
  /\ UNCHANGED <<queueVars, semVars, workerVars, closed, loaded, spc>>

\* wg_.join_all()
CloseJoin(c) ==
  /\ cpc[c] = "join"
  /\ \A w \in Workers : wpc[w] = "exited"
  /\ CloserAt(c, "joined")
  /\ UNCHANGED <<queueVars, semVars, workerVars, closed, shtdwn, shtdwnNow,
                 loaded, spc>>

Close(c) ==
  \/ CloseBegin(c) \/ CloseQueue(c) \/ CloseSem(c) \/ CloseLoad(c)
  \/ ClosePost(c) \/ CloseFlag(c) \/ CloseJoin(c)

----------------------------------------------------------------------------
Next ==
  \/ \E r \in Roots : Submit(r)
  \/ \E w \in Workers : Worker(w)
  \/ \E c \in Closers \cup NowClosers : Close(c)

Spec == Init /\ [][Next]_vars

\* Threads are scheduled; a submit() or a shutdown() that began goes on.  The
\* random position a worker steals from is not its own for ever, and a thief does
\* not find the deque locked every time: its owner locks it only to let it grow.
Fairness ==
  /\ \A r \in Roots : WF_vars(spc[r] # "idle" /\ Submit(r))
  /\ \A w \in Workers :
       /\ WF_vars(Worker(w))
       /\ SF_vars(\E v \in Workers \ {w} : PickVictim(w, v))
       /\ SF_vars(StealHit(w))
  /\ \A c \in Closers \cup NowClosers : WF_vars(cpc[c] # "idle" /\ Close(c))

FairSpec == Spec /\ Fairness

----------------------------------------------------------------------------
(* Properties.                                                             *)

TypeOK ==
  /\ closed \in BOOLEAN /\ shtdwn \in BOOLEAN /\ shtdwnNow \in BOOLEAN
  /\ queue \in Seq(Roots) /\ queueActive \in BOOLEAN
  /\ semCount \in -MaxPermits .. MaxPermits /\ semActive \in BOOLEAN
  /\ tokens \in 0 .. MaxPermits /\ loaded \in 0 .. MaxPermits
  /\ wsq \in [Workers -> Seq(Tasks)]
  /\ wpc \in [Workers -> {"loop", "local", "global", "pick", "steal", "wait",
                          "check", "asleep", "run", "post", "exited"}]
  /\ active \in [Workers -> Tasks \cup {None}]
  /\ \A w \in Workers : wpc[w] = "run" => active[w] # None
  /\ scan \in [Workers -> Seq(Workers)]
  /\ stage \in [Tasks -> {"new", "forked", "done"}]
  /\ spc \in [Roots -> {"idle", "put", "link", "post", "accepted", "rejected"}]
  /\ cpc \in [Closers \cup NowClosers ->
               {"idle", "queue", "sem", "load", "post", "flag", "join",
                "joined", "returned", "threw"}]

\* The places a task is in; the thread that runs it is one.
Places(t) ==
  {<<"queue", i>> : i \in {j \in DOMAIN queue : queue[j] = t}}
    \cup {<<"worker", w>> : w \in {u \in Workers : active[u] = t}}
    \cup UNION {{<<"wsq", w, i>> : i \in {j \in DOMAIN wsq[w] : wsq[w][j] = t}} :
                w \in Workers}

\* A task that was accepted or forked and is not done.
Pending(t) ==
  /\ stage[t] # "done"
  /\ IF t \in Roots THEN spc[t] \in {"post", "accepted"} ELSE stage[-t] = "forked"

\* A task that was accepted or forked is in one place until it is done, and no
\* other task is anywhere: whatever takes, steals, forks, yields and shutdowns
\* come in between, none is lost and none can run twice.
OnePlace == \A t \in Tasks : Cardinality(Places(t)) = IF Pending(t) THEN 1 ELSE 0

\* While the pool is open and all its workers sleep, with no token to wake one, each
\* task that submit() took or a task forked is done, but for one whose submit() has
\* not posted yet.  Nothing locks the search of a worker against its wait(): a post
\* that falls between the two must be found in the count.
NobodySleepsBesideTask ==
  ~ closed /\ tokens = 0 /\ (\A w \in Workers : wpc[w] = "asleep")
    => \A t \in Tasks : Pending(t) => t \in Roots /\ spc[t] = "post"

\* The deques, the queue, the semaphore and the flags together are a pool: among
\* others no task runs twice or on more than Size workers, and when shutdown() has
\* joined the workers, all that submit() accepted and does not fork is done, what
\* was linked in the closed queue too, and nothing is accepted any more
\* (shutdown.qbk:14-15, static_pool.qbk:197).  (Abstract!Spec, said so that TLC
\* looks for a stutter first: most steps are.)
StageOf(t) ==
  IF stage[t] = "done" THEN "done"
  ELSE IF \E w \in Workers : active[w] = t THEN "running"
  ELSE IF Pending(t) THEN "pending"
  ELSE IF t \in Roots /\ spc[t] = "rejected" THEN "refused"
  ELSE IF t \in Roots /\ spc[t] \in {"put", "link"} THEN "calling"
  ELSE "new"
Abstract == INSTANCE Pool
  WITH Size <- PoolSize, Forks <- Forking, Sub <- Child,
       stage <- [t \in Tasks |-> StageOf(t)],
       state <- IF \E c \in DOMAIN cpc : cpc[c] = "joined" THEN "joined"
                ELSE IF closed THEN "closed" ELSE "open",
       hurry <- shtdwnNow
ImplementsPool ==
  Abstract!Init /\ [][UNCHANGED Abstract!vars \/ Abstract!Next]_vars

\* With nobody closing the pool an accepted task runs to its end, however the
\* post falls between a worker's search and its wait(), also when it joins a
\* sub-task: fork_join.qbk:14-15, for a pool with a second worker.
SubmittedRuns ==
  \A r \in Roots :
    spc[r] = "accepted" ~> stage[r] = "done" \/ closed

\* A shutdown() that closed the pool comes back, with all workers joined,
\* wherever each of them is when the semaphore is deactivated (or it throws),
\* unless a task is caught joining its sub-task (see JoinEnds).
ShutdownComesBack ==
  \A c \in Closers \cup NowClosers :
    cpc[c] = "queue" ~> \/ cpc[c] \in {"joined", "threw"}
                       \/ \E r \in Forking : stage[r] = "forked"

\* fork_join.qbk:14-15: a task that joins its sub-task goes on once the
\* sub-task has completed, and a worker executes the sub-task in the meantime.
JoinEnds ==
  \A r \in Forking : stage[r] = "forked" ~> stage[r] = "done" \/ closed

\* static_pool.qbk:197 of every task: no worker leaves a task behind.
NothingLeftBehind ==
  \A c \in Closers :
    cpc[c] = "joined" /\ ~ shtdwnNow => \A w \in Workers : wsq[w] = <<>>

\* static_pool.qbk:195: shutdown() joins all worker-threads.
ReturnsJoined ==
  \A c \in Closers :
    cpc[c] \in {"joined", "returned"} => \A w \in Workers : wpc[w] = "exited"

\* work_stealing.qbk:33: a worker that finds nothing to steal has checked the
\* other worker-queues.
ChecksOtherQueues ==
  [][\A w \in Workers :
       wpc[w] = "steal" /\ wpc'[w] = "wait" => Workers \ {w} \subseteq ToSet(scan[w])]_vars

=============================================================================
