# boost.task: a verification project

TLA+ models of boost.task, the task library under `src/`: a pool of worker
threads with work stealing, the queues that feed it, and a family of
synchronization objects (`spin::`) for tasks that must not block their worker.
TLC checks the models on small instances. TLAPS proves the safety properties of the
passing runs, the refinements included, for every instance. `PROJECT.json` lists the
runs, what each definition translates, the hazards of the code and the properties that
guard them.

Contents: 1 the system, 2 how the modules correspond to the code, 3 the runs,
4 bounds, 5 fairness, 6 proofs, 7 readings of the code, 8 what is not modelled,
9 plan.

## 1. The system

An application submits a function to a `static_pool` and gets a `task` (a
handle). The pool wraps the function in a `callable`, puts it into its queue and
posts a semaphore. Worker threads take work from their own deque, from the
queue, or from the deque of another worker, and sleep on the semaphore when
there is none. A running task may `fork` sub-tasks into the deque of its worker
and join them. While it waits it yields: its fiber is suspended, and the worker
puts the incomplete work back into its deque.

| component (code) | state | operations | interacts with |
|---|---|---|---|
| `static_pool` (`static_pool.hpp`) | `pool_`, a counted reference | constructors, move, `operator=`, `swap`, destructor, `submit`, `shutdown` | `pool_base`, its queue |
| `pool_base` (`detail/pool_base.hpp`) | `state_`, `queue_`, `fsem_`, `wg_`, `shtdwn_`, `shtdwn_now_` | `submit`, `shutdown`, `shutdown_now`, destructor | queue (put, deactivate), semaphore (deactivate), workers (flags, join) |
| `worker`, `worker_group` (`detail/worker.hpp`, `worker_group.*`) | `wsq_`, `rnd_idx_`, references to the pool's flags | `worker_function`: take, steal, run, wait, leave | own deque, others' deques, queue, semaphore |
| `wsq` (`detail/wsq.*`) | ring `array_`, `head_idx_`, `tail_idx_`, `mtx_` | `put`, `try_take` (owner), `try_steal` (others) | semaphore (post) |
| `fast_semaphore`, `semaphore` | `sem_count_`, `sem_active_`, kernel semaphore | `wait`, `try_wait`, `post`, `deactivate` | queues, deques, workers, shutdown |
| `bounded_fifo` | two-lock list, `count_`, `state_`, `not_full_cond_` | `put` (also timed), `try_take`, `deactivate` | semaphore |
| `unbounded_fifo` | two-lock list, `state_` | `put`, `try_take`, `deactivate` | semaphore |
| `bounded_prio_queue`, `unbounded_prio_queue` | heap and `state_` under one `shared_mutex`, the bounded one with `not_full_cond_` | `put`, `try_take`, `deactivate` | semaphore |
| `fork`, `yield`, `work` | the fiber of a task | `fork`, `join`, `yield`, run and resume | deque, worker |
| `task`, `context`, `callable` | reference to a future; request flag and thread; function and promise | `wait`, `get`, `interrupt` | futures, threads |
| `async`, `new_thread`, `own_thread` | none | run a function in a new thread or at once | promise, callable, context |
| `spin::mutex`, `spin::condition` | `state_`; `cmd_`, `waiters_`, `enter_mtx_`, `check_mtx_` | `wait`, `timed_wait`, `notify_one`, `notify_all` | everything below |
| `spin::barrier` | `current_`, `cycle_`, `mtx_`, `cond_` | `wait` | condition |
| `spin::count_down_event` | `current_` | `set`, `wait` | none |
| `spin::manual_reset_event`, `spin::auto_reset_event` | `state_`, the former also `waiters_`, `enter_mtx_` | `set`, `reset`, `wait`, `try_wait` | none |
| `spin::bounded_channel`, `spin::unbounded_channel` | two-lock list, `state_`, `count_`, one or two conditions | `put`, `take`, `try_take` (also timed), `deactivate` | condition |
| result of `spin::promise`, `packaged_task`, futures (`future_object` and `task_base` in `spin/future.hpp`) | `done`, `result`, `exception`, `waiters`, `external_waiters`, `callback`, `started` | set, run, break, wait, `wait_for_any` | condition |
| `spin::promise`, `packaged_task`, `unique_future`, `shared_future` themselves | reference to the result, `future_obtained` | construct, move, copy, assign, swap, destroy, `get_future` | result |

What is hard in it, and what makes it correct:

* **Sleeping and waking.** Semaphore, condition, channels and queues all have
  a test, a sleep, and somebody else's change and notification. A wakeup must not
  be lost between the two (`NoLostWakeup`, `AllLeave`, `ProducerWakes`,
  `NoSleeperBesideRoom`, `NobodySleepsBesideWork`, `NobodySleepsBesideTask`,
  `AnyReturns`, `WaitEnds`).
* **Locks that change hands.** `spin::condition` and `manual_reset_event` lock
  `enter_mtx_` in one thread and unlock it in another. Exactly one must do it,
  also when waiters time out or are interrupted (`HandedOver`, `EnterFreed`,
  `EventUnlockerThere`).
* **Lock-free indices.** `wsq` decides with two atomic indices who gets the
  last task (`EachTaskOnceUnlessMisled`, `FailsOnlyWhenEmpty`).
* **Two locks for one list.** Queues and channels test their state under one
  mutex and change it under the other (`NothingEntersLate`, `EndMeansDrained`,
  `BoundedIsQueue`, `UnboundedIsQueue`), and count the references to the same
  nodes under either (`NodesReclaimed`, `ReachableLives`).
* **Closing.** Shutdown, `deactivate()` and destructors race with everything
  else (`DeactivationReleasesAll`, `ShutdownComesBack`, `ImplementsPool`,
  `CloseEndsCalls`).
* **Waiting for oneself.** A task may submit to the pool that runs it. With a
  bounded queue its worker then sleeps until a worker makes room (`CallsReturn`;
  `NobodyJams` in section 3).
* **Cooperative scheduling.** A joining task is put back and resumed; the
  sub-task it joins must get its turn (`SubmittedRuns`; `JoinEnds` in section 3).
* **Callbacks without the lock.** A lazy future calls user code with its mutex
  released (`OutcomeStands`, `OneOrigin`; `CallbackFindsOwner` in section 3).
* **Who holds what.** The promise lives in the callable, the callable in the
  thread, the thread in the context of the handle that waits for the future
  (`HandleWaitEnds`). Promises, futures and pools are moved and swapped, and the
  destructor of the last one breaks a result or joins a pool (`OwnedOnce`,
  `OrphanIsReady`, `NoPoolLeaks`).

## 2. Modules

Every module begins with a comment that says what a step is. In general a step
is one atomic access of the code, or a whole critical section where every access
to the state is under that mutex. `PROJECT.json` "map" names the lines of each
definition. A definition commented as a mutant is a plausible bug in the
definition it names. It is not part of the model; it shows that a property can
fail.

* `FastSemaphore`: counter and kernel semaphore; `wait()` with its spin loop,
  `post()`, `deactivate()`, one step per atomic access.
* `Wsq`: the ring with real indices and slots, growth included, the owner
  against thieves. History variables say how often each task was handed out.
* `BoundedFifo`: nodes of the linked list, both mutexes, the condition.
  `BoundedQueue` is the abstract specification: a bounded FIFO sequence, and the
  items that were accepted, each of which enters it once. The property `ImplementsBoundedQueue` is the refinement. The counts of the nodes
  are taken as right here.
* `UnboundedFifo`: the same list without watermarks, and with the counts of its
  nodes. A change of a count is a load and a store, because the code changes a
  plain integer; `ImplementsQueue` is its refinement of `BoundedQueue`.
* `UnboundedPrioQueue`: `put()` step by step, because it posts before it
  unlocks, and the workers, which find nothing in one step and wait on the
  semaphore in another. The queue is its length, the semaphore a number of permits.
* `StaticPool`: composition. Pool, workers, deques, queue, semaphore, tasks
  that fork and join, several threads that shut the pool down. Deque and queue
  are sequences with atomic operations, except that the unbounded queue's test
  and link are two steps, because `deactivate()` comes between them. `tail_mtx_` is
  locked from the one to the other, so `try_take()` and `empty()`, which lock it to
  look at `tail_`, wait for the link: that is why a worker that leaves at shutdown
  cannot leave a task behind that was linked late. The semaphore
  keeps the steps that a worker and shutdown can be caught between.
* `Pool`: the abstract specification of it: stages of tasks, an open, closed or
  joined pool. A task may be accepted until the pool is joined, and `shutdown()` joins it
  when all accepted tasks are done, but for what forks. `StaticPool` implements it
  (`ImplementsPool`): the stage of a task follows from where it is (deque,
  queue, worker), and yielding, stealing, semaphore and flags are stutters. It
  promises as much as the code keeps; what the documents promise beyond it is in
  the table of section 3.
* `PoolHandles`: the `static_pool` objects above `pool_base`: which pool each
  refers to, the owner that moves, assigns, swaps, destroys and shuts down, and
  the threads and tasks in `submit()` to a queue that may be bounded. Queue and
  workers are what the modules above show of them: a `put()` tests and links in two
  steps with the tail locked, a shutdown stores the state of pool and queue one after
  the other, then joins the workers, which leave one by one as `shutdown_()` lets them.
* `SpinCondition`: condition and mutex together, every load, store, exchange
  and fetch a step, except that the three stores of a waiter that enlists are
  one (all under `enter_mtx_`).
* `CountDownEvent`, `ManualResetEvent`, `AutoResetEvent`: one step per atomic
  access. `stranded` counts the interrupted waits that `waiters_` still includes.
* `Barrier`, `SpinFuture`, `BoundedPrioQueue`: all state is under one mutex, and
  a wait enlists before it releases it, so the steps are the stretches between
  two sleeps.
* `BoundedChannel`, `UnboundedChannel`: the two mutexes and the conditions
  explicit, the list as its length.
* `FutureWaiter`: `wait_for_any()` over several futures: the mutex of each
  future, the registered conditions, the notification loop.
* `FutureHandles`: the promises, packaged_tasks and futures as objects: which
  result each refers to, `future_obtained`, and the results that are ready. An
  action is a member function; histories count the futures given out and note
  what `promise::operator=` dropped.
* `TaskHandle`: a function run by `new_thread`, `own_thread` or a pool, with
  handle, contexts, callable and promise: who runs it, whom a request to interrupt
  reaches, and when the promise is destroyed.

A condition variable inside another component is a set of sleepers. A waiter
enters it in the step that releases its mutex, a notification takes one or all
out. `SpinCondition` is what justifies it as long as nobody is interrupted
(`AllLeave`, `HandedOver`, `EnterFreed`); for `boost::condition` it is the
documented behaviour, spurious wakeups included.

The `MC...` modules are the instances for TLC. Six of them, `MCWorkerParts`,
`MCQueues`, `MCSpinEvents`, `MCChannels`, `MCSpinFutures` and `MCHandles`, put several components that
share nothing side by side: the variable `object` says which one a behaviour is
about, and the others stay as they were constructed. Their properties are aliases
of those of the components. All constants get their values in the `.cfg` files, and
no definition is replaced.

## 3. Runs

A run expected to pass checks invariants and temporal properties on one
instance. A run expected to be violated checks one property that a document, a
comment or a test of the repository promises and the code breaks.

| run | shows |
|---|---|
| `worker_parts` (`WorkerParts.cfg`) | The semaphore: two threads that wait, with one round of the spin loop, and post, and one deactivate(): no wakeup is lost, and the sleepers wake up although the counter moves under deactivate(). The deque: an owner that puts up to 7 tasks into a ring of 2 slots (two growths, wrap-around) and takes, two thieves: every task is stored until it is handed out, once, newest to the owner and oldest to a thief, unless a put() was misled by a thief's advanced head. Checks `NoLostWakeup`, `DeactivationReleasesAll`, `EachTaskOnceUnlessMisled`, `NewestToOwnerOldestToThief`, `DeactivationWakes`, `FailsOnlyWhenEmpty`. |
| `queues` (`Queues.cfg`) | One of the four queues of a pool. Two producers and two consumers at the two-lock lists: both are FIFO queues, once deactivate() has stored the state only a put() past its last test still adds to the bounded one, with room for more than one item a later try_take() makes up for a lost notification, nodes are deleted when they have left. Five producers, two of them timed, at the priority queue: one notification per take is enough. Three producers and three workers at the unbounded priority queue: no worker sleeps beside a task. Checks `NoSleeperBesideRoom`, `NothingEntersLate`, `NodesReclaimed`, `NobodySleepsBesideWork`, `BoundedIsQueue`, `UnboundedIsQueue`, `ProducerWakes`. |
| `pool` (`StaticPool.cfg`) | Two workers, two submitted tasks of which one forks and joins, one thread that shuts down, now or in order: no task is lost or duplicated on its way, the workers of an open pool never all sleep beside one, and every step of workers, queue, deques and semaphore is one that the abstract Pool allows: each accepted task runs once, a forking task ends after its sub-task, shutdown() comes back when all that was accepted is done, a task linked after deactivate() included, and nothing is accepted later. Checks `OnePlace`, `NobodySleepsBesideTask`, `ImplementsPool`. |
| `pool_live` (`StaticPoolLive.cfg`) | Two workers, a task that forks and joins, one thread that shuts down, now or in order: every accepted task runs, and a shutdown that finds no joining task comes back. Checks `ShutdownComesBack`, `SubmittedRuns`. |
| `spin_condition` (`SpinCondition.cfg`) | Three waiters, one with a timeout and one that may be interrupted, two notifiers: enter_mtx_ is locked exactly while somebody is there to unlock it and is unlocked in the end, notify_all() wakes everybody that waited. Checks `HandedOver`, `AllLeave`, `EnterFreed`. |
| `spin_events` (`SpinEvents.cfg`) | A barrier over several batches, a count-down event with four concurrent set(), a manual-reset event with sets, resets and an interrupted waiter, an auto-reset event: nobody stays behind in a complete batch, the count-down ends every wait, the mutex of the manual-reset event goes from set() to a waiter, is never locked with nobody to unlock it as long as no wait was interrupted, and is unlocked, a signal of the auto-reset event releases one call. Checks `NobodyLeftBehind`, `OneCallPerSignal`, `EventUnlockerThere`, `CountedDown`, `EventEnterFreed`. |
| `channels` (`Channels.cfg`) | Producers, consumers with and without timeout, a trier and closers on either channel: nothing enters a closed bounded channel and closing ends every call; the end of the unbounded one is only reported when all that was put in time is taken, and nobody sleeps through it. Checks `EndMeansDrained`, `NobodySleepsAtTheEnd`, `NothingEntersLate`, `CloseEndsCalls`. |
| `spin_futures` (`SpinFutures.cfg`) | A promise or a packaged_task, lazy or not, with two producers and three waiters: one call produces the result, it stands, every wait ends. wait_for_any() of three threads: it returns once a future is done, and no destroyed condition is notified. A handle from new_thread, own_thread or a pool: waits end unless an interruption ends the function. Checks `OneOrigin`, `AnyNotifiesTheLiving`, `OutcomeStands`, `WaitEnds`, `AnyReturns`, `HandleWaitEnds`. |
| `handles` (`Handles.cfg`) | Two promises or packaged_tasks, two unique_futures and two shared_futures, made, moved, assigned, swapped and destroyed in any order: a result stays with one producer and one owner of its future, and no future is left that nobody will make ready, except by promise::operator=. Two static_pool objects, two threads that submit and two tasks that submit to their own pool: no pool is left running, after shutdown() no task is in a queue or about to be, also none whose put() was between test and link at deactivate(), and calls come back unless all workers wait for room in their own queue. Checks `OwnedOnce`, `OrphanIsReady`, `NoPoolLeaks`, `CallsReturn`. |
| `fifo_lost` (`BoundedFifoLost.cfg`) | **violated** With watermarks of 1 a notification falls between a producer's test and its wait and no other follows: the producer sleeps for ever beside an empty queue. Checks `ProducerWakes`. |
| `count_down_wrap` (`CountDownEventWrap.cfg`) | **violated** Three concurrent set() calls on a count of 2: one that has seen 1 in its first load reloads 0 and exchanges it for the largest size_t. Checks `RemainsSignaled`. |
| `fifo_count` (`UnboundedFifoCount.cfg`) | **violated** One producer that puts twice and one consumer: put() releases its new_node after the mutex while the consumer counts the same node, one change is lost, and a node is deleted that the queue still reaches. Checks `ReachableLives`. |

The violated runs are the findings of `PROJECT.json`, each with the quoted promise.
The models show more places where the code and what is said of it part. Each of
the properties below is stated in its module, is checked by no run of the list
above with these constants, and is violated with them. Sets that are not named are empty,
bounds 2 or 3, other numbers 0.

| property | constants | code | promise |
|---|---|---|---|
| `FastSemaphore!DeactivateThrowsNothing` | 2 threads | `fast_semaphore.cpp:71` | `static_pool.qbk:175` |
| `Wsq!NothingLost` | 1 thief, `InitialSize` 2, `MaxPuts` 4 | `wsq.cpp:38` | `work_stealing.qbk:21-22` |
| `StaticPool!JoinEnds` (`FairSpec`) | `PoolSize` 1, a forking root | `worker.hpp:51` | `fork_join.qbk:14-15` |
| `StaticPool!NothingLeftBehind` | `PoolSize` 1, a forking root, 1 closer | `worker.hpp:165` | `static_pool.qbk:197` |
| `StaticPool!ReturnsJoined` | `PoolSize` 1, 2 closers | `pool_base.hpp:138` | `static_pool.qbk:195` |
| `PoolHandles!NobodyJams` (with `Fairness`) | 1 handle, `MaxPools`, `Size`, `Hwm` 1, 2 roots, 1 child | `pool_base.hpp:194` | only `queue.qbk:18`: threads that submit are put to sleep |
| `StaticPool!ChecksOtherQueues` | `PoolSize` 3, `MaxPermits` 4, 1 root | `worker.hpp:155` | `work_stealing.qbk:33` |
| `SpinCondition!OneHolder` | 2 waiters, 1 interruptible, 1 notifier | `condition.hpp:127` | `spin_condition_variables.qbk:149-150` |
| `SpinCondition!EnterAlwaysFreed` (`FairSpec`) | 1 interruptible waiter, 1 notifier | `condition.hpp:127` | `spin_condition_variables.qbk:124,132` |
| `SpinCondition!EnterAssertionHolds` | 2 waiters, 1 timed, 1 notifier | `condition.hpp:189` | the assertion itself |
| `ManualResetEvent!SignalSeen` | 2 waiters, 2 controllers | `manual_reset_event.cpp:64` | `spin_event_variables.qbk:165-166` |
| `AutoResetEvent!EverySetUnblocks` | 2 waiters, 1 setter | `auto_reset_event.cpp:21` | `spin_event_variables.qbk:90-91` |
| `Barrier!NobodyLeftBehind` | 3 threads, `Size` 2 | `barrier.cpp:37` | `spin_barrier.qbk:38-39` |
| `BoundedChannel!ConsumerWakes`, `ProducerWakes` (with `Fairness`) | 2 producers, 1 consumer, watermarks 1 | `bounded_channel.hpp:200`, `248` | `spin_fifos.qbk:180-182,189-190` |
| `BoundedChannel!NotifiedLooksAgain` | 2 timed producers, 1 consumer, watermarks 1 | `bounded_channel.hpp:212` | `spin_fifos.qbk:180-182` |
| `UnboundedChannel!NothingEntersLate` | 1 producer, 1 consumer, 1 closer | `unbounded_channel.hpp:145` | `spin_fifos.qbk:75` |
| `UnboundedChannel!ConsumerWakes` (with `Fairness`) | 1 producer, 1 consumer, 1 closer | `unbounded_channel.hpp:152` | `spin_fifos.qbk:90-91` |
| `SpinFuture!AssignedIsReady` | 1 producer, 1 waiter | `future.hpp:769` | `spin_future_ref.qbk:611-613` |
| `FutureHandles!AssignedOverIsReady` | 2 producers, 1 unique future, `MaxResults` 2 | `future.hpp:769` | `spin_future_ref.qbk:611-613` |
| `SpinFuture!CallbackFindsOwner` | 1 producer, 1 waiter, `OwnerWaits` FALSE | `future.hpp:103` | `spin_future_ref.qbk:707-709` |
| `FutureWaiter!AnyReturns` (with `Fairness`) | 2 waiters with `<<f1, f2>>` and `<<f2, f1>>` | `future.hpp:297` | `spin_futures.qbk:98` |
| `TaskHandle!InterruptedWaitEnds` (with `Fairness`) | 1 user | `callable.hpp:65` | `async_completion_token.qbk:219` |
| `TaskHandle!RequestReaches` | 1 user | `context.cpp:29` | `async_completion_token.qbk:116` |

## 4. Bounds

Every bound is a constant of its module, and the cfgs are small on purpose; what
decides is that the interesting case is inside.

* Threads: two or three of each kind, that is two on each side of a race and in
  most places a third that comes in between; the priority queue has more
  producers than places. The barrier has as many threads as its size: with more,
  `NobodyLeftBehind` does not hold (section 3).
* `MaxCalls`, `MaxPuts`, `MaxSets`, `MaxBatches`: calls per thread, two to four
  where a second call of the same thread is the hard case (stale bools, second
  commands, reused rings, queues that fill and drain more than once), and one in
  `Channels.cfg`, where each thread's role is a constant and closers, triers and
  timed calls meet.
* `FifoPuts`, `OpenPuts` (`MCQueues`): two calls of each producer at the bounded
  fifo and one at the unbounded one, where the steps of the counts multiply the
  states. Two producers, two nodes and two consumers still reach every overlap of
  the three threads that may count a node.
* `InitialSize = 2` instead of 32 slots for `Wsq`, with 7 puts: two growths and
  indices that wrap round the ring. The indices themselves (32 or 64 bits) are
  not wrapped.
* `MaxPermits` (`StaticPool`): the semaphore's counter saturates there, so that
  endless yielding stays finite. It exceeds the number of workers, so a saturated
  counter lets everybody through, as the real one does.
* `Modulus` (`CountDownEvent`): 2^w of `size_t`, 8 in the runs. Only that the
  count wraps below zero matters.
* `MaxWaiters` (`SpinCondition`, `ManualResetEvent`): how far `waiters_` may
  grow when interrupted waits leave it too high.
* `Size = 1`, `Hwm = 1` (`MCHandles`): the smallest pool that can jam has one
  worker and one place; two roots with a child each fill the queue and the worker,
  and one more waits. Two pool objects and two pools are enough for an assignment
  that releases one pool in favour of another.
* Two promises, two unique and two shared futures, `MaxResults = 3`: every pair
  of operands, each with a result of its own and one more to be made.
* `MaxPermits` (`UnboundedPrioQueue`): no `put()` begins with more unused posts.
  Three producers and three workers, with every worker on its way to the
  semaphore while tasks are put, are inside.
* No symmetry is declared: the runs that have several threads of a kind also have
  liveness properties.

Runs with `CHECK_DEADLOCK FALSE` are those in which threads are allowed to end
(bounded calls, closed queues, returned waits). The consumers of
`BoundedFifo` come back for ever, so `BoundedFifoLost.cfg` checks deadlock too.

## 5. Fairness

Each module defines what it needs as `Fairness` (`SpinCondition` as a part of
`FairSpec`). `Wsq`, `Barrier`, `BoundedPrioQueue`,
`UnboundedPrioQueue`, `UnboundedFifo`, `AutoResetEvent` and `FutureHandles` are asked for
safety only.

* Weak fairness of the steps of a thread that is inside a call: a running
  thread is scheduled.
* Strong fairness where a step needs a mutex that others keep taking
  (`BoundedFifo`, the channels, `FutureWaiter`): a mutex that is free again and
  again is had in the end. `spin::mutex` does not promise it to a single thread,
  but it backs off with yields, so it is what the code relies on.
* `StaticPool`: strong fairness of stealing from each victim. `random_idx()` does
  not draw the same position for ever, and an owner holds the mutex of its deque only
  while it is in it, so a thief does not miss it (`wsq.cpp:100`) for ever.
* `SpinFuture`: functions and callbacks end, and a promise or packaged_task
  without a callback that somebody waits for is destroyed in the end.
* `TaskHandle`: a worker takes a submitted task, and the function ends.
* `PoolHandles`: functions end, a free worker takes a pending task or leaves when it
  may, a `put()` that has room goes on and links (weak fairness, one task at a time),
  the owner in a shutdown goes on. The owner is never obliged to shut a pool down.
* Nobody is ever obliged to call an operation, to time out, or to be notified;
  a thread that has begun an operation goes on with it.

Where several components stand side by side, the fairness of the one that a
behaviour does not use asks for nothing, because nobody is inside a call of it;
`MCQueues` asks for that of the bounded fifo only where it is used, because its
consumers call without end.

A violation of a liveness property is checked under the same fairness, so the
counterexample is a real starvation and not a thread that stopped.

## 6. Proofs

TLAPS checks every proof. They hold for any number of threads and any values of
the constants that satisfy the named assumptions.

| module | theorem (property) | states |
|---|---|---|
| `WorkerPartsProofs` | `Typing` | Type correctness of the semaphore: the kernel semaphore never goes below zero, deactivate() never posts a negative number |
| `WorkerPartsProofs` | `LosesNoWakeup` (`NoLostWakeup`) | For every number of threads, once the counter is back to 0 every sleeping thread has a token there or on its way |
| `WorkerPartsProofs` | `DeactivationSettles` (`DeactivationReleasesAll`) | For every number of threads, deactivate() has provided a token for every sleeper once it has posted, even when it throws |
| `WorkerPartsProofs` | `TasksHandedOutOnce` (`EachTaskOnceUnlessMisled`) | For every number of thieves, of puts and every initial size: unless a put() took a steal under way for room in a full ring, no task leaves the deque twice and every task that is not handed out is in a slot between the indices, also while put() grows the ring |
| `WorkerPartsProofs` | `NewestAndOldest` (`NewestToOwnerOldestToThief`) | Likewise the owner gets the newest task of the deque and a thief the oldest |
| `WorkerPartsProofs` | `EmptyWhenItFails` (`FailsOnlyWhenEmpty`) | For every number of thieves, misled or not: a try_take() that holds mtx_ and fails finds no task in the deque |
| `QueuesProofs` | `WithinHwm` | Type correctness of the bounded priority queue: for any number of producers and any watermarks it never outgrows hwm_ |
| `QueuesProofs` | `RoomIsTaken` (`NoSleeperBesideRoom`) | For any number of producers, any watermarks, time-outs and spurious wake-ups: nobody sleeps beside room that no woken producer is on the way to |
| `QueuesProofs` | `ClosedStaysClosed` | No put() adds a task to the bounded priority queue after deactivate() |
| `QueuesProofs` | `Covered` (`NobodySleepsBesideWork`) | For any number of producers and workers: every task in the unbounded priority queue has a permit, a post on its way or a worker that will look again |
| `QueuesProofs` | `ClosedTakesNothing` | No put() adds a task to the unbounded priority queue after deactivate() |
| `QueuesProofs` | `FifoIsQueue` (`BoundedIsQueue`) | bounded_fifo implements the bounded first-in first-out queue, for any number of threads and any watermarks: every step of its two critical sections is an operation on the sequence or changes nothing of it |
| `QueuesProofs` | `LateIsRejected` (`NothingEntersLate`) | For any number of producers: once deactivate() has stored the state no put() adds to the bounded fifo but one that is past its last test |
| `QueuesProofs` | `ListIsQueue` (`UnboundedIsQueue`) | The list of unbounded_fifo implements the first-in first-out queue for any number of threads, whatever its reference counts are, as long as no node is deleted that it reaches |
| `QueuesProofs` | `CountsAreReferences` (`NodesReclaimed`) | For any number of producers and consumers of unbounded_fifo: as long as no change of a count was lost, a node is deleted only after it has left the list, and once no call is under way all that have left it are |
| `StaticPoolProofs` | `NoneLostNoneTwice` (`OnePlace`) | For any number of workers, roots, sub-tasks and closers: a task that is submitted and not done is in exactly one place, the queue, one deque or one worker |
| `StaticPoolProofs` | `NoneSleepsBesideTask` (`NobodySleepsBesideTask`) | For any number of workers, tasks and closers: when all workers of an open pool sleep and no token is left, every task that was accepted or forked is done, wherever its post() fell between the search of a worker and its wait() |
| `StaticPoolProofs` | `Implements` (`ImplementsPool`) | The pool implements the abstract Pool: yielding, stealing, the semaphore and the flags are stutters, every other step is one transition of a task's stage or of the pool. So when a shutdown() has joined the workers every accepted task that forks nothing is done, also one that was linked after deactivate(), and no task is accepted after that |
| `SpinConditionProofs` | `HandsOver` (`HandedOver`) | For any number of threads, time-outs and interruptions: enter_mtx_ is locked exactly while one thread or one unserved command is there to have it unlocked |
| `SpinConditionProofs` | `LockStaysExclusive` | For any number of threads, if nobody is interrupted the lock given to wait() is held by one thread at a time |
| `SpinConditionProofs` | `WaitersAreCounted` | For any number of threads: waiters_ is the number of threads enlisted and of interrupted waits that were never taken off |
| `SpinConditionProofs` | `AllHaveLeft` (`AllLeave`) | For any number of threads: when a notify_all() is over, every thread that was waiting has been let out |
| `SpinEventsProofs` | `CallsCount` | For any number of concurrent calls not above the initial count, each returned set() has counted exactly once |
| `SpinEventsProofs` | `StaysSignaled` | For any number of concurrent calls not above the initial count, the count never leaves 0 again |
| `SpinEventsProofs` | `CountIsRight` | For every number of threads, size and number of batches, current_ counts the threads missing in the batch in the making |
| `SpinEventsProofs` | `NobodyStays` (`NobodyLeftBehind`) | For every size and number of batches, if no more threads than the size use the barrier, nobody of a complete batch goes back to sleep |
| `SpinEventsProofs` | `UnlockerIsThere` (`EventUnlockerThere`) | For any number of threads that wait, try, set and reset, with interruptions: as long as no wait was interrupted, a locked enter_mtx_ has somebody to unlock it, a thread between lock and unlock or one that will leave a set event |
| `SpinEventsProofs` | `SignalsAreSeen` (`OneCallPerSignal`) | For any number of threads that wait, set and leave: every signal of the auto-reset event is observed by exactly one call or still there |
| `ChannelsProofs` | `StaysInBounds` | For any number of threads and any watermarks the bounded channel holds at most hwm_ items: there is room for a put() that links and an item for a take() that pops |
| `ChannelsProofs` | `ClosedTakesNothing` (`NothingEntersLate`) | For any number of threads, timed ones included: no put() adds to the bounded channel after deactivate() |
| `ChannelsProofs` | `ClosedWakesAll` | For any number of threads: nobody sleeps at the bounded channel once deactivate() is through |
| `ChannelsProofs` | `EndIsDrained` (`EndMeansDrained`) | For any number of threads: a consumer of the unbounded channel is told of its end only after all that was put in time is taken |
| `ChannelsProofs` | `EndWakesAll` (`NobodySleepsAtTheEnd`) | For any number of threads: nobody sleeps at the unbounded channel once deactivate() is through |
| `SpinFutureProofs` | `SingleOrigin` (`OneOrigin`) | For any number of producers and waiters, with or without a callback: at most one call produces the result, and no packaged_task runs twice |
| `SpinFutureProofs` | `Standing` (`OutcomeStands`) | For any number of producers and waiters: a result that is done stays done and stays the same |
| `SpinFutureProofs` | `AnyConditionLives` (`AnyNotifiesTheLiving`) | For any number of futures and waiters, in any order of the futures: a future that finishes notifies only condition variables of calls to wait_for_any() that have not returned |
| `HandlesProofs` | `Ownership` (`OwnedOnce`) | For any number of objects and results: one producer, one future handed out, one unique_future or only shared ones of each result |
| `HandlesProofs` | `OrphansAreReady` (`OrphanIsReady`) | For any number of objects and results: a result without a producer is ready, or promise::operator= let go of it |
| `HandlesProofs` | `NoneLeaks` (`NoPoolLeaks`) | For any number of handles, pools, workers and tasks: an active pool has exactly one static_pool; when its workers are joined none was in a task, and after shutdown() or a destructor no task is in the queue nor about to be linked, although a put() tests the state and links under another mutex than deactivate() stores it |

The inductive invariants:

* `WorkerPartsProofs`, semaphore: `NoLostWakeup` counts threads, so the invariant
  relates the counter to the cardinalities of the sets of threads at each point of
  `wait()` and `post()`. Each step moves one thread from one set to another, and
  lemmas about adding and removing one element do the arithmetic.
* `WorkerPartsProofs`, deque: the indices from `First` up to `Past` (what `head_idx_`
  and `tail_idx_` are without the step that a thief or the owner has under way) hold
  the visible tasks that were not handed out, in the order in which they were put.
  Lemmas about a write beyond them, a task taken at either end and the copy into a
  larger array keep that; it rests on two indices less than a capacity apart being in
  different slots. To it belongs that the owner which goes on without the mutex is
  not at the index a thief takes. All of it holds only while no `put()` was misled
  (section 3, `NothingLost`); that the mutex has the thief inside as its holder
  holds always, and gives `FailsOnlyWhenEmpty`.
* `QueuesProofs`, `BoundedPrioQueue`: type correctness with `NoSleeperBesideRoom`.
  With one watermark the free places are at most the producers that are awake: a put
  by one of them uses up one place and one producer, a take makes one place and
  wakes one.
* `QueuesProofs`, `UnboundedPrioQueue`: type correctness and
  `NobodySleepsBesideWork` are inductive together. A push and its post, a wait and
  the look that follows it, change two of the three numbers that cover the queue by
  one each; a worker stops looking only when the queue is empty.
* `QueuesProofs`, the fifos: both implement `BoundedQueue`. The invariant says who
  holds which mutex at every line, that the nodes from `head_` to `tail_` are linked
  one after the other and hold items, but for the one that is being written or was
  swapped out, and for the bounded fifo that `count_` is the length of the list
  corrected by the calls that have linked or popped and not counted yet, so that a
  `put()` past its tests has room. Then each line either is `put` or `take` on the
  sequence of items or leaves it alone. For the unbounded fifo this holds whatever
  its counts are, because the model stops where a node that is reached is deleted.
* `QueuesProofs`, the counts of `UnboundedFifo`: for every node up to `tail_` the
  count is the number of references to it, of `head_`, `tail_` and the node before it
  and of the threads, which keep one in a local variable or are about to let go of
  it; a node is deleted exactly when there are none; and the deleted nodes are the
  first ones. Every line of `put()` and `try_take()` hands references over or makes
  them one change at a time, and a store that finds the count it loaded changes it by
  one. The last store deletes the first node that is left, and the thread inherits
  that node's reference to the next. This holds until a store overwrites another.
* `StaticPoolProofs`: queue, deques and workers have no task in common and none
  twice, and what is in them is what was submitted or forked and is not done. That a
  task is in one place makes its stage a function of where it is, which gives the
  refinement of `Pool`. For what `Pool` says of shutdown two more parts are needed:
  one closer carries it out and closes first; and a worker leaves only a pool that is
  shut down, and without `shutdown_now()` only when the queue is empty and no `put()` is
  between its test and its link, after which none gets past its test any more.
  `NobodySleepsBesideTask` is the part of `SubmittedRuns` that needs no fairness: a
  worker that stops looking leaves an empty deque and saw an empty queue, so while a
  task that was accepted since waits there is a permit, a token or a worker that is
  yet to look; and every sleeper has a token or a count below 0 that will bring one,
  so that with all of them asleep and no token there is no permit either. The bound
  where the counts saturate does not break this as long as it is above the number of
  workers (`MaxPermitsAll`).
* `SpinConditionProofs`: `HandedOver` is inductive once it says which thread
  holds the duty to unlock `enter_mtx_`: the notifier until it has written its
  command, then the command, then the waiter that has served it last. `WaitersCounted`
  holds on top of it, because `waiters_` only changes with a thread that enlists or
  leaves; and `AllLeave`, because `waiters_` reaches 0 in the thread that is the last.
  `MutualExclusion` follows from who is between lock and unlock of the caller's mutex.
  The run leaves `WaitersCounted` and `MutualExclusion` to these proofs.
* `SpinEventsProofs`: the current count of the count-down event is the initial one
  minus the calls that have counted; with no more calls than the initial count it
  never reaches zero while a call is still to count, so a reload cannot find zero.
  `current_` of the barrier is the size minus the members of the batch in the making;
  with no more threads than the size, two turns of the cycle while one thread of a
  batch is still on its way out are impossible. For the auto-reset event
  `OneCallPerSignal` is inductive with its types. For the manual-reset event
  `waiters_` is the number of threads inside plus the interrupted waits, and an
  `enter_mtx_` that nobody is about to unlock was left by a `set()` that counts
  somebody, or is still looking; so it has a waiter to unlock it.
* `ChannelsProofs`: who holds which mutex where. A bounded channel's `put()` tests
  and links under the mutex that `deactivate()` needs, and a sleeper is woken before
  the state is stored. In the unbounded one the closer stores under `head_mtx_`, so a
  consumer that has seen the closed state without items has seen all that was put
  in time.
* `SpinFutureProofs`: for a promise everything follows from the test of `done`
  under the mutex. `run()` of a packaged_task does not test it: the invariant says
  that a thread that runs it is alone and before the result, and that a result that
  is there, a broken one included, was `started`. For `wait_for_any()` a producer that
  still has conditions to notify holds the mutex of its future, and a waiter that
  removes itself from its futures one after the other is registered only with those
  it has not come to.
* `HandlesProofs`: `OwnedOnce` is inductive once the flag is known to travel
  with its result: `future_obtained` of a producer with a result is set exactly if
  its future was given out, and futures refer only to results that were.
  `OrphanIsReady` holds on top of it, because the last producer of a result is the
  only one. `NoPoolLeaks` is inductive once no two objects refer to one pool, and no
  object to one that was not made, the workers that left and those in a task are
  together at most the size, and once one has left by `shutdown()` nothing is pending
  or about to be linked: it saw that with the tail free, after `deactivate()`, and no
  `put()` passes its test since.

Every theorem has the named assumptions on the constants as its hypotheses, and no
others but those it states: sets of threads that play different roles have nothing in
common, the words for a free mutex or no thread are no threads, sets that are counted
are finite, watermarks are ordered, and the deque begins with a power of two up to
32, the size of the code. `NobodyStays`, `CallsCount` and `StaysSignaled` also
assume as many threads as the object is made for; without it the code breaks them
(section 3).

Only model-checked:

* All liveness: `ProducerWakes`, `DeactivationWakes`, `ShutdownComesBack`,
  `SubmittedRuns`, `EnterFreed`, `EventEnterFreed`, `CountedDown`, `CloseEndsCalls`,
  `WaitEnds`, `AnyReturns`, `HandleWaitEnds`, `CallsReturn`. Fairness and ENABLED are
  out of the prover's reach.
* `TaskHandle`, of which the runs ask for liveness only.

No module declares a RECURSIVE operator.

## 7. Readings of the code

Parts of this commit do not compile or are unfinished. The models take the
evident reading:

* `worker::put` and `worker::yield` are used but not defined: putting into the
  worker's deque, and suspending the running `work`.
* `worker_objecty`, `fsme_`, `this_tasklet`, `callabl_object`, `prom_.set` are
  read as `worker_object`, `fsem_`, `this_task`, `callable_object` and the
  promise's `set_value`; the deque of `callable` and of `work` is the same deque.
* `worker_object other( pool_.wg_[idx])` is read as a reference to the other
  worker, not as a copy.
* `worker_group::join_all()` joins and then clears the group.
* `condition::wait( lk, rel_time)` in the queues is a timed wait that returns
  false when the time is up.
* `node::sptr_t` and `intrusive< node >` are read as `intrusive_ptr< node >`, which
  the functions beside them are written for.
* the wrapper's `put( va, lk)` with an undeclared `lk` is `put( va)`.
* Atomics are sequentially consistent, also where the code asks for less. What a
  weaker order could do is out of reach.
* A waiter counts for a notification of a manual-reset event if it waits when
  `set()` makes its exchange.
* After a callback that finds its promise destroyed (undefined behaviour) the
  thread does nothing more that the properties rely on; the run that shows the
  case ends there.
* The wait callback of `SpinFuture` is the one of `spin_futures.qbk:159-165`: it
  produces the result and swallows the exception that somebody else did.
* `boost::lock` on several mutexes takes all or none.
* The system calls of the semaphore succeed: that `semop()` fails
  (`semaphore_posix.cpp:71,84`) is left out.

## 8. Not modelled

* Interruption of the workers by `interrupt_all_worker()` and `shutdown_now()`.
  What a request to interrupt reaches is in `TaskHandle`, what an interrupted wait
  leaves behind in `SpinCondition` and `ManualResetEvent`. Components that use a
  condition are modelled without interruptions, and so is the wait for `enter_mtx_`
  inside `mutex::timed_lock()` (`mutex.cpp:55`).
* The callback of a lazy future that `wait_for_any()` runs when it registers
  (`future.hpp:62`), and futures without a result (`future.hpp:327`).
* What happens to a task's exception in a worker (`callable.hpp:65` catches
  nothing, and the fiber library is not in the repository), and stack unwinding of
  abandoned work.
* The setters `upper_bound( hwm)` and `lower_bound( lwm)` of pools and queues:
  they forward to functions that the queues do not have.
* The move constructor of `shared_future` from a `shared_future`, which does not
  compile (`future.hpp:636`), and calls on handles that throw, which change nothing.
* The order of priorities (`std::priority_queue`), the reference counts other than
  those of nodes (they are atomic), processor binding, the Windows semaphore, traits and
  compile-time code.
* Concurrent first calls on an unset promise (`lazy_init`), a promise that is
  moved while its wait callback, bound to the old object (`future.hpp:163`), may
  run, and the moves of `task` handles.

## 9. Plan

1. Done: semaphore, deque, the four queues, pool and what it promises, the objects
   that refer to pools and results; the spin objects; futures, handles. Proofs of
   every safety property of the passing runs,
   the refinements included.
2. Model next: an abstract condition variable (a set of sleepers, notifications
   owed) that `SpinCondition` implements without interruptions, and that barrier
   and channels use; interruptions of channels and barrier on top of it;
   `shutdown_now()`'s interruption of the workers in `StaticPool`; the same counts
   of nodes in `BoundedFifo`.
3. Prove next: the abstract condition variable of item 2 as what
   `SpinCondition` implements; what the barrier and the channels say when they stand
   on it.
