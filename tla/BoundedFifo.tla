---------------------------- MODULE BoundedFifo ----------------------------
(***************************************************************************)
(* detail::bounded_fifo_base (bounded_fifo.hpp): a linked list with a      *)
(* dummy node at its end, tail_mtx_ for producers and head_mtx_ for        *)
(* consumers.  A consumer only touches tail_mtx_ to read tail_.  Producers *)
(* sleep on not_full_cond_ (with tail_mtx_) while count_ >= hwm_;          *)
(* consumers and deactivate() notify it holding head_mtx_ only.            *)
(*                                                                         *)
(* Nodes are numbered in the order they are linked; node 0 is the first    *)
(* dummy.  A put() with a rel_time is one that may time out.               *)
(***************************************************************************)
EXTENDS Integers, Sequences, FiniteSets

CONSTANTS
  Producers,    \* threads that call put()
  Consumers,    \* threads that call try_take() again and again
  Timed,        \* the producers whose put() has a rel_time
  HWM, LWM,     \* hwm_, lwm_
  MaxPuts       \* bound: items of each producer, which may try again

Free == "free"
Deactivator == "deactivator"

BoundedFifoConstants ==
  /\ Timed \subseteq Producers
  /\ IsFiniteSet(Producers)
  /\ HWM \in Nat \ {0} /\ LWM \in Nat      \* validated by the watermark types
  /\ MaxPuts \in Nat
  /\ {Free, Deactivator} \cap (Producers \cup Consumers) = {}   \* no thread's names

Items == Producers \X (1 .. MaxPuts)
None == <<>>            \* a node that holds no item

VARIABLES
  state,        \* state_
  count,        \* count_
  head, tail,   \* head_, tail_: nodes
  va, next,     \* the fields of the nodes
  headMtx,      \* who holds head_mtx_
  tailMtx,      \* the producer that holds tail_mtx_
  sleeping,     \* the producers that sleep on not_full_cond_
  pc,           \* where each producer is
  puts,         \* items of each producer, the one it is putting included
  cpc,          \* where each consumer is
  got,          \* try_take(): the item each consumer got
  dpc,          \* where deactivate() is
  posts,        \* calls of fsem_->post()
  late          \* history: the producers whose put() had not passed its test of
                \* active_() when deactivate() stored the state, or began later

vars == <<state, count, head, tail, va, next, headMtx, tailMtx, sleeping, pc,
          puts, cpc, got, dpc, posts, late>>
list == <<count, head, tail, va, next>>

active == state = "ACTIVE"
full   == count >= HWM

Nodes == 0 .. Cardinality(Items)

Init ==
  /\ state = "ACTIVE"
  /\ count = 0
  /\ head = 0 /\ tail = 0
  /\ va = [n \in Nodes |-> None]
  /\ next = [n \in Nodes |-> n]       \* no node yet
  /\ headMtx = Free /\ tailMtx = Free
  /\ sleeping = {}
  /\ pc = [p \in Producers |-> "idle"]
  /\ puts = [p \in Producers |-> 0]
  /\ cpc = [c \in Consumers |-> "idle"]
  /\ got = [c \in Consumers |-> None]
  /\ dpc = "idle"
  /\ posts = 0
  /\ late = {}

Goto(p, label) == pc' = [pc EXCEPT ![p] = label]
GotoC(c, label) == cpc' = [cpc EXCEPT ![c] = label]

----------------------------------------------------------------------------
(* put().                                                                  *)

PutCall(p) ==
  /\ pc[p] = "idle"
  /\ puts[p] < MaxPuts
  /\ puts' = [puts EXCEPT ![p] = @ + 1]
  /\ late' = IF active THEN late ELSE late \cup {p}
  /\ Goto(p, "lock")
  /\ UNCHANGED <<state, list, headMtx, tailMtx, sleeping, cpc, got, dpc, posts>>

\* Entry of put(), and the end of a wait that was notified.
PutLock(p) ==
  /\ pc[p] = "lock"
  /\ tailMtx = Free
  /\ tailMtx' = p
  /\ Goto(p, "test")
  /\ UNCHANGED <<state, list, headMtx, sleeping, puts, cpc, got, dpc, posts, late>>

\* `while ( active_() && full_() )'
PutTest(p) ==
  /\ pc[p] = "test"
  /\ Goto(p, IF active /\ full THEN "wait" ELSE "check")
  /\ UNCHANGED <<state, list, headMtx, tailMtx, sleeping, puts, cpc, got, dpc,
                 posts, late>>

\* condition::wait(): goes to sleep and unlocks in one step.
PutWait(p) ==
  /\ pc[p] = "wait"
  /\ sleeping' = sleeping \cup {p}
  /\ tailMtx' = Free
  /\ Goto(p, "asleep")
  /\ UNCHANGED <<state, list, headMtx, puts, cpc, got, dpc, posts, late>>

\* Mutant of PutWake: `if' in the place of `while', the test is not repeated.
PutWakeNoRetest(p) ==
  /\ pc[p] = "asleep"
  /\ p \notin sleeping
  /\ tailMtx = Free
  /\ tailMtx' = p
  /\ Goto(p, "check")
  /\ UNCHANGED <<state, list, headMtx, sleeping, puts, cpc, got, dpc, posts, late>>

\* A producer that was notified, or woke up without, locks and tests again.
PutWake(p) ==
  /\ pc[p] = "asleep"
  /\ p \notin sleeping
  /\ Goto(p, "lock")
  /\ UNCHANGED <<state, list, headMtx, tailMtx, sleeping, puts, cpc, got, dpc,
                 posts, late>>

SpuriousWake(p) ==
  /\ p \in sleeping
  /\ sleeping' = sleeping \ {p}
  /\ UNCHANGED <<state, list, headMtx, tailMtx, pc, puts, cpc, got, dpc, posts,
                 late>>

\* The wait of a timed put() ends: task_rejected, full or not.
PutTimeout(p) ==
  /\ p \in sleeping \cap Timed
  /\ tailMtx = Free
  /\ sleeping' = sleeping \ {p}
  /\ late' = late \ {p}
  /\ puts' = [puts EXCEPT ![p] = @ - 1]
  /\ Goto(p, "idle")
  /\ UNCHANGED <<state, list, headMtx, tailMtx, cpc, got, dpc, posts>>

PutReject(p) ==
  /\ pc[p] = "check"
  /\ ~ active
  /\ tailMtx' = Free
  /\ late' = late \ {p}
  /\ puts' = [puts EXCEPT ![p] = @ - 1]
  /\ Goto(p, "idle")
  /\ UNCHANGED <<state, list, headMtx, sleeping, cpc, got, dpc, posts>>

\* Mutant of PutCheck: the state is not tested again.
PutCheckNot(p) ==
  /\ pc[p] = "check"
  /\ Goto(p, "link")
  /\ UNCHANGED <<state, list, headMtx, tailMtx, sleeping, puts, cpc, got, dpc,
                 posts, late>>

PutCheck(p) ==
  /\ pc[p] = "check"
  /\ active
  /\ Goto(p, "link")
  /\ UNCHANGED <<state, list, headMtx, tailMtx, sleeping, puts, cpc, got, dpc,
                 posts, late>>

PutLink(p) ==
  /\ pc[p] = "link"
  /\ va' = [va EXCEPT ![tail] = <<p, puts[p]>>]
  /\ next' = [next EXCEPT ![tail] = tail + 1]
  /\ Goto(p, "swing")
  /\ UNCHANGED <<state, count, head, tail, headMtx, tailMtx, sleeping, puts,
                 cpc, got, dpc, posts, late>>

PutSwing(p) ==
  /\ pc[p] = "swing"
  /\ tail' = next[tail]
  /\ Goto(p, "count")
  /\ UNCHANGED <<state, count, head, va, next, headMtx, tailMtx, sleeping, puts,
                 cpc, got, dpc, posts, late>>

PutCount(p) ==
  /\ pc[p] = "count"
  /\ count' = count + 1
  /\ tailMtx' = Free
  /\ Goto(p, "post")
  /\ UNCHANGED <<state, head, tail, va, next, headMtx, sleeping, puts, cpc, got,
                 dpc, posts, late>>

PutPost(p) ==
  /\ pc[p] = "post"
  /\ posts' = posts + 1
  /\ Goto(p, "idle")
  /\ UNCHANGED <<state, list, headMtx, tailMtx, sleeping, puts, cpc, got, dpc,
                 late>>

----------------------------------------------------------------------------
(* try_take().                                                             *)

TakeLock(c) ==
  /\ cpc[c] = "idle"
  /\ headMtx = Free
  /\ headMtx' = c
  /\ GotoC(c, "get_tail")
  /\ UNCHANGED <<state, list, tailMtx, sleeping, pc, puts, got, dpc, posts, late>>

\* empty_(): compares head_ with a tail_ read under tail_mtx_.
TakeEmpty(c) ==
  /\ cpc[c] = "get_tail"
  /\ tailMtx = Free
  /\ head = tail
  /\ headMtx' = Free
  /\ GotoC(c, "idle")
  /\ UNCHANGED <<state, list, tailMtx, sleeping, pc, puts, got, dpc, posts, late>>

TakeNonEmpty(c) ==
  /\ cpc[c] = "get_tail"
  /\ tailMtx = Free
  /\ head # tail
  /\ GotoC(c, "pop")
  /\ UNCHANGED <<state, list, headMtx, tailMtx, sleeping, pc, puts, got, dpc,
                 posts, late>>

TakePop(c) ==
  /\ cpc[c] = "pop"
  /\ got' = [got EXCEPT ![c] = va[head]]
  /\ va' = [va EXCEPT ![head] = None]
  /\ head' = next[head]
  /\ GotoC(c, "count")
  /\ UNCHANGED <<state, count, tail, next, headMtx, tailMtx, sleeping, pc, puts,
                 dpc, posts, late>>

TakeCount(c) ==
  /\ cpc[c] = "count"
  /\ count' = count - 1
  /\ GotoC(c, "notify")
  /\ UNCHANGED <<state, head, tail, va, next, headMtx, tailMtx, sleeping, pc,
                 puts, got, dpc, posts, late>>

\* Who is notified when the queue is down to its low watermark.
Notified(woken) ==
  IF LWM = HWM
    THEN \/ sleeping = {} /\ woken = {}
         \/ \E p \in sleeping : woken = {p}
    ELSE woken = sleeping

\* Mutant of TakeNotify: notifies only when the queue was full before.
TakeNotifyIfFull(c) ==
  /\ cpc[c] = "notify"
  /\ \E woken \in SUBSET sleeping :
       /\ IF got[c] # None /\ count <= LWM /\ count = HWM - 1 THEN Notified(woken) ELSE woken = {}
       /\ sleeping' = sleeping \ woken
  /\ headMtx' = Free
  /\ got' = [got EXCEPT ![c] = None]
  /\ GotoC(c, "idle")
  /\ UNCHANGED <<state, list, tailMtx, pc, puts, dpc, posts, late>>

TakeNotify(c) ==
  /\ cpc[c] = "notify"
  /\ \E woken \in SUBSET sleeping :
       /\ IF got[c] # None /\ count <= LWM THEN Notified(woken) ELSE woken = {}
       /\ sleeping' = sleeping \ woken
  /\ headMtx' = Free
  /\ got' = [got EXCEPT ![c] = None]
  /\ GotoC(c, "idle")
  /\ UNCHANGED <<state, list, tailMtx, pc, puts, dpc, posts, late>>

----------------------------------------------------------------------------
(* deactivate().                                                           *)

Deactivate ==
  /\ dpc = "idle"
  /\ headMtx = Free
  /\ headMtx' = Deactivator
  /\ state' = "DEACTIVE"
  /\ dpc' = "notify"
  /\ late' = {p \in Producers : pc[p] \in {"lock", "test", "wait", "asleep", "check"}}
  /\ UNCHANGED <<list, tailMtx, sleeping, pc, puts, cpc, got, posts>>

DeactivateNotify ==
  /\ dpc = "notify"
  /\ sleeping' = {}
  /\ headMtx' = Free
  /\ dpc' = "done"
  /\ UNCHANGED <<state, list, tailMtx, pc, puts, cpc, got, posts, late>>

----------------------------------------------------------------------------
PutStep(p) ==
  \/ PutLock(p) \/ PutTest(p) \/ PutWait(p) \/ PutWake(p) \/ PutReject(p)
  \/ PutCheck(p) \/ PutLink(p) \/ PutSwing(p) \/ PutCount(p) \/ PutPost(p)

TakeStep(c) ==
  \/ TakeLock(c) \/ TakeEmpty(c) \/ TakeNonEmpty(c)
  \/ TakePop(c) \/ TakeCount(c) \/ TakeNotify(c)

Next ==
  \/ \E p \in Producers : PutCall(p) \/ PutStep(p) \/ SpuriousWake(p) \/ PutTimeout(p)
  \/ \E c \in Consumers : TakeStep(c)
  \/ Deactivate
  \/ DeactivateNotify

\* Threads inside a call run on, and consumers come back for more; a thread
\* that finds a mutex free again and again gets it in the end.  Nobody has to
\* call put() or deactivate(), no wait has to time out or end by itself.
Fairness ==
  /\ \A p \in Producers : WF_vars(PutStep(p)) /\ SF_vars(PutLock(p))
  /\ \A c \in Consumers : /\ WF_vars(TakeStep(c))
                          /\ SF_vars(TakeLock(c))
                          /\ SF_vars(TakeEmpty(c) \/ TakeNonEmpty(c))
  /\ WF_vars(DeactivateNotify)

Spec == Init /\ [][Next]_vars /\ Fairness

----------------------------------------------------------------------------
(* Properties.                                                             *)

TypeOK ==
  /\ state \in {"ACTIVE", "DEACTIVE"}
  /\ count \in Nat
  /\ head \in Nodes /\ tail \in Nodes
  /\ va \in [Nodes -> Items \cup {None}]
  /\ next \in [Nodes -> Nat]
  /\ headMtx \in Consumers \cup {Deactivator, Free}
  /\ tailMtx \in Producers \cup {Free}
  /\ sleeping \in SUBSET Producers
  /\ pc \in [Producers -> {"idle", "lock", "test", "wait", "asleep", "check",
                           "link", "swing", "count", "post"}]
  /\ puts \in [Producers -> 0 .. MaxPuts]
  /\ cpc \in [Consumers -> {"idle", "get_tail", "pop", "count", "notify"}]
  /\ got \in [Consumers -> Items \cup {None}]
  /\ dpc \in {"idle", "notify", "done"}
  /\ posts \in Nat
  /\ late \in SUBSET Producers

\* The list from head_ to tail_ is a bounded first-in first-out queue: no
\* interleaving of the two locks loses, duplicates or reorders an item, hands
\* out a node that is not written yet or goes above hwm_.
Entered == {x \in Items : \/ x[2] < puts[x[1]]
                          \/ /\ x[2] = puts[x[1]]
                             /\ pc[x[1]] \in {"count", "post", "idle"}}
Queue == INSTANCE BoundedQueue
           WITH pending <- [i \in 1 .. tail - head |-> va[head + i - 1]],
                entered <- Entered
ImplementsBoundedQueue == Queue!Spec

\* Once deactivate() has stored the state no put() adds an item but one past its
\* last test: not one that begins then, and not one that slept or was woken and
\* finds room because the queue was drained.
NothingEntersLate ==
  \A p \in late : pc[p] \notin {"link", "swing", "count", "post"}

\* As long as consumers come back, a producer that sleeps because the queue
\* was full gets to run again, deactivated or not.
ProducerWakes ==
  \A p \in Producers : (pc[p] = "asleep") ~> (pc[p] # "asleep")

=============================================================================
