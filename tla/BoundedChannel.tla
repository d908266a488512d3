--------------------------- MODULE BoundedChannel ---------------------------
(***************************************************************************)
(* spin::bounded_channel (spin/bounded_channel.hpp): a two-lock list as in *)
(* bounded_fifo, with consumers that sleep, too.  put() works under        *)
(* tail_mtx_, take() and try_take() under head_mtx_, deactivate() under    *)
(* both.  Values do not matter, so the list is its length; how the list    *)
(* itself stands up to the two locks is the subject of BoundedFifo.  Of    *)
(* the two conditions no more is taken than SpinCondition shows: notify    *)
(* wakes sleepers and is lost when there are none.                         *)
(***************************************************************************)
EXTENDS Integers, FiniteSets

CONSTANTS
  Producers,    \* threads that call put()
  Consumers,    \* threads that call take()
  Triers,       \* threads that call try_take()
  Closers,      \* threads that call deactivate()
  Timed,        \* the producers and consumers that pass an abs_time
  Hwm, Lwm,     \* hwm_ and lwm_
  MaxCalls      \* bound: calls of each thread

Takers  == Consumers \cup Triers
Threads == Producers \cup Takers \cup Closers

ASSUME RolesApart ==
  /\ Producers \cap (Takers \cup Closers) = {}
  /\ Consumers \cap (Triers \cup Closers) = {}
  /\ Triers \cap Closers = {}
  /\ Timed \subseteq Producers \cup Consumers
\* The constructor throws invalid_watermark otherwise (bounded_channel.hpp:138).
ASSUME Watermarks == Lwm \in Nat /\ Hwm \in Nat /\ Lwm <= Hwm
ASSUME CallsAreNat == MaxCalls \in Nat

Free == "free"

ASSUME FreeIsNoThread == Free \notin Threads

VARIABLES
  state,        \* state_
  size,         \* count_, and the length of the list
  headMtx,      \* head_mtx_: who holds it
  tailMtx,      \* tail_mtx_: who holds it
  notEmpty,     \* the threads asleep on not_empty_cond_
  notFull,      \* the threads asleep on not_full_cond_
  pc,           \* where each thread is
  calls         \* how many calls each thread has made

mutexes == <<headMtx, tailMtx>>
sleepers == <<notEmpty, notFull>>
vars == <<state, size, mutexes, sleepers, pc, calls>>

Init ==
  /\ state = "ACTIVE"
  /\ size = 0
  /\ headMtx = Free /\ tailMtx = Free
  /\ notEmpty = {} /\ notFull = {}
  /\ pc = [t \in Threads |-> "idle"]
  /\ calls = [t \in Threads |-> 0]

full == size >= Hwm

Goto(t, label) == pc' = [pc EXCEPT ![t] = label]

Call(t, label) ==
  /\ pc[t] = "idle"
  /\ calls[t] < MaxCalls
  /\ calls' = [calls EXCEPT ![t] = @ + 1]
  /\ Goto(t, label)

\* pc when the threads in S wake up and t goes on at label.
WakeGoto(S, t, label) ==
  pc' = [u \in Threads |-> IF u \in S THEN "woken" ELSE IF u = t THEN label ELSE pc[u]]

\* Whom notify_one() may wake of the sleepers S.
OneOf(S) == IF S = {} THEN {{}} ELSE {{u} : u \in S}

----------------------------------------------------------------------------
(* put().                                                                  *)

PutLock(p) ==
  /\ Call(p, "test")
  /\ tailMtx = Free
  /\ tailMtx' = p
  /\ UNCHANGED <<state, size, headMtx, sleepers>>

PutTest(p) ==
  /\ pc[p] = "test"
  /\ Goto(p, IF state = "ACTIVE" /\ full THEN "sleep" ELSE "check")
  /\ UNCHANGED <<state, size, mutexes, sleepers, calls>>

\* wait() enlists the thread before it unlocks the mutex.
PutSleep(p) ==
  /\ pc[p] = "sleep"
  /\ notFull' = notFull \cup {p}
  /\ tailMtx' = Free
  /\ Goto(p, "asleep")
  /\ UNCHANGED <<state, size, headMtx, notEmpty, calls>>

PutWake(p) ==
  /\ pc[p] = "woken"
  /\ p \notin Timed
  /\ tailMtx = Free
  /\ tailMtx' = p
  /\ Goto(p, "test")
  /\ UNCHANGED <<state, size, headMtx, sleepers, calls>>

\* The `;' behind the if of the put() with a timeout: however timed_wait()
\* returns, put() returns false and the value is not put.
PutGiveUp(p) ==
  /\ pc[p] \in {"woken", "timed_out"}
  /\ p \in Timed
  /\ tailMtx = Free
  /\ Goto(p, "idle")
  /\ UNCHANGED <<state, size, mutexes, sleepers, calls>>

PutTimeout(p) ==
  /\ p \in notFull \cap Timed
  /\ notFull' = notFull \ {p}
  /\ Goto(p, "timed_out")
  /\ UNCHANGED <<state, size, mutexes, notEmpty, calls>>

\* put() throws.
PutReject(p) ==
  /\ pc[p] = "check"
  /\ state = "DEACTIVE"
  /\ tailMtx' = Free
  /\ Goto(p, "idle")
  /\ UNCHANGED <<state, size, headMtx, sleepers, calls>>

\* Mutant of PutLink: the state is not looked at.
PutLinkLate(p) ==
  /\ pc[p] = "check"
  /\ size' = size + 1
  /\ tailMtx' = Free
  /\ Goto(p, "notify")
  /\ UNCHANGED <<state, headMtx, sleepers, calls>>

\* Nobody sees the new tail_ before tail_mtx_ is unlocked.
PutLink(p) ==
  /\ pc[p] = "check"
  /\ state = "ACTIVE"
  /\ size' = size + 1
  /\ tailMtx' = Free
  /\ Goto(p, "notify")
  /\ UNCHANGED <<state, headMtx, sleepers, calls>>

\* notify_one() comes when no mutex is held any more.
PutNotify(p) ==
  /\ pc[p] = "notify"
  /\ \E S \in OneOf(notEmpty) :
       /\ notEmpty' = notEmpty \ S
       /\ WakeGoto(S, p, "idle")
  /\ UNCHANGED <<state, size, mutexes, notFull, calls>>

----------------------------------------------------------------------------
(* take() and try_take().                                                  *)

TakeLock(c) ==
  /\ Call(c, "test")
  /\ headMtx = Free
  /\ headMtx' = c
  /\ UNCHANGED <<state, size, tailMtx, sleepers>>

\* empty_() locks tail_mtx_ for a moment.
TakeNonEmpty(c) ==
  /\ pc[c] = "test"
  /\ tailMtx = Free
  /\ size > 0
  /\ Goto(c, "pop")
  /\ UNCHANGED <<state, size, mutexes, sleepers, calls>>

TakePop(c) ==
  /\ pc[c] = "pop"
  /\ size' = size - 1
  /\ Goto(c, "look")
  /\ UNCHANGED <<state, mutexes, sleepers, calls>>

\* Mutant of TakeEmpty: a consumer that finds the channel closed and empty sleeps.
TakeEmptySleeps(c) ==
  /\ pc[c] = "test"
  /\ tailMtx = Free
  /\ size = 0
  /\ \/ /\ c \in Consumers
        /\ Goto(c, "sleep")
        /\ UNCHANGED headMtx
     \/ /\ c \in Triers
        /\ headMtx' = Free
        /\ Goto(c, "idle")
  /\ UNCHANGED <<state, size, tailMtx, sleepers, calls>>

TakeEmpty(c) ==
  /\ pc[c] = "test"
  /\ tailMtx = Free
  /\ size = 0
  /\ \/ /\ c \in Consumers /\ state = "ACTIVE"
        /\ Goto(c, "sleep")
        /\ UNCHANGED headMtx
     \/ /\ c \in Triers \/ state = "DEACTIVE"
        /\ headMtx' = Free
        /\ Goto(c, "idle")
  /\ UNCHANGED <<state, size, tailMtx, sleepers, calls>>

TakeSleep(c) ==
  /\ pc[c] = "sleep"
  /\ notEmpty' = notEmpty \cup {c}
  /\ headMtx' = Free
  /\ Goto(c, "asleep")
  /\ UNCHANGED <<state, size, tailMtx, notFull, calls>>

TakeWake(c) ==
  /\ pc[c] = "woken"
  /\ headMtx = Free
  /\ headMtx' = c
  /\ Goto(c, "test")
  /\ UNCHANGED <<state, size, tailMtx, sleepers, calls>>

TakeTimeout(c) ==
  /\ c \in notEmpty \cap Timed
  /\ notEmpty' = notEmpty \ {c}
  /\ Goto(c, "timed_out")
  /\ UNCHANGED <<state, size, mutexes, notFull, calls>>

\* take() with a timeout returns false, with what has come meanwhile left.
TakeGiveUp(c) ==
  /\ pc[c] = "timed_out"
  /\ headMtx = Free
  /\ Goto(c, "idle")
  /\ UNCHANGED <<state, size, mutexes, sleepers, calls>>

TakeLook(c) ==
  /\ pc[c] = "look"
  /\ Goto(c, IF size <= Lwm THEN "notify" ELSE "unlock")
  /\ UNCHANGED <<state, size, mutexes, sleepers, calls>>

TakeNotify(c) ==
  /\ pc[c] = "notify"
  /\ \E S \in IF Lwm = Hwm THEN OneOf(notFull) ELSE {notFull} :
       /\ notFull' = notFull \ S
       /\ WakeGoto(S, c, "unlock")
  /\ UNCHANGED <<state, size, mutexes, notEmpty, calls>>

TakeUnlock(c) ==
  /\ pc[c] = "unlock"
  /\ headMtx' = Free
  /\ Goto(c, "idle")
  /\ UNCHANGED <<state, size, tailMtx, sleepers, calls>>

----------------------------------------------------------------------------
(* deactivate().                                                           *)

CloseHead(k) ==
  /\ Call(k, "close_tail")
  /\ headMtx = Free
  /\ headMtx' = k
  /\ UNCHANGED <<state, size, tailMtx, sleepers>>

CloseTail(k) ==
  /\ pc[k] = "close_tail"
  /\ tailMtx = Free
  /\ tailMtx' = k
  /\ Goto(k, "close_notify")
  /\ UNCHANGED <<state, size, headMtx, sleepers, calls>>

\* Everybody is woken before the state changes; the mutexes keep them waiting.
CloseNotify(k) ==
  /\ pc[k] = "close_notify"
  /\ notEmpty' = {} /\ notFull' = {}
  /\ WakeGoto(notEmpty \cup notFull, k, "close_store")
  /\ UNCHANGED <<state, size, mutexes, calls>>

CloseStore(k) ==
  /\ pc[k] = "close_store"
  /\ state' = "DEACTIVE"
  /\ headMtx' = Free /\ tailMtx' = Free
  /\ Goto(k, "idle")
  /\ UNCHANGED <<size, sleepers, calls>>

----------------------------------------------------------------------------
PutStep(p) ==
  \/ PutTest(p) \/ PutSleep(p) \/ PutWake(p) \/ PutGiveUp(p)
  \/ PutReject(p) \/ PutLink(p) \/ PutNotify(p)

TakeStep(c) ==
  \/ TakeNonEmpty(c) \/ TakePop(c) \/ TakeEmpty(c) \/ TakeSleep(c) \/ TakeWake(c)
  \/ TakeGiveUp(c) \/ TakeLook(c) \/ TakeNotify(c) \/ TakeUnlock(c)

CloseStep(k) == CloseTail(k) \/ CloseNotify(k) \/ CloseStore(k)

Next ==
  \/ \E p \in Producers : PutLock(p) \/ PutStep(p) \/ PutTimeout(p)
  \/ \E c \in Takers : TakeLock(c) \/ TakeStep(c) \/ TakeTimeout(c)
  \/ \E k \in Closers : CloseHead(k) \/ CloseStep(k)

Spec == Init /\ [][Next]_vars

\* Whoever is in a call runs on, and gets a mutex that is free again and again;
\* nobody has to call, and no wait has to time out.
Fairness ==
  /\ \A p \in Producers : SF_vars(PutStep(p))
  /\ \A c \in Takers : SF_vars(TakeStep(c))
  /\ \A k \in Closers : SF_vars(CloseStep(k))

----------------------------------------------------------------------------
(* Properties.                                                             *)

\* The list never outgrows the high watermark.
TypeOK ==
  /\ state \in {"ACTIVE", "DEACTIVE"}
  /\ size \in 0 .. Hwm
  /\ headMtx \in Threads \cup {Free} /\ tailMtx \in Threads \cup {Free}
  /\ notEmpty \subseteq Consumers /\ notFull \subseteq Producers
  /\ pc \in [Threads -> {"idle", "test", "sleep", "asleep", "woken", "timed_out",
                         "check", "notify", "pop", "look", "unlock",
                         "close_tail", "close_notify", "close_store"}]
  /\ calls \in [Threads -> 0 .. MaxCalls]

\* A closed channel takes nothing more: deactivate() locks what put() holds from
\* its test to its link.
NothingEntersLate == [][state = "DEACTIVE" => size' <= size]_vars

\* Nobody sleeps on a closed channel, even one that was about to sleep when it
\* was closed.
NobodySleepsClosed == state = "DEACTIVE" => notEmpty = {} /\ notFull = {}

\* When the channel is closed every call comes to its end.
CloseEndsCalls == state = "DEACTIVE" ~> \A t \in Threads : pc[t] = "idle"

\* A consumer does not sleep for good beside a value
\* (spin_fifos.qbk:189-190).
ConsumerWakes ==
  \A c \in Consumers : (pc[c] = "asleep" /\ size > 0) ~> (pc[c] # "asleep" \/ size = 0)

\* A producer does not sleep for good beside an empty channel
\* (spin_fifos.qbk:180-182).
ProducerWakes ==
  \A p \in Producers : (pc[p] = "asleep" /\ size = 0) ~> (pc[p] # "asleep" \/ size > 0)

\* A producer that was notified before its time was up looks for room again
\* (spin_fifos.qbk:181-182).
NotifiedLooksAgain ==
  [][\A p \in Producers : pc[p] = "woken" => pc'[p] \in {"woken", "test"}]_vars

=============================================================================
