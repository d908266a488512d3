-------------------------- MODULE UnboundedChannel --------------------------
(***************************************************************************)
(* spin::unbounded_channel (spin/unbounded_channel.hpp): put() under       *)
(* tail_mtx_, take() and try_take() under head_mtx_, and deactivate(),     *)
(* unlike that of bounded_channel, under head_mtx_ only.  Values do not    *)
(* matter, so the list is its length; the condition is as in               *)
(* BoundedChannel.                                                         *)
(***************************************************************************)
EXTENDS Integers, FiniteSets

CONSTANTS
  Producers,    \* threads that call put()
  Consumers,    \* threads that call take(), no more once it returned false
  Triers,       \* threads that call try_take()
  Closers,      \* threads that call deactivate(), maybe after some put()
  Timed,        \* the consumers that pass an abs_time
  MaxPuts,      \* bound: put() of each thread
  MaxTries      \* bound: try_take() of each thread

Takers  == Consumers \cup Triers
Threads == Producers \cup Takers \cup Closers

Free == "free"

UnboundedChannelConstants ==
  /\ (Producers \cup Closers) \cap Takers = {}
  /\ Consumers \cap Triers = {}
  /\ Timed \subseteq Consumers
  /\ MaxPuts \in Nat /\ MaxTries \in Nat
  /\ Free \notin Threads

VARIABLES
  state,        \* state_
  size,         \* the length of the list
  early,        \* how many in the list were put before the state changed
  headMtx,      \* head_mtx_: who holds it
  tailMtx,      \* tail_mtx_: who holds it
  asleep,       \* the threads asleep on not_empty_cond_
  pc,           \* where each thread is
  calls         \* put() or try_take() of each thread so far

vars == <<state, size, early, headMtx, tailMtx, asleep, pc, calls>>

Init ==
  /\ state = "ACTIVE"
  /\ size = 0 /\ early = 0
  /\ headMtx = Free /\ tailMtx = Free
  /\ asleep = {}
  /\ pc = [t \in Threads |-> "idle"]
  /\ calls = [t \in Threads |-> 0]

Goto(t, label) == pc' = [pc EXCEPT ![t] = label]

Called(t, bound) == calls[t] < bound /\ calls' = [calls EXCEPT ![t] = @ + 1]

WakeGoto(S, t, label) ==
  pc' = [u \in Threads |-> IF u \in S THEN "woken" ELSE IF u = t THEN label ELSE pc[u]]

----------------------------------------------------------------------------
(* put().                                                                  *)

PutLock(p) ==
  /\ pc[p] = "idle"
  /\ Called(p, MaxPuts)
  /\ tailMtx = Free
  /\ tailMtx' = p
  /\ Goto(p, "check")
  /\ UNCHANGED <<state, size, early, headMtx, asleep>>

PutCheck(p) ==
  /\ pc[p] = "check"
  /\ IF state = "ACTIVE"
     THEN Goto(p, "link") /\ UNCHANGED tailMtx
     ELSE Goto(p, "idle") /\ tailMtx' = Free
  /\ UNCHANGED <<state, size, early, headMtx, asleep, calls>>

PutLink(p) ==
  /\ pc[p] = "link"
  /\ size' = size + 1
  /\ early' = IF state = "ACTIVE" THEN early + 1 ELSE early
  /\ tailMtx' = Free
  /\ Goto(p, "notify")
  /\ UNCHANGED <<state, headMtx, asleep, calls>>

\* notify_one().
PutNotify(p) ==
  /\ pc[p] = "notify"
  /\ \/ /\ asleep = {}
        /\ Goto(p, "idle")
        /\ UNCHANGED asleep
     \/ \E u \in asleep :
          /\ asleep' = asleep \ {u}
          /\ WakeGoto({u}, p, "idle")
  /\ UNCHANGED <<state, size, early, headMtx, tailMtx, calls>>

----------------------------------------------------------------------------
(* take() and try_take().                                                  *)

TakeLock(c) ==
  /\ pc[c] = "idle"
  /\ IF c \in Triers THEN Called(c, MaxTries) ELSE UNCHANGED calls
  /\ headMtx = Free
  /\ headMtx' = c
  /\ Goto(c, "test")
  /\ UNCHANGED <<state, size, early, tailMtx, asleep>>

\* The values that were put first are taken first.
TakePop(c) ==
  /\ pc[c] = "test"
  /\ tailMtx = Free
  /\ size > 0
  /\ size' = size - 1
  /\ early' = IF early > 0 THEN early - 1 ELSE 0
  /\ headMtx' = Free
  /\ Goto(c, "idle")
  /\ UNCHANGED <<state, tailMtx, asleep, calls>>

\* Mutant of TakeEnds: a closed channel is at its end.
TakeEndsClosed(c) ==
  /\ c \in Consumers
  /\ pc[c] = "test"
  /\ state = "DEACTIVE"
  /\ headMtx' = Free
  /\ Goto(c, "ended")
  /\ UNCHANGED <<state, size, early, tailMtx, asleep, calls>>

\* take() returns false: closed and empty.
TakeEnds(c) ==
  /\ c \in Consumers
  /\ pc[c] = "test"
  /\ tailMtx = Free
  /\ size = 0
  /\ state = "DEACTIVE"
  /\ headMtx' = Free
  /\ Goto(c, "ended")
  /\ UNCHANGED <<state, size, early, tailMtx, asleep, calls>>

TryFails(c) ==
  /\ c \in Triers
  /\ pc[c] = "test"
  /\ tailMtx = Free
  /\ size = 0
  /\ headMtx' = Free
  /\ Goto(c, "idle")
  /\ UNCHANGED <<state, size, early, tailMtx, asleep, calls>>

TakeEmpty(c) ==
  /\ c \in Consumers
  /\ pc[c] = "test"
  /\ tailMtx = Free
  /\ size = 0
  /\ state = "ACTIVE"
  /\ Goto(c, "sleep")
  /\ UNCHANGED <<state, size, early, headMtx, tailMtx, asleep, calls>>

TakeSleep(c) ==
  /\ pc[c] = "sleep"
  /\ asleep' = asleep \cup {c}
  /\ headMtx' = Free
  /\ Goto(c, "asleep")
  /\ UNCHANGED <<state, size, early, tailMtx, calls>>

TakeWake(c) ==
  /\ pc[c] = "woken"
  /\ headMtx = Free
  /\ headMtx' = c
  /\ Goto(c, "test")
  /\ UNCHANGED <<state, size, early, tailMtx, asleep, calls>>

\* take() with a timeout returns false; its caller may call it again.
TakeTimeout(c) ==
  /\ c \in asleep \cap Timed
  /\ asleep' = asleep \ {c}
  /\ Goto(c, "timed_out")
  /\ UNCHANGED <<state, size, early, headMtx, tailMtx, calls>>

TakeGiveUp(c) ==
  /\ pc[c] = "timed_out"
  /\ headMtx = Free
  /\ Goto(c, "idle")
  /\ UNCHANGED <<state, size, early, headMtx, tailMtx, asleep, calls>>

----------------------------------------------------------------------------
(* deactivate().                                                           *)

\* A second deactivate() finds the state stored and nobody asleep: left out.
CloseLock(k) ==
  /\ pc[k] = "idle"
  /\ state = "ACTIVE"
  /\ headMtx = Free
  /\ headMtx' = k
  /\ Goto(k, "close_store")
  /\ UNCHANGED <<state, size, early, tailMtx, asleep, calls>>

CloseStore(k) ==
  /\ pc[k] = "close_store"
  /\ state' = "DEACTIVE"
  /\ Goto(k, "close_notify")
  /\ UNCHANGED <<size, early, headMtx, tailMtx, asleep, calls>>

\* Mutant of CloseNotify: only one of the sleepers is woken.
CloseNotifyOne(k) ==
  /\ pc[k] = "close_notify"
  /\ \E S \in {{}} \cup {{u} : u \in asleep} :
       /\ S = {} => asleep = {}
       /\ asleep' = asleep \ S
       /\ WakeGoto(S, k, "idle")
  /\ headMtx' = Free
  /\ UNCHANGED <<state, size, early, tailMtx, calls>>

CloseNotify(k) ==
  /\ pc[k] = "close_notify"
  /\ asleep' = {}
  /\ WakeGoto(asleep, k, "idle")
  /\ headMtx' = Free
  /\ UNCHANGED <<state, size, early, tailMtx, calls>>

----------------------------------------------------------------------------
PutStep(p) == PutCheck(p) \/ PutLink(p) \/ PutNotify(p)

TakeStep(c) ==
  \/ TakePop(c) \/ TakeEnds(c) \/ TryFails(c) \/ TakeEmpty(c) \/ TakeSleep(c)
  \/ TakeWake(c) \/ TakeGiveUp(c)

CloseStep(k) == CloseStore(k) \/ CloseNotify(k)

Next ==
  \/ \E p \in Producers : PutLock(p) \/ PutStep(p)
  \/ \E c \in Takers : TakeLock(c) \/ TakeStep(c) \/ TakeTimeout(c)
  \/ \E k \in Closers : CloseLock(k) \/ CloseStep(k)

Spec == Init /\ [][Next]_vars

\* Whoever is in a call runs on and gets a mutex that is free again and again;
\* nobody has to call.
Fairness ==
  /\ \A p \in Producers : SF_vars(PutStep(p))
  /\ \A c \in Takers : SF_vars(TakeStep(c))
  /\ \A k \in Closers : SF_vars(CloseStep(k))

----------------------------------------------------------------------------
(* Properties.                                                             *)

TypeOK ==
  /\ state \in {"ACTIVE", "DEACTIVE"}
  /\ size \in Nat /\ early \in 0 .. size
  /\ headMtx \in Threads \cup {Free} /\ tailMtx \in Threads \cup {Free}
  /\ asleep = {c \in Consumers : pc[c] = "asleep"}
  /\ pc \in [Threads -> {"idle", "check", "link", "notify", "test", "sleep",
                         "asleep", "woken", "timed_out", "ended",
                         "close_store", "close_notify"}]
  /\ calls \in [Threads -> Nat]

\* A take() that reports the end leaves nothing that was put before the channel
\* was closed.
EndMeansDrained == (\E c \in Consumers : pc[c] = "ended") => early = 0

\* Once deactivate() is through nobody sleeps, not even one that was about to.
NobodySleepsClosed ==
  (state = "DEACTIVE" /\ \A k \in Closers : pc[k] = "idle") => asleep = {}

\* Every take() on a closed channel returns, also that of a consumer that was
\* asleep or about to sleep when it was closed.
CloseEndsTakes ==
  \A c \in Consumers :
    (state = "DEACTIVE" /\ pc[c] # "idle") ~> pc[c] \in {"idle", "ended"}

\* A closed channel takes nothing more (spin_fifos.qbk:75).
NothingEntersLate == [][state = "DEACTIVE" => size' <= size]_vars

\* A consumer does not sleep for good beside a value (spin_fifos.qbk:90-91).
ConsumerWakes ==
  \A c \in Consumers : (pc[c] = "asleep" /\ size > 0) ~> (pc[c] # "asleep" \/ size = 0)

=============================================================================
