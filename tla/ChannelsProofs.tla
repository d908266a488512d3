--------------------------- MODULE ChannelsProofs ---------------------------
(***************************************************************************)
(* The two channels for every number of threads and of calls, and all      *)
(* watermarks.  What is proved of each rests on who holds the two mutexes  *)
(* where.                                                                  *)
(***************************************************************************)
EXTENDS MCChannels, TLAPS

----------------------------------------------------------------------------
(* BoundedChannel.                                                         *)

Labels == {"idle", "test", "sleep", "asleep", "woken", "timed_out", "check", "notify",
           "pop", "look", "unlock", "close_tail", "close_notify", "close_store"}

Typed ==
  /\ state \in {"ACTIVE", "DEACTIVE"}
  /\ size \in Nat
  /\ headMtx \in Threads \cup {Free} /\ tailMtx \in Threads \cup {Free}
  /\ pc \in [Threads -> Labels]
  /\ calls \in [Threads -> 0 .. MaxCalls]
  /\ notEmpty \subseteq Consumers /\ notFull \subseteq Producers
  /\ \A t \in notEmpty \cup notFull : pc[t] = "asleep"

\* Where a thread holds the mutexes; a thread that only tries does not sleep.
HoldsHead(t) ==
  \/ t \in Takers /\ pc[t] \in {"test", "pop", "look", "notify", "unlock", "sleep"}
  \/ pc[t] \in {"close_tail", "close_notify", "close_store"}
HoldsTail(t) ==
  \/ t \in Producers /\ pc[t] \in {"test", "sleep", "check"}
  \/ pc[t] \in {"close_notify", "close_store"}

Locked ==
  \A t \in Threads :
    /\ HoldsHead(t) => headMtx = t
    /\ HoldsTail(t) => tailMtx = t
    /\ pc[t] = "sleep" => t \in Consumers \cup Producers

\* There is a value for the consumer that pops, room for the producer that links.
InBounds ==
  /\ size <= Hwm
  /\ \A c \in Threads : pc[c] = "pop" => c \in Takers /\ size > 0
  /\ \A p \in Threads :
       pc[p] = "check" => p \in Producers /\ (state = "ACTIVE" => size < Hwm)

\* deactivate() has woken everybody before it changes the state, and nobody
\* goes to sleep from then on.
AllAwake ==
  /\ (\E k \in Threads : pc[k] = "close_store") => notEmpty = {} /\ notFull = {}
  /\ state = "DEACTIVE" => /\ notEmpty = {} /\ notFull = {}
                           /\ \A t \in Threads : pc[t] # "sleep"

ChannelInv == Typed /\ Locked /\ InBounds /\ AllAwake

LEMMA ThreadKinds ==
  /\ \A p \in Producers : p \in Threads /\ p \notin Takers /\ p \notin Closers
  /\ \A c \in Takers : c \in Threads /\ c \notin Producers /\ c \notin Closers
  /\ \A k \in Closers : k \in Threads /\ k \notin Producers /\ k \notin Takers
  /\ Consumers \subseteq Takers
  /\ \A t \in Threads : t # Free
  BY RolesApart, FreeIsNoThread DEF Threads, Takers

LEMMA InitChannel == Init => ChannelInv
  BY Watermarks, CallsAreNat
     DEF Init, ChannelInv, Typed, Labels, Locked, HoldsHead, HoldsTail, InBounds, AllAwake

LEMMA PutChannel ==
  ASSUME ChannelInv, NEW p \in Producers, PutLock(p) \/ PutStep(p) \/ PutTimeout(p)
  PROVE  ChannelInv'
<1> USE ThreadKinds, Watermarks, CallsAreNat
    DEF ChannelInv, Typed, Labels, Locked, HoldsHead, HoldsTail, InBounds, AllAwake,
        Goto, Call, mutexes, sleepers, full
<1>1. CASE PutLock(p)
  BY <1>1 DEF PutLock
<1>2. CASE PutTest(p)
  BY <1>2 DEF PutTest
<1>3. CASE PutSleep(p)
  BY <1>3 DEF PutSleep
<1>4. CASE PutWake(p)
  BY <1>4 DEF PutWake
<1>5. CASE PutGiveUp(p) \/ PutTimeout(p)
  BY <1>5 DEF PutGiveUp, PutTimeout
<1>6. CASE PutReject(p)
  BY <1>6 DEF PutReject
<1>7. CASE PutLink(p)
  BY <1>7 DEF PutLink
<1>8. CASE PutNotify(p)
  BY <1>8 DEF PutNotify, WakeGoto, OneOf
<1> QED
  BY <1>1, <1>2, <1>3, <1>4, <1>5, <1>6, <1>7, <1>8 DEF PutStep

LEMMA TakeChannel ==
  ASSUME ChannelInv, NEW c \in Takers, TakeLock(c) \/ TakeStep(c) \/ TakeTimeout(c)
  PROVE  ChannelInv'
<1> USE ThreadKinds, Watermarks, CallsAreNat
    DEF ChannelInv, Typed, Labels, Locked, HoldsHead, HoldsTail, InBounds, AllAwake,
        Goto, Call, mutexes, sleepers
<1>1. CASE TakeLock(c)
  BY <1>1 DEF TakeLock
<1>2. CASE TakeNonEmpty(c)
  BY <1>2 DEF TakeNonEmpty
<1>3. CASE TakePop(c)
  BY <1>3 DEF TakePop
<1>4. CASE TakeEmpty(c)
  BY <1>4 DEF TakeEmpty
<1>5. CASE TakeSleep(c)
  BY <1>5 DEF TakeSleep
<1>6. CASE TakeWake(c)
  BY <1>6 DEF TakeWake
<1>7. CASE TakeGiveUp(c) \/ TakeTimeout(c)
  BY <1>7 DEF TakeGiveUp, TakeTimeout
<1>8. CASE TakeLook(c) \/ TakeUnlock(c)
  BY <1>8 DEF TakeLook, TakeUnlock
<1>9. CASE TakeNotify(c)
  BY <1>9 DEF TakeNotify, WakeGoto, OneOf
<1> QED
  BY <1>1, <1>2, <1>3, <1>4, <1>5, <1>6, <1>7, <1>8, <1>9 DEF TakeStep

LEMMA CloseChannel ==
  ASSUME ChannelInv, NEW k \in Closers, CloseHead(k) \/ CloseStep(k)
  PROVE  ChannelInv'
<1> USE ThreadKinds, Watermarks, CallsAreNat
    DEF ChannelInv, Typed, Labels, Locked, HoldsHead, HoldsTail, InBounds, AllAwake,
        Goto, Call, mutexes, sleepers
<1>1. CASE CloseHead(k)
  BY <1>1 DEF CloseHead
<1>2. CASE CloseTail(k)
  BY <1>2 DEF CloseTail
<1>3. CASE CloseNotify(k)
  BY <1>3 DEF CloseNotify, WakeGoto
<1>4. CASE CloseStore(k)
  BY <1>4 DEF CloseStore
<1> QED
  BY <1>1, <1>2, <1>3, <1>4 DEF CloseStep

LEMMA NextChannel == ChannelInv /\ [Next]_vars => ChannelInv'
<1> SUFFICES ASSUME ChannelInv, [Next]_vars PROVE ChannelInv'
  OBVIOUS
<1>1. CASE UNCHANGED vars
  BY <1>1 DEF vars, mutexes, sleepers, ChannelInv, Typed, Locked, HoldsHead, HoldsTail,
              InBounds, AllAwake
<1> QED
  BY <1>1, PutChannel, TakeChannel, CloseChannel DEF Next

\* The list never outgrows hwm_, and no take() pops from an empty list, whatever
\* the two locks let overlap (bounded_channel.hpp:139-320).
THEOREM StaysInBounds == Spec => [](TypeOK /\ InBounds)
<1>1. ChannelInv => TypeOK /\ InBounds
  BY Watermarks DEF ChannelInv, Typed, Labels, InBounds, TypeOK
<1> QED
  BY <1>1, InitChannel, NextChannel, PTL DEF Spec

\* A closed channel takes nothing more: deactivate() locks what put() holds from
\* its test to its link.
THEOREM ClosedTakesNothing == Spec => NothingEntersLate
<1>1. ASSUME ChannelInv, Next, state = "DEACTIVE" PROVE size' <= size
  <2>1. size \in Nat
    BY <1>1 DEF ChannelInv, Typed
  <2>2. ASSUME NEW p \in Producers, PutLock(p) \/ PutStep(p) \/ PutTimeout(p)
        PROVE  size' = size
    BY <1>1, <2>2 DEF PutLock, PutStep, PutTest, PutSleep, PutWake, PutGiveUp, PutReject,
                      PutLink, PutNotify, PutTimeout
  <2>3. ASSUME NEW c \in Takers, TakeLock(c) \/ TakeStep(c) \/ TakeTimeout(c)
        PROVE  size' \in {size, size - 1}
    BY <2>3 DEF TakeLock, TakeStep, TakeNonEmpty, TakePop, TakeEmpty, TakeSleep, TakeWake,
                TakeGiveUp, TakeLook, TakeNotify, TakeUnlock, TakeTimeout
  <2>4. ASSUME NEW k \in Closers, CloseHead(k) \/ CloseStep(k)
        PROVE  size' = size
    BY <2>4 DEF CloseHead, CloseStep, CloseTail, CloseNotify, CloseStore
  <2> QED
    BY <1>1, <2>1, <2>2, <2>3, <2>4 DEF Next
<1>2. ChannelInv /\ [Next]_vars => [state = "DEACTIVE" => size' <= size]_vars
  BY <1>1
<1> QED
  BY <1>2, InitChannel, NextChannel, PTL DEF Spec, NothingEntersLate

\* Nobody sleeps on a closed channel, not even a thread that was about to sleep
\* when it was closed: deactivate() holds both mutexes from its notify_all() to
\* its store.
THEOREM ClosedWakesAll == Spec => []NobodySleepsClosed
<1>1. ChannelInv => NobodySleepsClosed
  BY DEF ChannelInv, AllAwake, NobodySleepsClosed
<1> QED
  BY <1>1, InitChannel, NextChannel, PTL DEF Spec

----------------------------------------------------------------------------
(* UnboundedChannel.                                                       *)

\* The threads, and those of them that close or put: a thread may do both.
Users == Unbounded!Threads

LEMMA UserKinds ==
  /\ Unbounded!Takers = Takers
  /\ \A p \in Producers : p \in Users /\ p \notin Takers
  /\ \A c \in Takers : c \in Users /\ c \notin Producers /\ c \notin FirstClosers
  /\ \A k \in FirstClosers : k \in Users /\ k \notin Takers
  /\ Consumers \subseteq Takers /\ Consumers \cap Triers = {}
  /\ \A t \in Users : t # Unbounded!Free
  BY UnboundedAssumption
     DEF Users, Unbounded!Threads, Unbounded!Takers, Takers,
         Unbounded!UnboundedChannelConstants

OpenLabels == {"idle", "check", "link", "notify", "test", "sleep", "asleep", "woken",
               "timed_out", "ended", "close_store", "close_notify"}

OpenTyped ==
  /\ state2 \in {"ACTIVE", "DEACTIVE"}
  /\ size2 \in Nat /\ early \in Nat /\ early <= size2
  /\ pc2 \in [Users -> OpenLabels]
  /\ asleep \subseteq Consumers
  /\ \A c \in Users : c \in asleep <=> pc2[c] = "asleep"

\* Where a thread holds head_mtx_.
OpenLocked ==
  \A t \in Users :
    /\ pc2[t] \in {"test", "sleep", "close_store", "close_notify"} => head2 = t
    /\ pc2[t] \in {"sleep", "ended"} => t \in Consumers
    /\ pc2[t] = "test" => t \in Takers
    /\ pc2[t] \in {"close_store", "close_notify"} => t \in FirstClosers

\* A thread that closes wakes everybody before it lets others go to sleep, and
\* whoever has seen the end has seen a closed channel without early values.
OpenClosed ==
  /\ state2 = "DEACTIVE" =>
       \/ \E k \in FirstClosers : pc2[k] = "close_notify"
       \/ asleep = {} /\ \A t \in Users : pc2[t] # "sleep"
  /\ \A t \in Users : pc2[t] = "ended" => state2 = "DEACTIVE" /\ early = 0
  /\ \A t \in Users : pc2[t] = "close_notify" => state2 = "DEACTIVE"

OpenInv == OpenTyped /\ OpenLocked /\ OpenClosed

LEMMA InitOpen == Unbounded!Init => OpenInv
  BY DEF Unbounded!Init, OpenInv, OpenTyped, OpenLabels, OpenLocked, OpenClosed, Users

LEMMA PutOpen ==
  ASSUME OpenInv, NEW p \in Producers, Unbounded!PutLock(p) \/ Unbounded!PutStep(p)
  PROVE  OpenInv'
<1> USE UserKinds DEF OpenInv, OpenTyped, OpenLabels, OpenLocked, OpenClosed, Unbounded!Goto
<1>1. CASE Unbounded!PutLock(p)
  BY <1>1 DEF Unbounded!PutLock
<1>2. CASE Unbounded!PutCheck(p)
  BY <1>2 DEF Unbounded!PutCheck
<1>3. CASE Unbounded!PutLink(p)
  BY <1>3 DEF Unbounded!PutLink
<1>4. CASE Unbounded!PutNotify(p)
  BY <1>4 DEF Unbounded!PutNotify, Unbounded!WakeGoto, Users
<1> QED
  BY <1>1, <1>2, <1>3, <1>4 DEF Unbounded!PutStep

LEMMA TakeOpen ==
  ASSUME OpenInv, NEW c \in Takers,
         Unbounded!TakeLock(c) \/ Unbounded!TakeStep(c) \/ Unbounded!TakeTimeout(c)
  PROVE  OpenInv'
<1> USE UserKinds DEF OpenInv, OpenTyped, OpenLabels, OpenLocked, OpenClosed, Unbounded!Goto
<1>1. CASE Unbounded!TakeLock(c)
  BY <1>1 DEF Unbounded!TakeLock
<1>2. CASE Unbounded!TakePop(c)
  BY <1>2 DEF Unbounded!TakePop
<1>3. CASE Unbounded!TakeEnds(c)
  BY <1>3 DEF Unbounded!TakeEnds
<1>4. CASE Unbounded!TryFails(c)
  BY <1>4 DEF Unbounded!TryFails
<1>5. CASE Unbounded!TakeEmpty(c)
  BY <1>5 DEF Unbounded!TakeEmpty
<1>6. CASE Unbounded!TakeSleep(c)
  BY <1>6 DEF Unbounded!TakeSleep
<1>7. CASE Unbounded!TakeWake(c)
  BY <1>7 DEF Unbounded!TakeWake
<1>8. CASE Unbounded!TakeTimeout(c) \/ Unbounded!TakeGiveUp(c)
  BY <1>8 DEF Unbounded!TakeTimeout, Unbounded!TakeGiveUp
<1> QED
  BY <1>1, <1>2, <1>3, <1>4, <1>5, <1>6, <1>7, <1>8 DEF Unbounded!TakeStep

LEMMA CloseOpen ==
  ASSUME OpenInv, NEW k \in FirstClosers, Unbounded!CloseLock(k) \/ Unbounded!CloseStep(k)
  PROVE  OpenInv'
<1> USE UserKinds DEF OpenInv, OpenTyped, OpenLabels, OpenLocked, OpenClosed, Unbounded!Goto
<1>1. CASE Unbounded!CloseLock(k)
  BY <1>1 DEF Unbounded!CloseLock
<1>2. CASE Unbounded!CloseStore(k)
  BY <1>2 DEF Unbounded!CloseStore
<1>3. CASE Unbounded!CloseNotify(k)
  BY <1>3 DEF Unbounded!CloseNotify, Unbounded!WakeGoto, Users
<1> QED
  BY <1>1, <1>2, <1>3 DEF Unbounded!CloseStep

LEMMA NextOpen == OpenInv /\ [Unbounded!Next]_(Unbounded!vars) => OpenInv'
<1> SUFFICES ASSUME OpenInv, [Unbounded!Next]_(Unbounded!vars) PROVE OpenInv'
  OBVIOUS
<1>1. CASE UNCHANGED Unbounded!vars
  BY <1>1 DEF Unbounded!vars, OpenInv, OpenTyped, OpenLocked, OpenClosed
<1> QED
  BY <1>1, PutOpen, TakeOpen, CloseOpen, UserKinds DEF Unbounded!Next

\* A take() that reports the end leaves nothing that was put before the channel
\* was closed, whoever puts, takes and closes (unbounded_channel.hpp:70-210).
THEOREM EndIsDrained == Unbounded!Spec => []EndMeansDrained
<1>1. OpenInv => EndMeansDrained
  BY UserKinds DEF OpenInv, OpenClosed, EndMeansDrained, Unbounded!EndMeansDrained
<1> QED
  BY <1>1, InitOpen, NextOpen, PTL DEF Unbounded!Spec

\* Once deactivate() is through nobody sleeps: a consumer tests the state and goes
\* to sleep with head_mtx_ locked, and so does deactivate() change and notify.
THEOREM EndWakesAll == Unbounded!Spec => []NobodySleepsAtTheEnd
<1>1. OpenInv => NobodySleepsAtTheEnd
  BY DEF OpenInv, OpenClosed, NobodySleepsAtTheEnd, Unbounded!NobodySleepsClosed
<1> QED
  BY <1>1, InitOpen, NextOpen, PTL DEF Unbounded!Spec

=============================================================================
