-------------------------- MODULE SpinEventsProofs --------------------------
(***************************************************************************)
(* The objects of MCSpinEvents for every number of threads: Barrier, whose *)
(* count is right and which, with no more threads than it is for, leaves   *)
(* nobody behind; CountDownEvent with at most as many calls of set() as it *)
(* counts, for every width of the counter; AutoResetEvent; and the lock of *)
(* ManualResetEvent, which always has somebody to unlock it.               *)
(***************************************************************************)
EXTENDS MCSpinEvents, FiniteSetTheorems, TLAPS

----------------------------------------------------------------------------
(* Barrier.                                                                *)

Typed ==
  /\ current \in Int
  /\ cycle \in BOOLEAN
  /\ pc \in [Threads -> {"idle", "asleep", "woken"}]
  /\ seen \in [Threads -> BOOLEAN]
  /\ batch \in Nat
  /\ joined \in [Threads -> Nat]

\* Nobody is in a batch to come, and whoever is woken was in an earlier one.
JoinedBefore ==
  \A t \in Threads : joined[t] <= batch /\ (pc[t] = "woken" => joined[t] < batch)

CInv == Typed /\ JoinedBefore /\ CountsMembers

\* The cycle that a thread has seen tells its batch from the next one.
CycleTells ==
  \A t \in Threads :
    /\ pc[t] = "asleep" => seen[t] = cycle
    /\ pc[t] = "woken" => seen[t] # cycle

IInv == CInv /\ NobodyLeftBehind /\ CycleTells

----------------------------------------------------------------------------
LEMMA MembersFinite == IsFiniteSet(Members) /\ Cardinality(Members) \in Nat
  BY FiniteThreads, FS_Subset, FS_CardinalityType DEF Members

LEMMA InitCInv == Init => CInv
<1> SUFFICES ASSUME Init PROVE CInv
  OBVIOUS
<1>1. Members = {} /\ Cardinality({}) = 0
  BY FS_EmptySet DEF Init, Members
<1> QED
  BY <1>1, SizePositive DEF Init, CInv, Typed, JoinedBefore, CountsMembers

\* The count is right whatever the threads do.
LEMMA NextCInv == CInv /\ [Next]_vars => CInv'
<1> SUFFICES ASSUME CInv, [Next]_vars PROVE CInv'
  OBVIOUS
<1> USE DEF CInv, Typed
<1>1. CASE UNCHANGED vars
  BY <1>1 DEF vars, JoinedBefore, CountsMembers, Members
<1>2. ASSUME NEW t \in Threads, Complete(t) PROVE CInv'
  <2>1. Members' = {} /\ Cardinality({}) = 0
    BY <1>2, FS_EmptySet DEF Complete, Members
  <2>2. current' = Size /\ Size \in Int
    BY <1>2, SizePositive DEF Complete
  <2>3. CountsMembers'
    BY <2>1, <2>2 DEF CountsMembers
  <2>4. JoinedBefore'
    BY <1>2 DEF Complete, JoinedBefore
  <2> QED
    BY <1>2, <2>2, <2>3, <2>4 DEF Complete
<1>3. ASSUME NEW t \in Threads, Join(t) PROVE CInv'
  <2>1. Members' = Members \cup {t} /\ t \notin Members
    BY <1>3 DEF Join, Members
  <2>2. Cardinality(Members') = Cardinality(Members) + 1
    BY <2>1, MembersFinite, FS_AddElement
  <2>3. current' = current - 1
    BY <1>3 DEF Join
  <2>4. CountsMembers'
    BY <2>2, <2>3, MembersFinite, SizePositive DEF CountsMembers
  <2>5. JoinedBefore'
    BY <1>3 DEF Join, JoinedBefore
  <2> QED
    BY <1>3, <2>4, <2>5 DEF Join
<1>4. ASSUME NEW t \in Threads, Wake(t) PROVE CInv'
  <2>1. Members' = Members
    BY <1>4 DEF Wake, Members, JoinedBefore
  <2>2. CountsMembers'
    BY <1>4, <2>1 DEF Wake, CountsMembers
  <2>3. JoinedBefore'
    BY <1>4 DEF Wake, JoinedBefore
  <2> QED
    BY <1>4, <2>2, <2>3 DEF Wake
<1> QED
  BY <1>1, <1>2, <1>3, <1>4 DEF Next

\* current_ counts the threads still to come for every size of the barrier and
\* every number of threads, those of earlier batches included that have not yet
\* left (barrier.cpp:28-38).
THEOREM CountIsRight == Spec => []CountsMembers
<1>1. CInv => CountsMembers
  BY DEF CInv
<1> QED
  BY InitCInv, NextCInv, <1>1, PTL DEF Spec

----------------------------------------------------------------------------
\* When the last thread comes, all others of a small crowd sleep for this batch.
LEMMA AllOthersSleep ==
  ASSUME Cardinality(Threads) <= Size, IInv, NEW t \in Threads, Complete(t)
  PROVE  \A u \in Threads \ {t} : pc[u] = "asleep"
<1>1. Members \subseteq Threads \ {t}
  BY DEF Complete, Members
<1>2. Cardinality(Members) = Size - 1
  BY MembersFinite, SizePositive DEF Complete, IInv, CInv, CountsMembers
<1>3. IsFiniteSet(Threads \ {t}) /\ Cardinality(Threads \ {t}) = Cardinality(Threads) - 1
  BY FiniteThreads, FS_RemoveElement
<1>4. /\ Cardinality(Members) <= Cardinality(Threads \ {t})
      /\ Cardinality(Members) = Cardinality(Threads \ {t}) => Members = Threads \ {t}
  BY <1>1, <1>3, FS_Subset
<1>5. Cardinality(Threads) \in Nat
  BY FiniteThreads, FS_CardinalityType
<1>6. Members = Threads \ {t}
  BY <1>2, <1>3, <1>4, <1>5, SizePositive
<1> QED
  BY <1>6 DEF Members

LEMMA NextIInv ==
  ASSUME Cardinality(Threads) <= Size, IInv, [Next]_vars
  PROVE  IInv'
<1>1. CInv'
  BY NextCInv DEF IInv
<1> USE DEF IInv, CInv, Typed
<1>2. CASE UNCHANGED vars
  BY <1>1, <1>2 DEF vars, NobodyLeftBehind, CycleTells
<1>3. ASSUME NEW t \in Threads, Complete(t) PROVE IInv'
  <2>1. \A u \in Threads \ {t} : pc[u] = "asleep"
    BY <1>3, AllOthersSleep
  <2>2. \A u \in Threads : pc'[u] # "asleep"
    BY <1>3 DEF Complete
  <2>3. \A u \in Threads : pc'[u] = "woken" => seen'[u] # cycle'
    BY <1>3, <2>1 DEF Complete, CycleTells
  <2> QED
    BY <1>1, <2>2, <2>3 DEF NobodyLeftBehind, CycleTells
<1>4. ASSUME NEW t \in Threads, Join(t) PROVE IInv'
  BY <1>1, <1>4 DEF Join, NobodyLeftBehind, CycleTells
<1>5. ASSUME NEW t \in Threads, Wake(t) PROVE IInv'
  BY <1>1, <1>5 DEF Wake, NobodyLeftBehind, CycleTells
<1> QED
  BY <1>2, <1>3, <1>4, <1>5 DEF Next

\* With no more threads than the barrier is for, no thread of a complete batch
\* goes back to sleep: the two values of cycle_ are enough (barrier.cpp:30, :37).
THEOREM NobodyStays ==
  ASSUME Cardinality(Threads) <= Size
  PROVE  Spec => []NobodyLeftBehind
<1>1. Init => IInv
  BY InitCInv DEF Init, IInv, NobodyLeftBehind, CycleTells
<1>2. IInv /\ [Next]_vars => IInv'
  BY NextIInv
<1>3. IInv => NobodyLeftBehind
  BY DEF IInv
<1> QED
  BY <1>1, <1>2, <1>3, PTL DEF Spec

----------------------------------------------------------------------------
(* CountDownEvent.                                                         *)

\* The instance counts as this module does.
LEMMA CountDownCounts ==
  ASSUME NEW S
  PROVE  /\ CountDown!Cardinality(S) = Cardinality(S)
         /\ CountDown!IsFiniteSet(S) <=> IsFiniteSet(S)
  BY DEF Cardinality, CountDown!Cardinality, IsFiniteSet, CountDown!IsFiniteSet

CallLabels == {"call", "look", "reload", "cas", "wait", "done"}

CountTyped ==
  /\ count \in Int
  /\ countPc \in [Calls \cup CountWaiters -> CallLabels]

CountInv == CountTyped /\ CountDown!EveryCallCounts

----------------------------------------------------------------------------
\* The calls that returned are some of the calls.
LEMMA DoneFinite ==
  ASSUME CountDown!CountDownConstants
  PROVE  IsFiniteSet(CountDown!Done) /\ Cardinality(CountDown!Done) \in Nat
  BY FS_Subset, FS_CardinalityType, CountDownCounts
     DEF CountDown!Done, CountDown!CountDownConstants

\* While a call is under way the count is positive.
LEMMA CountPositive ==
  ASSUME CountDown!CountDownConstants, Cardinality(Calls) <= Initial, CountInv,
         NEW c \in Calls, countPc[c] # "done"
  PROVE  count \in 1 .. Initial
<1>1. CountDown!Done \subseteq Calls /\ c \notin CountDown!Done
  BY DEF CountDown!Done
<1>2. Cardinality(CountDown!Done) < Cardinality(Calls)
  <2>1. Cardinality(CountDown!Done) <= Cardinality(Calls)
        /\ (Cardinality(CountDown!Done) = Cardinality(Calls) => CountDown!Done = Calls)
    BY <1>1, FS_Subset, CountDownCounts DEF CountDown!CountDownConstants
  <2>2. Cardinality(Calls) \in Nat /\ Cardinality(CountDown!Done) \in Nat
    BY FS_CardinalityType, DoneFinite, CountDownCounts DEF CountDown!CountDownConstants
  <2> QED
    BY <1>1, <2>1, <2>2
<1>3. Cardinality(Calls) \in Nat /\ Cardinality(CountDown!Done) \in Nat
  BY FS_CardinalityType, DoneFinite, CountDownCounts DEF CountDown!CountDownConstants
<1> QED
  BY <1>2, <1>3, CountDownCounts
     DEF CountInv, CountDown!EveryCallCounts, CountDown!CountDownConstants

\* A positive count is counted down without a wrap.
LEMMA BelowPositive ==
  ASSUME CountDown!CountDownConstants, NEW n \in 1 .. Initial
  PROVE  CountDown!Below(n) = n - 1
  BY DEF CountDown!Below, CountDown!CountDownConstants

\* A call that returns joins those that have returned.
LEMMA OneMoreDone ==
  ASSUME CountDown!CountDownConstants, NEW c \in Calls, CountTyped, countPc[c] # "done",
         CountDown!Goto(c, "done")
  PROVE  Cardinality(CountDown!Done') = Cardinality(CountDown!Done) + 1
<1>1. CountDown!Done' = CountDown!Done \cup {c} /\ c \notin CountDown!Done
  BY DEF CountDown!Done, CountDown!Goto, CountTyped
<1> QED
  BY <1>1, DoneFinite, FS_AddElement

\* Any other step of a call leaves them alone.
LEMMA SameDone ==
  ASSUME CountDown!CountDownConstants, NEW t \in Calls \cup CountWaiters, NEW label,
         CountTyped, CountDown!Goto(t, label),
         t \in Calls => countPc[t] # "done" /\ label # "done"
  PROVE  CountDown!Done' = CountDown!Done
  BY DEF CountDown!Done, CountDown!Goto, CountTyped, CountDown!CountDownConstants

LEMMA InitCountInv ==
  ASSUME CountDown!CountDownConstants, CountDown!Init
  PROVE  CountInv
<1>1. CountDown!Done = {}
  BY DEF CountDown!Init, CountDown!Done
<1>2. Cardinality({}) = 0
  BY FS_EmptySet
<1> QED
  BY <1>1, <1>2, CountDownCounts
     DEF CountDown!Init, CountInv, CountTyped, CallLabels, CountDown!EveryCallCounts,
         CountDown!CountDownConstants

LEMMA NextCountInv ==
  ASSUME CountDown!CountDownConstants, Cardinality(Calls) <= Initial, CountInv,
         [CountDown!Next]_CountDown!vars
  PROVE  CountInv'
<1>1. CASE UNCHANGED CountDown!vars
  BY <1>1
     DEF CountDown!vars, CountInv, CountTyped, CountDown!EveryCallCounts, CountDown!Done
<1>2. ASSUME NEW c \in Calls, CountDown!SetCall(c) \/ CountDown!SetRuns(c) PROVE CountInv'
  <2>1. CASE CountDown!SetCall(c)
    <3>1. CountDown!Done' = CountDown!Done /\ count' = count
      BY <2>1, SameDone DEF CountDown!SetCall, CountInv
    <3> QED
      BY <2>1, <3>1
         DEF CountDown!SetCall, CountDown!Goto, CountInv, CountTyped, CallLabels,
             CountDown!EveryCallCounts
  <2>2. CASE CountDown!SetLook(c)
    <3>1. count # 0
      BY <2>2, CountPositive DEF CountDown!SetLook
    <3>2. CountDown!Done' = CountDown!Done /\ count' = count
      BY <2>2, <3>1, SameDone DEF CountDown!SetLook, CountInv
    <3> QED
      BY <2>2, <3>2
         DEF CountDown!SetLook, CountDown!Goto, CountInv, CountTyped, CallLabels,
             CountDown!EveryCallCounts
  <2>3. CASE CountDown!SetReload(c)
    <3>1. CountDown!Done' = CountDown!Done /\ count' = count
      BY <2>3, SameDone DEF CountDown!SetReload, CountInv
    <3> QED
      BY <2>3, <3>1
         DEF CountDown!SetReload, CountDown!Goto, CountInv, CountTyped, CallLabels,
             CountDown!EveryCallCounts
  <2>4. CASE CountDown!SetCas(c)
    <3>1. CASE count = expected[c]
      <4>1. /\ count' = CountDown!Below(count)
            /\ CountDown!Goto(c, "done") /\ countPc[c] = "cas"
        BY <2>4, <3>1 DEF CountDown!SetCas
      <4>2. count' = count - 1
        BY <4>1, CountPositive, BelowPositive
      <4>3. Cardinality(CountDown!Done') = Cardinality(CountDown!Done) + 1
        BY <4>1, OneMoreDone DEF CountInv
      <4>4. count' \in Int /\ CountDown!EveryCallCounts'
        BY <4>2, <4>3, DoneFinite, CountDownCounts
           DEF CountInv, CountTyped, CountDown!EveryCallCounts,
               CountDown!CountDownConstants
      <4> QED
        BY <4>1, <4>4 DEF CountDown!Goto, CountInv, CountTyped, CallLabels
    <3>2. CASE count # expected[c]
      <4>1. CountDown!Goto(c, "look") /\ count' = count /\ countPc[c] = "cas"
        BY <2>4, <3>2 DEF CountDown!SetCas
      <4>2. CountDown!Done' = CountDown!Done
        BY <4>1, SameDone DEF CountInv
      <4> QED
        BY <4>1, <4>2
           DEF CountDown!Goto, CountInv, CountTyped, CallLabels,
               CountDown!EveryCallCounts
    <3> QED
      BY <3>1, <3>2
  <2> QED
    BY <1>2, <2>1, <2>2, <2>3, <2>4 DEF CountDown!SetRuns
<1>3. ASSUME NEW w \in CountWaiters, CountDown!WaitEnds(w) PROVE CountInv'
  <2>1. CountDown!Done' = CountDown!Done /\ count' = count
    BY <1>3, SameDone DEF CountDown!WaitEnds, CountInv, CountDown!CountDownConstants
  <2> QED
    BY <1>3, <2>1
       DEF CountDown!WaitEnds, CountDown!Goto, CountInv, CountTyped, CallLabels,
           CountDown!EveryCallCounts
<1> QED
  BY <1>1, <1>2, <1>3 DEF CountDown!Next

\* With no more calls than the event counts, every set() that has returned has
\* counted, whatever the interleaving of its two loads and its exchange with
\* those of the others (count_down_event.cpp:36-46).
THEOREM CallsCount ==
  ASSUME CountDown!CountDownConstants, Cardinality(Calls) <= Initial
  PROVE  CountDown!Spec => []CountDown!EveryCallCounts
<1>1. CountDown!Init => CountInv
  BY InitCountInv
<1>2. CountInv /\ [CountDown!Next]_CountDown!vars => CountInv'
  BY NextCountInv
<1>3. CountInv => CountDown!EveryCallCounts
  BY DEF CountInv
<1> QED
  BY <1>1, <1>2, <1>3, PTL DEF CountDown!Spec

\* And the count never wraps: an event that is set stays set.
THEOREM StaysSignaled ==
  ASSUME CountDown!CountDownConstants, Cardinality(Calls) <= Initial
  PROVE  CountDown!Spec => CountDown!RemainsSignaled
<1>1. CountInv /\ [CountDown!Next]_CountDown!vars
            => [count = 0 => count' = 0]_CountDown!vars
  <2> SUFFICES ASSUME CountInv, [CountDown!Next]_CountDown!vars, count = 0
               PROVE  count' = 0
    OBVIOUS
  <2>1. \A c \in Calls : countPc[c] = "done"
    BY CountPositive
  <2> QED
    BY <2>1
       DEF CountDown!Next, CountDown!SetRuns, CountDown!SetCall, CountDown!SetLook,
           CountDown!SetReload, CountDown!SetCas, CountDown!WaitEnds, CountDown!vars
<1>2. CountInv /\ [CountDown!Next]_CountDown!vars => CountInv'
  BY NextCountInv
<1>3. CountDown!Init => CountInv
  BY InitCountInv
<1> QED
  BY <1>1, <1>2, <1>3, PTL DEF CountDown!Spec, CountDown!RemainsSignaled

----------------------------------------------------------------------------
(* AutoResetEvent.                                                         *)

\* Every signal of the auto-reset event is seen by one call of wait() and stays
\* until it is, for every number of threads that poll, set and leave
\* (auto_reset_event.cpp:24-82): the exchange resets the event in the step that
\* sees it.
THEOREM SignalsAreSeen == AutoReset!Spec => []OneCallPerSignal
<1> DEFINE Inv == AutoReset!TypeOK /\ AutoReset!OneCallPerSignal
<1> USE DEF AutoReset!TypeOK, AutoReset!OneCallPerSignal
<1>1. ASSUME AutoReset!AutoResetConstants PROVE AutoReset!Init => Inv
  BY <1>1 DEF AutoReset!Init, AutoReset!AutoResetConstants
<1>2. ASSUME Inv, [AutoReset!Next]_(AutoReset!vars) PROVE Inv'
  <2>1. ASSUME NEW s \in Setters, AutoReset!Set(s) PROVE Inv'
    BY <1>2, <2>1, AutoResetAssumption DEF AutoReset!Set, AutoReset!AutoResetConstants
  <2>2. ASSUME NEW w \in EventWaiters, AutoReset!Call(w) \/ AutoReset!Leave(w) PROVE Inv'
    BY <1>2, <2>2 DEF AutoReset!Call, AutoReset!Leave
  <2>3. ASSUME NEW w \in EventWaiters, AutoReset!Take(w) PROVE Inv'
    BY <1>2, <2>3 DEF AutoReset!Take
  <2>4. CASE UNCHANGED AutoReset!vars
    BY <1>2, <2>4 DEF AutoReset!vars
  <2> QED
    BY <1>2, <2>1, <2>2, <2>3, <2>4 DEF AutoReset!Next
<1> QED
  BY <1>1, <1>2, AutoResetAssumption, PTL DEF AutoReset!Spec, OneCallPerSignal

----------------------------------------------------------------------------
(* ManualResetEvent.                                                       *)

EventLabels == {"idle", "set_cas", "set_look", "reset_store", "unlock",
                "count", "enter_unlock", "spin", "leave", "last"}

EventTyped ==
  /\ state \in {"SET", "RESET"}
  /\ waiters \in Nat /\ stranded \in Nat
  /\ eventPc \in [ManualReset!Callers -> EventLabels]

\* The threads that have counted themselves and not counted down again.
Inside == {t \in ManualReset!Counted : eventPc[t] \in {"enter_unlock", "spin", "leave"}}

InsideCounted == waiters = Cardinality(Inside) + stranded

\* Between lock and unlock, but for a set() that may leave the lock to the waiters.
Unlocking(t) ==
  eventPc[t] \in {"set_cas", "reset_store", "unlock", "count", "enter_unlock", "last"}

Covered ==
  enterMtx =>
    \/ \E t \in ManualReset!Callers : Unlocking(t)
    \/ /\ state = "SET"
       /\ waiters > 0 \/ \E t \in ManualReset!Callers : eventPc[t] = "set_look"

EventInv == EventTyped /\ InsideCounted /\ Covered

\* The instance counts as this module does.
LEMMA ManualResetFinite ==
  ASSUME NEW S
  PROVE  /\ ManualReset!Cardinality(S) = Cardinality(S)
         /\ ManualReset!IsFiniteSet(S) <=> IsFiniteSet(S)
  BY DEF Cardinality, ManualReset!Cardinality, IsFiniteSet, ManualReset!IsFiniteSet

LEMMA InsideFinite ==
  /\ ManualReset!Counted \subseteq ManualReset!Callers
  /\ IsFiniteSet(Inside) /\ Cardinality(Inside) \in Nat
<1>1. IsFiniteSet(ManualReset!Counted)
  BY ManualResetAssumption, ManualResetFinite
  DEF ManualReset!ManualResetConstants, ManualReset!Counted
<1> QED
  BY <1>1, FS_Subset, FS_CardinalityType
  DEF Inside, ManualReset!Counted, ManualReset!Callers

LEMMA InitEventInv == ManualReset!Init => EventInv
<1> SUFFICES ASSUME ManualReset!Init PROVE EventInv
  OBVIOUS
<1>1. EventTyped /\ ~ enterMtx /\ waiters = 0 /\ stranded = 0
  BY DEF ManualReset!Init, EventTyped, EventLabels
<1>2. Inside = {}
  BY DEF ManualReset!Init, Inside, ManualReset!Callers
<1>3. InsideCounted
  BY <1>1, <1>2, FS_EmptySet DEF InsideCounted
<1> QED
  BY <1>1, <1>3 DEF EventInv, Covered

\* A step of one thread that leaves the count alone.
LEMMA SameInside ==
  ASSUME EventInv, NEW t \in ManualReset!Callers, UNCHANGED <<waiters, stranded>>,
         NEW label \in EventLabels, eventPc' = [eventPc EXCEPT ![t] = label],
         eventPc[t] \in {"enter_unlock", "spin", "leave"}
           <=> label \in {"enter_unlock", "spin", "leave"}
  PROVE  InsideCounted'
<1>1. eventPc \in [ManualReset!Callers -> EventLabels]
  BY DEF EventInv, EventTyped
<1>2. Inside' = Inside
  BY <1>1, InsideFinite DEF Inside
<1> QED
  BY <1>2 DEF EventInv, InsideCounted

\* A step of a thread that unlocks nothing leaves the duty to unlock where it is.
LEMMA OthersUnlock ==
  ASSUME EventInv, NEW t \in ManualReset!Callers, NEW label \in EventLabels,
         eventPc[t] \in {"spin", "leave"}, eventPc' = [eventPc EXCEPT ![t] = label],
         UNCHANGED <<state, waiters, enterMtx>>
  PROVE  Covered'
<1>1. eventPc \in [ManualReset!Callers -> EventLabels] /\ Covered
  BY DEF EventInv, EventTyped
<1>2. \A u \in ManualReset!Callers :
        /\ Unlocking(u) => Unlocking(u)'
        /\ eventPc[u] = "set_look" => eventPc'[u] = "set_look"
  BY <1>1 DEF Unlocking
<1> QED
  BY <1>1, <1>2 DEF Covered

\* set(), reset().
LEMMA ControlKeeps ==
  ASSUME EventInv, NEW c \in Controllers,
         \/ ManualReset!SetLock(c) \/ ManualReset!ResetLock(c)
         \/ ManualReset!ControlStep(c)
  PROVE  EventInv'
<1>1. c \in ManualReset!Callers /\ EventTyped /\ Covered
      /\ eventPc \in [ManualReset!Callers -> EventLabels]
  BY DEF ManualReset!Callers, EventInv, EventTyped
<1>2. CASE ManualReset!SetLock(c)
  <2>1. /\ eventPc[c] = "idle" /\ eventPc' = [eventPc EXCEPT ![c] = "set_cas"]
        /\ UNCHANGED <<state, waiters, stranded>>
    BY <1>2 DEF ManualReset!SetLock, ManualReset!LockEnter, ManualReset!Goto
  <2>2. InsideCounted'
    BY <1>1, <2>1, SameInside DEF EventLabels
  <2>3. EventTyped'
    BY <1>1, <2>1 DEF EventTyped, EventLabels
  <2>4. Covered'
    BY <1>1, <2>1 DEF Covered, Unlocking
  <2> QED
    BY <2>2, <2>3, <2>4 DEF EventInv
<1>3. CASE ManualReset!ResetLock(c)
  <2>1. /\ eventPc[c] = "idle" /\ eventPc' = [eventPc EXCEPT ![c] = "reset_store"]
        /\ UNCHANGED <<state, waiters, stranded>>
    BY <1>3 DEF ManualReset!ResetLock, ManualReset!LockEnter, ManualReset!Goto
  <2>2. InsideCounted'
    BY <1>1, <2>1, SameInside DEF EventLabels
  <2>3. EventTyped'
    BY <1>1, <2>1 DEF EventTyped, EventLabels
  <2>4. Covered'
    BY <1>1, <2>1 DEF Covered, Unlocking
  <2> QED
    BY <2>2, <2>3, <2>4 DEF EventInv
<1>4. CASE ManualReset!SetCas(c)
  <2>1. PICK l \in {"set_look", "unlock"} : eventPc' = [eventPc EXCEPT ![c] = l]
    BY <1>4 DEF ManualReset!SetCas, ManualReset!Goto
  <2>2. eventPc[c] = "set_cas" /\ state' = "SET" /\ UNCHANGED <<waiters, stranded>>
    BY <1>4 DEF ManualReset!SetCas
  <2>3. InsideCounted'
    BY <1>1, <2>1, <2>2, SameInside DEF EventLabels
  <2>4. EventTyped'
    BY <1>1, <2>1, <2>2 DEF EventTyped, EventLabels
  <2>5. Covered'
    BY <1>1, <2>1, <2>2 DEF Covered, Unlocking
  <2> QED
    BY <2>3, <2>4, <2>5 DEF EventInv
<1>5. CASE ManualReset!SetLook(c)
  <2>1. /\ eventPc[c] = "set_look" /\ UNCHANGED <<state, waiters, stranded, enterMtx>>
        /\ eventPc' = [eventPc EXCEPT ![c] = IF waiters = 0 THEN "unlock" ELSE "idle"]
    BY <1>5 DEF ManualReset!SetLook, ManualReset!Goto
  <2>2. CASE waiters = 0
    <3>1. eventPc' = [eventPc EXCEPT ![c] = "unlock"]
      BY <2>1, <2>2
    <3>2. InsideCounted'
      BY <1>1, <2>1, <3>1, SameInside DEF EventLabels
    <3>3. EventTyped'
      BY <1>1, <2>1, <3>1 DEF EventTyped, EventLabels
    <3>4. Covered'
      BY <1>1, <3>1 DEF Covered, Unlocking
    <3> QED
      BY <3>2, <3>3, <3>4 DEF EventInv
  <2>3. CASE waiters # 0
    <3>1. eventPc' = [eventPc EXCEPT ![c] = "idle"] /\ waiters > 0
      BY <1>1, <2>1, <2>3 DEF EventTyped
    <3>2. InsideCounted'
      BY <1>1, <2>1, <3>1, SameInside DEF EventLabels
    <3>3. EventTyped'
      BY <1>1, <2>1, <3>1 DEF EventTyped, EventLabels
    <3>4. \A t \in ManualReset!Callers : Unlocking(t) => Unlocking(t)'
      BY <1>1, <2>1, <3>1 DEF Unlocking
    <3>5. Covered'
      BY <1>1, <2>1, <3>1, <3>4 DEF Covered
    <3> QED
      BY <3>2, <3>3, <3>5 DEF EventInv
  <2> QED
    BY <2>2, <2>3
<1>6. CASE ManualReset!ResetStore(c)
  <2>1. /\ eventPc[c] = "reset_store" /\ eventPc' = [eventPc EXCEPT ![c] = "unlock"]
        /\ state' = "RESET" /\ UNCHANGED <<waiters, stranded>>
    BY <1>6 DEF ManualReset!ResetStore, ManualReset!Goto
  <2>2. InsideCounted'
    BY <1>1, <2>1, SameInside DEF EventLabels
  <2>3. EventTyped'
    BY <1>1, <2>1 DEF EventTyped, EventLabels
  <2>4. Covered'
    BY <1>1, <2>1 DEF Covered, Unlocking
  <2> QED
    BY <2>2, <2>3, <2>4 DEF EventInv
<1>7. CASE ManualReset!Unlock(c)
  <2>1. /\ eventPc[c] = "unlock" /\ eventPc' = [eventPc EXCEPT ![c] = "idle"]
        /\ enterMtx' = FALSE /\ UNCHANGED <<state, waiters, stranded>>
    BY <1>7 DEF ManualReset!Unlock, ManualReset!Goto
  <2>2. InsideCounted'
    BY <1>1, <2>1, SameInside DEF EventLabels
  <2>3. EventTyped'
    BY <1>1, <2>1 DEF EventTyped, EventLabels
  <2> QED
    BY <2>1, <2>2, <2>3 DEF EventInv, Covered
<1> QED
  BY <1>2, <1>3, <1>4, <1>5, <1>6, <1>7 DEF ManualReset!ControlStep

\* wait() and try_wait().
LEMMA WaitKeeps ==
  ASSUME EventInv, NEW t \in ManualReset!Counted,
         ManualReset!EnterLock(t) \/ ManualReset!WaitStep(t) \/ ManualReset!Interrupt(t)
  PROVE  EventInv'
<1>1. t \in ManualReset!Callers /\ EventTyped /\ InsideCounted /\ Covered
      /\ eventPc \in [ManualReset!Callers -> EventLabels]
      /\ waiters \in Nat /\ stranded \in Nat
  BY InsideFinite DEF EventInv, EventTyped
<1>2. CASE ManualReset!EnterLock(t)
  <2>1. /\ eventPc[t] = "idle" /\ eventPc' = [eventPc EXCEPT ![t] = "count"]
        /\ UNCHANGED <<state, waiters, stranded>>
    BY <1>2 DEF ManualReset!EnterLock, ManualReset!LockEnter, ManualReset!Goto
  <2>2. InsideCounted'
    BY <1>1, <2>1, SameInside DEF EventLabels
  <2>3. EventTyped'
    BY <1>1, <2>1 DEF EventTyped, EventLabels
  <2>4. Covered'
    BY <1>1, <2>1 DEF Covered, Unlocking
  <2> QED
    BY <2>2, <2>3, <2>4 DEF EventInv
<1>3. CASE ManualReset!Count(t)
  <2>1. /\ eventPc[t] = "count" /\ eventPc' = [eventPc EXCEPT ![t] = "enter_unlock"]
        /\ waiters' = waiters + 1 /\ UNCHANGED <<state, stranded>>
    BY <1>3 DEF ManualReset!Count, ManualReset!Goto
  <2>2. Inside' = Inside \cup {t} /\ t \notin Inside
    BY <1>1, <2>1, InsideFinite DEF Inside
  <2>3. Cardinality(Inside)' = Cardinality(Inside) + 1
    BY <2>2, InsideFinite, FS_AddElement
  <2>4. InsideCounted'
    BY <1>1, <2>1, <2>3, InsideFinite DEF InsideCounted
  <2>5. EventTyped'
    BY <1>1, <2>1 DEF EventTyped, EventLabels
  <2>6. Covered'
    BY <1>1, <2>1 DEF Covered, Unlocking
  <2> QED
    BY <2>4, <2>5, <2>6 DEF EventInv
<1>4. CASE ManualReset!EnterUnlock(t)
  <2>1. /\ eventPc[t] = "enter_unlock" /\ eventPc' = [eventPc EXCEPT ![t] = "spin"]
        /\ enterMtx' = FALSE /\ UNCHANGED <<state, waiters, stranded>>
    BY <1>4 DEF ManualReset!EnterUnlock, ManualReset!Goto
  <2>2. InsideCounted'
    BY <1>1, <2>1, SameInside DEF EventLabels
  <2>3. EventTyped'
    BY <1>1, <2>1 DEF EventTyped, EventLabels
  <2> QED
    BY <2>1, <2>2, <2>3 DEF EventInv, Covered
<1>5. CASE ManualReset!See(t)
  <2>1. /\ eventPc[t] = "spin" /\ eventPc' = [eventPc EXCEPT ![t] = "leave"]
        /\ UNCHANGED <<state, waiters, stranded, enterMtx>>
    BY <1>5 DEF ManualReset!See, ManualReset!Goto
  <2>2. InsideCounted'
    BY <1>1, <2>1, SameInside DEF EventLabels
  <2>3. EventTyped'
    BY <1>1, <2>1 DEF EventTyped, EventLabels
  <2>4. Covered'
    <3>1. "leave" \in EventLabels
      BY DEF EventLabels
    <3>2. eventPc[t] \in {"spin", "leave"} /\ UNCHANGED <<state, waiters, enterMtx>>
      BY <2>1
    <3> QED
      BY <1>1, <2>1, <3>1, <3>2, OthersUnlock
  <2> QED
    BY <2>2, <2>3, <2>4 DEF EventInv
<1>6. CASE ManualReset!Leave(t)
  <2>1. /\ eventPc[t] = "leave" /\ waiters' = waiters - 1
        /\ eventPc' = [eventPc EXCEPT ![t] = IF waiters = 1 THEN "last" ELSE "idle"]
        /\ UNCHANGED <<state, stranded, enterMtx>>
    BY <1>6 DEF ManualReset!Leave, ManualReset!Goto
  <2>2. PICK l \in {"last", "idle"} :
          /\ eventPc' = [eventPc EXCEPT ![t] = l]
          /\ l = IF waiters = 1 THEN "last" ELSE "idle"
    BY <2>1
  <2>3. Inside' = Inside \ {t} /\ t \in Inside
    BY <1>1, <2>1, <2>2, InsideFinite DEF Inside
  <2>4. Cardinality(Inside)' = Cardinality(Inside) - 1 /\ Cardinality(Inside)' \in Nat
    <3>1. Cardinality(Inside') = Cardinality(Inside) - 1 /\ IsFiniteSet(Inside')
      BY <2>3, InsideFinite, FS_RemoveElement
    <3> QED
      BY <3>1, FS_CardinalityType
  <2>5. InsideCounted' /\ waiters' \in Nat
    BY <1>1, <2>1, <2>4, InsideFinite DEF InsideCounted
  <2>6. EventTyped'
    BY <1>1, <2>1, <2>2, <2>5 DEF EventTyped, EventLabels
  <2>7. Covered'
    <3>1. CASE waiters = 1
      <4>1. Unlocking(t)'
        BY <1>1, <2>2, <3>1 DEF Unlocking
      <4> QED
        BY <1>1, <4>1 DEF Covered
    <3>2. CASE waiters # 1
      <4>1. waiters' > 0
        BY <1>1, <2>1, <2>5, <3>2
      <4>2. eventPc' = [eventPc EXCEPT ![t] = "idle"]
        BY <2>2, <3>2
      <4>3. \A u \in ManualReset!Callers : Unlocking(u) => Unlocking(u)'
        BY <1>1, <2>1, <4>2 DEF Unlocking
      <4> QED
        BY <1>1, <2>1, <4>1, <4>3 DEF Covered
    <3> QED
      BY <3>1, <3>2
  <2> QED
    BY <2>5, <2>6, <2>7 DEF EventInv
<1>7. CASE ManualReset!LastUnlock(t)
  <2>1. /\ eventPc[t] = "last" /\ eventPc' = [eventPc EXCEPT ![t] = "idle"]
        /\ enterMtx' = FALSE /\ UNCHANGED <<state, waiters, stranded>>
    BY <1>7 DEF ManualReset!LastUnlock, ManualReset!Goto
  <2>2. InsideCounted'
    BY <1>1, <2>1, SameInside DEF EventLabels
  <2>3. EventTyped'
    BY <1>1, <2>1 DEF EventTyped, EventLabels
  <2> QED
    BY <2>1, <2>2, <2>3 DEF EventInv, Covered
<1>8. CASE ManualReset!Interrupt(t)
  <2>1. /\ eventPc[t] = "spin" /\ eventPc' = [eventPc EXCEPT ![t] = "idle"]
        /\ stranded' = stranded + 1 /\ UNCHANGED <<state, waiters, enterMtx>>
    BY <1>8 DEF ManualReset!Interrupt, ManualReset!Goto
  <2>2. Inside' = Inside \ {t} /\ t \in Inside
    BY <1>1, <2>1, InsideFinite DEF Inside
  <2>3. Cardinality(Inside)' = Cardinality(Inside) - 1
    BY <2>2, InsideFinite, FS_RemoveElement
  <2>4. InsideCounted'
    BY <1>1, <2>1, <2>3, InsideFinite DEF InsideCounted
  <2>5. EventTyped'
    BY <1>1, <2>1 DEF EventTyped, EventLabels
  <2>6. Covered'
    <3>1. "idle" \in EventLabels
      BY DEF EventLabels
    <3>2. eventPc[t] \in {"spin", "leave"} /\ UNCHANGED <<state, waiters, enterMtx>>
      BY <2>1
    <3> QED
      BY <1>1, <2>1, <3>1, <3>2, OthersUnlock
  <2> QED
    BY <2>4, <2>5, <2>6 DEF EventInv
<1> QED
  BY <1>2, <1>3, <1>4, <1>5, <1>6, <1>7, <1>8 DEF ManualReset!WaitStep

\* For any number of threads that wait, try, set and reset, whenever enter_mtx_ is
\* locked and no wait was interrupted somebody is there to unlock it: the last waiter
\* unlocks what set() left locked (manual_reset_event.cpp).
THEOREM UnlockerIsThere == ManualReset!Spec => []EventUnlockerThere
<1>1. EventInv /\ [ManualReset!Next]_(ManualReset!vars) => EventInv'
  <2> SUFFICES ASSUME EventInv, [ManualReset!Next]_(ManualReset!vars) PROVE EventInv'
    OBVIOUS
  <2>1. CASE UNCHANGED ManualReset!vars
    BY <2>1 DEF ManualReset!vars, EventInv, EventTyped, InsideCounted, Inside, Covered,
                Unlocking
  <2> QED
    BY <2>1, ControlKeeps, WaitKeeps DEF ManualReset!Next
<1>2. EventInv => EventUnlockerThere
  <2> SUFFICES ASSUME EventInv, enterMtx, stranded = 0,
                      \A t \in ManualReset!Callers : eventPc[t] \in {"idle", "spin", "leave"}
               PROVE  /\ state = "SET"
                      /\ \E t \in ManualReset!Counted : eventPc[t] \in {"spin", "leave"}
    BY DEF EventUnlockerThere, ManualReset!UnlockerThere
  <2>1. \A t \in ManualReset!Callers : ~ Unlocking(t) /\ eventPc[t] # "set_look"
    BY DEF Unlocking
  <2>2. state = "SET" /\ waiters > 0
    BY <2>1 DEF EventInv, Covered
  <2>3. Cardinality(Inside) > 0
    BY <2>2, InsideFinite DEF EventInv, InsideCounted
  <2>4. Inside # {}
    BY <2>3, FS_EmptySet
  <2>5. PICK t \in Inside : TRUE
    BY <2>4
  <2> QED
    BY <2>2, <2>5, InsideFinite DEF Inside
<1> QED
  BY <1>1, <1>2, InitEventInv, PTL DEF ManualReset!Spec

=============================================================================
