---------------------------- MODULE QueuesProofs ----------------------------
(***************************************************************************)
(* The queues of MCQueues for every number of threads.                     *)
(*                                                                         *)
(* BoundedPrioQueue: the inductive invariant is TypeOK with                *)
(* NoSleeperBesideRoom: a put() by a producer that was woken takes one     *)
(* place and one of those awake, a take frees a place and wakes one.       *)
(*                                                                         *)
(* UnboundedPrioQueue: TypeOK and NobodySleepsBesideWork are inductive     *)
(* together: a push and its post, a wait() and the look that follows it    *)
(* change two of the three numbers that cover the queue by one each, and a *)
(* worker only goes to sleep when the queue is empty.                      *)
(*                                                                         *)
(* BoundedFifo and UnboundedFifo implement BoundedQueue: an item enters    *)
(* when tail_ moves past its node and leaves when head_ does, or when it   *)
(* is swapped out.  The invariants say who holds which mutex, how the      *)
(* nodes are linked at every line of put() and try_take(), that count_ is  *)
(* the length of the list but for the calls that have moved head_ or tail_ *)
(* and not yet counted, and that a put() past its tests has room.          *)
(*                                                                         *)
(* The counts of UnboundedFifo: the count of a node is the number of       *)
(* references to it, as long as no change of a count was lost.             *)
(***************************************************************************)
EXTENDS MCQueues, FiniteSetTheorems, TLAPS

----------------------------------------------------------------------------
(* BoundedPrioQueue.                                                       *)

Having(f, label) == {p \in Producers : f[p] = label}

\* What NoSleeperBesideRoom says of a size, the producers asleep and awake.
Room(act, n, A, W) ==
  A # {} =>
    /\ act
    /\ IF Lwm = Hwm THEN Hwm - n <= Cardinality(W) ELSE n > Lwm

Labels == {"idle", "asleep", "woken", "timed_out"}

IInv == TypeOK /\ NoSleeperBesideRoom

LEMMA AsRoom == NoSleeperBesideRoom <=> Room(active, size, At("asleep"), At("woken"))
BY DEF NoSleeperBesideRoom, Room

\* The producers awake are finitely many.
LEMMA AwakeFinite ==
  ASSUME NEW f, NEW label
  PROVE  IsFiniteSet(Having(f, label)) /\ Cardinality(Having(f, label)) \in Nat
<1>1. Having(f, label) \subseteq Producers
  BY DEF Having
<1> QED
  BY <1>1, FiniteProducers, FS_Subset, FS_CardinalityType

\* One producer more or less awake.
LEMMA OneMore ==
  ASSUME NEW W, IsFiniteSet(W), NEW p, p \notin W
  PROVE  Cardinality(W \cup {p}) = Cardinality(W) + 1
BY FS_AddElement

LEMMA OneLess ==
  ASSUME NEW W, IsFiniteSet(W), NEW p \in W
  PROVE  Cardinality(W \ {p}) = Cardinality(W) - 1
BY FS_RemoveElement

\* A put() by a producer that was awake.
LEMMA RoomPutAwake ==
  ASSUME NEW act, NEW n \in Nat, NEW A, NEW W, IsFiniteSet(W), NEW p, p \in W,
        Room(act, n, A, W)
  PROVE  Room(act, n + 1, A, W \ {p})
<1>1. Cardinality(W) \in Nat /\ Cardinality(W \ {p}) = Cardinality(W) - 1
  BY FS_CardinalityType, OneLess
<1>2. CASE Lwm = Hwm
  <2> SUFFICES ASSUME A # {}
               PROVE  act /\ Hwm - (n + 1) <= Cardinality(W \ {p})
    BY <1>2 DEF Room
  <2>1. act /\ Hwm - n <= Cardinality(W)
    BY <1>2 DEF Room
  <2> QED
    BY <2>1, <1>1, Watermarks
<1>3. CASE Lwm # Hwm
  BY <1>3, Watermarks DEF Room
<1> QED
  BY <1>2, <1>3

\* A put() by a producer that has just called, or whose time is up.
LEMMA RoomPut ==
  ASSUME NEW act, NEW n \in Nat, NEW A, NEW W, IsFiniteSet(W), Room(act, n, A, W)
  PROVE  Room(act, n + 1, A, W)
<1>1. Cardinality(W) \in Nat
  BY FS_CardinalityType
<1> QED
  BY <1>1, Watermarks DEF Room

\* A take that wakes one producer, or nobody although nobody sleeps.
LEMMA RoomTakeOne ==
  ASSUME NEW act, NEW n \in Nat, n > 0, NEW A, NEW W, IsFiniteSet(W), NEW p, p \notin W,
         p \in A, Lwm = Hwm, Room(act, n, A, W)
  PROVE  Room(act, n - 1, A \ {p}, W \cup {p})
<1>1. Cardinality(W) \in Nat /\ Cardinality(W \cup {p}) = Cardinality(W) + 1
  BY FS_CardinalityType, OneMore
<1>2. act /\ Hwm - n <= Cardinality(W)
  BY DEF Room
<1> QED
  BY <1>1, <1>2, Watermarks DEF Room

\* A take that leaves more than the low watermark, which is the lower one.
LEMMA RoomTakeNone ==
  ASSUME NEW act, NEW n \in Nat, n > 0, n <= Hwm, NEW A, NEW W, ~ (n - 1 <= Lwm),
        Room(act, n, A, W)
  PROVE  Room(act, n - 1, A, W)
BY Watermarks DEF Room

----------------------------------------------------------------------------
LEMMA InitInv == Init => IInv
BY Watermarks DEF Init, IInv, TypeOK, NoSleeperBesideRoom, At

LEMMA TypeInv == TypeOK /\ [Next]_vars => TypeOK'
<1> SUFFICES ASSUME TypeOK, [Next]_vars
             PROVE  TypeOK'
  OBVIOUS
<1> USE Watermarks DEF TypeOK
<1>1. ASSUME NEW p \in Producers, PutStep(p) \/ SpuriousWake(p) \/ TimeOut(p)
      PROVE  TypeOK'
  BY <1>1 DEF PutStep, Put, PutReject, PutSleep, SpuriousWake, TimeOut, Goto, full
<1>2. CASE Take
  BY <1>2 DEF Take, Woken, At
<1>3. CASE Deactivate
  BY <1>3 DEF Deactivate, Woken, At
<1>4. CASE UNCHANGED vars
  BY <1>4 DEF vars
<1> QED
  BY <1>1, <1>2, <1>3, <1>4 DEF Next

LEMMA RoomInv == IInv /\ [Next]_vars => NoSleeperBesideRoom'
<1> SUFFICES ASSUME IInv, [Next]_vars
             PROVE  NoSleeperBesideRoom'
  OBVIOUS
<1> DEFINE A == Having(pc, "asleep")
           W == Having(pc, "woken")
<1>A. /\ At("asleep") = A /\ At("woken") = W
      /\ At("asleep")' = Having(pc', "asleep") /\ At("woken")' = Having(pc', "woken")
  BY DEF At, Having
<1>R. TypeOK /\ Room(active, size, A, W)
  BY <1>A, AsRoom DEF IInv
<1>G. SUFFICES Room(active', size', Having(pc', "asleep"), Having(pc', "woken"))
  BY <1>A DEF NoSleeperBesideRoom, Room
<1>T. /\ active \in BOOLEAN /\ size \in Nat /\ size <= Hwm
      /\ pc \in [Producers -> Labels]
  <2>1. active \in BOOLEAN /\ pc \in [Producers -> Labels]
    BY <1>R DEF TypeOK, Labels
  <2>2. size \in 0 .. Hwm
    BY <1>R DEF TypeOK
  <2> QED
    BY <2>1, <2>2, Watermarks
<1>F. IsFiniteSet(W) /\ Cardinality(W) \in Nat
  BY AwakeFinite
<1> HIDE DEF A, W
<1>1. ASSUME NEW p \in Producers, Put(p)
      PROVE  Room(active', size', Having(pc', "asleep"), Having(pc', "woken"))
  <2>1. active' = active /\ size' = size + 1 /\ pc' = [pc EXCEPT ![p] = "idle"]
    BY <1>1 DEF Put, Goto
  <2>2. Having(pc', "asleep") = A \ {p} /\ Having(pc', "woken") = W \ {p}
    <3>1. Having(pc', "asleep") = A \ {p}
      BY <2>1, <1>T DEF A, Having
    <3>2. Having(pc', "woken") = W \ {p}
      BY <2>1, <1>T DEF W, Having
    <3> QED
      BY <3>1, <3>2
  <2>3. A \ {p} = A
    BY <1>1 DEF Put, Running, A, Having
  <2>4. CASE p \in W
    <3>1. Room(active, size + 1, A, W \ {p})
      BY <2>4, <1>R, <1>T, <1>F, RoomPutAwake
    <3> QED
      BY <3>1, <2>1, <2>2, <2>3
  <2>5. CASE p \notin W
    <3>1. W \ {p} = W
      BY <2>5
    <3> QED
      BY <3>1, <2>1, <2>2, <2>3, <1>R, <1>T, <1>F, RoomPut
  <2> QED
    BY <2>4, <2>5
<1>2. ASSUME NEW p \in Producers, PutReject(p)
      PROVE  Room(active', size', Having(pc', "asleep"), Having(pc', "woken"))
  <2>1. active' = active /\ size' = size /\ pc' = [pc EXCEPT ![p] = "idle"]
    BY <1>2 DEF PutReject, Goto
  <2>2. Having(pc', "asleep") = A \ {p} /\ Having(pc', "woken") = W \ {p}
    <3>1. Having(pc', "asleep") = A \ {p}
      BY <2>1, <1>T DEF A, Having
    <3>2. Having(pc', "woken") = W \ {p}
      BY <2>1, <1>T DEF W, Having
    <3> QED
      BY <3>1, <3>2
  <2>3. CASE ~ active
    BY <2>1, <2>2, <2>3, <1>R DEF Room
  <2>4. CASE pc[p] = "timed_out"
    <3>1. A \ {p} = A /\ W \ {p} = W
      BY <2>4 DEF A, W, Having
    <3> QED
      BY <3>1, <2>1, <2>2, <1>R
  <2> QED
    BY <2>3, <2>4, <1>2 DEF PutReject
<1>3. ASSUME NEW p \in Producers, PutSleep(p)
      PROVE  Room(active', size', Having(pc', "asleep"), Having(pc', "woken"))
  <2>1. active' = active /\ size' = size /\ active /\ size >= Hwm
    BY <1>3 DEF PutSleep, full
  <2>2. Cardinality(Having(pc', "woken")) \in Nat
    BY AwakeFinite
  <2> QED
    BY <2>1, <2>2, <1>T, Watermarks DEF Room
<1>4. ASSUME NEW p \in Producers, SpuriousWake(p)
      PROVE  Room(active', size', Having(pc', "asleep"), Having(pc', "woken"))
  <2>1. active' = active /\ size' = size /\ pc' = [pc EXCEPT ![p] = "woken"]
    BY <1>4 DEF SpuriousWake, Goto
  <2>2. Having(pc', "asleep") = A \ {p} /\ Having(pc', "woken") = W \cup {p}
    <3>1. Having(pc', "asleep") = A \ {p}
      BY <2>1, <1>T DEF A, Having
    <3>2. Having(pc', "woken") = W \cup {p}
      BY <2>1, <1>T DEF W, Having
    <3> QED
      BY <3>1, <3>2
  <2>3. p \notin W
    BY <1>4 DEF SpuriousWake, W, Having
  <2>4. Cardinality(W \cup {p}) = Cardinality(W) + 1
    BY <2>3, <1>F, OneMore
  <2>5. Room(active, size, A \ {p}, W \cup {p})
    BY <2>4, <1>F, <1>R, <1>T, Watermarks DEF Room
  <2> QED
    BY <2>1, <2>2, <2>5
<1>5. ASSUME NEW p \in Producers, TimeOut(p)
      PROVE  Room(active', size', Having(pc', "asleep"), Having(pc', "woken"))
  <2>1. active' = active /\ size' = size /\ pc' = [pc EXCEPT ![p] = "timed_out"]
    BY <1>5 DEF TimeOut, Goto
  <2>2. Having(pc', "asleep") = A \ {p} /\ Having(pc', "woken") = W \ {p}
    <3>1. Having(pc', "asleep") = A \ {p}
      BY <2>1, <1>T DEF A, Having
    <3>2. Having(pc', "woken") = W \ {p}
      BY <2>1, <1>T DEF W, Having
    <3> QED
      BY <3>1, <3>2
  <2>3. W \ {p} = W
    BY <1>5 DEF TimeOut, W, Having
  <2>4. Room(active, size, A \ {p}, W)
    BY <1>R DEF Room
  <2> QED
    BY <2>1, <2>2, <2>3, <2>4
<1>6. ASSUME Take
      PROVE  Room(active', size', Having(pc', "asleep"), Having(pc', "woken"))
  <2>1. active' = active /\ size' = size - 1 /\ size > 0
    BY <1>6, <1>T DEF Take
  <2>2. CASE ~ (size - 1 <= Lwm)
    <3>1. pc' = pc
      BY <1>6, <2>2 DEF Take
    <3>2. Room(active, size - 1, A, W)
      BY <2>1, <2>2, <1>R, <1>T, RoomTakeNone
    <3> QED
      BY <3>1, <3>2, <2>1 DEF A, W
  <2>3. CASE size - 1 <= Lwm /\ Lwm = Hwm
    <3>1. CASE A = {} /\ pc' = pc
      BY <3>1, <2>1 DEF Room, A
    <3>2. ASSUME NEW p, p \in A, pc' = Woken({p})
          PROVE  Room(active', size', Having(pc', "asleep"), Having(pc', "woken"))
      <4>1. p \notin W /\ p \in Producers
        BY <3>2 DEF A, W, Having
      <4>2. Having(pc', "asleep") = A \ {p} /\ Having(pc', "woken") = W \cup {p}
        BY <3>2, <4>1 DEF Having, Woken, A, W
      <4>3. Room(active, size - 1, A \ {p}, W \cup {p})
        BY <3>2, <4>1, <2>1, <2>3, <1>R, <1>T, <1>F, RoomTakeOne
      <4> QED
        BY <4>2, <4>3, <2>1
    <3> QED
      BY <3>1, <3>2, <2>3, <1>6, <1>A DEF Take
  <2>4. CASE size - 1 <= Lwm /\ Lwm # Hwm
    <3>1. pc' = Woken(A)
      BY <1>6, <2>4, <1>A DEF Take
    <3>2. Having(pc', "asleep") = {}
      BY <3>1 DEF Having, Woken, A
    <3> QED
      BY <3>2 DEF Room
  <2> QED
    BY <2>2, <2>3, <2>4
<1>7. ASSUME Deactivate
      PROVE  Room(active', size', Having(pc', "asleep"), Having(pc', "woken"))
  <2>1. Having(pc', "asleep") = {}
    BY <1>7, <1>A DEF Deactivate, Having, Woken, A
  <2> QED
    BY <2>1 DEF Room
<1>8. CASE UNCHANGED vars
  BY <1>8, <1>R DEF vars, A, W
<1> QED
  BY <1>1, <1>2, <1>3, <1>4, <1>5, <1>6, <1>7, <1>8 DEF Next, PutStep

----------------------------------------------------------------------------
\* The queue never holds more than hwm_ tasks: put() tests again after each wait.
THEOREM WithinHwm == Spec => []TypeOK
<1>1. Init => TypeOK
  BY InitInv DEF IInv
<1> QED
  BY <1>1, TypeInv, PTL DEF Spec

\* For every number of producers and all watermarks: nobody sleeps beside room
\* that no woken producer is on the way to (try_take() of bounded_prio_queue.hpp).
THEOREM RoomIsTaken == Spec => []NoSleeperBesideRoom
<1>1. IInv /\ [Next]_vars => IInv'
  BY TypeInv, RoomInv DEF IInv
<1>2. IInv => NoSleeperBesideRoom
  BY DEF IInv
<1> QED
  BY <1>1, <1>2, InitInv, PTL DEF Spec

\* No put() adds a task after deactivate(), not even one that slept before.
THEOREM ClosedStaysClosed == Spec => NothingEntersClosed
<1>1. TypeOK /\ [Next]_vars => [~ active => size' <= size]_vars
  <2> SUFFICES ASSUME TypeOK, Next, ~ active
               PROVE  size' <= size
    OBVIOUS
  <2>1. size \in Nat
    BY Watermarks DEF TypeOK
  <2>2. size' = size \/ size' = size - 1
    BY DEF Next, PutStep, Put, PutReject, PutSleep, SpuriousWake, TimeOut, Take,
           Deactivate
  <2> QED
    BY <2>1, <2>2
<1> QED
  BY <1>1, WithinHwm, PTL DEF Spec, NothingEntersClosed

----------------------------------------------------------------------------
(* UnboundedPrioQueue.                                                     *)

\* The instance counts as this module does.
LEMMA OpenCounts ==
  ASSUME NEW S
  PROVE  Open!Cardinality(S) = Cardinality(S) /\ (Open!IsFiniteSet(S)
        <=> IsFiniteSet(S))
  BY DEF Cardinality, Open!Cardinality, IsFiniteSet, Open!IsFiniteSet

OpenThreads == OpenProducers \cup OpenWorkers
OpenLabels  == {"idle", "check", "push", "post", "wait"}

\* At(S, label) of any pc.
Among(f, S, label) == {t \in S : f[t] = label}

\* The threads at a label are finitely many.
LEMMA Counted ==
  ASSUME NEW S, IsFiniteSet(S), NEW f, NEW label
  PROVE  /\ IsFiniteSet(Among(f, S, label))
         /\ Cardinality(Among(f, S, label)) \in Nat
<1>1. Among(f, S, label) \subseteq S
  BY DEF Among
<1> QED
  BY <1>1, FS_Subset, FS_CardinalityType

\* One thread more at a label.
LEMMA Arrives ==
  ASSUME NEW S, IsFiniteSet(S), NEW f \in [OpenThreads -> OpenLabels],
        S \subseteq OpenThreads,
         NEW t \in S, NEW label \in OpenLabels, f[t] # label
  PROVE  Cardinality(Among([f EXCEPT ![t] = label], S, label))
           = Cardinality(Among(f, S, label)) + 1
<1>1. Among([f EXCEPT ![t] = label], S, label) = Among(f, S, label) \cup {t}
  BY DEF Among
<1>2. t \notin Among(f, S, label)
  BY DEF Among
<1> QED
  BY <1>1, <1>2, Counted, FS_AddElement

\* What covers a task besides the permits.
Posting(f) == Cardinality(Among(f, OpenProducers, "post"))
Looking(f) == Cardinality(Among(f, OpenWorkers, "idle"))

\* A producer is not a worker, and it counts only where it posts.
LEMMA ProducerMoves ==
  ASSUME NEW f \in [OpenThreads -> OpenLabels],
         NEW p \in OpenProducers, NEW label \in OpenLabels,
         OpenProducers \cap OpenWorkers = {}
  PROVE  /\ Looking([f EXCEPT ![p] = label]) = Looking(f)
         /\ f[p] # "post" /\ label # "post" =>
              Posting([f EXCEPT ![p] = label]) = Posting(f)
<1>1. Among([f EXCEPT ![p] = label], OpenWorkers, "idle") = Among(f, OpenWorkers,
            "idle")
  BY DEF Among, OpenThreads
<1>2. f[p] # "post" /\ label # "post" =>
        Among([f EXCEPT ![p] = label], OpenProducers, "post") = Among(f, OpenProducers,
              "post")
  BY DEF Among, OpenThreads
<1> QED
  BY <1>1, <1>2 DEF Looking, Posting

\* A post takes one producer from those that cover.
LEMMA ProducerPosts ==
  ASSUME IsFiniteSet(OpenProducers), NEW f \in [OpenThreads -> OpenLabels],
         NEW p \in OpenProducers,
         f[p] = "post"
  PROVE  Posting([f EXCEPT ![p] = "idle"]) = Posting(f) - 1
<1>1. Among([f EXCEPT ![p] = "idle"], OpenProducers, "post")
        = Among(f, OpenProducers, "post") \ {p}
  BY DEF Among, OpenThreads
<1>2. /\ p \in Among(f, OpenProducers, "post")
      /\ IsFiniteSet(Among(f, OpenProducers, "post"))
  BY Counted DEF Among
<1> QED
  BY <1>1, <1>2, FS_RemoveElement DEF Posting

\* A worker is not a producer.
LEMMA WorkerMoves ==
  ASSUME NEW f \in [OpenThreads -> OpenLabels],
         NEW w \in OpenWorkers, NEW label \in OpenLabels,
         OpenProducers \cap OpenWorkers = {}
  PROVE  Posting([f EXCEPT ![w] = label]) = Posting(f)
<1>1. Among([f EXCEPT ![w] = label], OpenProducers, "post") = Among(f, OpenProducers,
            "post")
  BY DEF Among, OpenThreads
<1> QED
  BY <1>1 DEF Posting

----------------------------------------------------------------------------
OpenPut(p) ==
  \/ Open!PutLock(p) \/ Open!PutReject(p) \/ Open!PutCheck(p)
  \/ Open!PutPush(p) \/ Open!PutPost(p)

LEMMA OpenInit ==
  ASSUME Open!UnboundedPrioQueueConstants
  PROVE  Open!Init => Open!TypeOK /\ Open!NobodySleepsBesideWork
<1> SUFFICES ASSUME Open!Init
             PROVE  Open!TypeOK /\ Open!NobodySleepsBesideWork
  OBVIOUS
<1>1. Open!TypeOK
  BY DEF Open!Init, Open!TypeOK
<1>2. /\ Cardinality(Open!At(OpenProducers, "post")) \in Nat
      /\ Cardinality(Open!At(OpenWorkers, "idle")) \in Nat
  <2>1. /\ Open!At(OpenProducers, "post") = Among(pc3, OpenProducers, "post")
        /\ Open!At(OpenWorkers, "idle") = Among(pc3, OpenWorkers, "idle")
    BY DEF Open!At, Among
  <2> QED
    BY <2>1, Counted, OpenCounts DEF Open!UnboundedPrioQueueConstants
<1> QED
  BY <1>1, <1>2, OpenCounts DEF Open!Init, Open!NobodySleepsBesideWork

\* Every action keeps the types.
LEMMA OpenTypes == Open!TypeOK /\ [Open!Next]_Open!vars => Open!TypeOK'
<1> SUFFICES ASSUME Open!TypeOK, [Open!Next]_Open!vars
             PROVE  Open!TypeOK'
  OBVIOUS
<1> USE DEF Open!TypeOK, Open!Goto
<1>1. ASSUME NEW p \in OpenProducers, OpenPut(p)
      PROVE  Open!TypeOK'
  BY <1>1 DEF OpenPut, Open!PutLock, Open!PutReject,
         Open!PutCheck, Open!PutPush, Open!PutPost
<1>2. ASSUME NEW w \in OpenWorkers, Open!Take(w) \/ Open!TakeEmpty(w) \/ Open!Wait(w)
      PROVE  Open!TypeOK'
  BY <1>2 DEF Open!Take, Open!TakeEmpty, Open!Wait
<1>3. CASE Open!Deactivate \/ UNCHANGED Open!vars
  BY <1>3 DEF Open!Deactivate, Open!vars
<1> QED
  BY <1>1, <1>2, <1>3 DEF Open!Next, OpenPut

\* Every task stays covered.
LEMMA CoverInv ==
  ASSUME Open!UnboundedPrioQueueConstants
  PROVE  Open!TypeOK /\ Open!NobodySleepsBesideWork /\ [Open!Next]_Open!vars
           => Open!NobodySleepsBesideWork'
<1> SUFFICES ASSUME Open!TypeOK, Open!NobodySleepsBesideWork, [Open!Next]_Open!vars
             PROVE  Open!NobodySleepsBesideWork'
  OBVIOUS
<1>1. IsFiniteSet(OpenProducers) /\ IsFiniteSet(OpenWorkers)
      /\ OpenProducers \cap OpenWorkers = {}
  BY OpenCounts DEF Open!UnboundedPrioQueueConstants
<1>2. size3 \in Nat /\ permits \in Nat /\ pc3 \in [OpenThreads -> OpenLabels]
  BY DEF Open!TypeOK, OpenThreads, OpenLabels
<1>3. /\ Posting(pc3) \in Nat /\ Looking(pc3) \in Nat
      /\ Posting(pc3') \in Nat /\ Looking(pc3') \in Nat
  BY <1>1, Counted DEF Posting, Looking
<1>4. size3 <= permits + Posting(pc3) + Looking(pc3)
  BY OpenCounts DEF Open!NobodySleepsBesideWork, Open!At, Among, Posting, Looking
<1>5. SUFFICES size3' <= permits' + Posting(pc3') + Looking(pc3')
  BY OpenCounts DEF Open!NobodySleepsBesideWork, Open!At, Among, Posting, Looking
<1>6. /\ OpenProducers \subseteq OpenThreads /\ OpenWorkers \subseteq OpenThreads
      /\ "idle" \in OpenLabels /\ "check" \in OpenLabels /\ "push" \in OpenLabels
      /\ "post" \in OpenLabels /\ "wait" \in OpenLabels
      /\ \A p \in OpenProducers : p \notin OpenWorkers
      /\ \A w \in OpenWorkers : w \notin OpenProducers
  BY <1>1 DEF OpenThreads, OpenLabels
<1>7. ASSUME NEW p \in OpenProducers, Open!PutLock(p) \/ Open!PutReject(p) \/
            Open!PutCheck(p)
      PROVE  size3' <= permits' + Posting(pc3') + Looking(pc3')
  <2>1. PICK l \in {"idle", "check", "push"} : pc3' = [pc3 EXCEPT ![p] = l]
    BY <1>7 DEF Open!PutLock, Open!PutReject, Open!PutCheck, Open!Goto
  <2>2. size3' = size3 /\ permits' = permits /\ pc3[p] # "post"
        /\ p \in OpenThreads /\ l \in OpenLabels
    BY <1>6, <1>7 DEF Open!PutLock, Open!PutReject, Open!PutCheck
  <2>3. Posting(pc3') = Posting(pc3)
    BY <2>1, <2>2, <1>1, <1>2, ProducerMoves
  <2>4. Looking(pc3') = Looking(pc3)
    BY <2>1, <2>2, <1>1, <1>2, <1>6, ProducerMoves
  <2> QED
    BY <2>2, <2>3, <2>4, <1>4
<1>8. ASSUME NEW p \in OpenProducers, Open!PutPush(p)
      PROVE  size3' <= permits' + Posting(pc3') + Looking(pc3')
  <2>1. pc3' = [pc3 EXCEPT ![p] = "post"] /\ pc3[p] # "post" /\ p \in OpenThreads
        /\ size3' = size3 + 1 /\ permits' = permits
    BY <1>6, <1>8 DEF Open!PutPush, Open!Goto
  <2>2. Posting(pc3') = Posting(pc3) + 1
    <3>1. /\ IsFiniteSet(OpenProducers) /\ OpenProducers \subseteq OpenThreads
          /\ pc3 \in [OpenThreads -> OpenLabels] /\ "post" \in OpenLabels
          /\ p \in OpenProducers /\ pc3[p] # "post"
      BY <2>1, <1>1, <1>2, <1>6
    <3>2. Cardinality(Among([pc3 EXCEPT ![p] = "post"], OpenProducers, "post"))
            = Cardinality(Among(pc3, OpenProducers, "post")) + 1
      BY <3>1, Arrives
    <3> QED
      BY <2>1, <3>2 DEF Posting
  <2>3. Looking(pc3') = Looking(pc3)
    BY <2>1, <1>1, <1>2, <1>6, ProducerMoves
  <2> QED
    BY <2>1, <2>2, <2>3, <1>2, <1>3, <1>4
<1>9. ASSUME NEW p \in OpenProducers, Open!PutPost(p)
      PROVE  size3' <= permits' + Posting(pc3') + Looking(pc3')
  <2>1. pc3' = [pc3 EXCEPT ![p] = "idle"] /\ pc3[p] = "post" /\ p \in OpenThreads
        /\ size3' = size3 /\ permits' = permits + 1
    BY <1>6, <1>9 DEF Open!PutPost, Open!Goto
  <2>2. Posting(pc3') = Posting(pc3) - 1
    BY <2>1, <1>1, <1>2, ProducerPosts
  <2>3. Looking(pc3') = Looking(pc3)
    BY <2>1, <1>1, <1>2, <1>6, ProducerMoves
  <2> QED
    BY <2>1, <2>2, <2>3, <1>2, <1>3, <1>4
<1>10. ASSUME NEW w \in OpenWorkers, Open!Take(w)
       PROVE  size3' <= permits' + Posting(pc3') + Looking(pc3')
  <2>1. size3' = size3 - 1 /\ permits' = permits /\ pc3' = pc3
    BY <1>10 DEF Open!Take
  <2> QED
    BY <2>1, <1>2, <1>3, <1>4
<1>11. ASSUME NEW w \in OpenWorkers, Open!TakeEmpty(w)
       PROVE  size3' <= permits' + Posting(pc3') + Looking(pc3')
  <2>1. size3' = 0 /\ permits' = permits
    BY <1>11 DEF Open!TakeEmpty
  <2> QED
    BY <2>1, <1>2, <1>3
<1>12. ASSUME NEW w \in OpenWorkers, Open!Wait(w)
       PROVE  size3' <= permits' + Posting(pc3') + Looking(pc3')
  <2>1. pc3' = [pc3 EXCEPT ![w] = "idle"] /\ pc3[w] # "idle" /\ w \in OpenThreads
        /\ size3' = size3 /\ permits' = permits - 1
    BY <1>6, <1>12 DEF Open!Wait, Open!Goto
  <2>2. Looking(pc3') = Looking(pc3) + 1
    <3>1. /\ IsFiniteSet(OpenWorkers) /\ OpenWorkers \subseteq OpenThreads
          /\ pc3 \in [OpenThreads -> OpenLabels] /\ "idle" \in OpenLabels
          /\ w \in OpenWorkers /\ pc3[w] # "idle"
      BY <2>1, <1>1, <1>2, <1>6
    <3>2. Cardinality(Among([pc3 EXCEPT ![w] = "idle"], OpenWorkers, "idle"))
            = Cardinality(Among(pc3, OpenWorkers, "idle")) + 1
      BY <3>1, Arrives
    <3> QED
      BY <2>1, <3>2 DEF Looking
  <2>3. Posting(pc3') = Posting(pc3)
    BY <2>1, <1>1, <1>2, <1>6, WorkerMoves
  <2> QED
    BY <2>1, <2>2, <2>3, <1>2, <1>3, <1>4
<1>13. CASE Open!Deactivate \/ UNCHANGED Open!vars
  <2>1. size3' = size3 /\ permits' = permits /\ pc3' = pc3
    BY <1>13 DEF Open!Deactivate, Open!vars
  <2> QED
    BY <2>1, <1>4
<1> QED
  BY <1>7, <1>8, <1>9, <1>10, <1>11, <1>12, <1>13 DEF Open!Next, OpenPut

----------------------------------------------------------------------------
\* No worker sleeps beside a task that nobody comes for (fsem_.post() in
\* put_(), under mtx_, and the try_take() before each wait()).
THEOREM Covered ==
  ASSUME Open!UnboundedPrioQueueConstants
  PROVE  Open!Spec => []NobodySleepsBesideWork
<1>1. Open!Init => Open!TypeOK /\ Open!NobodySleepsBesideWork
  BY OpenInit
<1>2. Open!TypeOK /\ Open!NobodySleepsBesideWork /\ [Open!Next]_Open!vars
        => (Open!TypeOK /\ Open!NobodySleepsBesideWork)'
  BY OpenTypes, CoverInv
<1> QED
  BY <1>1, <1>2, PTL DEF Open!Spec, NobodySleepsBesideWork

\* A put() that has found the queue active holds mtx_ until it is done.
OpenExclusive ==
  \A p \in OpenProducers :
    /\ pc3[p] \in {"check", "push", "post"} => mtx3 = p
    /\ pc3[p] = "push" => active3

\* A closed queue takes nothing more: deactivate() waits for the put() that has
\* found it active (both hold mtx_).
THEOREM ClosedTakesNothing ==
  ASSUME Open!UnboundedPrioQueueConstants
  PROVE  Open!Spec => Open!NothingEntersClosed
<1>1. Open!Init => Open!TypeOK /\ OpenExclusive
  BY DEF Open!Init, Open!TypeOK, OpenExclusive
<1>2. Open!TypeOK /\ OpenExclusive /\ [Open!Next]_Open!vars => OpenExclusive'
  <2> SUFFICES ASSUME Open!TypeOK, OpenExclusive, [Open!Next]_Open!vars
               PROVE  OpenExclusive'
    OBVIOUS
  <2> USE DEF Open!UnboundedPrioQueueConstants, Open!TypeOK, OpenExclusive, Open!Goto
  <2>1. ASSUME NEW p \in OpenProducers, OpenPut(p)
        PROVE  OpenExclusive'
    BY <2>1 DEF OpenPut, Open!PutLock, Open!PutReject,
         Open!PutCheck, Open!PutPush, Open!PutPost
  <2>2. ASSUME NEW w \in OpenWorkers, Open!Take(w) \/ Open!TakeEmpty(w) \/ Open!Wait(w)
        PROVE  OpenExclusive'
    BY <2>2 DEF Open!Take, Open!TakeEmpty, Open!Wait
  <2>3. CASE Open!Deactivate \/ UNCHANGED Open!vars
    BY <2>3 DEF Open!Deactivate, Open!vars
  <2> QED
    BY <2>1, <2>2, <2>3 DEF Open!Next, OpenPut
<1>3. Open!TypeOK /\ [Open!Next]_Open!vars => Open!TypeOK'
  BY OpenTypes
<1>4. Open!TypeOK /\ OpenExclusive /\ [Open!Next]_Open!vars
        => [~ active3 => size3' <= size3]_Open!vars
  <2> SUFFICES ASSUME Open!TypeOK, OpenExclusive, Open!Next, ~ active3
               PROVE  size3' <= size3
    BY DEF Open!vars
  <2>1. ASSUME NEW p \in OpenProducers, OpenPut(p)
        PROVE  size3' <= size3
    <3>1. ~ Open!PutPush(p)
      BY DEF OpenExclusive, Open!PutPush
    <3>2. size3' = size3 /\ size3 \in Nat
      <4>1. size3 \in Nat
        BY DEF Open!TypeOK
      <4>2. size3' = size3
        BY <2>1, <3>1
           DEF OpenPut, Open!PutLock, Open!PutReject, Open!PutCheck, Open!PutPost
      <4> QED
        BY <4>1, <4>2
    <3> QED
      BY <3>2
  <2>2. ASSUME NEW w \in OpenWorkers, Open!Take(w) \/ Open!TakeEmpty(w) \/ Open!Wait(w)
        PROVE  size3' <= size3
    BY <2>2 DEF Open!TypeOK, Open!Take, Open!TakeEmpty, Open!Wait
  <2>3. CASE Open!Deactivate
    BY <2>3 DEF Open!TypeOK, Open!Deactivate
  <2> QED
    BY <2>1, <2>2, <2>3 DEF Open!Next, OpenPut
<1> QED
  BY <1>1, <1>2, <1>3, <1>4, PTL DEF Open!Spec, Open!NothingEntersClosed

----------------------------------------------------------------------------
(* BoundedFifo.                                                            *)

\* The instance counts as this module does.
LEMMA FifoCounts ==
  ASSUME NEW S
  PROVE  Bounded!Cardinality(S) = Cardinality(S) /\ (Bounded!IsFiniteSet(S)
        <=> IsFiniteSet(S))
  BY DEF Cardinality, Bounded!Cardinality, IsFiniteSet, Bounded!IsFiniteSet

FifoProducerLabels ==
  {"idle", "lock", "test", "wait", "asleep", "check", "link", "swing", "count", "post"}
FifoConsumerLabels == {"idle", "get_tail", "pop", "count", "notify"}

\* The typing the proofs need.
FifoTyped ==
  /\ state \in {"ACTIVE", "DEACTIVE"} /\ dpc \in {"idle", "notify", "done"}
  /\ pcs \in [FifoProducers -> FifoProducerLabels]
  /\ cpc \in [FifoConsumers -> FifoConsumerLabels]
  /\ puts \in [FifoProducers -> 0 .. FifoPuts]
  /\ va \in [Bounded!Nodes -> Bounded!Items \cup {Bounded!None}]
  /\ next \in [Bounded!Nodes -> Nat]
  /\ head \in Nat /\ tail \in Nat /\ count \in Int
  /\ sleeping \subseteq FifoProducers

\* A producer in its critical section holds tail_mtx_, a consumer head_mtx_; only
\* a producer that waits sleeps; an item that is being put has a number.
FifoLocks ==
  /\ \A p \in FifoProducers :
       /\ pcs[p] \in {"test", "wait", "check", "link", "swing", "count"} => tailMtx = p
       /\ p \in sleeping => pcs[p] = "asleep"
       /\ pcs[p] # "idle" => puts[p] >= 1
  /\ \A c \in FifoConsumers : cpc[c] # "idle" => headMtx = c
  /\ dpc = "notify" => headMtx = Bounded!Deactivator

\* The list: every node before tail_ is linked, a producer about to move tail_
\* has written the last one, a consumer about to pop has seen an item.
FifoListed ==
  /\ head <= tail
  /\ \A n \in 0 .. tail - 1 : next[n] = n + 1
  /\ \A p \in FifoProducers :
       pcs[p] = "swing" => next[tail] = tail + 1 /\ va[tail] = <<p, puts[p]>>
  /\ \A c \in FifoConsumers : cpc[c] = "pop" => head < tail

\* count_ follows the list: late by the put() that has moved tail_, and by the
\* try_take() that has moved head_.
FifoCounting ==
  count = tail - head - (IF \E p \in FifoProducers : pcs[p] = "count" THEN 1 ELSE 0)
                      + (IF \E c \in FifoConsumers : cpc[c] = "count" THEN 1 ELSE 0)

\* A put() past its tests has found room, which nobody else can take.
FifoHasRoom ==
  \A p \in FifoProducers :
    \/ pcs[p] = "check" /\ Bounded!active
    \/ pcs[p] \in {"link", "swing"}
    => count < FifoHwm

\* As many items have entered as tail_ has moved.
FifoAllListed == tail = Cardinality(Bounded!Entered)

FifoStructure == FifoTyped /\ FifoLocks /\ FifoListed
FifoInv == FifoStructure /\ FifoCounting /\ FifoHasRoom /\ FifoAllListed

\* There are finitely many items, and so many nodes.
LEMMA FifoItemsFinite ==
  /\ IsFiniteSet(Bounded!Items) /\ Cardinality(Bounded!Items) \in Nat
  /\ Bounded!Cardinality(Bounded!Items) = Cardinality(Bounded!Items)
<1>1. IsFiniteSet(1 .. FifoPuts)
  BY BoundedAssumption, FS_Interval DEF Bounded!BoundedFifoConstants
<1> QED
  BY <1>1, BoundedAssumption, FS_Product, FS_CardinalityType, FifoCounts
  DEF Bounded!BoundedFifoConstants, Bounded!Items

LEMMA FifoInitIInv == Bounded!Init => FifoInv
<1> SUFFICES ASSUME Bounded!Init PROVE FifoInv
  OBVIOUS
<1> USE BoundedAssumption, FifoItemsFinite DEF Bounded!Init,
                                               Bounded!BoundedFifoConstants,
                                                   Bounded!Nodes, Bounded!Items,
                                                       Bounded!None
<1>1. FifoTyped
  BY DEF FifoTyped, FifoProducerLabels, FifoConsumerLabels
<1>2. FifoLocks /\ FifoListed /\ FifoHasRoom
  BY DEF FifoLocks, FifoListed, FifoHasRoom
<1>3. FifoCounting
  BY DEF FifoCounting
<1>4. Bounded!Entered = {}
  BY DEF Bounded!Entered
<1> QED
  BY <1>1, <1>2, <1>3, <1>4, FS_EmptySet DEF FifoInv, FifoStructure, FifoAllListed

\* tail_ is a node.
LEMMA FifoTailIsNode == FifoAllListed => tail \in Bounded!Nodes
<1>1. Bounded!Entered \subseteq Bounded!Items
  BY DEF Bounded!Entered
<1> QED
  BY <1>1, FifoItemsFinite, FS_Subset, FS_CardinalityType
  DEF FifoAllListed, Bounded!Nodes

LEMMA FifoNextTyped ==
  FifoStructure /\ tail \in Bounded!Nodes /\ [Bounded!Next]_Bounded!vars
  => FifoTyped'
<1> SUFFICES ASSUME FifoStructure, tail \in Bounded!Nodes, [Bounded!Next]_Bounded!vars
             PROVE  FifoTyped'
  OBVIOUS
<1> USE BoundedAssumption
    DEF FifoStructure, FifoTyped, FifoLocks, FifoListed, Bounded!list, Bounded!Goto,
        Bounded!GotoC, FifoProducerLabels, FifoConsumerLabels,
        Bounded!BoundedFifoConstants
<1>1. CASE UNCHANGED Bounded!vars
  BY <1>1 DEF Bounded!vars
<1>2. ASSUME NEW p \in FifoProducers, Bounded!PutStep(p) PROVE FifoTyped'
  <2>1. CASE Bounded!PutLock(p) \/ Bounded!PutTest(p) \/ Bounded!PutWait(p) \/
             Bounded!PutWake(p) \/ Bounded!PutCheck(p)
             \/ Bounded!PutCount(p) \/ Bounded!PutPost(p)
    BY <2>1
    DEF Bounded!PutLock, Bounded!PutTest, Bounded!PutWait, Bounded!PutWake,
        Bounded!PutCheck, Bounded!PutCount, Bounded!PutPost
  <2>2. CASE Bounded!PutReject(p)
    BY <2>2 DEF Bounded!PutReject
  <2>3. CASE Bounded!PutLink(p)
    <3>1. <<p, puts[p]>> \in Bounded!Items
      BY <2>3 DEF Bounded!PutLink, Bounded!Items
    <3> QED
      BY <2>3, <3>1 DEF Bounded!PutLink
  <2>4. CASE Bounded!PutSwing(p)
    BY <2>4 DEF Bounded!PutSwing
  <2> QED
    BY <1>2, <2>1, <2>2, <2>3, <2>4 DEF Bounded!PutStep
<1>3. ASSUME NEW p \in FifoProducers, Bounded!PutCall(p) \/ Bounded!SpuriousWake(p) \/
            Bounded!PutTimeout(p)
      PROVE  FifoTyped'
  BY <1>3 DEF Bounded!PutCall, Bounded!SpuriousWake, Bounded!PutTimeout
<1>4. ASSUME NEW c \in FifoConsumers, Bounded!TakeStep(c) PROVE FifoTyped'
  <2>1. CASE Bounded!TakePop(c)
    <3>1. next[head] \in Nat
      BY <2>1 DEF Bounded!TakePop, Bounded!Nodes
    <3> QED
      BY <2>1, <3>1 DEF Bounded!TakePop
  <2>2. CASE Bounded!TakeLock(c) \/ Bounded!TakeEmpty(c) \/ Bounded!TakeNonEmpty(c) \/
             Bounded!TakeCount(c) \/ Bounded!TakeNotify(c)
    BY <2>2
    DEF Bounded!TakeLock, Bounded!TakeEmpty, Bounded!TakeNonEmpty, Bounded!TakeCount,
        Bounded!TakeNotify
  <2> QED
    BY <1>4, <2>1, <2>2 DEF Bounded!TakeStep
<1>5. CASE Bounded!Deactivate \/ Bounded!DeactivateNotify
  BY <1>5 DEF Bounded!Deactivate, Bounded!DeactivateNotify
<1> QED
  BY <1>1, <1>2, <1>3, <1>4, <1>5 DEF Bounded!Next

LEMMA FifoNextLocks == FifoStructure /\ [Bounded!Next]_Bounded!vars => FifoLocks'
<1> SUFFICES ASSUME FifoStructure, [Bounded!Next]_Bounded!vars PROVE FifoLocks'
  OBVIOUS
<1> USE BoundedAssumption
    DEF FifoStructure, FifoTyped, FifoLocks, Bounded!list, Bounded!Goto, Bounded!GotoC,
        FifoProducerLabels, FifoConsumerLabels,
        Bounded!BoundedFifoConstants
<1>1. CASE UNCHANGED Bounded!vars
  BY <1>1 DEF Bounded!vars
<1>2. ASSUME NEW p \in FifoProducers, Bounded!PutStep(p) PROVE FifoLocks'
  <2>1. CASE Bounded!PutLock(p) \/ Bounded!PutTest(p) \/ Bounded!PutWait(p) \/
             Bounded!PutWake(p)
    BY <2>1 DEF Bounded!PutLock, Bounded!PutTest, Bounded!PutWait, Bounded!PutWake
  <2>2. CASE Bounded!PutReject(p) \/ Bounded!PutCheck(p) \/ Bounded!PutLink(p) \/
             Bounded!PutSwing(p)
    BY <2>2 DEF Bounded!PutReject, Bounded!PutCheck, Bounded!PutLink, Bounded!PutSwing
  <2>3. CASE Bounded!PutCount(p) \/ Bounded!PutPost(p)
    BY <2>3 DEF Bounded!PutCount, Bounded!PutPost
  <2> QED
    BY <1>2, <2>1, <2>2, <2>3 DEF Bounded!PutStep
<1>3. ASSUME NEW p \in FifoProducers, Bounded!PutCall(p) \/ Bounded!SpuriousWake(p) \/
            Bounded!PutTimeout(p)
      PROVE  FifoLocks'
  BY <1>3 DEF Bounded!PutCall, Bounded!SpuriousWake, Bounded!PutTimeout
<1>4. ASSUME NEW c \in FifoConsumers, Bounded!TakeStep(c) PROVE FifoLocks'
  <2>1. CASE Bounded!TakeLock(c)
    BY <2>1 DEF Bounded!TakeLock, Bounded!Free, Bounded!Deactivator
  <2>2. CASE Bounded!TakeEmpty(c) \/ Bounded!TakeNonEmpty(c) \/ Bounded!TakePop(c) \/
             Bounded!TakeCount(c)
    BY <2>2
    DEF Bounded!TakeEmpty, Bounded!TakeNonEmpty, Bounded!TakePop, Bounded!TakeCount
  <2>3. CASE Bounded!TakeNotify(c)
    BY <2>3 DEF Bounded!TakeNotify
  <2> QED
    BY <1>4, <2>1, <2>2, <2>3 DEF Bounded!TakeStep
<1>5. CASE Bounded!Deactivate
  BY <1>5 DEF Bounded!Deactivate
<1>6. CASE Bounded!DeactivateNotify
  BY <1>6 DEF Bounded!DeactivateNotify
<1> QED
  BY <1>1, <1>2, <1>3, <1>4, <1>5, <1>6 DEF Bounded!Next

LEMMA FifoNextListed ==
  FifoStructure /\ tail \in Bounded!Nodes /\ [Bounded!Next]_Bounded!vars
  => FifoListed'
<1> SUFFICES ASSUME FifoStructure, tail \in Bounded!Nodes, [Bounded!Next]_Bounded!vars
             PROVE  FifoListed'
  OBVIOUS
<1> USE BoundedAssumption
    DEF FifoStructure, FifoTyped, FifoLocks, FifoListed, Bounded!list, Bounded!Goto,
        Bounded!GotoC, FifoProducerLabels, FifoConsumerLabels,
        Bounded!BoundedFifoConstants
<1>1. CASE UNCHANGED Bounded!vars
  BY <1>1 DEF Bounded!vars
<1>2. ASSUME NEW p \in FifoProducers, Bounded!PutStep(p) PROVE FifoListed'
  <2>1. CASE Bounded!PutLock(p) \/ Bounded!PutTest(p) \/ Bounded!PutWait(p) \/
             Bounded!PutWake(p) \/ Bounded!PutReject(p)
             \/ Bounded!PutCheck(p) \/ Bounded!PutCount(p) \/ Bounded!PutPost(p)
    BY <2>1
    DEF Bounded!PutLock, Bounded!PutTest, Bounded!PutWait, Bounded!PutWake,
        Bounded!PutReject, Bounded!PutCheck, Bounded!PutCount, Bounded!PutPost
  <2>2. CASE Bounded!PutLink(p)
    <3>1. \A q \in FifoProducers : q # p => pcs[q] # "swing"
      BY <2>2 DEF Bounded!PutLink
    <3>2. next'[tail] = tail + 1 /\ va'[tail] = <<p, puts[p]>>
      BY <2>2 DEF Bounded!PutLink
    <3>3. \A n \in 0 .. tail - 1 : n \in Bounded!Nodes /\ next'[n] = next[n]
      BY <2>2, FifoItemsFinite DEF Bounded!PutLink, Bounded!Nodes
    <3> QED
      BY <2>2, <3>1, <3>2, <3>3 DEF Bounded!PutLink
  <2>3. CASE Bounded!PutSwing(p)
    <3>1. \A q \in FifoProducers : q # p => pcs[q] # "swing"
      BY <2>3 DEF Bounded!PutSwing
    <3> QED
      BY <2>3, <3>1 DEF Bounded!PutSwing
  <2> QED
    BY <1>2, <2>1, <2>2, <2>3 DEF Bounded!PutStep
<1>3. ASSUME NEW p \in FifoProducers, Bounded!PutCall(p) \/ Bounded!SpuriousWake(p) \/
            Bounded!PutTimeout(p)
      PROVE  FifoListed'
  BY <1>3 DEF Bounded!PutCall, Bounded!SpuriousWake, Bounded!PutTimeout
<1>4. ASSUME NEW c \in FifoConsumers, Bounded!TakeStep(c) PROVE FifoListed'
  <2>1. CASE Bounded!TakePop(c)
    <3>1. \A d \in FifoConsumers : d # c => cpc[d] # "pop"
      BY <2>1 DEF Bounded!TakePop
    <3>2. head < tail /\ head' = head + 1
      BY <2>1 DEF Bounded!TakePop
    <3>3. va'[tail] = va[tail]
      BY <2>1, <3>2 DEF Bounded!TakePop
    <3> QED
      BY <2>1, <3>1, <3>2, <3>3 DEF Bounded!TakePop
  <2>2. CASE Bounded!TakeNonEmpty(c)
    BY <2>2 DEF Bounded!TakeNonEmpty
  <2>3. CASE Bounded!TakeLock(c) \/ Bounded!TakeEmpty(c) \/ Bounded!TakeCount(c) \/
             Bounded!TakeNotify(c)
    BY <2>3
    DEF Bounded!TakeLock, Bounded!TakeEmpty, Bounded!TakeCount, Bounded!TakeNotify
  <2> QED
    BY <1>4, <2>1, <2>2, <2>3 DEF Bounded!TakeStep
<1>5. CASE Bounded!Deactivate \/ Bounded!DeactivateNotify
  BY <1>5 DEF Bounded!Deactivate, Bounded!DeactivateNotify
<1> QED
  BY <1>1, <1>2, <1>3, <1>4, <1>5 DEF Bounded!Next

\* count_ keeps up with the list, and the room that a put() has found.
LEMMA FifoNextCounting == FifoInv /\ [Bounded!Next]_Bounded!vars
      => FifoCounting' /\ FifoHasRoom'
<1> SUFFICES ASSUME FifoInv, [Bounded!Next]_Bounded!vars
             PROVE  FifoCounting' /\ FifoHasRoom'
  OBVIOUS
<1> USE BoundedAssumption
    DEF FifoInv, FifoStructure, FifoTyped, FifoLocks, FifoListed, FifoCounting,
        FifoHasRoom, Bounded!list, Bounded!active, Bounded!Goto, Bounded!GotoC,
        FifoProducerLabels, FifoConsumerLabels, Bounded!BoundedFifoConstants
<1>0. tail \in Bounded!Nodes
  BY FifoTailIsNode
<1>1. CASE UNCHANGED Bounded!vars
  BY <1>1 DEF Bounded!vars
<1>2. ASSUME NEW p \in FifoProducers, Bounded!PutStep(p)
      PROVE  FifoCounting' /\ FifoHasRoom'
  <2>1. CASE Bounded!PutTest(p)
    BY <2>1 DEF Bounded!PutTest, Bounded!full
  <2>2. CASE Bounded!PutLock(p) \/ Bounded!PutWait(p) \/ Bounded!PutWake(p) \/
             Bounded!PutReject(p)
    <3>1. CASE Bounded!PutLock(p)
      BY <3>1 DEF Bounded!PutLock
    <3>2. CASE Bounded!PutWait(p)
      BY <3>2 DEF Bounded!PutWait
    <3>3. CASE Bounded!PutWake(p)
      BY <3>3 DEF Bounded!PutWake
    <3>4. CASE Bounded!PutReject(p)
      BY <3>4 DEF Bounded!PutReject
    <3> QED
      BY <2>2, <3>1, <3>2, <3>3, <3>4
  <2>3. CASE Bounded!PutCheck(p) \/ Bounded!PutLink(p) \/ Bounded!PutPost(p)
    <3>1. CASE Bounded!PutCheck(p)
      BY <3>1 DEF Bounded!PutCheck
    <3>2. CASE Bounded!PutLink(p)
      BY <3>2 DEF Bounded!PutLink
    <3>3. CASE Bounded!PutPost(p)
      BY <3>3 DEF Bounded!PutPost
    <3> QED
      BY <2>3, <3>1, <3>2, <3>3
  <2>4. CASE Bounded!PutSwing(p)
    <3>1. \A q \in FifoProducers : pcs[q] # "count"
      BY <2>4 DEF Bounded!PutSwing
    <3>2. \E q \in FifoProducers : pcs'[q] = "count"
      BY <2>4 DEF Bounded!PutSwing
    <3> QED
      BY <2>4, <3>1, <3>2 DEF Bounded!PutSwing
  <2>5. CASE Bounded!PutCount(p)
    <3>1. \A q \in FifoProducers : pcs'[q] # "count"
      BY <2>5 DEF Bounded!PutCount
    <3>2. \A q \in FifoProducers : pcs'[q] \notin {"check", "link", "swing"}
      BY <2>5 DEF Bounded!PutCount
    <3> QED
      BY <2>5, <3>1, <3>2 DEF Bounded!PutCount
  <2> QED
    BY <1>2, <2>1, <2>2, <2>3, <2>4, <2>5 DEF Bounded!PutStep
<1>3. ASSUME NEW p \in FifoProducers, Bounded!PutCall(p) \/ Bounded!SpuriousWake(p) \/
            Bounded!PutTimeout(p)
      PROVE  FifoCounting' /\ FifoHasRoom'
  BY <1>3 DEF Bounded!PutCall, Bounded!SpuriousWake, Bounded!PutTimeout
<1>4. ASSUME NEW c \in FifoConsumers, Bounded!TakeStep(c)
      PROVE  FifoCounting' /\ FifoHasRoom'
  <2>1. CASE Bounded!TakePop(c)
    <3>1. \A d \in FifoConsumers : cpc[d] # "count"
      BY <2>1 DEF Bounded!TakePop
    <3>2. \E d \in FifoConsumers : cpc'[d] = "count"
      BY <2>1 DEF Bounded!TakePop
    <3>3. head' = head + 1
      BY <1>0, <2>1 DEF Bounded!TakePop
    <3> QED
      BY <2>1, <3>1, <3>2, <3>3 DEF Bounded!TakePop
  <2>2. CASE Bounded!TakeCount(c)
    <3>1. \A d \in FifoConsumers : cpc'[d] # "count"
      BY <2>2 DEF Bounded!TakeCount
    <3> QED
      BY <2>2, <3>1 DEF Bounded!TakeCount
  <2>3. CASE Bounded!TakeLock(c) \/ Bounded!TakeEmpty(c) \/ Bounded!TakeNonEmpty(c)
    BY <2>3 DEF Bounded!TakeLock, Bounded!TakeEmpty, Bounded!TakeNonEmpty
  <2>4. CASE Bounded!TakeNotify(c)
    BY <2>4 DEF Bounded!TakeNotify
  <2> QED
    BY <1>4, <2>1, <2>2, <2>3, <2>4 DEF Bounded!TakeStep
<1>5. CASE Bounded!Deactivate \/ Bounded!DeactivateNotify
  BY <1>5 DEF Bounded!Deactivate, Bounded!DeactivateNotify
<1> QED
  BY <1>1, <1>2, <1>3, <1>4, <1>5 DEF Bounded!Next

\* The step that moves tail_ is the one by which an item enters.
LEMMA FifoSwingEnters ==
  ASSUME FifoStructure, NEW p \in FifoProducers, Bounded!PutSwing(p)
  PROVE  /\ <<p, puts[p]>> \in Bounded!Items \ Bounded!Entered
         /\ Bounded!Entered' = Bounded!Entered \cup {<<p, puts[p]>>}
<1> USE DEF FifoStructure, FifoTyped, FifoLocks, Bounded!PutSwing, Bounded!Goto,
            FifoProducerLabels
<1>1. <<p, puts[p]>> \in Bounded!Items
  BY DEF Bounded!Items
<1>2. <<p, puts[p]>> \notin Bounded!Entered
  BY DEF Bounded!Entered
<1>3. ASSUME NEW x \in Bounded!Items
      PROVE  x \in Bounded!Entered' <=> x \in Bounded!Entered \/ x = <<p, puts[p]>>
  <2>1. PICK q \in FifoProducers, i \in 1 .. FifoPuts : x = <<q, i>>
    BY DEF Bounded!Items
  <2> QED
    BY <2>1 DEF Bounded!Entered
<1> QED
  BY <1>1, <1>2, <1>3 DEF Bounded!Entered

\* No other step does.
LEMMA FifoEnteredStays ==
  ASSUME FifoStructure, [Bounded!Next]_Bounded!vars,
        \A p \in FifoProducers : ~ Bounded!PutSwing(p)
  PROVE  Bounded!Entered' = Bounded!Entered
<1> SUFFICES ASSUME NEW x \in Bounded!Items
             PROVE  x \in Bounded!Entered' <=> x \in Bounded!Entered
  BY DEF Bounded!Entered
<1>0. PICK q \in FifoProducers, i \in 1 .. FifoPuts : x = <<q, i>>
  BY DEF Bounded!Items
<1> USE <1>0 DEF FifoStructure, FifoTyped, FifoLocks, Bounded!Entered, Bounded!list,
                 Bounded!Goto, FifoProducerLabels
<1>1. CASE UNCHANGED Bounded!vars
  BY <1>1 DEF Bounded!vars
<1>2. ASSUME NEW p \in FifoProducers, Bounded!PutStep(p)
      PROVE  x \in Bounded!Entered' <=> x \in Bounded!Entered
  <2>1. CASE Bounded!PutLock(p) \/ Bounded!PutTest(p) \/ Bounded!PutWait(p) \/
             Bounded!PutWake(p) \/ Bounded!PutCheck(p)
             \/ Bounded!PutLink(p) \/ Bounded!PutCount(p) \/ Bounded!PutPost(p)
    BY <2>1
    DEF Bounded!PutLock, Bounded!PutTest, Bounded!PutWait, Bounded!PutWake,
        Bounded!PutCheck, Bounded!PutLink, Bounded!PutCount, Bounded!PutPost
  <2>2. CASE Bounded!PutReject(p)
    BY <2>2 DEF Bounded!PutReject
  <2> QED
    BY <1>2, <2>1, <2>2 DEF Bounded!PutStep
<1>3. ASSUME NEW p \in FifoProducers, Bounded!PutCall(p) \/ Bounded!SpuriousWake(p) \/
            Bounded!PutTimeout(p)
      PROVE  x \in Bounded!Entered' <=> x \in Bounded!Entered
  BY <1>3 DEF Bounded!PutCall, Bounded!SpuriousWake, Bounded!PutTimeout
<1>4. ASSUME NEW c \in FifoConsumers, Bounded!TakeStep(c)
      PROVE  x \in Bounded!Entered' <=> x \in Bounded!Entered
  BY <1>4
  DEF Bounded!TakeStep, Bounded!TakeLock, Bounded!TakeEmpty, Bounded!TakeNonEmpty,
      Bounded!TakePop, Bounded!TakeCount, Bounded!TakeNotify
<1>5. CASE Bounded!Deactivate \/ Bounded!DeactivateNotify
  BY <1>5 DEF Bounded!Deactivate, Bounded!DeactivateNotify
<1> QED
  BY <1>1, <1>2, <1>3, <1>4, <1>5 DEF Bounded!Next

\* Nor does another move tail_.
LEMMA FifoTailStays ==
  ASSUME [Bounded!Next]_Bounded!vars, \A p \in FifoProducers : ~ Bounded!PutSwing(p)
  PROVE  tail' = tail
<1> USE DEF Bounded!list
<1>1. ASSUME NEW p \in FifoProducers, Bounded!PutCall(p) \/ Bounded!PutStep(p) \/
            Bounded!SpuriousWake(p) \/ Bounded!PutTimeout(p)
      PROVE  tail' = tail
  BY <1>1
  DEF Bounded!PutStep, Bounded!PutCall, Bounded!PutLock, Bounded!PutTest,
      Bounded!PutWait, Bounded!PutWake, Bounded!PutReject, Bounded!PutCheck,
              Bounded!PutLink, Bounded!PutCount, Bounded!PutPost, Bounded!SpuriousWake,
                  Bounded!PutTimeout
<1>2. ASSUME NEW c \in FifoConsumers, Bounded!TakeStep(c) PROVE tail' = tail
  BY <1>2
  DEF Bounded!TakeStep, Bounded!TakeLock, Bounded!TakeEmpty, Bounded!TakeNonEmpty,
      Bounded!TakePop, Bounded!TakeCount, Bounded!TakeNotify
<1>3. CASE Bounded!Deactivate \/ Bounded!DeactivateNotify
  BY <1>3 DEF Bounded!Deactivate, Bounded!DeactivateNotify
<1> QED
  BY <1>1, <1>2, <1>3 DEF Bounded!Next, Bounded!vars

LEMMA FifoNextAllListed == FifoInv /\ [Bounded!Next]_Bounded!vars => FifoAllListed'
<1> SUFFICES ASSUME FifoInv, [Bounded!Next]_Bounded!vars PROVE FifoAllListed'
  OBVIOUS
<1>1. IsFiniteSet(Bounded!Entered)
  BY FifoItemsFinite, FS_Subset DEF Bounded!Entered
<1>2. ASSUME NEW p \in FifoProducers, Bounded!PutSwing(p) PROVE FifoAllListed'
  <2>1. tail' = tail + 1
    BY <1>2, FifoTailIsNode
    DEF FifoInv, FifoStructure, FifoListed, FifoLocks, Bounded!PutSwing
  <2>2. Cardinality(Bounded!Entered') = Cardinality(Bounded!Entered) + 1
    BY <1>1, <1>2, FifoSwingEnters, FS_AddElement DEF FifoInv
  <2> QED
    BY <2>1, <2>2 DEF FifoInv, FifoAllListed
<1> QED
  BY <1>2, FifoEnteredStays, FifoTailStays DEF FifoInv, FifoAllListed

LEMMA FifoNextIInv == FifoInv /\ [Bounded!Next]_Bounded!vars => FifoInv'
  BY FifoNextTyped, FifoNextLocks, FifoNextListed, FifoNextCounting, FifoNextAllListed,
      FifoTailIsNode
  DEF FifoInv, FifoStructure

----------------------------------------------------------------------------
\* The items of a list between the positions of its head and its tail.
ItemsFrom(v, h, t) == [i \in 1 .. t - h |-> v[h + i - 1]]

LEMMA ItemsLength ==
  ASSUME NEW h \in Nat, NEW t \in Nat, h <= t, NEW v
  PROVE  Len(ItemsFrom(v, h, t)) = t - h
BY DEF ItemsFrom

\* One node more at the end of a list, one less at its front.
LEMMA OneNodeMore ==
  ASSUME NEW h \in Nat, NEW t \in Nat, h <= t, NEW v
  PROVE  ItemsFrom(v, h, t + 1) = Append(ItemsFrom(v, h, t), v[t])
<1> DEFINE s == [i \in 1 .. t - h |-> v[h + i - 1]]
<1>1. t - h \in Nat /\ Len(s) = t - h
  OBVIOUS
<1>2. Append(s, v[t]) = [i \in 1 .. Len(s) + 1 |-> IF i =
            Len(s) + 1 THEN v[t] ELSE s[i]]
  BY <1>1
<1>3. \A i \in 1 .. t + 1 - h : v[h + i - 1] = IF i = t - h + 1 THEN v[t] ELSE s[i]
  OBVIOUS
<1> QED
  BY <1>1, <1>2, <1>3 DEF ItemsFrom

LEMMA TailOf ==
  ASSUME NEW f, NEW n \in Nat \ {0}
  PROVE  Tail([i \in 1 .. n |-> f[i]]) = [i \in 1 .. n - 1 |-> f[i + 1]]
OBVIOUS

LEMMA OneNodeLess ==
  ASSUME NEW h \in Nat, NEW t \in Nat, h < t, NEW v
  PROVE  /\ ItemsFrom(v, h, t) # <<>>
         /\ ItemsFrom(v, h + 1, t) = Tail(ItemsFrom(v, h, t))
<1> DEFINE s == ItemsFrom(v, h, t)
<1>1. t - h \in Nat \ {0} /\ t - (h + 1) = t - h - 1 /\ s # <<>>
  <2>1. t - h \in Nat \ {0} /\ t - (h + 1) = t - h - 1
    OBVIOUS
  <2>2. Len(s) = t - h
    BY <2>1, ItemsLength
  <2> QED
    BY <2>1, <2>2
<1>2. s = [i \in 1 .. t - h |-> s[i]]
  BY DEF ItemsFrom
<1>3. \A i \in 1 .. t - (h + 1) : v[h + 1 + i - 1] = s[i + 1]
  BY DEF ItemsFrom
<1> HIDE DEF s
<1>4. Tail([i \in 1 .. t - h |-> s[i]]) = [i \in 1 .. t - h - 1 |-> s[i + 1]]
  BY <1>1, TailOf
<1>5. Tail(s) = [i \in 1 .. t - h - 1 |-> s[i + 1]]
  BY <1>2, <1>4, Zenon
<1>6. ItemsFrom(v, h + 1, t) = [i \in 1 .. t - h - 1 |-> s[i + 1]]
  BY <1>1, <1>3 DEF ItemsFrom
<1> QED
  BY <1>1, <1>5, <1>6 DEF s

\* Only what is between head and tail counts.
LEMMA SameItems ==
  ASSUME NEW h, NEW t, NEW v, NEW w, \A i \in 1 .. t - h : v[h + i - 1] = w[h + i - 1]
  PROVE  ItemsFrom(v, h, t) = ItemsFrom(w, h, t)
BY DEF ItemsFrom

FifoPending == ItemsFrom(va, head, tail)
fifoQueue == <<FifoPending, Bounded!Entered>>

\* A put() that has found room enters the item it has written.
LEMMA FifoSwingPuts ==
  ASSUME FifoInv, NEW p \in FifoProducers, Bounded!PutSwing(p)
  PROVE  Bounded!Queue!Put(<<p, puts[p]>>)
<1>1. /\ <<p, puts[p]>> \in Bounded!Items \ Bounded!Entered
      /\ Bounded!Entered' = Bounded!Entered \cup {<<p, puts[p]>>}
  BY FifoSwingEnters DEF FifoInv
<1>2. head \in Nat /\ tail \in Nat /\ head <= tail
  BY DEF FifoInv, FifoStructure, FifoTyped, FifoListed
<1>3. /\ pcs[p] = "swing" /\ tail' = tail + 1 /\ UNCHANGED <<head, va>>
      /\ va[tail] = <<p, puts[p]>>
  BY FifoTailIsNode DEF Bounded!PutSwing, FifoInv, FifoStructure, FifoListed
<1>4. FifoPending' = Append(FifoPending, <<p, puts[p]>>)
  <2>1. ItemsFrom(va, head, tail + 1) = Append(ItemsFrom(va, head, tail), va[tail])
    BY <1>2, OneNodeMore
  <2> QED
    BY <1>3, <2>1 DEF FifoPending
<1>5. Len(FifoPending) < FifoHwm
  <2>0. Len(FifoPending) = tail - head
    BY <1>2, ItemsLength DEF FifoPending
  <2>1. \A q \in FifoProducers : pcs[q] # "count"
    BY <1>3 DEF FifoInv, FifoStructure, FifoLocks
  <2>2. tail - head <= count
    BY <1>2, <2>1 DEF FifoInv, FifoStructure, FifoTyped, FifoCounting
  <2>3. count < FifoHwm
    BY <1>3 DEF FifoInv, FifoHasRoom
  <2> QED
    BY <1>2, <2>0, <2>2, <2>3, BoundedAssumption
    DEF FifoInv, FifoStructure, FifoTyped, Bounded!BoundedFifoConstants
<1> QED
  BY <1>1, <1>4, <1>5 DEF Bounded!Queue!Put, FifoPending, ItemsFrom

\* A try_take() takes the oldest item.
LEMMA FifoPopTakes ==
  ASSUME FifoInv, NEW c \in FifoConsumers, Bounded!TakePop(c)
  PROVE  Bounded!Queue!Take
<1> USE DEF FifoInv, FifoStructure
<1>1. head \in Nat /\ tail \in Nat /\ head < tail
  BY DEF FifoTyped, FifoListed, Bounded!TakePop
<1>2. head' = head + 1 /\ tail' = tail
  BY <1>1 DEF Bounded!TakePop, FifoListed
<1>3. \A i \in 1 .. tail - (head + 1) : va'[head + 1 + i - 1] = va[head + 1 + i - 1]
  BY <1>1 DEF Bounded!TakePop, FifoTyped
<1>4. FifoPending # <<>> /\ Tail(FifoPending) = ItemsFrom(va, head + 1, tail)
  BY <1>1, OneNodeLess DEF FifoPending
<1>6. FifoPending' = Tail(FifoPending)
  <2>1. ItemsFrom(va', head + 1, tail) = ItemsFrom(va, head + 1, tail)
    BY <1>3, SameItems
  <2> QED
    BY <1>2, <1>4, <2>1 DEF FifoPending
<1>5. Bounded!Entered' = Bounded!Entered
  BY DEF Bounded!TakePop, Bounded!Entered
<1> QED
  BY <1>4, <1>5, <1>6 DEF Bounded!Queue!Take, FifoPending, ItemsFrom

\* No other step changes the queue: an item is written behind its end.
LEMMA FifoOthersStutter ==
  ASSUME FifoInv, [Bounded!Next]_Bounded!vars,
        \A p \in FifoProducers : ~ Bounded!PutSwing(p),
         \A c \in FifoConsumers : ~ Bounded!TakePop(c)
  PROVE  UNCHANGED fifoQueue
<1> USE DEF FifoInv, FifoStructure, Bounded!list
<1>1. Bounded!Entered' = Bounded!Entered /\ tail' = tail
  BY FifoEnteredStays, FifoTailStays
<1>2. head' = head /\ \A n \in Bounded!Nodes : n # tail => va'[n] = va[n]
  <2>1. ASSUME NEW p \in FifoProducers, Bounded!PutStep(p) PROVE <1>2!1 /\ <1>2!2
    <3>1. CASE Bounded!PutLink(p)
      BY <3>1 DEF Bounded!PutLink, FifoTyped
    <3>2. CASE ~ Bounded!PutLink(p)
      BY <2>1, <3>2
      DEF Bounded!PutStep, Bounded!PutLock, Bounded!PutTest, Bounded!PutWait,
          Bounded!PutWake, Bounded!PutReject, Bounded!PutCheck,
                        Bounded!PutCount, Bounded!PutPost
    <3> QED
      BY <3>1, <3>2
  <2>2. ASSUME NEW p \in FifoProducers, Bounded!PutCall(p) \/ Bounded!SpuriousWake(p) \/
              Bounded!PutTimeout(p)
        PROVE  UNCHANGED <<head, va>>
    BY <2>2 DEF Bounded!PutCall, Bounded!SpuriousWake, Bounded!PutTimeout
  <2>3. ASSUME NEW c \in FifoConsumers, Bounded!TakeStep(c) PROVE UNCHANGED <<head, va>>
    BY <2>3
    DEF Bounded!TakeStep, Bounded!TakeLock, Bounded!TakeEmpty, Bounded!TakeNonEmpty,
        Bounded!TakeCount, Bounded!TakeNotify
  <2>4. CASE Bounded!Deactivate \/ Bounded!DeactivateNotify
    BY <2>4 DEF Bounded!Deactivate, Bounded!DeactivateNotify
  <2> QED
    BY <2>1, <2>2, <2>3, <2>4 DEF Bounded!Next, Bounded!vars
<1>3. \A i \in 1 .. tail - head : va'[head + i - 1] = va[head + i - 1]
  <2>1. \A i \in 1 .. tail - head :
          /\ head + i - 1 \in Bounded!Nodes
          /\ head + i - 1 # tail
    BY FifoTailIsNode, FifoItemsFinite DEF FifoTyped, FifoListed, Bounded!Nodes
  <2> QED
    BY <1>2, <2>1
<1>4. FifoPending' = FifoPending
  BY <1>1, <1>2, <1>3, SameItems DEF FifoPending
<1> QED
  BY <1>1, <1>4 DEF fifoQueue

\* The two-lock list of bounded_fifo_base is a bounded first-in first-out queue,
\* for any number of threads and any watermarks: no interleaving of put() and
\* try_take() loses, duplicates or reorders an item, or takes more than hwm_
\* (bounded_fifo.hpp:170-239).
THEOREM FifoIsQueue == Bounded!Spec => BoundedIsQueue
<1>1. Bounded!Init => Bounded!Queue!Init
  <2> SUFFICES ASSUME Bounded!Init PROVE Bounded!Queue!Init
    OBVIOUS
  <2>1. [i \in 1 .. tail - head |-> va[head + i - 1]] = <<>>
    BY DEF Bounded!Init
  <2>2. Bounded!Entered = {}
    BY DEF Bounded!Init, Bounded!Entered, Bounded!Items
  <2> QED
    BY <2>1, <2>2 DEF Bounded!Queue!Init
<1>2. FifoInv /\ [Bounded!Next]_Bounded!vars => [Bounded!Queue!Next]_fifoQueue
  <2> SUFFICES ASSUME FifoInv, [Bounded!Next]_Bounded!vars
               PROVE  Bounded!Queue!Next \/ UNCHANGED fifoQueue
    OBVIOUS
  <2>1. ASSUME NEW p \in FifoProducers, Bounded!PutSwing(p) PROVE Bounded!Queue!Next
    <3>1. <<p, puts[p]>> \in Bounded!Items
      BY <2>1, FifoSwingEnters DEF FifoInv
    <3> QED
      BY <2>1, <3>1, FifoSwingPuts DEF Bounded!Queue!Next, Bounded!Queue!Put
  <2>2. ASSUME NEW c \in FifoConsumers, Bounded!TakePop(c) PROVE Bounded!Queue!Next
    BY <2>2, FifoPopTakes DEF Bounded!Queue!Next
  <2> QED
    BY <2>1, <2>2, FifoOthersStutter
<1> QED
  BY FifoInitIInv, FifoNextIInv, <1>1, <1>2, PTL
  DEF Bounded!Spec, BoundedIsQueue, Bounded!ImplementsBoundedQueue, Bounded!Queue!Spec,
      fifoQueue, FifoPending, ItemsFrom
----------------------------------------------------------------------------
\* Who tests after deactivate() stored the state finds it changed.
FifoLate ==
  /\ late \subseteq FifoProducers
  /\ late # {} => ~ Bounded!active
  /\ Bounded!NothingEntersLate

LEMMA FifoNextLate == FifoTyped /\ FifoLate /\ [Bounded!Next]_Bounded!vars => FifoLate'
<1> SUFFICES ASSUME FifoTyped, FifoLate, [Bounded!Next]_Bounded!vars PROVE FifoLate'
  OBVIOUS
<1> USE DEF FifoTyped, FifoLate, Bounded!NothingEntersLate, Bounded!active,
            Bounded!list, Bounded!Goto, FifoProducerLabels
<1>1. CASE UNCHANGED Bounded!vars
  BY <1>1 DEF Bounded!vars
<1>2. ASSUME NEW p \in FifoProducers, Bounded!PutStep(p) PROVE FifoLate'
  <2>1. CASE Bounded!PutLock(p) \/ Bounded!PutTest(p) \/ Bounded!PutWait(p) \/
             Bounded!PutWake(p)
    BY <2>1 DEF Bounded!PutLock, Bounded!PutTest, Bounded!PutWait, Bounded!PutWake
  <2>2. CASE Bounded!PutReject(p) \/ Bounded!PutCheck(p)
    BY <2>2 DEF Bounded!PutReject, Bounded!PutCheck
  <2>3. CASE Bounded!PutLink(p) \/ Bounded!PutSwing(p) \/ Bounded!PutCount(p) \/
             Bounded!PutPost(p)
    BY <2>3 DEF Bounded!PutLink, Bounded!PutSwing, Bounded!PutCount, Bounded!PutPost
  <2> QED
    BY <1>2, <2>1, <2>2, <2>3 DEF Bounded!PutStep
<1>3. ASSUME NEW p \in FifoProducers, Bounded!PutCall(p) \/ Bounded!SpuriousWake(p) \/
            Bounded!PutTimeout(p)
      PROVE  FifoLate'
  <2>1. CASE Bounded!PutCall(p)
    BY <2>1 DEF Bounded!PutCall
  <2>2. CASE Bounded!SpuriousWake(p) \/ Bounded!PutTimeout(p)
    BY <2>2 DEF Bounded!SpuriousWake, Bounded!PutTimeout
  <2> QED
    BY <1>3, <2>1, <2>2
<1>4. ASSUME NEW c \in FifoConsumers, Bounded!TakeStep(c) PROVE FifoLate'
  BY <1>4
  DEF Bounded!TakeStep, Bounded!TakeLock, Bounded!TakeEmpty, Bounded!TakeNonEmpty,
      Bounded!TakePop, Bounded!TakeCount, Bounded!TakeNotify
<1>5. CASE Bounded!Deactivate \/ Bounded!DeactivateNotify
  BY <1>5 DEF Bounded!Deactivate, Bounded!DeactivateNotify
<1> QED
  BY <1>1, <1>2, <1>3, <1>4, <1>5 DEF Bounded!Next

\* Once deactivate() has stored the state no put() adds an item but one that is
\* past its last test, for any number of producers: also one that slept while the
\* queue was drained tests the state again (bounded_fifo.hpp:181, :207).
THEOREM LateIsRejected == Bounded!Spec => []NothingEntersLate
<1>1. Bounded!Init => FifoLate
  BY DEF Bounded!Init, FifoLate, Bounded!NothingEntersLate, Bounded!active
<1>2. FifoInv /\ FifoLate /\ [Bounded!Next]_Bounded!vars => FifoLate'
  BY FifoNextLate DEF FifoInv, FifoStructure
<1> QED
  BY FifoInitIInv, FifoNextIInv, <1>1, <1>2, PTL
  DEF Bounded!Spec, FifoLate, NothingEntersLate, Bounded!NothingEntersLate

----------------------------------------------------------------------------
(* UnboundedFifo.                                                          *)

\* The instance counts as this module does.
LEMMA ChainCounts ==
  ASSUME NEW S
  PROVE  Unbounded!Cardinality(S) = Cardinality(S) /\ (Unbounded!IsFiniteSet(S)
        <=> IsFiniteSet(S))
  BY DEF Cardinality, Unbounded!Cardinality, IsFiniteSet, Unbounded!IsFiniteSet

ChainThreads == FifoProducers \cup FifoConsumers
ChainLabels ==
  {"idle", "lock", "check", "link", "swing", "unlock", "return", "get_tail",
        "got_tail", "pop"}

\* The typing the proofs need.
ChainTyped ==
  /\ pc2 \in [ChainThreads -> ChainLabels]
  /\ puts2 \in [FifoProducers -> 0 .. OpenPuts]
  /\ mine \in [ChainThreads -> Nat]
  /\ va2 \in [Unbounded!Nodes -> Unbounded!Items \cup {Unbounded!None}]
  /\ next2 \in [Unbounded!Nodes -> Int]
  /\ head2 \in Nat /\ tail2 \in Nat

\* Who holds tail_mtx_ and head_mtx_; an item that is being put has a number.
ChainLocks ==
  /\ \A p \in FifoProducers :
       /\ pc2[p] \in {"check", "link", "swing", "unlock"} => tailMtx2 = p
       /\ pc2[p] # "idle" => puts2[p] >= 1
  /\ \A c \in FifoConsumers :
       /\ pc2[c] = "got_tail" => tailMtx2 = c
       /\ pc2[c] # "idle" => headMtx2 = c

\* The list: every node before tail_ is linked and written, but for the head that
\* a consumer has swapped out and not yet popped.
ChainListed ==
  /\ head2 <= tail2
  /\ \A n \in 0 .. tail2 - 1 : next2[n] = n + 1
  /\ \A n \in head2 + 1 .. tail2 - 1 : va2[n] # Unbounded!None
  /\ \A p \in FifoProducers :
       pc2[p] = "swing" =>
         /\ next2[tail2] = tail2 + 1 /\ va2[tail2] = <<p, puts2[p]>>
         /\ mine[p] = tail2 + 1
  /\ \A c \in FifoConsumers :
       /\ pc2[c] = "got_tail" => mine[c] = tail2
       /\ pc2[c] = "pop" => head2 < tail2
       /\ pc2[c] = "swing" => head2 < tail2 /\ va2[head2] = Unbounded!None
  /\ head2 < tail2 /\ va2[head2] = Unbounded!None
           => \E c \in FifoConsumers : pc2[c] = "swing"

ChainAllListed == tail2 = Cardinality(Unbounded!Entered)

ChainStructure == ChainTyped /\ ChainLocks /\ ChainListed
ChainInv == ChainStructure /\ ChainAllListed

\* There are finitely many items, and so many nodes.
LEMMA ChainItemsFinite ==
  /\ IsFiniteSet(Unbounded!Items) /\ Cardinality(Unbounded!Items) \in Nat
  /\ Unbounded!Cardinality(Unbounded!Items) = Cardinality(Unbounded!Items)
<1>1. IsFiniteSet(1 .. OpenPuts)
  BY UnboundedAssumption, FS_Interval DEF Unbounded!UnboundedFifoConstants
<1> QED
  BY <1>1, UnboundedAssumption, FS_Product, FS_CardinalityType, ChainCounts
  DEF Unbounded!UnboundedFifoConstants, Unbounded!Items

LEMMA ChainInitIInv == Unbounded!Init => ChainInv
<1> SUFFICES ASSUME Unbounded!Init PROVE ChainInv
  OBVIOUS
<1> USE UnboundedAssumption, ChainItemsFinite DEF Unbounded!Init,
                                                  Unbounded!UnboundedFifoConstants,
                                                      Unbounded!Nodes, Unbounded!Items,
                                                          Unbounded!None, ChainThreads
<1>1. ChainTyped
  BY DEF ChainTyped, ChainLabels, Unbounded!Nil
<1>2. ChainLocks /\ ChainListed
  BY DEF ChainLocks, ChainListed
<1>4. Unbounded!Entered = {}
  BY DEF Unbounded!Entered
<1> QED
  BY <1>1, <1>2, <1>4, FS_EmptySet DEF ChainInv, ChainStructure, ChainAllListed

\* tail_ is a node.
LEMMA ChainTailIsNode == ChainAllListed => tail2 \in Unbounded!Nodes
<1>1. Unbounded!Entered \subseteq Unbounded!Items
  BY DEF Unbounded!Entered
<1> QED
  BY <1>1, ChainItemsFinite, FS_Subset, FS_CardinalityType
  DEF ChainAllListed, Unbounded!Nodes

LEMMA ChainNextTyped ==
  ChainStructure /\ tail2 \in Unbounded!Nodes /\ [Unbounded!Next]_Unbounded!vars
  => ChainTyped'
<1> SUFFICES ASSUME ChainStructure, tail2 \in Unbounded!Nodes,
          [Unbounded!Next]_Unbounded!vars
             PROVE  ChainTyped'
  OBVIOUS
<1> USE UnboundedAssumption
    DEF ChainStructure, ChainTyped, ChainLocks, ChainListed, Unbounded!list,
        Unbounded!counts, Unbounded!Goto, Unbounded!At, ChainLabels, ChainThreads,
        Unbounded!UnboundedFifoConstants
<1>1. CASE UNCHANGED Unbounded!vars
  BY <1>1 DEF Unbounded!vars
<1>2. ASSUME NEW p \in FifoProducers, Unbounded!PutStep(p) PROVE ChainTyped'
  <2>1. CASE Unbounded!PutCall(p)
    <3>1. puts2' \in [FifoProducers -> 0 .. OpenPuts]
      BY <2>1 DEF Unbounded!PutCall
    <3> QED
      BY <2>1, <3>1 DEF Unbounded!PutCall
  <2>2. CASE Unbounded!PutReject(p)
    <3>1. puts2' \in [FifoProducers -> 0 .. OpenPuts]
      <4>1. pc2[p] = "check"
        BY <2>2 DEF Unbounded!PutReject
      <4>2. puts2[p] \in 0 .. OpenPuts /\ puts2[p] >= 1
        BY <4>1
      <4>3. puts2[p] - 1 \in 0 .. OpenPuts
        BY <4>2
      <4> QED
        BY <2>2, <4>3 DEF Unbounded!PutReject
    <3> QED
      BY <2>2, <3>1 DEF Unbounded!PutReject
  <2>5. CASE Unbounded!PutLock(p) \/ Unbounded!PutCheck(p)
    BY <2>5 DEF Unbounded!PutLock, Unbounded!PutCheck
  <2>6. CASE Unbounded!PutUnlock(p) \/ Unbounded!PutReturn(p)
    <3>1. CASE Unbounded!PutUnlock(p)
      BY <3>1 DEF Unbounded!PutUnlock
    <3>2. CASE Unbounded!PutReturn(p)
      BY <3>2 DEF Unbounded!PutReturn
    <3> QED
      BY <2>6, <3>1, <3>2
  <2>3. CASE Unbounded!PutLink(p)
    <3>1. <<p, puts2[p]>> \in Unbounded!Items
      BY <2>3 DEF Unbounded!PutLink, Unbounded!Items
    <3> QED
      BY <2>3, <3>1 DEF Unbounded!PutLink
  <2>4. CASE Unbounded!PutSwing(p)
    BY <2>4 DEF Unbounded!PutSwing
  <2> QED
    BY <1>2, <2>1, <2>2, <2>3, <2>4, <2>5, <2>6 DEF Unbounded!PutStep
<1>3. ASSUME NEW t \in ChainThreads, Unbounded!Load(t) \/ Unbounded!Store(t)
      PROVE  ChainTyped'
  <2>1. CASE Unbounded!Load(t)
    BY <2>1 DEF Unbounded!Load
  <2>2. CASE Unbounded!Store(t)
    BY <2>2 DEF Unbounded!Store
  <2> QED
    BY <1>3, <2>1, <2>2
<1>4. ASSUME NEW c \in FifoConsumers, Unbounded!TakeStep(c) PROVE ChainTyped'
  <2>1. CASE Unbounded!TakePop(c)
    <3>1. next2[head2] \in Nat
      <4>1. pc2[c] = "swing" /\ head2 \in Nat /\ tail2 \in Nat
        BY <2>1 DEF Unbounded!TakePop
      <4>2. head2 < tail2
        BY <4>1
      <4>3. head2 \in 0 .. tail2 - 1
        BY <4>1, <4>2
      <4>4. next2[head2] = head2 + 1
        BY <4>3
      <4> QED
        BY <4>1, <4>4
    <3> QED
      BY <2>1, <3>1 DEF Unbounded!TakePop
  <2>2. CASE Unbounded!TakeItem(c)
    BY <2>2 DEF Unbounded!TakeItem
  <2>3. CASE Unbounded!TakeLock(c) \/ Unbounded!TakeUnlock(c)
    BY <2>3 DEF Unbounded!TakeLock, Unbounded!TakeUnlock
  <2>4. CASE Unbounded!TakeTail(c)
    BY <2>4 DEF Unbounded!TakeTail
  <2>5. CASE Unbounded!TakeCompare(c)
    BY <2>5 DEF Unbounded!TakeCompare
  <2> QED
    BY <1>4, <2>1, <2>2, <2>3, <2>4, <2>5 DEF Unbounded!TakeStep
<1>5. CASE Unbounded!Deactivate
  BY <1>5 DEF Unbounded!Deactivate
<1> QED
  BY <1>1, <1>2, <1>3, <1>4, <1>5 DEF Unbounded!Next

LEMMA ChainNextLocks == ChainStructure /\ [Unbounded!Next]_Unbounded!vars => ChainLocks'
<1> SUFFICES ASSUME ChainStructure, [Unbounded!Next]_Unbounded!vars PROVE ChainLocks'
  OBVIOUS
<1> USE UnboundedAssumption
    DEF ChainStructure, ChainTyped, ChainLocks, Unbounded!list, Unbounded!counts,
        Unbounded!Goto, Unbounded!At, ChainLabels, ChainThreads,
        Unbounded!UnboundedFifoConstants
<1>1. CASE UNCHANGED Unbounded!vars
  BY <1>1 DEF Unbounded!vars
<1>2. ASSUME NEW p \in FifoProducers, Unbounded!PutStep(p) PROVE ChainLocks'
  <2>1. CASE Unbounded!PutCall(p)
    BY <2>1 DEF Unbounded!PutCall
  <2>5. CASE Unbounded!PutReject(p)
    BY <2>5 DEF Unbounded!PutReject
  <2>2. CASE Unbounded!PutLock(p) \/ Unbounded!PutCheck(p)
    BY <2>2 DEF Unbounded!PutLock, Unbounded!PutCheck
  <2>3. CASE Unbounded!PutLink(p) \/ Unbounded!PutSwing(p)
    BY <2>3 DEF Unbounded!PutLink, Unbounded!PutSwing
  <2>4. CASE Unbounded!PutUnlock(p) \/ Unbounded!PutReturn(p)
    BY <2>4 DEF Unbounded!PutUnlock, Unbounded!PutReturn
  <2> QED
    BY <1>2, <2>1, <2>2, <2>3, <2>4, <2>5 DEF Unbounded!PutStep
<1>3. ASSUME NEW t \in ChainThreads, Unbounded!Load(t) \/ Unbounded!Store(t)
      PROVE  ChainLocks'
  BY <1>3 DEF Unbounded!Load, Unbounded!Store
<1>4. ASSUME NEW c \in FifoConsumers, Unbounded!TakeStep(c) PROVE ChainLocks'
  <2>1. CASE Unbounded!TakeLock(c) \/ Unbounded!TakeTail(c)
    BY <2>1 DEF Unbounded!TakeLock, Unbounded!TakeTail
  <2>2. CASE Unbounded!TakeCompare(c) \/ Unbounded!TakeItem(c)
    BY <2>2 DEF Unbounded!TakeCompare, Unbounded!TakeItem
  <2>3. CASE Unbounded!TakePop(c) \/ Unbounded!TakeUnlock(c)
    <3>1. CASE Unbounded!TakePop(c)
      BY <3>1 DEF Unbounded!TakePop
    <3>2. CASE Unbounded!TakeUnlock(c)
      BY <3>2 DEF Unbounded!TakeUnlock
    <3> QED
      BY <2>3, <3>1, <3>2
  <2> QED
    BY <1>4, <2>1, <2>2, <2>3 DEF Unbounded!TakeStep
<1>5. CASE Unbounded!Deactivate
  BY <1>5 DEF Unbounded!Deactivate
<1> QED
  BY <1>1, <1>2, <1>3, <1>4, <1>5 DEF Unbounded!Next

LEMMA ChainNextListed ==
  ChainStructure /\ tail2 \in Unbounded!Nodes /\ [Unbounded!Next]_Unbounded!vars
  => ChainListed'
<1> SUFFICES ASSUME ChainStructure, tail2 \in Unbounded!Nodes,
          [Unbounded!Next]_Unbounded!vars
             PROVE  ChainListed'
  OBVIOUS
<1> USE UnboundedAssumption
    DEF ChainStructure, ChainTyped, ChainLocks, ChainListed, Unbounded!list,
        Unbounded!counts, Unbounded!Goto, Unbounded!At, ChainLabels, ChainThreads,
        Unbounded!UnboundedFifoConstants
<1>1. CASE UNCHANGED Unbounded!vars
  BY <1>1 DEF Unbounded!vars
<1>2. ASSUME NEW p \in FifoProducers, Unbounded!PutStep(p) PROVE ChainListed'
  <2>1. CASE Unbounded!PutCall(p) \/ Unbounded!PutReject(p)
    <3>1. CASE Unbounded!PutCall(p)
      BY <3>1 DEF Unbounded!PutCall
    <3>2. CASE Unbounded!PutReject(p)
      BY <3>2 DEF Unbounded!PutReject
    <3> QED
      BY <2>1, <3>1, <3>2
  <2>2. CASE Unbounded!PutLock(p) \/ Unbounded!PutCheck(p) \/ Unbounded!PutUnlock(p) \/
             Unbounded!PutReturn(p)
    <3>1. CASE Unbounded!PutLock(p)
      BY <3>1 DEF Unbounded!PutLock
    <3>2. CASE Unbounded!PutCheck(p)
      BY <3>2 DEF Unbounded!PutCheck
    <3>3. CASE Unbounded!PutUnlock(p)
      BY <3>3 DEF Unbounded!PutUnlock
    <3>4. CASE Unbounded!PutReturn(p)
      BY <3>4 DEF Unbounded!PutReturn
    <3> QED
      BY <2>2, <3>1, <3>2, <3>3, <3>4
  <2>3. CASE Unbounded!PutLink(p)
    <3>1. \A q \in FifoProducers : q # p => pc2[q] # "swing"
      BY <2>3 DEF Unbounded!PutLink
    <3>2. /\ next2'[tail2] = tail2 + 1 /\ va2'[tail2] = <<p, puts2[p]>>
          /\ mine'[p] = tail2 + 1
      BY <2>3 DEF Unbounded!PutLink
    <3>3. \A n \in 0 .. tail2 - 1 :
            /\ n \in Unbounded!Nodes /\ next2'[n] = next2[n]
            /\ va2'[n] = va2[n]
      <4>1. \A n \in 0 .. tail2 - 1 : n \in Unbounded!Nodes /\ n # tail2 /\ n # tail2 + 1
        BY ChainItemsFinite DEF Unbounded!Nodes
      <4>2. \A n \in Unbounded!Nodes :
              n # tail2 /\ n # tail2 + 1 => next2'[n] = next2[n] /\ va2'[n] = va2[n]
        BY <2>3 DEF Unbounded!PutLink
      <4> QED
        BY <4>1, <4>2
    <3>4. \A c \in FifoConsumers : pc2'[c] = pc2[c] /\ mine'[c] = mine[c]
      BY <2>3 DEF Unbounded!PutLink
    <3>5. head2' = head2 /\ tail2' = tail2
      BY <2>3 DEF Unbounded!PutLink
    <3>6. \A q \in FifoProducers : pc2'[q] = "swing" => q = p
      BY <2>3, <3>1 DEF Unbounded!PutLink
    <3> HIDE DEF Unbounded!Goto
    <3>7. puts2' = puts2
      BY <2>3 DEF Unbounded!PutLink
    <3>8. \A c \in FifoConsumers : pc2[c] # "got_tail"
      BY <2>3 DEF Unbounded!PutLink
    <3> QED
      BY <3>2, <3>3, <3>4, <3>5, <3>6, <3>7, <3>8
  <2>4. CASE Unbounded!PutSwing(p)
    <3>1. \A q \in FifoProducers : pc2'[q] # "swing"
      BY <2>4 DEF Unbounded!PutSwing
    <3>2. tail2' = tail2 + 1 /\ UNCHANGED <<head2, va2, next2, mine>>
      BY <2>4 DEF Unbounded!PutSwing
    <3>3. va2[tail2] # Unbounded!None /\ next2[tail2] = tail2 + 1
      <4>1. va2[tail2] = <<p, puts2[p]>> /\ next2[tail2] = tail2 + 1
        BY <2>4 DEF Unbounded!PutSwing
      <4> QED
        BY <4>1, <<p, puts2[p]>> # <<>> DEF Unbounded!None
    <3>4. \A c \in FifoConsumers : pc2'[c] = pc2[c] /\ pc2[c] # "got_tail"
      BY <2>4 DEF Unbounded!PutSwing
    <3> QED
      BY <3>1, <3>2, <3>3, <3>4
  <2> QED
    BY <1>2, <2>1, <2>2, <2>3, <2>4 DEF Unbounded!PutStep
<1>3. ASSUME NEW t \in ChainThreads, Unbounded!Load(t) \/ Unbounded!Store(t)
      PROVE  ChainListed'
  <2>1. CASE Unbounded!Load(t)
    BY <2>1 DEF Unbounded!Load
  <2>2. CASE Unbounded!Store(t)
    BY <2>2 DEF Unbounded!Store
  <2> QED
    BY <1>3, <2>1, <2>2
<1>4. ASSUME NEW c \in FifoConsumers, Unbounded!TakeStep(c) PROVE ChainListed'
  <2>1. CASE Unbounded!TakePop(c)
    <3>1. \A d \in FifoConsumers : d # c => pc2[d] = "idle"
      BY <2>1 DEF Unbounded!TakePop
    <3>2. head2 < tail2 /\ head2' = head2 + 1
      BY <2>1 DEF Unbounded!TakePop
    <3>3. UNCHANGED <<tail2, va2, next2, mine, puts2>>
      BY <2>1 DEF Unbounded!TakePop
    <3>4. \A q \in FifoProducers : pc2'[q] = pc2[q]
      BY <2>1 DEF Unbounded!TakePop
    <3>5. pc2'[c] = "unlock" /\ \A d \in FifoConsumers : d # c => pc2'[d] = "idle"
      BY <2>1, <3>1 DEF Unbounded!TakePop
    <3>6. head2 + 1 < tail2 => va2[head2 + 1] # Unbounded!None
      BY <3>2
    <3> QED
      BY <3>2, <3>3, <3>4, <3>5, <3>6
  <2>2. CASE Unbounded!TakeItem(c)
    <3>1. \A d \in FifoConsumers : d # c => pc2[d] = "idle"
      BY <2>2 DEF Unbounded!TakeItem
    <3>3. \A n \in head2 .. tail2 : n \in Unbounded!Nodes
      BY ChainItemsFinite DEF Unbounded!Nodes
    <3>2. /\ va2'[head2] = Unbounded!None
          /\ \A n \in Unbounded!Nodes : n # head2 => va2'[n] = va2[n]
      BY <2>2, <3>3 DEF Unbounded!TakeItem
    <3>4. UNCHANGED <<head2, tail2, next2, mine, puts2>> /\ head2 < tail2
      BY <2>2 DEF Unbounded!TakeItem
    <3>5. \A q \in FifoProducers : pc2'[q] = pc2[q]
      BY <2>2 DEF Unbounded!TakeItem
    <3>6. pc2'[c] = "swing" /\ \A d \in FifoConsumers : d # c => pc2'[d] = "idle"
      BY <2>2, <3>1 DEF Unbounded!TakeItem
    <3>7. \A n \in head2 + 1 .. tail2 : va2'[n] = va2[n]
      BY <3>2, <3>3
    <3> QED
      BY <3>2, <3>4, <3>5, <3>6, <3>7
  <2>3. CASE Unbounded!TakeCompare(c)
    <3>1. UNCHANGED <<head2, tail2, next2, va2, mine, puts2>>
      BY <2>3 DEF Unbounded!TakeCompare
    <3>2. \A q \in ChainThreads : q # c => pc2'[q] = pc2[q]
      BY <2>3 DEF Unbounded!TakeCompare
    <3>3. pc2[c] = "got_tail" /\ pc2'[c] = IF head2 = tail2 THEN "unlock" ELSE "pop"
      BY <2>3 DEF Unbounded!TakeCompare
    <3>4. head2 < tail2 => head2 # tail2
      OBVIOUS
    <3>5. \A q \in FifoProducers : q # c /\ pc2'[q] = pc2[q]
      BY <3>2
    <3> QED
      BY <3>1, <3>2, <3>3, <3>4, <3>5
  <2>4. CASE Unbounded!TakeTail(c)
    BY <2>4 DEF Unbounded!TakeTail
  <2>5. CASE Unbounded!TakeLock(c) \/ Unbounded!TakeUnlock(c)
    <3>1. CASE Unbounded!TakeLock(c)
      BY <3>1 DEF Unbounded!TakeLock
    <3>2. CASE Unbounded!TakeUnlock(c)
      BY <3>2 DEF Unbounded!TakeUnlock
    <3> QED
      BY <2>5, <3>1, <3>2
  <2> QED
    BY <1>4, <2>1, <2>2, <2>3, <2>4, <2>5 DEF Unbounded!TakeStep
<1>5. CASE Unbounded!Deactivate
  BY <1>5 DEF Unbounded!Deactivate
<1> QED
  BY <1>1, <1>2, <1>3, <1>4, <1>5 DEF Unbounded!Next
\* The step that moves tail_ is the one by which an item enters.
LEMMA ChainSwingEnters ==
  ASSUME ChainStructure, NEW p \in FifoProducers, Unbounded!PutSwing(p)
  PROVE  /\ <<p, puts2[p]>> \in Unbounded!Items \ Unbounded!Entered
         /\ Unbounded!Entered' = Unbounded!Entered \cup {<<p, puts2[p]>>}
<1> USE DEF ChainStructure, ChainTyped, ChainLocks, Unbounded!PutSwing, Unbounded!Goto,
            Unbounded!At, ChainLabels, ChainThreads
<1>1. <<p, puts2[p]>> \in Unbounded!Items
  BY DEF Unbounded!Items
<1>2. <<p, puts2[p]>> \notin Unbounded!Entered
  BY DEF Unbounded!Entered
<1>3. ASSUME NEW x \in Unbounded!Items
      PROVE  x \in Unbounded!Entered' <=> x \in Unbounded!Entered \/ x = <<p, puts2[p]>>
  <2>1. PICK q \in FifoProducers, i \in 1 .. OpenPuts : x = <<q, i>>
    BY DEF Unbounded!Items
  <2> QED
    BY <2>1 DEF Unbounded!Entered
<1>4. /\ Unbounded!Entered \subseteq Unbounded!Items
      /\ Unbounded!Entered' \subseteq Unbounded!Items
  BY DEF Unbounded!Entered
<1> QED
  BY <1>1, <1>2, <1>3, <1>4

\* No other step does.
LEMMA ChainEnteredStays ==
  ASSUME ChainStructure, [Unbounded!Next]_Unbounded!vars,
        \A p \in FifoProducers : ~ Unbounded!PutSwing(p)
  PROVE  Unbounded!Entered' = Unbounded!Entered
<1> SUFFICES ASSUME NEW x \in Unbounded!Items
             PROVE  x \in Unbounded!Entered' <=> x \in Unbounded!Entered
  BY DEF Unbounded!Entered
<1>0. PICK q \in FifoProducers, i \in 1 .. OpenPuts : x = <<q, i>>
  BY DEF Unbounded!Items
<1> USE <1>0, UnboundedAssumption
    DEF ChainStructure, ChainTyped, ChainLocks, Unbounded!Entered, Unbounded!list,
        Unbounded!Goto, Unbounded!At, ChainLabels, ChainThreads,
        Unbounded!UnboundedFifoConstants
<1>1. CASE UNCHANGED Unbounded!vars
  BY <1>1 DEF Unbounded!vars
<1>2. ASSUME NEW p \in FifoProducers, Unbounded!PutStep(p)
      PROVE  x \in Unbounded!Entered' <=> x \in Unbounded!Entered
  <2>1. CASE Unbounded!PutLock(p) \/ Unbounded!PutCheck(p) \/ Unbounded!PutLink(p) \/
             Unbounded!PutUnlock(p) \/ Unbounded!PutReturn(p)
    <3>1. CASE Unbounded!PutLock(p)
      BY <3>1 DEF Unbounded!PutLock
    <3>2. CASE Unbounded!PutCheck(p)
      BY <3>2 DEF Unbounded!PutCheck
    <3>3. CASE Unbounded!PutLink(p)
      BY <3>3 DEF Unbounded!PutLink
    <3>4. CASE Unbounded!PutUnlock(p)
      BY <3>4 DEF Unbounded!PutUnlock
    <3>5. CASE Unbounded!PutReturn(p)
      BY <3>5 DEF Unbounded!PutReturn
    <3> QED
      BY <2>1, <3>1, <3>2, <3>3, <3>4, <3>5
  <2>2. CASE Unbounded!PutCall(p)
    BY <2>2 DEF Unbounded!PutCall
  <2>3. CASE Unbounded!PutReject(p)
    BY <2>3 DEF Unbounded!PutReject
  <2> QED
    BY <1>2, <2>1, <2>2, <2>3 DEF Unbounded!PutStep
<1>3. ASSUME NEW t \in ChainThreads, Unbounded!Load(t) \/ Unbounded!Store(t)
      PROVE  x \in Unbounded!Entered' <=> x \in Unbounded!Entered
  BY <1>3 DEF Unbounded!Load, Unbounded!Store
<1>4. ASSUME NEW c \in FifoConsumers, Unbounded!TakeStep(c)
      PROVE  x \in Unbounded!Entered' <=> x \in Unbounded!Entered
  BY <1>4
  DEF Unbounded!TakeStep, Unbounded!TakeLock, Unbounded!TakeTail,
      Unbounded!TakeCompare, Unbounded!TakeItem, Unbounded!TakePop, Unbounded!TakeUnlock
<1>5. CASE Unbounded!Deactivate
  BY <1>5 DEF Unbounded!Deactivate
<1> QED
  BY <1>1, <1>2, <1>3, <1>4, <1>5 DEF Unbounded!Next

\* Nor does another move tail_.
LEMMA ChainTailStays ==
  ASSUME [Unbounded!Next]_Unbounded!vars,
        \A p \in FifoProducers : ~ Unbounded!PutSwing(p)
  PROVE  tail2' = tail2
<1> USE DEF Unbounded!list
<1>1. ASSUME NEW p \in FifoProducers, Unbounded!PutStep(p) PROVE tail2' = tail2
  BY <1>1
  DEF Unbounded!PutStep, Unbounded!PutCall, Unbounded!PutLock, Unbounded!PutReject,
      Unbounded!PutCheck, Unbounded!PutLink, Unbounded!PutUnlock, Unbounded!PutReturn
<1>2. ASSUME NEW c \in FifoConsumers, Unbounded!TakeStep(c) PROVE tail2' = tail2
  BY <1>2
  DEF Unbounded!TakeStep, Unbounded!TakeLock, Unbounded!TakeTail,
      Unbounded!TakeCompare, Unbounded!TakeItem, Unbounded!TakePop, Unbounded!TakeUnlock
<1>3. ASSUME NEW t, Unbounded!Load(t) \/ Unbounded!Store(t) PROVE tail2' = tail2
  BY <1>3 DEF Unbounded!Load, Unbounded!Store
<1>4. CASE Unbounded!Deactivate
  BY <1>4 DEF Unbounded!Deactivate
<1> QED
  BY <1>1, <1>2, <1>3, <1>4 DEF Unbounded!Next, Unbounded!vars

LEMMA ChainNextAllListed == ChainInv /\ [Unbounded!Next]_Unbounded!vars
      => ChainAllListed'
<1> SUFFICES ASSUME ChainInv, [Unbounded!Next]_Unbounded!vars PROVE ChainAllListed'
  OBVIOUS
<1>1. IsFiniteSet(Unbounded!Entered)
  BY ChainItemsFinite, FS_Subset DEF Unbounded!Entered
<1>2. ASSUME NEW p \in FifoProducers, Unbounded!PutSwing(p) PROVE ChainAllListed'
  <2>1. tail2' = tail2 + 1
    BY <1>2 DEF ChainInv, ChainStructure, ChainListed, Unbounded!PutSwing, Unbounded!At
  <2>2. Cardinality(Unbounded!Entered') = Cardinality(Unbounded!Entered) + 1
    BY <1>1, <1>2, ChainSwingEnters, FS_AddElement DEF ChainInv
  <2> QED
    BY <2>1, <2>2 DEF ChainInv, ChainAllListed
<1> QED
  BY <1>2, ChainEnteredStays, ChainTailStays DEF ChainInv, ChainAllListed

LEMMA ChainNextIInv == ChainInv /\ [Unbounded!Next]_Unbounded!vars => ChainInv'
  BY ChainNextTyped, ChainNextLocks, ChainNextListed, ChainNextAllListed,
      ChainTailIsNode DEF ChainInv, ChainStructure
----------------------------------------------------------------------------
\* The items in the list.
ChainPending == ItemsFrom(va2, Unbounded!Written, tail2)
chainQueue == <<ChainPending, Unbounded!Entered>>

\* Written is where the list of items begins.
LEMMA ChainWrittenIs ==
  ASSUME ChainStructure
  PROVE  /\ Unbounded!Written \in Nat
         /\ head2 <= Unbounded!Written
         /\ Unbounded!Written <= tail2
         /\ (\E c \in FifoConsumers : pc2[c] = "swing") => Unbounded!Written = head2 + 1
         /\ (~ \E c \in FifoConsumers : pc2[c] = "swing") => Unbounded!Written = head2
  BY DEF ChainStructure, ChainTyped, ChainListed, Unbounded!Written

\* A put() enters the item it has written.
LEMMA ChainSwingPuts ==
  ASSUME ChainInv, ChainInv', NEW p \in FifoProducers, Unbounded!PutSwing(p)
  PROVE  Unbounded!Queue!Put(<<p, puts2[p]>>)
<1>1. /\ <<p, puts2[p]>> \in Unbounded!Items \ Unbounded!Entered
      /\ Unbounded!Entered' = Unbounded!Entered \cup {<<p, puts2[p]>>}
  BY ChainSwingEnters DEF ChainInv
<1>2. Unbounded!Written \in Nat /\ tail2 \in Nat /\ Unbounded!Written <= tail2
  BY ChainWrittenIs DEF ChainInv, ChainStructure, ChainTyped
<1>3. tail2' = tail2 + 1 /\ UNCHANGED <<head2, va2>> /\ va2[tail2] = <<p, puts2[p]>>
  BY DEF Unbounded!PutSwing, Unbounded!At, ChainInv, ChainStructure, ChainListed
<1>4. Unbounded!Written' = Unbounded!Written
  <2>1. va2[tail2] # Unbounded!None
    BY <1>3, <<p, puts2[p]>> # <<>> DEF Unbounded!None
  <2>2. head2 \in Nat /\ head2 <= tail2
    BY DEF ChainInv, ChainStructure, ChainTyped, ChainListed
  <2>3. head2' = head2 /\ tail2' = tail2 + 1 /\ va2'[head2] = va2[head2]
    BY <1>3
  <2>4. head2' # tail2'
    BY <1>2, <2>2, <2>3
  <2>5. CASE head2 = tail2
    <3>1. va2'[head2'] # Unbounded!None
      BY <2>1, <2>3, <2>5 DEF Unbounded!None
    <3> QED
      BY <2>3, <2>5, <3>1 DEF Unbounded!Written
  <2>6. CASE head2 # tail2
    BY <2>3, <2>4, <2>6 DEF Unbounded!Written
  <2> QED
    BY <2>5, <2>6
<1>5. ChainPending' = Append(ChainPending, <<p, puts2[p]>>)
  <2>1. ItemsFrom(va2, Unbounded!Written, tail2 + 1)
          = Append(ItemsFrom(va2, Unbounded!Written, tail2), va2[tail2])
    BY <1>2, OneNodeMore
  <2> QED
    BY <1>3, <1>4, <2>1 DEF ChainPending
<1>6. Len(ChainPending) < Cardinality(Unbounded!Items)
  <2>1. tail2 < Cardinality(Unbounded!Items)
    <3>1. /\ tail2' = Cardinality(Unbounded!Entered')
          /\ Unbounded!Entered' \subseteq Unbounded!Items
      BY DEF ChainInv, ChainAllListed, Unbounded!Entered
    <3> QED
      BY <1>2, <1>3, <3>1, ChainItemsFinite, FS_Subset, FS_CardinalityType
  <2>2. Len(ChainPending) = tail2 - Unbounded!Written
    BY <1>2, ItemsLength DEF ChainPending
  <2>3. Cardinality(Unbounded!Items) \in Nat
    BY ChainItemsFinite
  <2> QED
    BY <1>2, <2>1, <2>2, <2>3
<1> QED
  BY <1>1, <1>5, <1>6, ChainItemsFinite
  DEF Unbounded!Queue!Put, ChainPending, ItemsFrom

\* A try_take() takes the oldest item when it swaps it out.
LEMMA ChainItemTakes ==
  ASSUME ChainInv, ChainInv', NEW c \in FifoConsumers, Unbounded!TakeItem(c)
  PROVE  Unbounded!Queue!Take
<1> USE DEF ChainInv, ChainStructure
<1>1. head2 \in Nat /\ tail2 \in Nat /\ head2 < tail2
  BY DEF ChainTyped, ChainListed, Unbounded!TakeItem, Unbounded!At
<1>2. Unbounded!Written = head2
  <2>1. \A d \in FifoConsumers : pc2[d] # "swing"
    BY DEF Unbounded!TakeItem, Unbounded!At, ChainLocks
  <2> QED
    BY <2>1, ChainWrittenIs
<1>3. head2' = head2 /\ tail2' = tail2
  BY DEF Unbounded!TakeItem
<1>4. Unbounded!Written' = head2 + 1
  <2>1. pc2'[c] = "swing"
    BY DEF Unbounded!TakeItem, Unbounded!Goto, ChainTyped, ChainThreads
  <2> QED
    BY <1>1, <1>3, <2>1 DEF ChainListed, Unbounded!Written
<1>5. \A i \in 1 .. tail2 - (head2 + 1) : va2'[head2 + 1 + i - 1] = va2[head2 + 1 + i - 1]
  BY <1>1 DEF Unbounded!TakeItem, ChainTyped
<1>6. ChainPending # <<>> /\ Tail(ChainPending) = ItemsFrom(va2, head2 + 1, tail2)
  BY <1>1, <1>2, OneNodeLess DEF ChainPending
<1>7. ChainPending' = Tail(ChainPending)
  <2>1. ItemsFrom(va2', head2 + 1, tail2) = ItemsFrom(va2, head2 + 1, tail2)
    BY <1>5, SameItems
  <2> QED
    BY <1>3, <1>4, <1>6, <2>1 DEF ChainPending
<1>8. Unbounded!Entered' = Unbounded!Entered
  BY <1>1, UnboundedAssumption
  DEF Unbounded!TakeItem, Unbounded!Entered, Unbounded!Goto, ChainTyped, ChainThreads,
      Unbounded!Items, Unbounded!UnboundedFifoConstants
<1> QED
  BY <1>6, <1>7, <1>8 DEF Unbounded!Queue!Take, ChainPending, ItemsFrom

\* No other step changes the queue: an item is written behind its end, and popping
\* the head moves past the item that is out.
LEMMA ChainOthersStutter ==
  ASSUME ChainInv, ChainInv', [Unbounded!Next]_Unbounded!vars,
        \A p \in FifoProducers : ~ Unbounded!PutSwing(p),
         \A c \in FifoConsumers : ~ Unbounded!TakeItem(c)
  PROVE  UNCHANGED chainQueue
<1> USE DEF ChainInv, ChainStructure, Unbounded!list
<1>1. Unbounded!Entered' = Unbounded!Entered /\ tail2' = tail2
  BY ChainEnteredStays, ChainTailStays
<1>2. Unbounded!Written' = Unbounded!Written /\ \A n \in Unbounded!Nodes : n # tail2
            => va2'[n] = va2[n]
  <2>1. ASSUME NEW p \in FifoProducers, Unbounded!PutStep(p) PROVE <1>2!1 /\ <1>2!2
    <3>1. CASE Unbounded!PutLink(p)
      <4>1. head2' = head2 /\ \A n \in Unbounded!Nodes : n # tail2 => va2'[n] = va2[n]
        BY <3>1 DEF Unbounded!PutLink, ChainTyped
      <4>2. head2 # tail2 => va2'[head2] = va2[head2]
        BY <4>1, ChainTailIsNode, ChainItemsFinite
        DEF Unbounded!Nodes, ChainTyped, ChainListed
      <4> QED
        BY <1>1, <4>1, <4>2 DEF Unbounded!Written
    <3>2. CASE ~ Unbounded!PutLink(p)
      BY <1>1, <2>1, <3>2
      DEF Unbounded!PutStep, Unbounded!PutCall, Unbounded!PutLock, Unbounded!PutReject,
          Unbounded!PutCheck, Unbounded!PutUnlock, Unbounded!PutReturn,
              Unbounded!Written
    <3> QED
      BY <3>1, <3>2
  <2>2. ASSUME NEW t, Unbounded!Load(t) \/ Unbounded!Store(t) \/ Unbounded!Deactivate
        PROVE  UNCHANGED <<head2, va2>>
    BY <2>2 DEF Unbounded!Load, Unbounded!Store, Unbounded!Deactivate
  <2>3. ASSUME NEW c \in FifoConsumers, Unbounded!TakeStep(c), ~ Unbounded!TakePop(c)
        PROVE  UNCHANGED <<head2, va2>>
    BY <2>3
    DEF Unbounded!TakeStep, Unbounded!TakeLock, Unbounded!TakeTail,
        Unbounded!TakeCompare, Unbounded!TakeUnlock
  <2>4. ASSUME NEW c \in FifoConsumers, Unbounded!TakePop(c) PROVE <1>2!1 /\ <1>2!2
    <3>1. Unbounded!Written = head2 + 1
      BY <2>4, ChainWrittenIs DEF Unbounded!TakePop, Unbounded!At
    <3>2. head2' = head2 + 1 /\ va2' = va2
      BY <2>4, ChainTailIsNode
      DEF Unbounded!TakePop, Unbounded!At, ChainTyped, ChainListed
    <3>3. Unbounded!Written' = head2'
      <4>1. \A n \in head2 + 1 .. tail2 - 1 : va2[n] # Unbounded!None
        BY DEF ChainListed
      <4>2. head2 + 1 # tail2 => va2[head2 + 1] # Unbounded!None
        BY <2>4, <4>1 DEF Unbounded!TakePop, Unbounded!At, ChainTyped, ChainListed
      <4> QED
        BY <1>1, <3>2, <4>2 DEF Unbounded!Written
    <3> QED
      BY <3>1, <3>2, <3>3
  <2>5. ASSUME UNCHANGED <<head2, va2>> PROVE <1>2!1 /\ <1>2!2
    BY <1>1, <2>5 DEF Unbounded!Written
  <2>6. CASE UNCHANGED Unbounded!vars
    BY <2>5, <2>6 DEF Unbounded!vars
  <2>7. ASSUME NEW c \in FifoConsumers, Unbounded!TakeStep(c) PROVE <1>2!1 /\ <1>2!2
    BY <2>3, <2>4, <2>5, <2>7
  <2> QED
    BY <2>1, <2>2, <2>5, <2>6, <2>7 DEF Unbounded!Next
<1>3. \A i \in 1 .. tail2 - Unbounded!Written :
        va2'[Unbounded!Written + i - 1] = va2[Unbounded!Written + i - 1]
  <2>1. Unbounded!Written \in Nat /\ Unbounded!Written <= tail2
    BY ChainWrittenIs
  <2>2. tail2 \in Nat /\ \A n \in 0 .. tail2 : n \in Unbounded!Nodes
    BY ChainTailIsNode, ChainItemsFinite DEF ChainTyped, Unbounded!Nodes
  <2>3. \A i \in 1 .. tail2 - Unbounded!Written :
          /\ Unbounded!Written + i - 1 \in 0 .. tail2
          /\ Unbounded!Written + i - 1 # tail2
    BY <2>1, <2>2
  <2> QED
    BY <1>2, <2>2, <2>3
<1>4. ChainPending' = ChainPending
  BY <1>1, <1>2, <1>3, SameItems DEF ChainPending
<1> QED
  BY <1>1, <1>4 DEF chainQueue

\* So is the list of unbounded_fifo_base, for any number of threads, as long as no
\* node is deleted that it reaches, whatever its counts are
\* (unbounded_fifo.hpp:136-158).
THEOREM ListIsQueue == Unbounded!Spec => UnboundedIsQueue
<1>1. Unbounded!Init => Unbounded!Queue!Init
  <2> SUFFICES ASSUME Unbounded!Init PROVE Unbounded!Queue!Init
    OBVIOUS
  <2>1. [i \in 1 .. tail2 - Unbounded!Written |-> va2[Unbounded!Written + i - 1]] = <<>>
    BY DEF Unbounded!Init, Unbounded!Written
  <2>2. Unbounded!Entered = {}
    BY DEF Unbounded!Init, Unbounded!Entered, Unbounded!Items
  <2> QED
    BY <2>1, <2>2 DEF Unbounded!Queue!Init
<1>2. ChainInv /\ ChainInv' /\ [Unbounded!Next]_Unbounded!vars
            => [Unbounded!Queue!Next]_chainQueue
  <2> SUFFICES ASSUME ChainInv, ChainInv', [Unbounded!Next]_Unbounded!vars
               PROVE  Unbounded!Queue!Next \/ UNCHANGED chainQueue
    OBVIOUS
  <2>1. ASSUME NEW p \in FifoProducers, Unbounded!PutSwing(p) PROVE Unbounded!Queue!Next
    <3>1. <<p, puts2[p]>> \in Unbounded!Items
      BY <2>1, ChainSwingEnters DEF ChainInv
    <3> QED
      BY <2>1, <3>1, ChainSwingPuts DEF Unbounded!Queue!Next, Unbounded!Queue!Put
  <2>2. ASSUME NEW c \in FifoConsumers, Unbounded!TakeItem(c) PROVE Unbounded!Queue!Next
    BY <2>2, ChainItemTakes DEF Unbounded!Queue!Next
  <2> QED
    BY <2>1, <2>2, ChainOthersStutter
<1> QED
  BY ChainInitIInv, ChainNextIInv, <1>1, <1>2, PTL
  DEF Unbounded!Spec, UnboundedIsQueue, Unbounded!ImplementsQueue,
      Unbounded!Queue!Spec, chainQueue, ChainPending, ItemsFrom

----------------------------------------------------------------------------
(***************************************************************************)
(* The nodes of the list are deleted neither too early nor too late, as    *)
(* long as no change of a count was lost.  The invariant says of every     *)
(* node up to tail_ that its count is the number of references to it: from *)
(* head_, tail_ and the node before it, which a node loses when that is    *)
(* deleted, and from the threads, which keep one in a local variable or    *)
(* are about to let go of it; and that it is deleted exactly when there    *)
(* are none.  The deleted nodes are the first ones of the list.            *)
(***************************************************************************)
One(P) == IF P THEN 1 ELSE 0

\* The shapes a thread's changes may have.
Minus(n)      == <<<<n, -1>>>>
MinusTwice(n) == <<<<n, -1>>, <<n, -1>>>>
Plus(n)       == <<<<n, 1>>>>
PlusBoth(n)   == <<<<n, 1>>, <<n + 1, 1>>>>

Releases(t) ==
  \/ changes[t] = <<>>
  \/ \E n \in 0 .. tail2 : changes[t] \in {Minus(n), MinusTwice(n)}

Shape(t) ==
  IF t \in FifoConsumers /\ pc2[t] = "got_tail" THEN changes[t] \in {Plus(tail2), <<>>}
  ELSE IF t \in FifoConsumers /\ pc2[t] = "swing"
         THEN changes[t] \in {PlusBoth(head2), Plus(head2 + 1), <<>>}
  ELSE Releases(t)

\* The references that a thread has to node n, or will release.
Keeps(t, n) ==
  /\ mine[t] = n
  /\ \/ t \in FifoProducers /\ pc2[t] \in {"unlock", "return"}
     \/ t \in FifoConsumers /\ pc2[t] = "got_tail" /\ changes[t] = <<>>
KeepsOld(t, n) ==
  /\ head2 = n
  /\ t \in FifoConsumers /\ pc2[t] = "swing"
  /\ changes[t] \in {Plus(n + 1), <<>>}
KeepsNew(t, n) ==
  /\ head2 + 1 = n
  /\ t \in FifoConsumers /\ pc2[t] = "swing" /\ changes[t] = <<>>
LetsGo(t, n)      == changes[t] \in {Minus(n), MinusTwice(n)}
LetsGoTwice(t, n) == changes[t] = MinusTwice(n)

ByThreads(n) ==
  Cardinality({t \in ChainThreads : Keeps(t, n)})
   + Cardinality({t \in ChainThreads : KeepsOld(t, n)})
   + Cardinality({t \in ChainThreads : KeepsNew(t, n)})
   + Cardinality({t \in ChainThreads : LetsGo(t, n)})
   + Cardinality({t \in ChainThreads : LetsGoTwice(t, n)})

ByList(n) == One(head2 = n) + One(tail2 = n) + One(n > 0 /\ n - 1 \notin freed)

NodesTyped ==
  /\ uses \in [Unbounded!Nodes -> Int]
  /\ changes \in [ChainThreads -> Seq(Int \X {-1, 1})]
  /\ loaded \in [ChainThreads -> Seq(Int)]

Shaped(t) ==
  /\ Shape(t)
  /\ loaded[t] # Unbounded!None => changes[t] # <<>>
  /\ t \in FifoProducers /\ pc2[t] \in {"unlock", "return"} => mine[t] <= tail2
  /\ t \in FifoProducers /\ pc2[t] = "swing" /\ tail2 + 1 \in Unbounded!Nodes =>
       uses[tail2 + 1] = 2

ChangesShaped == \A t \in ChainThreads : Shaped(t)

CountsRight ==
  \A n \in 0 .. tail2 :
    /\ uses[n] = ByList(n) + ByThreads(n)
    /\ uses[n] = 0 <=> n \in freed

FreedFirst == \E k \in 0 .. head2 : freed = 0 .. k - 1

NodesInv == NodesTyped /\ ChangesShaped /\ CountsRight /\ FreedFirst

----------------------------------------------------------------------------
\* The shapes differ, and what Load() and Store() make of them.
LEMMA ShapesDiffer ==
  ASSUME NEW m \in Int, NEW n \in Int
  PROVE  /\ <<>> \notin {Minus(n), MinusTwice(n), Plus(n), PlusBoth(n)}
         /\ Minus(n) \notin {MinusTwice(m), Plus(m), PlusBoth(m)}
         /\ MinusTwice(n) \notin {Plus(m), PlusBoth(m)}
         /\ Plus(n) # PlusBoth(m)
         /\ Minus(n) = Minus(m) => n = m
         /\ MinusTwice(n) = MinusTwice(m) => n = m
         /\ Plus(n) = Plus(m) => n = m
BY DEF Minus, MinusTwice, Plus, PlusBoth

\* The first change of each shape, and what follows it.
LEMMA ShapesUse ==
  ASSUME NEW n \in Int
  PROVE  /\ Head(Minus(n))[1] = n /\ Head(Minus(n))[2] = -1 /\ Tail(Minus(n)) = <<>>
         /\ Head(MinusTwice(n))[1] = n /\ Head(MinusTwice(n))[2] = -1
         /\ Tail(MinusTwice(n)) = Minus(n)
         /\ Head(Plus(n))[1] = n /\ Head(Plus(n))[2] = 1 /\ Tail(Plus(n)) = <<>>
         /\ Head(PlusBoth(n))[1] = n /\ Head(PlusBoth(n))[2] = 1
         /\ Tail(PlusBoth(n)) = Plus(n + 1)
         /\ <<<<n, -1>>>> \o <<>> = Minus(n)
         /\ {Minus(n), MinusTwice(n), Plus(n), PlusBoth(n)} \subseteq Seq(Int \X {-1, 1})
<1>1. {<<n, -1>>, <<n, 1>>, <<n + 1, 1>>} \subseteq Int \X {-1, 1}
  OBVIOUS
<1> QED
  BY <1>1 DEF Minus, MinusTwice, Plus, PlusBoth

\* A set of threads in which only t may change.
LEMMA OneThread ==
  ASSUME NEW S, NEW R, S \subseteq ChainThreads, R \subseteq ChainThreads,
         NEW t \in ChainThreads, \A s \in ChainThreads : s # t => (s \in R <=> s \in S)
  PROVE  /\ Cardinality(S) \in Nat /\ Cardinality(R) \in Nat
         /\ Cardinality(R) = Cardinality(S) + One(t \in R) - One(t \in S)
         /\ One(t \in S) <= Cardinality(S)
<1>1. IsFiniteSet(ChainThreads)
  BY UnboundedAssumption, ChainCounts, FS_Union
  DEF Unbounded!UnboundedFifoConstants, ChainThreads
<1>2. /\ IsFiniteSet(S) /\ IsFiniteSet(R) /\ IsFiniteSet(S \ {t})
      /\ Cardinality(S) \in Nat /\ Cardinality(R) \in Nat /\ Cardinality(S \ {t}) \in Nat
  BY <1>1, FS_Subset, FS_CardinalityType
<1>3. S \ {t} = R \ {t}
  OBVIOUS
<1>4. ASSUME NEW T, IsFiniteSet(T)
      PROVE  Cardinality(T \ {t}) = Cardinality(T) - One(t \in T)
  BY <1>4, FS_RemoveElement, FS_CardinalityType DEF One
<1> QED
  BY <1>2, <1>3, <1>4 DEF One

\* The references that are thread t's.
Share(t, n) == One(Keeps(t, n)) + One(KeepsOld(t, n)) + One(KeepsNew(t, n))
                 + One(LetsGo(t, n)) + One(LetsGoTwice(t, n))

\* What the threads other than t keep.
OthersKeep(t, n) ==
  \A s \in ChainThreads : s # t =>
    /\ Keeps(s, n)' <=> Keeps(s, n)
    /\ KeepsOld(s, n)' <=> KeepsOld(s, n)
    /\ KeepsNew(s, n)' <=> KeepsNew(s, n)
    /\ LetsGo(s, n)' <=> LetsGo(s, n)
    /\ LetsGoTwice(s, n)' <=> LetsGoTwice(s, n)

\* When only t's references change, the number of them all changes with t's.
LEMMA Shares ==
  ASSUME NEW t \in ChainThreads, NEW n, OthersKeep(t, n)
  PROVE  /\ ByThreads(n) \in Nat /\ ByThreads(n)' \in Nat
         /\ ByThreads(n)' = ByThreads(n) + Share(t, n)' - Share(t, n)
         /\ Share(t, n) <= ByThreads(n)
<1> DEFINE A == {s \in ChainThreads : Keeps(s, n)}
           A2 == {s \in ChainThreads : Keeps(s, n)'}
           B == {s \in ChainThreads : KeepsOld(s, n)}
           B2 == {s \in ChainThreads : KeepsOld(s, n)'}
           C == {s \in ChainThreads : KeepsNew(s, n)}
           C2 == {s \in ChainThreads : KeepsNew(s, n)'}
           D == {s \in ChainThreads : LetsGo(s, n)}
           D2 == {s \in ChainThreads : LetsGo(s, n)'}
           E == {s \in ChainThreads : LetsGoTwice(s, n)}
           E2 == {s \in ChainThreads : LetsGoTwice(s, n)'}
<1>1. /\ Cardinality(A) \in Nat /\ Cardinality(A2) \in Nat
      /\ Cardinality(A2) = Cardinality(A) + One(Keeps(t, n)') - One(Keeps(t, n))
      /\ One(Keeps(t, n)) <= Cardinality(A)
      /\ One(Keeps(t, n)) \in Nat /\ One(Keeps(t, n)') \in Nat
  <2>1. /\ A \subseteq ChainThreads /\ A2 \subseteq ChainThreads
        /\ \A s \in ChainThreads : s # t => (s \in A2 <=> s \in A)
    BY DEF OthersKeep
  <2>2. One(t \in A) = One(Keeps(t, n)) /\ One(t \in A2) = One(Keeps(t, n)')
    BY DEF One
  <2>3. One(Keeps(t, n)) \in Nat /\ One(Keeps(t, n)') \in Nat
    BY DEF One
  <2> HIDE DEF A, A2
  <2> QED
    BY <2>1, <2>2, <2>3, OneThread
<1>2. /\ Cardinality(B) \in Nat /\ Cardinality(B2) \in Nat
      /\ Cardinality(B2) = Cardinality(B) + One(KeepsOld(t, n)') - One(KeepsOld(t, n))
      /\ One(KeepsOld(t, n)) <= Cardinality(B)
      /\ One(KeepsOld(t, n)) \in Nat /\ One(KeepsOld(t, n)') \in Nat
  <2>1. /\ B \subseteq ChainThreads /\ B2 \subseteq ChainThreads
        /\ \A s \in ChainThreads : s # t => (s \in B2 <=> s \in B)
    BY DEF OthersKeep
  <2>2. One(t \in B) = One(KeepsOld(t, n)) /\ One(t \in B2) = One(KeepsOld(t, n)')
    BY DEF One
  <2>3. One(KeepsOld(t, n)) \in Nat /\ One(KeepsOld(t, n)') \in Nat
    BY DEF One
  <2> HIDE DEF B, B2
  <2> QED
    BY <2>1, <2>2, <2>3, OneThread
<1>3. /\ Cardinality(C) \in Nat /\ Cardinality(C2) \in Nat
      /\ Cardinality(C2) = Cardinality(C) + One(KeepsNew(t, n)') - One(KeepsNew(t, n))
      /\ One(KeepsNew(t, n)) <= Cardinality(C)
      /\ One(KeepsNew(t, n)) \in Nat /\ One(KeepsNew(t, n)') \in Nat
  <2>1. /\ C \subseteq ChainThreads /\ C2 \subseteq ChainThreads
        /\ \A s \in ChainThreads : s # t => (s \in C2 <=> s \in C)
    BY DEF OthersKeep
  <2>2. One(t \in C) = One(KeepsNew(t, n)) /\ One(t \in C2) = One(KeepsNew(t, n)')
    BY DEF One
  <2>3. One(KeepsNew(t, n)) \in Nat /\ One(KeepsNew(t, n)') \in Nat
    BY DEF One
  <2> HIDE DEF C, C2
  <2> QED
    BY <2>1, <2>2, <2>3, OneThread
<1>4. /\ Cardinality(D) \in Nat /\ Cardinality(D2) \in Nat
      /\ Cardinality(D2) = Cardinality(D) + One(LetsGo(t, n)') - One(LetsGo(t, n))
      /\ One(LetsGo(t, n)) <= Cardinality(D)
      /\ One(LetsGo(t, n)) \in Nat /\ One(LetsGo(t, n)') \in Nat
  <2>1. /\ D \subseteq ChainThreads /\ D2 \subseteq ChainThreads
        /\ \A s \in ChainThreads : s # t => (s \in D2 <=> s \in D)
    BY DEF OthersKeep
  <2>2. One(t \in D) = One(LetsGo(t, n)) /\ One(t \in D2) = One(LetsGo(t, n)')
    BY DEF One
  <2>3. One(LetsGo(t, n)) \in Nat /\ One(LetsGo(t, n)') \in Nat
    BY DEF One
  <2> HIDE DEF D, D2
  <2> QED
    BY <2>1, <2>2, <2>3, OneThread
<1>5. /\ Cardinality(E) \in Nat /\ Cardinality(E2) \in Nat
      /\ Cardinality(E2) = Cardinality(E) + One(LetsGoTwice(t, n)') - One(LetsGoTwice(t, n))
      /\ One(LetsGoTwice(t, n)) <= Cardinality(E)
      /\ One(LetsGoTwice(t, n)) \in Nat /\ One(LetsGoTwice(t, n)') \in Nat
  <2>1. /\ E \subseteq ChainThreads /\ E2 \subseteq ChainThreads
        /\ \A s \in ChainThreads : s # t => (s \in E2 <=> s \in E)
    BY DEF OthersKeep
  <2>2. One(t \in E) = One(LetsGoTwice(t, n)) /\ One(t \in E2) = One(LetsGoTwice(t, n)')
    BY DEF One
  <2>3. One(LetsGoTwice(t, n)) \in Nat /\ One(LetsGoTwice(t, n)') \in Nat
    BY DEF One
  <2> HIDE DEF E, E2
  <2> QED
    BY <2>1, <2>2, <2>3, OneThread
<1>6. /\ ByThreads(n) = Cardinality(A) + Cardinality(B) + Cardinality(C)
                           + Cardinality(D) + Cardinality(E)
      /\ ByThreads(n)' = Cardinality(A2) + Cardinality(B2) + Cardinality(C2)
                           + Cardinality(D2) + Cardinality(E2)
  BY DEF ByThreads, ChainThreads
<1> HIDE DEF A, B, C, D, E, A2, B2, C2, D2, E2
<1>7. /\ Share(t, n) = One(Keeps(t, n)) + One(KeepsOld(t, n)) + One(KeepsNew(t, n))
                         + One(LetsGo(t, n)) + One(LetsGoTwice(t, n))
      /\ Share(t, n)' = One(Keeps(t, n)') + One(KeepsOld(t, n)') + One(KeepsNew(t, n)')
                         + One(LetsGo(t, n)') + One(LetsGoTwice(t, n)')
  BY DEF Share, One
<1> QED
  BY <1>1, <1>2, <1>3, <1>4, <1>5, <1>6, <1>7


\* One count changes.
LEMMA OneCount ==
  ASSUME uses \in [Unbounded!Nodes -> Int], NEW x, NEW y \in Int,
         uses' = [uses EXCEPT ![x] = y]
  PROVE  /\ uses' \in [Unbounded!Nodes -> Int]
         /\ x \in Unbounded!Nodes => uses'[x] = y
         /\ \A z \in Unbounded!Nodes : z # x => uses'[z] = uses[z]
OBVIOUS

\* One thread's changes and loaded count are written.
LEMMA TypedStays ==
  ASSUME NodesTyped, uses' \in [Unbounded!Nodes -> Int],
         \/ loaded' = loaded
         \/ \E t \in ChainThreads, x \in Seq(Int) : loaded' = [loaded EXCEPT ![t] = x],
         \/ changes' = changes
         \/ \E t \in ChainThreads, x \in Seq(Int \X {-1, 1}) :
              changes' = [changes EXCEPT ![t] = x]
  PROVE  NodesTyped'
<1>1. changes' \in [ChainThreads -> Seq(Int \X {-1, 1})]
  BY DEF NodesTyped
<1>2. loaded' \in [ChainThreads -> Seq(Int)]
  BY DEF NodesTyped
<1> QED
  BY <1>1, <1>2 DEF NodesTyped, ChainThreads, Unbounded!Nodes, Unbounded!Items

\* Only thread t moves.
Others(t) ==
  \A s \in ChainThreads : s # t =>
    /\ pc2'[s] = pc2[s] /\ mine'[s] = mine[s]
    /\ changes'[s] = changes[s] /\ loaded'[s] = loaded[s]

\* Then the others keep what they kept ...
LEMMA OthersUnmoved ==
  ASSUME NEW t \in ChainThreads, Others(t), head2' = head2
  PROVE  \A n : OthersKeep(t, n)
BY DEF Others, OthersKeep, Keeps, KeepsOld, KeepsNew, LetsGo, LetsGoTwice

\* ... and their changes have the shapes they had.
LEMMA OthersShaped ==
  ASSUME ChangesShaped, NEW t \in ChainThreads, Others(t), UNCHANGED <<head2, tail2>>,
         tail2 + 1 \in Unbounded!Nodes => uses'[tail2 + 1] = uses[tail2 + 1]
  PROVE  \A s \in ChainThreads : s # t => Shaped(s)'
<1> SUFFICES ASSUME NEW s \in ChainThreads, s # t PROVE Shaped(s)'
  OBVIOUS
<1>1. /\ pc2'[s] = pc2[s] /\ mine'[s] = mine[s]
      /\ changes'[s] = changes[s] /\ loaded'[s] = loaded[s]
  BY DEF Others
<1>2. Shaped(s) /\ head2' = head2 /\ tail2' = tail2
  BY DEF ChangesShaped
<1>3. Releases(s)' <=> Releases(s)
  BY <1>1, <1>2 DEF Releases
<1>4. Shape(s)'
  BY <1>1, <1>2, <1>3 DEF Shaped, Shape
<1>5. Unbounded!Nodes' = Unbounded!Nodes
  BY DEF Unbounded!Nodes, Unbounded!Items
<1> QED
  BY <1>1, <1>2, <1>4, <1>5 DEF Shaped

\* What becomes of a count.
LEMMA CountMoves ==
  ASSUME NEW t \in ChainThreads, NEW n \in Int, OthersKeep(t, n),
         uses[n] = ByList(n) + ByThreads(n), uses'[n] \in Int,
         uses'[n] - uses[n] = ByList(n)' - ByList(n) + Share(t, n)' - Share(t, n)
  PROVE  uses'[n] = ByList(n)' + ByThreads(n)'
<1>1. /\ Share(t, n) \in Nat /\ Share(t, n)' \in Nat
      /\ ByList(n) \in Nat /\ ByList(n)' \in Nat
  BY DEF Share, ByList, One
<1>2. /\ ByThreads(n) \in Nat /\ ByThreads(n)' \in Nat
      /\ ByThreads(n)' = ByThreads(n) + Share(t, n)' - Share(t, n)
  BY Shares
<1>3. uses[n] \in Nat
  BY <1>1, <1>2
<1> QED
  BY <1>1, <1>2, <1>3

\* Nobody has a reference.
LEMMA NobodyKeeps ==
  ASSUME NEW n, \A t \in ChainThreads : ~ Keeps(t, n) /\ ~ KeepsOld(t, n)
                   /\ ~ KeepsNew(t, n) /\ ~ LetsGo(t, n) /\ ~ LetsGoTwice(t, n)
  PROVE  ByThreads(n) = 0
<1>1. /\ {t \in ChainThreads : Keeps(t, n)} = {}
      /\ {t \in ChainThreads : KeepsOld(t, n)} = {}
      /\ {t \in ChainThreads : KeepsNew(t, n)} = {}
      /\ {t \in ChainThreads : LetsGo(t, n)} = {}
      /\ {t \in ChainThreads : LetsGoTwice(t, n)} = {}
  OBVIOUS
<1> QED
  BY <1>1, FS_EmptySet DEF ByThreads

\* A step that changes no count of a node in the list or before it.
LEMMA QuietStep ==
  ASSUME NodesInv, NEW t \in ChainThreads, Others(t), tail2 \in Nat,
         UNCHANGED <<head2, tail2, freed>>, NodesTyped', ChangesShaped',
         \A n \in 0 .. tail2 : uses'[n] = uses[n] /\ Share(t, n)' = Share(t, n)
  PROVE  NodesInv'
<1>1. FreedFirst'
  BY DEF NodesInv, FreedFirst
<1>2. ASSUME NEW n \in 0 .. tail2
      PROVE  /\ uses'[n] = ByList(n)' + ByThreads(n)'
             /\ uses'[n] = 0 <=> n \in freed'
  <2>1. OthersKeep(t, n)
    BY OthersUnmoved
  <2>2. ByList(n)' = ByList(n) /\ ByList(n) \in Nat /\ Share(t, n) \in Nat
    BY DEF ByList, Share, One
  <2>3. uses[n] = ByList(n) + ByThreads(n) /\ (uses[n] = 0 <=> n \in freed)
    BY DEF NodesInv, CountsRight
  <2>4. /\ uses'[n] - uses[n] = ByList(n)' - ByList(n) + Share(t, n)' - Share(t, n)
        /\ uses'[n] \in Int
    <3>1. ByThreads(n) \in Nat
      BY <2>1, Shares
    <3> QED
      BY <2>2, <2>3, <3>1
  <2>5. uses'[n] = ByList(n)' + ByThreads(n)'
    BY <2>1, <2>3, <2>4, CountMoves
  <2> QED
    BY <2>3, <2>5
<1>3. CountsRight'
  BY <1>2 DEF CountsRight
<1> QED
  BY <1>1, <1>3 DEF NodesInv

\* The shapes after such a step.
LEMMA QuietShapes ==
  ASSUME ChangesShaped, NEW t \in ChainThreads, Others(t),
         UNCHANGED <<head2, tail2, uses>>, Shaped(t)'
  PROVE  ChangesShaped'
BY OthersShaped DEF ChangesShaped, ChainThreads

\* A producer's references.
LEMMA ProducerShare ==
  ASSUME NEW p \in FifoProducers
  PROVE  /\ p \in ChainThreads /\ p \notin FifoConsumers
         /\ \A n : Share(p, n) = One(mine[p] = n /\ pc2[p] \in {"unlock", "return"})
                                   + One(LetsGo(p, n)) + One(LetsGoTwice(p, n))
         /\ Shaped(p) <=>
              /\ Releases(p)
              /\ loaded[p] # Unbounded!None => changes[p] # <<>>
              /\ pc2[p] \in {"unlock", "return"} => mine[p] <= tail2
              /\ pc2[p] = "swing" /\ tail2 + 1 \in Unbounded!Nodes => uses[tail2 + 1] = 2
<1>1. p \in ChainThreads /\ p \notin FifoConsumers
  BY UnboundedAssumption DEF ChainThreads, Unbounded!UnboundedFifoConstants
<1>2. \A n : Share(p, n) = One(mine[p] = n /\ pc2[p] \in {"unlock", "return"})
                             + One(LetsGo(p, n)) + One(LetsGoTwice(p, n))
  BY <1>1 DEF Share, Keeps, KeepsOld, KeepsNew, One
<1> QED
  BY <1>1, <1>2 DEF Shaped, Shape

\* Nothing to release.
LEMMA NoChange ==
  ASSUME NEW t, changes[t] = <<>>, NEW n \in Int
  PROVE  ~ LetsGo(t, n) /\ ~ LetsGoTwice(t, n)
BY ShapesDiffer DEF LetsGo, LetsGoTwice

LEMMA NoChangeNext ==
  ASSUME NEW t, changes'[t] = <<>>, NEW n \in Int
  PROVE  ~ LetsGo(t, n)' /\ ~ LetsGoTwice(t, n)'
BY ShapesDiffer DEF LetsGo, LetsGoTwice

\* The steps of put() that make or release nothing, and the end of it.
LEMMA PutQuiet ==
  ASSUME ChainInv, NodesInv, NEW p \in FifoProducers,
         \/ Unbounded!PutCall(p) \/ Unbounded!PutLock(p) \/ Unbounded!PutReject(p)
         \/ Unbounded!PutCheck(p) \/ Unbounded!PutUnlock(p)
  PROVE  NodesInv'
<1>1. p \in ChainThreads /\ Unbounded!At(p, pc2[p]) /\ changes[p] = <<>>
  BY DEF ChainThreads, Unbounded!PutCall, Unbounded!PutLock, Unbounded!PutReject,
         Unbounded!PutCheck, Unbounded!PutUnlock, Unbounded!At
<1>2. /\ UNCHANGED <<head2, tail2, uses, freed, mine, changes, loaded>>
      /\ \A s \in ChainThreads : s # p => pc2'[s] = pc2[s]
      /\ pc2[p] \in {"unlock", "return"} <=> pc2'[p] \in {"unlock", "return"}
      /\ pc2'[p] # "swing"
  BY <1>1
  DEF ChainInv, ChainStructure, ChainTyped, Unbounded!PutCall, Unbounded!PutLock,
      Unbounded!PutReject, Unbounded!PutCheck, Unbounded!PutUnlock, Unbounded!At,
      Unbounded!Goto, Unbounded!list, Unbounded!counts
<1>3. Others(p)
  BY <1>2 DEF Others
<1>4. NodesTyped'
  BY <1>2 DEF NodesInv, NodesTyped, Unbounded!Nodes, Unbounded!Items, ChainThreads
<1>5. Shaped(p)'
  BY <1>1, <1>2, ProducerShare
  DEF NodesInv, ChangesShaped, Shaped, Shape, Releases
<1>6. ASSUME NEW n \in 0 .. tail2 PROVE Share(p, n)' = Share(p, n)
  <2>1. /\ Keeps(p, n)' <=> Keeps(p, n)
        /\ LetsGo(p, n)' <=> LetsGo(p, n)
        /\ LetsGoTwice(p, n)' <=> LetsGoTwice(p, n)
    BY <1>1, <1>2, ProducerShare DEF Keeps, LetsGo, LetsGoTwice
  <2>2. ~ KeepsOld(p, n) /\ ~ KeepsOld(p, n)' /\ ~ KeepsNew(p, n) /\ ~ KeepsNew(p, n)'
    BY ProducerShare DEF KeepsOld, KeepsNew
  <2> QED
    BY <2>1, <2>2 DEF Share, One
<1>7. ChangesShaped'
  BY <1>1, <1>2, <1>3, <1>5, QuietShapes DEF NodesInv
<1> QED
  BY <1>1, <1>2, <1>3, <1>4, <1>6, <1>7, QuietStep
  DEF ChainInv, ChainStructure, ChainTyped

\* put() keeps new_node until it returns, and then lets go of it.
LEMMA PutReturns ==
  ASSUME ChainInv, NodesInv, NEW p \in FifoProducers, Unbounded!PutReturn(p)
  PROVE  NodesInv'
<1>1. /\ p \in ChainThreads /\ p \notin FifoConsumers
      /\ changes[p] = <<>> /\ pc2[p] = "return" /\ loaded[p] = Unbounded!None
      /\ mine[p] \in 0 .. tail2
  BY ProducerShare
  DEF ChainThreads, Unbounded!PutReturn, Unbounded!At, NodesInv, ChangesShaped, Shaped,
      ChainInv, ChainStructure, ChainTyped
<1>2. /\ UNCHANGED <<head2, tail2, uses, freed, mine, loaded>>
      /\ \A s \in ChainThreads : s # p => pc2'[s] = pc2[s] /\ changes'[s] = changes[s]
      /\ pc2'[p] = "idle" /\ changes'[p] = Minus(mine[p])
      /\ changes' = [changes EXCEPT ![p] = Minus(mine[p])]
  BY <1>1
  DEF ChainInv, ChainStructure, ChainTyped, NodesInv, NodesTyped, Unbounded!PutReturn,
      Unbounded!At, Unbounded!Goto, Unbounded!list, Unbounded!counts, Unbounded!Changes,
      Minus
<1>3. Others(p)
  BY <1>2 DEF Others
<1>4. NodesTyped'
  <2>1. Minus(mine[p]) \in Seq(Int \X {-1, 1})
    BY <1>1, ShapesUse
  <2>2. NodesTyped /\ uses' \in [Unbounded!Nodes -> Int]
    BY <1>2 DEF NodesInv, NodesTyped
  <2> QED
    BY <1>1, <1>2, <2>1, <2>2, TypedStays
<1>5. Shaped(p)'
  BY <1>1, <1>2 DEF Shaped, Shape, Releases
<1>6. ASSUME NEW n \in 0 .. tail2 PROVE Share(p, n)' = Share(p, n)
  <2>1. Keeps(p, n) <=> n = mine[p]
    BY <1>1 DEF Keeps
  <2>2. ~ LetsGo(p, n) /\ ~ LetsGoTwice(p, n)
    BY <1>1, NoChange
  <2>3. ~ Keeps(p, n)' /\ (LetsGo(p, n)' <=> n = mine[p]) /\ ~ LetsGoTwice(p, n)'
    BY <1>1, <1>2, ShapesDiffer DEF Keeps, LetsGo, LetsGoTwice
  <2>4. ~ KeepsOld(p, n) /\ ~ KeepsOld(p, n)' /\ ~ KeepsNew(p, n) /\ ~ KeepsNew(p, n)'
    BY <1>1 DEF KeepsOld, KeepsNew
  <2> QED
    BY <2>1, <2>2, <2>3, <2>4 DEF Share, One
<1>7. ChangesShaped'
  BY <1>1, <1>2, <1>3, <1>5, QuietShapes DEF NodesInv
<1> QED
  BY <1>1, <1>2, <1>3, <1>4, <1>6, <1>7, QuietStep
  DEF ChainInv, ChainStructure, ChainTyped

\* put() links new_node, which nobody counts as listed yet.
LEMMA PutLinks ==
  ASSUME ChainInv, NodesInv, NEW p \in FifoProducers, Unbounded!PutLink(p)
  PROVE  NodesInv'
<1>1. /\ p \in ChainThreads /\ p \notin FifoConsumers
      /\ changes[p] = <<>> /\ pc2[p] = "link" /\ loaded[p] = Unbounded!None
      /\ tail2 \in Nat /\ \A n \in 0 .. tail2 : n \in Unbounded!Nodes
  BY ProducerShare, ChainTailIsNode, ChainItemsFinite
  DEF ChainThreads, Unbounded!PutLink, Unbounded!At, NodesInv, ChangesShaped, Shaped,
      ChainInv, ChainStructure, ChainTyped, Unbounded!Nodes
<1>2. /\ UNCHANGED <<head2, tail2, freed, changes, loaded>>
      /\ \A s \in ChainThreads : s # p => pc2'[s] = pc2[s] /\ mine'[s] = mine[s]
      /\ pc2'[p] = "swing"
      /\ uses' = [uses EXCEPT ![tail2 + 1] = 2]
  BY <1>1
  DEF ChainInv, ChainStructure, ChainTyped, Unbounded!PutLink, Unbounded!At,
      Unbounded!Goto
<1>3. \A q \in FifoProducers : q # p => pc2'[q] # "swing"
  BY <1>1, <1>2 DEF ChainInv, ChainStructure, ChainLocks, ChainThreads
<1>4. Others(p)
  BY <1>2 DEF Others
<1>5. /\ uses \in [Unbounded!Nodes -> Int] /\ uses' \in [Unbounded!Nodes -> Int]
      /\ tail2 + 1 \in Unbounded!Nodes => uses'[tail2 + 1] = 2
      /\ \A n \in 0 .. tail2 : uses'[n] = uses[n]
  <2>1. uses \in [Unbounded!Nodes -> Int]
    BY DEF NodesInv, NodesTyped
  <2>2. \A n \in 0 .. tail2 : n # tail2 + 1 /\ n \in Unbounded!Nodes
    BY <1>1
  <2>3. uses' = [uses EXCEPT ![tail2 + 1] = 2]
    BY <1>2
  <2>4. /\ uses' \in [Unbounded!Nodes -> Int]
        /\ tail2 + 1 \in Unbounded!Nodes => uses'[tail2 + 1] = 2
        /\ \A n \in Unbounded!Nodes : n # tail2 + 1 => uses'[n] = uses[n]
    <3>1. 2 \in Int /\ 3 \in Int
      OBVIOUS
    <3> QED
      BY <2>1, <2>3, <3>1, OneCount, Zenon
  <2> QED
    BY <2>1, <2>2, <2>4
<1>6. NodesTyped'
  BY <1>2, <1>5, TypedStays DEF NodesInv
<1>7. ChangesShaped'
  <2>1. ASSUME NEW s \in ChainThreads, s # p PROVE Shaped(s)'
    <3>1. s \in FifoProducers => pc2'[s] # "swing"
      BY <1>3, <2>1
    <3>2. Shaped(s)
      BY DEF NodesInv, ChangesShaped
    <3>3. /\ pc2'[s] = pc2[s] /\ mine'[s] = mine[s] /\ changes'[s] = changes[s]
          /\ loaded'[s] = loaded[s] /\ head2' = head2 /\ tail2' = tail2
      BY <1>2, <2>1
    <3> QED
      BY <3>1, <3>2, <3>3 DEF Shaped, Shape, Releases
  <2>2. Shaped(p)'
    BY <1>1, <1>2, <1>5 DEF Shaped, Shape, Releases, Unbounded!Nodes, Unbounded!Items
  <2> QED
    BY <2>1, <2>2 DEF ChangesShaped, ChainThreads
<1>8. ASSUME NEW n \in 0 .. tail2 PROVE Share(p, n)' = Share(p, n)
  <2>1. /\ ~ Keeps(p, n)' /\ ~ Keeps(p, n)
        /\ LetsGo(p, n)' <=> LetsGo(p, n)
        /\ LetsGoTwice(p, n)' <=> LetsGoTwice(p, n)
    BY <1>1, <1>2 DEF Keeps, LetsGo, LetsGoTwice
  <2>2. ~ KeepsOld(p, n) /\ ~ KeepsOld(p, n)' /\ ~ KeepsNew(p, n) /\ ~ KeepsNew(p, n)'
    BY <1>1 DEF KeepsOld, KeepsNew
  <2> QED
    BY <2>1, <2>2 DEF Share, One
<1> QED
  BY <1>1, <1>2, <1>4, <1>5, <1>6, <1>7, <1>8, QuietStep

\* put() moves tail_: new_node gains the reference of tail_, and the node before it
\* loses that to the producer.
LEMMA PutSwings ==
  ASSUME ChainInv, ChainInv', NodesInv, NEW p \in FifoProducers, Unbounded!PutSwing(p)
  PROVE  NodesInv'
<1>1. /\ p \in ChainThreads /\ p \notin FifoConsumers
      /\ changes[p] = <<>> /\ pc2[p] = "swing" /\ loaded[p] = Unbounded!None
      /\ tail2 \in Nat /\ \A n \in 0 .. tail2 : n \in Unbounded!Nodes
      /\ head2 \in Nat /\ head2 <= tail2 /\ mine[p] = tail2 + 1
  BY ProducerShare, ChainTailIsNode, ChainItemsFinite
  DEF ChainThreads, Unbounded!PutSwing, Unbounded!At, NodesInv, ChangesShaped, Shaped,
      ChainInv, ChainStructure, ChainTyped, ChainListed, Unbounded!Nodes
<1>2. /\ UNCHANGED <<head2, freed, mine, loaded>>
      /\ tail2' = tail2 + 1
      /\ \A s \in ChainThreads : s # p => pc2'[s] = pc2[s] /\ changes'[s] = changes[s]
      /\ pc2'[p] = "unlock" /\ changes'[p] = Minus(tail2)
      /\ changes' = [changes EXCEPT ![p] = Minus(tail2)]
      /\ uses' = [uses EXCEPT ![tail2 + 1] = uses[tail2 + 1] + 1]
  BY <1>1
  DEF ChainInv, ChainStructure, ChainTyped, NodesInv, NodesTyped, Unbounded!PutSwing,
      Unbounded!At, Unbounded!Goto, Unbounded!Changes, Minus
<1>3. /\ \A q \in FifoProducers : q # p => pc2[q] # "swing"
      /\ \A c \in FifoConsumers : pc2[c] # "got_tail"
  BY <1>1, UnboundedAssumption
  DEF ChainInv, ChainStructure, ChainLocks, ChainThreads,
      Unbounded!UnboundedFifoConstants
<1>4. Others(p)
  BY <1>2 DEF Others
<1>5. tail2 + 1 \in Unbounded!Nodes
  <2>1. (tail2 \in Unbounded!Nodes)'
    BY ChainTailIsNode, PTL DEF ChainInv
  <2> QED
    BY <1>2, <2>1 DEF Unbounded!Nodes, Unbounded!Items
<1>6. /\ uses \in [Unbounded!Nodes -> Int] /\ uses' \in [Unbounded!Nodes -> Int]
      /\ uses[tail2 + 1] = 2 /\ uses'[tail2 + 1] = 3
      /\ \A n \in 0 .. tail2 : uses'[n] = uses[n]
  <2>1. uses \in [Unbounded!Nodes -> Int]
    BY DEF NodesInv, NodesTyped
  <2>2. uses[tail2 + 1] = 2
    BY <1>1, <1>5 DEF NodesInv, ChangesShaped, Shaped
  <2>3. uses' = [uses EXCEPT ![tail2 + 1] = 3]
    BY <1>2, <2>2
  <2>4. /\ uses' \in [Unbounded!Nodes -> Int]
        /\ tail2 + 1 \in Unbounded!Nodes => uses'[tail2 + 1] = 3
        /\ \A n \in Unbounded!Nodes : n # tail2 + 1 => uses'[n] = uses[n]
    <3>1. 2 \in Int /\ 3 \in Int
      OBVIOUS
    <3> QED
      BY <2>1, <2>3, <3>1, OneCount, Zenon
  <2>5. \A n \in 0 .. tail2 : n # tail2 + 1 /\ n \in Unbounded!Nodes
    BY <1>1
  <2> QED
    BY <1>5, <2>1, <2>2, <2>4, <2>5
<1>7. NodesTyped'
  <2>1. Minus(tail2) \in Seq(Int \X {-1, 1})
    BY <1>1, ShapesUse
  <2> QED
    BY <1>1, <1>2, <1>6, <2>1, TypedStays DEF NodesInv
<1>8. ChangesShaped'
  <2>1. ASSUME NEW s \in ChainThreads, s # p PROVE Shaped(s)'
    <3>1. /\ s \in FifoProducers => pc2'[s] # "swing"
          /\ s \in FifoConsumers => pc2'[s] # "got_tail"
      BY <1>2, <1>3, <2>1
    <3>2. Shaped(s)
      BY DEF NodesInv, ChangesShaped
    <3>3. /\ pc2'[s] = pc2[s] /\ mine'[s] = mine[s] /\ changes'[s] = changes[s]
          /\ loaded'[s] = loaded[s] /\ head2' = head2 /\ tail2' = tail2 + 1
      BY <1>2, <2>1
    <3>4. Releases(s) => Releases(s)'
      BY <1>1, <3>3 DEF Releases
    <3>5. Shape(s)'
      BY <3>1, <3>2, <3>3, <3>4 DEF Shaped, Shape
    <3>6. s \in FifoProducers /\ pc2'[s] \in {"unlock", "return"} => mine'[s] <= tail2'
      BY <1>1, <3>2, <3>3 DEF Shaped, ChainInv, ChainStructure, ChainTyped
    <3> QED
      BY <3>1, <3>2, <3>3, <3>5, <3>6 DEF Shaped
  <2>2. Shaped(p)'
    <3>1. Releases(p)'
      BY <1>1, <1>2 DEF Releases
    <3>2. mine'[p] <= tail2'
      BY <1>1, <1>2
    <3> QED
      BY <1>1, <1>2, <3>1, <3>2 DEF Shaped, Shape
  <2> QED
    BY <2>1, <2>2 DEF ChangesShaped, ChainThreads
<1>9. tail2 \notin freed /\ tail2 + 1 \notin freed /\ freed \subseteq Nat
  BY <1>1 DEF NodesInv, FreedFirst
<1>10. ASSUME NEW n \in 0 .. tail2
       PROVE  /\ uses'[n] = ByList(n)' + ByThreads(n)'
              /\ uses'[n] = 0 <=> n \in freed'
  <2>1. OthersKeep(p, n)
    BY <1>1, <1>2, <1>4, OthersUnmoved
  <2>2. uses[n] = ByList(n) + ByThreads(n) /\ (uses[n] = 0 <=> n \in freed)
    BY DEF NodesInv, CountsRight
  <2>3. ByList(n)' = ByList(n) - One(n = tail2)
    BY <1>1, <1>2 DEF ByList, One
  <2>4. /\ ~ Keeps(p, n) /\ ~ LetsGo(p, n) /\ ~ LetsGoTwice(p, n)
        /\ ~ KeepsOld(p, n) /\ ~ KeepsNew(p, n)
    BY <1>1, NoChange DEF Keeps, KeepsOld, KeepsNew
  <2>5. /\ ~ Keeps(p, n)' /\ ~ KeepsOld(p, n)' /\ ~ KeepsNew(p, n)'
        /\ (LetsGo(p, n)' <=> n = tail2) /\ ~ LetsGoTwice(p, n)'
    <3>1. Minus(tail2) # MinusTwice(n) /\ (Minus(tail2) = Minus(n) => n = tail2)
      BY <1>1, ShapesDiffer
    <3>2. ~ Keeps(p, n)' /\ ~ KeepsOld(p, n)' /\ ~ KeepsNew(p, n)'
      BY <1>1, <1>2 DEF Keeps, KeepsOld, KeepsNew
    <3>3. (LetsGo(p, n)' <=> n = tail2) /\ ~ LetsGoTwice(p, n)'
      BY <1>2, <3>1 DEF LetsGo, LetsGoTwice
    <3> QED
      BY <3>2, <3>3
  <2>6. Share(p, n) = 0 /\ Share(p, n)' = One(n = tail2)
    BY <2>4, <2>5 DEF Share, One
  <2>7. uses'[n] = uses[n] /\ uses'[n] \in Int /\ n \in Int /\ p \in ChainThreads
    <3>1. n \in Int /\ p \in ChainThreads
      BY <1>1
    <3>2. uses'[n] = uses[n]
      BY <1>6
    <3>3. n \in Unbounded!Nodes
      BY <1>1
    <3>4. uses'[n] \in Int
      BY <1>6, <3>3
    <3> QED
      BY <3>1, <3>2, <3>4
  <2>8. uses'[n] = ByList(n)' + ByThreads(n)'
    <3>1. ByList(n) \in Nat /\ One(n = tail2) \in Nat
      BY DEF ByList, One
    <3>2. uses'[n] - uses[n] = ByList(n)' - ByList(n) + Share(p, n)' - Share(p, n)
      BY <2>3, <2>6, <2>7, <3>1
    <3> QED
      BY <2>1, <2>2, <2>7, <3>2, CountMoves
  <2> QED
    BY <1>2, <2>2, <2>7, <2>8
<1>11. ASSUME NEW n \in Nat, n = tail2 + 1
       PROVE  /\ uses'[n] = ByList(n)' + ByThreads(n)'
              /\ uses'[n] = 0 <=> n \in freed'
  <2>1. n \in Nat /\ n > tail2 /\ OthersKeep(p, n)
    BY <1>1, <1>2, <1>4, <1>11, OthersUnmoved
  <2>2. ByThreads(n) = 0
    <3>1. ASSUME NEW t \in ChainThreads
          PROVE  /\ ~ Keeps(t, n) /\ ~ KeepsOld(t, n) /\ ~ KeepsNew(t, n)
                 /\ ~ LetsGo(t, n) /\ ~ LetsGoTwice(t, n)
      <4>1. Shaped(t)
        BY DEF NodesInv, ChangesShaped
      <4>2. ~ KeepsOld(t, n)
        BY <1>1, <1>11 DEF KeepsOld
      <4>3. ~ KeepsNew(t, n)
        BY <1>1, <1>11 DEF KeepsNew, ChainInv, ChainStructure, ChainListed
      <4>4. ~ Keeps(t, n)
        BY <1>1, <1>3, <1>11, <4>1 DEF Keeps, Shaped
      <4>5. ~ LetsGo(t, n)
        <5>1. CASE Releases(t)
          BY <1>1, <1>11, <5>1, ShapesDiffer DEF Releases, LetsGo
        <5>2. CASE changes[t] \in {PlusBoth(head2), Plus(head2 + 1), <<>>}
          BY <1>1, <1>11, <5>2, ShapesDiffer DEF LetsGo
        <5>3. CASE changes[t] \in {Plus(tail2), <<>>}
          BY <1>1, <1>11, <5>3, ShapesDiffer DEF LetsGo
        <5> QED
          BY <4>1, <5>1, <5>2, <5>3 DEF Shaped, Shape
      <4> QED
        BY <4>2, <4>3, <4>4, <4>5 DEF LetsGo, LetsGoTwice
    <3> QED
      BY <3>1, NobodyKeeps
  <2>3. Share(p, n)' = 1 /\ Share(p, n) \in Nat
    <3>1. /\ Keeps(p, n)' /\ ~ LetsGo(p, n)' /\ ~ LetsGoTwice(p, n)'
          /\ ~ KeepsOld(p, n)' /\ ~ KeepsNew(p, n)'
      BY <1>1, <1>2, <1>11, ShapesDiffer
      DEF Keeps, KeepsOld, KeepsNew, LetsGo, LetsGoTwice
    <3> QED
      BY <3>1 DEF Share, One
  <2>4. ByList(n)' = 2
    BY <1>1, <1>2, <1>9, <1>11 DEF ByList, One
  <2>5. ByThreads(n)' = 1
    <3>1. /\ ByThreads(n) \in Nat /\ ByThreads(n)' \in Nat
          /\ ByThreads(n)' = ByThreads(n) + Share(p, n)' - Share(p, n)
          /\ Share(p, n) <= ByThreads(n)
      BY <1>1, <2>1, Shares
    <3> QED
      BY <2>2, <2>3, <3>1
  <2> QED
    BY <1>2, <1>6, <1>9, <1>11, <2>4, <2>5
<1>12. CountsRight'
  <2>1. \A n \in 0 .. tail2' : n \in 0 .. tail2 \/ (n \in Nat /\ n = tail2 + 1)
    BY <1>1, <1>2
  <2> QED
    BY <1>10, <1>11, <2>1 DEF CountsRight
<1>13. FreedFirst'
  BY <1>2 DEF NodesInv, FreedFirst
<1> QED
  BY <1>7, <1>8, <1>12, <1>13 DEF NodesInv

----------------------------------------------------------------------------
\* A step that changes nothing here.
LEMMA CountsUnmoved ==
  ASSUME ChainInv, NodesInv,
         UNCHANGED <<head2, tail2, uses, freed, mine, changes, loaded, pc2>>
  PROVE  NodesInv'
<1>1. NodesTyped'
  BY DEF NodesInv, NodesTyped, Unbounded!Nodes, Unbounded!Items, ChainThreads
<1>2. ASSUME NEW t \in ChainThreads PROVE Shaped(t)'
  <2>1. Shaped(t)
    BY DEF NodesInv, ChangesShaped
  <2> QED
    BY <2>1 DEF Shaped, Shape, Releases, Unbounded!Nodes, Unbounded!Items
<1>3. ChangesShaped'
  BY <1>2 DEF ChangesShaped, ChainThreads
<1>4. ASSUME NEW n PROVE ByThreads(n)' = ByThreads(n) /\ ByList(n)' = ByList(n)
  <2>1. ASSUME NEW t
        PROVE  /\ Keeps(t, n)' <=> Keeps(t, n)
               /\ KeepsOld(t, n)' <=> KeepsOld(t, n)
               /\ KeepsNew(t, n)' <=> KeepsNew(t, n)
               /\ LetsGo(t, n)' <=> LetsGo(t, n)
               /\ LetsGoTwice(t, n)' <=> LetsGoTwice(t, n)
    BY DEF Keeps, KeepsOld, KeepsNew, LetsGo, LetsGoTwice
  <2>2. /\ {t \in ChainThreads : Keeps(t, n)'} = {t \in ChainThreads : Keeps(t, n)}
        /\ {t \in ChainThreads : KeepsOld(t, n)'} = {t \in ChainThreads : KeepsOld(t, n)}
        /\ {t \in ChainThreads : KeepsNew(t, n)'} = {t \in ChainThreads : KeepsNew(t, n)}
        /\ {t \in ChainThreads : LetsGo(t, n)'} = {t \in ChainThreads : LetsGo(t, n)}
        /\ {t \in ChainThreads : LetsGoTwice(t, n)'}
             = {t \in ChainThreads : LetsGoTwice(t, n)}
    BY <2>1
  <2> QED
    BY <2>2 DEF ByThreads, ByList, One, ChainThreads
<1>5. CountsRight'
  BY <1>4 DEF NodesInv, CountsRight
<1>6. FreedFirst'
  BY DEF NodesInv, FreedFirst
<1> QED
  BY <1>1, <1>3, <1>5, <1>6 DEF NodesInv

\* A load changes no count.
LEMMA LoadQuiet ==
  ASSUME ChainInv, NodesInv, NEW t \in ChainThreads, Unbounded!Load(t)
  PROVE  NodesInv'
<1>1. /\ UNCHANGED <<head2, tail2, uses, freed, mine, changes, pc2>>
      /\ changes[t] # <<>>
      /\ loaded' = [loaded EXCEPT ![t] = <<uses[Head(changes[t])[1]]>>]
  BY DEF Unbounded!Load, Unbounded!list
<1>2. Others(t)
  BY <1>1 DEF Others, NodesInv, NodesTyped
<1>3. Shaped(t)
  BY DEF NodesInv, ChangesShaped
<1>4. /\ Head(changes[t])[1] \in 0 .. tail2
      /\ tail2 \in Nat /\ \A n \in 0 .. tail2 : n \in Unbounded!Nodes
  <2>1. /\ tail2 \in Nat /\ head2 \in Nat /\ head2 <= tail2
        /\ t \in FifoConsumers /\ pc2[t] = "swing" => head2 < tail2
        /\ \A n \in 0 .. tail2 : n \in Unbounded!Nodes
    BY ChainTailIsNode, ChainItemsFinite
    DEF ChainInv, ChainStructure, ChainTyped, ChainListed, Unbounded!Nodes
  <2>2. CASE Releases(t)
    <3>1. PICK n \in 0 .. tail2 : changes[t] \in {Minus(n), MinusTwice(n)}
      BY <1>1, <2>2 DEF Releases
    <3>2. Head(Minus(n))[1] = n /\ Head(MinusTwice(n))[1] = n
      BY ShapesUse
    <3> QED
      BY <2>1, <3>1, <3>2
  <2>3. CASE changes[t] = Plus(tail2)
    <3>1. Head(Plus(tail2))[1] = tail2
      BY DEF Plus
    <3> QED
      BY <2>1, <2>3, <3>1
  <2>4. CASE t \in FifoConsumers /\ pc2[t] = "swing"
             /\ changes[t] \in {PlusBoth(head2), Plus(head2 + 1)}
    <3>1. /\ Head(PlusBoth(head2))[1] = head2
          /\ Head(Plus(head2 + 1))[1] = head2 + 1
      BY DEF Plus, PlusBoth
    <3> QED
      BY <2>1, <2>4, <3>1
  <2> QED
    BY <1>1, <1>3, <2>1, <2>2, <2>3, <2>4 DEF Shaped, Shape
<1>5. NodesTyped'
  <2>1. uses[Head(changes[t])[1]] \in Int
    BY <1>4 DEF NodesInv, NodesTyped
  <2>2. <<uses[Head(changes[t])[1]]>> \in Seq(Int)
    BY <2>1
  <2>3. NodesTyped /\ uses' \in [Unbounded!Nodes -> Int]
    BY <1>1 DEF NodesInv, NodesTyped
  <2> QED
    BY <1>1, <2>2, <2>3, TypedStays
<1>6. Shaped(t)'
  BY <1>1, <1>3 DEF Shaped, Shape, Releases, Unbounded!Nodes, Unbounded!Items
<1>7. ChangesShaped'
  BY <1>1, <1>2, <1>6, QuietShapes DEF NodesInv
<1>8. ASSUME NEW n \in 0 .. tail2 PROVE Share(t, n)' = Share(t, n)
  BY <1>1 DEF Share, One, Keeps, KeepsOld, KeepsNew, LetsGo, LetsGoTwice
<1> QED
  BY <1>1, <1>2, <1>4, <1>5, <1>7, <1>8, QuietStep

\* The steps of try_take() whose references are as many before as after.
LEMMA TakeQuiet ==
  ASSUME ChainInv, NodesInv, NEW c \in FifoConsumers,
         \/ Unbounded!TakeLock(c) \/ Unbounded!TakeTail(c)
         \/ Unbounded!TakeItem(c) \/ Unbounded!TakeUnlock(c)
  PROVE  NodesInv'
<1>1. /\ c \in ChainThreads /\ c \notin FifoProducers
      /\ changes[c] = <<>> /\ loaded[c] = Unbounded!None
      /\ pc2[c] \in {"idle", "get_tail", "pop", "unlock"}
      /\ tail2 \in Nat /\ head2 \in Nat /\ head2 <= tail2
      /\ pc2[c] = "pop" => next2[head2] = head2 + 1
  <2>1. /\ c \in ChainThreads /\ changes[c] = <<>>
        /\ pc2[c] \in {"idle", "get_tail", "pop", "unlock"}
    BY DEF ChainThreads, Unbounded!TakeLock, Unbounded!TakeTail, Unbounded!TakeItem,
           Unbounded!TakeUnlock, Unbounded!At
  <2>2. c \notin FifoProducers
    BY UnboundedAssumption DEF Unbounded!UnboundedFifoConstants
  <2>3. loaded[c] = Unbounded!None
    BY <2>1 DEF NodesInv, ChangesShaped, Shaped
  <2>4. tail2 \in Nat /\ head2 \in Nat /\ head2 <= tail2
    BY DEF ChainInv, ChainStructure, ChainTyped, ChainListed
  <2>5. pc2[c] = "pop" => next2[head2] = head2 + 1
    BY <2>4 DEF ChainInv, ChainStructure, ChainListed
  <2> QED
    BY <2>1, <2>2, <2>3, <2>4, <2>5
<1>2. /\ UNCHANGED <<head2, tail2, uses, freed, loaded>>
      /\ \A s \in ChainThreads : s # c =>
           pc2'[s] = pc2[s] /\ mine'[s] = mine[s] /\ changes'[s] = changes[s]
      /\ \/ pc2'[c] \in {"get_tail", "idle"} /\ changes' = changes
         \/ pc2'[c] = "got_tail" /\ changes' = [changes EXCEPT ![c] = Plus(tail2)]
         \/ pc2'[c] = "swing" /\ changes' = [changes EXCEPT ![c] = PlusBoth(head2)]
  <2> USE <1>1 DEF ChainInv, ChainStructure, ChainTyped, NodesInv, NodesTyped,
                   Unbounded!At, Unbounded!Goto, Unbounded!Changes, Unbounded!list,
                   Unbounded!counts
  <2>1. CASE Unbounded!TakeLock(c)
    BY <2>1 DEF Unbounded!TakeLock
  <2>2. CASE Unbounded!TakeTail(c)
    BY <2>2 DEF Unbounded!TakeTail, Plus
  <2>3. CASE Unbounded!TakeItem(c)
    BY <2>3 DEF Unbounded!TakeItem, PlusBoth
  <2>4. CASE Unbounded!TakeUnlock(c)
    BY <2>4 DEF Unbounded!TakeUnlock
  <2> QED
    BY <2>1, <2>2, <2>3, <2>4
<1>3. Others(c)
  BY <1>2 DEF Others
<1>4. changes \in [ChainThreads -> Seq(Int \X {-1, 1})]
  BY DEF NodesInv, NodesTyped
<1>5. /\ changes'[c] \in {<<>>, Plus(tail2), PlusBoth(head2)}
      /\ pc2'[c] \in {"get_tail", "idle"} => changes'[c] = <<>>
      /\ pc2'[c] = "got_tail" => changes'[c] = Plus(tail2)
      /\ pc2'[c] = "swing" => changes'[c] = PlusBoth(head2)
      /\ pc2'[c] \in {"get_tail", "idle", "got_tail", "swing"}
  BY <1>1, <1>2, <1>4
<1>6. NodesTyped'
  <2>1. Plus(tail2) \in Seq(Int \X {-1, 1}) /\ PlusBoth(head2) \in Seq(Int \X {-1, 1})
    BY <1>1, ShapesUse
  <2>2. NodesTyped /\ uses' \in [Unbounded!Nodes -> Int]
    BY <1>2 DEF NodesInv, NodesTyped
  <2> QED
    BY <1>1, <1>2, <2>1, <2>2, TypedStays
<1>7. Shaped(c)'
  BY <1>1, <1>2, <1>5 DEF Shaped, Shape, Releases
<1>8. ChangesShaped'
  BY <1>1, <1>2, <1>3, <1>7, QuietShapes DEF NodesInv
<1>9. ASSUME NEW n \in 0 .. tail2 PROVE Share(c, n)' = Share(c, n)
  <2>1. /\ ~ Keeps(c, n) /\ ~ KeepsOld(c, n) /\ ~ KeepsNew(c, n)
        /\ ~ LetsGo(c, n) /\ ~ LetsGoTwice(c, n)
    BY <1>1, NoChange DEF Keeps, KeepsOld, KeepsNew
  <2>2. /\ Plus(tail2) # <<>> /\ PlusBoth(head2) # <<>>
        /\ PlusBoth(head2) # Plus(n + 1)
        /\ Plus(tail2) \notin {Minus(n), MinusTwice(n)}
        /\ PlusBoth(head2) \notin {Minus(n), MinusTwice(n)}
        /\ <<>> \notin {Minus(n), MinusTwice(n)}
    BY <1>1, ShapesDiffer
  <2>3. /\ ~ Keeps(c, n)' /\ ~ KeepsOld(c, n)' /\ ~ KeepsNew(c, n)'
        /\ ~ LetsGo(c, n)' /\ ~ LetsGoTwice(c, n)'
    BY <1>1, <1>2, <1>5, <2>2 DEF Keeps, KeepsOld, KeepsNew, LetsGo, LetsGoTwice
  <2> QED
    BY <2>1, <2>3 DEF Share, One
<1> QED
  BY <1>1, <1>2, <1>3, <1>6, <1>8, <1>9, QuietStep

\* A consumer compares head_ with the tail it got, and lets go of that.
LEMMA TakeCompares ==
  ASSUME ChainInv, NodesInv, NEW c \in FifoConsumers, Unbounded!TakeCompare(c)
  PROVE  NodesInv'
<1>1. /\ c \in ChainThreads /\ c \notin FifoProducers
      /\ changes[c] = <<>> /\ loaded[c] = Unbounded!None /\ pc2[c] = "got_tail"
      /\ tail2 \in Nat /\ mine[c] = tail2
  <2>1. /\ c \in ChainThreads /\ changes[c] = <<>> /\ pc2[c] = "got_tail"
    BY DEF ChainThreads, Unbounded!TakeCompare, Unbounded!At
  <2>2. c \notin FifoProducers
    BY UnboundedAssumption DEF Unbounded!UnboundedFifoConstants
  <2>3. loaded[c] = Unbounded!None
    BY <2>1 DEF NodesInv, ChangesShaped, Shaped
  <2>4. tail2 \in Nat /\ mine[c] = tail2
    BY <2>1 DEF ChainInv, ChainStructure, ChainTyped, ChainListed
  <2> QED
    BY <2>1, <2>2, <2>3, <2>4
<1>2. /\ UNCHANGED <<head2, tail2, uses, freed, loaded, mine>>
      /\ \A s \in ChainThreads : s # c =>
           pc2'[s] = pc2[s] /\ changes'[s] = changes[s]
      /\ pc2'[c] \in {"unlock", "pop"}
      /\ changes' = [changes EXCEPT ![c] = Minus(tail2)]
      /\ changes'[c] = Minus(tail2)
  BY <1>1
  DEF ChainInv, ChainStructure, ChainTyped, NodesInv, NodesTyped,
      Unbounded!TakeCompare, Unbounded!At, Unbounded!Goto, Unbounded!Changes,
      Unbounded!list, Unbounded!counts, Minus
<1>3. Others(c)
  BY <1>2 DEF Others
<1>4. NodesTyped'
  <2>1. Minus(tail2) \in Seq(Int \X {-1, 1})
    BY <1>1, ShapesUse
  <2>2. NodesTyped /\ uses' \in [Unbounded!Nodes -> Int]
    BY <1>2 DEF NodesInv, NodesTyped
  <2> QED
    BY <1>1, <1>2, <2>1, <2>2, TypedStays
<1>5. Shaped(c)'
  BY <1>1, <1>2 DEF Shaped, Shape, Releases
<1>6. ChangesShaped'
  BY <1>1, <1>2, <1>3, <1>5, QuietShapes DEF NodesInv
<1>7. ASSUME NEW n \in 0 .. tail2 PROVE Share(c, n)' = Share(c, n)
  <2>1. /\ Keeps(c, n) <=> n = tail2
        /\ ~ KeepsOld(c, n) /\ ~ KeepsNew(c, n) /\ ~ LetsGo(c, n) /\ ~ LetsGoTwice(c, n)
    BY <1>1, NoChange DEF Keeps, KeepsOld, KeepsNew
  <2>2. Minus(tail2) # MinusTwice(n) /\ (Minus(tail2) = Minus(n) => n = tail2)
    BY <1>1, ShapesDiffer
  <2>3. /\ ~ Keeps(c, n)' /\ ~ KeepsOld(c, n)' /\ ~ KeepsNew(c, n)'
        /\ (LetsGo(c, n)' <=> n = tail2) /\ ~ LetsGoTwice(c, n)'
    BY <1>1, <1>2, <2>2 DEF Keeps, KeepsOld, KeepsNew, LetsGo, LetsGoTwice
  <2> QED
    BY <2>1, <2>3 DEF Share, One
<1> QED
  BY <1>1, <1>2, <1>3, <1>4, <1>6, <1>7, QuietStep

\* A consumer pops the head, whose list reference becomes its own.
LEMMA TakePops ==
  ASSUME ChainInv, NodesInv, NEW c \in FifoConsumers, Unbounded!TakePop(c)
  PROVE  NodesInv'
<1>1. /\ c \in ChainThreads /\ c \notin FifoProducers
      /\ changes[c] = <<>> /\ loaded[c] = Unbounded!None /\ pc2[c] = "swing"
      /\ tail2 \in Nat /\ head2 \in Nat /\ head2 < tail2 /\ next2[head2] = head2 + 1
  <2>1. /\ c \in ChainThreads /\ changes[c] = <<>> /\ pc2[c] = "swing"
    BY DEF ChainThreads, Unbounded!TakePop, Unbounded!At
  <2>2. c \notin FifoProducers
    BY UnboundedAssumption DEF Unbounded!UnboundedFifoConstants
  <2>3. loaded[c] = Unbounded!None
    BY <2>1 DEF NodesInv, ChangesShaped, Shaped
  <2>4. tail2 \in Nat /\ head2 \in Nat /\ head2 < tail2
    BY <2>1 DEF ChainInv, ChainStructure, ChainTyped, ChainListed
  <2>5. next2[head2] = head2 + 1
    BY <2>4 DEF ChainInv, ChainStructure, ChainListed
  <2> QED
    BY <2>1, <2>2, <2>3, <2>4, <2>5
<1>2. /\ UNCHANGED <<tail2, uses, freed, loaded, mine>>
      /\ head2' = head2 + 1
      /\ \A s \in ChainThreads : s # c =>
           pc2'[s] = pc2[s] /\ changes'[s] = changes[s]
      /\ pc2'[c] = "unlock"
      /\ changes' = [changes EXCEPT ![c] = MinusTwice(head2)]
      /\ changes'[c] = MinusTwice(head2)
  BY <1>1
  DEF ChainInv, ChainStructure, ChainTyped, NodesInv, NodesTyped,
      Unbounded!TakePop, Unbounded!At, Unbounded!Goto, Unbounded!Changes,
      Unbounded!counts, MinusTwice
<1>3. Others(c)
  BY <1>2 DEF Others
<1>4. \A s \in FifoConsumers : s # c => pc2[s] = "idle" /\ pc2'[s] = "idle"
  <2>1. \A s \in FifoConsumers : pc2[s] # "idle" => headMtx2 = s
    BY DEF ChainInv, ChainStructure, ChainLocks
  <2>2. pc2[c] # "idle"
    BY <1>1
  <2> QED
    BY <1>2, <2>1, <2>2 DEF ChainThreads
<1>5. ASSUME NEW n PROVE OthersKeep(c, n)
  <2>1. ASSUME NEW s \in ChainThreads, s # c
        PROVE  /\ Keeps(s, n)' <=> Keeps(s, n)
               /\ LetsGo(s, n)' <=> LetsGo(s, n)
               /\ LetsGoTwice(s, n)' <=> LetsGoTwice(s, n)
    BY <1>3, <2>1 DEF Others, Keeps, LetsGo, LetsGoTwice
  <2>2. ASSUME NEW s \in ChainThreads, s # c
        PROVE  /\ ~ KeepsOld(s, n) /\ ~ KeepsNew(s, n)
               /\ ~ KeepsOld(s, n)' /\ ~ KeepsNew(s, n)'
    BY <1>4, <2>2 DEF KeepsOld, KeepsNew
  <2> QED
    BY <2>1, <2>2 DEF OthersKeep
<1>6. NodesTyped'
  <2>1. MinusTwice(head2) \in Seq(Int \X {-1, 1})
    BY <1>1, ShapesUse
  <2>2. NodesTyped /\ uses' \in [Unbounded!Nodes -> Int]
    BY <1>2 DEF NodesInv, NodesTyped
  <2> QED
    BY <1>1, <1>2, <2>1, <2>2, TypedStays
<1>7. Shaped(c)'
  <2>1. Releases(c)'
    BY <1>1, <1>2 DEF Releases
  <2> QED
    BY <1>1, <1>2, <2>1 DEF Shaped, Shape
<1>8. ChangesShaped'
  <2>1. ASSUME NEW s \in ChainThreads, s # c PROVE Shaped(s)'
    <3>1. Shaped(s)
      BY DEF NodesInv, ChangesShaped
    <3>2. s \in FifoConsumers => pc2[s] = "idle" /\ pc2'[s] = "idle"
      BY <1>4, <2>1
    <3>3. /\ pc2'[s] = pc2[s] /\ mine'[s] = mine[s] /\ changes'[s] = changes[s]
          /\ loaded'[s] = loaded[s] /\ tail2' = tail2 /\ uses' = uses
      BY <1>2, <2>1
    <3>4. Releases(s) => Releases(s)'
      BY <3>3 DEF Releases
    <3>5. Shape(s)'
      BY <3>1, <3>2, <3>3, <3>4 DEF Shaped, Shape
    <3> QED
      BY <3>1, <3>3, <3>5 DEF Shaped, Unbounded!Nodes, Unbounded!Items
  <2> QED
    BY <1>7, <2>1 DEF ChangesShaped, ChainThreads
<1>9. ASSUME NEW n \in 0 .. tail2
      PROVE  /\ uses'[n] = ByList(n)' + ByThreads(n)'
             /\ uses'[n] = 0 <=> n \in freed'
  <2>1. uses[n] = ByList(n) + ByThreads(n) /\ (uses[n] = 0 <=> n \in freed)
    BY DEF NodesInv, CountsRight
  <2>2. /\ KeepsOld(c, n) <=> n = head2
        /\ KeepsNew(c, n) <=> n = head2 + 1
        /\ ~ Keeps(c, n) /\ ~ LetsGo(c, n) /\ ~ LetsGoTwice(c, n)
    BY <1>1, NoChange DEF Keeps, KeepsOld, KeepsNew
  <2>3. /\ MinusTwice(head2) # Minus(n)
        /\ MinusTwice(head2) = MinusTwice(n) => n = head2
    BY <1>1, ShapesDiffer
  <2>4. /\ ~ Keeps(c, n)' /\ ~ KeepsOld(c, n)' /\ ~ KeepsNew(c, n)'
        /\ (LetsGo(c, n)' <=> n = head2) /\ (LetsGoTwice(c, n)' <=> n = head2)
    BY <1>1, <1>2, <2>3 DEF Keeps, KeepsOld, KeepsNew, LetsGo, LetsGoTwice
  <2>5. /\ Share(c, n) = One(n = head2) + One(n = head2 + 1)
        /\ Share(c, n)' = One(n = head2) + One(n = head2)
    BY <2>2, <2>4 DEF Share, One
  <2>6. ByList(n)' = ByList(n) - One(n = head2) + One(n = head2 + 1)
    BY <1>1, <1>2 DEF ByList, One
  <2>7. ByList(n) \in Nat /\ One(n = head2) \in Nat /\ One(n = head2 + 1) \in Nat
    BY DEF ByList, One
  <2>8. ByThreads(n) \in Nat
    BY <1>1, <1>5, Shares
  <2>9. /\ uses'[n] - uses[n] = ByList(n)' - ByList(n) + Share(c, n)' - Share(c, n)
        /\ uses'[n] \in Int /\ n \in Int
    BY <1>2, <2>1, <2>5, <2>6, <2>7, <2>8
  <2>10. uses'[n] = ByList(n)' + ByThreads(n)'
    BY <1>1, <1>5, <2>1, <2>9, CountMoves
  <2> QED
    BY <1>2, <2>1, <2>10
<1>10. CountsRight'
  BY <1>2, <1>9 DEF CountsRight
<1>11. FreedFirst'
  BY <1>1, <1>2 DEF NodesInv, FreedFirst
<1> QED
  BY <1>6, <1>8, <1>10, <1>11 DEF NodesInv

----------------------------------------------------------------------------
\* A change of the count of node m by d, when none was lost.
Stores(t, m, d) ==
  /\ UNCHANGED <<head2, tail2, next2, mine, pc2>>
  /\ Others(t) /\ ~ lost
  /\ uses' \in [Unbounded!Nodes -> Int]
  /\ uses'[m] = uses[m] + d
  /\ \A n \in Unbounded!Nodes : n # m => uses'[n] = uses[n]
  /\ \E y \in Seq(Int) : loaded' = [loaded EXCEPT ![t] = y]
  /\ loaded'[t] = Unbounded!None
  /\ uses[m] + d # 0 =>
       freed' = freed /\ changes' = [changes EXCEPT ![t] = Tail(changes[t])]
  /\ uses[m] + d = 0 =>
       /\ freed' = freed \cup {m}
       /\ changes' =
            [changes EXCEPT ![t] = (IF next2[m] = Unbounded!Nil THEN <<>>
                                    ELSE <<<<next2[m], -1>>>>) \o Tail(changes[t])]

LEMMA StoreDoes ==
  ASSUME ChainInv, NodesInv, NEW t \in ChainThreads, Unbounded!Store(t), ~ lost',
         NEW m \in 0 .. tail2, NEW d \in Int,
         Head(changes[t])[1] = m, Head(changes[t])[2] = d
  PROVE  Stores(t, m, d)
<1>1. /\ tail2 \in Nat /\ m \in Unbounded!Nodes
      /\ uses \in [Unbounded!Nodes -> Int]
      /\ changes \in [ChainThreads -> Seq(Int \X {-1, 1})]
      /\ loaded \in [ChainThreads -> Seq(Int)]
  <2>1. /\ uses \in [Unbounded!Nodes -> Int]
        /\ changes \in [ChainThreads -> Seq(Int \X {-1, 1})]
        /\ loaded \in [ChainThreads -> Seq(Int)]
    BY DEF NodesInv, NodesTyped
  <2>2. tail2 \in Unbounded!Nodes
    BY ChainTailIsNode DEF ChainInv
  <2>3. Unbounded!Nodes = 0 .. Cardinality(Unbounded!Items)
        /\ Cardinality(Unbounded!Items) \in Nat
    BY ChainItemsFinite DEF Unbounded!Nodes
  <2>4. tail2 \in Nat /\ m \in Unbounded!Nodes
    BY <2>2, <2>3
  <2> QED
    BY <2>1, <2>4
<1>2. /\ UNCHANGED <<head2, tail2, next2, mine, pc2>>
      /\ ~ lost /\ loaded[t][1] = uses[m]
      /\ uses' = [uses EXCEPT ![m] = loaded[t][1] + d]
      /\ loaded' = [loaded EXCEPT ![t] = Unbounded!None]
      /\ loaded[t][1] + d # 0 =>
           freed' = freed /\ changes' = [changes EXCEPT ![t] = Tail(changes[t])]
      /\ loaded[t][1] + d = 0 =>
           /\ freed' = freed \cup {m}
           /\ changes' =
                [changes EXCEPT ![t] = (IF next2[m] = Unbounded!Nil THEN <<>>
                                        ELSE <<<<next2[m], -1>>>>) \o Tail(changes[t])]
  BY DEF Unbounded!Store, Unbounded!list, Unbounded!Changes
<1>3. uses[m] \in Int /\ uses[m] + d \in Int
  BY <1>1
<1>4. uses' = [uses EXCEPT ![m] = uses[m] + d]
  BY <1>2
<1>5. /\ uses' \in [Unbounded!Nodes -> Int]
      /\ uses'[m] = uses[m] + d
      /\ \A n \in Unbounded!Nodes : n # m => uses'[n] = uses[n]
  BY <1>1, <1>3, <1>4, OneCount, Zenon
<1>6. Unbounded!None \in Seq(Int)
  BY DEF Unbounded!None
<1>7. /\ \E y \in Seq(Int) : loaded' = [loaded EXCEPT ![t] = y]
      /\ loaded'[t] = Unbounded!None
      /\ \A s \in ChainThreads : s # t => loaded'[s] = loaded[s]
  BY <1>1, <1>2, <1>6
<1>8. \A s \in ChainThreads : s # t => changes'[s] = changes[s]
  BY <1>1, <1>2
<1>9. Others(t)
  BY <1>2, <1>7, <1>8 DEF Others
<1> QED
  BY <1>2, <1>5, <1>7, <1>9 DEF Stores

\* Thread t's references to node m change by d, the others not.
SharesMove(t, m, d) ==
  \A n \in 0 .. tail2 :
    /\ n = m => Share(t, n)' = Share(t, n) + d
    /\ n # m => Share(t, n)' = Share(t, n)

\* Such a step that deletes nothing: as many references as the count says.
LEMMA OneMoves ==
  ASSUME ChainInv, NodesInv, NEW t \in ChainThreads, NodesTyped', Shaped(t)',
         NEW m \in 0 .. tail2, NEW d \in Int, Stores(t, m, d), SharesMove(t, m, d),
         uses[m] # 0, uses[m] + d # 0
  PROVE  NodesInv'
<1>0. /\ Others(t) /\ UNCHANGED <<head2, tail2, freed>>
      /\ tail2 \in Nat /\ \A n \in 0 .. tail2 : n \in Unbounded!Nodes
      /\ uses'[m] = uses[m] + d
      /\ \A n \in Unbounded!Nodes : n # m => uses'[n] = uses[n]
      /\ \A n \in 0 .. tail2 :
           /\ n = m => Share(t, n)' = Share(t, n) + d
           /\ n # m => Share(t, n)' = Share(t, n)
  BY ChainTailIsNode, ChainItemsFinite
  DEF ChainInv, ChainStructure, ChainTyped, Unbounded!Nodes, Stores, SharesMove
<1>1. FreedFirst'
  BY <1>0 DEF NodesInv, FreedFirst
<1>2. ChangesShaped'
  <2>1. tail2 + 1 \in Unbounded!Nodes => uses'[tail2 + 1] = uses[tail2 + 1]
    BY <1>0 DEF Unbounded!Nodes
  <2> QED
    BY <1>0, <2>1, OthersShaped DEF NodesInv, ChangesShaped, ChainThreads
<1>3. ASSUME NEW n \in 0 .. tail2
      PROVE  /\ uses'[n] = ByList(n)' + ByThreads(n)'
             /\ uses'[n] = 0 <=> n \in freed'
  <2>1. OthersKeep(t, n)
    BY <1>0, OthersUnmoved
  <2>2. ByList(n)' = ByList(n) /\ ByList(n) \in Nat /\ Share(t, n) \in Nat
    BY <1>0 DEF ByList, Share, One
  <2>3. uses[n] = ByList(n) + ByThreads(n) /\ (uses[n] = 0 <=> n \in freed)
    BY DEF NodesInv, CountsRight
  <2>4. ByThreads(n) \in Nat
    BY <2>1, Shares
  <2>5. /\ uses'[n] - uses[n] = ByList(n)' - ByList(n) + Share(t, n)' - Share(t, n)
        /\ uses'[n] \in Int
    <3>1. CASE n = m
      BY <1>0, <2>2, <2>3, <2>4, <3>1
    <3>2. CASE n # m
      BY <1>0, <2>2, <2>3, <2>4, <3>2
    <3> QED
      BY <3>1, <3>2
  <2>6. uses'[n] = ByList(n)' + ByThreads(n)'
    BY <1>0, <2>1, <2>3, <2>5, CountMoves
  <2>7. uses'[n] = 0 <=> n \in freed'
    <3>1. CASE n = m
      BY <1>0, <2>3, <3>1
    <3>2. CASE n # m
      BY <1>0, <2>3, <3>2
    <3> QED
      BY <3>1, <3>2
  <2> QED
    BY <2>6, <2>7
<1>4. CountsRight'
  BY <1>0, <1>3 DEF CountsRight
<1> QED
  BY <1>1, <1>2, <1>4 DEF NodesInv

\* A consumer's change that makes a reference to a node in the list.
LEMMA StoreUp ==
  ASSUME ChainInv, NodesInv, NEW t \in FifoConsumers, Unbounded!Store(t), ~ lost',
         pc2[t] \in {"got_tail", "swing"}
  PROVE  NodesInv'
<1>1. /\ t \in ChainThreads /\ t \notin FifoProducers
      /\ tail2 \in Nat /\ head2 \in Nat /\ head2 <= tail2
      /\ pc2[t] = "swing" => head2 < tail2
      /\ pc2[t] = "got_tail" => mine[t] = tail2
      /\ \A n \in 0 .. tail2 : n \in Unbounded!Nodes
  BY ChainTailIsNode, ChainItemsFinite, UnboundedAssumption
  DEF ChainInv, ChainStructure, ChainTyped, ChainListed, ChainThreads,
      Unbounded!UnboundedFifoConstants, Unbounded!Nodes
<1>2. changes[t] # <<>> /\ Shape(t)
  BY <1>1 DEF Unbounded!Store, NodesInv, ChangesShaped, Shaped
<1>3. ASSUME NEW m \in 0 .. tail2, m >= head2,
             Head(changes[t])[1] = m, Head(changes[t])[2] = 1,
             NEW x \in Seq(Int \X {-1, 1}), Tail(changes[t]) = x,
             changes'[t] = x /\ UNCHANGED <<pc2, head2, tail2>> => Shape(t)',
             changes'[t] = x /\ UNCHANGED <<pc2, head2, tail2, mine>> =>
               SharesMove(t, m, 1)
      PROVE  NodesInv'
  <2>1. Stores(t, m, 1)
    <3>1. 1 \in Int
      OBVIOUS
    <3> QED
      BY <1>1, <1>3, <3>1, StoreDoes, Zenon
  <2>2. uses[m] \in Nat /\ uses[m] # 0
    <3>1. m \notin freed
      BY <1>1, <1>3 DEF NodesInv, FreedFirst
    <3>2. uses[m] = ByList(m) + ByThreads(m) /\ uses[m] # 0
      BY <3>1 DEF NodesInv, CountsRight
    <3>3. ByList(m) \in Nat
      BY DEF ByList, One
    <3>4. ByThreads(m) \in Nat
      BY <1>1, <2>1, OthersUnmoved, Shares DEF Stores
    <3> QED
      BY <3>2, <3>3, <3>4
  <2>3. /\ freed' = freed /\ changes' = [changes EXCEPT ![t] = x]
        /\ UNCHANGED <<pc2, head2, tail2, mine>> /\ loaded'[t] = Unbounded!None
    <3>1. uses[m] + 1 # 0
      BY <2>2
    <3>2. /\ freed' = freed /\ changes' = [changes EXCEPT ![t] = Tail(changes[t])]
          /\ UNCHANGED <<pc2, head2, tail2, mine>> /\ loaded'[t] = Unbounded!None
      BY <2>1, <3>1, Zenon DEF Stores
    <3> QED
      BY <1>3, <3>2
  <2>4. changes'[t] = x
    BY <1>1, <2>3 DEF NodesInv, NodesTyped
  <2>5. NodesTyped'
    BY <1>1, <1>3, <2>1, <2>3, TypedStays DEF NodesInv, Stores
  <2>6. Shaped(t)'
    BY <1>1, <1>3, <2>3, <2>4 DEF Shaped
  <2>7. SharesMove(t, m, 1)
    BY <1>3, <2>3, <2>4
  <2>8. uses[m] + 1 # 0 /\ 1 \in Int
    BY <2>2
  <2> QED
    BY <1>1, <2>1, <2>2, <2>5, <2>6, <2>7, <2>8, OneMoves, Zenon
<1>4. CASE pc2[t] = "got_tail"
  <2>1. changes[t] = Plus(tail2)
    BY <1>1, <1>2, <1>4 DEF Shape
  <2>2. /\ Head(changes[t])[1] = tail2 /\ Head(changes[t])[2] = 1
        /\ Tail(changes[t]) = <<>>
    <3>1. /\ Head(Plus(tail2))[1] = tail2 /\ Head(Plus(tail2))[2] = 1
          /\ Tail(Plus(tail2)) = <<>>
      BY DEF Plus
    <3> QED
      BY <2>1, <3>1
  <2>3. ASSUME changes'[t] = <<>>, UNCHANGED <<pc2, head2, tail2>>
        PROVE  Shape(t)'
    BY <1>1, <1>4, <2>3 DEF Shape
  <2>4. ASSUME changes'[t] = <<>>, UNCHANGED <<pc2, head2, tail2, mine>>
        PROVE  SharesMove(t, tail2, 1)
    <3> SUFFICES ASSUME NEW n \in 0 .. tail2
                 PROVE  /\ n = tail2 => Share(t, n)' = Share(t, n) + 1
                        /\ n # tail2 => Share(t, n)' = Share(t, n)
      BY DEF SharesMove
    <3>1. Plus(tail2) \notin {<<>>, Minus(n), MinusTwice(n)}
      BY <1>1, ShapesDiffer
    <3>2. /\ ~ Keeps(t, n) /\ ~ KeepsOld(t, n) /\ ~ KeepsNew(t, n)
          /\ ~ LetsGo(t, n) /\ ~ LetsGoTwice(t, n)
      BY <1>1, <1>4, <2>1, <3>1 DEF Keeps, KeepsOld, KeepsNew, LetsGo, LetsGoTwice
    <3>3. /\ Keeps(t, n)' <=> n = tail2
          /\ ~ KeepsOld(t, n)' /\ ~ KeepsNew(t, n)'
          /\ ~ LetsGo(t, n)' /\ ~ LetsGoTwice(t, n)'
      BY <1>1, <1>4, <2>4, NoChangeNext DEF Keeps, KeepsOld, KeepsNew
    <3> QED
      BY <3>2, <3>3 DEF Share, One
  <2>5. tail2 \in 0 .. tail2 /\ tail2 >= head2 /\ <<>> \in Seq(Int \X {-1, 1})
    BY <1>1
  <2> QED
    BY <1>3, <2>2, <2>3, <2>4, <2>5
<1>5. CASE pc2[t] = "swing" /\ changes[t] = PlusBoth(head2)
  <2>1. /\ Head(changes[t])[1] = head2 /\ Head(changes[t])[2] = 1
        /\ Tail(changes[t]) = Plus(head2 + 1)
    BY <1>1, <1>5, ShapesUse
  <2>2. ASSUME changes'[t] = Plus(head2 + 1), UNCHANGED <<pc2, head2, tail2>>
        PROVE  Shape(t)'
    BY <1>1, <1>5, <2>2 DEF Shape
  <2>3. ASSUME changes'[t] = Plus(head2 + 1), UNCHANGED <<pc2, head2, tail2, mine>>
        PROVE  SharesMove(t, head2, 1)
    <3> SUFFICES ASSUME NEW n \in 0 .. tail2
                 PROVE  /\ n = head2 => Share(t, n)' = Share(t, n) + 1
                        /\ n # head2 => Share(t, n)' = Share(t, n)
      BY DEF SharesMove
    <3>1. /\ PlusBoth(head2) \notin {<<>>, Minus(n), MinusTwice(n), Plus(n + 1)}
          /\ Plus(head2 + 1) \notin {<<>>, Minus(n), MinusTwice(n)}
      BY <1>1, ShapesDiffer
    <3>2. /\ ~ Keeps(t, n) /\ ~ KeepsOld(t, n) /\ ~ KeepsNew(t, n)
          /\ ~ LetsGo(t, n) /\ ~ LetsGoTwice(t, n)
      BY <1>1, <1>5, <3>1 DEF Keeps, KeepsOld, KeepsNew, LetsGo, LetsGoTwice
    <3>3. /\ KeepsOld(t, n)' <=> n = head2
          /\ ~ Keeps(t, n)' /\ ~ KeepsNew(t, n)'
          /\ ~ LetsGo(t, n)' /\ ~ LetsGoTwice(t, n)'
      BY <1>1, <1>5, <2>3, <3>1 DEF Keeps, KeepsOld, KeepsNew, LetsGo, LetsGoTwice
    <3> QED
      BY <3>2, <3>3 DEF Share, One
  <2>4. head2 \in 0 .. tail2 /\ head2 >= head2
    BY <1>1
  <2>5. PICK x \in Seq(Int \X {-1, 1}) : x = Plus(head2 + 1)
    BY <1>1, ShapesUse
  <2>6. changes'[t] = x /\ UNCHANGED <<pc2, head2, tail2>> => Shape(t)'
    BY <2>2, <2>5
  <2>7. changes'[t] = x /\ UNCHANGED <<pc2, head2, tail2, mine>> =>
          SharesMove(t, head2, 1)
    BY <2>3, <2>5
  <2> QED
    BY <1>3, <2>1, <2>4, <2>5, <2>6, <2>7
<1>6. CASE pc2[t] = "swing" /\ changes[t] = Plus(head2 + 1)
  <2>0. PICK m \in 0 .. tail2 : m = head2 + 1
    BY <1>1, <1>6
  <2>1. /\ Head(changes[t])[1] = m /\ Head(changes[t])[2] = 1
        /\ Tail(changes[t]) = <<>>
    <3>1. Head(Plus(m))[1] = m /\ Head(Plus(m))[2] = 1 /\ Tail(Plus(m)) = <<>>
      BY DEF Plus
    <3> QED
      BY <1>6, <2>0, <3>1
  <2>2. ASSUME changes'[t] = <<>>, UNCHANGED <<pc2, head2, tail2>>
        PROVE  Shape(t)'
    BY <1>1, <1>6, <2>2 DEF Shape
  <2>3. ASSUME changes'[t] = <<>>, UNCHANGED <<pc2, head2, tail2, mine>>
        PROVE  SharesMove(t, m, 1)
    <3> SUFFICES ASSUME NEW n \in 0 .. tail2
                 PROVE  /\ n = m => Share(t, n)' = Share(t, n) + 1
                        /\ n # m => Share(t, n)' = Share(t, n)
      BY DEF SharesMove
    <3>1. /\ Plus(m) \notin {<<>>, Minus(n), MinusTwice(n)}
          /\ Plus(m) = Plus(n + 1) => m = n + 1
      BY <1>1, ShapesDiffer
    <3>2. /\ KeepsOld(t, n) <=> n = head2
          /\ ~ Keeps(t, n) /\ ~ KeepsNew(t, n)
          /\ ~ LetsGo(t, n) /\ ~ LetsGoTwice(t, n)
      BY <1>1, <1>6, <2>0, <3>1 DEF Keeps, KeepsOld, KeepsNew, LetsGo, LetsGoTwice
    <3>3. /\ KeepsOld(t, n)' <=> n = head2
          /\ KeepsNew(t, n)' <=> n = m
          /\ ~ Keeps(t, n)' /\ ~ LetsGo(t, n)' /\ ~ LetsGoTwice(t, n)'
      BY <1>1, <1>6, <2>0, <2>3, NoChangeNext DEF Keeps, KeepsOld, KeepsNew
    <3> QED
      BY <3>2, <3>3 DEF Share, One
  <2>4. m >= head2 /\ <<>> \in Seq(Int \X {-1, 1})
    BY <1>1, <2>0
  <2> QED
    BY <1>1, <1>3, <2>1, <2>2, <2>3, <2>4
<1> QED
  BY <1>1, <1>2, <1>4, <1>5, <1>6 DEF Shape

\* Outside get_tail_() and pop_head_() a thread's changes let go of references, and
\* say nothing about those it keeps.
LEMMA LettingGo ==
  ASSUME NEW t \in ChainThreads, NEW n,
         ~ (t \in FifoConsumers /\ pc2[t] \in {"got_tail", "swing"})
  PROVE  /\ Share(t, n) >= One(LetsGo(t, n)) + One(LetsGoTwice(t, n))
         /\ Share(t, n) \in Nat
         /\ One(LetsGo(t, n)) \in Nat /\ One(LetsGoTwice(t, n)) \in Nat
         /\ UNCHANGED <<pc2, head2, mine>> =>
              Share(t, n)' = Share(t, n) + One(LetsGo(t, n)') - One(LetsGo(t, n))
                               + One(LetsGoTwice(t, n)') - One(LetsGoTwice(t, n))
<1>1. /\ Share(t, n) >= One(LetsGo(t, n)) + One(LetsGoTwice(t, n))
      /\ Share(t, n) \in Nat
      /\ One(LetsGo(t, n)) \in Nat /\ One(LetsGoTwice(t, n)) \in Nat
  BY DEF Share, One
<1>2. ASSUME UNCHANGED <<pc2, head2, mine>>
      PROVE  /\ Keeps(t, n)' <=> Keeps(t, n)
             /\ KeepsOld(t, n)' <=> KeepsOld(t, n)
             /\ KeepsNew(t, n)' <=> KeepsNew(t, n)
  BY <1>2 DEF Keeps, KeepsOld, KeepsNew
<1>3. ASSUME UNCHANGED <<pc2, head2, mine>>
      PROVE  Share(t, n)' = Share(t, n) + One(LetsGo(t, n)') - One(LetsGo(t, n))
                              + One(LetsGoTwice(t, n)') - One(LetsGoTwice(t, n))
  BY <1>2, <1>3 DEF Share, One
<1> QED
  BY <1>1, <1>3

\* A change that lets go of a reference to node m.
LEMMA StoreDown ==
  ASSUME ChainInv, NodesInv, NEW t \in ChainThreads, Unbounded!Store(t), ~ lost',
         ~ (t \in FifoConsumers /\ pc2[t] \in {"got_tail", "swing"})
  PROVE  NodesInv'
<1>1. PICK m \in 0 .. tail2 : changes[t] \in {Minus(m), MinusTwice(m)}
  BY DEF Unbounded!Store, NodesInv, ChangesShaped, Shaped, Shape, Releases
<1>2. /\ tail2 \in Nat /\ head2 \in Nat /\ head2 <= tail2 /\ m \in Nat
      /\ \A n \in 0 .. tail2 : n \in Unbounded!Nodes
      /\ \A n \in 0 .. tail2 - 1 : next2[n] = n + 1
      /\ uses[m] \in Int
  <2>1. /\ tail2 \in Nat /\ head2 \in Nat /\ head2 <= tail2 /\ m \in Nat
        /\ \A n \in 0 .. tail2 - 1 : next2[n] = n + 1
    BY DEF ChainInv, ChainStructure, ChainTyped, ChainListed
  <2>2. \A n \in 0 .. tail2 : n \in Unbounded!Nodes
    BY <2>1, ChainTailIsNode, ChainItemsFinite DEF ChainInv, Unbounded!Nodes
  <2>3. uses[m] \in Int
    BY <2>2 DEF NodesInv, NodesTyped
  <2> QED
    BY <2>1, <2>2, <2>3
<1>3. Stores(t, m, -1)
  <2>1. Head(changes[t])[1] = m /\ Head(changes[t])[2] = -1
    <3>1. /\ Head(Minus(m))[1] = m /\ Head(Minus(m))[2] = -1
          /\ Head(MinusTwice(m))[1] = m /\ Head(MinusTwice(m))[2] = -1
      BY DEF Minus, MinusTwice
    <3> QED
      BY <1>1, <3>1
  <2>2. -1 \in Int
    OBVIOUS
  <2> QED
    BY <2>1, <2>2, StoreDoes, Zenon
<1>4. /\ UNCHANGED <<head2, tail2, mine, pc2>> /\ Others(t)
      /\ loaded'[t] = Unbounded!None
  BY <1>3 DEF Stores
<1>5. LetsGo(t, m) /\ (LetsGoTwice(t, m) <=> changes[t] = MinusTwice(m))
  BY <1>1 DEF LetsGo, LetsGoTwice
<1>6. /\ uses[m] = ByList(m) + ByThreads(m) /\ (uses[m] = 0 <=> m \in freed)
      /\ ByList(m) \in Nat /\ ByThreads(m) \in Nat /\ Share(t, m) <= ByThreads(m)
  <2>1. OthersKeep(t, m)
    BY <1>4, OthersUnmoved
  <2> QED
    BY <2>1, Shares DEF NodesInv, CountsRight, ByList, One
<1>7. ASSUME NodesTyped', NEW x, changes'[t] = x,
             x = <<>> \/ (\E n \in 0 .. tail2 : x = Minus(n))
      PROVE  Shaped(t)'
  <2>1. Releases(t)'
    BY <1>4, <1>7 DEF Releases
  <2>2. Shaped(t)
    BY DEF NodesInv, ChangesShaped
  <2>3. tail2 + 1 \in Unbounded!Nodes => uses'[tail2 + 1] = uses[tail2 + 1]
    BY <1>2, <1>3 DEF Stores
  <2> QED
    BY <1>4, <2>1, <2>2, <2>3 DEF Shaped, Shape, Unbounded!Nodes, Unbounded!Items
<1>8. changes \in [ChainThreads -> Seq(Int \X {-1, 1})]
  BY DEF NodesInv, NodesTyped
<1>9. CASE changes[t] = MinusTwice(m)
  <2>1. Tail(changes[t]) = Minus(m) /\ Minus(m) \in Seq(Int \X {-1, 1})
    BY <1>2, <1>9, ShapesUse
  <2>2. uses[m] >= 2
    BY <1>5, <1>6, <1>9, LettingGo DEF One
  <2>3. uses[m] # 0 /\ uses[m] + (-1) # 0 /\ -1 \in Int
    BY <1>2, <2>2
  <2>4. freed' = freed /\ changes' = [changes EXCEPT ![t] = Tail(changes[t])]
    BY <1>3, <2>3, Zenon DEF Stores
  <2>5. changes'[t] = Minus(m) /\ changes' = [changes EXCEPT ![t] = Minus(m)]
    BY <1>8, <2>1, <2>4
  <2>6. NodesTyped'
    BY <1>3, <2>1, <2>5, TypedStays DEF NodesInv, Stores
  <2>7. SharesMove(t, m, -1)
    <3> SUFFICES ASSUME NEW n \in 0 .. tail2
                 PROVE  /\ n = m => Share(t, n)' = Share(t, n) + (-1)
                        /\ n # m => Share(t, n)' = Share(t, n)
      BY DEF SharesMove
    <3>1. /\ MinusTwice(m) # Minus(n) /\ Minus(m) # MinusTwice(n)
          /\ Minus(m) = Minus(n) => n = m
          /\ MinusTwice(m) = MinusTwice(n) => n = m
      BY <1>2, ShapesDiffer
    <3>2. /\ LetsGo(t, n) <=> n = m
          /\ LetsGoTwice(t, n) <=> n = m
          /\ LetsGo(t, n)' <=> n = m
          /\ ~ LetsGoTwice(t, n)'
      BY <1>9, <2>5, <3>1 DEF LetsGo, LetsGoTwice
    <3> QED
      BY <1>4, <3>2, LettingGo DEF One
  <2> QED
    BY <1>3, <1>7, <2>3, <2>5, <2>6, <2>7, OneMoves, Zenon
<1>10. CASE changes[t] = Minus(m) /\ uses[m] # 1
  <2>1. Tail(changes[t]) = <<>> /\ <<>> \in Seq(Int \X {-1, 1})
    <3>1. Tail(Minus(m)) = <<>>
      BY DEF Minus
    <3> QED
      BY <1>10, <3>1
  <2>2. uses[m] >= 1
    BY <1>5, <1>6, <1>10, LettingGo DEF One
  <2>3. uses[m] # 0 /\ uses[m] + (-1) # 0 /\ -1 \in Int
    BY <1>2, <1>10, <2>2
  <2>4. freed' = freed /\ changes' = [changes EXCEPT ![t] = Tail(changes[t])]
    BY <1>3, <2>3, Zenon DEF Stores
  <2>5. changes'[t] = <<>> /\ changes' = [changes EXCEPT ![t] = <<>>]
    BY <1>8, <2>1, <2>4
  <2>6. NodesTyped'
    BY <1>3, <2>1, <2>5, TypedStays DEF NodesInv, Stores
  <2>7. SharesMove(t, m, -1)
    <3> SUFFICES ASSUME NEW n \in 0 .. tail2
                 PROVE  /\ n = m => Share(t, n)' = Share(t, n) + (-1)
                        /\ n # m => Share(t, n)' = Share(t, n)
      BY DEF SharesMove
    <3>1. Minus(m) # MinusTwice(n) /\ (Minus(m) = Minus(n) => n = m)
      BY <1>2, ShapesDiffer
    <3>2. /\ LetsGo(t, n) <=> n = m
          /\ ~ LetsGoTwice(t, n)
          /\ ~ LetsGo(t, n)' /\ ~ LetsGoTwice(t, n)'
      BY <1>10, <2>5, <3>1, NoChangeNext DEF LetsGo, LetsGoTwice
    <3> QED
      BY <1>4, <3>2, LettingGo DEF One
  <2> QED
    BY <1>3, <1>7, <2>3, <2>5, <2>6, <2>7, OneMoves, Zenon
\* The last reference: node m is the first that was not deleted, and its reference
\* to the next node becomes this thread's to release.
<1>11. CASE changes[t] = Minus(m) /\ uses[m] = 1
  <2>1. ByList(m) = 0 /\ Share(t, m) = 1 /\ ByThreads(m) = 1
    BY <1>5, <1>6, <1>11, LettingGo DEF One
  <2>2. head2 # m /\ tail2 # m /\ (m = 0 \/ m - 1 \in freed)
    BY <1>2, <2>1 DEF ByList, One
  <2>3. freed = 0 .. m - 1 /\ m < head2 /\ next2[m] = m + 1
    <3>1. PICK k \in 0 .. head2 : freed = 0 .. k - 1
      BY DEF NodesInv, FreedFirst
    <3>2. m \notin freed
      BY <1>6, <1>11
    <3>3. m = k
      BY <1>2, <2>2, <3>1, <3>2
    <3> QED
      BY <1>2, <2>2, <3>1, <3>3
  <2>4. /\ freed' = freed \cup {m}
        /\ changes' = [changes EXCEPT ![t] = Minus(m + 1)]
        /\ changes'[t] = Minus(m + 1)
    <3>1. uses[m] + (-1) = 0
      BY <1>11
    <3>2. /\ freed' = freed \cup {m}
          /\ changes' = [changes EXCEPT ![t] =
                           (IF next2[m] = Unbounded!Nil THEN <<>>
                            ELSE <<<<next2[m], -1>>>>) \o Tail(changes[t])]
      BY <1>3, <3>1, Zenon DEF Stores
    <3>3. next2[m] # Unbounded!Nil /\ Tail(changes[t]) = <<>>
      <4>1. Tail(Minus(m)) = <<>>
        BY DEF Minus
      <4> QED
        BY <1>2, <1>11, <2>3, <4>1 DEF Unbounded!Nil
    <3>4. <<<<m + 1, -1>>>> \o <<>> = Minus(m + 1)
      <4>1. <<m + 1, -1>> \in Int \X {-1, 1}
        BY <1>2
      <4> QED
        BY <4>1 DEF Minus
    <3>5. changes' = [changes EXCEPT ![t] = Minus(m + 1)]
      BY <2>3, <3>2, <3>3, <3>4
    <3> QED
      BY <1>8, <3>2, <3>5
  <2>5. NodesTyped'
    <3>1. Minus(m + 1) \in Seq(Int \X {-1, 1})
      BY <1>2, ShapesUse
    <3> QED
      BY <1>3, <2>4, <3>1, TypedStays DEF NodesInv, Stores
  <2>6. ChangesShaped'
    <3>1. tail2 + 1 \in Unbounded!Nodes => uses'[tail2 + 1] = uses[tail2 + 1]
      BY <1>2, <1>3 DEF Stores
    <3>2. m + 1 \in 0 .. tail2
      BY <1>2, <2>3
    <3>3. Shaped(t)'
      BY <1>7, <2>4, <2>5, <3>2
    <3>4. \A s \in ChainThreads : s # t => Shaped(s)'
      BY <1>4, <3>1, OthersShaped DEF NodesInv
    <3> QED
      BY <3>3, <3>4 DEF ChangesShaped, ChainThreads
  <2>7. FreedFirst'
    <3>1. freed' = 0 .. (m + 1) - 1 /\ m + 1 \in 0 .. head2
      BY <1>2, <2>3, <2>4
    <3> QED
      BY <1>4, <3>1 DEF FreedFirst
  <2>8. ASSUME NEW n \in 0 .. tail2
        PROVE  /\ uses'[n] = ByList(n)' + ByThreads(n)'
               /\ uses'[n] = 0 <=> n \in freed'
    <3>1. OthersKeep(t, n)
      BY <1>4, OthersUnmoved
    <3>2. uses[n] = ByList(n) + ByThreads(n) /\ (uses[n] = 0 <=> n \in freed)
      BY DEF NodesInv, CountsRight
    <3>3. /\ ByThreads(n) \in Nat /\ ByList(n) \in Nat
          /\ One(n = m) \in Nat /\ One(n = m + 1) \in Nat
      BY <3>1, Shares DEF ByList, One
    <3>4. uses'[n] = uses[n] - One(n = m)
      <4>1. uses[n] \in Int /\ n \in Unbounded!Nodes
        BY <1>2, <3>2, <3>3
      <4>2. CASE n = m
        <5>1. uses'[n] = uses[n] - 1
          BY <1>2, <1>3, <4>1, <4>2 DEF Stores
        <5> QED
          BY <4>2, <5>1 DEF One
      <4>3. CASE n # m
        <5>1. uses'[n] = uses[n]
          BY <1>3, <4>1, <4>3 DEF Stores
        <5> QED
          BY <4>1, <4>3, <5>1 DEF One
      <4> QED
        BY <4>2, <4>3
    <3>5. ByList(n)' = ByList(n) - One(n = m + 1)
      <4>1. n > 0 /\ n - 1 \notin freed <=> n > m
        BY <1>2, <2>3
      <4>2. n > 0 /\ n - 1 \notin freed' <=> n > m + 1
        BY <1>2, <2>3, <2>4
      <4>3. /\ ByList(n) = One(head2 = n) + One(tail2 = n) + One(n > m)
            /\ ByList(n)' = One(head2 = n) + One(tail2 = n) + One(n > m + 1)
        BY <1>4, <4>1, <4>2 DEF ByList, One
      <4>4. One(n > m + 1) = One(n > m) - One(n = m + 1)
        BY <1>2 DEF One
      <4> QED
        BY <4>3, <4>4 DEF One
    <3>6. Share(t, n)' = Share(t, n) - One(n = m) + One(n = m + 1)
      <4>1. /\ Minus(m) # MinusTwice(n) /\ (Minus(m) = Minus(n) => n = m)
            /\ Minus(m + 1) # MinusTwice(n) /\ (Minus(m + 1) = Minus(n) => n = m + 1)
        BY <1>2, ShapesDiffer
      <4>2. /\ LetsGo(t, n) <=> n = m
            /\ LetsGo(t, n)' <=> n = m + 1
            /\ ~ LetsGoTwice(t, n) /\ ~ LetsGoTwice(t, n)'
        BY <1>11, <2>4, <4>1 DEF LetsGo, LetsGoTwice
      <4> QED
        BY <1>4, <4>2, LettingGo DEF One
    <3>7. Share(t, n) \in Nat
      BY LettingGo
    <3>8. /\ uses'[n] - uses[n] = ByList(n)' - ByList(n) + Share(t, n)' - Share(t, n)
          /\ uses'[n] \in Int /\ n \in Int
      BY <3>2, <3>3, <3>4, <3>5, <3>6, <3>7
    <3>9. uses'[n] = ByList(n)' + ByThreads(n)'
      BY <3>1, <3>2, <3>8, CountMoves
    <3>10. uses'[n] = 0 <=> n \in freed'
      <4>1. CASE n = m
        BY <1>11, <2>4, <3>4, <4>1 DEF One
      <4>2. CASE n # m
        BY <2>4, <3>2, <3>3, <3>4, <4>2 DEF One
      <4> QED
        BY <4>1, <4>2
    <3> QED
      BY <3>9, <3>10
  <2>9. CountsRight'
    BY <1>4, <2>8 DEF CountsRight
  <2> QED
    BY <2>5, <2>6, <2>7, <2>9 DEF NodesInv
<1> QED
  BY <1>1, <1>9, <1>10, <1>11

----------------------------------------------------------------------------
\* The invariant holds at first.
LEMMA CountsInit == Unbounded!Init => NodesInv
<1> SUFFICES ASSUME Unbounded!Init PROVE NodesInv
  OBVIOUS
<1>1. /\ head2 = 0 /\ tail2 = 0 /\ freed = {}
      /\ 0 \in Unbounded!Nodes
      /\ uses \in [Unbounded!Nodes -> Int] /\ uses[0] = 2
      /\ changes = [t \in ChainThreads |-> <<>>]
      /\ loaded = [t \in ChainThreads |-> <<>>]
      /\ \A t \in ChainThreads : pc2[t] = "idle"
  BY ChainItemsFinite DEF Unbounded!Init, Unbounded!Nodes, Unbounded!None, ChainThreads
<1>2. NodesTyped
  BY <1>1 DEF NodesTyped
<1>3. ChangesShaped
  BY <1>1 DEF ChangesShaped, Shaped, Shape, Releases, Unbounded!None
<1>4. ByThreads(0) = 0
  <2>1. ASSUME NEW t \in ChainThreads
        PROVE  /\ ~ Keeps(t, 0) /\ ~ KeepsOld(t, 0) /\ ~ KeepsNew(t, 0)
               /\ ~ LetsGo(t, 0) /\ ~ LetsGoTwice(t, 0)
    <3>1. changes[t] = <<>> /\ pc2[t] = "idle" /\ 0 \in Int
      BY <1>1
    <3> QED
      BY <3>1, NoChange DEF Keeps, KeepsOld, KeepsNew
  <2> QED
    BY <2>1, NobodyKeeps
<1>5. ByList(0) = 2
  BY <1>1 DEF ByList, One
<1>6. CountsRight
  BY <1>1, <1>4, <1>5 DEF CountsRight
<1>7. FreedFirst
  <2>1. freed = 0 .. 0 - 1 /\ 0 \in 0 .. head2
    BY <1>1
  <2> QED
    BY <2>1 DEF FreedFirst
<1> QED
  BY <1>2, <1>3, <1>6, <1>7 DEF NodesInv

\* Every step that loses no change keeps the invariant.
LEMMA CountsNext ==
  ASSUME ChainInv, ChainInv', NodesInv, [Unbounded!Next]_Unbounded!vars, ~ lost'
  PROVE  NodesInv'
<1>1. CASE UNCHANGED Unbounded!vars
  BY <1>1, CountsUnmoved DEF Unbounded!vars
<1>2. ASSUME NEW t \in ChainThreads, Unbounded!Load(t) PROVE NodesInv'
  BY <1>2, LoadQuiet
<1>3. ASSUME NEW t \in ChainThreads, Unbounded!Store(t) PROVE NodesInv'
  BY <1>3, StoreUp, StoreDown DEF ChainThreads
<1>4. ASSUME NEW p \in FifoProducers, Unbounded!PutStep(p) PROVE NodesInv'
  BY <1>4, PutQuiet, PutLinks, PutSwings, PutReturns DEF Unbounded!PutStep
<1>5. ASSUME NEW c \in FifoConsumers, Unbounded!TakeStep(c) PROVE NodesInv'
  BY <1>5, TakeQuiet, TakeCompares, TakePops DEF Unbounded!TakeStep
<1>6. CASE Unbounded!Deactivate
  BY <1>6, CountsUnmoved DEF Unbounded!Deactivate, Unbounded!counts
<1> QED
  BY <1>1, <1>2, <1>3, <1>4, <1>5, <1>6 DEF Unbounded!Next, ChainThreads

\* A lost change stays lost.
LEMMA LostStays == lost /\ [Unbounded!Next]_Unbounded!vars => lost'
<1> SUFFICES ASSUME lost, [Unbounded!Next]_Unbounded!vars PROVE lost'
  OBVIOUS
<1> USE DEF Unbounded!counts
<1>1. ASSUME NEW p \in FifoProducers, Unbounded!PutStep(p) PROVE lost'
  BY <1>1
  DEF Unbounded!PutStep, Unbounded!PutCall, Unbounded!PutLock, Unbounded!PutReject,
      Unbounded!PutCheck, Unbounded!PutLink, Unbounded!PutSwing, Unbounded!PutUnlock,
      Unbounded!PutReturn
<1>2. ASSUME NEW c \in FifoConsumers, Unbounded!TakeStep(c) PROVE lost'
  BY <1>2
  DEF Unbounded!TakeStep, Unbounded!TakeLock, Unbounded!TakeTail,
      Unbounded!TakeCompare, Unbounded!TakeItem, Unbounded!TakePop, Unbounded!TakeUnlock
<1>3. ASSUME NEW t, Unbounded!Load(t) \/ Unbounded!Store(t) PROVE lost'
  BY <1>3 DEF Unbounded!Load, Unbounded!Store
<1>4. CASE Unbounded!Deactivate
  BY <1>4 DEF Unbounded!Deactivate
<1> QED
  BY <1>1, <1>2, <1>3, <1>4 DEF Unbounded!Next, Unbounded!vars

\* What the invariant says when nobody is in the queue.
LEMMA CountsReclaim == ChainInv /\ NodesInv => NodesReclaimed
<1> SUFFICES ASSUME ChainInv, NodesInv PROVE NodesReclaimed
  OBVIOUS
<1>1. PICK k \in 0 .. head2 : freed = 0 .. k - 1
  BY DEF NodesInv, FreedFirst
<1>2. head2 \in Nat /\ tail2 \in Nat /\ head2 <= tail2
  BY DEF ChainInv, ChainStructure, ChainTyped, ChainListed
<1>3. freed \subseteq 0 .. head2 - 1
  BY <1>1, <1>2
<1>4. ASSUME \A t \in ChainThreads : Unbounded!At(t, "idle") PROVE freed = 0 .. head2 - 1
  <2>1. CASE k = head2
    BY <1>1, <2>1
  <2>2. CASE k < head2
    <3>1. ASSUME NEW t \in ChainThreads
          PROVE  /\ ~ Keeps(t, k) /\ ~ KeepsOld(t, k) /\ ~ KeepsNew(t, k)
                 /\ ~ LetsGo(t, k) /\ ~ LetsGoTwice(t, k)
      <4>1. changes[t] = <<>> /\ pc2[t] = "idle" /\ k \in Int
        BY <1>4 DEF Unbounded!At
      <4> QED
        BY <4>1, NoChange DEF Keeps, KeepsOld, KeepsNew
    <3>2. ByThreads(k) = 0
      BY <3>1, NobodyKeeps
    <3>3. ByList(k) = 0
      BY <1>1, <1>2, <2>2 DEF ByList, One
    <3>4. k \in 0 .. tail2
      BY <1>2, <2>2
    <3>5. k \in freed
      BY <3>2, <3>3, <3>4 DEF NodesInv, CountsRight
    <3> QED
      BY <1>1, <3>5
  <2> QED
    BY <1>1, <1>2, <2>1, <2>2
<1> QED
  BY <1>3, <1>4 DEF NodesReclaimed, Unbounded!NodesReclaimed, ChainThreads

\* The nodes of the list are deleted when nobody needs them any more, no earlier and no
\* later, for any number of threads, as long as no change of a count was lost: the
\* counts are the numbers of references (unbounded_fifo.hpp:36-61, 167-180).
THEOREM CountsAreReferences == Unbounded!Spec => []NodesReclaimed
<1> DEFINE Inv == ChainInv /\ (lost \/ NodesInv)
<1>1. Unbounded!Init => Inv
  BY ChainInitIInv, CountsInit
<1>2. Inv /\ [Unbounded!Next]_Unbounded!vars => Inv'
  BY ChainNextIInv, CountsNext, LostStays
<1>3. Inv => NodesReclaimed
  BY CountsReclaim DEF NodesReclaimed, Unbounded!NodesReclaimed
<1> QED
  BY <1>1, <1>2, <1>3, PTL DEF Unbounded!Spec

=============================================================================
