--------------------------- MODULE WorkerPartsProofs ---------------------------
(***************************************************************************)
(* The two parts of MCWorkerParts for every value of their constants.      *)
(*                                                                         *)
(* FastSemaphore: the inductive invariant balances the threads that have   *)
(* committed to sleep against the tokens that are there or on their way,   *)
(* and follows what deactivate() loaded.                                   *)
(*                                                                         *)
(* Wsq: the deque is the indices from First up to Past.  The invariant is  *)
(* that they hold, in order, the tasks that are visible and not handed     *)
(* out, that there is a slot for each, and that owner and thief are never  *)
(* about to take the same one: the owner that goes on without the lock has *)
(* seen a head that no thief which found a task has moved past it.  It     *)
(* holds until a put() was misled; that of the lock alone holds always.    *)
(***************************************************************************)
EXTENDS MCWorkerParts, FiniteSetTheorems, TLAPS

----------------------------------------------------------------------------
(* FastSemaphore.                                                          *)

\* The counter's value space is kept: the kernel semaphore never goes below
\* zero and deactivate() never posts a negative number of tokens.
THEOREM Typing == Spec => []TypeOK
<1>1. Init => TypeOK
  BY InitCountNat, MaxCallsNat DEF Init, TypeOK, Labels
<1>2. TypeOK /\ [Next]_vars => TypeOK'
  <2> SUFFICES ASSUME TypeOK, [Next]_vars PROVE TypeOK'
    OBVIOUS
  <2> USE SpinCountNat DEF TypeOK, Goto, Labels
  <2>1. ASSUME NEW t \in Threads, BeginWait(t) PROVE TypeOK'
    BY <2>1 DEF BeginWait
  <2>2. ASSUME NEW t \in Threads, WaitStep(t) PROVE TypeOK'
    <3>1. CASE TryLoad(t)     BY <3>1 DEF TryLoad
    <3>2. CASE TryActive(t)   BY <3>2 DEF TryActive, TryFailed
    <3>3. CASE TryCas(t)      BY <3>3 DEF TryCas
    <3>4. CASE FetchSub(t)    BY <3>4 DEF FetchSub
    <3>5. CASE CheckActive(t) BY <3>5 DEF CheckActive
    <3>6. CASE SemWait(t)     BY <3>6 DEF SemWait
    <3> QED BY <2>2, <3>1, <3>2, <3>3, <3>4, <3>5, <3>6 DEF WaitStep
  <2>3. ASSUME NEW t \in Threads, Post(t) PROVE TypeOK'
    BY <2>3 DEF Post
  <2>4. ASSUME NEW t \in Threads, SemPost(t) PROVE TypeOK'
    BY <2>4 DEF SemPost
  <2>5. CASE Deactivate
    BY <2>5 DEF Deactivate
  <2>6. CASE DeactivateStep
    <3>1. CASE DeactivateLoad    BY <3>1 DEF DeactivateLoad, Abs
    <3>2. CASE DeactivatePost    BY <3>2 DEF DeactivatePost, Lesser
    <3>3. CASE DeactivateSemPost BY <3>3 DEF DeactivateSemPost
    <3> QED BY <2>6, <3>1, <3>2, <3>3 DEF DeactivateStep
  <2>7. CASE UNCHANGED vars
    BY <2>7 DEF vars
  <2> QED BY <2>1, <2>2, <2>3, <2>4, <2>5, <2>6, <2>7 DEF Next
<1> QED BY <1>1, <1>2, PTL DEF Spec

----------------------------------------------------------------------------
\* Threads asleep beyond the tokens that are there or on their way.
Owed == Cardinality(Committed) - Tokens

\* What every step keeps.  The second and third conjuncts follow
\* deactivate(): what it loaded bounds Owed until it posts, because no thread
\* commits to sleep any more; from its post() on nothing is owed.
Balanced(owed, n, where, loaded) ==
  /\ Covered(owed, n)
  /\ where = "post" => owed <= loaded
  /\ where \in {"sem_post", "done", "threw"} => owed <= 0

OwedInv ==
  /\ Balanced(Owed, sem_count, dpc, dcount)
  /\ sem_active <=> dpc = "idle"

\* The sets of threads are finite, so the balance is an integer.
LEMMA SetsOfThreads ==
  /\ IsFiniteSet(Committed) /\ Cardinality(Committed) \in Nat
  /\ IsFiniteSet(Posting)   /\ Cardinality(Posting) \in Nat
<1>1. Committed \in SUBSET Threads /\ Posting \in SUBSET Threads
  BY DEF Committed, Posting
<1> QED BY <1>1, FiniteThreads, FS_Subset, FS_CardinalityType

LEMMA OwedIsInt == TypeOK => Owed \in Int /\ Tokens \in Nat
<1> SUFFICES ASSUME TypeOK PROVE Owed \in Int /\ Tokens \in Nat
  OBVIOUS
<1>1. sem \in Nat /\ dcount \in Nat
  BY DEF TypeOK
<1> QED
  BY <1>1, SetsOfThreads DEF Owed, Tokens

\* Initially nobody waits and nobody posts.
LEMMA OwedInit == Init => OwedInv
<1> SUFFICES ASSUME Init PROVE OwedInv
  OBVIOUS
<1>1. Committed = {} /\ Posting = {}
  BY DEF Init, Committed, Posting
<1>2. Cardinality(Committed) = 0 /\ Cardinality(Posting) = 0
  BY <1>1, FS_EmptySet
<1> QED
  BY <1>2, InitCountNat DEF Init, OwedInv, Balanced, Covered, Owed, Tokens

\* The balance, step by step: a thread that goes from 0 to -1 does not sleep,
\* one that goes further does; a post() below 0 puts a token.
LEMMA BalanceSteps ==
  ASSUME NEW owed \in Int, NEW n \in Int, NEW where, NEW loaded \in Nat,
         Balanced(owed, n, where, loaded)
  PROVE  /\ n >= 0 => Balanced(owed, n - 1, where, loaded)
         /\ n < 0 => Balanced(owed - 1, n + 1, where, loaded)
         /\ n >= 0 => Balanced(owed, n + 1, where, loaded)
         /\ n < 0 /\ where = "idle" => Balanced(owed + 1, n - 1, where, loaded)
         /\ n < 0 => Balanced(owed, n - 1, where, loaded)
BY DEF Balanced, Covered

\* The balance across deactivate(): fewer threads may be committed once it
\* stored FALSE, its load covers what is owed and its post() settles it.
LEMMA BalanceDeactivate ==
  ASSUME NEW owed \in Int, NEW n \in Int, NEW where, NEW loaded \in Nat,
         Balanced(owed, n, where, loaded)
  PROVE  /\ \A less \in Int : less <= owed => Balanced(less, n, "load", loaded)
         /\ Balanced(owed, n, "post", Abs(n))
         /\ where = "post" /\ n >= 0 => Balanced(owed, n + loaded, "done", loaded)
         /\ where = "post" /\ n < 0 =>
              Balanced(owed - Lesser(loaded, -n), n + loaded, "sem_post",
                       Lesser(loaded, -n))
         /\ where = "post" /\ n < 0 /\ loaded = 0 =>
              Balanced(owed, n + loaded, "threw", 0)
BY DEF Balanced, Covered, Abs, Lesser

----------------------------------------------------------------------------
\* Steps of threads that leave both sets of threads alone.
LEMMA QuietSteps ==
  ASSUME TypeOK, OwedInv, NEW t \in Threads,
         \/ BeginWait(t) \/ TryLoad(t) \/ TryActive(t) \/ TryCas(t)
         \/ CheckActive(t)
         \/ FetchSub(t) /\ (sem_count >= 0 \/ ~ sem_active)
         \/ Post(t) /\ sem_count >= 0
  PROVE  OwedInv'
<1> USE DEF Goto, TryFailed
<1>1. pc \in [Threads -> Labels]
  BY DEF TypeOK
<1>2. UNCHANGED <<sem_active, sem, dpc, dcount>>
  BY DEF BeginWait, TryLoad, TryActive, TryCas, CheckActive, FetchSub, Post
<1>3. \/ sem_count' = sem_count
      \/ sem_count >= 0 /\ sem_count' = sem_count - 1
      \/ sem_count < 0 /\ sem_count' = sem_count - 1
      \/ sem_count >= 0 /\ sem_count' = sem_count + 1
  BY DEF BeginWait, TryLoad, TryActive, TryCas, CheckActive, FetchSub, Post, TypeOK
<1>4. Committed' = Committed /\ Posting' = Posting
  <2> USE <1>1, <1>2 DEF Committed, Posting
  <2>1. CASE BeginWait(t)   BY <2>1 DEF BeginWait
  <2>2. CASE TryLoad(t)     BY <2>2 DEF TryLoad
  <2>3. CASE TryActive(t)   BY <2>3 DEF TryActive
  <2>4. CASE TryCas(t)      BY <2>4 DEF TryCas
  <2>5. CASE CheckActive(t) BY <2>5 DEF CheckActive
  <2>6. CASE FetchSub(t) /\ (sem_count >= 0 \/ ~ sem_active)
    BY <2>6 DEF FetchSub, TypeOK
  <2>7. CASE Post(t) /\ sem_count >= 0
    BY <2>7 DEF Post, TypeOK
  <2> QED BY <2>1, <2>2, <2>3, <2>4, <2>5, <2>6, <2>7
<1>5. Owed' = Owed
  BY <1>2, <1>4 DEF Owed, Tokens
<1>6. Balanced(Owed, sem_count', dpc, dcount)
  BY <1>3, OwedIsInt, BalanceSteps DEF OwedInv, TypeOK
<1> QED
  BY <1>2, <1>5, <1>6 DEF OwedInv

\* wait() below zero on an active semaphore commits a thread to sleep.
LEMMA FetchSubCommits ==
  ASSUME TypeOK, OwedInv, NEW t \in Threads, FetchSub(t),
         sem_count < 0, sem_active
  PROVE  OwedInv'
<1>1. pc \in [Threads -> Labels]
  BY DEF TypeOK
<1>2. /\ UNCHANGED <<sem_active, sem, dpc, dcount>>
      /\ sem_count' = sem_count - 1
  BY DEF FetchSub
<1>3. Committed' = Committed \cup {t} /\ t \notin Committed
  BY <1>1, <1>2, sem_count < 0, sem_count \in Int
  DEF FetchSub, Goto, Committed, TypeOK
<1>4. Posting' = Posting
  BY <1>1 DEF FetchSub, Goto, Posting
<1>5. Cardinality(Committed') = Cardinality(Committed) + 1
  BY <1>3, SetsOfThreads, FS_AddElement
<1>6. Tokens' = Tokens
  BY <1>2, <1>4 DEF Tokens
<1>7. Owed' = Owed + 1
  BY <1>5, <1>6, OwedIsInt, SetsOfThreads DEF Owed
<1>8. Balanced(Owed + 1, sem_count - 1, dpc, dcount)
  BY OwedIsInt, BalanceSteps DEF OwedInv, TypeOK
<1> QED
  BY <1>2, <1>7, <1>8 DEF OwedInv

\* semaphore::wait() takes one token and releases one thread.
LEMMA SemWaitReleases ==
  ASSUME TypeOK, OwedInv, NEW t \in Threads, SemWait(t)
  PROVE  OwedInv'
<1>1. pc \in [Threads -> Labels]
  BY DEF TypeOK
<1>2. UNCHANGED <<sem_count, sem_active, dpc, dcount>> /\ sem' = sem - 1
  BY DEF SemWait
<1>3. Committed' = Committed \ {t} /\ t \in Committed
  BY <1>1, <1>2 DEF SemWait, Goto, Committed
<1>4. Posting' = Posting
  BY <1>1 DEF SemWait, Goto, Posting
<1>5. Cardinality(Committed') = Cardinality(Committed) - 1
  BY <1>3, SetsOfThreads, FS_RemoveElement
<1>6. Tokens' = Tokens - 1
  BY <1>2, <1>4, SetsOfThreads DEF Tokens, TypeOK
<1>7. Owed' = Owed
  BY <1>5, <1>6, OwedIsInt, SetsOfThreads DEF Owed
<1> QED
  BY <1>2, <1>7 DEF OwedInv

\* post() below zero promises a token, semaphore::post() puts it.
LEMMA PostPromises ==
  ASSUME TypeOK, OwedInv, NEW t \in Threads, Post(t), sem_count < 0
  PROVE  OwedInv'
<1>1. pc \in [Threads -> Labels]
  BY DEF TypeOK
<1>2. /\ UNCHANGED <<sem_active, sem, dpc, dcount>>
      /\ sem_count' = sem_count + 1
  BY DEF Post
<1>3. Committed' = Committed
  BY <1>1, <1>2 DEF Post, Goto, Committed
<1>4. Posting' = Posting \cup {t} /\ t \notin Posting
  BY <1>1 DEF Post, Goto, Posting
<1>5. Cardinality(Posting') = Cardinality(Posting) + 1
  BY <1>4, SetsOfThreads, FS_AddElement
<1>6. Tokens' = Tokens + 1
  BY <1>2, <1>5, SetsOfThreads DEF Tokens, TypeOK
<1>7. Owed' = Owed - 1
  BY <1>3, <1>6, OwedIsInt, SetsOfThreads DEF Owed
<1>8. Balanced(Owed - 1, sem_count + 1, dpc, dcount)
  BY OwedIsInt, BalanceSteps DEF OwedInv, TypeOK
<1> QED
  BY <1>2, <1>7, <1>8 DEF OwedInv

LEMMA SemPostKeeps ==
  ASSUME TypeOK, OwedInv, NEW t \in Threads, SemPost(t)
  PROVE  OwedInv'
<1>1. pc \in [Threads -> Labels]
  BY DEF TypeOK
<1>2. UNCHANGED <<sem_count, sem_active, dpc, dcount>> /\ sem' = sem + 1
  BY DEF SemPost
<1>3. Committed' = Committed
  BY <1>1, <1>2 DEF SemPost, Goto, Committed
<1>4. Posting' = Posting \ {t} /\ t \in Posting
  BY <1>1 DEF SemPost, Goto, Posting
<1>5. Cardinality(Posting') = Cardinality(Posting) - 1
  BY <1>4, SetsOfThreads, FS_RemoveElement
<1>6. Tokens' = Tokens
  BY <1>2, <1>5, SetsOfThreads DEF Tokens, TypeOK
<1>7. Owed' = Owed
  BY <1>3, <1>6 DEF Owed
<1> QED
  BY <1>2, <1>7 DEF OwedInv

\* deactivate(): its store drops the threads that have yet to read it; its
\* load and its post() settle what is owed.
LEMMA DeactivateKeeps ==
  ASSUME TypeOK, OwedInv, Deactivate
  PROVE  OwedInv'
<1>1. UNCHANGED <<sem_count, sem, pc, dcount>> /\ dpc = "idle" /\ dpc' = "load"
      /\ ~ sem_active'
  BY DEF Deactivate
<1>2. Committed' \in SUBSET Committed /\ Posting' = Posting
  BY <1>1 DEF Committed, Posting
<1>3. /\ Cardinality(Committed') \in Nat
      /\ Cardinality(Committed') <= Cardinality(Committed)
  BY <1>2, SetsOfThreads, FS_Subset, FS_CardinalityType
<1>4. Tokens' = Tokens
  BY <1>1, <1>2 DEF Tokens
<1> DEFINE less == Owed'
<1>5. less \in Int /\ less <= Owed
  <2>1. less = Cardinality(Committed') - Tokens
    BY <1>4 DEF Owed
  <2> HIDE DEF less
  <2> QED BY <2>1, <1>3, OwedIsInt, SetsOfThreads DEF Owed
<1>6. Balanced(less, sem_count, "load", dcount)
  <2> HIDE DEF less
  <2> QED BY <1>5, OwedIsInt, BalanceDeactivate DEF OwedInv, TypeOK
<1> QED
  BY <1>1, <1>6 DEF OwedInv

LEMMA DeactivateStepKeeps ==
  ASSUME TypeOK, OwedInv, DeactivateStep
  PROVE  OwedInv'
<1>1. UNCHANGED <<sem_active, pc>> /\ dpc # "idle" /\ dpc' # "idle" /\ ~ sem_active
  BY DEF DeactivateStep, DeactivateLoad, DeactivatePost, DeactivateSemPost, OwedInv
<1>2. Committed' = Committed /\ Posting' = Posting
  BY <1>1 DEF Committed, Posting
<1>3. /\ Owed \in Int /\ Tokens \in Nat /\ sem_count \in Int /\ dcount \in Nat
      /\ sem \in Nat
  BY OwedIsInt DEF TypeOK
<1>4. ASSUME DeactivateLoad PROVE OwedInv'
  <2>1. Owed' = Owed
    BY <1>2, <1>4 DEF DeactivateLoad, Owed, Tokens
  <2>2. Balanced(Owed, sem_count, "post", Abs(sem_count))
    BY <1>3, BalanceDeactivate DEF OwedInv
  <2> QED BY <1>1, <1>4, <2>1, <2>2 DEF OwedInv, DeactivateLoad
<1>5. ASSUME DeactivatePost, sem_count >= 0 PROVE OwedInv'
  <2>1. Owed' = Owed
    BY <1>2, <1>3, <1>5 DEF DeactivatePost, Owed, Tokens
  <2>2. Balanced(Owed, sem_count + dcount, "done", dcount)
    BY <1>3, <1>5, BalanceDeactivate DEF OwedInv, DeactivatePost
  <2>3. sem_count' = sem_count + dcount /\ dpc' = "done" /\ dcount' = dcount
    BY <1>3, <1>5 DEF DeactivatePost
  <2> QED BY <1>1, <2>1, <2>2, <2>3 DEF OwedInv
<1>6. ASSUME DeactivatePost, sem_count < 0, dcount = 0 PROVE OwedInv'
  <2>1. sem_count' = sem_count + dcount /\ dpc' = "threw" /\ dcount' = 0
    BY <1>3, <1>6 DEF DeactivatePost, Lesser
  <2>2. Owed' = Owed
    BY <1>2, <1>3, <1>6, <2>1 DEF DeactivatePost, Owed, Tokens
  <2>3. Balanced(Owed, sem_count + dcount, "threw", 0)
    BY <1>3, <1>6, BalanceDeactivate DEF OwedInv, DeactivatePost
  <2> QED BY <1>1, <2>1, <2>2, <2>3 DEF OwedInv
<1>7. ASSUME DeactivatePost, sem_count < 0, dcount # 0 PROVE OwedInv'
  <2> DEFINE n == Lesser(dcount, -sem_count)
  <2>1. sem_count' = sem_count + dcount /\ dpc' = "sem_post" /\ dcount' = n
        /\ dpc = "post" /\ sem' = sem
    BY <1>3, <1>7 DEF DeactivatePost
  <2>2. n \in Nat
    BY <1>3, <1>7 DEF Lesser
  <2>3. Tokens' = Tokens + n
    <3> HIDE DEF n
    <3> QED BY <1>2, <1>3, <2>1, <2>2, SetsOfThreads DEF Tokens
  <2>4. Owed' = Owed - n
    <3> HIDE DEF n
    <3> QED BY <1>2, <1>3, <2>2, <2>3, SetsOfThreads DEF Owed
  <2>5. Balanced(Owed - n, sem_count + dcount, "sem_post", n)
    BY <1>3, <1>7, <2>1, BalanceDeactivate DEF OwedInv
  <2> QED BY <1>1, <2>1, <2>4, <2>5 DEF OwedInv
<1>8. ASSUME DeactivateSemPost PROVE OwedInv'
  <2>1. /\ dpc = "sem_post" /\ dpc' = "done" /\ sem' = sem + dcount
        /\ UNCHANGED <<sem_count, dcount>>
    BY <1>8 DEF DeactivateSemPost
  <2>2. Tokens' = Tokens
    BY <1>2, <1>3, <2>1, SetsOfThreads DEF Tokens
  <2>3. Owed' = Owed
    BY <1>2, <2>2 DEF Owed
  <2>4. Balanced(Owed, sem_count, "done", dcount)
    BY <2>1 DEF OwedInv, Balanced
  <2> QED BY <1>1, <2>1, <2>3, <2>4 DEF OwedInv
<1> QED
  BY <1>3, <1>4, <1>5, <1>6, <1>7, <1>8 DEF DeactivateStep

\* The invariant holds in every reachable state.
THEOREM OwedIsInvariant == Spec => []OwedInv
<1>1. TypeOK /\ OwedInv /\ [Next]_vars => OwedInv'
  <2> SUFFICES ASSUME TypeOK, OwedInv, [Next]_vars PROVE OwedInv'
    OBVIOUS
  <2>1. sem_count \in Int
    BY DEF TypeOK
  <2>2. ASSUME NEW t \in Threads, BeginWait(t) \/ WaitStep(t) PROVE OwedInv'
    <3>1. CASE FetchSub(t)
      <4>1. sem_count < 0 \/ sem_count >= 0
        BY <2>1
      <4> QED BY <3>1, <4>1, QuietSteps, FetchSubCommits
    <3>2. CASE SemWait(t)
      BY <3>2, SemWaitReleases
    <3> QED BY <2>2, <3>1, <3>2, QuietSteps DEF WaitStep
  <2>3. ASSUME NEW t \in Threads, Post(t) PROVE OwedInv'
    <3>1. sem_count < 0 \/ sem_count >= 0
      BY <2>1
    <3> QED BY <2>3, <3>1, QuietSteps, PostPromises
  <2>4. ASSUME NEW t \in Threads, SemPost(t) PROVE OwedInv'
    BY <2>4, SemPostKeeps
  <2>5. CASE Deactivate
    BY <2>5, DeactivateKeeps
  <2>6. CASE DeactivateStep
    BY <2>6, DeactivateStepKeeps
  <2>7. CASE UNCHANGED vars
    BY <2>7 DEF vars, OwedInv, Balanced, Covered, Owed, Tokens, Committed, Posting
  <2> QED BY <2>2, <2>3, <2>4, <2>5, <2>6, <2>7 DEF Next
<1> QED BY <1>1, OwedInit, Typing, PTL DEF Spec

\* For any number of threads: wait() and post() lose no wakeup.
THEOREM LosesNoWakeup == Spec => []NoLostWakeup
<1>1. OwedInv => NoLostWakeup
  BY DEF OwedInv, Balanced, NoLostWakeup, Owed
<1> QED BY <1>1, OwedIsInvariant, PTL

\* For any number of threads: after its post() deactivate() has provided a
\* token for every thread that still sleeps, even when it throws.
THEOREM DeactivationSettles == Spec => []DeactivationReleasesAll
<1>1. TypeOK /\ OwedInv => DeactivationReleasesAll
  <2> SUFFICES ASSUME TypeOK, OwedInv, dpc \in {"sem_post", "done", "threw"}
               PROVE  Cardinality(Committed) <= Tokens
    BY DEF DeactivationReleasesAll
  <2>1. Owed <= 0
    BY DEF OwedInv, Balanced
  <2> QED BY <2>1, OwedIsInt, SetsOfThreads DEF Owed
<1> QED BY <1>1, OwedIsInvariant, Typing, PTL

----------------------------------------------------------------------------
(* Wsq.                                                                    *)

OwnerLabels == {"idle", "put_slot", "put_tail", "put_lock", "put_post",
                "take_head", "take_swap", "take_lock"}
ThiefLabels == {"idle", "advance", "check", "swap", "restore"}
Ahead == {"check", "swap", "restore"}   \* the thief has moved the head

\* The last task whose put() has made it visible.
Last == IF opc \in {"put_slot", "put_tail", "put_lock"} THEN puts - 1 ELSE puts

----------------------------------------------------------------------------
(* The slots of the ring.                                                  *)

\* An index has a slot, its own in the first round.
LEMMA InRing == \A i \in Nat, c \in Nat \ {0} : i % c \in 0 .. c - 1 /\ (i < c
      => i % c = i)
OBVIOUS

\* Indices that are less than a round apart have slots of their own.
LEMMA OwnSlots ==
  ASSUME NEW i \in Nat, NEW j \in Nat, NEW c \in Nat \ {0}, i < j, j < i + c
  PROVE  i % c # j % c
<1> SUFFICES ASSUME i % c = j % c PROVE FALSE
  OBVIOUS
<1> DEFINE q == i \div c
           p == j \div c
           r == i % c
<1>1. i = c * q + r /\ q \in Int /\ r \in Int
  OBVIOUS
<1>2. j = c * p + r /\ p \in Int
  OBVIOUS
<1> HIDE DEF q, p, r
<1>3. j - i = c * (p - q)
  BY <1>1, <1>2
<1>4. CASE p - q >= 1
  BY <1>1, <1>2, <1>3, <1>4
<1>5. CASE p - q <= 0
  BY <1>1, <1>2, <1>3, <1>5
<1> QED
  BY <1>1, <1>2, <1>4, <1>5

----------------------------------------------------------------------------
(* What the deque holds.                                                   *)

\* item[i] is the task at index i.
Items(arr, cap) == [i \in Nat |-> arr[i % cap]]

\* From first on, up to past, are the tasks up to `last' that were not handed
\* out, in the order in which they were put.
Holds(item, first, past, gave, last) ==
  /\ \A i \in first .. past - 1 : item[i] \in 1 .. last /\ gave[item[i]] = 0
  /\ \A i, j \in first .. past - 1 : i < j => item[i] < item[j]
  /\ \A x \in 1 .. last : gave[x] = 0 => \E i \in first .. past - 1 : item[i] = x
  /\ \A x \in Deque!Tasks : gave[x] \in {0, 1} /\ (x > last => gave[x] = 0)

\* The array with x at index i.
With(arr, cap, i, x) == [arr EXCEPT ![i % cap] = x]

\* They follow each other, and there are slots for them.
Ring(arr, cap, first, past) ==
  /\ cap \in Nat \ {0}
  /\ arr \in [0 .. cap - 1 -> Deque!Tasks \cup {Deque!Empty}]
  /\ first \in Nat /\ past \in Nat
  /\ first <= past /\ past - first <= cap

\* Other indices do not matter.
LEMMA SameItems ==
  ASSUME NEW item, NEW item2, NEW first, NEW past, NEW gave, NEW last,
         Holds(item, first, past, gave, last),
         \A i \in first .. past - 1 : item2[i] = item[i]
  PROVE  Holds(item2, first, past, gave, last)
BY DEF Holds

\* A slot that holds none of the tasks is written.
LEMMA WriteBeyond ==
  ASSUME NEW arr, NEW cap, NEW first, NEW past, NEW x \in Deque!Tasks,
         NEW arr2, arr2 = With(arr, cap, past, x),
         Ring(arr, cap, first, past), past - first < cap
  PROVE  /\ Ring(arr2, cap, first, past)
         /\ Items(arr2, cap)[past] = x
         /\ \A i \in first .. past - 1 : Items(arr2, cap)[i] = Items(arr, cap)[i]
<1>1. past % cap \in 0 .. cap - 1
  BY InRing DEF Ring
<1>2. \A i \in first .. past - 1 : i \in Nat /\ i % cap # past % cap
  <2> SUFFICES ASSUME NEW i \in first .. past - 1
               PROVE  i \in Nat /\ i % cap # past % cap
    OBVIOUS
  <2>1. i \in Nat /\ past \in Nat /\ cap \in Nat \ {0} /\ i < past /\ past < i + cap
    BY DEF Ring
  <2> QED
    BY <2>1, OwnSlots
<1>3. \A i \in first .. past - 1 : i % cap \in 0 .. cap - 1
  BY <1>2, InRing DEF Ring
<1>4. \A i \in first .. past - 1 : arr2[i % cap] = arr[i % cap]
  BY <1>1, <1>2, <1>3 DEF Ring, With
<1>5. arr2 \in [0 .. cap - 1 -> Deque!Tasks \cup {Deque!Empty}] /\ arr2[past % cap] = x
  BY <1>1 DEF Ring, With
<1>6. \A i \in Nat :
        /\ Items(arr2, cap)[i] = arr2[i % cap]
        /\ Items(arr, cap)[i] = arr[i % cap]
  BY DEF Items
<1>7. past \in Nat
  BY DEF Ring
<1>8. \A i \in first .. past - 1 : Items(arr2, cap)[i] = Items(arr, cap)[i]
  BY <1>2, <1>4, <1>6
<1>9. Items(arr2, cap)[past] = x /\ Ring(arr2, cap, first, past)
  BY <1>5, <1>6, <1>7 DEF Ring
<1> QED
  BY <1>8, <1>9

\* The next task becomes visible behind the others.
LEMMA OneMore ==
  ASSUME NEW item, NEW first \in Nat, NEW past \in Nat, NEW gave,
         NEW last \in Nat, last + 1 \in Deque!Tasks, first <= past,
         Holds(item, first, past, gave, last), item[past] = last + 1
  PROVE  Holds(item, first, past + 1, gave, last + 1)
<1>1. \A i \in first .. (past + 1) - 1 : i \in first .. past - 1 \/ i = past
  OBVIOUS
<1>2. /\ first .. past - 1 \subseteq first .. (past + 1) - 1
      /\ past \in first .. (past + 1) - 1
  OBVIOUS
<1>3. \A x \in 1 .. last + 1 : x \in 1 .. last \/ x = last + 1
  OBVIOUS
<1>4. gave[last + 1] = 0
  BY DEF Holds, Deque!Tasks
<1>5. \A i \in first .. (past + 1) - 1 :
        item[i] \in 1 .. last + 1 /\ gave[item[i]] = 0
  BY <1>1, <1>4 DEF Holds
<1>6. \A i, j \in first .. (past + 1) - 1 : i < j => item[i] < item[j]
  <2> SUFFICES ASSUME NEW i \in first .. (past + 1) - 1,
            NEW j \in first .. (past + 1) - 1, i < j
               PROVE  item[i] < item[j]
    OBVIOUS
  <2>1. i \in first .. past - 1
    OBVIOUS
  <2>2. CASE j = past
    <3>1. item[i] \in 1 .. last
      BY <2>1 DEF Holds
    <3> QED
      BY <2>2, <3>1
  <2>3. CASE j \in first .. past - 1
    BY <2>1, <2>3 DEF Holds
  <2> QED
    BY <1>1, <2>2, <2>3
<1>7. \A x \in 1 .. last + 1 :
        gave[x] = 0 => \E i \in first .. (past + 1) - 1 : item[i] = x
  BY <1>2, <1>3 DEF Holds
<1>8. \A x \in Deque!Tasks : gave[x] \in {0, 1} /\ (x > last + 1 => gave[x] = 0)
  BY DEF Holds, Deque!Tasks
<1> QED
  BY <1>5, <1>6, <1>7, <1>8 DEF Holds

\* One of two that are there is the older one.
LEMMA Apart ==
  ASSUME NEW item, NEW first \in Nat, NEW past \in Nat, NEW gave, NEW last \in Nat,
         Holds(item, first, past, gave, last),
         NEW i \in first .. past - 1, NEW j \in first .. past - 1, i # j
  PROVE  item[i] # item[j]
<1>1. item[i] \in Int /\ item[j] \in Int
  BY DEF Holds
<1>2. i < j => item[i] < item[j]
  BY DEF Holds
<1>3. j < i => item[j] < item[i]
  BY DEF Holds
<1> QED
  BY <1>1, <1>2, <1>3

\* The first or the last task is handed out.
LEMMA OneLess ==
  ASSUME NEW item, NEW first \in Nat, NEW past \in Nat,
        NEW gave \in [Deque!Tasks -> Nat],
         NEW last \in 0 .. MaxPuts, MaxPuts \in Nat,
         NEW k \in Nat, NEW first2 \in Nat, NEW past2 \in Nat, first < past,
         \/ k = first /\ first2 = first + 1 /\ past2 = past
         \/ k = past - 1 /\ first2 = first /\ past2 = past - 1,
         Holds(item, first, past, gave, last)
  PROVE  /\ item[k] \in 1 .. last /\ item[k] \in Deque!Tasks
         /\ Holds(item, first2, past2, [gave EXCEPT ![item[k]] = @ + 1], last)
<1> DEFINE x  == item[k]
           g2 == [gave EXCEPT ![x] = @ + 1]
<1>1. k \in first .. past - 1
  OBVIOUS
<1>2. \A i \in first .. past - 1 : i \in first2 .. past2 - 1 <=> i # k
  OBVIOUS
<1>3. \A i \in first2 .. past2 - 1 : i \in first .. past - 1
  OBVIOUS
<1>4. \A y \in 1 .. last : y \in Deque!Tasks
  BY DEF Deque!Tasks
<1>8. x \in 1 .. last /\ gave[x] = 0 /\ x \in Deque!Tasks
  BY <1>1, <1>4 DEF Holds
<1>9. \A i \in first .. past - 1 : i # k => item[i] # x
  BY <1>1, Apart
<1>10. \A y \in Deque!Tasks : g2[y] = IF y = x THEN 1 ELSE gave[y]
  BY <1>8
<1> HIDE DEF x, g2
<1>12. Holds(item, first2, past2, g2, last)
  <2>1. ASSUME NEW i \in first2 .. past2 - 1
        PROVE  item[i] \in 1 .. last /\ g2[item[i]] = 0
    <3>1. i \in first .. past - 1 /\ i # k
      BY <1>2, <1>3
    <3>2. item[i] \in 1 .. last /\ gave[item[i]] = 0
      BY <3>1 DEF Holds
    <3> QED
      BY <1>4, <1>9, <1>10, <3>1, <3>2
  <2>2. \A i, j \in first2 .. past2 - 1 : i < j => item[i] < item[j]
    BY <1>3 DEF Holds
  <2>3. \A y \in 1 .. last : g2[y] = 0 => \E i \in first2 .. past2 - 1 : item[i] = y
    <3> SUFFICES ASSUME NEW y \in 1 .. last, g2[y] = 0
                 PROVE  \E i \in first2 .. past2 - 1 : item[i] = y
      OBVIOUS
    <3>1. y # x /\ gave[y] = 0
      BY <1>4, <1>10
    <3>2. PICK i \in first .. past - 1 : item[i] = y
      BY <3>1 DEF Holds
    <3>3. i # k
      BY <3>1, <3>2 DEF x
    <3> QED
      BY <1>2, <3>2, <3>3
  <2>4. \A y \in Deque!Tasks : g2[y] \in {0, 1} /\ (y > last => g2[y] = 0)
    BY <1>8, <1>10 DEF Holds, Deque!Tasks
  <2> QED
    BY <2>1, <2>2, <2>3, <2>4 DEF Holds
<1> QED
  BY <1>8, <1>12 DEF x, g2

\* The same tasks, but for index k.
SameBut(k, item, item2, first, past) ==
  \A i \in first .. past - 1 : i # k => item2[i] = item[i]

\* Its slot is emptied.
LEMMA Emptied ==
  ASSUME NEW arr, NEW cap, NEW first, NEW past, NEW k \in Nat, k \in first .. past - 1,
         NEW arr2, arr2 = With(arr, cap, k, Deque!Empty),
         Ring(arr, cap, first, past)
  PROVE  /\ Ring(arr2, cap, first, past)
         /\ SameBut(k, Items(arr, cap), Items(arr2, cap), first, past)
<1>1. k \in Nat /\ k % cap \in 0 .. cap - 1
  BY InRing DEF Ring
<1>2. \A i \in first .. past - 1 : i \in Nat /\ (i # k => i % cap # k % cap)
  <2> SUFFICES ASSUME NEW i \in first .. past - 1
               PROVE  i \in Nat /\ (i # k => i % cap # k % cap)
    OBVIOUS
  <2>1. i \in Nat /\ cap \in Nat \ {0} /\ i < k + cap /\ k < i + cap
    BY DEF Ring
  <2>2. i < k => i % cap # k % cap
    BY <1>1, <2>1, OwnSlots
  <2>3. k < i => i % cap # k % cap
    BY <1>1, <2>1, OwnSlots
  <2> QED
    BY <1>1, <2>1, <2>2, <2>3
<1>3. \A i \in first .. past - 1 : i % cap \in 0 .. cap - 1
  BY <1>2, InRing DEF Ring
<1>4. \A i \in first .. past - 1 : i # k => arr2[i % cap] = arr[i % cap]
  BY <1>1, <1>2, <1>3 DEF Ring, With
<1>5. arr2 \in [0 .. cap - 1 -> Deque!Tasks \cup {Deque!Empty}]
  BY <1>1 DEF Ring, With
<1>6. \A i \in Nat :
        /\ Items(arr2, cap)[i] = arr2[i % cap]
        /\ Items(arr, cap)[i] = arr[i % cap]
  BY DEF Items
<1>7. \A i \in first .. past - 1 : i # k => Items(arr2, cap)[i] = Items(arr, cap)[i]
  BY <1>2, <1>4, <1>6
<1> QED
  BY <1>1, <1>5, <1>6, <1>7 DEF Ring, SameBut

\* Growth copies the tasks to the beginning of an array twice as large.
LEMMA Growth ==
  ASSUME NEW arr, NEW cap, NEW first, NEW past, NEW gave, NEW last, NEW big,
         Ring(arr, cap, first, past),
         big = [i \in 0 .. 2 * cap - 1 |->
                  IF i < past - first THEN arr[(i + first) % cap] ELSE Deque!Empty],
         Holds(Items(arr, cap), first, past, gave, last)
  PROVE  /\ Ring(big, 2 * cap, 0, past - first) /\ past - first < 2 * cap
         /\ Holds(Items(big, 2 * cap), 0, past - first, gave, last)
<1> DEFINE n == past - first
           item == Items(arr, cap)
           item2 == Items(big, 2 * cap)
<1>1. cap \in Nat \ {0} /\ 2 * cap \in Nat \ {0} /\ n \in 0 .. cap /\ n < 2 * cap
      /\ first \in Nat /\ past \in Nat
  BY DEF Ring
<1>2. \A i \in 0 .. n - 1 : i \in Nat /\ i + first \in Nat
                            /\ i + first \in first .. past - 1 /\ i \in 0 .. 2 * cap - 1
  BY <1>1
<1>3. \A i \in 0 .. n - 1 : i % (2 * cap) = i
  <2> SUFFICES ASSUME NEW i \in 0 .. n - 1 PROVE i % (2 * cap) = i
    OBVIOUS
  <2>1. i \in Nat /\ i < 2 * cap
    BY <1>1
  <2> QED
    BY <1>1, <2>1, InRing
<1>4. \A i \in 0 .. n - 1 : big[i] = arr[(i + first) % cap]
  <2> DEFINE b == 2 * cap - 1
  <2>1. big = [i \in 0 .. b |-> IF i < n THEN arr[(i + first) % cap] ELSE Deque!Empty]
    OBVIOUS
  <2>2. \A i \in 0 .. n - 1 : i \in 0 .. b /\ i < n
    BY <1>1
  <2> HIDE DEF n, b
  <2> QED
    BY <2>1, <2>2
<1>5. \A i \in 0 .. 2 * cap - 1 : i + first \in Nat
  BY <1>1
<1>6. \A i \in 0 .. 2 * cap - 1 : (i + first) % cap \in 0 .. cap - 1
  BY <1>1, <1>5, InRing
<1>7. big \in [0 .. 2 * cap - 1 -> Deque!Tasks \cup {Deque!Empty}]
  BY <1>6 DEF Ring
<1>8. \A i \in 0 .. n - 1 : item2[i] = item[i + first]
  BY <1>2, <1>3, <1>4 DEF Items
<1>9. \A i \in first .. past - 1 : i - first \in 0 .. n - 1 /\ (i - first) + first = i
  BY <1>1
<1>10. \A i, j \in 0 .. n - 1 : i < j => i + first < j + first
  BY <1>1
<1> HIDE DEF n, item, item2
<1>11. Holds(item, first, past, gave, last)
  BY DEF item
<1>12. Holds(item2, 0, n, gave, last)
  <2>1. \A i \in 0 .. n - 1 : item2[i] \in 1 .. last /\ gave[item2[i]] = 0
    BY <1>2, <1>8, <1>11 DEF Holds
  <2>2. \A i, j \in 0 .. n - 1 : i < j => item2[i] < item2[j]
    BY <1>2, <1>8, <1>10, <1>11 DEF Holds
  <2>3. \A y \in 1 .. last : gave[y] = 0 => \E i \in 0 .. n - 1 : item2[i] = y
    <3> SUFFICES ASSUME NEW y \in 1 .. last, gave[y] = 0
                 PROVE  \E i \in 0 .. n - 1 : item2[i] = y
      OBVIOUS
    <3>1. PICK i \in first .. past - 1 : item[i] = y
      BY <1>11 DEF Holds
    <3>2. i - first \in 0 .. n - 1 /\ (i - first) + first = i
      BY <1>9
    <3>3. item2[i - first] = y
      BY <1>8, <3>1, <3>2
    <3> QED
      BY <3>2, <3>3
  <2> QED
    BY <1>11, <2>1, <2>2, <2>3 DEF Holds
<1> QED
  BY <1>1, <1>7, <1>12 DEF Ring, n, item2

----------------------------------------------------------------------------
(* The invariant.                                                          *)

Control ==
  /\ opc \in OwnerLabels /\ tpc \in [Thieves -> ThiefLabels]
  /\ mtx \in Thieves \cup {Deque!Free}
  /\ head \in Nat /\ tail \in Nat /\ thead \in [Thieves -> Nat]
  /\ puts \in 0 .. MaxPuts
  /\ opc \in {"put_slot", "put_tail", "put_lock"} => puts # 0
  /\ given \in [Deque!Tasks -> Nat]
  /\ \A th \in Thieves :
       /\ tpc[th] # "idle" <=> mtx = th
       /\ tpc[th] = "advance" => thead[th] = head
       /\ tpc[th] \in Ahead => thead[th] + 1 = head

\* The owner writes a slot that is free, and takes an index no thief takes.
Competing ==
  /\ opc \in {"put_slot", "put_tail"} => tail - Deque!First < capacity
  /\ opc = "take_swap" => Deque!First <= tail
  /\ \A th \in Thieves :
       tpc[th] = "swap"
             => thead[th] < Deque!Past /\ (opc = "take_swap" => thead[th] < tail)

Item == Items(array, capacity)

Sound ==
  /\ Control
  /\ Ring(array, capacity, Deque!First, Deque!Past)
  /\ Competing
  /\ Holds(Item, Deque!First, Deque!Past, given, Last)
  /\ opc = "put_tail" => Item[tail] = puts
  /\ ~ gaveEmpty

DequeInv == misled \/ Sound

----------------------------------------------------------------------------
\* First is the head, or the index that a thief is about to take.
FirstKnown ==
  /\ mtx = Deque!Free => Deque!First = head
  /\ \A th \in Thieves :
       /\ tpc[th] = "advance" => Deque!First = head
       /\ tpc[th] \in Ahead => Deque!First = thead[th]
       /\ mtx = th => tpc[th] # "idle"

LEMMA WhereFirst == Control => FirstKnown
<1> SUFFICES ASSUME Control PROVE FirstKnown
  OBVIOUS
<1>0. Deque!Free \notin Thieves
  BY DequeAssumption DEF Deque!WsqConstants
<1>1. ASSUME mtx = Deque!Free PROVE Deque!First = head
  BY <1>0, <1>1 DEF Control, Deque!First, ThiefLabels
<1>2. ASSUME NEW th \in Thieves, tpc[th] = "advance" PROVE Deque!First = head
  BY <1>2 DEF Control, Deque!First, ThiefLabels
<1>3. ASSUME NEW th \in Thieves, tpc[th] \in Ahead PROVE Deque!First = thead[th]
  BY <1>3 DEF Control, Deque!First, Ahead
<1> QED
  BY <1>1, <1>2, <1>3 DEF FirstKnown, Control

LEMMA WhereFirstNext == Control' => FirstKnown'
BY WhereFirst, PTL

\* The step moves no task.
LEMMA Quiet ==
  ASSUME Sound, Control', Competing', Deque!First' = Deque!First,
        Deque!Past' = Deque!Past, Last' = Last,
         UNCHANGED <<array, capacity, given, gaveEmpty>>,
         opc' = "put_tail" => opc = "put_tail" /\ UNCHANGED <<puts, tail>>
  PROVE  Sound'
<1>1. Item' = Item
  BY DEF Item, Items
<1>2. /\ Ring(array, capacity, Deque!First, Deque!Past)'
      /\ Holds(Item, Deque!First, Deque!Past, given, Last)'
  BY <1>1 DEF Sound, Ring, Holds
<1> QED
  BY <1>1, <1>2 DEF Sound

\* A count stays a count.
LEMMA Swapped ==
  ASSUME NEW i, Deque!SwapOut(i), given \in [Deque!Tasks -> Nat]
  PROVE  given' \in [Deque!Tasks -> Nat]
BY DEF Deque!SwapOut

\* Where everybody is, whoever steps.
LEMMA ControlStep ==
  ASSUME Sound, Deque!Next
  PROVE  Control'
<1>0. Control /\ Deque!Free \notin Thieves /\ MaxPuts \in Nat
  BY DequeAssumption DEF Sound, Deque!WsqConstants
<1> USE <1>0 DEF Control, OwnerLabels, ThiefLabels, Ahead
<1>1. CASE Deque!PutBegin
  BY <1>1 DEF Deque!PutBegin
<1>2. CASE Deque!PutSlot \/ Deque!PutTail \/ Deque!PutPost
  BY <1>2 DEF Deque!PutSlot, Deque!PutTail, Deque!PutPost
<1>3. CASE Deque!PutLocked
  <2>1. Deque!First = head
    BY <1>3, WhereFirst DEF Deque!PutLocked, FirstKnown
  <2>2. tail - head \in Nat
    BY <1>3, <2>1 DEF Sound, Ring, Deque!Past, Deque!PutLocked
  <2> QED
    BY <1>3, <2>2 DEF Deque!PutLocked
<1>4. CASE Deque!TakeBegin \/ Deque!TakeCheck \/ Deque!TakeFails
  BY <1>4 DEF Deque!TakeBegin, Deque!TakeCheck, Deque!TakeFails
<1>5. CASE Deque!TakeSwap \/ Deque!TakeLocked
  BY <1>5, Swapped DEF Deque!TakeSwap, Deque!TakeLocked
<1>6. ASSUME NEW th \in Thieves, Deque!StealLock(th) PROVE Control'
  BY <1>6 DEF Deque!StealLock, Deque!StealAt
<1>7. ASSUME NEW th \in Thieves, Deque!StealAdvance(th) PROVE Control'
  BY <1>7 DEF Deque!StealAdvance, Deque!StealAt
<1>8. ASSUME NEW th \in Thieves, Deque!StealCheck(th) PROVE Control'
  BY <1>8 DEF Deque!StealCheck, Deque!StealAt
<1>9. ASSUME NEW th \in Thieves, Deque!StealSwap(th) PROVE Control'
  BY <1>9, Swapped DEF Deque!StealSwap, Deque!StealAt
<1>10. ASSUME NEW th \in Thieves, Deque!StealRestore(th) PROVE Control'
  BY <1>10 DEF Deque!StealRestore, Deque!StealAt
<1> QED
  BY <1>1, <1>2, <1>3, <1>4, <1>5, <1>6, <1>7, <1>8, <1>9, <1>10
  DEF Deque!Next, Deque!Put, Deque!Take, Deque!Steal

----------------------------------------------------------------------------
(* The steps.                                                              *)

\* The thieves and the head stay, and so does First.
LEMMA FirstStays ==
  ASSUME UNCHANGED <<tpc, head>>
  PROVE  Deque!First' = Deque!First
BY DEF Deque!First

\* The owner's steps that move no task.
LEMMA OwnerQuiet ==
  ASSUME Sound, Deque!Next, ~ misled', Deque!PutBegin \/ Deque!PutPost \/
        Deque!TakeBegin \/ Deque!TakeCheck \/ Deque!TakeFails
  PROVE  Sound'
<1>1. Control /\ Control' /\ FirstKnown
  BY ControlStep, WhereFirst DEF Sound
<1>2. Deque!First' = Deque!First /\ Deque!First \in Nat
  BY FirstStays
  DEF Deque!PutBegin, Deque!PutPost, Deque!TakeBegin, Deque!TakeCheck, Deque!TakeFails,
      Sound, Ring
<1>3. Deque!Past' = Deque!Past /\ Last' = Last
  <2>1. tail \in Nat /\ puts \in Nat
    BY <1>1 DEF Control
  <2>2. CASE Deque!PutBegin
    BY <2>1, <2>2 DEF Deque!PutBegin, Deque!Past, Last
  <2>3. CASE Deque!PutPost
    BY <2>1, <2>3 DEF Deque!PutPost, Deque!Past, Last
  <2>4. CASE Deque!TakeBegin
    BY <2>1, <2>4 DEF Deque!TakeBegin, Deque!Past, Last
  <2>5. CASE Deque!TakeCheck
    BY <2>1, <2>5 DEF Deque!TakeCheck, Deque!Past, Last
  <2>6. CASE Deque!TakeFails
    BY <2>1, <2>6 DEF Deque!TakeFails, Deque!Past, Last
  <2> QED
    BY <2>2, <2>3, <2>4, <2>5, <2>6
<1>4. /\ UNCHANGED <<array, capacity, given, gaveEmpty, tpc, thead, head>>
      /\ opc' # "put_tail"
  BY DEF Deque!PutBegin, Deque!PutPost, Deque!TakeBegin, Deque!TakeCheck,
         Deque!TakeFails
<1>5. Competing'
  <2>1. CASE Deque!PutBegin
    <3>1. opc' = "put_slot" => tail - Deque!First < capacity
      <4>1. opc' = "put_slot" => ~ (tail > Deque!First + (capacity - 1))
        BY <2>1 DEF Deque!PutBegin, Deque!mask
      <4>2. tail \in Nat /\ Deque!First \in Nat /\ capacity \in Nat
        BY <1>1, <1>2 DEF Control, Sound, Ring
      <4> QED
        BY <4>1, <4>2
    <3> QED
      BY <1>1, <1>2, <1>3, <1>4, <2>1, <3>1 DEF Deque!PutBegin, Competing, Sound
  <2>2. CASE Deque!PutPost \/ Deque!TakeBegin \/ Deque!TakeFails
    BY <1>2, <1>3, <1>4, <2>2
    DEF Deque!PutPost, Deque!TakeBegin, Deque!TakeFails, Competing, Sound
  <2>3. CASE Deque!TakeCheck
    <3>1. Deque!First <= head
      BY <1>1 DEF Deque!First, Control
    <3>2. UNCHANGED tail /\ opc' \in {"take_swap", "take_lock"}
          /\ (opc' = "take_swap" => head <= tail)
      BY <2>3 DEF Deque!TakeCheck
    <3>3. ASSUME NEW th \in Thieves, tpc[th] = "swap", opc' = "take_swap"
          PROVE  thead[th] < tail
      BY <1>1, <3>2, <3>3 DEF Control, Ahead
    <3>4. Deque!First \in Nat /\ head \in Nat /\ tail \in Nat
      BY <1>1, <1>2 DEF Control
    <3> QED
      BY <1>2, <1>3, <1>4, <3>1, <3>2, <3>3, <3>4 DEF Competing, Sound
  <2> QED
    BY <2>1, <2>2, <2>3
<1> QED
  BY <1>1, <1>2, <1>3, <1>4, <1>5, Quiet

\* The owner's put() without the lock.
LEMMA PutSlotSound ==
  ASSUME Sound, Deque!Next, Deque!PutSlot
  PROVE  Sound'
<1>1. /\ Control /\ Control'
      /\ UNCHANGED <<capacity, head, tail, tpc, thead, puts, given, gaveEmpty>>
      /\ opc = "put_slot" /\ opc' = "put_tail"
  BY ControlStep DEF Sound, Deque!PutSlot
<1>2. /\ Deque!First' = Deque!First /\ Deque!Past' = Deque!Past /\ Last' = Last
      /\ Deque!Past = tail
  BY <1>1, FirstStays DEF Deque!Past, Last
<1>3. array' = With(array, capacity, tail, puts)
  BY DEF Deque!PutSlot, Deque!Slot, With
<1>4. puts \in Deque!Tasks /\ tail - Deque!First < capacity
  BY <1>1 DEF Control, Deque!Tasks, Sound, Competing
<1>5. /\ Ring(array', capacity, Deque!First, Deque!Past)
      /\ Items(array', capacity)[tail] = puts
      /\ \A i \in Deque!First .. Deque!Past - 1 : Items(array',
               capacity)[i] = Items(array, capacity)[i]
  <2>1. /\ Ring(array, capacity, Deque!First, Deque!Past)
        /\ Deque!Past - Deque!First < capacity
        /\ array' = With(array, capacity, Deque!Past, puts)
    BY <1>2, <1>3, <1>4 DEF Sound
  <2> QED
    BY <1>2, <1>4, <2>1, WriteBeyond
<1>6. Ring(array, capacity, Deque!First, Deque!Past)' /\ Item'[tail'] = puts'
  BY <1>1, <1>2, <1>5 DEF Ring, Item, Items
<1>7. Holds(Item', Deque!First, Deque!Past, given, Last)
  <2>1. \A i \in Deque!First .. Deque!Past - 1 : Item'[i] = Item[i]
    BY <1>1, <1>5 DEF Item, Items
  <2> QED
    BY <2>1, SameItems DEF Sound
<1>8. Holds(Item, Deque!First, Deque!Past, given, Last)'
  BY <1>1, <1>2, <1>7 DEF Holds
<1>9. Competing'
  BY <1>1, <1>2 DEF Sound, Competing
<1> QED
  BY <1>1, <1>6, <1>8, <1>9 DEF Sound

LEMMA PutTailSound ==
  ASSUME Sound, Deque!Next, Deque!PutTail
  PROVE  Sound'
<1>1. /\ Control /\ Control'
      /\ UNCHANGED <<array, capacity, head, tpc, thead, puts, given, gaveEmpty>>
      /\ opc = "put_tail" /\ opc' = "put_post" /\ tail' = tail + 1
  BY ControlStep DEF Sound, Deque!PutTail
<1>2. /\ Deque!First' = Deque!First /\ Deque!Past' = Deque!Past + 1 /\ Last' = Last + 1
      /\ Deque!Past = tail /\ Last = puts - 1
  BY <1>1, FirstStays DEF Deque!Past, Last, Control
<1>3. Last \in Nat /\ Last + 1 \in Deque!Tasks
  BY <1>1, <1>2 DEF Control, Deque!Tasks
<1>4. /\ Deque!First \in Nat /\ Deque!Past \in Nat /\ Deque!First <= Deque!Past
      /\ tail - Deque!First < capacity
  BY <1>1 DEF Sound, Ring, Competing
<1>5. Holds(Item, Deque!First, Deque!Past + 1, given, Last + 1)
  <2>1. Holds(Item, Deque!First, Deque!Past, given, Last) /\ Item[Deque!Past] = puts
    BY <1>1, <1>2 DEF Sound
  <2>2. puts = Last + 1
    BY <1>1, <1>2 DEF Control
  <2> QED
    BY <1>3, <1>4, <2>1, <2>2, OneMore
<1>6. Holds(Item, Deque!First, Deque!Past, given, Last)'
  <2>1. Item' = Item
    BY <1>1 DEF Item, Items
  <2>2. Holds(Item', Deque!First', Deque!Past', given', Last')
    BY <1>1, <1>2, <1>5, <2>1
  <2> QED
    BY <2>2 DEF Holds
<1>7. Ring(array, capacity, Deque!First, Deque!Past)'
  BY <1>1, <1>2, <1>4 DEF Sound, Ring
<1>8. Competing'
  BY <1>1, <1>2, <1>4 DEF Sound, Competing, Control
<1> QED
  BY <1>1, <1>6, <1>7, <1>8 DEF Sound

\* A slot behind the tasks is written, and the index passed on.
LEMMA PassedOn ==
  ASSUME NEW arr, NEW cap, NEW first, NEW past, NEW gave, NEW last \in Nat, NEW arr2,
         last + 1 \in Deque!Tasks, arr2 = With(arr, cap, past, last + 1),
         Ring(arr, cap, first, past), past - first < cap,
         Holds(Items(arr, cap), first, past, gave, last)
  PROVE  /\ Ring(arr2, cap, first, past + 1)
         /\ Holds(Items(arr2, cap), first, past + 1, gave, last + 1)
<1>1. /\ Ring(arr2, cap, first, past)
      /\ Items(arr2, cap)[past] = last + 1
      /\ \A i \in first .. past - 1 : Items(arr2, cap)[i] = Items(arr, cap)[i]
  BY WriteBeyond
<1>2. Holds(Items(arr2, cap), first, past, gave, last)
  BY <1>1, SameItems
<1>3. first \in Nat /\ past \in Nat /\ first <= past
  BY DEF Ring
<1>4. Holds(Items(arr2, cap), first, past + 1, gave, last + 1)
  BY <1>1, <1>2, <1>3, OneMore
<1> QED
  BY <1>1, <1>4 DEF Ring

\* Its put() with the lock, which may grow the array.
LEMMA PutLockedSound ==
  ASSUME Sound, Deque!Next, Deque!PutLocked
  PROVE  Sound'
<1> DEFINE n == tail - head
           big == Deque!Grown
<1>1. /\ Control /\ Control' /\ mtx = Deque!Free /\ mtx' = Deque!Free
      /\ Deque!First = head /\ Deque!First' = head'
      /\ UNCHANGED <<tpc, thead, puts, given, gaveEmpty>>
      /\ opc = "put_lock" /\ opc' = "put_post"
  <2>1. Control /\ Control' /\ mtx = Deque!Free /\ mtx' = Deque!Free
        /\ UNCHANGED <<tpc, thead, puts, given, gaveEmpty>>
        /\ opc = "put_lock" /\ opc' = "put_post"
    BY ControlStep DEF Sound, Deque!PutLocked
  <2>2. FirstKnown /\ FirstKnown'
    BY <2>1, WhereFirst, WhereFirstNext
  <2> QED
    BY <2>1, <2>2 DEF FirstKnown
<1>2. Deque!Past = tail /\ Deque!Past' = tail' /\ Last = puts - 1 /\ Last' = puts
  BY <1>1 DEF Deque!Past, Last
<1>3. Last \in Nat /\ Last + 1 \in Deque!Tasks /\ Last + 1 = puts
  BY <1>1, <1>2 DEF Control, Deque!Tasks
<1>4. /\ Ring(array, capacity, Deque!First, Deque!Past)
      /\ Holds(Items(array, capacity), Deque!First, Deque!Past, given, Last)
  BY DEF Sound, Item
<1>5. capacity \in Nat \ {0} /\ head \in Nat /\ tail \in Nat /\ n \in 0 .. capacity
  BY <1>1, <1>2, <1>4 DEF Ring
<1>8. SUFFICES /\ Ring(array', capacity', head', tail')
               /\ Holds(Items(array', capacity'), head', tail', given, puts)
  <2>1. \A th \in Thieves : tpc'[th] = "idle"
    BY <1>1, DequeAssumption DEF Control, Deque!WsqConstants
  <2>2. Competing'
    BY <1>1, <2>1 DEF Competing
  <2>3. /\ Ring(array, capacity, Deque!First, Deque!Past)'
        /\ Holds(Item, Deque!First, Deque!Past, given, Last)'
    BY <1>1, <1>2 DEF Ring, Holds, Item, Items
  <2> QED
    BY <1>1, <2>2, <2>3 DEF Sound
<1>6. CASE n >= Deque!mask
  <2>1. /\ array' = [big EXCEPT ![n] = puts]
        /\ capacity' = 2 * capacity /\ head' = 0 /\ tail' = n + 1
    BY <1>6 DEF Deque!PutLocked
  <2>2. big = [i \in 0 .. 2 * capacity - 1 |->
                 IF i < Deque!Past - Deque!First
                 THEN array[(i + Deque!First) % capacity] ELSE Deque!Empty]
    BY <1>1, <1>2 DEF Deque!Grown, Deque!Slot
  <2>3. Deque!Past - Deque!First = n
    BY <1>1, <1>2
  <2> HIDE DEF big
  <2>4. /\ Ring(big, 2 * capacity, 0, n) /\ n < 2 * capacity
        /\ Holds(Items(big, 2 * capacity), 0, n, given, Last)
    <3>1. /\ Ring(big, 2 * capacity, 0, Deque!Past - Deque!First)
          /\ Deque!Past - Deque!First < 2 * capacity
          /\ Holds(Items(big, 2 * capacity), 0, Deque!Past - Deque!First, given, Last)
      BY <1>4, <2>2, Growth
    <3> QED
      BY <2>3, <3>1
  <2>5. n % (2 * capacity) = n
    <3>1. 2 * capacity \in Nat \ {0} /\ n \in Nat
      BY <1>5
    <3> QED
      BY <2>4, <3>1, InRing
  <2>6. array' = With(big, 2 * capacity, n, Last + 1)
    BY <1>3, <2>1, <2>5 DEF With
  <2> HIDE DEF n
  <2>7. n - 0 < 2 * capacity
    BY <1>5, <2>4
  <2>8. /\ Ring(array', 2 * capacity, 0, n + 1)
        /\ Holds(Items(array', 2 * capacity), 0, n + 1, given, Last + 1)
    BY <1>3, <2>4, <2>6, <2>7, PassedOn
  <2> QED
    BY <1>3, <2>1, <2>8 DEF n
<1>7. CASE ~ (n >= Deque!mask)
  <2>1. /\ array' = [array EXCEPT ![Deque!Slot(tail)] = puts]
        /\ UNCHANGED <<capacity, head>> /\ tail' = tail + 1
    BY <1>7 DEF Deque!PutLocked
  <2>2. array' = With(array, capacity, Deque!Past, Last + 1)
    BY <1>2, <1>3, <2>1 DEF With, Deque!Slot
  <2>3. Deque!Past - Deque!First < capacity
    BY <1>1, <1>2, <1>5, <1>7 DEF Deque!mask
  <2>4. /\ Ring(array', capacity, Deque!First, Deque!Past + 1)
        /\ Holds(Items(array', capacity), Deque!First, Deque!Past + 1, given, Last + 1)
    BY <1>3, <1>4, <2>2, <2>3, PassedOn
  <2> QED
    BY <1>1, <1>2, <1>3, <2>1, <2>4
<1> QED
  BY <1>6, <1>7

\* A task is handed out, by the owner or by a thief.
LEMMA HandedOut ==
  ASSUME Sound, NEW k \in Nat, NEW first2 \in Nat, NEW past2 \in Nat,
        Deque!First < Deque!Past,
         \/ k = Deque!First /\ first2 = Deque!First + 1 /\ past2 = Deque!Past
         \/ k = Deque!Past - 1 /\ first2 = Deque!First /\ past2 = Deque!Past - 1,
         Deque!SwapOut(k)
  PROVE  /\ Item[k] \in Deque!Tasks /\ given' = [given EXCEPT ![Item[k]] = @ + 1]
         /\ Ring(array', capacity, first2, past2)
         /\ Holds(Items(array', capacity), first2, past2, given', Last)
         /\ ~ gaveEmpty'
<1>1. /\ Ring(array, capacity, Deque!First, Deque!Past)
      /\ Holds(Item, Deque!First, Deque!Past, given, Last)
      /\ given \in [Deque!Tasks -> Nat] /\ ~ gaveEmpty
  BY DEF Sound, Control
<1>2. Last \in 0 .. MaxPuts /\ MaxPuts \in Nat
  <2>1. MaxPuts \in Nat /\ puts \in 0 .. MaxPuts
        /\ (opc \in {"put_slot", "put_tail", "put_lock"} => puts # 0)
    BY DequeAssumption DEF Sound, Control, Deque!WsqConstants
  <2> QED
    BY <2>1 DEF Last
<1>3. Deque!First \in Nat /\ Deque!Past \in Nat /\ k \in Deque!First .. Deque!Past - 1
  BY <1>1 DEF Ring
<1>4. Item[k] \in 1 .. Last /\ Item[k] \in Deque!Tasks
      /\ Holds(Item, first2, past2, [given EXCEPT ![Item[k]] = @ + 1], Last)
  BY <1>1, <1>2, <1>3, OneLess
<1>5. array' = With(array, capacity, k, Deque!Empty)
  BY DEF Deque!SwapOut, Deque!Slot, With
<1>6. /\ Ring(array', capacity, Deque!First, Deque!Past)
      /\ array[k % capacity] = Item[k]
      /\ \A i \in Deque!First .. Deque!Past - 1 : i # k
               => Items(array', capacity)[i] = Item[i]
  <2>1. Ring(array, capacity, Deque!First, Deque!Past)
    BY <1>1
  <2>2. Ring(array', capacity, Deque!First, Deque!Past)
    BY <1>3, <1>5, <2>1, Emptied
  <2>3. array[k % capacity] = Items(array, capacity)[k]
    BY DEF Items
  <2>4. \A i \in Deque!First .. Deque!Past - 1 :
          i # k => Items(array', capacity)[i] = Items(array, capacity)[i]
    <3>1. SameBut(k, Items(array, capacity), Items(array', capacity), Deque!First,
                Deque!Past)
      BY <1>3, <1>5, <2>1, Emptied
    <3> QED
      BY <3>1 DEF SameBut
  <2> QED
    BY <2>2, <2>3, <2>4 DEF Item
<1>7. array[Deque!Slot(k)] = Item[k] /\ Item[k] # Deque!Empty
  BY <1>4, <1>6 DEF Deque!Slot, Deque!Empty, Deque!Tasks
<1>8. given' = [given EXCEPT ![Item[k]] = @ + 1] /\ UNCHANGED gaveEmpty
  BY <1>7 DEF Deque!SwapOut
<1>9. \A i \in first2 .. past2 - 1 : i \in Deque!First .. Deque!Past - 1 /\ i # k
  BY <1>3
<1>10. Holds(Items(array', capacity), first2, past2, given', Last)
  BY <1>4, <1>6, <1>8, <1>9, SameItems
<1>11. Ring(array', capacity, first2, past2)
  <2>1. /\ capacity \in Nat \ {0}
        /\ array' \in [0 .. capacity - 1 -> Deque!Tasks \cup {Deque!Empty}]
        /\ Deque!Past - Deque!First <= capacity
    BY <1>6 DEF Ring
  <2>2. CASE first2 = Deque!First + 1 /\ past2 = Deque!Past
    <3>1. first2 <= past2 /\ past2 - first2 <= capacity
      BY <1>3, <2>1, <2>2
    <3> QED
      BY <2>1, <3>1 DEF Ring
  <2>3. CASE first2 = Deque!First /\ past2 = Deque!Past - 1
    <3>1. first2 <= past2 /\ past2 - first2 <= capacity
      BY <1>3, <2>1, <2>3
    <3> QED
      BY <2>1, <3>1 DEF Ring
  <2> QED
    BY <2>2, <2>3
<1> QED
  BY <1>1, <1>4, <1>8, <1>10, <1>11

\* The owner takes the last one.
LEMMA OwnerTakes ==
  ASSUME Sound, Deque!Next, Deque!TakeSwap \/ Deque!TakeLocked
  PROVE  /\ Sound' /\ Deque!First < Deque!Past /\ Item[Deque!Past - 1] \in Deque!Tasks
         /\ given' = [given EXCEPT ![Item[Deque!Past - 1]] = @ + 1]
<1>1. Control /\ Control' /\ FirstKnown /\ Competing
      /\ UNCHANGED <<capacity, head, tail, mtx, tpc, thead, puts>>
      /\ opc \in {"take_swap", "take_lock"} /\ opc' = "idle" /\ Deque!SwapOut(tail)
  BY ControlStep, WhereFirst DEF Sound, Deque!TakeSwap, Deque!TakeLocked
<1>2. /\ Deque!First' = Deque!First /\ Deque!Past = tail + 1 /\ Deque!Past' = tail
      /\ Last' = Last
  BY <1>1, FirstStays DEF Deque!Past, Last
<1>3. Deque!First \in Nat /\ tail \in Nat /\ Deque!First <= tail
  <2>1. Deque!First \in Nat /\ tail \in Nat
    BY <1>1 DEF Sound, Ring, Control
  <2>2. Deque!TakeSwap => Deque!First <= tail
    BY <1>1 DEF Deque!TakeSwap, Competing
  <2>3. Deque!TakeLocked => Deque!First <= tail
    BY <1>1 DEF Deque!TakeLocked, FirstKnown
  <2> QED
    BY <2>1, <2>2, <2>3
<1>4. Deque!First < Deque!Past /\ tail = Deque!Past - 1 /\ Deque!Past - 1 \in Nat
  BY <1>2, <1>3
<1>5. /\ Item[tail] \in Deque!Tasks /\ given' = [given EXCEPT ![Item[tail]] = @ + 1]
      /\ Ring(array', capacity, Deque!First, tail)
      /\ Holds(Items(array', capacity), Deque!First, tail, given', Last)
      /\ ~ gaveEmpty'
  BY <1>1, <1>3, <1>4, HandedOut
<1>6. /\ Ring(array, capacity, Deque!First, Deque!Past)'
      /\ Holds(Item, Deque!First, Deque!Past, given, Last)'
  <2>1. Item' = Items(array', capacity)
    BY <1>1 DEF Item, Items
  <2>2. /\ Ring(array', capacity', Deque!First', Deque!Past')
        /\ Holds(Item', Deque!First', Deque!Past', given', Last')
    BY <1>1, <1>2, <1>5, <2>1
  <2> QED
    BY <2>2 DEF Ring, Holds
<1>7. ASSUME NEW th \in Thieves, tpc[th] = "swap" PROVE thead[th] < tail
  <2>1. CASE Deque!TakeSwap
    BY <1>1, <1>7, <2>1 DEF Deque!TakeSwap, Competing
  <2>2. CASE Deque!TakeLocked
    BY <1>1, <1>7, <2>2, DequeAssumption
    DEF Deque!TakeLocked, Control, Deque!WsqConstants
  <2> QED
    BY <2>1, <2>2
<1>8. Competing'
  BY <1>1, <1>2, <1>7 DEF Competing
<1> QED
  BY <1>1, <1>4, <1>5, <1>6, <1>8 DEF Sound

\* A thief's steps that move no task.
LEMMA ThiefQuiet ==
  ASSUME Sound, Deque!Next, NEW th \in Thieves,
         Deque!StealLock(th) \/ Deque!StealAdvance(th) \/ Deque!StealCheck(th) \/
               Deque!StealRestore(th)
  PROVE  Sound'
<1>1. Control /\ Control' /\ FirstKnown /\ FirstKnown' /\ Competing
      /\ UNCHANGED <<array, capacity, tail, opc, puts, given, gaveEmpty>>
  BY ControlStep, WhereFirst, WhereFirstNext
  DEF Sound, Deque!StealLock, Deque!StealAdvance, Deque!StealCheck, Deque!StealRestore
<1>2. Deque!First' = Deque!First
  <2>1. CASE Deque!StealLock(th)
    BY <1>1, <2>1 DEF Deque!StealLock, Deque!StealAt, FirstKnown, Control
  <2>2. CASE Deque!StealAdvance(th)
    BY <1>1, <2>2 DEF Deque!StealAdvance, Deque!StealAt, FirstKnown, Control, Ahead
  <2>3. CASE Deque!StealCheck(th)
    BY <1>1, <2>3 DEF Deque!StealCheck, Deque!StealAt, FirstKnown, Control, Ahead
  <2>4. CASE Deque!StealRestore(th)
    BY <1>1, <2>4 DEF Deque!StealRestore, Deque!StealAt, FirstKnown, Control, Ahead
  <2> QED
    BY <2>1, <2>2, <2>3, <2>4
<1>3. Deque!Past' = Deque!Past /\ Last' = Last
  BY <1>1 DEF Deque!Past, Last
<1>4. ASSUME NEW u \in Thieves, tpc'[u] = "swap"
      PROVE  \/ tpc[u] = "swap" /\ thead'[u] = thead[u]
             \/ thead'[u] < tail
  BY <1>1, <1>4
  DEF Deque!StealLock, Deque!StealAdvance, Deque!StealCheck, Deque!StealRestore,
      Deque!StealAt, Control
<1>5. tail <= Deque!Past
  BY <1>1 DEF Deque!Past, Control
<1>6. ASSUME NEW u \in Thieves, tpc'[u] = "swap"
      PROVE  thead'[u] < Deque!Past /\ (opc = "take_swap" => thead'[u] < tail)
  <2>1. thead'[u] \in Nat /\ tail \in Nat /\ Deque!Past \in Nat
    BY <1>1 DEF Control, Sound, Ring
  <2>2. CASE tpc[u] = "swap" /\ thead'[u] = thead[u]
    BY <1>1, <2>2 DEF Competing
  <2>3. CASE thead'[u] < tail
    BY <1>5, <2>1, <2>3
  <2> QED
    BY <1>4, <1>6, <2>2, <2>3
<1>7. Competing'
  BY <1>1, <1>2, <1>3, <1>6 DEF Competing
<1> QED
  BY <1>1, <1>2, <1>3, <1>7, Quiet

\* A thief takes the first one.
LEMMA ThiefTakes ==
  ASSUME Sound, Deque!Next, NEW th \in Thieves, Deque!StealSwap(th)
  PROVE  /\ Sound' /\ Deque!First < Deque!Past /\ Item[Deque!First] \in Deque!Tasks
         /\ given' = [given EXCEPT ![Item[Deque!First]] = @ + 1]
<1>1. Control /\ Control' /\ FirstKnown /\ FirstKnown' /\ Competing
      /\ UNCHANGED <<capacity, head, tail, opc, thead, puts>>
      /\ tpc[th] = "swap" /\ mtx' = Deque!Free /\ Deque!SwapOut(thead[th])
  BY ControlStep, WhereFirst, WhereFirstNext DEF Sound, Deque!StealSwap
<1>2. /\ Deque!First = thead[th] /\ Deque!First < Deque!Past
      /\ Deque!First' = Deque!First + 1
      /\ (opc = "take_swap" => Deque!First < tail)
  BY <1>1 DEF FirstKnown, Competing, Control, Ahead
<1>3. Deque!Past' = Deque!Past /\ Last' = Last
  BY <1>1 DEF Deque!Past, Last
<1>4. /\ Deque!First \in Nat /\ Deque!Past \in Nat /\ tail \in Nat
      /\ Deque!First + 1 \in Nat
  BY <1>1 DEF Sound, Ring, Control
<1>5. /\ Item[Deque!First] \in Deque!Tasks
      /\ given' = [given EXCEPT ![Item[Deque!First]] = @ + 1]
      /\ Ring(array', capacity, Deque!First + 1, Deque!Past)
      /\ Holds(Items(array', capacity), Deque!First + 1, Deque!Past, given', Last)
      /\ ~ gaveEmpty'
  BY <1>1, <1>2, <1>4, HandedOut
<1>6. /\ Ring(array, capacity, Deque!First, Deque!Past)'
      /\ Holds(Item, Deque!First, Deque!Past, given, Last)'
  <2>1. Item' = Items(array', capacity)
    BY <1>1 DEF Item, Items
  <2>2. /\ Ring(array', capacity', Deque!First', Deque!Past')
        /\ Holds(Item', Deque!First', Deque!Past', given', Last')
    BY <1>1, <1>2, <1>3, <1>5, <2>1
  <2> QED
    BY <2>2 DEF Ring, Holds
<1>7. \A u \in Thieves : tpc'[u] = "idle"
  BY <1>1, DequeAssumption DEF Control, Deque!WsqConstants
<1>8. Competing'
  <2>1. \A u \in Thieves : tpc'[u] # "swap"
    BY <1>7
  <2>2. opc' = opc /\ tail' = tail
    BY <1>1
  <2>3. opc \in {"put_slot", "put_tail"} => tail - Deque!First < capacity
    BY <1>1 DEF Competing
  <2>4. capacity' = capacity /\ capacity \in Nat
    BY <1>1 DEF Sound, Ring
  <2>5. opc' \in {"put_slot", "put_tail"} => tail' - Deque!First' < capacity'
    BY <1>2, <1>4, <2>2, <2>3, <2>4
  <2>6. opc' = "take_swap" => Deque!First' <= tail'
    BY <1>2, <1>4, <2>2
  <2> QED
    BY <2>1, <2>5, <2>6 DEF Competing
<1>9. opc = "put_tail" => Item'[tail] = puts
  <2> SUFFICES ASSUME opc = "put_tail" PROVE Item'[tail] = puts
    OBVIOUS
  <2>1. Deque!Past = tail /\ tail - Deque!First < capacity /\ Item[tail] = puts
        /\ Ring(array, capacity, Deque!First, Deque!Past)
    BY <1>1 DEF Deque!Past, Competing, Sound
  <2> DEFINE p == tail + 1
  <2>2. Ring(array, capacity, Deque!First, p)
    BY <1>4, <2>1 DEF Ring
  <2>3. /\ Deque!First \in Deque!First .. p - 1 /\ tail \in Deque!First .. p - 1
        /\ tail # Deque!First
    BY <1>2, <1>4, <2>1
  <2>4. array' = With(array, capacity, Deque!First, Deque!Empty)
    BY <1>1, <1>2 DEF Deque!SwapOut, Deque!Slot, With
  <2> HIDE DEF p
  <2>5. \A i \in Deque!First .. p - 1 :
          i # Deque!First => Items(array', capacity)[i] = Items(array, capacity)[i]
    <3>1. SameBut(Deque!First, Items(array, capacity), Items(array', capacity),
                Deque!First, p)
      BY <1>4, <2>2, <2>3, <2>4, Emptied
    <3> QED
      BY <3>1 DEF SameBut
  <2>6. Items(array', capacity)[tail] = Items(array, capacity)[tail]
    BY <2>3, <2>5
  <2> QED
    BY <1>1, <2>1, <2>6 DEF Item, Items
<1> QED
  BY <1>1, <1>2, <1>5, <1>6, <1>8, <1>9 DEF Sound

----------------------------------------------------------------------------
LEMMA DequeInit == Deque!Init => DequeInv
<1> SUFFICES ASSUME Deque!Init PROVE Sound
  BY DEF DequeInv
<1>1. InitialSize \in Nat \ {0} /\ MaxPuts \in Nat /\ Deque!Free \notin Thieves
  BY DequeAssumption DEF Deque!WsqConstants
<1>2. Deque!First = 0 /\ Deque!Past = 0 /\ Last = 0
  BY DEF Deque!Init, Deque!First, Deque!Past, Last
<1>3. Control
  BY <1>1 DEF Deque!Init, Control, OwnerLabels, ThiefLabels, Ahead, Deque!Free
<1>4. Ring(array, capacity, Deque!First, Deque!Past)
  BY <1>1, <1>2 DEF Deque!Init, Ring
<1>5. Competing
  BY <1>1 DEF Deque!Init, Competing
<1>6. Holds(Item, 0, 0, given, 0)
  BY DEF Deque!Init, Holds
<1>7. opc # "put_tail" /\ ~ gaveEmpty
  BY DEF Deque!Init
<1> QED
  BY <1>2, <1>3, <1>4, <1>5, <1>6, <1>7 DEF Sound

LEMMA StepSound ==
  ASSUME Sound, Deque!Next, ~ misled'
  PROVE  Sound'
<1>1. CASE Deque!PutBegin \/ Deque!PutPost \/ Deque!TakeBegin \/ Deque!TakeCheck \/
           Deque!TakeFails
  BY <1>1, OwnerQuiet
<1>2. CASE Deque!PutSlot
  BY <1>2, PutSlotSound
<1>3. CASE Deque!PutTail
  BY <1>3, PutTailSound
<1>4. CASE Deque!PutLocked
  BY <1>4, PutLockedSound
<1>5. CASE Deque!TakeSwap \/ Deque!TakeLocked
  BY <1>5, OwnerTakes
<1>6. ASSUME NEW th \in Thieves, Deque!Steal(th) PROVE Sound'
  BY <1>6, ThiefQuiet, ThiefTakes DEF Deque!Steal
<1> QED
  BY <1>1, <1>2, <1>3, <1>4, <1>5, <1>6 DEF Deque!Next, Deque!Put, Deque!Take

LEMMA DequeStep == DequeInv /\ [Deque!Next]_Deque!vars => DequeInv'
<1> SUFFICES ASSUME DequeInv, [Deque!Next]_Deque!vars, ~ misled' PROVE Sound'
  BY DEF DequeInv
<1>1. CASE UNCHANGED Deque!vars
  <2>1. Sound
    BY <1>1 DEF DequeInv, Deque!vars
  <2>2. /\ Control' /\ Deque!First' = Deque!First /\ Deque!Past' = Deque!Past
        /\ Last' = Last
    BY <1>1, <2>1 DEF Sound, Control, Deque!vars, Deque!First, Deque!Past, Last
  <2>3. Competing'
    BY <1>1, <2>1, <2>2 DEF Sound, Competing, Deque!vars
  <2> QED
    BY <1>1, <2>1, <2>2, <2>3, Quiet DEF Deque!vars
<1>2. CASE Deque!Next
  <2>1. ~ misled
    BY <1>2
    DEF Deque!Next, Deque!Put, Deque!Take, Deque!Steal, Deque!PutBegin, Deque!PutSlot,
        Deque!PutTail, Deque!PutLocked, Deque!PutPost,
      Deque!TakeBegin, Deque!TakeCheck, Deque!TakeSwap, Deque!TakeLocked,
          Deque!TakeFails, Deque!StealLock, Deque!StealAdvance,
      Deque!StealCheck, Deque!StealSwap, Deque!StealRestore
  <2> QED
    BY <1>2, <2>1, StepSound DEF DequeInv
<1> QED
  BY <1>1, <1>2

LEMMA DequeInvariance == Deque!Spec => []DequeInv
BY DequeInit, DequeStep, PTL DEF Deque!Spec

----------------------------------------------------------------------------
LEMMA StoredItems ==
  ASSUME Sound
  PROVE  Deque!Stored = {Item[i] : i \in Deque!First .. Deque!Past - 1}
<1>1. \A i \in Deque!First .. Deque!Past - 1 :
        /\ i \in Nat
        /\ Item[i] = array[Deque!Slot(i)]
  BY DEF Sound, Ring, Item, Items, Deque!Slot
<1> QED
  BY <1>1 DEF Deque!Stored

\* For any number of thieves and puts: try_take() and try_steal() hand out a task
\* once, and none gets lost, through the ring and its growth, when they compete for
\* the last one and when a thief backs off (wsq.cpp:35-118); put() must not have
\* been misled by a thief that moved the head (:38).
THEOREM TasksHandedOutOnce == Deque!Spec => []EachTaskOnceUnlessMisled
<1>1. DequeInv => EachTaskOnceUnlessMisled
  <2> SUFFICES ASSUME Sound
               PROVE  /\ \A x \in Deque!Tasks : given[x] <= 1
                      /\ \A x \in Deque!Visible : given[x] = 0 => x \in Deque!Stored
                      /\ ~ gaveEmpty
    BY DEF DequeInv, EachTaskOnceUnlessMisled, Deque!EachTaskOnceUnlessMisled
  <2>1. Deque!Visible = 1 .. Last
    BY DEF Deque!Visible, Last
  <2>2. Deque!Stored = {Item[i] : i \in Deque!First .. Deque!Past - 1}
    BY StoredItems
  <2> QED
    BY <2>1, <2>2 DEF Sound, Holds
<1> QED
  BY <1>1, DequeInvariance, PTL

\* For any number of thieves and puts: try_take() hands out the newest task and
\* try_steal() the oldest (wsq.cpp:78, :86, :108).
THEOREM NewestAndOldest == Deque!Spec => NewestToOwnerOldestToThief
<1> DEFINE P == \A x \in Deque!Tasks :
       given'[x] > given[x] /\ ~ misled =>
         /\ x \in Deque!Stored
         /\ \A y \in Deque!Stored : IF opc' # opc THEN y <= x ELSE x <= y
<1>1. DequeInv /\ [Deque!Next]_Deque!vars => [P]_Deque!vars
  <2> SUFFICES ASSUME DequeInv, Deque!Next PROVE P
    OBVIOUS
  <2> SUFFICES ASSUME NEW x \in Deque!Tasks, given'[x] > given[x], ~ misled
               PROVE  /\ x \in Deque!Stored
                      /\ \A y \in Deque!Stored : IF opc' # opc THEN y <= x ELSE x <= y
    OBVIOUS
  <2>1. Sound
    BY DEF DequeInv
  <2>2. Deque!Stored = {Item[i] : i \in Deque!First .. Deque!Past - 1}
    BY <2>1, StoredItems
  <2>3. given \in [Deque!Tasks -> Nat] /\ Deque!First \in Nat /\ Deque!Past \in Nat
    BY <2>1 DEF Sound, Control, Ring
  <2>4. /\ \A i \in Deque!First .. Deque!Past - 1 : Item[i] \in Int
        /\ \A i, j \in Deque!First .. Deque!Past - 1 : i < j => Item[i] < Item[j]
    BY <2>1 DEF Sound, Holds
  <2>5. CASE Deque!TakeSwap \/ Deque!TakeLocked
    <3>1. /\ Deque!First < Deque!Past
          /\ given' = [given EXCEPT ![Item[Deque!Past - 1]] = @ + 1]
      BY <2>1, <2>5, OwnerTakes
    <3>2. x = Item[Deque!Past - 1]
      BY <2>3, <3>1
    <3>3. opc' # opc
      BY <2>5 DEF Deque!TakeSwap, Deque!TakeLocked
    <3>4. Deque!Past - 1 \in Deque!First .. Deque!Past - 1
      BY <2>3, <3>1
    <3>5. \A i \in Deque!First .. Deque!Past - 1 : Item[i] <= Item[Deque!Past - 1]
      <4> SUFFICES ASSUME NEW i \in Deque!First .. Deque!Past - 1
                   PROVE  Item[i] <= Item[Deque!Past - 1]
        OBVIOUS
      <4>1. CASE i = Deque!Past - 1
        BY <2>4, <4>1
      <4>2. CASE i < Deque!Past - 1
        BY <2>4, <3>4, <4>2
      <4> QED
        BY <2>3, <4>1, <4>2
    <3> QED
      BY <2>2, <3>2, <3>3, <3>4, <3>5
  <2>6. ASSUME NEW th \in Thieves, Deque!StealSwap(th)
        PROVE  /\ x \in Deque!Stored
               /\ \A y \in Deque!Stored : IF opc' # opc THEN y <= x ELSE x <= y
    <3>1. /\ Deque!First < Deque!Past
          /\ given' = [given EXCEPT ![Item[Deque!First]] = @ + 1]
      BY <2>1, <2>6, ThiefTakes
    <3>2. x = Item[Deque!First]
      BY <2>3, <3>1
    <3>3. opc' = opc
      BY <2>6 DEF Deque!StealSwap
    <3>4. Deque!First \in Deque!First .. Deque!Past - 1
      BY <2>3, <3>1
    <3>5. \A i \in Deque!First .. Deque!Past - 1 : Item[Deque!First] <= Item[i]
      <4> SUFFICES ASSUME NEW i \in Deque!First .. Deque!Past - 1
                   PROVE  Item[Deque!First] <= Item[i]
        OBVIOUS
      <4>1. CASE i = Deque!First
        BY <2>4, <4>1
      <4>2. CASE Deque!First < i
        BY <2>4, <3>4, <4>2
      <4> QED
        BY <2>3, <4>1, <4>2
    <3> QED
      BY <2>2, <3>2, <3>3, <3>4, <3>5
  <2>7. \/ Deque!TakeSwap \/ Deque!TakeLocked \/ \E th \in Thieves : Deque!StealSwap(th)
        \/ UNCHANGED given
    BY DEF Deque!Next, Deque!Put, Deque!Take, Deque!Steal, Deque!PutBegin,
           Deque!PutSlot, Deque!PutTail, Deque!PutLocked, Deque!PutPost,
      Deque!TakeBegin, Deque!TakeCheck, Deque!TakeFails, Deque!StealLock,
          Deque!StealAdvance, Deque!StealCheck, Deque!StealRestore
  <2>8. ~ UNCHANGED given
    BY <2>3
  <2> QED
    BY <2>5, <2>6, <2>7, <2>8
<1> QED
  BY <1>1, DequeInvariance, PTL
  DEF Deque!Spec, NewestToOwnerOldestToThief, Deque!NewestToOwnerOldestToThief

----------------------------------------------------------------------------
\* What holds of the lock even when a put() was misled.
LockHeld ==
  /\ head \in Int /\ tail \in Int /\ thead \in [Thieves -> Int]
  /\ tpc \in [Thieves -> ThiefLabels]
  /\ \A th \in Thieves : tpc[th] # "idle" <=> mtx = th

LEMMA LockInv == Deque!Spec => []LockHeld
<1>0. Deque!Free \notin Thieves
  BY DequeAssumption DEF Deque!WsqConstants
<1>1. Deque!Init => LockHeld
  BY <1>0 DEF Deque!Init, LockHeld, ThiefLabels
<1>2. LockHeld /\ [Deque!Next]_Deque!vars => LockHeld'
  <2> SUFFICES ASSUME LockHeld, [Deque!Next]_Deque!vars PROVE LockHeld'
    OBVIOUS
  <2> USE <1>0 DEF LockHeld, ThiefLabels
  <2>1. CASE Deque!Put
    BY <2>1
    DEF Deque!Put, Deque!PutBegin, Deque!PutSlot, Deque!PutTail, Deque!PutLocked,
        Deque!PutPost
  <2>2. CASE Deque!Take
    BY <2>2
    DEF Deque!Take, Deque!TakeBegin, Deque!TakeCheck, Deque!TakeSwap, Deque!TakeLocked,
        Deque!TakeFails
  <2>3. ASSUME NEW th \in Thieves, Deque!StealLock(th) PROVE LockHeld'
    BY <2>3 DEF Deque!StealLock, Deque!StealAt
  <2>4. ASSUME NEW th \in Thieves, Deque!StealAdvance(th) \/ Deque!StealCheck(th)
        PROVE  LockHeld'
    BY <2>4 DEF Deque!StealAdvance, Deque!StealCheck, Deque!StealAt
  <2>5. ASSUME NEW th \in Thieves, Deque!StealSwap(th) \/ Deque!StealRestore(th)
        PROVE  LockHeld'
    BY <2>5 DEF Deque!StealSwap, Deque!StealRestore, Deque!StealAt
  <2>6. CASE UNCHANGED Deque!vars
    BY <2>6 DEF Deque!vars
  <2> QED
    BY <2>1, <2>2, <2>3, <2>4, <2>5, <2>6 DEF Deque!Next, Deque!Steal
<1> QED
  BY <1>1, <1>2, PTL DEF Deque!Spec

\* For any number of thieves and puts: try_take() that gets the lock and finds
\* nothing left the deque empty (wsq.cpp:83-93), misled or not.
THEOREM EmptyWhenItFails == Deque!Spec => FailsOnlyWhenEmpty
<1>1. LockHeld /\ [Deque!Next]_Deque!vars
            => [Deque!TakeFails => Deque!Stored = {}]_Deque!vars
  <2> SUFFICES ASSUME LockHeld, Deque!TakeFails PROVE Deque!Stored = {}
    OBVIOUS
  <2>1. Deque!First = head
    BY DequeAssumption DEF LockHeld, Deque!TakeFails, Deque!First, Deque!WsqConstants
  <2>2. Deque!Past = tail + 1
    BY DEF Deque!TakeFails, Deque!Past
  <2>3. Deque!First .. Deque!Past - 1 = {}
    BY <2>1, <2>2 DEF LockHeld, Deque!TakeFails
  <2> QED
    BY <2>3 DEF Deque!Stored
<1> QED
  BY <1>1, LockInv, PTL DEF Deque!Spec, FailsOnlyWhenEmpty, Deque!FailsOnlyWhenEmpty

=============================================================================
