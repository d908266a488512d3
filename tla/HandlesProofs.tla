----------------------------- MODULE HandlesProofs -----------------------------
(***************************************************************************)
(* The objects of MCHandles, for every number of them.                     *)
(*                                                                         *)
(* FutureHandles: that get_future() hands out one future of a result rests *)
(* on a flag that travels with the result: the inductive invariant says    *)
(* that the flag of a producer is set exactly if its result was given,     *)
(* that a result no producer has made yet was not, and that a future only  *)
(* refers to a result that was.                                            *)
(*                                                                         *)
(* PoolHandles: that an active pool has one static_pool is not inductive,  *)
(* for a new pool, which is not active yet, must have none.  That a closed *)
(* pool has no task is not either: the invariant counts workers, those     *)
(* that left and those that run a task, and says that nothing is pending,  *)
(* nor past the test of the state, once the last one left.                 *)
(***************************************************************************)
EXTENDS MCHandles, FiniteSetTheorems, TLAPS

----------------------------------------------------------------------------
(* FutureHandles.                                                          *)

Objects == Producers \cup Futures

\* Results are made in order, and objects refer to results that are made.
Made ==
  /\ \A h \in Objects : refers[h] <= made
  /\ \A p \in Producers \ lives : refers[p] = None

\* The flag tells whether a future was given.
Flagged ==
  /\ \A r \in Results : given[r] \in {0, 1} /\ (given[r] = 1 => r <= made)
  /\ \A p \in Producers :
       refers[p] # None => (given[refers[p]] = 1 <=> obtained[p])
  /\ \A h \in Futures : refers[h] # None => given[refers[h]] = 1

Separate == \A u \in Uniques, s \in Shareds : refers[u] = refers[s] => refers[u] = None

Owned == Sole(Producers) /\ Sole(Uniques) /\ Separate

IInv == TypeOK /\ Made /\ Flagged /\ Owned /\ OrphanIsReady

\* The objects are of three kinds, and a result is a number, never None.
LEMMA Kinds ==
  /\ MaxResults \in Nat
  /\ Producers \cap Futures = {} /\ Uniques \cap Shareds = {}
  /\ None = 0 /\ None \notin Results
  /\ \A r \in Results : r \in Nat
BY FutureHandlesAssumption DEF Futures, None, Results

\* Nothing is made yet.
LEMMA InitInv == Init => IInv
<1> SUFFICES ASSUME Init
             PROVE  IInv
  OBVIOUS
<1>1. TypeOK
  BY Kinds DEF Init, TypeOK
<1>2. Made /\ Flagged
  BY Kinds DEF Init, Made, Flagged, Objects, Futures
<1>3. Owned
  BY Kinds DEF Init, Owned, Sole, Separate, Futures
<1>4. OrphanIsReady
  BY DEF Init, OrphanIsReady
<1> QED
  BY <1>1, <1>2, <1>3, <1>4 DEF IInv

----------------------------------------------------------------------------
\* Every action keeps the types.
LEMMA TypeInv == TypeOK /\ [Next]_vars => TypeOK'
<1> SUFFICES ASSUME TypeOK, [Next]_vars
             PROVE  TypeOK'
  OBVIOUS
<1> USE Kinds DEF TypeOK, Futures
<1>1. ASSUME NEW p \in Producers, Create(p)
      PROVE  TypeOK'
  BY <1>1 DEF Create
<1>2. ASSUME NEW p \in Producers, CreateTask(p)
      PROVE  TypeOK'
  BY <1>2 DEF CreateTask
<1>3. ASSUME NEW p \in Producers, Produce(p)
      PROVE  TypeOK'
  BY <1>3 DEF Produce, About
<1>4. ASSUME NEW p \in Producers, Destroy(p)
      PROVE  TypeOK'
  BY <1>4 DEF Destroy
<1>5. ASSUME NEW p \in Producers, NEW u \in Uniques, GetFuture(p, u)
      PROVE  TypeOK'
  BY <1>5 DEF GetFuture, About
<1>6. ASSUME NEW p \in Producers, NEW q \in Producers, MoveConstruct(p, q)
      PROVE  TypeOK'
  BY <1>6 DEF MoveConstruct, Transferred
<1>7. ASSUME NEW p \in Producers, NEW q \in Producers, AssignPromise(p, q)
      PROVE  TypeOK'
  BY <1>7 DEF AssignPromise, Transferred
<1>8. ASSUME NEW p \in Producers, NEW q \in Producers, AssignTask(p, q)
      PROVE  TypeOK'
  BY <1>8 DEF AssignTask, Transferred
<1>9. ASSUME NEW p \in Producers, NEW q \in Producers, Swap(p, q)
      PROVE  TypeOK'
  BY <1>9 DEF Swap
<1>10. ASSUME NEW h \in Futures, NEW g \in Futures, Move(h, g)
      PROVE  TypeOK'
  BY <1>10 DEF Move, Transferred, HaveOnly
<1>11. ASSUME NEW h \in Shareds, NEW g \in Shareds, Copy(h, g) \/ SwapFutures(h, g)
      PROVE  TypeOK'
  BY <1>11 DEF Copy, SwapFutures, HaveOnly
<1>12. ASSUME NEW h \in Uniques, NEW g \in Uniques, SwapFutures(h, g)
      PROVE  TypeOK'
  BY <1>12 DEF SwapFutures, HaveOnly
<1>13. ASSUME NEW h \in Futures, DropFuture(h)
      PROVE  TypeOK'
  BY <1>13 DEF DropFuture, HaveOnly
<1>14. ASSUME UNCHANGED vars
      PROVE  TypeOK'
  BY <1>14 DEF vars
<1> QED
  BY <1>1, <1>2, <1>3, <1>4, <1>5, <1>6, <1>7, <1>8, <1>9, <1>10, <1>11, <1>12,
     <1>13, <1>14 DEF Next

\* Only what is made is referred to.
LEMMA MadeInv == TypeOK /\ Made /\ [Next]_vars => Made'
<1> SUFFICES ASSUME TypeOK, Made, [Next]_vars
             PROVE  Made'
  OBVIOUS
<1> USE Kinds DEF TypeOK, Made, Objects, Futures
<1>1. ASSUME NEW p \in Producers, Create(p)
      PROVE  Made'
  BY <1>1 DEF Create
<1>2. ASSUME NEW p \in Producers, CreateTask(p)
      PROVE  Made'
  BY <1>2 DEF CreateTask
<1>3. ASSUME NEW p \in Producers, Produce(p)
      PROVE  Made'
  BY <1>3 DEF Produce, About
<1>4. ASSUME NEW p \in Producers, Destroy(p)
      PROVE  Made'
  BY <1>4 DEF Destroy
<1>5. ASSUME NEW p \in Producers, NEW u \in Uniques, GetFuture(p, u)
      PROVE  Made'
  BY <1>5 DEF GetFuture, About
<1>6. ASSUME NEW p \in Producers, NEW q \in Producers, MoveConstruct(p, q)
      PROVE  Made'
  BY <1>6 DEF MoveConstruct, Transferred
<1>7. ASSUME NEW p \in Producers, NEW q \in Producers, AssignPromise(p, q)
      PROVE  Made'
  BY <1>7 DEF AssignPromise, Transferred
<1>8. ASSUME NEW p \in Producers, NEW q \in Producers, AssignTask(p, q)
      PROVE  Made'
  BY <1>8 DEF AssignTask, Transferred
<1>9. ASSUME NEW p \in Producers, NEW q \in Producers, Swap(p, q)
      PROVE  Made'
  BY <1>9 DEF Swap
<1>10. ASSUME NEW h \in Futures, NEW g \in Futures, Move(h, g)
      PROVE  Made'
  BY <1>10 DEF Move, Transferred, HaveOnly
<1>11. ASSUME NEW h \in Shareds, NEW g \in Shareds, Copy(h, g) \/ SwapFutures(h, g)
      PROVE  Made'
  BY <1>11 DEF Copy, SwapFutures, HaveOnly
<1>12. ASSUME NEW h \in Uniques, NEW g \in Uniques, SwapFutures(h, g)
      PROVE  Made'
  BY <1>12 DEF SwapFutures, HaveOnly
<1>13. ASSUME NEW h \in Futures, DropFuture(h)
      PROVE  Made'
  BY <1>13 DEF DropFuture, HaveOnly
<1>14. ASSUME UNCHANGED vars
      PROVE  Made'
  BY <1>14 DEF vars
<1> QED
  BY <1>1, <1>2, <1>3, <1>4, <1>5, <1>6, <1>7, <1>8, <1>9, <1>10, <1>11, <1>12,
     <1>13, <1>14 DEF Next

\* The flag goes where the result goes.
LEMMA FlaggedInv == TypeOK /\ Made /\ Owned /\ Flagged /\ [Next]_vars => Flagged'
<1> SUFFICES ASSUME TypeOK, Made, Owned, Flagged, [Next]_vars
             PROVE  Flagged'
  OBVIOUS
<1> USE Kinds DEF TypeOK, Made, Flagged, Owned, Sole, Separate, Objects, Futures
<1>1. ASSUME NEW p \in Producers, Create(p)
      PROVE  Flagged'
  BY <1>1 DEF Create
<1>2. ASSUME NEW p \in Producers, CreateTask(p)
      PROVE  Flagged'
  BY <1>2 DEF CreateTask
<1>3. ASSUME NEW p \in Producers, Produce(p)
      PROVE  Flagged'
  <2> PICK r \in Results \ ready :
         /\ About(p, r)
         /\ refers' = [refers EXCEPT ![p] = r]
    BY <1>3 DEF Produce
  <2>0. /\ obtained' = [obtained EXCEPT ![p] = @ /\ refers[p] # None]
        /\ UNCHANGED given
    BY <1>3 DEF Produce
  <2>1. CASE r = refers[p] /\ UNCHANGED made
    BY <2>0, <2>1
  <2>2. CASE refers[p] = None /\ r = made + 1 /\ made' = r
    <3>1. made \in Nat /\ r \in Results /\ given[r] = 0
      BY <2>2
    <3>2. \A n \in Results : given[n] = 1 => n <= made'
      BY <2>2, <3>1
    <3>3. obtained'[p] = FALSE /\ refers'[p] = r /\ given' = given
      BY <2>0, <2>2
    <3> QED
      BY <2>0, <3>1, <3>2, <3>3
  <2> QED
    BY <2>1, <2>2 DEF About
<1>4. ASSUME NEW p \in Producers, Destroy(p)
      PROVE  Flagged'
  BY <1>4 DEF Destroy
<1>5. ASSUME NEW p \in Producers, NEW u \in Uniques, GetFuture(p, u)
      PROVE  Flagged'
  BY <1>5 DEF GetFuture, About
<1>6. ASSUME NEW p \in Producers, NEW q \in Producers, MoveConstruct(p, q)
      PROVE  Flagged'
  BY <1>6 DEF MoveConstruct, Transferred
<1>7. ASSUME NEW p \in Producers, NEW q \in Producers, AssignPromise(p, q)
      PROVE  Flagged'
  BY <1>7 DEF AssignPromise, Transferred
<1>8. ASSUME NEW p \in Producers, NEW q \in Producers, AssignTask(p, q)
      PROVE  Flagged'
  BY <1>8 DEF AssignTask, Transferred
<1>9. ASSUME NEW p \in Producers, NEW q \in Producers, Swap(p, q)
      PROVE  Flagged'
  BY <1>9 DEF Swap
<1>10. ASSUME NEW h \in Futures, NEW g \in Futures, Move(h, g)
      PROVE  Flagged'
  BY <1>10 DEF Move, Transferred, HaveOnly
<1>11. ASSUME NEW h \in Shareds, NEW g \in Shareds, Copy(h, g) \/ SwapFutures(h, g)
      PROVE  Flagged'
  BY <1>11 DEF Copy, SwapFutures, HaveOnly
<1>12. ASSUME NEW h \in Uniques, NEW g \in Uniques, SwapFutures(h, g)
      PROVE  Flagged'
  BY <1>12 DEF SwapFutures, HaveOnly
<1>13. ASSUME NEW h \in Futures, DropFuture(h)
      PROVE  Flagged'
  BY <1>13 DEF DropFuture, HaveOnly
<1>14. ASSUME UNCHANGED vars
      PROVE  Flagged'
  BY <1>14 DEF vars
<1> QED
  BY <1>1, <1>2, <1>3, <1>4, <1>5, <1>6, <1>7, <1>8, <1>9, <1>10, <1>11, <1>12,
     <1>13, <1>14 DEF Next

\* A result stays with one producer and with one kind of future.
LEMMA OwnedInv == TypeOK /\ Made /\ Flagged /\ Owned /\ [Next]_vars => Owned'
<1> SUFFICES ASSUME TypeOK, Made, Flagged, Owned, [Next]_vars
             PROVE  Owned'
  OBVIOUS
<1> USE Kinds DEF TypeOK, Made, Flagged, Owned, Sole, Separate, Objects, Futures
<1>1. ASSUME NEW p \in Producers, Create(p)
      PROVE  Owned'
  BY <1>1 DEF Create
<1>2. ASSUME NEW p \in Producers, CreateTask(p)
      PROVE  Owned'
  BY <1>2 DEF CreateTask
<1>3. ASSUME NEW p \in Producers, Produce(p)
      PROVE  Owned'
  BY <1>3 DEF Produce, About
<1>4. ASSUME NEW p \in Producers, Destroy(p)
      PROVE  Owned'
  BY <1>4 DEF Destroy
<1>5. ASSUME NEW p \in Producers, NEW u \in Uniques, GetFuture(p, u)
      PROVE  Owned'
  BY <1>5 DEF GetFuture, About
<1>6. ASSUME NEW p \in Producers, NEW q \in Producers, MoveConstruct(p, q)
      PROVE  Owned'
  BY <1>6 DEF MoveConstruct, Transferred
<1>7. ASSUME NEW p \in Producers, NEW q \in Producers, AssignPromise(p, q)
      PROVE  Owned'
  BY <1>7 DEF AssignPromise, Transferred
<1>8. ASSUME NEW p \in Producers, NEW q \in Producers, AssignTask(p, q)
      PROVE  Owned'
  BY <1>8 DEF AssignTask, Transferred
<1>9. ASSUME NEW p \in Producers, NEW q \in Producers, Swap(p, q)
      PROVE  Owned'
  BY <1>9 DEF Swap
<1>10. ASSUME NEW h \in Futures, NEW g \in Futures, Move(h, g)
      PROVE  Owned'
  BY <1>10 DEF Move, Transferred, HaveOnly
<1>11. ASSUME NEW h \in Shareds, NEW g \in Shareds, Copy(h, g) \/ SwapFutures(h, g)
      PROVE  Owned'
  BY <1>11 DEF Copy, SwapFutures, HaveOnly
<1>12. ASSUME NEW h \in Uniques, NEW g \in Uniques, SwapFutures(h, g)
      PROVE  Owned'
  BY <1>12 DEF SwapFutures, HaveOnly
<1>13. ASSUME NEW h \in Futures, DropFuture(h)
      PROVE  Owned'
  BY <1>13 DEF DropFuture, HaveOnly
<1>14. ASSUME UNCHANGED vars
      PROVE  Owned'
  BY <1>14 DEF vars
<1> QED
  BY <1>1, <1>2, <1>3, <1>4, <1>5, <1>6, <1>7, <1>8, <1>9, <1>10, <1>11, <1>12,
     <1>13, <1>14 DEF Next

\* Whatever takes the last producer from a result makes it ready or drops it.
LEMMA OrphanInv == TypeOK /\ Made /\ Owned /\ OrphanIsReady /\ [Next]_vars
      => OrphanIsReady'
<1> SUFFICES ASSUME TypeOK, Made, Owned, OrphanIsReady, [Next]_vars
             PROVE  OrphanIsReady'
  OBVIOUS
<1> USE Kinds DEF TypeOK, Made, Owned, Sole, OrphanIsReady, Orphan, Objects, Futures
<1>1. ASSUME NEW p \in Producers, Create(p)
      PROVE  OrphanIsReady'
  BY <1>1 DEF Create
<1>2. ASSUME NEW p \in Producers, CreateTask(p)
      PROVE  OrphanIsReady'
  BY <1>2 DEF CreateTask
<1>3. ASSUME NEW p \in Producers, Produce(p)
      PROVE  OrphanIsReady'
  BY <1>3 DEF Produce, About
<1>4. ASSUME NEW p \in Producers, Destroy(p)
      PROVE  OrphanIsReady'
  BY <1>4 DEF Destroy
<1>5. ASSUME NEW p \in Producers, NEW u \in Uniques, GetFuture(p, u)
      PROVE  OrphanIsReady'
  BY <1>5 DEF GetFuture, About
<1>6. ASSUME NEW p \in Producers, NEW q \in Producers, MoveConstruct(p, q)
      PROVE  OrphanIsReady'
  BY <1>6 DEF MoveConstruct, Transferred
<1>7. ASSUME NEW p \in Producers, NEW q \in Producers, AssignPromise(p, q)
      PROVE  OrphanIsReady'
  BY <1>7 DEF AssignPromise, Transferred
<1>8. ASSUME NEW p \in Producers, NEW q \in Producers, AssignTask(p, q)
      PROVE  OrphanIsReady'
  BY <1>8 DEF AssignTask, Transferred
<1>9. ASSUME NEW p \in Producers, NEW q \in Producers, Swap(p, q)
      PROVE  OrphanIsReady'
  BY <1>9 DEF Swap
<1>10. ASSUME NEW h \in Futures, NEW g \in Futures, Move(h, g)
      PROVE  OrphanIsReady'
  BY <1>10 DEF Move, Transferred, HaveOnly
<1>11. ASSUME NEW h \in Shareds, NEW g \in Shareds, Copy(h, g) \/ SwapFutures(h, g)
      PROVE  OrphanIsReady'
  BY <1>11 DEF Copy, SwapFutures, HaveOnly
<1>12. ASSUME NEW h \in Uniques, NEW g \in Uniques, SwapFutures(h, g)
      PROVE  OrphanIsReady'
  BY <1>12 DEF SwapFutures, HaveOnly
<1>13. ASSUME NEW h \in Futures, DropFuture(h)
      PROVE  OrphanIsReady'
  BY <1>13 DEF DropFuture, HaveOnly
<1>14. ASSUME UNCHANGED vars
      PROVE  OrphanIsReady'
  BY <1>14 DEF vars
<1> QED
  BY <1>1, <1>2, <1>3, <1>4, <1>5, <1>6, <1>7, <1>8, <1>9, <1>10, <1>11, <1>12,
     <1>13, <1>14 DEF Next

----------------------------------------------------------------------------
LEMMA StepInv == IInv /\ [Next]_vars => IInv'
BY TypeInv, MadeInv, FlaggedInv, OwnedInv, OrphanInv DEF IInv

LEMMA Invariance == Spec => []IInv
BY InitInv, StepInv, PTL DEF Spec

\* The variables have their types, whatever is moved where.
THEOREM Typing == Spec => []TypeOK
<1>1. IInv => TypeOK
  BY DEF IInv
<1> QED
  BY <1>1, Invariance, PTL

\* One producer, one future of a result, for every number of objects and results
\* (the moves, assignments and swaps of spin/future.hpp).
THEOREM Ownership == Spec => []OwnedOnce
<1>1. IInv => OwnedOnce
  <2> SUFFICES ASSUME IInv
               PROVE  OwnedOnce
    OBVIOUS
  <2>1. \A r \in Results : given[r] <= 1
    BY DEF IInv, Flagged
  <2> QED
    BY <2>1 DEF IInv, Owned, Separate, OwnedOnce
<1> QED
  BY <1>1, Invariance, PTL

\* Whoever waits for a result is told when its last producer goes, except by
\* promise::operator= (spin/future.hpp: ~promise() and ~packaged_task()).
THEOREM OrphansAreReady == Spec => []OrphanIsReady
<1>1. IInv => OrphanIsReady
  BY DEF IInv
<1> QED
  BY <1>1, Invariance, PTL

----------------------------------------------------------------------------
(* PoolHandles.                                                            *)

\* A pool has at most one static_pool, an active one has one.
Referred ==
  /\ \A h, g \in Handles : pool[h] = pool[g] /\ pool[h] # Pool!None => h = g
  /\ \A p \in Pool!Pools : state[p] = "active" => \E h \in Handles : pool[h] = p
  /\ \A h \in Handles : pool[h] # Pool!None => state[pool[h]] # "unmade"

\* A task that was submitted has its pool.
Placed == \A t \in Pool!Tasks : at[t] # "new" => into[t] \in Pool!Pools

\* A worker runs one task at most, leaves when the pool is shut down, and shutdown()
\* waits for all of them.
Staffed ==
  \A p \in Pool!Pools :
    /\ IsFiniteSet(Pool!Busy(p))
    /\ left[p] + Cardinality(Pool!Busy(p)) <= Size
    /\ left[p] > 0 => state[p] \in {"joining", "closed"}
    /\ state[p] = "closed" => left[p] = Size

\* The last worker leaves nothing behind, also not a task that is about to be linked.
Drained ==
  \A t \in Pool!Tasks :
    at[t] \in {"linking", "pending"} => left[into[t]] < Size \/ now[into[t]]

PoolInv == Pool!TypeOK /\ Referred /\ Placed /\ Staffed /\ Drained

LEMMA PoolNames == Pool!None \notin Pool!Pools
BY DEF Pool!None, Pool!Pools

\* The instance counts as this module does.
LEMMA PoolCounts ==
  ASSUME NEW S
  PROVE  Pool!Cardinality(S) = Cardinality(S)
  BY DEF Cardinality, Pool!Cardinality

LEMMA PoolSize ==
  /\ Size \in Nat \ {0} /\ Parent \in [Children -> Roots]
  /\ Roots \cap Children = {} /\ Pool!Tasks = Roots \cup Children
BY PoolsAssumption DEF Pool!PoolHandlesConstants, Pool!Tasks

LEMMA PoolInit == Pool!Init => PoolInv
<1> SUFFICES ASSUME Pool!Init PROVE PoolInv
  OBVIOUS
<1>1. Pool!TypeOK
  BY PoolSize DEF Pool!Init, Pool!TypeOK
<1>2. Referred /\ Placed /\ Drained
  BY DEF Pool!Init, Referred, Placed, Drained
<1>3. ASSUME NEW p \in Pool!Pools PROVE Pool!Busy(p) = {}
  BY DEF Pool!Init, Pool!Busy, Pool!In
<1>4. IsFiniteSet({}) /\ Cardinality({}) = 0
  BY FS_EmptySet
<1>5. \A p \in Pool!Pools : left[p] = 0 /\ state[p] = "unmade"
  BY DEF Pool!Init
<1>6. Staffed
  BY <1>3, <1>4, <1>5, PoolSize DEF Staffed
<1> QED
  BY <1>1, <1>2, <1>6 DEF PoolInv

\* Release() closes an active pool, and does nothing to others.
LEMMA Released ==
  ASSUME Pool!TypeOK, NEW p \in Pool!Pools \cup {Pool!None}, Pool!Release(p)
  PROVE  /\ state' \in [Pool!Pools -> {"unmade", "active", "closing", "joining", "closed"}]
         /\ now' \in [Pool!Pools -> BOOLEAN] /\ owner' \in Pool!Pools \cup {Pool!None}
         /\ \A q \in Pool!Pools :
              /\ state'[q] = IF q = p /\ state[q] = "active" THEN "closing"
                             ELSE state[q]
              /\ state[q] # "active" => now'[q] = now[q]
BY PoolNames DEF Pool!TypeOK, Pool!Release, Pool!Close

\* What the owner's steps do to a pool.
OwnerMoves ==
  /\ UNCHANGED <<left, at, into>>
  /\ \A p \in Pool!Pools :
       /\ state[p] \in {"joining", "closed"} => state'[p] \in {"joining", "closed"}
       /\ state'[p] = "closed" => state[p] = "closed" \/ left[p] = Size
       /\ state[p] # "active" => now'[p] = now[p]

LEMMA OwnerStepMoves ==
  ASSUME Pool!TypeOK, Referred,
         \/ \E h \in Handles : Pool!OwnerStep(h)
         \/ Pool!Shutting
  PROVE  Pool!TypeOK' /\ Referred' /\ OwnerMoves
<1> DEFINE Goal == Pool!TypeOK' /\ Referred' /\ OwnerMoves
<1> USE PoolNames DEF Pool!TypeOK, Referred, OwnerMoves, Pool!tasks
<1>1. ASSUME NEW h \in Handles, Pool!Construct(h) PROVE Goal
  BY <1>1 DEF Pool!Construct
<1>2. ASSUME NEW h \in Handles, Pool!Destroy(h) PROVE Goal
  BY <1>2, Released DEF Pool!Destroy
<1>3. ASSUME NEW h \in Handles, NEW hurry \in BOOLEAN, Pool!Shutdown(h, hurry)
      PROVE  Goal
  BY <1>3 DEF Pool!Shutdown, Pool!Close
<1>4. ASSUME NEW h \in Handles, NEW g \in Handles, Pool!MoveAssign(h, g) PROVE Goal
  BY <1>4, Released DEF Pool!MoveAssign
<1>5. ASSUME NEW h \in Handles, NEW g \in Handles, Pool!Swap(h, g) PROVE Goal
  BY <1>5 DEF Pool!Swap
<1>6. CASE Pool!CloseQueue
  BY <1>6 DEF Pool!CloseQueue
<1>7. CASE Pool!Joined
  BY <1>7 DEF Pool!Joined
<1> QED
  BY <1>1, <1>2, <1>3, <1>4, <1>5, <1>6, <1>7 DEF Pool!OwnerStep, Pool!Shutting

\* Tasks and workers are as they were.
LEMMA OwnerInv ==
  ASSUME PoolInv, OwnerMoves, Pool!TypeOK', Referred'
  PROVE  PoolInv'
<1>1. Placed'
  BY DEF PoolInv, OwnerMoves, Placed
<1>2. Staffed'
  <2> SUFFICES ASSUME NEW p \in Pool!Pools
               PROVE  /\ IsFiniteSet(Pool!Busy(p)')
                      /\ left'[p] + Cardinality(Pool!Busy(p)') <= Size
                      /\ left'[p] > 0 => state'[p] \in {"joining", "closed"}
                      /\ state'[p] = "closed" => left'[p] = Size
    BY DEF Staffed
  <2>1. Pool!Busy(p)' = Pool!Busy(p)
    BY DEF OwnerMoves, Pool!Busy, Pool!In
  <2> QED
    BY <2>1 DEF PoolInv, Staffed, OwnerMoves
<1>3. Drained'
  <2> SUFFICES ASSUME NEW t \in Pool!Tasks, at[t] \in {"linking", "pending"},
                      left[into[t]] >= Size
               PROVE  now'[into[t]]
    BY PoolSize DEF Drained, OwnerMoves, Placed, PoolInv, Pool!TypeOK
  <2>1. into[t] \in Pool!Pools /\ left[into[t]] > 0
    BY PoolSize DEF PoolInv, Placed, Pool!TypeOK
  <2>2. state[into[t]] # "active"
    BY <2>1 DEF PoolInv, Staffed
  <2>3. now[into[t]]
    BY <2>1, PoolSize DEF PoolInv, Drained, Pool!TypeOK
  <2> QED
    BY <2>1, <2>2, <2>3 DEF OwnerMoves
<1> QED
  BY <1>1, <1>2, <1>3 DEF PoolInv

\* The steps of tasks and workers leave the pools as they are.
PoolsSame == UNCHANGED <<bounded, pool, state, now, owner>>

LEMMA SubmitInv ==
  ASSUME PoolInv, NEW t \in Roots, NEW h \in Handles, Pool!Submit(t, h)
  PROVE  PoolInv'
<1> USE PoolSize, PoolNames DEF Pool!Submit, Pool!Called, Pool!Goto, PoolInv
<1>1. Pool!TypeOK' /\ Referred'
  BY DEF Pool!TypeOK, Referred
<1>2. Placed'
  BY DEF Pool!TypeOK, Placed
<1>3. ASSUME NEW p \in Pool!Pools PROVE Pool!Busy(p)' = Pool!Busy(p)
  BY DEF Pool!TypeOK, Pool!Busy, Pool!In
<1>4. Staffed'
  BY <1>3 DEF Staffed
<1>5. Drained'
  BY DEF Pool!TypeOK, Drained
<1> QED
  BY <1>1, <1>2, <1>4, <1>5

LEMMA SubmitChildInv ==
  ASSUME PoolInv, NEW c \in Children, Pool!SubmitChild(c)
  PROVE  PoolInv'
<1> USE PoolSize, PoolNames DEF Pool!SubmitChild, Pool!Called, PoolInv
<1>1. Parent[c] \in Roots /\ Parent[c] # c /\ into[Parent[c]] \in Pool!Pools
  BY DEF Placed
<1>2. Pool!TypeOK' /\ Referred'
  BY <1>1 DEF Pool!TypeOK, Referred
<1>3. Placed'
  BY <1>1 DEF Pool!TypeOK, Placed
<1>4. ASSUME NEW p \in Pool!Pools PROVE Pool!Busy(p)' = Pool!Busy(p)
  BY <1>1 DEF Pool!TypeOK, Pool!Busy, Pool!In
<1>5. Staffed'
  BY <1>4 DEF Staffed
<1>6. Drained'
  BY <1>1 DEF Pool!TypeOK, Drained
<1> QED
  BY <1>2, <1>3, <1>5, <1>6

LEMMA PutInv ==
  ASSUME PoolInv, NEW t \in Pool!Tasks, Pool!Put(t) \/ Pool!PutReject(t)
  PROVE  PoolInv'
<1>1. /\ at[t] = "putting" /\ PoolsSame /\ UNCHANGED <<left, into>>
      /\ at' = [at EXCEPT ![t] = "linking"] \/ at' = [at EXCEPT ![t] = "rejected"]
  BY DEF Pool!Put, Pool!PutReject, Pool!Goto, PoolsSame
<1>2. at'[t] = "linking" => Pool!QueueActive(into[t])
  BY <1>1 DEF Pool!Put, Pool!PutReject, Pool!Goto, PoolInv, Pool!TypeOK
<1> USE <1>1, PoolSize, PoolNames DEF PoolInv, PoolsSame
<1>3. Pool!TypeOK' /\ Referred'
  BY DEF Pool!TypeOK, Referred
<1>4. Placed'
  BY DEF Pool!TypeOK, Placed
<1>5. ASSUME NEW p \in Pool!Pools PROVE Pool!Busy(p)' = Pool!Busy(p)
  BY DEF Pool!TypeOK, Pool!Busy, Pool!In
<1>6. Staffed'
  BY <1>5 DEF Staffed
<1>7. at'[t] = "linking" => left[into[t]] < Size
  BY <1>2 DEF Pool!QueueActive, Staffed, Placed, Pool!TypeOK
<1>8. Drained'
  BY <1>7 DEF Pool!TypeOK, Drained
<1> QED
  BY <1>3, <1>4, <1>6, <1>8

LEMMA LinkInv ==
  ASSUME PoolInv, NEW t \in Pool!Tasks, Pool!Link(t)
  PROVE  PoolInv'
<1> USE PoolSize, PoolNames DEF PoolInv, Pool!Link, Pool!Goto
<1>1. Pool!TypeOK' /\ Referred'
  BY DEF Pool!TypeOK, Referred
<1>2. Placed'
  BY DEF Pool!TypeOK, Placed
<1>3. ASSUME NEW p \in Pool!Pools PROVE Pool!Busy(p)' = Pool!Busy(p)
  BY DEF Pool!TypeOK, Pool!Busy, Pool!In
<1>4. Staffed'
  BY <1>3 DEF Staffed
<1>5. Drained'
  BY DEF Pool!TypeOK, Drained
<1> QED
  BY <1>1, <1>2, <1>4, <1>5

LEMMA TakeInv ==
  ASSUME PoolInv, NEW t \in Pool!Tasks, Pool!Take(t)
  PROVE  PoolInv'
<1> USE PoolSize, PoolNames DEF PoolInv, Pool!Take, Pool!Goto
<1>1. Pool!TypeOK' /\ Referred'
  BY DEF Pool!TypeOK, Referred
<1>2. Placed'
  BY DEF Pool!TypeOK, Placed
<1>3. into[t] \in Pool!Pools
  BY DEF Placed
<1>4. /\ Pool!Busy(into[t])' = Pool!Busy(into[t]) \cup {t}
      /\ \A p \in Pool!Pools \ {into[t]} : Pool!Busy(p)' = Pool!Busy(p)
  BY DEF Pool!TypeOK, Pool!Busy, Pool!In
<1>5. left[into[t]] + Cardinality(Pool!Busy(into[t])) < Size
  BY PoolCounts DEF Pool!Idle
<1>6. /\ IsFiniteSet(Pool!Busy(into[t]) \cup {t})
      /\ left[into[t]] + Cardinality(Pool!Busy(into[t]) \cup {t}) <= Size
  <2> DEFINE B == Pool!Busy(into[t])
  <2>1. IsFiniteSet(B) /\ left[into[t]] \in Nat
    BY <1>3 DEF Staffed, Pool!TypeOK
  <2>2. Cardinality(B) \in Nat
    BY <2>1, FS_CardinalityType
  <2>3. /\ IsFiniteSet(B \cup {t})
        /\ Cardinality(B \cup {t}) \in {Cardinality(B), Cardinality(B) + 1}
    BY <2>1, FS_AddElement
  <2> QED
    BY <1>5, <2>1, <2>2, <2>3
<1>7. Staffed'
  BY <1>4, <1>6 DEF Staffed
<1>8. Drained'
  BY DEF Pool!TypeOK, Drained
<1> QED
  BY <1>1, <1>2, <1>7, <1>8

LEMMA FinishInv ==
  ASSUME PoolInv, NEW t \in Pool!Tasks, Pool!Finish(t)
  PROVE  PoolInv'
<1> USE PoolSize, PoolNames DEF PoolInv, Pool!Finish, Pool!Goto
<1>1. Pool!TypeOK' /\ Referred'
  BY DEF Pool!TypeOK, Referred
<1>2. Placed'
  BY DEF Pool!TypeOK, Placed
<1>3. into[t] \in Pool!Pools
  BY DEF Placed
<1>4. /\ Pool!Busy(into[t])' = Pool!Busy(into[t]) \ {t}
      /\ \A p \in Pool!Pools \ {into[t]} : Pool!Busy(p)' = Pool!Busy(p)
  BY DEF Pool!TypeOK, Pool!Busy, Pool!In
<1>5. /\ IsFiniteSet(Pool!Busy(into[t]) \ {t})
      /\ left[into[t]] + Cardinality(Pool!Busy(into[t]) \ {t}) <= Size
  <2> DEFINE B == Pool!Busy(into[t])
  <2>1. /\ IsFiniteSet(B) /\ left[into[t]] \in Nat
        /\ left[into[t]] + Cardinality(B) <= Size
    BY <1>3 DEF Staffed, Pool!TypeOK
  <2>2. Cardinality(B) \in Nat
    BY <2>1, FS_CardinalityType
  <2>3. /\ IsFiniteSet(B \ {t})
        /\ Cardinality(B \ {t}) \in {Cardinality(B), Cardinality(B) - 1}
    BY <2>1, FS_RemoveElement
  <2> QED
    BY <2>1, <2>2, <2>3
<1>6. Staffed'
  BY <1>4, <1>5 DEF Staffed
<1>7. Drained'
  BY DEF Pool!TypeOK, Drained
<1> QED
  BY <1>1, <1>2, <1>6, <1>7

LEMMA LeaveInv ==
  ASSUME PoolInv, NEW p \in Pool!Pools, Pool!Leave(p)
  PROVE  PoolInv'
<1> USE PoolSize, PoolNames DEF PoolInv, Pool!Leave
<1>1. left[p] \in Nat /\ left'[p] = left[p] + 1
  BY DEF Pool!TypeOK
<1>2. IsFiniteSet(Pool!Busy(p)) /\ left'[p] + Cardinality(Pool!Busy(p)) <= Size
  BY <1>1, PoolCounts, FS_CardinalityType DEF Staffed, Pool!Idle
<1>3. left'[p] \in 0 .. Size
  BY <1>1, <1>2, FS_CardinalityType
<1>4. Pool!TypeOK' /\ Referred'
  BY <1>1, <1>3 DEF Pool!TypeOK, Referred
<1>5. Placed'
  BY DEF Placed
<1>6. \A q \in Pool!Pools : Pool!Busy(q)' = Pool!Busy(q)
  BY DEF Pool!Busy, Pool!In
<1>7. Staffed'
  BY <1>1, <1>2, <1>6 DEF Staffed, Pool!TypeOK
<1>8. Drained'
  <2>1. ASSUME NEW t \in Pool!Tasks, at[t] \in {"linking", "pending"}, into[t] = p
        PROVE  now[p]
    BY <2>1 DEF Pool!TailFree, Pool!In
  <2> QED
    BY <2>1 DEF Drained, Placed, Pool!TypeOK
<1> QED
  BY <1>4, <1>5, <1>7, <1>8

LEMMA PoolStep == PoolInv /\ [Pool!Next]_Pool!vars => PoolInv'
<1> SUFFICES ASSUME PoolInv, [Pool!Next]_Pool!vars PROVE PoolInv'
  OBVIOUS
<1>1. CASE (\E h \in Handles : Pool!OwnerStep(h)) \/ Pool!Shutting
  BY <1>1, OwnerStepMoves, OwnerInv DEF PoolInv
<1>2. ASSUME NEW t \in Pool!Tasks, Pool!TaskStep(t) PROVE PoolInv'
  BY <1>2, PutInv, LinkInv, TakeInv, FinishInv DEF Pool!TaskStep
<1>3. CASE UNCHANGED Pool!vars
  <2> USE <1>3 DEF Pool!vars, PoolInv
  <2>1. OwnerMoves /\ Pool!TypeOK' /\ Referred'
    BY DEF OwnerMoves, Pool!TypeOK, Referred
  <2> QED
    BY <2>1, OwnerInv
<1> QED
  BY <1>1, <1>2, <1>3, SubmitInv, SubmitChildInv, LeaveInv DEF Pool!Next

\* For any number of static_pools, pools, workers and tasks, however they are moved,
\* assigned, swapped and destroyed: an active pool has its one static_pool; no worker
\* has a task when it is joined; and shutdown() and the destructor leave no task in the
\* queue, nor one that will be linked, although put() tests the state under another
\* mutex than deactivate() changes it under (static_pool.hpp:53-126,
\* pool_base.hpp:136-157, unbounded_fifo.hpp:83-91, :124-146, worker.hpp:165).
THEOREM NoneLeaks == Pool!Spec => []NoPoolLeaks
<1>1. PoolInv => NoPoolLeaks
  <2> SUFFICES ASSUME PoolInv, NEW p \in Pool!Pools
               PROVE  /\ state[p] = "active" =>
                           Pool!Cardinality({h \in Handles : pool[h] = p}) = 1
                      /\ state[p] = "closed" => Pool!Busy(p) = {}
                      /\ state[p] = "closed" /\ ~ now[p] =>
                           Pool!In(p, "linking") \cup Pool!In(p, "pending") = {}
    BY DEF NoPoolLeaks, Pool!NoPoolLeaks
  <2>1. ASSUME state[p] = "active"
        PROVE  Pool!Cardinality({h \in Handles : pool[h] = p}) = 1
    <3>1. PICK h \in Handles : pool[h] = p
      BY <2>1 DEF PoolInv, Referred
    <3>2. {g \in Handles : pool[g] = p} = {h}
      BY <3>1, PoolNames DEF PoolInv, Referred
    <3> QED
      BY <3>2, PoolCounts, FS_Singleton
  <2>2. ASSUME state[p] = "closed" PROVE Pool!Busy(p) = {}
    <3>1. IsFiniteSet(Pool!Busy(p)) /\ Cardinality(Pool!Busy(p)) <= 0
      BY <2>2, PoolSize, FS_CardinalityType DEF PoolInv, Staffed
    <3> QED
      BY <3>1, FS_CardinalityType, FS_EmptySet
  <2>3. ASSUME state[p] = "closed", ~ now[p]
        PROVE  Pool!In(p, "linking") \cup Pool!In(p, "pending") = {}
    BY <2>3, PoolSize DEF PoolInv, Staffed, Drained, Pool!In
  <2> QED
    BY <2>1, <2>2, <2>3
<1> QED
  BY <1>1, PoolInit, PoolStep, PTL DEF Pool!Spec

=============================================================================
