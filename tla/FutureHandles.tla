--------------------------- MODULE FutureHandles ---------------------------
(***************************************************************************)
(* The objects through which a program has a result (spin/future.hpp):     *)
(* promises or packaged_tasks on one side, unique_futures and              *)
(* shared_futures on the other, each a shared_ptr to it.  They are made,   *)
(* moved, assigned, swapped and destroyed in any order, by one thread at a *)
(* time as objects without a mutex must be; what several threads do with   *)
(* the result meanwhile is the matter of SpinFuture.                       *)
(*                                                                         *)
(* Calls that throw (future_already_retrieved, promise_already_satisfied,  *)
(* task_already_started, task_moved) change nothing and are left out, and  *)
(* so is the move constructor of shared_future, which does not compile     *)
(* (`other->future', line 636).                                            *)
(***************************************************************************)
EXTENDS Naturals

CONSTANTS
  Producers,    \* promises or packaged_tasks
  Uniques,      \* unique_futures
  Shareds,      \* shared_futures
  MaxResults    \* bound: results that are ever made

ASSUME FutureHandlesAssumption ==
  /\ MaxResults \in Nat
  /\ Producers \cap (Uniques \cup Shareds) = {} /\ Uniques \cap Shareds = {}

Futures == Uniques \cup Shareds
Results == 1 .. MaxResults
None    == 0            \* a null shared_ptr

VARIABLES
  kind,         \* what the producers are: "promise" or "packaged_task"
  lives,        \* the producers that are constructed
  refers,       \* future, or task, of each object
  obtained,     \* future_obtained of each producer
  made,         \* the results made so far are 1 .. made
  ready,        \* the results that are done
  given,        \* history: how often get_future() returned a future of each
  dropped       \* history: the results promise::operator= let go of

vars == <<kind, lives, refers, obtained, made, ready, given, dropped>>

Init ==
  /\ kind \in {"promise", "packaged_task"}
  /\ lives = {}
  /\ refers = [h \in Producers \cup Futures |-> None]
  /\ obtained = [p \in Producers |-> FALSE]
  /\ made = 0
  /\ ready = {}
  /\ given = [r \in Results |-> 0]
  /\ dropped = {}

\* h takes over what g refers to; nothing is left if both are one object.
Transferred(h, g) == [refers EXCEPT ![h] = refers[g], ![g] = None]

----------------------------------------------------------------------------
(* Producers.                                                              *)

\* r is the result a call of p is about: lazy_init() makes one for a promise
\* that has none.
About(p, r) ==
  \/ /\ r = refers[p] /\ r # None
     /\ UNCHANGED made
  \/ /\ kind = "promise" /\ refers[p] = None
     /\ r = made + 1 /\ r \in Results
     /\ made' = r

\* promise() and packaged_task().
Create(p) ==
  /\ p \notin lives
  /\ lives' = lives \cup {p}
  /\ obtained' = [obtained EXCEPT ![p] = FALSE]
  /\ UNCHANGED <<kind, refers, made, ready, given, dropped>>

\* packaged_task( f) makes its result at once.
CreateTask(p) ==
  /\ kind = "packaged_task"
  /\ p \notin lives
  /\ made + 1 \in Results
  /\ made' = made + 1
  /\ lives' = lives \cup {p}
  /\ refers' = [refers EXCEPT ![p] = made + 1]
  /\ obtained' = [obtained EXCEPT ![p] = FALSE]
  /\ UNCHANGED <<kind, ready, given, dropped>>

\* u = p.get_future()
GetFuture(p, u) ==
  /\ p \in lives
  /\ refers[p] = None \/ ~ obtained[p]      \* lazy_init() resets the flag
  /\ \E r \in Results :
       /\ About(p, r)
       /\ refers' = [refers EXCEPT ![p] = r, ![u] = r]
       /\ given' = [given EXCEPT ![r] = @ + 1]
  /\ obtained' = [obtained EXCEPT ![p] = TRUE]
  /\ UNCHANGED <<kind, lives, ready, dropped>>

\* set_value(), set_exception() and operator()(), the calls a wait callback
\* makes included.
Produce(p) ==
  /\ p \in lives
  /\ \E r \in Results \ ready :
       /\ About(p, r)
       /\ refers' = [refers EXCEPT ![p] = r]
       /\ ready' = ready \cup {r}
  /\ obtained' = [obtained EXCEPT ![p] = @ /\ refers[p] # None]
  /\ UNCHANGED <<kind, lives, given, dropped>>

\* Mutant of Destroy: the futures are not told.
DestroySilently(p) ==
  /\ p \in lives
  /\ lives' = lives \ {p}
  /\ refers' = [refers EXCEPT ![p] = None]
  /\ UNCHANGED <<kind, obtained, made, ready, given, dropped>>

\* ~promise() and ~packaged_task() break a result that is not ready.
Destroy(p) ==
  /\ p \in lives
  /\ lives' = lives \ {p}
  /\ refers' = [refers EXCEPT ![p] = None]
  /\ ready' = ready \cup ({refers[p]} \ {None})
  /\ UNCHANGED <<kind, obtained, made, given, dropped>>

\* The packaged_task that is moved from forgets its flag, too.
MoveConstruct(p, q) ==
  /\ p \notin lives /\ q \in lives
  /\ lives' = lives \cup {p}
  /\ refers' = Transferred(p, q)
  /\ obtained' = [obtained EXCEPT ![p] = obtained[q],
                                  ![q] = @ /\ kind = "promise"]
  /\ UNCHANGED <<kind, made, ready, given, dropped>>

\* promise::operator= lets go of the result that p had, done or not.
AssignPromise(p, q) ==
  /\ kind = "promise"
  /\ p \in lives /\ q \in lives
  /\ refers' = Transferred(p, q)
  /\ obtained' = [obtained EXCEPT ![p] = obtained[q]]
  /\ dropped' = dropped \cup ({refers[p]} \ {None})
  /\ UNCHANGED <<kind, lives, made, ready, given>>

\* packaged_task::operator= moves q to a temporary and swaps that with p: its
\* destructor breaks what p had.
AssignTask(p, q) ==
  /\ kind = "packaged_task"
  /\ p \in lives /\ q \in lives /\ p # q
  /\ refers' = Transferred(p, q)
  /\ obtained' = [obtained EXCEPT ![p] = obtained[q], ![q] = FALSE]
  /\ ready' = ready \cup ({refers[p]} \ {None})
  /\ UNCHANGED <<kind, lives, made, given, dropped>>

\* Mutant of Swap: the flags stay where they are.
SwapResults(p, q) ==
  /\ p \in lives /\ q \in lives
  /\ refers' = [refers EXCEPT ![p] = refers[q], ![q] = refers[p]]
  /\ UNCHANGED <<kind, lives, obtained, made, ready, given, dropped>>

Swap(p, q) ==
  /\ p \in lives /\ q \in lives
  /\ refers' = [refers EXCEPT ![p] = refers[q], ![q] = refers[p]]
  /\ obtained' = [obtained EXCEPT ![p] = obtained[q], ![q] = obtained[p]]
  /\ UNCHANGED <<kind, lives, made, ready, given, dropped>>

----------------------------------------------------------------------------
(* Futures.                                                                *)

HaveOnly(new) ==
  /\ refers' = new
  /\ UNCHANGED <<kind, lives, obtained, made, ready, given, dropped>>

\* Moving, to a new object or by assignment: unique to unique, unique to shared
\* and shared to shared.
Move(h, g) ==
  /\ h \in Uniques => g \in Uniques
  /\ HaveOnly(Transferred(h, g))

\* Copying a shared_future.
Copy(h, g) == HaveOnly([refers EXCEPT ![h] = refers[g]])

SwapFutures(h, g) == HaveOnly([refers EXCEPT ![h] = refers[g], ![g] = refers[h]])

DropFuture(h) == HaveOnly([refers EXCEPT ![h] = None])

----------------------------------------------------------------------------
Next ==
  \/ \E p \in Producers : Create(p) \/ CreateTask(p) \/ Produce(p) \/ Destroy(p)
  \/ \E p \in Producers, u \in Uniques : GetFuture(p, u)
  \/ \E p, q \in Producers :
       MoveConstruct(p, q) \/ AssignPromise(p, q) \/ AssignTask(p, q) \/ Swap(p, q)
  \/ \E h, g \in Futures : Move(h, g)
  \/ \E h, g \in Shareds : Copy(h, g) \/ SwapFutures(h, g)
  \/ \E h, g \in Uniques : SwapFutures(h, g)
  \/ \E h \in Futures : DropFuture(h)

Spec == Init /\ [][Next]_vars

----------------------------------------------------------------------------
(* Properties.                                                             *)

TypeOK ==
  /\ kind \in {"promise", "packaged_task"}
  /\ lives \subseteq Producers
  /\ refers \in [Producers \cup Futures -> Results \cup {None}]
  /\ obtained \in [Producers -> BOOLEAN]
  /\ made \in Results \cup {0}
  /\ ready \in SUBSET Results /\ dropped \in SUBSET Results
  /\ given \in [Results -> Nat]

Sole(S) == \A h, g \in S : refers[h] = refers[g] /\ refers[h] # None => h = g

\* However they are moved, assigned and swapped: a result has one producer, which
\* hands out one future of it, and that is in one unique_future or in
\* shared_futures only.
OwnedOnce ==
  /\ Sole(Producers) /\ Sole(Uniques)
  /\ \A u \in Uniques, s \in Shareds : refers[u] = refers[s] => refers[u] = None
  /\ \A r \in Results : given[r] <= 1

Orphan(r) == \A p \in Producers : refers[p] # r

\* A result that no producer is left for is ready (spin_future_ref.qbk:624-626,
\* :781-783), or it is one that promise::operator= let go of.
OrphanIsReady == \A r \in 1 .. made : Orphan(r) => r \in ready \cup dropped

\* The same without the exception (spin_future_ref.qbk:611-613).
AssignedOverIsReady == \A r \in 1 .. made : Orphan(r) => r \in ready

=============================================================================
