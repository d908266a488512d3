--------------------------- MODULE UnboundedFifo ---------------------------
(***************************************************************************)
(* detail::unbounded_fifo_base (unbounded_fifo.hpp): a linked list with a  *)
(* dummy node at its end, tail_mtx_ for producers and head_mtx_ for        *)
(* consumers.  Its nodes are counted references: intrusive_ptr changes     *)
(* node::use_count, a plain size_t, with ++ and --, whatever mutex the     *)
(* thread holds.  A change is therefore two steps, a load and a store.     *)
(*                                                                         *)
(* Nodes are numbered in the order they are linked; node 0 is the first    *)
(* dummy.  What happens after a node is deleted that is still reachable is *)
(* undefined, and the model stops there.                                   *)
(***************************************************************************)
EXTENDS Integers, Sequences, FiniteSets

CONSTANTS
  Producers,    \* threads that call put()
  Consumers,    \* threads that call try_take() again and again
  MaxPuts       \* bound: items of each producer, which may try again

Free  == "free"

UnboundedFifoConstants ==
  /\ MaxPuts \in Nat
  /\ IsFiniteSet(Producers) /\ IsFiniteSet(Consumers)
  /\ Producers \cap Consumers = {} /\ Free \notin Producers \cup Consumers

Items == Producers \X (1 .. MaxPuts)
Nodes == 0 .. Cardinality(Items)
None  == <<>>           \* a node that holds no item, a thread that loaded no count
Nil   == -1             \* the null pointer

VARIABLES
  state,        \* state_
  head, tail,   \* head_, tail_: nodes
  va, next,     \* the fields of the nodes
  uses,         \* their use_count
  freed,        \* the nodes that were deleted
  headMtx,      \* the consumer that holds head_mtx_
  tailMtx,      \* the thread that holds tail_mtx_
  pc,           \* where each thread is
  puts,         \* items of each producer, the one it is putting included
  mine,         \* put(): new_node; try_take(): what get_tail_() returned
  changes,      \* the changes of counts each thread makes next: <<node, by>>
  loaded,       \* the count it has loaded for the first of them
  lost          \* history: a change of a count overwrote another one

vars == <<state, head, tail, va, next, uses, freed, headMtx, tailMtx, pc, puts,
          mine, changes, loaded, lost>>
list   == <<state, head, tail, va, next>>
counts == <<uses, freed, loaded, lost>>

Init ==
  /\ state = "ACTIVE"
  /\ head = 0 /\ tail = 0
  /\ va = [n \in Nodes |-> None]
  /\ next = [n \in Nodes |-> Nil]
  /\ uses = [n \in Nodes |-> IF n = 0 THEN 2 ELSE 0]    \* head_ and tail_
  /\ freed = {}
  /\ headMtx = Free /\ tailMtx = Free
  /\ pc = [t \in Producers \cup Consumers |-> "idle"]
  /\ puts = [p \in Producers |-> 0]
  /\ mine = [t \in Producers \cup Consumers |-> 0]
  /\ changes = [t \in Producers \cup Consumers |-> <<>>]
  /\ loaded = [t \in Producers \cup Consumers |-> None]
  /\ lost = FALSE

\* Thread t is at a label, and its last changes of counts are made.
At(t, label) == pc[t] = label /\ changes[t] = <<>>
Goto(t, label) == pc' = [pc EXCEPT ![t] = label]
Changes(t, list_) == changes' = [changes EXCEPT ![t] = list_]

----------------------------------------------------------------------------
(* intrusive_ptr_add_ref() and intrusive_ptr_release().                    *)

Load(t) ==
  /\ changes[t] # <<>> /\ loaded[t] = None
  /\ loaded' = [loaded EXCEPT ![t] = <<uses[Head(changes[t])[1]]>>]
  /\ UNCHANGED <<list, uses, freed, headMtx, tailMtx, pc, puts, mine, changes, lost>>

\* The last reference deletes the node, and with it its reference to the next.
Store(t) ==
  LET n   == Head(changes[t])[1]
      new == loaded[t][1] + Head(changes[t])[2]
  IN /\ loaded[t] # None
     /\ lost' = (lost \/ uses[n] # loaded[t][1])
     /\ uses' = [uses EXCEPT ![n] = new]
     /\ loaded' = [loaded EXCEPT ![t] = None]
     /\ IF new = 0
          THEN /\ freed' = freed \cup {n}
               /\ Changes(t, (IF next[n] = Nil THEN <<>> ELSE <<<<next[n], -1>>>>)
                               \o Tail(changes[t]))
          ELSE /\ Changes(t, Tail(changes[t]))
               /\ UNCHANGED freed
     /\ UNCHANGED <<list, headMtx, tailMtx, pc, puts, mine>>

----------------------------------------------------------------------------
(* put().                                                                  *)

PutCall(p) ==
  /\ At(p, "idle")
  /\ puts[p] < MaxPuts
  /\ puts' = [puts EXCEPT ![p] = @ + 1]
  /\ Goto(p, "lock")
  /\ UNCHANGED <<list, counts, headMtx, tailMtx, mine, changes>>

\* Mutant of PutLock: the mutex is not taken.
PutLockNot(p) ==
  /\ At(p, "lock")
  /\ Goto(p, "check")
  /\ UNCHANGED <<list, counts, headMtx, tailMtx, puts, mine, changes>>

PutLock(p) ==
  /\ At(p, "lock")
  /\ tailMtx = Free
  /\ tailMtx' = p
  /\ Goto(p, "check")
  /\ UNCHANGED <<list, counts, headMtx, puts, mine, changes>>

\* Nobody else has new_node, so that its first deletion is not worth a step.
PutReject(p) ==
  /\ At(p, "check")
  /\ state = "DEACTIVE"
  /\ tailMtx' = Free
  /\ puts' = [puts EXCEPT ![p] = @ - 1]
  /\ Goto(p, "idle")
  /\ UNCHANGED <<list, counts, headMtx, mine, changes>>

PutCheck(p) ==
  /\ At(p, "check")
  /\ state = "ACTIVE"
  /\ Goto(p, "link")
  /\ UNCHANGED <<list, counts, headMtx, tailMtx, puts, mine, changes>>

\* new_node is referred to by put() and by the node before it.
PutLink(p) ==
  /\ At(p, "link")
  /\ va' = [va EXCEPT ![tail] = <<p, puts[p]>>]
  /\ next' = [next EXCEPT ![tail] = tail + 1]
  /\ mine' = [mine EXCEPT ![p] = tail + 1]
  /\ uses' = [uses EXCEPT ![tail + 1] = 2]
  /\ Goto(p, "swing")
  /\ UNCHANGED <<state, head, tail, freed, loaded, lost, headMtx, tailMtx, puts,
                 changes>>

\* `tail_ = new_node': nobody else can change the count of new_node yet, but
\* the node that tail_ leaves is a consumer's, too.
PutSwing(p) ==
  /\ At(p, "swing")
  /\ tail' = mine[p]
  /\ uses' = [uses EXCEPT ![mine[p]] = @ + 1]
  /\ Changes(p, <<<<tail, -1>>>>)
  /\ Goto(p, "unlock")
  /\ UNCHANGED <<state, head, va, next, freed, loaded, lost, headMtx, tailMtx,
                 puts, mine>>

PutUnlock(p) ==
  /\ At(p, "unlock")
  /\ tailMtx' = Free
  /\ Goto(p, "return")
  /\ UNCHANGED <<list, counts, headMtx, puts, mine, changes>>

\* Mutant of PutReturn: new_node is not released.
PutReturnHolding(p) ==
  /\ At(p, "return")
  /\ Goto(p, "idle")
  /\ UNCHANGED <<list, counts, headMtx, tailMtx, puts, mine, changes>>

\* new_node goes out of scope after the mutex is unlocked and fsem_ posted.
PutReturn(p) ==
  /\ At(p, "return")
  /\ Changes(p, <<<<mine[p], -1>>>>)
  /\ Goto(p, "idle")
  /\ UNCHANGED <<list, counts, headMtx, tailMtx, puts, mine>>

----------------------------------------------------------------------------
(* try_take().                                                             *)

TakeLock(c) ==
  /\ At(c, "idle")
  /\ headMtx = Free
  /\ headMtx' = c
  /\ Goto(c, "get_tail")
  /\ UNCHANGED <<list, counts, tailMtx, puts, mine, changes>>

\* get_tail_(): a reference to tail_ is made under tail_mtx_ ...
TakeTail(c) ==
  /\ At(c, "get_tail")
  /\ tailMtx = Free
  /\ tailMtx' = c
  /\ mine' = [mine EXCEPT ![c] = tail]
  /\ Changes(c, <<<<tail, 1>>>>)
  /\ Goto(c, "got_tail")
  /\ UNCHANGED <<list, counts, headMtx, puts>>

\* ... and released by empty_() when the mutex is unlocked.
TakeCompare(c) ==
  /\ At(c, "got_tail")
  /\ tailMtx' = Free
  /\ Changes(c, <<<<mine[c], -1>>>>)
  /\ Goto(c, IF head = mine[c] THEN "unlock" ELSE "pop")
  /\ UNCHANGED <<list, counts, headMtx, puts, mine>>

\* The item is swapped out, and pop_head_() makes references to the old head
\* and to the node after it.
TakeItem(c) ==
  /\ At(c, "pop")
  /\ va' = [va EXCEPT ![head] = None]
  /\ Changes(c, <<<<head, 1>>, <<next[head], 1>>>>)
  /\ Goto(c, "swing")
  /\ UNCHANGED <<state, head, tail, next, counts, headMtx, tailMtx, puts, mine>>

\* `head_ = old_head->next': the old head loses head_ and the value returned.
TakePop(c) ==
  /\ At(c, "swing")
  /\ head' = next[head]
  /\ Changes(c, <<<<head, -1>>, <<head, -1>>>>)
  /\ Goto(c, "unlock")
  /\ UNCHANGED <<state, tail, va, next, counts, headMtx, tailMtx, puts, mine>>

TakeUnlock(c) ==
  /\ At(c, "unlock")
  /\ headMtx' = Free
  /\ Goto(c, "idle")
  /\ UNCHANGED <<list, counts, tailMtx, puts, mine, changes>>

----------------------------------------------------------------------------
\* deactivate() stores the state under head_mtx_.
Deactivate ==
  /\ headMtx = Free
  /\ state = "ACTIVE"
  /\ state' = "DEACTIVE"
  /\ UNCHANGED <<head, tail, va, next, counts, headMtx, tailMtx, pc, puts, mine,
                 changes>>

PutStep(p) ==
  \/ PutCall(p) \/ PutLock(p) \/ PutReject(p) \/ PutCheck(p)
  \/ PutLink(p) \/ PutSwing(p) \/ PutUnlock(p) \/ PutReturn(p)

TakeStep(c) ==
  \/ TakeLock(c) \/ TakeTail(c) \/ TakeCompare(c)
  \/ TakeItem(c) \/ TakePop(c) \/ TakeUnlock(c)

\* The nodes from head_ to tail_.
Reachable == head .. tail

Next ==
  /\ freed \cap Reachable = {}
  /\ \/ \E t \in Producers \cup Consumers : Load(t) \/ Store(t)
     \/ \E p \in Producers : PutStep(p)
     \/ \E c \in Consumers : TakeStep(c)
     \/ Deactivate

Spec == Init /\ [][Next]_vars

----------------------------------------------------------------------------
(* Properties.                                                             *)

TypeOK ==
  /\ state \in {"ACTIVE", "DEACTIVE"}
  /\ head \in Nodes /\ tail \in Nodes
  /\ va \in [Nodes -> Items \cup {None}]
  /\ next \in [Nodes -> Nodes \cup {Nil}]
  /\ uses \in [Nodes -> Int]
  /\ freed \subseteq Nodes
  /\ headMtx \in Consumers \cup {Free}
  /\ tailMtx \in Producers \cup Consumers \cup {Free}
  /\ puts \in [Producers -> 0 .. MaxPuts]
  /\ mine \in [Producers \cup Consumers -> Nodes]
  /\ lost \in BOOLEAN

\* The list from head_ to tail_ is a first-in first-out queue: as long as its
\* nodes live, no interleaving of the two locks loses, duplicates or reorders
\* an item or hands out a node that is not written yet.
Written ==
  IF va[head] = None /\ head # tail THEN head + 1 ELSE head  \* taken, not popped
Entered == {x \in Items : \/ x[2] < puts[x[1]]
                          \/ /\ x[2] = puts[x[1]]
                             /\ pc[x[1]] \in {"unlock", "return", "idle"}}
Queue == INSTANCE BoundedQueue
           WITH HWM <- Cardinality(Items), entered <- Entered,
                pending <- [i \in 1 .. tail - Written |-> va[Written + i - 1]]
ImplementsQueue == Queue!Spec

\* A node is deleted when it has left the list and every thread is done with
\* it, no earlier and no later, unless a change of a count was lost.
NodesReclaimed ==
  \/ lost
  \/ /\ freed \subseteq 0 .. head - 1
     /\ (\A t \in Producers \cup Consumers : At(t, "idle")) => freed = 0 .. head - 1

\* A node that the queue still reaches is never deleted.
ReachableLives == freed \cap Reachable = {}

=============================================================================
