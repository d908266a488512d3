-------------------------------- MODULE Wsq --------------------------------
(***************************************************************************)
(* detail::wsq (src/detail/wsq.cpp): the work-stealing deque of a worker.  *)
(* The owner puts and takes at the tail without a lock, other workers      *)
(* steal at the head under mtx_.  The array is a ring of capacity_ slots   *)
(* (mask_ = capacity_ - 1) and doubles when it is full.                    *)
(*                                                                         *)
(* A step is an access to head_idx_, tail_idx_, mtx_ or a slot.  Only the  *)
(* owner writes tail_idx_, so its own load of it is not a step; head_idx_  *)
(* is written under mtx_ only, so is the load under mtx_.                  *)
(***************************************************************************)
EXTENDS Integers

CONSTANTS
  Thieves,      \* the other workers
  InitialSize,  \* initial_size_, 32 in the code
  MaxPuts       \* bound: tasks the owner puts

Free == "free"

WsqConstants ==
  /\ InitialSize \in {1, 2, 4, 8, 16, 32}  \* a power of two
  /\ MaxPuts \in Nat
  /\ Free \notin Thieves

Empty == 0              \* a default-constructed work
Tasks == 1 .. MaxPuts   \* numbered in the order they are put

VARIABLES
  array,        \* array_
  capacity,     \* capacity_
  head, tail,   \* head_idx_, tail_idx_
  mtx,          \* the thief that holds mtx_, or Free
  opc,          \* where the owner is
  tpc,          \* where each thief is
  thead,        \* try_steal(): the head each thief loaded
  puts,         \* tasks put so far; the last one may be on its way
  posts,        \* calls of fsem_.post()
  given,        \* history: how often each task was handed out
  gaveEmpty,    \* history: an empty work was handed out
  misled        \* history: a put() to a full array saw room (see PutBegin)

vars == <<array, capacity, head, tail, mtx, opc, tpc, thead, puts, posts,
          given, gaveEmpty, misled>>

mask == capacity - 1
Slot(i) == i % capacity         \* i & mask_, capacity_ being a power of two

Init ==
  /\ capacity = InitialSize
  /\ array = [i \in 0 .. InitialSize - 1 |-> Empty]
  /\ head = 0 /\ tail = 0
  /\ mtx = Free
  /\ opc = "idle"
  /\ tpc = [th \in Thieves |-> "idle"]
  /\ thead = [th \in Thieves |-> 0]
  /\ puts = 0
  /\ posts = 0
  /\ given = [x \in Tasks |-> 0]
  /\ gaveEmpty = FALSE
  /\ misled = FALSE

\* ca.swap( array_[i & mask_]): the caller's work was empty.
SwapOut(i) ==
  LET x == array[Slot(i)]
  IN  /\ array' = [array EXCEPT ![Slot(i)] = Empty]
      /\ IF x = Empty
           THEN gaveEmpty' = TRUE /\ UNCHANGED given
           ELSE given' = [given EXCEPT ![x] = @ + 1] /\ UNCHANGED gaveEmpty

StealAt(th, label) == tpc' = [tpc EXCEPT ![th] = label]

----------------------------------------------------------------------------
(* put(), by the owner.                                                    *)

\* The first index that was not stolen, whatever a thief has under way.
First == IF \E th \in Thieves : tpc[th] \in {"check", "swap", "restore"}
           THEN head - 1 ELSE head

\* With a thief between its store to head_idx_ and its swap (or the store that
\* takes it back) a full array looks as if it had room: misled notes it.
PutBegin ==
  /\ opc = "idle"
  /\ puts < MaxPuts
  /\ puts' = puts + 1
  /\ IF tail <= head + mask
       THEN opc' = "put_slot" /\ misled' = (misled \/ tail > First + mask)
       ELSE opc' = "put_lock" /\ UNCHANGED misled
  /\ UNCHANGED <<array, capacity, head, tail, mtx, tpc, thead, posts, given,
                 gaveEmpty>>

PutSlot ==
  /\ opc = "put_slot"
  /\ array' = [array EXCEPT ![Slot(tail)] = puts]
  /\ opc' = "put_tail"
  /\ UNCHANGED <<capacity, head, tail, mtx, tpc, thead, puts, posts, given,
                 gaveEmpty, misled>>

PutTail ==
  /\ opc = "put_tail"
  /\ tail' = tail + 1
  /\ opc' = "put_post"
  /\ UNCHANGED <<array, capacity, head, mtx, tpc, thead, puts, posts, given,
                 gaveEmpty, misled>>

\* Mutant of Grown: the copy does not start at the head.
GrownFromSlot0 ==
  [i \in 0 .. 2 * capacity - 1 |-> IF i < tail - head THEN array[Slot(i)] ELSE Empty]

\* The array after it doubled: the live slots copied to its beginning.
Grown ==
  [i \in 0 .. 2 * capacity - 1 |->
     IF i < tail - head THEN array[Slot(i + head)] ELSE Empty]

\* Mutant of PutLocked: the array grows two tasks too late.
PutLockedLate ==
  /\ opc = "put_lock"
  /\ mtx = Free
  /\ LET count == tail - head
     IN  IF count > mask + 1
           THEN /\ array' = [Grown EXCEPT ![count] = puts]
                /\ capacity' = 2 * capacity
                /\ head' = 0
                /\ tail' = count + 1
           ELSE /\ array' = [array EXCEPT ![Slot(tail)] = puts]
                /\ tail' = tail + 1
                /\ UNCHANGED <<capacity, head>>
  /\ opc' = "put_post"
  /\ UNCHANGED <<mtx, tpc, thead, puts, posts, given, gaveEmpty, misled>>

\* The locked part; every other reader of what it changes holds mtx_ too.
PutLocked ==
  /\ opc = "put_lock"
  /\ mtx = Free
  /\ LET count == tail - head
     IN  IF count >= mask
           THEN /\ array' = [Grown EXCEPT ![count] = puts]
                /\ capacity' = 2 * capacity
                /\ head' = 0
                /\ tail' = count + 1
           ELSE /\ array' = [array EXCEPT ![Slot(tail)] = puts]
                /\ tail' = tail + 1
                /\ UNCHANGED <<capacity, head>>
  /\ opc' = "put_post"
  /\ UNCHANGED <<mtx, tpc, thead, puts, posts, given, gaveEmpty, misled>>

PutPost ==
  /\ opc = "put_post"
  /\ posts' = posts + 1
  /\ opc' = "idle"
  /\ UNCHANGED <<array, capacity, head, tail, mtx, tpc, thead, puts, given,
                 gaveEmpty, misled>>

----------------------------------------------------------------------------
(* try_take(), by the owner; with a tail of 0 it returns at once.          *)

TakeBegin ==
  /\ opc = "idle"
  /\ tail > 0
  /\ tail' = tail - 1
  /\ opc' = "take_head"
  /\ UNCHANGED <<array, capacity, head, mtx, tpc, thead, puts, posts, given,
                 gaveEmpty, misled>>

TakeCheck ==
  /\ opc = "take_head"
  /\ opc' = IF head <= tail THEN "take_swap" ELSE "take_lock"
  /\ UNCHANGED <<array, capacity, head, tail, mtx, tpc, thead, puts, posts,
                 given, gaveEmpty, misled>>

TakeSwap ==
  /\ opc = "take_swap"
  /\ SwapOut(tail)
  /\ opc' = "idle"
  /\ UNCHANGED <<capacity, head, tail, mtx, tpc, thead, puts, posts, misled>>

TakeLocked ==
  /\ opc = "take_lock"
  /\ mtx = Free
  /\ head <= tail
  /\ SwapOut(tail)
  /\ opc' = "idle"
  /\ UNCHANGED <<capacity, head, tail, mtx, tpc, thead, puts, posts, misled>>

\* Mutant of TakeFails: the lock, which waits for a thief to finish, is gone.
TakeFailsUnlocked ==
  /\ opc = "take_lock"
  /\ head > tail
  /\ tail' = tail + 1
  /\ opc' = "idle"
  /\ UNCHANGED <<array, capacity, head, mtx, tpc, thead, puts, posts, given,
                 gaveEmpty, misled>>

TakeFails ==
  /\ opc = "take_lock"
  /\ mtx = Free
  /\ head > tail
  /\ tail' = tail + 1
  /\ opc' = "idle"
  /\ UNCHANGED <<array, capacity, head, mtx, tpc, thead, puts, posts, given,
                 gaveEmpty, misled>>

----------------------------------------------------------------------------
(* try_steal(); a thief that does not get the lock returns at once.        *)

StealLock(th) ==
  /\ tpc[th] = "idle"
  /\ mtx = Free
  /\ mtx' = th
  /\ thead' = [thead EXCEPT ![th] = head]
  /\ StealAt(th, "advance")
  /\ UNCHANGED <<array, capacity, head, tail, opc, puts, posts, given,
                 gaveEmpty, misled>>

StealAdvance(th) ==
  /\ tpc[th] = "advance"
  /\ head' = thead[th] + 1
  /\ StealAt(th, "check")
  /\ UNCHANGED <<array, capacity, tail, mtx, opc, thead, puts, posts, given,
                 gaveEmpty, misled>>

StealCheck(th) ==
  /\ tpc[th] = "check"
  /\ StealAt(th, IF thead[th] < tail THEN "swap" ELSE "restore")
  /\ UNCHANGED <<array, capacity, head, tail, mtx, opc, thead, puts, posts,
                 given, gaveEmpty, misled>>

StealSwap(th) ==
  /\ tpc[th] = "swap"
  /\ SwapOut(thead[th])
  /\ mtx' = Free
  /\ StealAt(th, "idle")
  /\ UNCHANGED <<capacity, head, tail, opc, thead, puts, posts, misled>>

StealRestore(th) ==
  /\ tpc[th] = "restore"
  /\ head' = thead[th]
  /\ mtx' = Free
  /\ StealAt(th, "idle")
  /\ UNCHANGED <<array, capacity, tail, opc, thead, puts, posts, given,
                 gaveEmpty, misled>>

----------------------------------------------------------------------------
Put  == PutBegin \/ PutSlot \/ PutTail \/ PutLocked \/ PutPost
Take == TakeBegin \/ TakeCheck \/ TakeSwap \/ TakeLocked \/ TakeFails
Steal(th) ==
  \/ StealLock(th) \/ StealAdvance(th) \/ StealCheck(th)
  \/ StealSwap(th) \/ StealRestore(th)

Next == Put \/ Take \/ \E th \in Thieves : Steal(th)

Spec == Init /\ [][Next]_vars

----------------------------------------------------------------------------
(* Properties.                                                             *)

TypeOK ==
  /\ capacity \in {InitialSize * 2^k : k \in 0 .. MaxPuts}
  /\ array \in [0 .. mask -> Tasks \cup {Empty}]
  /\ head \in Nat /\ tail \in Nat
  /\ mtx \in Thieves \cup {Free}
  /\ opc \in {"idle", "put_slot", "put_tail", "put_lock", "put_post",
              "take_head", "take_swap", "take_lock"}
  /\ tpc \in [Thieves -> {"idle", "advance", "check", "swap", "restore"}]
  /\ thead \in [Thieves -> Nat]
  /\ puts \in 0 .. MaxPuts /\ posts \in 0 .. MaxPuts
  /\ given \in [Tasks -> Nat]
  /\ gaveEmpty \in BOOLEAN /\ misled \in BOOLEAN

\* The first index that is not put yet, whatever the owner has under way.
Past == IF opc \in {"take_head", "take_swap", "take_lock"} THEN tail + 1 ELSE tail

\* The tasks in the deque.
Stored == {array[Slot(i)] : i \in First .. Past - 1}

\* The tasks whose put() has made them visible.
Visible == 1 .. (IF opc \in {"put_slot", "put_tail", "put_lock"} THEN puts - 1 ELSE puts)

\* Unless a put() to a full array was misled (it leaves more indices than slots,
\* and growth then copies a task twice): no task is handed out twice, to the
\* owner and a thief or to two thieves, not even when they compete for the last
\* one; and none is lost, through wrap-around, growth and thieves that back off.
EachTaskOnceUnlessMisled ==
  \/ misled
  \/ /\ \A x \in Tasks : given[x] <= 1
     /\ \A x \in Visible : given[x] = 0 => x \in Stored
     /\ ~ gaveEmpty

\* The owner gets the newest task in the deque, a thief the oldest.
NewestToOwnerOldestToThief ==
  [][\A x \in Tasks :
       given'[x] > given[x] /\ ~ misled =>
         /\ x \in Stored
         /\ \A y \in Stored : IF opc' # opc THEN y <= x ELSE x <= y]_vars

\* try_take() finds nothing only if nothing is stored: it waits for a thief
\* that took the last index, and takes the task if the thief backs off.
FailsOnlyWhenEmpty == [][TakeFails => Stored = {}]_vars

\* What the pool relies on: every task put is handed out or still there.
\* The code breaks it: `tail <= head_idx_ + mask_' lets put() write the slot of
\* a thief that advanced the head, before it swaps or moves the head back.
NothingLost == \A x \in Visible : given[x] = 0 => x \in Stored

=============================================================================
