-------------------------- MODULE StaticPoolProofs --------------------------
(***************************************************************************)
(* StaticPool for any number of workers, tasks and closers: every task     *)
(* that was accepted or forked is in one place until it is done, the pool  *)
(* implements what Pool promises, and its workers do not all sleep while   *)
(* a task waits.                                                           *)
(***************************************************************************)
EXTENDS StaticPool, FiniteSetTheorems, SequenceTheorems, TLAPS

AllClosers == Closers \cup NowClosers

Typed ==
  /\ closed \in BOOLEAN /\ shtdwn \in BOOLEAN /\ shtdwnNow \in BOOLEAN
  /\ queue \in Seq(Roots) /\ queueActive \in BOOLEAN
  /\ wsq \in [Workers -> Seq(Tasks)]
  /\ wpc \in [Workers -> {"loop", "local", "global", "pick", "steal", "wait",
                          "check", "asleep", "run", "post", "exited"}]
  /\ active \in [Workers -> Tasks \cup {None}]
  /\ scan \in [Workers -> Seq(Workers)]
  /\ stage \in [Tasks -> {"new", "forked", "done"}]
  /\ spc \in [Roots -> {"idle", "put", "link", "post", "accepted", "rejected"}]
  /\ cpc \in [AllClosers -> {"idle", "queue", "sem", "load", "post", "flag", "join",
                             "joined", "returned", "threw"}]

\* A worker has a task exactly while it runs one, but for the post() of a fork,
\* and a victim while it steals.
Working ==
  \A w \in Workers :
    /\ active[w] # None => wpc[w] \in {"run", "post"}
    /\ wpc[w] = "run" => active[w] # None
    /\ wpc[w] = "steal" => scan[w] # <<>>

\* A task that is not in the pool has not begun, nor its sub-task.
Stages ==
  /\ \A r \in Roots : spc[r] \in {"idle", "put", "link", "rejected"} => stage[r] = "new"
  /\ \A r \in Forking : stage[r] = "new" => stage[Child(r)] = "new"

\* The queue, the deques and the workers have no task in common, and none twice.
Distinct ==
  /\ IsInjective(queue)
  /\ \A w \in Workers :
       /\ IsInjective(wsq[w])
       /\ ToSet(wsq[w]) \cap ToSet(queue) = {}
       /\ active[w] \notin ToSet(queue)
  /\ \A v, w \in Workers :
       /\ active[v] \notin ToSet(wsq[w])
       /\ v # w => ToSet(wsq[v]) \cap ToSet(wsq[w]) = {}
       /\ active[v] = active[w] => v = w \/ active[v] = None

Placed(t) ==
  \/ t \in ToSet(queue)
  \/ \E w \in Workers : active[w] = t \/ t \in ToSet(wsq[w])

PlacedArePending == \A t \in Tasks : Placed(t) <=> Pending(t)

PlacesInv == Typed /\ Working /\ Stages /\ Distinct /\ PlacedArePending

\* shutdown() is carried out by one closer, which closes first.
ClosedFirst ==
  /\ shtdwn \/ shtdwnNow \/ ~ queueActive => closed
  /\ \A c \in AllClosers : cpc[c] \notin {"idle", "returned"} => closed
  /\ \A c, d \in AllClosers :
       cpc[c] \notin {"idle", "returned"} /\ cpc[d] \notin {"idle", "returned"} => c = d

\* A worker only leaves a pool that is shut down, and unless that hurries there is
\* nothing in the queue any more, nor about to be linked; the deques only hold what
\* forks or was forked.
LeavesNothing ==
  /\ shtdwn \/ shtdwnNow => ~ queueActive
  /\ \A c \in AllClosers : cpc[c] \notin {"idle", "returned", "queue"} => ~ queueActive
  /\ \A w \in Workers : ToSet(wsq[w]) \cap (Roots \ Forking) = {}
  /\ \A w \in Workers :
       wpc[w] = "exited" =>
         /\ shtdwn \/ shtdwnNow
         /\ shtdwnNow \/ (queue = <<>> /\ TailFree)
  /\ \A c \in AllClosers : cpc[c] = "joined" => \A w \in Workers : wpc[w] = "exited"

IInv == PlacesInv /\ ClosedFirst /\ LeavesNothing

----------------------------------------------------------------------------
(* Sequences as sets: what each end of a queue or deque does to them.      *)

LEMMA ElementsOf ==
  ASSUME NEW S, NEW s \in Seq(S)
  PROVE  ToSet(s) = {s[i] : i \in 1 .. Len(s)} /\ ToSet(s) \subseteq S
  BY DEF ToSet

LEMMA AppendElement ==
  ASSUME NEW S, NEW s \in Seq(S), NEW x \in S
  PROVE  /\ Append(s, x) \in Seq(S) /\ Append(s, x) # <<>>
         /\ ToSet(Append(s, x)) = ToSet(s) \cup {x}
         /\ IsInjective(s) /\ x \notin ToSet(s) => IsInjective(Append(s, x))
<1>1. /\ Append(s, x) \in Seq(S) /\ Append(s, x) # <<>>
      /\ Len(Append(s, x)) = Len(s) + 1
  BY AppendProperties
<1>2. \A i \in 1 .. Len(s) + 1 :
        Append(s, x)[i] = IF i = Len(s) + 1 THEN x ELSE s[i]
  OBVIOUS
<1>3. ToSet(Append(s, x)) = ToSet(s) \cup {x}
  BY <1>1, <1>2 DEF ToSet
<1>4. ASSUME IsInjective(s), x \notin ToSet(s) PROVE IsInjective(Append(s, x))
  BY <1>1, <1>2, <1>4 DEF ToSet, IsInjective
<1> QED
  BY <1>1, <1>3, <1>4

LEMMA TailElements ==
  ASSUME NEW S, NEW s \in Seq(S), s # <<>>, IsInjective(s)
  PROVE  /\ Head(s) \in S /\ Head(s) \in ToSet(s)
         /\ Tail(s) \in Seq(S)
         /\ ToSet(Tail(s)) = ToSet(s) \ {Head(s)}
         /\ IsInjective(Tail(s))
<1>1. /\ Head(s) = s[1] /\ 1 \in 1 .. Len(s)
      /\ Tail(s) \in Seq(S) /\ Len(Tail(s)) = Len(s) - 1
  OBVIOUS
<1>2. \A i \in 1 .. Len(s) - 1 : Tail(s)[i] = s[i + 1]
  OBVIOUS
<1>3. IsInjective(Tail(s))
  BY <1>1, <1>2 DEF IsInjective
<1>4. ToSet(Tail(s)) = ToSet(s) \ {Head(s)}
  <2>1. ASSUME NEW i \in 1 .. Len(s), i # 1 PROVE s[i] \in ToSet(Tail(s))
    <3>1. i - 1 \in 1 .. Len(s) - 1 /\ Tail(s)[i - 1] = s[i]
      BY <1>2, <2>1
    <3>2. DOMAIN Tail(s) = 1 .. Len(s) - 1
      BY <1>1
    <3> QED
      BY <3>1, <3>2 DEF ToSet
  <2>2. ASSUME NEW i \in 1 .. Len(s) - 1 PROVE Tail(s)[i] \in ToSet(s) \ {s[1]}
    BY <1>1, <1>2, <2>2 DEF ToSet, IsInjective
  <2> QED
    BY <1>1, <2>1, <2>2 DEF ToSet
<1>5. Head(s) \in S /\ Head(s) \in ToSet(s)
  BY <1>1, ElementsOf
<1> QED
  BY <1>1, <1>3, <1>4, <1>5

LEMMA FrontElements ==
  ASSUME NEW S, NEW s \in Seq(S), s # <<>>, IsInjective(s)
  PROVE  /\ Last(s) \in S /\ Last(s) \in ToSet(s)
         /\ Front(s) \in Seq(S)
         /\ ToSet(Front(s)) = ToSet(s) \ {Last(s)}
         /\ IsInjective(Front(s))
<1>1. Last(s) = s[Len(s)] /\ Len(s) \in 1 .. Len(s)
  BY DEF Last
<1>2. /\ Front(s) \in Seq(S) /\ Len(Front(s)) = Len(s) - 1
      /\ \A i \in 1 .. Len(s) - 1 : Front(s)[i] = s[i]
  <2> DEFINE n == Len(s) - 1
  <2>1. n \in Nat /\ \A i \in 1 .. n : s[i] \in S
    OBVIOUS
  <2> HIDE DEF n
  <2>2. /\ SubSeq(s, 1, n) \in Seq(S)
        /\ Len(SubSeq(s, 1, n)) = IF 1 <= n THEN n - 1 + 1 ELSE 0
        /\ \A i \in 1 .. n - 1 + 1 : SubSeq(s, 1, n)[i] = s[1 + i - 1]
    BY <2>1, SubSeqProperties
  <2>3. /\ SubSeq(s, 1, n) \in Seq(S) /\ Len(SubSeq(s, 1, n)) = n
        /\ \A i \in 1 .. n : SubSeq(s, 1, n)[i] = s[i]
    BY <2>1, <2>2
  <2> QED
    BY <2>3 DEF Front, n
<1>3. IsInjective(Front(s))
  BY <1>1, <1>2 DEF IsInjective
<1>4. ToSet(Front(s)) = ToSet(s) \ {Last(s)}
  <2>1. DOMAIN Front(s) = 1 .. Len(s) - 1 /\ DOMAIN s = 1 .. Len(s)
    BY <1>2
  <2>2. ASSUME NEW i \in 1 .. Len(s) - 1 PROVE s[i] \in ToSet(s) \ {Last(s)}
    BY <1>1, <2>1, <2>2 DEF ToSet, IsInjective
  <2>3. ASSUME NEW i \in 1 .. Len(s), s[i] # Last(s) PROVE s[i] \in ToSet(Front(s))
    BY <1>1, <1>2, <2>1, <2>3 DEF ToSet
  <2>4. ToSet(s) = {s[i] : i \in 1 .. Len(s)}
        /\ ToSet(Front(s)) = {s[i] : i \in 1 .. Len(s) - 1}
    BY <1>2, <2>1 DEF ToSet
  <2> QED
    BY <2>2, <2>3, <2>4
<1>5. Last(s) \in S /\ Last(s) \in ToSet(s)
  BY <1>1 DEF ToSet
<1> QED
  BY <1>2, <1>3, <1>4, <1>5

----------------------------------------------------------------------------
(* Tasks.  A sub-task has the negative of its parent's number.             *)

LEMMA Kinds ==
  /\ None \notin Tasks
  /\ \A r \in Forking : r \in Roots /\ Child(r) \in Tasks /\ Child(r) \notin Roots
                        /\ -Child(r) = r /\ Child(r) # r
  /\ \A t \in Tasks : t \notin Roots => -t \in Forking /\ Child(-t) = t
  /\ Roots \subseteq Tasks
  BY RootsPos, ForkingRoots DEF None, Tasks, Child

LEMMA RootPending ==
  ASSUME NEW r \in Roots
  PROVE  Pending(r) <=> stage[r] # "done" /\ spc[r] \in {"post", "accepted"}
  BY DEF Pending

LEMMA ChildPending ==
  ASSUME NEW r \in Forking
  PROVE  Pending(Child(r)) <=> stage[Child(r)] # "done" /\ stage[r] = "forked"
  BY Kinds DEF Pending

LEMMA RootPendingNext ==
  ASSUME NEW r \in Roots
  PROVE  Pending(r)' <=> stage'[r] # "done" /\ spc'[r] \in {"post", "accepted"}
  BY DEF Pending

LEMMA ChildPendingNext ==
  ASSUME NEW r \in Forking
  PROVE  Pending(Child(r))' <=> stage'[Child(r)] # "done" /\ stage'[r] = "forked"
  BY Kinds DEF Pending

LEMMA InitPlacesInv == Init => PlacesInv
<1> SUFFICES ASSUME Init PROVE PlacesInv
  OBVIOUS
<1>1. \A w \in Workers : wsq[w] = <<>> /\ active[w] = None /\ wpc[w] = "loop"
  BY DEF Init
<1>2. ToSet(<<>>) = {} /\ IsInjective(<<>>)
  BY DEF ToSet, IsInjective
<1>3. Typed
  <2>1. queue \in Seq(Roots)
    BY DEF Init
  <2>2. wsq \in [Workers -> Seq(Tasks)] /\ scan \in [Workers -> Seq(Workers)]
    BY DEF Init
  <2>3. wpc \in [Workers -> {"loop"}] /\ active \in [Workers -> {None}]
    BY DEF Init
  <2>4. /\ stage \in [Tasks -> {"new"}] /\ spc \in [Roots -> {"idle"}]
        /\ cpc \in [AllClosers -> {"idle"}]
    BY DEF Init, AllClosers
  <2> QED
    BY <2>1, <2>2, <2>3, <2>4 DEF Init, Typed
<1>4. Working /\ Stages
  BY <1>1 DEF Init, Working, Stages, Child, Tasks
<1>5. Distinct
  BY <1>1, <1>2 DEF Init, Distinct
<1>6. ASSUME NEW t \in Tasks PROVE ~ Placed(t) /\ ~ Pending(t)
  <2>1. ~ Placed(t)
    BY <1>1, <1>2, Kinds DEF Init, Placed
  <2>2. t \in Roots => ~ Pending(t)
    BY RootPending DEF Init
  <2>3. t \notin Roots => stage[-t] = "new"
    BY Kinds DEF Init
  <2>4. t \notin Roots => ~ Pending(t)
    BY <2>3 DEF Pending
  <2> QED
    BY <2>1, <2>2, <2>4
<1> QED
  BY <1>3, <1>4, <1>5, <1>6 DEF PlacesInv, PlacedArePending

----------------------------------------------------------------------------
(* The places of the tasks through every step.                             *)

\* Steps that move no task.
LEMMA NobodyMoves ==
  ASSUME PlacesInv, UNCHANGED <<queue, wsq, active, stage>>, Typed', Working', Stages',
         \A r \in Roots :
           spc'[r] \in {"post", "accepted"} <=> spc[r] \in {"post", "accepted"}
  PROVE  PlacesInv'
<1>1. Distinct'
  BY DEF PlacesInv, Distinct
<1>2. \A t \in Tasks : Placed(t)' <=> Placed(t)
  BY DEF Placed
<1>3. \A t \in Tasks : Pending(t)' <=> Pending(t)
  BY DEF Pending
<1> QED
  BY <1>1, <1>2, <1>3 DEF PlacesInv, PlacedArePending

\* Steps of threads that submit.
LEMMA SubmitPlaces ==
  ASSUME PlacesInv, NEW r \in Roots, Submit(r)
  PROVE  PlacesInv'
<1> USE DEF PlacesInv, Typed, Working, Stages, SubmitAt
<1>1. CASE SubmitCheck(r)
  BY <1>1, NobodyMoves DEF SubmitCheck, queueVars, semVars, workerVars, closeVars
<1>2. CASE PutCheck(r)
  BY <1>2, NobodyMoves DEF PutCheck, queueVars, semVars, workerVars, closeVars
<1>3. CASE PutPost(r)
  BY <1>3, NobodyMoves DEF PutPost, SemPost, queueVars, semVars, workerVars, closeVars
<1>4. CASE PutLink(r)
  <2> USE DEF PutLink, queueVars, semVars, workerVars, closeVars
  <2>1. ~ Pending(r) /\ ~ Placed(r)
    BY <1>4, RootPending, Kinds DEF PlacedArePending
  <2>2. /\ queue' \in Seq(Roots) /\ IsInjective(queue')
        /\ ToSet(queue') = ToSet(queue) \cup {r}
    BY <1>4, <2>1, AppendElement DEF Placed, Distinct
  <2>3. Typed' /\ Working' /\ Stages'
    BY <1>4, <2>2
  <2>4. Distinct' /\ \A t \in Tasks : Placed(t)' <=> Placed(t) \/ t = r
    <3>1. UNCHANGED <<wsq, active>>
      BY <1>4
    <3>2. \A w \in Workers : active[w] # r /\ r \notin ToSet(wsq[w])
      BY <2>1 DEF Placed
    <3> HIDE DEF PlacesInv, Typed, Working, Stages, PutLink, queueVars, semVars,
                 workerVars, closeVars
    <3>3. Distinct'
      BY <2>2, <3>1, <3>2 DEF Distinct, PlacesInv
    <3>4. \A t \in Tasks : Placed(t)' <=> Placed(t) \/ t = r
      BY <2>2, <3>1 DEF Placed
    <3> QED
      BY <3>3, <3>4
  <2>5. UNCHANGED stage /\ \A t \in Roots \ {r} : spc'[t] = spc[t]
    BY <1>4 DEF SubmitAt
  <2>6. Pending(r)'
    BY <1>4, RootPendingNext, Kinds
  <2>7. ASSUME NEW t \in Tasks, t # r PROVE Pending(t)' <=> Pending(t)
    <3> HIDE DEF PlacesInv, Typed, Working, Stages, PutLink, queueVars, semVars,
                 workerVars, closeVars
    <3>1. CASE t \in Roots
      BY <2>5, <2>7, <3>1, RootPending, RootPendingNext
    <3>2. CASE t \notin Roots
      BY <2>5, <3>2 DEF Pending
    <3> QED
      BY <3>1, <3>2
  <2>8. PlacedArePending'
    <3>1. PlacedArePending
      OBVIOUS
    <3> HIDE DEF PlacesInv, Typed, Working, Stages, PutLink, queueVars, semVars,
                 workerVars, closeVars
    <3> QED
      BY <2>4, <2>6, <2>7, <3>1 DEF PlacedArePending
  <2> QED
    BY <2>3, <2>4, <2>8
<1> QED
  BY <1>1, <1>2, <1>3, <1>4 DEF Submit

\* Steps of closers: they have nothing to do with the tasks.
CloserLabels == {"idle", "queue", "sem", "load", "post", "flag", "join",
                 "joined", "returned", "threw"}

LEMMA CloserLeaves ==
  ASSUME NEW c \in AllClosers, Close(c)
  PROVE  UNCHANGED <<queue, wsq, wpc, active, scan, stage, spc>>
<1> USE DEF queueVars, workerVars
<1>1. CASE CloseBegin(c)
  BY <1>1 DEF CloseBegin
<1>2. CASE CloseQueue(c) \/ CloseSem(c) \/ CloseLoad(c)
  BY <1>2 DEF CloseQueue, CloseSem, CloseLoad
<1>3. CASE ClosePost(c)
  BY <1>3 DEF ClosePost
<1>4. CASE CloseFlag(c) \/ CloseJoin(c)
  BY <1>4 DEF CloseFlag, CloseJoin
<1> QED
  BY <1>1, <1>2, <1>3, <1>4 DEF Close

\* What a step of closer c does to the flags and to its own place.  Once it has closed
\* the pool nothing is taken back.
LEMMA CloserFlags ==
  ASSUME NEW c \in AllClosers, Close(c)
  PROVE  \/ /\ cpc[c] = "idle" /\ UNCHANGED <<queueActive, shtdwn, shtdwnNow>>
            /\ \/ /\ closed /\ cpc' = [cpc EXCEPT ![c] = "returned"]
                  /\ UNCHANGED closed
               \/ /\ ~ closed /\ closed' = TRUE /\ cpc' = [cpc EXCEPT ![c] = "queue"]
         \/ /\ cpc[c] \in {"queue", "sem", "load", "post", "flag", "join"}
            /\ UNCHANGED closed
            /\ queueActive' \in {queueActive, FALSE}
            /\ shtdwn' \in {shtdwn, TRUE} /\ shtdwnNow' \in {shtdwnNow, TRUE}
            /\ \E l \in CloserLabels \ {"idle", "returned"} : cpc' = [cpc EXCEPT ![c] = l]
<1> USE DEF CloserAt, queueVars
<1>1. CASE CloseBegin(c)
  BY <1>1 DEF CloseBegin
<1>2. CASE CloseQueue(c)
  BY <1>2 DEF CloseQueue, CloserLabels
<1>3. CASE CloseSem(c)
  BY <1>3 DEF CloseSem, CloserLabels
<1>4. CASE CloseLoad(c)
  BY <1>4 DEF CloseLoad, CloserLabels
<1>5. CASE ClosePost(c)
  BY <1>5 DEF ClosePost, CloserLabels
<1>6. CASE CloseFlag(c)
  BY <1>6 DEF CloseFlag, CloserLabels
<1>7. CASE CloseJoin(c)
  BY <1>7 DEF CloseJoin, CloserLabels
<1> QED
  BY <1>1, <1>2, <1>3, <1>4, <1>5, <1>6, <1>7 DEF Close

LEMMA ClosePlaces ==
  ASSUME PlacesInv, NEW c \in AllClosers, Close(c)
  PROVE  PlacesInv'
<1>1. UNCHANGED <<queue, wsq, wpc, active, scan, stage, spc>>
  BY CloserLeaves
<1>2. /\ closed' \in BOOLEAN /\ shtdwn' \in BOOLEAN /\ shtdwnNow' \in BOOLEAN
      /\ queueActive' \in BOOLEAN
  BY CloserFlags DEF PlacesInv, Typed
<1>3. cpc' \in [AllClosers -> CloserLabels]
  <2>1. \E l \in CloserLabels : cpc' = [cpc EXCEPT ![c] = l]
    BY CloserFlags DEF CloserLabels
  <2> QED
    BY <2>1 DEF PlacesInv, Typed, CloserLabels
<1>4. Typed'
  BY <1>1, <1>2, <1>3 DEF PlacesInv, Typed, CloserLabels
<1>5. Working' /\ Stages'
  BY <1>1 DEF PlacesInv, Working, Stages
<1> QED
  BY <1>1, <1>4, <1>5, NobodyMoves

LEMMA PlacesHoldTasks ==
  ASSUME Typed
  PROVE  /\ ToSet(queue) \subseteq Roots /\ None \notin ToSet(queue)
         /\ \A w \in Workers : ToSet(wsq[w]) \subseteq Tasks /\ None \notin ToSet(wsq[w])
<1>1. ToSet(queue) \subseteq Roots
  BY ElementsOf DEF Typed
<1>2. ASSUME NEW w \in Workers PROVE ToSet(wsq[w]) \subseteq Tasks
  BY ElementsOf DEF Typed
<1> QED
  BY <1>1, <1>2, Kinds

\* A task leaves the queue or a deque for a worker.
LEMMA TaskTaken ==
  ASSUME PlacesInv, NEW w \in Workers, NEW t \in Tasks, Placed(t), active[w] = None,
         \A v \in Workers : active[v] # t,
         active' = [active EXCEPT ![w] = t], UNCHANGED <<stage, spc>>,
         Typed', Working',
         IsInjective(queue'), ToSet(queue') = ToSet(queue) \ {t},
         \A v \in Workers : IsInjective(wsq'[v]) /\ ToSet(wsq'[v]) = ToSet(wsq[v]) \ {t}
  PROVE  PlacesInv'
<1> USE DEF PlacesInv, Typed
<1>1. Stages'
  BY DEF Stages
<1>2. Distinct'
  <2>1. /\ Distinct /\ t # None
        /\ \A v \in Workers : active'[v] = IF v = w THEN t ELSE active[v]
    BY Kinds
  <2> HIDE DEF PlacesInv, Typed
  <2> QED
    BY <2>1 DEF Distinct
<1>3. \A u \in Tasks : Placed(u)' <=> Placed(u)
  <2>1. \A v \in Workers : active'[v] = IF v = w THEN t ELSE active[v]
    OBVIOUS
  <2> HIDE DEF PlacesInv, Typed
  <2>2. Placed(t)'
    BY <2>1 DEF Placed
  <2>3. ASSUME NEW u \in Tasks, u # t PROVE Placed(u)' <=> Placed(u)
    <3>1. \A v \in Workers : active'[v] = u <=> active[v] = u
      BY <2>1, <2>3, Kinds
    <3> QED
      BY <2>3, <3>1 DEF Placed
  <2> QED
    BY <2>2, <2>3
<1>4. \A u \in Tasks : Pending(u)' <=> Pending(u)
  BY DEF Pending
<1> QED
  BY <1>1, <1>2, <1>3, <1>4 DEF PlacedArePending

\* A task ends.
LEMMA TaskDone ==
  ASSUME PlacesInv, NEW w \in Workers, wpc[w] = "run", Complete(w),
         active[w] \in Forking => stage[Child(active[w])] = "done"
  PROVE  PlacesInv'
<1> USE DEF PlacesInv, Typed, Complete, WorkerAt, queueVars, semVars, closeVars
<1> SUFFICES ASSUME NEW t, t = active[w] PROVE PlacesInv'
  OBVIOUS
<1>1. t \in Tasks /\ t # None /\ Placed(t) /\ Pending(t)
  BY DEF Working, Placed, PlacedArePending
<1>2. Typed' /\ Working'
  BY <1>1 DEF Working
<1>3. Stages'
  <2>1. t \in Roots => spc[t] \in {"post", "accepted"}
    BY <1>1, RootPending
  <2>2. \A r \in Forking : t = Child(r) => stage[r] = "forked"
    BY <1>1, ChildPending
  <2> QED
    BY <1>1, <2>1, <2>2, Kinds DEF Stages
<1>4. Distinct'
  BY PlacesHoldTasks DEF Distinct
<1>5. ASSUME NEW u \in Tasks, u # t PROVE Placed(u)' <=> Placed(u)
  <2>1. /\ UNCHANGED <<queue, wsq>>
        /\ \A v \in Workers : active'[v] = IF v = w THEN None ELSE active[v]
    OBVIOUS
  <2> HIDE DEF PlacesInv, Typed, Complete, WorkerAt, queueVars, semVars, closeVars
  <2>2. \A v \in Workers : active'[v] = u <=> active[v] = u
    BY <1>5, <2>1, Kinds
  <2> QED
    BY <2>1, <2>2 DEF Placed
<1>6. ~ Placed(t)'
  <2>1. /\ UNCHANGED <<queue, wsq>>
        /\ \A v \in Workers : active'[v] = IF v = w THEN None ELSE active[v]
    OBVIOUS
  <2>2. Distinct
    OBVIOUS
  <2> HIDE DEF PlacesInv, Typed, Complete, WorkerAt, queueVars, semVars, closeVars
  <2>3. \A v \in Workers : active'[v] # t
    BY <1>1, <2>1, <2>2 DEF Distinct
  <2>4. t \notin ToSet(queue) /\ \A v \in Workers : t \notin ToSet(wsq[v])
    BY <1>1, <2>2 DEF Distinct
  <2> QED
    BY <2>1, <2>3, <2>4 DEF Placed
<1>7. ~ Pending(t)'
  BY <1>1 DEF Pending
<1>8. ASSUME NEW u \in Tasks, u # t PROVE Pending(u)' <=> Pending(u)
  <2>1. CASE u \in Roots
    BY <1>1, <1>8, <2>1 DEF Pending
  <2>2. CASE u \notin Roots
    BY <1>1, <1>8, <2>2, Kinds DEF Pending
  <2> QED
    BY <2>1, <2>2
<1>9. PlacedArePending'
  <2>1. PlacedArePending
    OBVIOUS
  <2> HIDE DEF PlacesInv, Typed, Complete, WorkerAt, queueVars, semVars, closeVars
  <2> QED
    BY <1>5, <1>6, <1>7, <1>8, <2>1 DEF PlacedArePending
<1> QED
  BY <1>2, <1>3, <1>4, <1>9

LEMMA ForkPlaces ==
  ASSUME PlacesInv, NEW w \in Workers, Fork(w)
  PROVE  PlacesInv'
<1> USE DEF PlacesInv, Typed, Fork, WorkerAt, queueVars, semVars, closeVars
<1> SUFFICES ASSUME NEW r, r = active[w], NEW k, k = Child(r) PROVE PlacesInv'
  OBVIOUS
<1>1. r \in Forking /\ r \in Roots /\ k \in Tasks /\ k \notin Roots /\ -k = r
  BY Kinds
<1>2. Placed(r) /\ Pending(r) /\ spc[r] \in {"post", "accepted"}
  BY <1>1, RootPending, Kinds DEF Placed, PlacedArePending
<1>3. stage[k] = "new" /\ ~ Pending(k) /\ ~ Placed(k)
  BY <1>1, ChildPending DEF Stages, PlacedArePending
<1>4. /\ \A v \in Workers : wsq'[v] = IF v = w THEN Append(wsq[v], k) ELSE wsq[v]
      /\ wsq' = [wsq EXCEPT ![w] = Append(wsq[w], k)]
  OBVIOUS
<1>5. /\ wsq'[w] \in Seq(Tasks) /\ IsInjective(wsq'[w])
      /\ ToSet(wsq'[w]) = ToSet(wsq[w]) \cup {k}
  BY <1>1, <1>3, <1>4, AppendElement DEF Placed, Distinct
<1>6. Typed' /\ Working'
  BY <1>1, <1>4, <1>5, Kinds DEF Working
<1>7. Stages'
  BY <1>1, <1>2, Kinds DEF Stages
<1>8. Distinct' /\ \A u \in Tasks : Placed(u)' <=> Placed(u) \/ u = k
  <2>1. /\ Distinct /\ UNCHANGED <<queue, active>>
        /\ \A v \in Workers : v # w => wsq'[v] = wsq[v]
    BY <1>4
  <2>2. k \notin ToSet(queue) /\ \A v \in Workers : active[v] # k /\ k \notin ToSet(wsq[v])
    BY <1>3 DEF Placed
  <2> HIDE DEF PlacesInv, Typed, Fork, WorkerAt, queueVars, semVars, closeVars
  <2>3. \A v \in Workers : IsInjective(wsq'[v]) /\ ToSet(wsq'[v]) \cap ToSet(queue') = {}
    BY <1>5, <2>1, <2>2 DEF Distinct
  <2>4. ASSUME NEW u \in Workers, NEW v \in Workers
        PROVE  /\ active'[u] \notin ToSet(wsq'[v])
               /\ u # v => ToSet(wsq'[u]) \cap ToSet(wsq'[v]) = {}
    BY <1>5, <2>1, <2>2 DEF Distinct
  <2>5. Distinct'
    BY <2>1, <2>3, <2>4 DEF Distinct
  <2>6. \A u \in Tasks : Placed(u)' <=> Placed(u) \/ u = k
    BY <1>5, <2>1 DEF Placed
  <2> QED
    BY <2>5, <2>6
<1>9. Pending(k)'
  <2>1. stage'[k] = "new" /\ stage'[r] = "forked"
    BY <1>1, <1>3, Kinds
  <2> QED
    BY <1>1, <2>1, ChildPendingNext
<1>10. ASSUME NEW u \in Tasks, u # k PROVE Pending(u)' <=> Pending(u)
  <2>1. CASE u \in Roots
    BY <1>1, <2>1, Kinds DEF Pending
  <2>2. CASE u \notin Roots
    BY <1>1, <1>10, <2>2, Kinds DEF Pending
  <2> QED
    BY <2>1, <2>2
<1>11. PlacedArePending'
  <2>1. PlacedArePending
    OBVIOUS
  <2> HIDE DEF PlacesInv, Typed, Fork, WorkerAt, queueVars, semVars, closeVars
  <2> QED
    BY <1>1, <1>8, <1>9, <1>10, <2>1 DEF PlacedArePending
<1> QED
  BY <1>6, <1>7, <1>8, <1>11

LEMMA YieldPlaces ==
  ASSUME PlacesInv, NEW w \in Workers, Yield(w)
  PROVE  PlacesInv'
<1> USE DEF PlacesInv, Typed, Yield, WorkerAt, queueVars, semVars, closeVars
<1> DEFINE r == active[w]
<1>1. r \in Forking /\ r \in Tasks /\ r # None
  BY Kinds
<1>2. \A v \in Workers : wsq'[v] = IF v = w THEN Append(wsq[v], r) ELSE wsq[v]
  OBVIOUS
<1>3. /\ wsq'[w] \in Seq(Tasks) /\ IsInjective(wsq'[w])
      /\ ToSet(wsq'[w]) = ToSet(wsq[w]) \cup {r}
  BY <1>1, <1>2, AppendElement DEF Distinct
<1>4. Typed' /\ Working' /\ Stages'
  BY <1>2, <1>3 DEF Working, Stages
<1>5. Distinct' /\ \A u \in Tasks : Placed(u)' <=> Placed(u)
  <2>1. /\ Distinct /\ queue' = queue
        /\ \A v \in Workers : v # w => wsq'[v] = wsq[v]
        /\ \A v \in Workers : active'[v] = IF v = w THEN None ELSE active[v]
    BY <1>2
  <2>2. None \notin ToSet(queue) /\ \A v \in Workers : None \notin ToSet(wsq[v])
    BY PlacesHoldTasks
  <2>3. \A v \in Workers : r \notin ToSet(wsq[v]) /\ (active[v] = r => v = w)
    BY <1>1, <2>1 DEF Distinct
  <2>4. r \notin ToSet(queue) /\ active[w] = r
    BY <2>1 DEF Distinct
  <2> HIDE DEF PlacesInv, Typed, Yield, WorkerAt, queueVars, semVars, closeVars, r
  <2>5. ASSUME NEW v \in Workers
        PROVE  /\ IsInjective(wsq'[v]) /\ ToSet(wsq'[v]) \cap ToSet(queue') = {}
               /\ active'[v] \notin ToSet(queue')
    BY <1>3, <2>1, <2>2, <2>4 DEF Distinct
  <2>6. ASSUME NEW u \in Workers, NEW v \in Workers
        PROVE  /\ active'[u] \notin ToSet(wsq'[v])
               /\ u # v => ToSet(wsq'[u]) \cap ToSet(wsq'[v]) = {}
               /\ active'[u] = active'[v] => u = v \/ active'[u] = None
    <3>1. active'[u] \notin ToSet(wsq'[v])
      BY <1>1, <1>3, <2>1, <2>2, <2>3 DEF Distinct
    <3>2. u # v => ToSet(wsq'[u]) \cap ToSet(wsq'[v]) = {}
      BY <1>3, <2>1, <2>3 DEF Distinct
    <3>3. active'[u] = active'[v] => u = v \/ active'[u] = None
      BY <2>1 DEF Distinct
    <3> QED
      BY <3>1, <3>2, <3>3
  <2>7. Distinct'
    <3>1. IsInjective(queue')
      BY <2>1 DEF Distinct
    <3> QED
      BY <2>5, <2>6, <3>1 DEF Distinct
  <2>8. ASSUME NEW u \in Tasks PROVE Placed(u)' <=> Placed(u)
    <3>1. CASE u = r
      BY <1>3, <2>4, <3>1 DEF Placed
    <3>2. CASE u # r
      <4>1. \A v \in Workers : active'[v] = u <=> active[v] = u
        BY <2>1, <2>4, <3>2, Kinds
      <4>2. \A v \in Workers : u \in ToSet(wsq'[v]) <=> u \in ToSet(wsq[v])
        BY <1>3, <2>1, <3>2
      <4> QED
        BY <2>1, <4>1, <4>2 DEF Placed
    <3> QED
      BY <3>1, <3>2
  <2> QED
    BY <2>7, <2>8
<1>6. \A u \in Tasks : Pending(u)' <=> Pending(u)
  BY DEF Pending
<1> QED
  BY <1>4, <1>5, <1>6 DEF PlacedArePending

LEMMA TakePlaces ==
  ASSUME PlacesInv, NEW w \in Workers, TakeLocal(w) \/ TakeGlobal(w) \/ StealHit(w)
  PROVE  PlacesInv'
<1> USE DEF PlacesInv, Typed, WorkerAt, Take, queueVars, semVars, closeVars
<1>1. CASE TakeLocal(w)
  <2> USE DEF TakeLocal
  <2>1. CASE wsq[w] = <<>>
    <3>1. UNCHANGED <<queue, wsq, active, stage, spc, scan>> /\ wpc' = [wpc EXCEPT ![w] = "global"]
      BY <1>1, <2>1
    <3>2. Typed'
      BY <1>1, <3>1
    <3>3. Working' /\ Stages'
      BY <1>1, <3>1 DEF Working, Stages
    <3> QED
      BY <3>1, <3>2, <3>3, NobodyMoves
  <2>2. CASE wsq[w] # <<>>
    <3> SUFFICES ASSUME NEW t, t = Last(wsq[w]) PROVE PlacesInv'
      OBVIOUS
    <3>1. /\ t \in Tasks /\ t \in ToSet(wsq[w]) /\ Front(wsq[w]) \in Seq(Tasks)
          /\ ToSet(Front(wsq[w])) = ToSet(wsq[w]) \ {t} /\ IsInjective(Front(wsq[w]))
      BY <2>2, FrontElements DEF Distinct
    <3>2. \A v \in Workers : wsq'[v] = IF v = w THEN Front(wsq[w]) ELSE wsq[v]
      BY <1>1, <2>2
    <3>3. Typed' /\ Working' /\ active[w] = None
      <4>1. active[w] = None
        BY <1>1 DEF Working
      <4>2. wsq' \in [Workers -> Seq(Tasks)] /\ active' \in [Workers -> Tasks \cup {None}]
        <5>1. wsq' = [wsq EXCEPT ![w] = Front(wsq[w])] /\ active' = [active EXCEPT ![w] = t]
          BY <1>1, <2>2
        <5>2. wsq' \in [Workers -> Seq(Tasks)]
          BY <3>1, <5>1
        <5>3. active' \in [Workers -> Tasks \cup {None}]
          BY <3>1, <5>1
        <5> QED
          BY <5>2, <5>3
      <4>3. Typed'
        BY <1>1, <2>2, <4>2
      <4>4. t # None /\ active' = [active EXCEPT ![w] = t]
            /\ wpc' = [wpc EXCEPT ![w] = "run"] /\ scan' = scan
        BY <1>1, <2>2, <3>1, Kinds
      <4>5. Working'
        BY <4>4 DEF Working
      <4> QED
        BY <4>1, <4>3, <4>5
    <3>4. Placed(t) /\ \A v \in Workers : active[v] # t
      BY <3>1 DEF Placed, Distinct
    <3>5. IsInjective(queue') /\ ToSet(queue') = ToSet(queue) \ {t}
      BY <1>1, <3>1 DEF Distinct
    <3>6. \A v \in Workers : IsInjective(wsq'[v]) /\ ToSet(wsq'[v]) = ToSet(wsq[v]) \ {t}
      BY <3>1, <3>2 DEF Distinct
    <3> QED
      BY <1>1, <2>2, <3>1, <3>3, <3>4, <3>5, <3>6, TaskTaken
  <2> QED
    BY <2>1, <2>2
<1>2. CASE TakeGlobal(w)
  <2> USE DEF TakeGlobal
  <2>1. CASE queue = <<>>
    <3>1. UNCHANGED <<queue, wsq, active, stage, spc, scan>> /\ wpc' = [wpc EXCEPT ![w] = "pick"]
      BY <1>2, <2>1
    <3>2. Typed'
      BY <1>2, <3>1
    <3>3. Working' /\ Stages'
      BY <1>2, <3>1 DEF Working, Stages
    <3> QED
      BY <3>1, <3>2, <3>3, NobodyMoves
  <2>2. CASE queue # <<>>
    <3> SUFFICES ASSUME NEW t, t = Head(queue) PROVE PlacesInv'
      OBVIOUS
    <3>1. /\ t \in Roots /\ t \in ToSet(queue) /\ Tail(queue) \in Seq(Roots)
          /\ ToSet(Tail(queue)) = ToSet(queue) \ {t} /\ IsInjective(Tail(queue))
      BY <2>2, TailElements DEF Distinct
    <3>2. Typed' /\ Working' /\ active[w] = None
      <4>1. active[w] = None
        BY <1>2 DEF Working
      <4>2. queue' \in Seq(Roots) /\ active' \in [Workers -> Tasks \cup {None}]
        <5>1. t \in Tasks /\ active' = [active EXCEPT ![w] = t] /\ queue' = Tail(queue)
          BY <1>2, <2>2, <3>1, Kinds
        <5> QED
          BY <3>1, <5>1
      <4>3. Typed'
        BY <1>2, <2>2, <4>2
      <4>4. t # None
        BY <3>1, Kinds
      <4>5. active' = [active EXCEPT ![w] = t] /\ wpc' = [wpc EXCEPT ![w] = "run"]
            /\ scan' = scan
        BY <1>2, <2>2
      <4>6. Working'
        BY <4>4, <4>5 DEF Working
      <4> QED
        BY <4>1, <4>3, <4>6
    <3>3. Placed(t) /\ \A v \in Workers : active[v] # t
      BY <3>1 DEF Placed, Distinct
    <3>4. \A v \in Workers : IsInjective(wsq'[v]) /\ ToSet(wsq'[v]) = ToSet(wsq[v]) \ {t}
      BY <1>2, <3>1 DEF Distinct
    <3>5. IsInjective(queue') /\ ToSet(queue') = ToSet(queue) \ {t}
      BY <1>2, <2>2, <3>1
    <3> QED
      BY <1>2, <2>2, <3>1, <3>2, <3>3, <3>4, <3>5, Kinds, TaskTaken
  <2> QED
    BY <2>1, <2>2
<1>3. CASE StealHit(w)
  <2> USE DEF StealHit
  <2> SUFFICES ASSUME NEW v, v = Last(scan[w]) PROVE PlacesInv'
    OBVIOUS
  <2>1. v \in Workers
    BY <1>3 DEF Working, Last
  <2> SUFFICES ASSUME NEW t, t = Head(wsq[v]) PROVE PlacesInv'
    OBVIOUS
  <2>2. /\ t \in Tasks /\ t \in ToSet(wsq[v]) /\ Tail(wsq[v]) \in Seq(Tasks)
        /\ ToSet(Tail(wsq[v])) = ToSet(wsq[v]) \ {t} /\ IsInjective(Tail(wsq[v]))
    BY <1>3, <2>1, TailElements DEF Distinct
  <2>3. \A u \in Workers : wsq'[u] = IF u = v THEN Tail(wsq[v]) ELSE wsq[u]
    BY <1>3
  <2>4. Typed' /\ Working' /\ active[w] = None
    <3>1. active[w] = None
      BY <1>3 DEF Working
    <3>2. wsq' \in [Workers -> Seq(Tasks)] /\ active' \in [Workers -> Tasks \cup {None}]
      BY <1>3, <2>2
    <3>3. scan' \in [Workers -> Seq(Workers)]
      BY <1>3
    <3>4. Typed'
      BY <1>3, <3>2, <3>3
    <3>5. Working'
      BY <1>3, <2>2, Kinds DEF Working
    <3> QED
      BY <3>1, <3>4, <3>5
  <2>5. Placed(t) /\ \A u \in Workers : active[u] # t
    BY <2>1, <2>2 DEF Placed, Distinct
  <2>6. IsInjective(queue') /\ ToSet(queue') = ToSet(queue) \ {t}
    BY <1>3, <2>1, <2>2 DEF Distinct
  <2>7. \A u \in Workers : IsInjective(wsq'[u]) /\ ToSet(wsq'[u]) = ToSet(wsq[u]) \ {t}
    <3>1. ASSUME NEW u \in Workers, u # v PROVE t \notin ToSet(wsq[u])
      BY <2>1, <2>2, <3>1 DEF Distinct
    <3>2. \A u \in Workers : IsInjective(wsq[u])
      BY DEF Distinct
    <3> HIDE DEF PlacesInv, Typed, WorkerAt, Take, StealHit, queueVars, semVars, closeVars
    <3> QED
      BY <2>1, <2>2, <2>3, <3>1, <3>2
  <2>8. active' = [active EXCEPT ![w] = t] /\ UNCHANGED <<stage, spc>>
    BY <1>3
  <2> HIDE DEF PlacesInv, Typed, WorkerAt, Take, StealHit, queueVars, semVars, closeVars
  <2> QED
    BY <2>2, <2>4, <2>5, <2>6, <2>7, <2>8, TaskTaken
<1> QED
  BY <1>1, <1>2, <1>3

\* The next victim is a worker.
LEMMA NextVictim ==
  ASSUME NEW s \in Seq(Workers), s # <<>>
  PROVE  /\ Append(s, (Last(s) + 1) % PoolSize) \in Seq(Workers)
         /\ Append(s, (Last(s) + 1) % PoolSize) # <<>>
<1>1. Last(s) \in Workers
  BY DEF Last
<1>2. ASSUME NEW v \in Workers PROVE (v + 1) % PoolSize \in Workers
  BY PoolSizePos DEF Workers
<1>3. ASSUME NEW v \in Workers PROVE Append(s, v) \in Seq(Workers) /\ Append(s, v) # <<>>
  OBVIOUS
<1> QED
  BY <1>1, <1>2, <1>3

LEMMA WorkerPlaces ==
  ASSUME PlacesInv, NEW w \in Workers, Worker(w)
  PROVE  PlacesInv'
<1> USE DEF PlacesInv, Typed, Working, Stages, WorkerAt, queueVars, semVars, closeVars
<1>1. CASE Loop(w)
  <2>1. Typed' /\ Working' /\ Stages'
    BY <1>1 DEF Loop
  <2>2. UNCHANGED <<queue, wsq, active, stage, spc>>
    BY <1>1 DEF Loop
  <2> QED
    BY <2>1, <2>2, NobodyMoves
<1>2. CASE TakeLocal(w) \/ TakeGlobal(w) \/ StealHit(w)
  BY <1>2, TakePlaces
<1>3. ASSUME NEW v \in Workers, PickVictim(w, v) PROVE PlacesInv'
  <2>1. <<v>> \in Seq(Workers) /\ <<v>> # <<>>
    OBVIOUS
  <2>2. scan' = [scan EXCEPT ![w] = <<v>>] /\ wpc' = [wpc EXCEPT ![w] = "steal"]
        /\ UNCHANGED <<queue, wsq, active, stage, spc>> /\ wpc[w] = "pick"
    BY <1>3 DEF PickVictim
  <2>3. Typed'
    BY <1>3, <2>1, <2>2 DEF PickVictim
  <2>4. Working' /\ Stages'
    BY <2>1, <2>2
  <2> QED
    BY <2>2, <2>3, <2>4, NobodyMoves
<1>4. CASE StealMiss(w)
  <2>1. /\ scan' = [scan EXCEPT ![w] = Append(scan[w], (Last(scan[w]) + 1) % PoolSize)]
        /\ scan[w] \in Seq(Workers) /\ scan[w] # <<>>
        /\ UNCHANGED <<queue, queueActive, wsq, wpc, active, stage, closed, shtdwn,
                       shtdwnNow, cpc, spc>>
    BY <1>4 DEF StealMiss
  <2>2. scan'[w] \in Seq(Workers) /\ scan'[w] # <<>>
    BY <2>1, NextVictim
  <2>3. scan' \in [Workers -> Seq(Workers)]
    BY <2>1, <2>2
  <2>4. Typed'
    BY <2>1, <2>3
  <2>5. Working' /\ Stages'
    BY <2>1, <2>2
  <2> QED
    BY <2>1, <2>4, <2>5, NobodyMoves
<1>5. CASE StealSelf(w)
  <2>1. <<>> \in Seq(Workers)
    OBVIOUS
  <2>2. scan' \in [Workers -> Seq(Workers)] /\ UNCHANGED <<queue, wsq, active, stage, spc>>
    BY <1>5, <2>1 DEF StealSelf
  <2>3. Typed' /\ Working' /\ Stages'
    BY <1>5, <2>2 DEF StealSelf
  <2> QED
    BY <2>2, <2>3, NobodyMoves
<1>6. CASE Wait(w)
  <2>1. CASE WaitCount(w)
    <3>1. Typed' /\ Working' /\ Stages'
      BY <2>1 DEF WaitCount
    <3>2. UNCHANGED <<queue, wsq, active, stage, spc>>
      BY <2>1 DEF WaitCount
    <3> QED
      BY <3>1, <3>2, NobodyMoves
  <2>2. CASE WaitCheck(w)
    <3>1. Typed' /\ Working' /\ Stages'
      BY <2>2 DEF WaitCheck
    <3>2. UNCHANGED <<queue, wsq, active, stage, spc>>
      BY <2>2 DEF WaitCheck
    <3> QED
      BY <3>1, <3>2, NobodyMoves
  <2>3. CASE WaitToken(w)
    <3>1. Typed' /\ Working' /\ Stages'
      BY <2>3 DEF WaitToken
    <3>2. UNCHANGED <<queue, wsq, active, stage, spc>>
      BY <2>3 DEF WaitToken
    <3> QED
      BY <3>1, <3>2, NobodyMoves
  <2> QED
    BY <1>6, <2>1, <2>2, <2>3 DEF Wait
<1>7. CASE Run(w)
  BY <1>7, TaskDone DEF Run
<1>8. CASE Join(w)
  BY <1>8, TaskDone DEF Join
<1>9. CASE Fork(w) \/ Yield(w)
  BY <1>9, ForkPlaces, YieldPlaces
<1>10. CASE WorkerPost(w)
  BY <1>10, NobodyMoves DEF WorkerPost, SemPost
<1> QED
  BY <1>1, <1>2, <1>3, <1>4, <1>5, <1>6, <1>7, <1>8, <1>9, <1>10
     DEF Worker, Search, Execute

LEMMA NextPlacesInv == PlacesInv /\ [Next]_vars => PlacesInv'
<1> SUFFICES ASSUME PlacesInv, [Next]_vars PROVE PlacesInv'
  OBVIOUS
<1>1. CASE UNCHANGED vars
  BY <1>1, NobodyMoves
     DEF vars, queueVars, semVars, workerVars, closeVars, PlacesInv, Typed, Working,
         Stages
<1>2. CASE Next
  BY <1>2, SubmitPlaces, WorkerPlaces, ClosePlaces DEF Next, AllClosers
<1> QED
  BY <1>1, <1>2

\* What the invariant says of the places of one task.
LEMMA PlacesCount ==
  ASSUME PlacesInv, NEW t \in Tasks
  PROVE  Cardinality(Places(t)) = IF Pending(t) THEN 1 ELSE 0
<1> USE DEF PlacesInv
<1>1. ASSUME ~ Pending(t) PROVE Places(t) = {}
  <2>1. ~ Placed(t)
    BY <1>1 DEF PlacedArePending
  <2> QED
    BY <2>1 DEF Places, Placed, ToSet
<1>2. ASSUME Pending(t) PROVE \E p : Places(t) = {p}
  <2>1. Placed(t) /\ t # None
    BY <1>2, Kinds DEF PlacedArePending
  <2>2. CASE t \in ToSet(queue)
    <3>1. PICK i \in DOMAIN queue : queue[i] = t
      BY <2>2 DEF ToSet
    <3>2. \A j \in DOMAIN queue : queue[j] = t => j = i
      BY <3>1 DEF Distinct, IsInjective
    <3>3. \A w \in Workers : active[w] # t /\ \A j \in DOMAIN wsq[w] : wsq[w][j] # t
      BY <2>2 DEF Distinct, ToSet
    <3>4. Places(t) = {<<"queue", i>>}
      BY <3>1, <3>2, <3>3 DEF Places
    <3> QED
      BY <3>4
  <2>3. ASSUME NEW w \in Workers, active[w] = t PROVE \E p : Places(t) = {p}
    <3>1. \A i \in DOMAIN queue : queue[i] # t
      BY <2>3 DEF Distinct, ToSet
    <3>2. \A v \in Workers : \A j \in DOMAIN wsq[v] : wsq[v][j] # t
      BY <2>3 DEF Distinct, ToSet
    <3>3. \A v \in Workers : active[v] = t => v = w
      BY <2>1, <2>3 DEF Distinct
    <3>4. Places(t) = {<<"worker", w>>}
      BY <2>3, <3>1, <3>2, <3>3 DEF Places
    <3> QED
      BY <3>4
  <2>4. ASSUME NEW w \in Workers, t \in ToSet(wsq[w]) PROVE \E p : Places(t) = {p}
    <3>1. PICK i \in DOMAIN wsq[w] : wsq[w][i] = t
      BY <2>4 DEF ToSet
    <3>2. \A j \in DOMAIN queue : queue[j] # t
      BY <2>4 DEF Distinct, ToSet
    <3>3. \A v \in Workers : active[v] # t
      BY <2>4 DEF Distinct
    <3>4. \A j \in DOMAIN wsq[w] : wsq[w][j] = t => j = i
      BY <3>1 DEF Distinct, IsInjective
    <3>5. \A v \in Workers \ {w} : \A j \in DOMAIN wsq[v] : wsq[v][j] # t
      BY <2>4 DEF Distinct, ToSet
    <3>6. Places(t) = {<<"wsq", w, i>>}
      BY <3>1, <3>2, <3>3, <3>4, <3>5 DEF Places
    <3> QED
      BY <3>6
  <2> QED
    BY <2>1, <2>2, <2>3, <2>4 DEF Placed
<1> QED
  BY <1>1, <1>2, FS_EmptySet, FS_Singleton

\* Every task that was accepted or forked and is not done is in one place, whatever
\* the number of workers, tasks and closers and however takes, steals, forks,
\* yields and shutdowns interleave (worker.hpp:80-175, pool_base.hpp:138-206).
THEOREM NoneLostNoneTwice == Spec => []OnePlace
<1>1. PlacesInv => OnePlace
  BY PlacesCount DEF OnePlace
<1> QED
  BY InitPlacesInv, NextPlacesInv, <1>1, PTL DEF Spec

----------------------------------------------------------------------------
(* The rest of the invariant: who shuts the pool down, and what is left    *)
(* when workers leave.                                                     *)

LEMMA InitIInv == Init => IInv
<1> SUFFICES ASSUME Init PROVE IInv
  OBVIOUS
<1>1. ToSet(<<>>) = {}
  BY DEF ToSet
<1>2. ClosedFirst
  BY DEF Init, ClosedFirst, AllClosers
<1>3. LeavesNothing
  BY <1>1 DEF Init, LeavesNothing, AllClosers
<1> QED
  BY <1>2, <1>3, InitPlacesInv DEF IInv

LEMMA NextClosedFirst ==
  ASSUME IInv, [Next]_vars
  PROVE  ClosedFirst'
<1> USE DEF IInv, PlacesInv, Typed, ClosedFirst
<1>1. ASSUME UNCHANGED <<closed, shtdwn, shtdwnNow, queueActive, cpc>> PROVE ClosedFirst'
  BY <1>1
<1>2. CASE UNCHANGED vars
  BY <1>1, <1>2 DEF vars, queueVars, closeVars
<1>3. ASSUME NEW r \in Roots, Submit(r) PROVE ClosedFirst'
  BY <1>1, <1>3
     DEF Submit, SubmitCheck, PutCheck, PutLink, PutPost, queueVars, closeVars
<1>4. ASSUME NEW w \in Workers, Worker(w) PROVE ClosedFirst'
  <2>1. CASE Loop(w) \/ Search(w)
    BY <1>1, <2>1
       DEF Loop, Search, TakeLocal, TakeGlobal, PickVictim, StealHit, StealMiss,
           StealSelf, queueVars, closeVars
  <2>2. CASE Wait(w) \/ Execute(w)
    BY <1>1, <2>2
       DEF Wait, WaitCount, WaitCheck, WaitToken, Execute, Run, Join, Complete, Fork,
           Yield, WorkerPost, queueVars, closeVars
  <2> QED
    BY <1>4, <2>1, <2>2 DEF Worker
<1>5. ASSUME NEW c \in AllClosers, Close(c) PROVE ClosedFirst'
  <2>1. CASE /\ UNCHANGED <<closed, queueActive, shtdwn, shtdwnNow>>
             /\ cpc' = [cpc EXCEPT ![c] = "returned"]
    BY <2>1
  <2>2. CASE /\ ~ closed /\ closed' = TRUE /\ cpc' = [cpc EXCEPT ![c] = "queue"]
    <3>1. \A d \in AllClosers : cpc[d] \in {"idle", "returned"}
      BY <2>2
    <3> QED
      BY <2>2, <3>1
  <2>3. CASE /\ cpc[c] \notin {"idle", "returned"} /\ closed' = closed
             /\ \E l \in CloserLabels \ {"idle", "returned"} : cpc' = [cpc EXCEPT ![c] = l]
    <3>1. closed /\ closed'
      BY <1>5, <2>3
    <3>2. \A d \in AllClosers :
            cpc'[d] \notin {"idle", "returned"} <=> cpc[d] \notin {"idle", "returned"}
      BY <1>5, <2>3
    <3> QED
      BY <3>1, <3>2
  <2> QED
    BY <1>5, <2>1, <2>2, <2>3, CloserFlags
<1> QED
  BY <1>2, <1>3, <1>4, <1>5 DEF Next, AllClosers

\* A step that adds nothing to the queue or to a deque, and lets nobody leave.
LEMMA NothingAdded ==
  ASSUME IInv, queue = <<>> => queue' = <<>>,
         \A w \in Workers : ToSet(wsq'[w]) \subseteq ToSet(wsq[w]),
         \A w \in Workers : wpc'[w] = "exited" <=> wpc[w] = "exited",
         UNCHANGED <<queueActive, shtdwn, shtdwnNow, cpc>>,
         \A r \in Roots : spc'[r] = "link" => spc[r] = "link" \/ queueActive
  PROVE  LeavesNothing'
<1> USE DEF IInv, LeavesNothing
<1>1. \A w \in Workers : ToSet(wsq'[w]) \cap (Roots \ Forking) = {}
  OBVIOUS
<1>2. ~ queueActive /\ TailFree => TailFree'
  BY DEF TailFree
<1> QED
  BY <1>1, <1>2

LEMMA TakesAddNothing ==
  ASSUME IInv, NEW w \in Workers, TakeLocal(w) \/ TakeGlobal(w) \/ StealHit(w)
  PROVE  LeavesNothing'
<1> USE DEF IInv, PlacesInv, Typed, WorkerAt, Take, queueVars, semVars, closeVars
<1>1. CASE TakeLocal(w)
  <2>1. ASSUME wsq[w] # <<>> PROVE ToSet(Front(wsq[w])) \subseteq ToSet(wsq[w])
    <3>1. wsq[w] \in Seq(Tasks) /\ IsInjective(wsq[w])
      BY DEF Distinct
    <3>2. ToSet(Front(wsq[w])) = ToSet(wsq[w]) \ {Last(wsq[w])}
      BY <2>1, <3>1, FrontElements
    <3> QED
      BY <3>2
  <2>2. \A v \in Workers : ToSet(wsq'[v]) \subseteq ToSet(wsq[v])
    BY <1>1, <2>1 DEF TakeLocal
  <2> QED
    BY <1>1, <2>2, NothingAdded DEF TakeLocal
<1>2. CASE TakeGlobal(w)
  BY <1>2, NothingAdded DEF TakeGlobal
<1>3. CASE StealHit(w)
  <2> SUFFICES ASSUME NEW v, v = Last(scan[w]) PROVE LeavesNothing'
    OBVIOUS
  <2>1. v \in Workers
    BY <1>3 DEF Working, Last, StealHit
  <2>2. ToSet(Tail(wsq[v])) \subseteq ToSet(wsq[v])
    BY <1>3, <2>1, TailElements DEF Distinct, StealHit
  <2>3. \A u \in Workers : ToSet(wsq'[u]) \subseteq ToSet(wsq[u])
    BY <1>3, <2>1, <2>2 DEF StealHit
  <2> QED
    BY <1>3, <2>3, NothingAdded DEF StealHit
<1> QED
  BY <1>1, <1>2, <1>3

\* Whoever has gone on from queue_.deactivate() finds the queue closed.
LEMMA CloserGoesOn ==
  ASSUME IInv, NEW c \in AllClosers, Close(c)
  PROVE  /\ \A d \in AllClosers \ {c} : cpc'[d] = cpc[d]
         /\ \/ cpc'[c] \in {"returned", "queue"}
            \/ ~ queueActive'
         /\ cpc'[c] = "joined" => \A w \in Workers : wpc[w] = "exited"
         /\ UNCHANGED <<shtdwn, shtdwnNow>> \/ ~ queueActive
<1> USE DEF IInv, PlacesInv, Typed, CloserAt, queueVars
<1>1. CASE CloseBegin(c)
  BY <1>1 DEF CloseBegin
<1>2. CASE CloseQueue(c)
  BY <1>2 DEF CloseQueue
<1>3. ASSUME cpc[c] \notin {"idle", "returned", "queue"}, UNCHANGED queueActive,
             NEW l, l # "joined", cpc' = [cpc EXCEPT ![c] = l]
      PROVE  /\ \A d \in AllClosers \ {c} : cpc'[d] = cpc[d]
             /\ ~ queueActive' /\ ~ queueActive /\ cpc'[c] # "joined"
  BY <1>3 DEF LeavesNothing
<1>4. CASE CloseSem(c)
  BY <1>3, <1>4 DEF CloseSem
<1>5. CASE CloseLoad(c)
  BY <1>3, <1>5 DEF CloseLoad
<1>6. CASE ClosePost(c)
  BY <1>3, <1>6 DEF ClosePost
<1>7. CASE CloseFlag(c)
  BY <1>3, <1>7 DEF CloseFlag
<1>8. CASE CloseJoin(c)
  BY <1>8 DEF CloseJoin, LeavesNothing
<1> QED
  BY <1>1, <1>2, <1>4, <1>5, <1>6, <1>7, <1>8 DEF Close

LEMMA CloserLeavesNothing ==
  ASSUME IInv, NEW c \in AllClosers, Close(c)
  PROVE  LeavesNothing'
<1>1. UNCHANGED <<queue, wsq, wpc, spc>>
  BY CloserLeaves
<1>2. /\ queueActive' \in {queueActive, FALSE}
      /\ shtdwn' \in {shtdwn, TRUE} /\ shtdwnNow' \in {shtdwnNow, TRUE}
  BY CloserFlags
<1>3. shtdwn' \/ shtdwnNow' => ~ queueActive'
  BY <1>2, CloserGoesOn DEF IInv, LeavesNothing
<1>4. \A d \in AllClosers :
        cpc'[d] \notin {"idle", "returned", "queue"} => ~ queueActive'
  BY <1>2, CloserGoesOn DEF IInv, LeavesNothing
<1>5. \A d \in AllClosers : cpc'[d] = "joined" => \A w \in Workers : wpc'[w] = "exited"
  BY <1>1, CloserGoesOn DEF IInv, LeavesNothing
<1>6. ASSUME NEW w \in Workers
      PROVE  /\ ToSet(wsq'[w]) \cap (Roots \ Forking) = {}
             /\ wpc'[w] = "exited" =>
                  /\ shtdwn' \/ shtdwnNow'
                  /\ shtdwnNow' \/ (queue' = <<>> /\ TailFree')
  <2>1. TailFree' = TailFree
    BY <1>1 DEF TailFree
  <2>2. (shtdwn => shtdwn') /\ (shtdwnNow => shtdwnNow')
    <3>1. shtdwn \in BOOLEAN /\ shtdwnNow \in BOOLEAN
      BY DEF IInv, PlacesInv, Typed
    <3> QED
      BY <1>2, <3>1
  <2>3. wsq'[w] = wsq[w] /\ wpc'[w] = wpc[w] /\ queue' = queue
    BY <1>1
  <2> QED
    BY <2>1, <2>2, <2>3 DEF IInv, LeavesNothing
<1> QED
  BY <1>3, <1>4, <1>5, <1>6 DEF LeavesNothing

LEMMA NextLeavesNothing ==
  ASSUME IInv, [Next]_vars
  PROVE  LeavesNothing'
<1> USE DEF IInv, PlacesInv, Typed, WorkerAt, SubmitAt, CloserAt,
            queueVars, semVars, workerVars, closeVars
<1>1. CASE UNCHANGED vars
  BY <1>1, NothingAdded DEF vars
<1>2. ASSUME NEW r \in Roots, Submit(r) PROVE LeavesNothing'
  <2>1. CASE SubmitCheck(r) \/ PutCheck(r)
    BY <2>1, NothingAdded DEF SubmitCheck, PutCheck
  <2>2. CASE PutPost(r)
    BY <2>2, NothingAdded DEF PutPost, SemPost
  <2>3. CASE PutLink(r)
    <3>1. ~ TailFree
      BY <2>3 DEF PutLink, TailFree
    <3> QED
      BY <2>3, <3>1 DEF PutLink, LeavesNothing
  <2> QED
    BY <1>2, <2>1, <2>2, <2>3 DEF Submit
<1>3. ASSUME NEW w \in Workers, Worker(w) PROVE LeavesNothing'
  <2>1. CASE Loop(w)
    <3>1. TailFree => TailFree'
      BY <2>1 DEF Loop, TailFree
    <3> QED
      BY <2>1, <3>1 DEF Loop, Shutdown, LeavesNothing
  <2>2. CASE TakeLocal(w) \/ TakeGlobal(w) \/ StealHit(w)
    BY <2>2, TakesAddNothing
  <2>3. ASSUME NEW v \in Workers, PickVictim(w, v) PROVE LeavesNothing'
    BY <2>3, NothingAdded DEF PickVictim
  <2>4. CASE StealMiss(w) \/ StealSelf(w)
    BY <2>4, NothingAdded DEF StealMiss, StealSelf
  <2>5. CASE Wait(w)
    BY <2>5, NothingAdded DEF Wait, WaitCount, WaitCheck, WaitToken
  <2>6. CASE Run(w) \/ Join(w)
    BY <2>6, NothingAdded DEF Run, Join, Complete
  <2>7. CASE WorkerPost(w)
    BY <2>7, NothingAdded DEF WorkerPost, SemPost
  <2>8. CASE Fork(w) \/ Yield(w)
    <3>1. PICK t \in Tasks \ (Roots \ Forking) :
            wsq' = [wsq EXCEPT ![w] = Append(wsq[w], t)]
      <4>1. active[w] \in Forking /\ active[w] \in Tasks \ (Roots \ Forking)
            /\ Child(active[w]) \in Tasks \ (Roots \ Forking)
        BY <2>8, Kinds DEF Fork, Yield
      <4> QED
        BY <2>8, <4>1 DEF Fork, Yield
    <3>2. ToSet(wsq'[w]) = ToSet(wsq[w]) \cup {t}
      BY <3>1, AppendElement
    <3>3. \A v \in Workers : ToSet(wsq'[v]) \cap (Roots \ Forking) = {}
      BY <3>1, <3>2 DEF LeavesNothing
    <3>4. /\ \A v \in Workers : wpc'[v] = "exited" => wpc[v] = "exited"
          /\ wpc[w] # "exited" /\ wpc'[w] # "exited"
          /\ UNCHANGED <<queue, queueActive, shtdwn, shtdwnNow, cpc, spc>>
      BY <2>8 DEF Fork, Yield
    <3>5. \A v \in Workers : wpc[v] = "exited" => wpc'[v] = "exited"
      BY <2>8 DEF Fork, Yield
    <3> QED
      BY <3>3, <3>4, <3>5 DEF LeavesNothing, TailFree
  <2> QED
    BY <1>3, <2>1, <2>2, <2>3, <2>4, <2>5, <2>6, <2>7, <2>8
       DEF Worker, Search, Execute
<1>4. ASSUME NEW c \in AllClosers, Close(c) PROVE LeavesNothing'
  BY <1>4, CloserLeavesNothing
<1> QED
  BY <1>1, <1>2, <1>3, <1>4 DEF Next, AllClosers

LEMMA NextIInv == IInv /\ [Next]_vars => IInv'
  BY NextPlacesInv, NextClosedFirst, NextLeavesNothing DEF IInv

----------------------------------------------------------------------------
(* The refinement: Pool's variables as functions of StaticPool's.          *)

\* What Pool sees: its stage and its state.
PoolStage == [t \in Tasks |-> StageOf(t)]
PoolState ==
  IF \E c \in DOMAIN cpc : cpc[c] = "joined" THEN "joined"
  ELSE IF closed THEN "closed" ELSE "open"

PoolUnchanged ==
  PoolStage' = PoolStage /\ PoolState' = PoolState
  /\ UNCHANGED shtdwnNow

LEMMA SameTasks == Abstract!Tasks = Tasks
  BY DEF Abstract!Tasks, Tasks

LEMMA SameCardinality ==
  ASSUME NEW S
  PROVE  Abstract!Cardinality(S) = Cardinality(S)
  BY DEF Cardinality, Abstract!Cardinality

LEMMA Stutters ==
  ASSUME PoolUnchanged
  PROVE  UNCHANGED Abstract!vars
  BY DEF PoolUnchanged, PoolStage, PoolState, Abstract!vars

\* A step of one task.
LEMMA Becomes ==
  ASSUME NEW t \in Tasks, NEW label, StageOf(t)' = label,
         \A u \in Tasks \ {t} : StageOf(u)' = StageOf(u),
         UNCHANGED <<closed, cpc, shtdwnNow>>
  PROVE  /\ Abstract!Become(t, label) /\ Abstract!OnlyStage
         /\ PoolStage' = [PoolStage EXCEPT ![t] = label]
         /\ PoolState' = PoolState
<1>1. PoolStage' = [PoolStage EXCEPT ![t] = label]
  BY DEF PoolStage
<1>2. PoolState' = PoolState
  BY DEF PoolState
<1> QED
  BY <1>1, <1>2 DEF PoolStage, PoolState, Abstract!Become, Abstract!OnlyStage

\* A step that touches no task.
LEMMA TasksUntouched ==
  ASSUME UNCHANGED <<stage, active>>,
         \A r \in Roots : spc'[r] # spc[r] =>
             \/ {spc[r], spc'[r]} \subseteq {"put", "link"}
             \/ {spc[r], spc'[r]} \subseteq {"post", "accepted"}
  PROVE  PoolStage' = PoolStage
<1>1. ASSUME NEW t \in Tasks PROVE StageOf(t)' = StageOf(t)
  <2>1. Pending(t)' <=> Pending(t)
    BY DEF Pending
  <2> QED
    BY <2>1 DEF StageOf
<1> QED
  BY <1>1 DEF PoolStage

\* The stage of a root that is not in the pool, and of a task that is.
OutsideAs ==
  \A r \in Roots :
    /\ spc[r] = "idle" => StageOf(r) = "new"
    /\ spc[r] \in {"put", "link"} => StageOf(r) = "calling"
    /\ spc[r] = "rejected" => StageOf(r) = "refused"

LEMMA OutsideStage == PlacesInv => OutsideAs
<1> SUFFICES ASSUME PlacesInv, NEW r \in Roots,
                    spc[r] \in {"idle", "put", "link", "rejected"}
             PROVE  /\ spc[r] = "idle" => StageOf(r) = "new"
                    /\ spc[r] \in {"put", "link"} => StageOf(r) = "calling"
                    /\ spc[r] = "rejected" => StageOf(r) = "refused"
  BY DEF OutsideAs
<1>1. ~ Pending(r) /\ ~ Placed(r)
  BY RootPending, Kinds DEF PlacesInv, PlacedArePending
<1>2. stage[r] = "new" /\ \A w \in Workers : active[w] # r
  BY <1>1 DEF PlacesInv, Stages, Placed
<1> QED
  BY <1>1, <1>2 DEF StageOf

LEMMA InsideStage ==
  PlacesInv =>
    \A t \in Tasks :
      Pending(t) =>
        StageOf(t) = IF \E w \in Workers : active[w] = t THEN "running" ELSE "pending"
<1> SUFFICES ASSUME PlacesInv, NEW t \in Tasks, Pending(t)
             PROVE  StageOf(t) =
                      IF \E w \in Workers : active[w] = t THEN "running" ELSE "pending"
  OBVIOUS
<1>1. stage[t] # "done"
  BY DEF Pending
<1> QED
  BY <1>1 DEF StageOf

LEMMA OutsideStageNext == PlacesInv' => OutsideAs'
  BY OutsideStage, PTL

\* Nobody is joined while the pool is open or a worker is there.
LEMMA NotJoined ==
  ASSUME IInv, ~ closed \/ \E w \in Workers : wpc[w] # "exited"
  PROVE  PoolState # "joined" /\ (~ closed <=> PoolState = "open")
  BY DEF IInv, PlacesInv, Typed, ClosedFirst, LeavesNothing, PoolState

LEMMA SubmitRefines ==
  ASSUME IInv, IInv', NEW r \in Roots, Submit(r)
  PROVE  UNCHANGED Abstract!vars \/ Abstract!Next
<1> USE DEF IInv, SubmitAt, queueVars, semVars, workerVars, closeVars
<1>1. r \in Tasks
  BY Kinds
<1>2. spc \in [Roots -> {"idle", "put", "link", "post", "accepted", "rejected"}]
  BY DEF PlacesInv, Typed
<1>3. ASSUME UNCHANGED <<stage, active>>, NEW label, spc' = [spc EXCEPT ![r] = label],
             NEW u \in Tasks \ {r}
      PROVE  StageOf(u)' = StageOf(u)
  <2>1. Pending(u)' <=> Pending(u)
    BY <1>2, <1>3 DEF Pending
  <2> QED
    BY <1>2, <1>3, <2>1 DEF StageOf
<1>4. CASE SubmitCheck(r) /\ ~ closed
  <2>1. PoolStage[r] = "new" /\ PoolState = "open"
    BY <1>1, <1>4, OutsideStage, NotJoined DEF OutsideAs, SubmitCheck, PoolStage
  <2>2. StageOf(r)' = "calling"
    BY <1>2, <1>4, OutsideStageNext DEF OutsideAs, SubmitCheck
  <2>3. Abstract!Call(r)
    BY <1>1, <1>3, <1>4, <2>1, <2>2, Becomes
       DEF SubmitCheck, Abstract!Call, PoolStage, PoolState
  <2> QED
    BY <2>3 DEF Abstract!Next
<1>5. CASE (SubmitCheck(r) /\ closed) \/ (PutCheck(r) /\ ~ queueActive)
  <2>1. PoolStage[r] \in {"new", "calling"} /\ PoolState # "open"
    BY <1>1, <1>5, OutsideStage
       DEF OutsideAs, SubmitCheck, PutCheck, PoolStage, PoolState, ClosedFirst
  <2>2. StageOf(r)' = "refused"
    BY <1>2, <1>5, OutsideStageNext DEF OutsideAs, SubmitCheck, PutCheck
  <2>3. Abstract!Refuse(r)
    BY <1>1, <1>3, <1>5, <2>1, <2>2, Becomes
       DEF SubmitCheck, PutCheck, Abstract!Refuse, PoolStage, PoolState
  <2> QED
    BY <2>3 DEF Abstract!Next
<1>6. CASE (PutCheck(r) /\ queueActive) \/ PutPost(r)
  <2>1. PoolStage' = PoolStage
    BY <1>2, <1>6, TasksUntouched DEF PutCheck, PutPost
  <2>2. PoolState' = PoolState /\ UNCHANGED shtdwnNow
    BY <1>6 DEF PutCheck, PutPost, PoolState
  <2> QED
    BY <2>1, <2>2, Stutters DEF PoolUnchanged
<1>7. CASE PutLink(r)
  <2>1. PoolStage[r] = "calling"
    BY <1>1, <1>7, OutsideStage DEF OutsideAs, PutLink, PoolStage
  <2>2. stage[r] = "new" /\ ~ Placed(r)
    BY <1>1, <1>7, RootPending DEF PutLink, PlacesInv, Stages, PlacedArePending
  <2>3. Pending(r)' /\ ~ (\E w \in Workers : active'[w] = r) /\ stage'[r] # "done"
    BY <1>2, <1>7, <2>2, RootPendingNext DEF PutLink, Placed
  <2>4. StageOf(r)' = "pending"
    BY <2>3 DEF StageOf
  <2>5. PoolState # "joined" \/ shtdwnNow
    <3>1. ~ TailFree
      BY <1>1, <1>7 DEF PutLink, TailFree
    <3>2. 0 \in Workers
      BY PoolSizePos DEF Workers
    <3> QED
      BY <3>1, <3>2 DEF LeavesNothing, PoolState, PlacesInv, Typed
  <2>6. Abstract!Accept(r)
    BY <1>1, <1>3, <1>7, <2>1, <2>4, <2>5, Becomes
       DEF PutLink, Abstract!Accept, PoolStage, PoolState
  <2> QED
    BY <2>6 DEF Abstract!Next
<1> QED
  BY <1>4, <1>5, <1>6, <1>7 DEF Submit

\* A worker without a task leaves room for one more that runs.
LEMMA RunningFew ==
  ASSUME PlacesInv, NEW w \in Workers, active[w] = None
  PROVE  Cardinality({u \in Tasks : StageOf(u) = "running"}) < PoolSize
<1> DEFINE R == {u \in Tasks : StageOf(u) = "running"}
           at == [u \in R |-> CHOOSE v \in Workers : active[v] = u]
<1>1. \A u \in R : u \in Tasks /\ \E v \in Workers : active[v] = u
  BY DEF StageOf
<1>2. \A u \in R : at[u] \in Workers /\ active[at[u]] = u
  BY <1>1
<1>3. at \in [R -> Workers \ {w}]
  BY <1>1, <1>2, Kinds
<1>4. at \in Injection(R, Workers \ {w})
  BY <1>2, <1>3 DEF Injection, IsInjective
<1>5. IsFiniteSet(Workers \ {w}) /\ Cardinality(Workers \ {w}) = PoolSize - 1
  <2>1. IsFiniteSet(Workers) /\ Cardinality(Workers) = PoolSize
    BY PoolSizePos, FS_Interval DEF Workers
  <2> QED
    BY <2>1, FS_RemoveElement
<1> HIDE DEF R, at
<1>6. IsFiniteSet(R) /\ Cardinality(R) <= Cardinality(Workers \ {w})
  BY <1>4, <1>5, FS_Injection
<1>7. Cardinality(R) \in Nat
  BY <1>6, FS_CardinalityType
<1> QED
  BY <1>5, <1>6, <1>7, PoolSizePos DEF R

\* A worker takes a task that waits in the pool.
LEMMA TakeRefines ==
  ASSUME IInv, NEW w \in Workers, NEW t \in Tasks, Placed(t), active[w] = None,
         wpc[w] # "exited", \A v \in Workers : active[v] # t,
         active' = [active EXCEPT ![w] = t],
         UNCHANGED <<stage, spc, closed, cpc, shtdwnNow>>
  PROVE  Abstract!Take(t)
<1> USE DEF IInv, PlacesInv, Typed
<1>1. Pending(t) /\ stage[t] # "done"
  BY DEF PlacedArePending, Pending
<1>2. PoolStage[t] = "pending" /\ PoolState # "joined"
  BY <1>1, InsideStage, NotJoined DEF PoolStage
<1>3. StageOf(t)' = "running"
  BY <1>1 DEF StageOf
<1>4. ASSUME NEW u \in Tasks \ {t} PROVE StageOf(u)' = StageOf(u)
  <2>1. (\E v \in Workers : active'[v] = u) <=> (\E v \in Workers : active[v] = u)
    BY Kinds
  <2>2. Pending(u)' <=> Pending(u)
    BY DEF Pending
  <2> QED
    BY <2>1, <2>2 DEF StageOf
<1>5. Cardinality({u \in Abstract!Tasks : PoolStage[u] = "running"}) < PoolSize
  <2> DEFINE A == {u \in Abstract!Tasks : PoolStage[u] = "running"}
             R == {u \in Tasks : StageOf(u) = "running"}
  <2>1. A = R
    BY SameTasks DEF PoolStage
  <2>2. Cardinality(R) < PoolSize
    BY RunningFew
  <2> HIDE DEF A, R
  <2>3. Cardinality(A) < PoolSize
    BY <2>1, <2>2
  <2> QED
    BY <2>3 DEF A
<1>6. Abstract!Become(t, "running") /\ Abstract!OnlyStage
  BY <1>3, <1>4, Becomes
<1> HIDE DEF IInv, PlacesInv, Typed
<1> QED
  BY <1>2, <1>5, <1>6, SameCardinality, Zenon DEF Abstract!Take, PoolStage, PoolState

\* A task ends.
LEMMA FinishRefines ==
  ASSUME IInv, NEW w \in Workers, wpc[w] = "run", Complete(w),
         active[w] \in Forking => stage[Child(active[w])] = "done"
  PROVE  \E t \in Tasks : Abstract!Finish(t)
<1> USE DEF IInv, PlacesInv, Typed, Complete, WorkerAt, queueVars, semVars, closeVars
<1> SUFFICES ASSUME NEW t, t = active[w] PROVE \E u \in Tasks : Abstract!Finish(u)
  OBVIOUS
<1>1. t \in Tasks /\ t # None /\ Placed(t) /\ Pending(t)
  BY DEF Working, Placed, PlacedArePending
<1>2. PoolStage[t] = "running"
  BY <1>1, InsideStage DEF PoolStage
<1>3. StageOf(t)' = "done"
  BY <1>1 DEF StageOf
<1>4. ASSUME NEW u \in Tasks \ {t} PROVE StageOf(u)' = StageOf(u)
  <2>1. (\E v \in Workers : active'[v] = u) <=> (\E v \in Workers : active[v] = u)
    BY Kinds
  <2>2. Pending(u)' <=> Pending(u)
    <3>1. CASE u \in Roots
      BY <3>1 DEF Pending
    <3>2. CASE u \notin Roots
      BY <3>2, Kinds DEF Pending
    <3> QED
      BY <3>1, <3>2
  <2>3. stage'[u] = stage[u]
    OBVIOUS
  <2> QED
    BY <2>1, <2>2, <2>3 DEF StageOf
<1>5. t \in Forking => PoolStage[Child(t)] = "done"
  BY Kinds DEF PoolStage, StageOf
<1>6. Abstract!Finish(t)
  BY <1>1, <1>2, <1>3, <1>4, <1>5, Becomes DEF Abstract!Finish, PoolStage
<1> QED
  BY <1>1, <1>6

LEMMA ForkRefines ==
  ASSUME IInv, IInv', NEW w \in Workers, Fork(w)
  PROVE  \E r \in Forking : Abstract!Fork(r)
<1> USE DEF IInv, PlacesInv, Typed, Fork, WorkerAt, queueVars, semVars, closeVars
<1> SUFFICES ASSUME NEW r, r = active[w] PROVE \E q \in Forking : Abstract!Fork(q)
  OBVIOUS
<1> SUFFICES ASSUME NEW k, k = Child(r) PROVE \E q \in Forking : Abstract!Fork(q)
  OBVIOUS
<1>1. /\ r \in Forking /\ r \in Roots /\ r \in Tasks
      /\ k \in Tasks /\ k \notin Roots /\ -k = r /\ k # r
  BY Kinds
<1>2. Pending(r) /\ stage[k] = "new"
  BY <1>1, Kinds DEF Stages, PlacedArePending, Placed
<1>3. ~ Pending(k) /\ \A v \in Workers : active[v] # k
  BY <1>1, ChildPending DEF PlacedArePending, Placed
<1>4. PoolStage[r] = "running" /\ PoolStage[k] = "new"
  BY <1>1, <1>2, <1>3, InsideStage DEF PoolStage, StageOf
<1>5. stage'[k] = "new" /\ stage'[r] = "forked"
  BY <1>1, <1>2
<1>6. Pending(k)'
  BY <1>1, <1>5, ChildPendingNext
<1>7. StageOf(k)' = "pending"
  BY <1>3, <1>5, <1>6 DEF StageOf
<1>8. ASSUME NEW u \in Tasks \ {k} PROVE StageOf(u)' = StageOf(u)
  <2>1. Pending(u)' <=> Pending(u)
    <3>1. CASE u \in Roots
      BY <1>1, <3>1 DEF Pending
    <3>2. CASE u \notin Roots
      BY <1>1, <3>2, Kinds DEF Pending
    <3> QED
      BY <3>1, <3>2
  <2>2. stage'[u] = "done" <=> stage[u] = "done"
    BY <1>1
  <2> QED
    BY <2>1, <2>2 DEF StageOf
<1>9. Abstract!Become(k, "pending") /\ Abstract!OnlyStage
  BY <1>1, <1>7, <1>8, Becomes
<1>10. Abstract!Fork(r)
  BY <1>1, <1>4, <1>9 DEF Abstract!Fork, PoolStage
<1> QED
  BY <1>1, <1>10

LEMMA YieldRefines ==
  ASSUME IInv, NEW w \in Workers, Yield(w)
  PROVE  \E r \in Forking : Abstract!Suspend(r)
<1> USE DEF IInv, PlacesInv, Typed, Yield, WorkerAt, queueVars, semVars, closeVars
<1> SUFFICES ASSUME NEW r, r = active[w] PROVE \E q \in Forking : Abstract!Suspend(q)
  OBVIOUS
<1>1. r \in Forking /\ r \in Tasks /\ r # None /\ Child(r) \in Tasks
  BY Kinds
<1>2. Pending(r) /\ Pending(Child(r)) /\ stage[r] # "done"
  BY <1>1, ChildPending DEF PlacedArePending, Placed
<1>3. PoolStage[r] = "running" /\ PoolStage[Child(r)] \in {"pending", "running"}
  BY <1>1, <1>2, InsideStage DEF PoolStage
<1>4. ASSUME NEW u \in Tasks PROVE Pending(u)' <=> Pending(u)
  BY DEF Pending
<1>5. \A v \in Workers : active'[v] # r
  BY <1>1 DEF Distinct
<1>6. StageOf(r)' = "pending"
  BY <1>1, <1>2, <1>4, <1>5 DEF StageOf
<1>7. ASSUME NEW u \in Tasks \ {r} PROVE StageOf(u)' = StageOf(u)
  <2>1. (\E v \in Workers : active'[v] = u) <=> (\E v \in Workers : active[v] = u)
    BY Kinds
  <2> QED
    BY <1>4, <2>1 DEF StageOf
<1>8. Abstract!Suspend(r)
  BY <1>1, <1>3, <1>6, <1>7, Becomes DEF Abstract!Suspend, PoolStage
<1> QED
  BY <1>1, <1>8

LEMMA WorkerStutters ==
  ASSUME UNCHANGED <<stage, active, spc, closed, cpc, shtdwnNow>>
  PROVE  UNCHANGED Abstract!vars
<1>1. PoolStage' = PoolStage
  BY TasksUntouched
<1> QED
  BY <1>1, Stutters DEF PoolUnchanged, PoolState

LEMMA WorkerRefines ==
  ASSUME IInv, IInv', NEW w \in Workers, Worker(w)
  PROVE  UNCHANGED Abstract!vars \/ Abstract!Next
<1> USE DEF IInv, PlacesInv, Typed, Take, WorkerAt, queueVars, semVars, closeVars
<1>1. CASE Loop(w)
  BY <1>1, WorkerStutters DEF Loop
<1>2. ASSUME NEW t \in Tasks, Placed(t), \A v \in Workers : active[v] # t,
             wpc[w] \in {"local", "global", "steal"}, active' = [active EXCEPT ![w] = t],
             UNCHANGED <<stage, spc, closed, cpc, shtdwnNow>>
      PROVE  Abstract!Next
  <2>1. active[w] = None /\ wpc[w] # "exited"
    BY <1>2 DEF Working
  <2>2. Abstract!Take(t)
    BY <1>2, <2>1, TakeRefines
  <2> QED
    BY <2>2, SameTasks DEF Abstract!Next
<1>3. CASE TakeLocal(w)
  <2>1. CASE wsq[w] = <<>>
    BY <1>3, <2>1, WorkerStutters DEF TakeLocal
  <2>2. CASE wsq[w] # <<>>
    <3>1. PICK t : t = Last(wsq[w])
      OBVIOUS
    <3>2. t \in Tasks /\ t \in ToSet(wsq[w])
      BY <2>2, <3>1, FrontElements DEF Distinct
    <3>3. Placed(t) /\ \A v \in Workers : active[v] # t
      BY <3>2 DEF Placed, Distinct
    <3> QED
      BY <1>2, <1>3, <2>2, <3>1, <3>2, <3>3 DEF TakeLocal
  <2> QED
    BY <2>1, <2>2
<1>4. CASE TakeGlobal(w)
  <2>1. CASE queue = <<>>
    BY <1>4, <2>1, WorkerStutters DEF TakeGlobal
  <2>2. CASE queue # <<>>
    <3>1. PICK t : t = Head(queue)
      OBVIOUS
    <3>2. t \in Tasks /\ t \in ToSet(queue)
      BY <2>2, <3>1, TailElements, Kinds DEF Distinct
    <3>3. Placed(t) /\ \A v \in Workers : active[v] # t
      BY <3>2 DEF Placed, Distinct
    <3> QED
      BY <1>2, <1>4, <2>2, <3>1, <3>2, <3>3 DEF TakeGlobal
  <2> QED
    BY <2>1, <2>2
<1>5. CASE StealHit(w)
  <2>1. PICK v : v = Last(scan[w])
    OBVIOUS
  <2>2. v \in Workers
    BY <1>5, <2>1 DEF Working, Last, StealHit
  <2>3. PICK t : t = Head(wsq[v])
    OBVIOUS
  <2>4. t \in Tasks /\ t \in ToSet(wsq[v])
    BY <1>5, <2>1, <2>2, <2>3, TailElements DEF Distinct, StealHit
  <2>5. Placed(t) /\ \A u \in Workers : active[u] # t
    BY <2>2, <2>4 DEF Placed, Distinct
  <2> QED
    BY <1>2, <1>5, <2>1, <2>3, <2>4, <2>5 DEF StealHit
<1>6. ASSUME NEW v \in Workers, PickVictim(w, v) PROVE UNCHANGED Abstract!vars
  BY <1>6, WorkerStutters DEF PickVictim
<1>7. CASE StealMiss(w) \/ StealSelf(w)
  BY <1>7, WorkerStutters DEF StealMiss, StealSelf
<1>8. CASE Wait(w)
  BY <1>8, WorkerStutters DEF Wait, WaitCount, WaitCheck, WaitToken
<1>9. CASE Run(w) \/ Join(w)
  <2>1. \E t \in Tasks : Abstract!Finish(t)
    BY <1>9, FinishRefines DEF Run, Join
  <2> QED
    BY <2>1, SameTasks DEF Abstract!Next
<1>10. CASE Fork(w)
  BY <1>10, ForkRefines DEF Abstract!Next
<1>11. CASE Yield(w)
  BY <1>11, YieldRefines DEF Abstract!Next
<1>12. CASE WorkerPost(w)
  BY <1>12, WorkerStutters DEF WorkerPost, SemPost
<1> QED
  BY <1>1, <1>3, <1>4, <1>5, <1>6, <1>7, <1>8, <1>9, <1>10, <1>11, <1>12
     DEF Worker, Search, Execute

----------------------------------------------------------------------------
(* What a closer has when the workers are gone.                            *)

\* Nothing that was accepted, and does not fork, is in the pool any more.
LEMMA WorkersGone ==
  ASSUME IInv, \A w \in Workers : wpc[w] = "exited"
  PROVE  /\ \A t \in Tasks : StageOf(t) # "running"
         /\ shtdwnNow \/ \A r \in Roots \ Forking : StageOf(r) # "pending"
<1> USE DEF IInv, PlacesInv
<1>1. \A w \in Workers : active[w] = None
  BY DEF Working
<1>2. \A t \in Tasks : StageOf(t) # "running"
  BY <1>1, Kinds DEF StageOf
<1>3. ASSUME ~ shtdwnNow, NEW r \in Roots \ Forking PROVE StageOf(r) # "pending"
  <2>1. r \in Roots /\ r \in Tasks
    BY Kinds
  <2>2. 0 \in Workers
    BY PoolSizePos DEF Workers
  <2>3. r \notin ToSet(queue)
    BY <1>3, <2>2 DEF LeavesNothing, ToSet
  <2>4. \A w \in Workers : r \notin ToSet(wsq[w])
    BY <2>1 DEF LeavesNothing
  <2>5. ~ Pending(r)
    BY <1>1, <2>1, <2>3, <2>4, Kinds DEF Placed, PlacedArePending
  <2> QED
    BY <2>5 DEF StageOf
<1> QED
  BY <1>2, <1>3

LEMMA CloseRefines ==
  ASSUME IInv, NEW c \in AllClosers, Close(c)
  PROVE  UNCHANGED Abstract!vars \/ Abstract!Next
<1> USE DEF IInv, CloserAt, queueVars, semVars, workerVars
<1>1. cpc \in [AllClosers -> {"idle", "queue", "sem", "load", "post", "flag", "join",
                              "joined", "returned", "threw"}]
  BY DEF PlacesInv, Typed
<1>2. UNCHANGED <<stage, active, spc>> /\ PoolStage' = PoolStage
  <2>1. UNCHANGED <<stage, active, spc>>
    BY DEF Close, CloseBegin, CloseQueue, CloseSem, CloseLoad, ClosePost, CloseFlag,
           CloseJoin
  <2> QED
    BY <2>1, TasksUntouched
<1>3. ASSUME UNCHANGED <<closed, shtdwnNow>>, NEW label, label # "joined",
             cpc' = [cpc EXCEPT ![c] = label], cpc[c] # "joined"
      PROVE  UNCHANGED Abstract!vars
  <2>1. (\E d \in DOMAIN cpc' : cpc'[d] = "joined") <=>
          (\E d \in DOMAIN cpc : cpc[d] = "joined")
    BY <1>1, <1>3
  <2>2. PoolState' = PoolState
    BY <1>3, <2>1 DEF PoolState
  <2> QED
    BY <1>2, <1>3, <2>2, Stutters DEF PoolUnchanged
<1>4. CASE CloseBegin(c)
  <2>1. CASE closed
    BY <1>3, <1>4, <2>1 DEF CloseBegin
  <2>2. CASE ~ closed
    <3>1. \A d \in AllClosers : cpc[d] # "joined"
      BY <2>2 DEF ClosedFirst
    <3>2. PoolState = "open" /\ PoolState' = "closed"
      BY <1>1, <1>4, <2>2, <3>1 DEF CloseBegin, PoolState
    <3>5. shtdwnNow' = shtdwnNow
      BY <1>4 DEF CloseBegin
    <3>6. Abstract!Close
      BY <1>2, <3>2, <3>5, Zenon DEF Abstract!Close, PoolStage, PoolState
    <3> QED
      BY <3>6 DEF Abstract!Next
  <2> QED
    BY <2>1, <2>2
<1>5. CASE CloseQueue(c) \/ CloseSem(c) \/ CloseLoad(c)
  BY <1>3, <1>5 DEF CloseQueue, CloseSem, CloseLoad
<1>6. CASE ClosePost(c)
  <2>1. PICK label \in {"threw", "flag"} : cpc' = [cpc EXCEPT ![c] = label]
    BY <1>6 DEF ClosePost
  <2> QED
    BY <1>3, <1>6, <2>1 DEF ClosePost
<1>7. CASE CloseFlag(c)
  <2>1. PoolState = "closed" /\ PoolState' = "closed"
    BY <1>1, <1>7 DEF CloseFlag, ClosedFirst, PoolState
  <2>2. CASE shtdwnNow' = shtdwnNow
    BY <1>2, <2>1, <2>2, Stutters DEF PoolUnchanged
  <2>3. CASE shtdwnNow' = TRUE
    <3>1. Abstract!Hurry
      BY <1>2, <2>1, <2>3, Zenon DEF Abstract!Hurry, PoolStage, PoolState
    <3> QED
      BY <3>1 DEF Abstract!Next
  <2> QED
    BY <1>7, <2>2, <2>3 DEF CloseFlag
<1>8. CASE CloseJoin(c)
  <2>1. PoolState = "closed" /\ PoolState' = "joined" /\ UNCHANGED shtdwnNow
    BY <1>1, <1>8 DEF CloseJoin, ClosedFirst, PoolState
  <2>2. \A w \in Workers : wpc[w] = "exited"
    BY <1>8 DEF CloseJoin
  <2>3. \A t \in Abstract!Tasks : PoolStage[t] # "running"
    BY <2>2, WorkersGone, SameTasks DEF PoolStage
  <2>4. shtdwnNow \/ \A r \in Roots \ Forking : PoolStage[r] # "pending"
    BY <2>2, WorkersGone, Kinds DEF PoolStage, PlacesInv, Typed
  <2>5. Abstract!Joined
    BY <1>2, <2>1, <2>3, <2>4, Zenon DEF Abstract!Joined, PoolStage, PoolState
  <2> QED
    BY <2>5 DEF Abstract!Next
<1> QED
  BY <1>4, <1>5, <1>6, <1>7, <1>8 DEF Close

----------------------------------------------------------------------------
LEMMA NextRefines ==
  IInv /\ IInv' /\ [Next]_vars => UNCHANGED Abstract!vars \/ Abstract!Next
<1> SUFFICES ASSUME IInv, IInv', [Next]_vars
             PROVE  UNCHANGED Abstract!vars \/ Abstract!Next
  OBVIOUS
<1>1. CASE UNCHANGED vars
  BY <1>1, WorkerStutters DEF vars, workerVars, closeVars
<1>2. CASE Next
  BY <1>2, SubmitRefines, WorkerRefines, CloseRefines DEF Next, AllClosers
<1> QED
  BY <1>1, <1>2

LEMMA InitRefines == Init => Abstract!Init
<1> SUFFICES ASSUME Init PROVE Abstract!Init
  OBVIOUS
<1>1. ASSUME NEW t \in Tasks PROVE StageOf(t) = "new"
  <2>1. stage[t] = "new" /\ (\A w \in Workers : active[w] # t) /\ ~ Pending(t)
    BY InitPlacesInv, Kinds DEF Init, Pending
  <2>2. t \in Roots => spc[t] = "idle"
    BY DEF Init
  <2> QED
    BY <2>1, <2>2 DEF StageOf
<1>2. PoolStage = [t \in Tasks |-> "new"]
  BY <1>1 DEF PoolStage
<1>3. PoolState = "open"
  BY DEF Init, PoolState
<1> QED
  BY <1>2, <1>3, SameTasks DEF Init, Abstract!Init, PoolStage, PoolState

\* The pool is a Pool: no task runs twice, or on more than poolsize workers; a task
\* that joins its sub-task ends after it; when shutdown() has joined the workers, all
\* that was accepted and does not fork is done, also what put() linked in the closed
\* queue, and nothing is accepted any more (shutdown.qbk:14-15, static_pool.qbk:188-202),
\* for any number of workers, tasks and closers.
THEOREM Implements == Spec => ImplementsPool
  BY InitIInv, NextIInv, InitRefines, NextRefines, PTL DEF Spec, ImplementsPool

----------------------------------------------------------------------------
(* Nobody sleeps beside a task.  A worker that goes to sleep leaves an     *)
(* empty deque behind and saw an empty queue.  What came into the queue    *)
(* since has posted or will: while such a task waits there is a permit, a  *)
(* token, or a worker that is yet to look at the queue.                    *)

Looking  == {"loop", "local", "global", "run", "post"}
Sleeping == {"check", "asleep"}

Sleepers == {w \in Workers : wpc[w] \in Sleeping}

\* The tokens that posts still owe to workers that count as waiting.
Due == IF semCount < 0 THEN -semCount ELSE 0

Counts == semCount \in Int /\ tokens \in Nat

\* Every sleeper has its token, or a count that brings one.
Covered == Cardinality(Sleepers) <= tokens + Due

BareDeques ==
  \A w \in Workers :
    wpc[w] \in {"global", "pick", "steal", "wait", "check", "asleep"} => wsq[w] = <<>>

Wakeful == tokens > 0 \/ semCount > 0 \/ \E w \in Workers : wpc[w] \in Looking

Waits == \E r \in ToSet(queue) : spc[r] = "accepted"

SleepInv ==
  ~ closed => semActive /\ Counts /\ Covered /\ BareDeques /\ (Waits => Wakeful)

LEMMA CappedCounts ==
  ASSUME NEW n \in Int
  PROVE  /\ Capped(n) \in Int /\ (n \in Nat => Capped(n) \in Nat)
         /\ (n > 0 <=> Capped(n) > 0) /\ (n < 0 <=> Capped(n) < 0)
         /\ n <= MaxPermits /\ n >= -MaxPermits => Capped(n) = n
         /\ n > MaxPermits => Capped(n) = MaxPermits
         /\ n < -MaxPermits => Capped(n) = -MaxPermits
BY PoolSizePos, MaxPermitsAll DEF Capped

LEMMA SleepersFew ==
  /\ IsFiniteSet(Sleepers) /\ Cardinality(Sleepers) \in Nat
  /\ Cardinality(Sleepers) <= PoolSize /\ PoolSize \in Nat /\ PoolSize < MaxPermits
  /\ MaxPermits \in Nat
<1>1. IsFiniteSet(Workers) /\ Cardinality(Workers) = PoolSize
  BY PoolSizePos, FS_Interval DEF Workers
<1>2. Sleepers \subseteq Workers
  BY DEF Sleepers
<1> QED
  BY <1>1, <1>2, FS_Subset, FS_CardinalityType, PoolSizePos, MaxPermitsAll

\* What a step of worker w does while the pool is open.
LEMMA WorkerDoes ==
  ASSUME PlacesInv, semActive, ~ shtdwn, ~ shtdwnNow, NEW w \in Workers, Worker(w)
  PROVE  /\ UNCHANGED <<closed, semActive, spc>>
         /\ \A v \in Workers : v # w => wpc'[v] = wpc[v]
         /\ ToSet(queue') \subseteq ToSet(queue)
         /\ \/ /\ UNCHANGED <<semCount, tokens>>
               /\ wpc[w] \notin Sleeping /\ wpc'[w] \in Looking
            \/ /\ UNCHANGED <<semCount, tokens>>
               /\ wpc[w] \notin Sleeping /\ wpc'[w] = "pick" /\ queue' = <<>>
            \/ /\ UNCHANGED <<semCount, tokens>>
               /\ wpc[w] \in {"pick", "steal"} /\ wpc'[w] \in {"steal", "wait"}
            \/ /\ wpc[w] = "wait" /\ semCount' = Capped(semCount - 1)
               /\ UNCHANGED tokens
               /\ wpc'[w] = IF semCount >= 0 THEN "loop" ELSE "check"
            \/ /\ UNCHANGED <<semCount, tokens>>
               /\ wpc[w] = "check" /\ wpc'[w] = "asleep"
            \/ /\ wpc[w] = "asleep" /\ wpc'[w] = "loop"
               /\ tokens > 0 /\ tokens' = tokens - 1 /\ UNCHANGED semCount
            \/ wpc[w] = "post" /\ wpc'[w] \in Looking /\ SemPost
<1> USE DEF WorkerAt, Looking, Sleeping
<1>0. wpc \in [Workers -> {"loop", "local", "global", "pick", "steal", "wait",
                           "check", "asleep", "run", "post", "exited"}]
  BY DEF PlacesInv, Typed
<1>1. CASE Loop(w)
  BY <1>0, <1>1 DEF Loop, Shutdown, queueVars, semVars, closeVars
<1>2. CASE TakeLocal(w)
  BY <1>0, <1>2 DEF TakeLocal, Take, queueVars, semVars, closeVars
<1>3. CASE TakeGlobal(w)
  <2>1. CASE queue = <<>>
    BY <1>0, <1>3, <2>1 DEF TakeGlobal, semVars, closeVars
  <2>2. CASE queue # <<>>
    <3>1. ToSet(Tail(queue)) \subseteq ToSet(queue)
      <4>1. queue \in Seq(Roots) /\ IsInjective(queue)
        BY DEF PlacesInv, Typed, Distinct
      <4> QED
        BY <2>2, <4>1, TailElements
    <3>2. queue' = Tail(queue)
      BY <1>3, <2>2 DEF TakeGlobal
    <3> HIDE DEF WorkerAt, Looking, Sleeping
    <3>3. /\ UNCHANGED <<closed, semActive, spc, semCount, tokens>>
          /\ wpc[w] = "global" /\ wpc' = [wpc EXCEPT ![w] = "run"]
      BY <1>3, <2>2 DEF TakeGlobal, Take, WorkerAt, semVars, closeVars
    <3> QED
      BY <1>0, <3>1, <3>2, <3>3 DEF Looking, Sleeping
  <2> QED
    BY <2>1, <2>2
<1>4. CASE \E v \in Workers : PickVictim(w, v)
  BY <1>0, <1>4 DEF PickVictim, queueVars, semVars, closeVars
<1>5. CASE StealHit(w)
  BY <1>0, <1>5 DEF StealHit, Take, queueVars, semVars, closeVars
<1>6. CASE StealMiss(w)
  BY <1>0, <1>6 DEF StealMiss, queueVars, semVars, closeVars
<1>7. CASE StealSelf(w)
  BY <1>0, <1>7 DEF StealSelf, queueVars, semVars, closeVars
<1>8. CASE WaitCount(w)
  BY <1>0, <1>8 DEF WaitCount, queueVars, closeVars
<1>9. CASE WaitCheck(w)
  BY <1>0, <1>9 DEF WaitCheck, queueVars, semVars, closeVars
<1>10. CASE WaitToken(w)
  BY <1>0, <1>10 DEF WaitToken, queueVars, closeVars
<1>11. CASE Run(w) \/ Join(w)
  <2>1. wpc[w] = "run" /\ Complete(w)
    BY <1>11 DEF Run, Join
  <2> QED
    BY <1>0, <2>1 DEF Complete, queueVars, semVars, closeVars
<1>12. CASE Fork(w)
  BY <1>0, <1>12 DEF Fork, queueVars, semVars, closeVars
<1>13. CASE Yield(w)
  BY <1>0, <1>13 DEF Yield, queueVars, semVars, closeVars
<1>14. CASE WorkerPost(w)
  BY <1>0, <1>14 DEF WorkerPost, SemPost, queueVars, closeVars
<1> QED
  BY <1>1, <1>2, <1>3, <1>4, <1>5, <1>6, <1>7, <1>8, <1>9, <1>10, <1>11, <1>12,
     <1>13, <1>14 DEF Worker, Search, Wait, Execute

LEMMA DueIs ==
  /\ Due = IF semCount < 0 THEN -semCount ELSE 0
  /\ Due' = IF semCount' < 0 THEN -semCount' ELSE 0
BY DEF Due

\* A post() leaves a permit or a token, and what it takes off the count it gives in
\* tokens.
LEMMA PostCovers ==
  ASSUME Counts, Covered, SemPost, Sleepers' = Sleepers
  PROVE  Counts' /\ Covered' /\ (tokens' > 0 \/ semCount' > 0)
<1>1. /\ semCount \in Int /\ tokens \in Nat /\ semCount + 1 \in Int
      /\ tokens + 1 \in Int /\ tokens + 1 > 0
  BY DEF Counts
<1> SUFFICES ASSUME NEW n, n = Cardinality(Sleepers)
             PROVE  Counts' /\ Covered' /\ (tokens' > 0 \/ semCount' > 0)
  OBVIOUS
<1>2. n \in Nat /\ n <= MaxPermits /\ MaxPermits \in Nat /\ n <= tokens + Due
  BY SleepersFew DEF Covered
<1>3. Cardinality(Sleepers)' = n
  OBVIOUS
<1>4. semCount' = Capped(semCount + 1)
  BY DEF SemPost
<1>5. CASE semCount < 0
  <2>1. tokens' = Capped(tokens + 1)
    BY <1>5 DEF SemPost
  <2>2. tokens' \in Nat /\ tokens' > 0 /\ (tokens' = tokens + 1 \/ tokens' = MaxPermits)
    BY <1>1, <1>2, <2>1, CappedCounts
  <2>3. semCount' \in Int /\ (semCount' = semCount + 1 \/ semCount' = -MaxPermits)
    BY <1>1, <1>2, <1>4, <1>5, CappedCounts
  <2>4. Due = -semCount /\ Due' \in Nat /\ (Due' = Due - 1 \/ Due' = MaxPermits)
    <3>1. Due = -semCount
      BY <1>5, DueIs
    <3>2. CASE semCount' = semCount + 1 /\ semCount' < 0
      <4>1. Due' = -semCount'
        BY <3>2, DueIs
      <4> QED
        BY <1>1, <3>1, <3>2, <4>1
    <3>3. CASE semCount' = semCount + 1 /\ semCount' = 0
      BY <1>1, <3>1, <3>3, DueIs
    <3>4. CASE semCount' = -MaxPermits
      BY <1>2, <3>1, <3>4, DueIs
    <3> QED
      BY <1>1, <1>5, <2>3, <3>1, <3>2, <3>3, <3>4
  <2>5. n <= tokens' + Due'
    BY <1>1, <1>2, <1>5, <2>2, <2>4
  <2> QED
    BY <1>3, <2>2, <2>3, <2>5 DEF Counts, Covered
<1>6. CASE semCount >= 0
  <2>1. tokens' = tokens
    BY <1>1, <1>6 DEF SemPost
  <2>2. semCount' \in Int /\ semCount' > 0
    BY <1>1, <1>4, <1>6, CappedCounts
  <2>3. Due' = 0
    <3>1. ~ (semCount' < 0)
      BY <2>2
    <3> QED
      BY <3>1, DueIs
  <2>4. n <= tokens' + Due'
    <3>1. Due = 0
      BY <1>1, <1>6, DueIs
    <3> QED
      BY <1>2, <2>1, <2>3, <3>1
  <2> QED
    BY <1>1, <1>3, <2>1, <2>2, <2>4 DEF Counts, Covered
<1> QED
  BY <1>1, <1>5, <1>6

\* wait() counts itself.
LEMMA WaitCovers ==
  ASSUME Counts, Covered, semCount' = Capped(semCount - 1), tokens' = tokens,
         NEW w \in Workers, wpc[w] = "wait",
         \A v \in Workers : v # w => wpc'[v] = wpc[v],
         wpc'[w] = IF semCount >= 0 THEN "loop" ELSE "check"
  PROVE  Counts' /\ Covered'
<1>1. semCount \in Int /\ tokens \in Nat /\ semCount - 1 \in Int
  BY DEF Counts
<1>2. /\ IsFiniteSet(Sleepers) /\ Cardinality(Sleepers) \in Nat
      /\ Cardinality(Sleepers) <= tokens + Due
  BY SleepersFew DEF Covered
<1>3. Cardinality(Sleepers)' \in Nat /\ Cardinality(Sleepers)' <= MaxPermits
      /\ MaxPermits \in Nat
  <2>1. (Cardinality(Sleepers) \in Nat)' /\ (Cardinality(Sleepers) <= PoolSize)'
    BY SleepersFew, PTL
  <2> QED
    BY <2>1, SleepersFew
<1>4. CASE semCount >= 0
  <2>1. Sleepers' = Sleepers
    BY <1>4 DEF Sleepers, Sleeping
  <2>2. semCount' \in Int
    BY <1>1, CappedCounts
  <2>3. Due = 0 /\ Due' \in Nat
    BY <1>1, <1>4, <2>2 DEF Due
  <2> QED
    BY <1>1, <1>2, <2>1, <2>2, <2>3 DEF Counts, Covered
<1>5. CASE semCount < 0
  <2>1. Sleepers' = Sleepers \cup {w} /\ w \notin Sleepers
    BY <1>1, <1>5 DEF Sleepers, Sleeping
  <2>2. Cardinality(Sleepers)' = Cardinality(Sleepers) + 1
    BY <1>2, <2>1, FS_AddElement
  <2>3. semCount' \in Int /\ (semCount' = semCount - 1 \/ semCount' = -MaxPermits)
    BY <1>1, <1>3, <1>5, CappedCounts
  <2>4. Due = -semCount /\ (Due' = Due + 1 \/ Due' = MaxPermits)
    BY <1>1, <1>3, <1>5, <2>3 DEF Due
  <2>5. Cardinality(Sleepers)' <= tokens' + Due'
    BY <1>1, <1>2, <1>3, <1>5, <2>2, <2>4
  <2> QED
    BY <1>1, <2>3, <2>5 DEF Counts, Covered
<1> QED
  BY <1>1, <1>4, <1>5

\* The worker that gets a token is a sleeper less.
LEMMA TokenCovers ==
  ASSUME Counts, Covered, semCount' = semCount, tokens > 0, tokens' = tokens - 1,
         NEW w \in Workers, wpc[w] = "asleep", wpc'[w] = "loop",
         \A v \in Workers : v # w => wpc'[v] = wpc[v]
  PROVE  Counts' /\ Covered'
<1>1. semCount \in Int /\ tokens \in Nat /\ Due \in Int /\ Due' = Due
  BY DEF Counts, Due
<1>2. /\ IsFiniteSet(Sleepers) /\ Cardinality(Sleepers) \in Nat
      /\ Cardinality(Sleepers) <= tokens + Due
  BY SleepersFew DEF Covered
<1>3. Sleepers' = Sleepers \ {w} /\ w \in Sleepers
  BY DEF Sleepers, Sleeping
<1>4. Cardinality(Sleepers)' = Cardinality(Sleepers) - 1
  BY <1>2, <1>3, FS_RemoveElement
<1> QED
  BY <1>1, <1>2, <1>4 DEF Counts, Covered

LEMMA SameCovers ==
  ASSUME Counts, Covered, UNCHANGED <<semCount, tokens>>,
         \A v \in Workers : wpc'[v] \in Sleeping <=> wpc[v] \in Sleeping
  PROVE  Counts' /\ Covered'
<1>1. Sleepers' = Sleepers
  BY DEF Sleepers
<1> QED
  BY <1>1 DEF Counts, Covered, Due

\* Nobody but its worker puts something into a deque, and the worker looks there
\* before it looks elsewhere.
LEMMA WorkerBare ==
  ASSUME PlacesInv, BareDeques, NEW w \in Workers, Worker(w)
  PROVE  BareDeques'
<1>0. /\ wpc \in [Workers -> {"loop", "local", "global", "pick", "steal", "wait",
                              "check", "asleep", "run", "post", "exited"}]
      /\ wsq \in [Workers -> Seq(Tasks)]
  BY DEF PlacesInv, Typed
<1>1. ASSUME UNCHANGED wsq,
             \A v \in Workers : v # w => wpc'[v] = wpc[v],
             wpc'[w] \in {"global", "pick", "steal", "wait", "check", "asleep"}
               => wsq[w] = <<>>
      PROVE  BareDeques'
  BY <1>1 DEF BareDeques
<1>2. CASE Loop(w)
  BY <1>0, <1>1, <1>2 DEF Loop, WorkerAt
<1>3. CASE TakeLocal(w)
  <2>1. CASE wsq[w] = <<>>
    BY <1>0, <1>1, <1>3, <2>1 DEF TakeLocal, WorkerAt
  <2>2. CASE wsq[w] # <<>>
    BY <1>0, <1>3, <2>2 DEF TakeLocal, Take, WorkerAt, BareDeques
  <2> QED
    BY <2>1, <2>2
<1>4. CASE TakeGlobal(w)
  BY <1>0, <1>1, <1>4 DEF TakeGlobal, Take, WorkerAt, BareDeques
<1>5. CASE \E v \in Workers : PickVictim(w, v)
  BY <1>0, <1>1, <1>5 DEF PickVictim, WorkerAt, BareDeques
<1>6. CASE StealHit(w)
  <2> SUFFICES ASSUME NEW v, v = Last(scan[w]) PROVE BareDeques'
    OBVIOUS
  <2>1. /\ wsq[v] # <<>> /\ wsq' = [wsq EXCEPT ![v] = Tail(wsq[v])]
        /\ wpc' = [wpc EXCEPT ![w] = "run"]
    BY <1>6 DEF StealHit, Take, WorkerAt
  <2> QED
    BY <1>0, <2>1 DEF BareDeques
<1>7. CASE StealMiss(w) \/ StealSelf(w)
  BY <1>0, <1>1, <1>7 DEF StealMiss, StealSelf, WorkerAt, BareDeques
<1>8. CASE WaitCount(w)
  BY <1>0, <1>1, <1>8 DEF WaitCount, WorkerAt, BareDeques
<1>9. CASE WaitCheck(w) \/ WaitToken(w)
  BY <1>0, <1>1, <1>9 DEF WaitCheck, WaitToken, WorkerAt, BareDeques
<1>10. CASE Run(w) \/ Join(w)
  <2>1. Complete(w)
    BY <1>10 DEF Run, Join
  <2> QED
    BY <1>0, <1>1, <2>1 DEF Complete, WorkerAt
<1>11. CASE Fork(w)
  <2>1. /\ \A v \in Workers : v # w => wsq'[v] = wsq[v]
        /\ wpc' = [wpc EXCEPT ![w] = "post"]
    BY <1>0, <1>11 DEF Fork, WorkerAt
  <2> QED
    BY <1>0, <2>1 DEF BareDeques
<1>12. CASE Yield(w)
  <2>1. /\ \A v \in Workers : v # w => wsq'[v] = wsq[v]
        /\ wpc' = [wpc EXCEPT ![w] = "post"]
    BY <1>0, <1>12 DEF Yield, WorkerAt
  <2> QED
    BY <1>0, <2>1 DEF BareDeques
<1>13. CASE WorkerPost(w)
  BY <1>0, <1>1, <1>13 DEF WorkerPost, WorkerAt
<1> QED
  BY <1>2, <1>3, <1>4, <1>5, <1>6, <1>7, <1>8, <1>9, <1>10, <1>11, <1>12, <1>13
  DEF Worker, Search, Wait, Execute

\* While the pool is open, a worker's step keeps the bargain.
LEMMA WorkerSleep ==
  ASSUME IInv, SleepInv, ~ closed, NEW w \in Workers, Worker(w)
  PROVE  SleepInv'
<1>1. /\ PlacesInv /\ semActive /\ Counts /\ Covered /\ BareDeques
      /\ (Waits => Wakeful) /\ ~ shtdwn /\ ~ shtdwnNow
  BY DEF IInv, ClosedFirst, SleepInv
<1>2. /\ UNCHANGED <<closed, semActive, spc>>
      /\ \A v \in Workers : v # w => wpc'[v] = wpc[v]
      /\ ToSet(queue') \subseteq ToSet(queue)
  BY <1>1, WorkerDoes
<1>3. Waits' => Waits
  BY <1>2 DEF Waits
<1>4. BareDeques'
  BY <1>1, WorkerBare
<1> SUFFICES Counts' /\ Covered' /\ (Waits' => Wakeful')
  BY <1>1, <1>2, <1>4 DEF SleepInv
<1>5. ASSUME wpc'[w] \in Looking PROVE Wakeful'
  BY <1>5 DEF Wakeful
<1>6. CASE /\ UNCHANGED <<semCount, tokens>>
           /\ wpc[w] \notin Sleeping /\ wpc'[w] \in Looking
  <2>1. wpc'[w] \notin Sleeping
    BY <1>6 DEF Looking, Sleeping
  <2> QED
    BY <1>1, <1>2, <1>5, <1>6, <2>1, SameCovers
<1>7. CASE /\ UNCHANGED <<semCount, tokens>>
           /\ wpc[w] \notin Sleeping /\ wpc'[w] = "pick" /\ queue' = <<>>
  <2>1. wpc'[w] \notin Sleeping
    BY <1>7 DEF Sleeping
  <2>2. ~ Waits'
    BY <1>7 DEF Waits, ToSet
  <2> QED
    BY <1>1, <1>2, <1>7, <2>1, <2>2, SameCovers
<1>8. CASE /\ UNCHANGED <<semCount, tokens>>
           /\ wpc[w] \in {"pick", "steal"} /\ wpc'[w] \in {"steal", "wait"}
  <2>1. wpc[w] \notin Sleeping /\ wpc'[w] \notin Sleeping /\ wpc[w] \notin Looking
    BY <1>8 DEF Sleeping, Looking
  <2>2. Wakeful => Wakeful'
    BY <1>2, <1>8, <2>1 DEF Wakeful
  <2> QED
    BY <1>1, <1>2, <1>3, <1>8, <2>1, <2>2, SameCovers
<1>9. CASE /\ wpc[w] = "wait" /\ semCount' = Capped(semCount - 1)
           /\ UNCHANGED tokens
           /\ wpc'[w] = IF semCount >= 0 THEN "loop" ELSE "check"
  <2>1. Counts' /\ Covered'
    BY <1>1, <1>2, <1>9, WaitCovers
  <2>2. CASE semCount >= 0
    BY <1>5, <1>9, <2>1, <2>2 DEF Looking
  <2>3. CASE ~ (semCount >= 0)
    <3>1. ~ (semCount > 0) /\ wpc[w] \notin Looking
      BY <1>1, <1>9, <2>3 DEF Counts, Looking
    <3>2. Wakeful => Wakeful'
      BY <1>2, <1>9, <3>1 DEF Wakeful
    <3> QED
      BY <1>1, <1>3, <2>1, <3>2
  <2> QED
    BY <2>2, <2>3
<1>10. CASE UNCHANGED <<semCount, tokens>> /\ wpc[w] = "check" /\ wpc'[w] = "asleep"
  <2>1. wpc[w] \in Sleeping /\ wpc'[w] \in Sleeping /\ wpc[w] \notin Looking
    BY <1>10 DEF Sleeping, Looking
  <2>2. Wakeful => Wakeful'
    BY <1>2, <1>10, <2>1 DEF Wakeful
  <2> QED
    BY <1>1, <1>2, <1>3, <1>10, <2>1, <2>2, SameCovers
<1>11. CASE /\ wpc[w] = "asleep" /\ wpc'[w] = "loop"
            /\ tokens > 0 /\ tokens' = tokens - 1 /\ UNCHANGED semCount
  <2>1. Wakeful'
    BY <1>5, <1>11 DEF Looking
  <2> QED
    BY <1>1, <1>2, <1>11, <2>1, TokenCovers
<1>12. CASE wpc[w] = "post" /\ wpc'[w] \in Looking /\ SemPost
  <2>1. wpc[w] \notin Sleeping /\ wpc'[w] \notin Sleeping
    BY <1>12 DEF Sleeping, Looking
  <2>2. Sleepers' = Sleepers
    BY <1>2, <2>1 DEF Sleepers
  <2> QED
    BY <1>1, <1>5, <1>12, <2>2, PostCovers
<1> QED
  BY <1>1, <1>6, <1>7, <1>8, <1>9, <1>10, <1>11, <1>12, WorkerDoes

\* What is linked waits for its post() before it counts; the post leaves a permit or a
\* token.
LEMMA SubmitSleep ==
  ASSUME IInv, SleepInv, ~ closed, NEW r \in Roots, Submit(r)
  PROVE  SleepInv'
<1>1. /\ semActive /\ Counts /\ Covered /\ BareDeques /\ (Waits => Wakeful)
      /\ queue \in Seq(Roots) /\ spc \in [Roots -> {"idle", "put", "link", "post",
                                                    "accepted", "rejected"}]
  BY DEF IInv, PlacesInv, Typed, SleepInv
<1>2. UNCHANGED <<closed, semActive, wpc, wsq>>
  BY DEF Submit, SubmitCheck, PutCheck, PutLink, PutPost, SemPost, semVars, workerVars,
         closeVars
<1>3. BareDeques'
  BY <1>1, <1>2 DEF BareDeques
<1>4. Sleepers' = Sleepers
  BY <1>2 DEF Sleepers
<1> SUFFICES Counts' /\ Covered' /\ (Waits' => Wakeful')
  BY <1>1, <1>2, <1>3 DEF SleepInv
<1>5. CASE PutPost(r)
  BY <1>1, <1>4, <1>5, PostCovers DEF PutPost, Wakeful
<1>6. CASE SubmitCheck(r) \/ PutCheck(r) \/ PutLink(r)
  <2>1. UNCHANGED <<semCount, tokens>>
    BY <1>6 DEF SubmitCheck, PutCheck, PutLink, semVars
  <2>2. Counts' /\ Covered'
    BY <1>1, <1>2, <2>1, SameCovers
  <2>3. spc'[r] # "accepted" /\ \A s \in Roots : s # r => spc'[s] = spc[s]
    BY <1>1, <1>6 DEF SubmitCheck, PutCheck, PutLink, SubmitAt
  <2>4. ToSet(queue') \subseteq ToSet(queue) \cup {r} /\ ToSet(queue) \subseteq Roots
    <3>1. CASE SubmitCheck(r) \/ PutCheck(r)
      BY <1>1, <3>1, ElementsOf DEF SubmitCheck, PutCheck, queueVars
    <3>2. CASE PutLink(r)
      <4>1. queue' = Append(queue, r)
        BY <3>2 DEF PutLink
      <4> QED
        BY <1>1, <4>1, AppendProperties, ElementsOf DEF ToSet
    <3> QED
      BY <1>6, <3>1, <3>2
  <2>5. Waits' => Waits
    BY <2>3, <2>4 DEF Waits
  <2>6. Wakeful => Wakeful'
    BY <1>2, <2>1 DEF Wakeful
  <2> QED
    BY <1>1, <2>2, <2>5, <2>6
<1> QED
  BY <1>5, <1>6 DEF Submit

LEMMA NeverOpens ==
  ASSUME closed, [Next]_vars
  PROVE  closed'
<1>1. CASE UNCHANGED vars
  BY <1>1 DEF vars, closeVars
<1>2. ASSUME NEW r \in Roots, Submit(r) PROVE closed'
  BY <1>2 DEF Submit, SubmitCheck, PutCheck, PutLink, PutPost, closeVars
<1>3. ASSUME NEW w \in Workers, Worker(w) PROVE closed'
  <2>1. CASE Loop(w) \/ Wait(w)
    BY <2>1 DEF Loop, Wait, WaitCount, WaitCheck, WaitToken, closeVars
  <2>2. CASE Search(w)
    BY <2>2 DEF Search, TakeLocal, TakeGlobal, PickVictim, StealHit, StealMiss, StealSelf,
                closeVars
  <2>3. CASE Execute(w)
    BY <2>3 DEF Execute, Run, Join, Complete, Fork, Yield, WorkerPost, closeVars
  <2> QED
    BY <1>3, <2>1, <2>2, <2>3 DEF Worker
<1>4. ASSUME NEW c \in AllClosers, Close(c) PROVE closed'
  BY <1>4, CloserFlags
<1> QED
  BY <1>1, <1>2, <1>3, <1>4 DEF Next, AllClosers

LEMMA NextSleep == IInv /\ SleepInv /\ [Next]_vars => SleepInv'
<1> SUFFICES ASSUME IInv, SleepInv, [Next]_vars PROVE SleepInv'
  OBVIOUS
<1>1. CASE UNCHANGED vars
  <2>1. UNCHANGED <<closed, semActive, semCount, tokens, wpc, wsq, queue, spc>>
    BY <1>1 DEF vars, queueVars, semVars, workerVars, closeVars
  <2> QED
    BY <2>1 DEF SleepInv, Counts, Covered, Sleepers, Due, BareDeques, Waits, Wakeful
<1>2. CASE closed
  <2>1. closed'
    BY <1>2, NeverOpens
  <2> QED
    BY <2>1 DEF SleepInv
<1>3. ASSUME ~ closed, NEW c \in AllClosers, Close(c) PROVE SleepInv'
  <2>1. closed'
    BY <1>3, CloserFlags DEF IInv, ClosedFirst
  <2> QED
    BY <2>1 DEF SleepInv
<1> QED
  BY <1>1, <1>2, <1>3, SubmitSleep, WorkerSleep DEF Next, AllClosers

LEMMA InitSleep == Init => SleepInv
<1> SUFFICES ASSUME Init PROVE SleepInv
  OBVIOUS
<1>1. semActive /\ Counts /\ BareDeques
  BY DEF Init, Counts, BareDeques
<1>2. Sleepers = {} /\ Due = 0 /\ tokens = 0
  BY DEF Init, Sleepers, Sleeping, Due
<1>3. Covered
  BY <1>2, FS_EmptySet DEF Covered
<1>4. ~ Waits
  BY DEF Init, Waits, ToSet
<1> QED
  BY <1>1, <1>3, <1>4 DEF SleepInv

\* While the pool is open and all its workers sleep without a token, every task that
\* was accepted or forked is done, for any number of workers, tasks and closers: a
\* post() is never lost between a worker's search and its wait().
THEOREM NoneSleepsBesideTask == Spec => []NobodySleepsBesideTask
<1>1. IInv /\ SleepInv => NobodySleepsBesideTask
  <2> SUFFICES ASSUME IInv, SleepInv, ~ closed, tokens = 0,
                      \A w \in Workers : wpc[w] = "asleep",
                      NEW t \in Tasks, Pending(t)
               PROVE  t \in Roots /\ spc[t] = "post"
    BY DEF NobodySleepsBesideTask
  <2>1. /\ PlacesInv /\ Counts /\ Covered /\ BareDeques /\ (Waits => Wakeful)
    BY DEF IInv, SleepInv
  <2>2. \A w \in Workers : wsq[w] = <<>> /\ active[w] = None
    BY <2>1 DEF BareDeques, PlacesInv, Working
  <2>3. t \in ToSet(queue)
    <3>1. Placed(t) /\ t # None
      BY <2>1, Kinds DEF PlacesInv, PlacedArePending
    <3>2. \A w \in Workers : t \notin ToSet(wsq[w])
      BY <2>2 DEF ToSet
    <3> QED
      BY <2>2, <3>1, <3>2 DEF Placed
  <2>4. t \in Roots
    BY <2>1, <2>3, PlacesHoldTasks DEF PlacesInv
  <2>5. spc[t] \in {"post", "accepted"}
    BY <2>4, RootPending
  <2>6. ~ Wakeful
    <3>1. Sleepers = Workers
      BY DEF Sleepers, Sleeping
    <3>2. Cardinality(Sleepers) = PoolSize /\ PoolSize > 0 /\ PoolSize \in Nat
      BY <3>1, PoolSizePos, FS_Interval DEF Workers
    <3>3. ~ (semCount > 0)
      <4> SUFFICES ASSUME semCount > 0 PROVE FALSE
        OBVIOUS
      <4>1. ~ (semCount < 0)
        BY <2>1 DEF Counts
      <4>2. Due = 0
        BY <4>1, DueIs
      <4> QED
        BY <2>1, <3>2, <4>2 DEF Covered
    <3>4. \A w \in Workers : wpc[w] \notin Looking
      BY DEF Looking
    <3> QED
      BY <3>3, <3>4 DEF Wakeful
  <2>7. ~ Waits
    BY <2>1, <2>6
  <2> QED
    BY <2>3, <2>4, <2>5, <2>7 DEF Waits
<1> QED
  BY <1>1, InitIInv, NextIInv, InitSleep, NextSleep, PTL DEF Spec

=============================================================================
