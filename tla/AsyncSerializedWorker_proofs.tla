-------------------- MODULE AsyncSerializedWorker_proofs --------------------
(***************************************************************************)
(* Proofs about AsyncSerializedWorker for any set of posting threads, any  *)
(* thread pool and any bounds.                                             *)
(***************************************************************************)
EXTENDS AsyncSerializedWorker, SequenceTheorems, TLAPS

(* Taking the head of a queue empties it exactly when it was the only item. *)
LEMMA TailEmpty ==
  ASSUME NEW S, NEW s \in Seq(S), s # <<>>
  PROVE  Tail(s) = <<>> <=> ~(Len(s) > 1)
<1>1. Len(s) \in Nat \ {0} /\ Tail(s) \in Seq(S) /\ Len(Tail(s)) = Len(s) - 1
  BY EmptySeq, HeadTailProperties
<1>2. Tail(s) = <<>> <=> Len(Tail(s)) = 0
  BY <1>1, EmptySeq
<1>3. QED
  BY <1>1, <1>2

(* Every field keeps its type in every step of every use of the queue. *)
LEMMA TypeStep == TypeOK /\ [Next]_vars => TypeOK'
<1> USE DEF TypeOK, Threads, Invokers, Stages, NoItem
<1> SUFFICES ASSUME TypeOK, [Next]_vars PROVE TypeOK'
  OBVIOUS
<1>1. ASSUME NEW p \in Posters, Post(p) PROVE TypeOK'
  <2>1. (queue \in Seq(Nat \ {NoItem}))' /\ posted' \in Nat
    BY <1>1 DEF Post, AddItem, MustNotify
  <2>2. hasPendingPost' \in BOOLEAN /\ stage' \in [Threads -> Stages]
    BY <1>1 DEF Post, AddItem, MustNotify
  <2>3. isAsyncMode' \in BOOLEAN /\ isEnabled' \in BOOLEAN /\ signal' \in BOOLEAN
    BY <1>1 DEF Post, AddItem, MustNotify
  <2>4. UNCHANGED <<submitted, worker, invoking, client, calls>>
    BY <1>1 DEF Post, AddItem, MustNotify
  <2>5. QED
    BY <2>1, <2>2, <2>3, <2>4
<1>2. ASSUME NEW p \in Posters, NEW n \in 1..MaxBatch, PostArray(p, n) PROVE TypeOK'
  <2>1. n \in Nat \ {0}
    BY BoundsAreNat
  <2>2. [i \in 1..n |-> posted + i] \in Seq(Nat \ {0})
    BY <2>1
  <2>3. queue' \in Seq(Nat \ {0})
    BY <2>2, <1>2 DEF PostArray, ArrayItem
  <2>4. posted' \in Nat /\ submitted' \in Nat
    BY <2>1, <1>2 DEF PostArray, ArrayItem
  <2>5. signal' \in BOOLEAN
    BY <1>2 DEF PostArray, ArrayItem
  <2>6. QED
    BY <2>3, <2>4, <2>5, <1>2 DEF PostArray, ArrayItem
<1>3. ASSUME NEW t \in Threads, Notify(t) PROVE TypeOK'
  <2>1. CASE NotifyCheck(t)
    BY <2>1 DEF NotifyCheck
  <2>2. CASE NotifyMode(t)
    BY <2>2 DEF NotifyMode
  <2>3. CASE NotifySubmit(t)
    BY <2>3 DEF NotifySubmit
  <2>4. CASE NotifyRaise(t)
    BY <2>4 DEF NotifyRaise
  <2>5. CASE NotifySet(t)
    BY <2>5 DEF NotifySet
  <2>6. QED
    BY <1>3, <2>1, <2>2, <2>3, <2>4, <2>5 DEF Notify
<1>4. ASSUME NEW w \in Workers, WorkerStart(w) PROVE TypeOK'
  BY <1>4 DEF WorkerStart
<1>5. ASSUME NEW w \in Workers, WorkerProc(w) PROVE TypeOK'
  <2>1. CASE WorkerTake(w)
    <3>1. Head(queue) \in Nat /\ Tail(queue) \in Seq(Nat \ {0})
      BY <2>1 DEF WorkerTake
    <3>2. invoking' \in [Workers \cup {Client} -> Nat]
      BY <2>1, <3>1 DEF WorkerTake
    <3>3. worker' \in [Workers -> {"off", "loop", "invoke"}]
      BY <2>1 DEF WorkerTake
    <3>4. (queue \in Seq(Nat \ {NoItem}))'
      BY <2>1, <3>1 DEF WorkerTake
    <3>5. QED
      BY <2>1, <3>2, <3>3, <3>4 DEF WorkerTake
  <2>2. CASE WorkerBreak(w)
    BY <2>2 DEF WorkerBreak, FlagAfterBreak
  <2>3. CASE WorkerReturn(w)
    BY <2>3 DEF WorkerReturn
  <2>4. QED
    BY <1>5, <2>1, <2>2, <2>3 DEF WorkerProc
<1>6. CASE Disable
  BY <1>6 DEF Disable
<1>7. CASE Purge
  <2>1. queue' \in Seq(Nat \ {0})
    BY <1>7 DEF Purge
  <2>2. QED
    BY <1>7, <2>1 DEF Purge
<1>8. CASE ClientStep
  <2>1. CASE ClientEnter
    <3>1. isAsyncMode' \in BOOLEAN /\ stage' \in [Threads -> Stages]
      BY <2>1 DEF ClientEnter, SetAsyncMode, LeavesItems
    <3>2. calls' \in Nat /\ client' \in {"out", "wait", "consume"}
      BY <2>1 DEF ClientEnter
    <3>3. UNCHANGED <<queue, hasPendingPost, isEnabled, submitted, worker,
                      invoking, signal, posted>>
      BY <2>1 DEF ClientEnter
    <3>4. QED
      BY <3>1, <3>2, <3>3
  <2>2. CASE ClientWake
    BY <2>2 DEF ClientWake
  <2>3. CASE ClientTake
    BY <2>3 DEF ClientTake
  <2>4. CASE ClientReturn
    BY <2>4 DEF ClientReturn
  <2>5. CASE ClientDrained
    BY <2>5 DEF ClientDrained
  <2>6. CASE ClientLeave
    BY <2>6 DEF ClientLeave, SetAsyncMode, LeavesItems
  <2>7. QED
    BY <1>8, <2>1, <2>2, <2>3, <2>4, <2>5, <2>6 DEF ClientStep
<1>9. CASE UNCHANGED vars
  BY <1>9 DEF vars
<1>10. QED
  BY <1>1, <1>2, <1>3, <1>4, <1>5, <1>6, <1>7, <1>8, <1>9 DEF Next, AsyncNext

(* At first nothing is queued and nobody works. *)
LEMMA TypeInit == Init => TypeOK
<1> SUFFICES ASSUME Init PROVE TypeOK
  OBVIOUS
<1>1. queue \in Seq(Nat \ {NoItem})
  BY DEF Init
<1>2. QED
  BY <1>1 DEF Init, TypeOK, Threads, Invokers, Stages, NoItem

(* The fields and the threads' positions have their types, in both uses. *)
THEOREM TypeCorrect == Spec => []TypeOK
BY TypeInit, TypeStep, PTL DEF Spec

-----------------------------------------------------------------------------
(***************************************************************************)
(* The pure asynchronous use.  OneWorker is inductive together with the    *)
(* mode never changing and with "invoking" agreeing with the position of   *)
(* each pool thread: AddItem starts a notification only when               *)
(* _hasPendingPost is clear, hence when there is no other token; the token *)
(* then passes from the notifier to the pool to one WorkerProc, which      *)
(* clears the flag in the same locked section in which it stops.           *)
(***************************************************************************)
AsyncUse ==
  /\ isAsyncMode
  /\ invoking[Client] = NoItem
  /\ \A t \in Threads : stage[t] \notin {"raise", "set"}

InvokeConsistent ==
  \A w \in Workers : invoking[w] # NoItem <=> worker[w] = "invoke"

AInv == AsyncUse /\ InvokeConsistent /\ OneWorker

(* At first. *)
LEMMA AInvInit == Init => AInv
<1> SUFFICES ASSUME Init PROVE AInv
  OBVIOUS
<1>1. AsyncUse
  BY DEF Init, AsyncUse, Threads, Invokers, NoItem
<1>2. InvokeConsistent
  BY DEF Init, InvokeConsistent, Invokers, NoItem
<1>3. OneWorker
  BY DEF Init, OneWorker, Running, Notifying, Threads
<1>4. QED
  BY <1>1, <1>2, <1>3 DEF AInv

(* Every step of an Async worker keeps it. *)
LEMMA AInvStep == TypeOK /\ AInv /\ [AsyncNext]_vars => AInv'
<1> USE DEF TypeOK, AInv, AsyncUse, InvokeConsistent, OneWorker, Running,
            Notifying, Threads, Invokers, NoItem
<1> SUFFICES ASSUME TypeOK, AInv, [AsyncNext]_vars PROVE AInv'
  OBVIOUS
<1> USE ClientIsAlone
<1>1. ASSUME NEW p \in Posters, Post(p) PROVE AInv'
  <2>1. CASE hasPendingPost
    BY <1>1, <2>1 DEF Post, AddItem, MustNotify
  <2>2. CASE ~hasPendingPost
    BY <1>1, <2>2 DEF Post, AddItem, MustNotify
  <2>3. QED
    BY <2>1, <2>2
<1>2. ASSUME NEW p \in Posters, NEW n \in 1..MaxBatch, PostArray(p, n) PROVE AInv'
  <2>1. CASE hasPendingPost
    BY <1>2, <2>1 DEF PostArray, ArrayItem
  <2>2. CASE ~hasPendingPost
    BY <1>2, <2>2 DEF PostArray, ArrayItem
  <2>3. QED
    BY <2>1, <2>2
<1>3. ASSUME NEW t \in Posters, Notify(t) PROVE AInv'
  <2>1. CASE NotifyCheck(t)
    BY <2>1 DEF NotifyCheck
  <2>2. CASE NotifyMode(t)
    BY <2>2 DEF NotifyMode
  <2>3. CASE NotifySubmit(t)
    BY <2>3 DEF NotifySubmit
  <2>4. CASE NotifyRaise(t) \/ NotifySet(t)
    BY <2>4 DEF NotifyRaise, NotifySet
  <2>5. QED
    BY <1>3, <2>1, <2>2, <2>3, <2>4 DEF Notify
<1>4. ASSUME NEW w \in Workers, WorkerStart(w) PROVE AInv'
  BY <1>4 DEF WorkerStart
<1>5. ASSUME NEW w \in Workers, WorkerProc(w) PROVE AInv'
  <2>1. CASE WorkerTake(w)
    <3>1. Head(queue) # 0
      BY <2>1 DEF WorkerTake
    <3>2. QED
      BY <2>1, <3>1 DEF WorkerTake
  <2>2. CASE WorkerBreak(w)
    <3>1. hasPendingPost' = FALSE /\ submitted' = 0
      BY <2>2 DEF WorkerBreak, FlagAfterBreak
    <3>2. \A v \in Workers : worker'[v] = "off"
      BY <2>2 DEF WorkerBreak, FlagAfterBreak
    <3>3. \A t \in Threads : stage'[t] = "idle"
      BY <2>2 DEF WorkerBreak, FlagAfterBreak
    <3>4. InvokeConsistent' /\ AsyncUse'
      BY <2>2 DEF WorkerBreak, FlagAfterBreak
    <3>5. QED
      BY <3>1, <3>2, <3>3, <3>4
  <2>3. CASE WorkerReturn(w)
    BY <2>3 DEF WorkerReturn
  <2>4. QED
    BY <1>5, <2>1, <2>2, <2>3 DEF WorkerProc
<1>6. CASE Disable
  BY <1>6 DEF Disable
<1>7. CASE Purge
  BY <1>7 DEF Purge
<1>8. CASE UNCHANGED vars
  BY <1>8 DEF vars
<1>9. QED
  BY <1>1, <1>2, <1>3, <1>4, <1>5, <1>6, <1>7, <1>8 DEF AsyncNext

(* The flag, the pool and the notifiers never disagree, so there is never  *)
(* more than one WorkerProc for an asynchronous queue.                     *)
THEOREM AsyncOneWorker == AsyncSpec => [](TypeOK /\ AInv)
<1>1. TypeOK /\ [AsyncNext]_vars => TypeOK'
  BY TypeStep DEF Next
<1>2. QED
  BY TypeInit, AInvInit, AInvStep, <1>1, PTL DEF AsyncSpec

(* Events of an asynchronous queue are dispatched one at a time. *)
THEOREM AsyncSerialized == AsyncSpec => []Serialized
<1>1. TypeOK /\ AInv => Serialized
  BY ClientIsAlone DEF AInv, AsyncUse, InvokeConsistent, OneWorker, Running,
     Serialized, Invokers
<1>2. QED
  BY <1>1, AsyncOneWorker, PTL

-----------------------------------------------------------------------------
(***************************************************************************)
(* The use with a synchronous client.  NoLostWakeup needs two facts about  *)
(* the flag: an item in the queue implies _hasPendingPost, so OnWorkItem-  *)
(* Pending never gives up on one; and if the flag is still set although    *)
(* the queue is empty, a WorkerProc is inside its loop and will look at    *)
(* the queue again, which is what AddItem relies on when it stays silent.  *)
(***************************************************************************)
FlagCovers == queue # <<>> => hasPendingPost

FlagMeansRunning ==
  isEnabled /\ hasPendingPost /\ queue = <<>> => \E w \in Workers : Running(w)

ModeIsClient == isAsyncMode <=> client = "out"

LInv == ModeIsClient /\ FlagCovers /\ FlagMeansRunning /\ NoLostWakeup

(* At first. *)
LEMMA LInvInit == Init => LInv
BY DEF Init, LInv, ModeIsClient, FlagCovers, FlagMeansRunning, NoLostWakeup

(* Every step keeps it. *)
LEMMA LInvStep == TypeOK /\ LInv /\ [Next]_vars => LInv'
<1> USE DEF TypeOK, LInv, ModeIsClient, FlagCovers, FlagMeansRunning,
            NoLostWakeup, Running, WillSubmit, WillSignal, Threads, Invokers,
            NoItem
<1> USE ClientIsAlone
<1> SUFFICES ASSUME TypeOK, LInv, [Next]_vars PROVE LInv'
  OBVIOUS
<1>1. ASSUME NEW p \in Posters, Post(p) PROVE LInv'
  <2>0. queue' # <<>>
    BY <1>1 DEF Post, AddItem, MustNotify
  <2>1. CASE ~hasPendingPost \/ ~isAsyncMode
    <3>1. stage'[p] = "check" /\ hasPendingPost'
      BY <1>1, <2>1 DEF Post, AddItem, MustNotify
    <3>2. QED
      BY <1>1, <2>0, <3>1 DEF Post, AddItem, MustNotify
  <2>2. CASE hasPendingPost /\ isAsyncMode
    <3>1. UNCHANGED <<stage, submitted, worker, hasPendingPost, isAsyncMode, client>>
      BY <1>1, <2>2 DEF Post, AddItem, MustNotify
    <3>2. isEnabled
      BY <1>1 DEF Post, AddItem, MustNotify
    <3>3. \/ submitted > 0
          \/ \E w \in Workers : Running(w)
          \/ \E t \in Threads : WillSubmit(t)
      BY <2>2, <3>2
    <3>4. QED
      BY <2>0, <2>2, <3>1, <3>3
  <2>3. QED
    BY <2>1, <2>2
<1>2. ASSUME NEW p \in Posters, NEW n \in 1..MaxBatch, PostArray(p, n) PROVE LInv'
  <2>0. n \in Nat \ {0}
    BY BoundsAreNat
  <2>1. queue' # <<>> /\ hasPendingPost' /\ isEnabled
    <3>1. DEFINE s == [i \in 1..n |-> posted + i]
    <3>2. s \in Seq(Nat) /\ Len(s) = n
      BY <2>0
    <3>3. Len(queue \o s) = Len(queue) + n
      BY <3>2
    <3>4. queue \o s # <<>>
      <4> HIDE DEF s
      <4> QED
        BY <2>0, <3>2, <3>3
    <3>5. QED
      BY <1>2, <3>4 DEF PostArray, ArrayItem
  <2>2. UNCHANGED <<isAsyncMode, client, stage, worker>>
    BY <1>2 DEF PostArray, ArrayItem
  <2>3. CASE ~isAsyncMode
    <3>1. signal' = TRUE
      BY <1>2, <2>3 DEF PostArray, ArrayItem
    <3>2. QED
      BY <2>1, <2>2, <2>3, <3>1
  <2>4. CASE isAsyncMode /\ ~hasPendingPost
    <3>1. submitted' > 0
      BY <1>2, <2>4 DEF PostArray, ArrayItem
    <3>2. QED
      BY <2>1, <2>2, <2>4, <3>1
  <2>5. CASE isAsyncMode /\ hasPendingPost
    <3>1. submitted' = submitted
      BY <1>2, <2>5 DEF PostArray, ArrayItem
    <3>2. QED
      BY <2>1, <2>2, <2>5, <3>1
  <2>6. QED
    BY <2>3, <2>4, <2>5
<1>3. ASSUME NEW t \in Threads, Notify(t) PROVE LInv'
  <2>1. CASE NotifyCheck(t)
    BY <2>1 DEF NotifyCheck
  <2>2. CASE NotifyMode(t)
    BY <2>2 DEF NotifyMode
  <2>3. CASE NotifySubmit(t)
    BY <2>3 DEF NotifySubmit
  <2>4. CASE NotifyRaise(t)
    BY <2>4 DEF NotifyRaise
  <2>5. CASE NotifySet(t)
    BY <2>5 DEF NotifySet
  <2>6. QED
    BY <1>3, <2>1, <2>2, <2>3, <2>4, <2>5 DEF Notify
<1>4. ASSUME NEW w \in Workers, WorkerStart(w) PROVE LInv'
  BY <1>4 DEF WorkerStart
<1>5. ASSUME NEW w \in Workers, WorkerProc(w) PROVE LInv'
  <2>1. CASE WorkerTake(w)
    BY <2>1 DEF WorkerTake
  <2>2. CASE WorkerBreak(w)
    BY <2>2 DEF WorkerBreak, FlagAfterBreak
  <2>3. CASE WorkerReturn(w)
    BY <2>3 DEF WorkerReturn
  <2>4. QED
    BY <1>5, <2>1, <2>2, <2>3 DEF WorkerProc
<1>6. CASE Disable
  BY <1>6 DEF Disable
<1>7. CASE Purge
  BY <1>7 DEF Purge
<1>8. CASE ClientStep
  <2>1. CASE ClientEnter
    BY <2>1 DEF ClientEnter, SetAsyncMode, LeavesItems
  <2>2. CASE ClientWake
    BY <2>2 DEF ClientWake
  <2>3. CASE ClientTake
    <3>1. queue' = <<>> <=> ~(Len(queue) > 1)
      BY <2>3, TailEmpty DEF ClientTake
    <3>2. hasPendingPost' <=> queue' # <<>>
      <4>1. hasPendingPost
        BY <2>3 DEF ClientTake
      <4>2. hasPendingPost' = (hasPendingPost /\ Len(queue) > 1)
        BY <2>3 DEF ClientTake
      <4>3. QED
        BY <3>1, <4>1, <4>2, Zenon
    <3>3. client' = "consume" /\ ~isAsyncMode'
      BY <2>3 DEF ClientTake
    <3>4. QED
      BY <3>2, <3>3
  <2>4. CASE ClientReturn
    BY <2>4 DEF ClientReturn
  <2>5. CASE ClientDrained
    BY <2>5 DEF ClientDrained
  <2>6. CASE ClientLeave
    BY <2>6 DEF ClientLeave, SetAsyncMode, LeavesItems
  <2>7. QED
    BY <1>8, <2>1, <2>2, <2>3, <2>4, <2>5, <2>6 DEF ClientStep
<1>9. CASE UNCHANGED vars
  BY <1>9 DEF vars
<1>10. QED
  BY <1>1, <1>2, <1>3, <1>4, <1>5, <1>6, <1>7, <1>8, <1>9 DEF Next, AsyncNext

(* No mode change, purge or race of AddItem with a stopping WorkerProc     *)
(* leaves an item behind that nobody will take.                            *)
THEOREM WakeupNeverLost == Spec => []NoLostWakeup
<1>1. LInv => NoLostWakeup
  BY DEF LInv
<1>2. QED
  BY <1>1, TypeCorrect, LInvInit, LInvStep, PTL DEF Spec

-----------------------------------------------------------------------------
(***************************************************************************)
(* The pure asynchronous queue implements SerializedDispatcher.  Begin     *)
(* needs that nothing else is being handled, which is OneWorker; the steps *)
(* of notifying and of the pool change nothing the dispatcher sees.        *)
(***************************************************************************)
LEMMA PostExtends ==
  ASSUME NEW s \in Seq(Nat), NEW k \in Nat
  PROVE  Append(s, k + 1) = s \o [i \in 1..1 |-> k + i]
<1>1. [i \in 1..1 |-> k + i] = <<k + 1>>
  OBVIOUS
<1>2. Append(s, k + 1) = s \o <<k + 1>>
  OBVIOUS
<1>3. QED
  BY <1>1, <1>2

(* The initial states are those of the abstract dispatcher. *)
LEMMA DispatcherInit == Init => Dispatcher!Init
BY DEF Init, Dispatcher!Init, Current, Invokers, NoItem

(* Every step is one of the abstract dispatcher, or none. *)
LEMMA DispatcherStep ==
  TypeOK /\ AInv /\ [AsyncNext]_vars => [Dispatcher!Next]_(Dispatcher!dvars)
<1> USE DEF TypeOK, Invokers, NoItem, Dispatcher!dvars, Dispatcher!Next
<1> SUFFICES ASSUME TypeOK, AInv, [AsyncNext]_vars
             PROVE  Dispatcher!Next \/ UNCHANGED Dispatcher!dvars
  OBVIOUS
<1> USE ClientIsAlone
<1>1. ASSUME NEW p \in Posters, Post(p) PROVE Dispatcher!Accept
  <2>1. posted' - posted = 1 /\ posted' > posted
    BY <1>1 DEF Post, AddItem, MustNotify
  <2>2. queue' = queue \o [i \in 1..1 |-> posted + i]
    BY <1>1, PostExtends DEF Post, AddItem, MustNotify
  <2>3. UNCHANGED Current /\ UNCHANGED isEnabled /\ isEnabled
    BY <1>1 DEF Post, AddItem, MustNotify, Current
  <2>4. QED
    BY <2>1, <2>2, <2>3 DEF Dispatcher!Accept
<1>2. ASSUME NEW p \in Posters, NEW n \in 1..MaxBatch, PostArray(p, n)
      PROVE  Dispatcher!Accept
  <2>1. posted' - posted = n /\ posted' > posted
    BY <1>2, BoundsAreNat DEF PostArray, ArrayItem
  <2>2. queue' = queue \o [i \in 1..n |-> posted + i]
    BY <1>2 DEF PostArray, ArrayItem
  <2>3. UNCHANGED Current /\ UNCHANGED isEnabled /\ isEnabled
    BY <1>2 DEF PostArray, ArrayItem, Current
  <2>4. QED
    BY <2>1, <2>2, <2>3 DEF Dispatcher!Accept
<1>3. ASSUME NEW t \in Posters, Notify(t) PROVE UNCHANGED Dispatcher!dvars
  BY <1>3 DEF Notify, NotifyCheck, NotifyMode, NotifySubmit, NotifyRaise,
     NotifySet, Current
<1>4. ASSUME NEW w \in Workers, WorkerStart(w) PROVE UNCHANGED Dispatcher!dvars
  BY <1>4 DEF WorkerStart, Current
<1>5. ASSUME NEW w \in Workers, WorkerTake(w) PROVE Dispatcher!Begin
  <2>1. \A v \in Workers : invoking[v] = 0
    BY <1>5 DEF WorkerTake, AInv, InvokeConsistent, OneWorker, Running
  <2>2. Head(queue) # 0 /\ queue # <<>>
    BY <1>5 DEF WorkerTake
  <2>3. Current = {}
    BY <2>1 DEF Current
  <2>4. invoking' = [invoking EXCEPT ![w] = Head(queue)]
    BY <1>5 DEF WorkerTake
  <2>5. Current' = {Head(queue)}
    BY <2>1, <2>2, <2>4 DEF Current
  <2>6. QED
    BY <1>5, <2>2, <2>3, <2>5 DEF WorkerTake, Dispatcher!Begin
<1>6. ASSUME NEW w \in Workers, WorkerBreak(w) PROVE UNCHANGED Dispatcher!dvars
  BY <1>6 DEF WorkerBreak, FlagAfterBreak, Current
<1>7. ASSUME NEW w \in Workers, WorkerReturn(w) PROVE Dispatcher!End
  <2>1. invoking[w] # 0
    BY <1>7 DEF WorkerReturn, AInv, InvokeConsistent
  <2>2. Current # {}
    BY <2>1 DEF Current
  <2>3. \A v \in Workers : v # w => invoking[v] = 0
    BY <1>7 DEF WorkerReturn, AInv, InvokeConsistent, OneWorker, Running
  <2>4. Current' = {}
    BY <1>7, <2>3 DEF WorkerReturn, Current
  <2>5. QED
    BY <1>7, <2>2, <2>4 DEF WorkerReturn, Dispatcher!End
<1>8. CASE Disable
  BY <1>8 DEF Disable, Current, Dispatcher!Close
<1>9. CASE Purge
  BY <1>9 DEF Purge, Current, Dispatcher!Drop
<1>10. CASE UNCHANGED vars
  BY <1>10 DEF vars, Current
<1>11. QED
  BY <1>1, <1>2, <1>3, <1>4, <1>5, <1>6, <1>7, <1>8, <1>9, <1>10
     DEF AsyncNext, WorkerProc

(* Items of an asynchronous queue are handled in posting order, one after  *)
(* the other, whoever posts them and however the pool schedules.           *)
THEOREM AsyncRefines == AsyncSpec => DispatcherSpec
BY AsyncOneWorker, DispatcherInit, DispatcherStep, PTL
   DEF AsyncSpec, DispatcherSpec, Dispatcher!Spec
=============================================================================
