----------------------- MODULE AsyncSerializedWorker -----------------------
(***************************************************************************)
(* The event queue of System.Speech: src/Internal/AsyncSerializedWorker.cs *)
(* and the two ways the library uses it.                                   *)
(*                                                                         *)
(*  - As "_asyncWorker" (VoiceSynthesis.cs:29, RecognizerBase.cs:504) it   *)
(*    stays in asynchronous mode: AsyncSpec.                               *)
(*  - As "_asyncWorkerUI" a client thread inside Speak() or Recognize()    *)
(*    switches it to synchronous mode and drains it itself: Spec.          *)
(*                                                                         *)
(* Every lock (_queue.SyncRoot) section is one step.  OnWorkItemPending    *)
(* runs outside the lock, so a thread that has to notify goes through the  *)
(* stages check (reads _hasPendingPost without the lock), mode (reads      *)
(* AsyncMode) and submit or raise/set.  Items are numbered in the order    *)
(* they enter the queue.                                                   *)
(***************************************************************************)
EXTENDS Integers, Sequences

CONSTANTS
  Posters,    (* threads that call Post or PostOperation                   *)
  Client,     (* the thread inside a synchronous Speak() or Recognize()    *)
  Workers,    (* thread-pool threads able to run WorkerProc                *)
  MaxPosts,   (* bound on the items ever enqueued                          *)
  MaxBatch,   (* bound on the length of the array given to Post(object[])  *)
  MaxCalls    (* bound on the synchronous calls of the client              *)

ASSUME ClientIsAlone == Client \notin Posters \cup Workers
ASSUME BoundsAreNat == MaxPosts \in Nat /\ MaxBatch \in Nat /\ MaxCalls \in Nat

VARIABLES
  queue,          (* _queue                                                *)
  hasPendingPost, (* _hasPendingPost                                       *)
  isAsyncMode,    (* _isAsyncMode                                          *)
  isEnabled,      (* _isEnabled                                            *)
  stage,          (* where each thread is in OnWorkItemPending             *)
  submitted,      (* WorkerProc callbacks the thread pool has not started  *)
  worker,         (* where each pool thread is in WorkerProc               *)
  invoking,       (* the item a pool thread or the client is invoking      *)
  client,         (* where the client is in its synchronous call           *)
  signal,         (* the AutoResetEvent the client waits on                *)
  posted,         (* number of items ever enqueued                         *)
  calls           (* number of synchronous calls so far                    *)

vars == <<queue, hasPendingPost, isAsyncMode, isEnabled, stage, submitted,
          worker, invoking, client, signal, posted, calls>>

Threads == Posters \cup {Client}
NoItem == 0
Invokers == Workers \cup {Client}
Stages == {"idle", "check", "mode", "submit", "raise", "set"}

-----------------------------------------------------------------------------
Init ==
  /\ queue = <<>>
  /\ hasPendingPost = FALSE
  /\ isAsyncMode = TRUE
  /\ isEnabled = TRUE
  /\ stage = [t \in Threads |-> "idle"]
  /\ submitted = 0
  /\ worker = [w \in Workers |-> "off"]
  /\ invoking = [w \in Invokers |-> NoItem]
  /\ client = "out"
  /\ signal = FALSE
  /\ posted = 0
  /\ calls = 0

(* AddItem notifies unless a WorkerProc has been notified already.  The     *)
(* mutant forgets that the worker may be inside a handler.                  *)
MustNotifyIfEmpty == ~hasPendingPost \/ ~isAsyncMode \/ queue = <<>>
MustNotify == ~hasPendingPost \/ ~isAsyncMode

(***************************************************************************)
(* The locked part of AddItem; a thread that finds the worker not yet      *)
(* notified, or the queue in synchronous mode, goes on to notify.          *)
(***************************************************************************)
AddItem(p) ==
  /\ posted < MaxPosts
  /\ isEnabled
  /\ queue' = Append(queue, posted + 1)
  /\ posted' = posted + 1
  /\ IF MustNotify
     THEN hasPendingPost' = TRUE /\ stage' = [stage EXCEPT ![p] = "check"]
     ELSE UNCHANGED <<hasPendingPost, stage>>
  /\ UNCHANGED <<isAsyncMode, isEnabled, submitted, worker, invoking,
                 client, signal, calls>>

(* Post(object) and PostOperation. *)
Post(p) == stage[p] = "idle" /\ AddItem(p)

(* The item that element i of an array becomes.  The mutant's loop is off   *)
(* by one.                                                                  *)
OneBefore(i) == posted + i - 1
ArrayItem(i) == posted + i

(***************************************************************************)
(* Post(object[]) holds the lock around all its AddItem calls (the lock is *)
(* reentrant), so the notification also happens inside it.                 *)
(***************************************************************************)
PostArray(p, n) ==
  /\ stage[p] = "idle"
  /\ isEnabled
  /\ posted + n <= MaxPosts
  /\ queue' = queue \o [i \in 1..n |-> ArrayItem(i)]
  /\ posted' = posted + n
  /\ hasPendingPost' = TRUE
  /\ submitted' = IF isAsyncMode /\ ~hasPendingPost THEN submitted + 1 ELSE submitted
  /\ signal' = (signal \/ ~isAsyncMode)
  /\ UNCHANGED <<isAsyncMode, isEnabled, stage, worker, invoking, client, calls>>

(* OnWorkItemPending: the unlocked test of _hasPendingPost. *)
NotifyCheck(t) ==
  /\ stage[t] = "check"
  /\ stage' = [stage EXCEPT ![t] = IF hasPendingPost THEN "mode" ELSE "idle"]
  /\ UNCHANGED <<queue, hasPendingPost, isAsyncMode, isEnabled, submitted,
                 worker, invoking, client, signal, posted, calls>>

(* OnWorkItemPending: AsyncMode is read under the lock and acted on later. *)
NotifyMode(t) ==
  /\ stage[t] = "mode"
  /\ stage' = [stage EXCEPT ![t] = IF isAsyncMode THEN "submit" ELSE "raise"]
  /\ UNCHANGED <<queue, hasPendingPost, isAsyncMode, isEnabled, submitted,
                 worker, invoking, client, signal, posted, calls>>

(* OnWorkItemPending: QueueUserWorkItem or SynchronizationContext.Post. *)
NotifySubmit(t) ==
  /\ stage[t] = "submit"
  /\ submitted' = submitted + 1
  /\ stage' = [stage EXCEPT ![t] = "idle"]
  /\ UNCHANGED <<queue, hasPendingPost, isAsyncMode, isEnabled, worker,
                 invoking, client, signal, posted, calls>>

(* SignalHandlerThread, the handler of WorkItemPending, tests the mode ... *)
NotifyRaise(t) ==
  /\ stage[t] = "raise"
  /\ stage' = [stage EXCEPT ![t] = IF isAsyncMode THEN "idle" ELSE "set"]
  /\ UNCHANGED <<queue, hasPendingPost, isAsyncMode, isEnabled, submitted,
                 worker, invoking, client, signal, posted, calls>>

(* ... and sets the event the client waits on. *)
NotifySet(t) ==
  /\ stage[t] = "set"
  /\ signal' = TRUE
  /\ stage' = [stage EXCEPT ![t] = "idle"]
  /\ UNCHANGED <<queue, hasPendingPost, isAsyncMode, isEnabled, submitted,
                 worker, invoking, client, posted, calls>>

Notify(t) ==
  \/ NotifyCheck(t) \/ NotifyMode(t) \/ NotifySubmit(t)
  \/ NotifyRaise(t) \/ NotifySet(t)

-----------------------------------------------------------------------------
(* The pool starts one submitted WorkerProc on a free thread. *)
WorkerStart(w) ==
  /\ worker[w] = "off"
  /\ submitted > 0
  /\ submitted' = submitted - 1
  /\ worker' = [worker EXCEPT ![w] = "loop"]
  /\ UNCHANGED <<queue, hasPendingPost, isAsyncMode, isEnabled, stage,
                 invoking, client, signal, posted, calls>>

(* The locked part of WorkerProc's loop, when there is an item to take. *)
WorkerTake(w) ==
  /\ worker[w] = "loop"
  /\ queue # <<>> /\ isAsyncMode
  /\ invoking' = [invoking EXCEPT ![w] = Head(queue)]
  /\ queue' = Tail(queue)
  /\ worker' = [worker EXCEPT ![w] = "invoke"]
  /\ UNCHANGED <<hasPendingPost, isAsyncMode, isEnabled, stage, submitted,
                 client, signal, posted, calls>>

(* What a stopping WorkerProc leaves in _hasPendingPost, and a mutant that  *)
(* never clears it.                                                         *)
FlagKept == hasPendingPost
FlagAfterBreak == hasPendingPost /\ queue # <<>>

(* The locked part of WorkerProc's loop, when it breaks. *)
WorkerBreak(w) ==
  /\ worker[w] = "loop"
  /\ ~(queue # <<>> /\ isAsyncMode)
  /\ hasPendingPost' = FlagAfterBreak
  /\ worker' = [worker EXCEPT ![w] = "off"]
  /\ UNCHANGED <<queue, isAsyncMode, isEnabled, stage, submitted, invoking,
                 client, signal, posted, calls>>

(* workItem.Invoke() returns. *)
WorkerReturn(w) ==
  /\ worker[w] = "invoke"
  /\ invoking' = [invoking EXCEPT ![w] = NoItem]
  /\ worker' = [worker EXCEPT ![w] = "loop"]
  /\ UNCHANGED <<queue, hasPendingPost, isAsyncMode, isEnabled, stage,
                 submitted, client, signal, posted, calls>>

WorkerProc(w) == WorkerTake(w) \/ WorkerBreak(w) \/ WorkerReturn(w)

-----------------------------------------------------------------------------
(* Mutant: nobody is told about the items a mode change leaves behind.      *)
NotifyNobody(value) == FALSE
LeavesItems(value) == isAsyncMode # value /\ queue # <<>>

(* The AsyncMode setter; the caller notifies when items were left behind.  *)
SetAsyncMode(value) ==
  /\ isAsyncMode' = value
  /\ stage' = [stage EXCEPT ![Client] =
                 IF LeavesItems(value) THEN "check" ELSE @]

(* Recognize(): AsyncMode = false. *)
ClientEnter ==
  /\ client = "out" /\ stage[Client] = "idle"
  /\ calls < MaxCalls
  /\ calls' = calls + 1
  /\ client' = "wait"
  /\ SetAsyncMode(FALSE)
  /\ UNCHANGED <<queue, hasPendingPost, isEnabled, submitted, worker,
                 invoking, signal, posted>>

(* _handlerWaitHandle.WaitOne() succeeds and resets the event. *)
ClientWake ==
  /\ client = "wait" /\ stage[Client] = "idle"
  /\ signal
  /\ signal' = FALSE
  /\ client' = "consume"
  /\ UNCHANGED <<queue, hasPendingPost, isAsyncMode, isEnabled, stage,
                 submitted, worker, invoking, posted, calls>>

(* ConsumeQueue: NextWorkItem returns an item, which is then invoked. *)
ClientTake ==
  /\ client = "consume" /\ invoking[Client] = NoItem
  /\ queue # <<>>
  /\ invoking' = [invoking EXCEPT ![Client] = Head(queue)]
  /\ queue' = Tail(queue)
  /\ hasPendingPost' = (hasPendingPost /\ Len(queue) > 1)
  /\ UNCHANGED <<isAsyncMode, isEnabled, stage, submitted, worker, client,
                 signal, posted, calls>>

ClientReturn ==
  /\ invoking[Client] # NoItem
  /\ invoking' = [invoking EXCEPT ![Client] = NoItem]
  /\ UNCHANGED <<queue, hasPendingPost, isAsyncMode, isEnabled, stage,
                 submitted, worker, client, signal, posted, calls>>

(* ConsumeQueue: NextWorkItem returns null, and the client waits again. *)
ClientDrained ==
  /\ client = "consume" /\ invoking[Client] = NoItem
  /\ queue = <<>>
  /\ client' = "wait"
  /\ UNCHANGED <<queue, hasPendingPost, isAsyncMode, isEnabled, stage,
                 submitted, worker, invoking, signal, posted, calls>>

(***************************************************************************)
(* The finally block: AsyncMode = true.  The loop ends when a handler saw  *)
(* the completion event, on dispose, or because starting failed, so it may *)
(* end whenever the client is not inside ConsumeQueue.                     *)
(***************************************************************************)
ClientLeave ==
  /\ client = "wait" /\ stage[Client] = "idle"
  /\ client' = "out"
  /\ SetAsyncMode(TRUE)
  /\ UNCHANGED <<queue, hasPendingPost, isEnabled, submitted, worker,
                 invoking, signal, posted, calls>>

ClientStep ==
  \/ ClientEnter \/ ClientWake \/ ClientTake
  \/ ClientReturn \/ ClientDrained \/ ClientLeave

(* Dispose(): Enabled = false, and then Purge(). *)
Disable ==
  /\ isEnabled
  /\ isEnabled' = FALSE
  /\ UNCHANGED <<queue, hasPendingPost, isAsyncMode, stage, submitted, worker,
                 invoking, client, signal, posted, calls>>

Purge ==
  /\ ~isEnabled
  /\ queue' = <<>>
  /\ UNCHANGED <<hasPendingPost, isAsyncMode, isEnabled, stage, submitted,
                 worker, invoking, client, signal, posted, calls>>

-----------------------------------------------------------------------------
(* The steps of a queue that stays in asynchronous mode (_asyncWorker). *)
AsyncNext ==
  \/ \E p \in Posters : Post(p) \/ Notify(p)
  \/ \E p \in Posters, n \in 1..MaxBatch : PostArray(p, n)
  \/ \E w \in Workers : WorkerStart(w) \/ WorkerProc(w)
  \/ Disable
  \/ Purge

(* The steps of a queue with a synchronous client (_asyncWorkerUI). *)
Next == AsyncNext \/ ClientStep \/ Notify(Client)

AsyncSpec == Init /\ [][AsyncNext]_vars
Spec == Init /\ [][Next]_vars

(***************************************************************************)
(* Every thread that is notifying, running WorkerProc or draining the      *)
(* queue goes on, and the pool starts what was submitted: none of them     *)
(* waits for anything but the queue's own lock, which is never held across *)
(* a wait.  Handlers are assumed to return.  Nothing makes anyone post,    *)
(* enter a synchronous call, leave it, or dispose.                         *)
(***************************************************************************)
Fairness ==
  /\ \A t \in Threads : WF_vars(Notify(t))
  /\ \A w \in Workers : WF_vars(WorkerProc(w))
  /\ WF_vars(\E w \in Workers : WorkerStart(w))
  /\ WF_vars(ClientWake \/ ClientTake \/ ClientReturn \/ ClientDrained)

FairSpec == Spec /\ Fairness
FairAsyncSpec == AsyncSpec /\ Fairness

-----------------------------------------------------------------------------
TypeOK ==
  /\ queue \in Seq(Nat \ {NoItem})
  /\ hasPendingPost \in BOOLEAN
  /\ isAsyncMode \in BOOLEAN
  /\ isEnabled \in BOOLEAN
  /\ stage \in [Threads -> Stages]
  /\ submitted \in Nat
  /\ worker \in [Workers -> {"off", "loop", "invoke"}]
  /\ invoking \in [Invokers -> Nat]
  /\ client \in {"out", "wait", "consume"}
  /\ signal \in BOOLEAN
  /\ posted \in Nat
  /\ calls \in Nat

Running(w) == worker[w] # "off"
Notifying(t) == stage[t] # "idle"

(***************************************************************************)
(* Events are dispatched one at a time: no two threads are ever inside the *)
(* handler of an item together.  It is what SpeechSynthesizer and          *)
(* RecognizerBase rely on for the events of _asyncWorker.                  *)
(***************************************************************************)
Serialized ==
  \A v, w \in Invokers :
    invoking[v] # NoItem /\ invoking[w] # NoItem => v = w

(***************************************************************************)
(* No lost wakeup.  An item in an enabled queue always has someone who     *)
(* will take it: in asynchronous mode a WorkerProc running, submitted or   *)
(* about to be submitted, in synchronous mode the client draining, its     *)
(* event set or about to be set.                                           *)
(***************************************************************************)
WillSubmit(t) == stage[t] \in {"check", "mode", "submit"}
WillSignal(t) == stage[t] \in {"check", "mode", "raise", "set"}

NoLostWakeup ==
  queue # <<>> /\ isEnabled =>
    IF isAsyncMode
    THEN \/ submitted > 0
         \/ \E w \in Workers : Running(w)
         \/ \E t \in Threads : WillSubmit(t)
    ELSE \/ signal
         \/ client = "consume"
         \/ \E t \in Threads : WillSignal(t)

(***************************************************************************)
(* The worker's flag tells the truth in the pure asynchronous use: it is   *)
(* set exactly while one WorkerProc is running, submitted or about to be,  *)
(* and there is never a second one.                                        *)
(***************************************************************************)
OneWorker ==
  /\ submitted \in {0, 1}
  /\ \A v, w \in Workers : Running(v) /\ Running(w) => v = w
  /\ \A s, t \in Threads : Notifying(s) /\ Notifying(t) => s = t
  /\ submitted = 1 => \A w \in Workers : ~Running(w)
  /\ submitted = 1 => \A t \in Threads : ~Notifying(t)
  /\ \A t \in Threads, w \in Workers : ~(Notifying(t) /\ Running(w))
  /\ hasPendingPost <=> \/ submitted = 1
                        \/ \E w \in Workers : Running(w)
                        \/ \E t \in Threads : Notifying(t)

(***************************************************************************)
(* Every item posted is eventually taken from the queue (dispatched, or    *)
(* dropped by Purge) whatever the mode changes meanwhile.                  *)
(***************************************************************************)
Queued(i) == \E k \in DOMAIN queue : queue[k] = i
NoItemStuck == \A i \in 1..MaxPosts : Queued(i) ~> ~Queued(i)

(***************************************************************************)
(* What the pure asynchronous use promises: SerializedDispatcher, a FIFO   *)
(* queue whose items are handled one after the other.                      *)
(***************************************************************************)
Current == {invoking[w] : w \in Workers} \ {NoItem}
Dispatcher == INSTANCE SerializedDispatcher
                WITH pending <- queue, current <- Current, accepted <- posted,
                     closed <- ~isEnabled
DispatcherSpec == Dispatcher!Spec
=============================================================================
