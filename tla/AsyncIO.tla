------------------------------ MODULE AsyncIO ------------------------------
(***************************************************************************)
(* Asynchronous file I/O of SDL3: src/io/SDL_asyncio.c over the thread     *)
(* pool of src/io/generic/SDL_asyncio_generic.c, the backend Windows falls *)
(* back to without IoRing.                                                 *)
(*                                                                         *)
(*  - Application threads open files, start reads and writes, close files, *)
(*    wait for results on a queue, destroy queues, and quit.               *)
(*  - Workers, the threads of the pool, take tasks and run them.           *)
(*                                                                         *)
(* A step is a locked section (asyncio->lock, threadpool_lock and a        *)
(* queue's lock are never kept across a wait, and are nested in this       *)
(* order), or the code between two.  Tasks, files and queues are objects   *)
(* that are allocated once and freed; a task's order in asyncio->tasks is  *)
(* immaterial, in the other two lists the newest task comes first.  The    *)
(* I/O itself and its result are left out, allocations succeed.            *)
(*                                                                         *)
(* The application keeps to the documented rules: two threads never close  *)
(* the same file, and nobody else uses a queue that is being destroyed.    *)
(***************************************************************************)
EXTENDS Selection

CONSTANTS
  Thread,     (* application threads                                       *)
  Worker,     (* threads the pool may create                               *)
  File,       (* SDL_AsyncIO objects                                       *)
  Queue,      (* SDL_AsyncIOQueue objects                                  *)
  Task,       (* SDL_AsyncIOTask objects, which bounds the calls           *)
  None,       (* NULL                                                      *)
  MaxThreads, (* max_threadpool_threads                                    *)
  MaxQuits,   (* bound on the calls of SDL_Quit                            *)
  Careful     (* the application destroys no queue while a close it asked  *)
              (* for waits for tasks that go to another queue              *)

ASSUME NoneIsNothing == None \notin Task \cup Queue \cup File
ASSUME Bounded == IsFiniteSet(Thread) /\ IsFiniteSet(Task)
ASSUME MaxThreadsIsPositive == MaxThreads \in Nat \ {0}
ASSUME MaxQuitsIsNat == MaxQuits \in Nat
ASSUME CarefulIsBoolean == Careful \in BOOLEAN

VARIABLES
  file,      (* "none", "open" or "freed"                                  *)
  oneshot,   (* asyncio->oneshot: the files opened by SDL_LoadFileAsync    *)
  tasks,     (* asyncio->tasks                                             *)
  closing,   (* asyncio->closing                                           *)
  queue,     (* "none", "open", "dying" (being destroyed) or "freed"       *)
  inflight,  (* queue->tasks_inflight                                      *)
  completed, (* the queue's completed_tasks                                *)
  live,      (* the tasks allocated and not yet freed                      *)
  fresh,     (* the tasks not allocated yet                                *)
  of, to,    (* task->asyncio and task->queue                              *)
  pool,      (* threadpool_tasks                                           *)
  init,      (* threadpool_init: "no", "yes" or "quitting"                 *)
  stop,      (* stop_threadpool                                            *)
  worker,    (* where each worker is; "off" when it does not exist         *)
  working,   (* the task a worker runs                                     *)
  at,        (* where each application thread is                           *)
  held,      (* the task it has in hand                                    *)
  using,     (* the file and queue of its call                             *)
  quits      (* calls of SDL_Quit so far                                   *)

fileVars == <<file, oneshot, tasks, closing>>
queueVars == <<queue, inflight, completed>>
taskVars == <<live, fresh, of, to>>
poolVars == <<pool, init, stop, worker, working>>
threadVars == <<at, held, using>>
vars == <<fileVars, queueVars, taskVars, poolVars, threadVars, quits>>

NoUse == [file |-> None, queue |-> None]
Elements(s) == {s[i] : i \in DOMAIN s}

Init ==
  /\ file = [f \in File |-> "none"]
  /\ oneshot = {}
  /\ tasks = [f \in File |-> {}]
  /\ closing = [f \in File |-> None]
  /\ queue = [q \in Queue |-> "none"]
  /\ inflight = [q \in Queue |-> 0]
  /\ completed = [q \in Queue |-> <<>>]
  /\ live = {} /\ fresh = Task
  /\ of = [t \in Task |-> None] /\ to = [t \in Task |-> None]
  /\ pool = <<>> /\ init = "no" /\ stop = FALSE
  /\ worker = [w \in Worker |-> "off"]
  /\ working = [w \in Worker |-> None]
  /\ at = [c \in Thread |-> "idle"]
  /\ held = [c \in Thread |-> None]
  /\ using = [c \in Thread |-> NoUse]
  /\ quits = 0

-----------------------------------------------------------------------------
(* The conditions.  A worker that waits is asleep, woken by a broadcast, or *)
(* late: its 30 seconds are over; it goes on once it has the lock.          *)
Idle(w) == worker[w] \in {"asleep", "woken", "late"}
Running(w) == worker[w] # "off"

(* SDL_BroadcastCondition(threadpool_condition), as the workers see it. *)
Roused == [w \in Worker |-> IF worker[w] = "asleep" THEN "woken" ELSE worker[w]]

(* Threads in SDL_WaitAsyncIOResult (or in SDL_DestroyAsyncIOQueue) on q. *)
Asleep(q) == {c \in Thread : at[c] = "asleep" /\ using[c].queue = q}

(***************************************************************************)
(* AsyncIOTaskComplete signals the queue's condition, which wakes one of   *)
(* the threads that wait: the values at' may take when the caller itself   *)
(* moves to the values in a.  The mutant signals only a queue that was     *)
(* empty.                                                                  *)
(***************************************************************************)
WakesFirstOnly(q, a) ==
  IF Asleep(q) = {} \/ completed[q] # <<>> THEN {a}
  ELSE {[a EXCEPT ![c] = "woken"] : c \in Asleep(q)}
Wakes(q, a) ==
  IF Asleep(q) = {} THEN {a} ELSE {[a EXCEPT ![c] = "woken"] : c \in Asleep(q)}

Completed(t, q) == [completed EXCEPT ![q] = <<t>> \o @]

(***************************************************************************)
(* MaybeSpinNewWorkerThread, then the broadcast.  There is no pool before  *)
(* PrepareThreadpool and after ShutdownThreadpool: max_threadpool_threads  *)
(* is 0 there.  Creating the thread may fail.                              *)
(***************************************************************************)
WantsWorker ==
  /\ init # "no"
  /\ \A w \in Worker : ~Idle(w)
  /\ Cardinality({w \in Worker : Running(w)}) < MaxThreads

Spin ==
  \/ worker' = Roused
  \/ /\ WantsWorker
     /\ \E w \in Worker : ~Running(w) /\ worker' = [Roused EXCEPT ![w] = "loop"]

(* QueueAsyncIOTask: a is what the caller's own move makes of at. *)
QueueAsyncIOTask(t, q, a) ==
  \/ /\ stop
     /\ completed' = Completed(t, q)
     /\ at' \in Wakes(q, a)
     /\ UNCHANGED <<pool, worker>>
  \/ /\ ~stop
     /\ pool' = <<t>> \o pool
     /\ Spin
     /\ at' = a
     /\ UNCHANGED completed

(* PrepareThreadpool: waits while another thread shuts the pool down. *)
PrepareThreadpool ==
  \/ init = "yes" /\ UNCHANGED <<init, worker>>
  \/ /\ init = "no"
     /\ init' = "yes"
     /\ \E w \in Worker : worker' = [worker EXCEPT ![w] = "loop"]

-----------------------------------------------------------------------------
(* Opening.                                                                 *)
CreateAsyncIOQueue(q) ==
  /\ queue[q] = "none"
  /\ PrepareThreadpool
  /\ queue' = [queue EXCEPT ![q] = "open"]
  /\ UNCHANGED <<fileVars, inflight, completed, taskVars, pool, stop, working,
                 threadVars, quits>>

AsyncIOFromFile(f) ==
  /\ file[f] = "none"
  /\ PrepareThreadpool
  /\ file' = [file EXCEPT ![f] = "open"]
  /\ UNCHANGED <<oneshot, tasks, closing, queueVars, taskVars, pool, stop,
                 working, threadVars, quits>>

(* LoadFileAsync opens, reads and closes; when the size is unknown, or the  *)
(* read cannot be requested, it goes on to the close.                       *)
LoadFileAsync(c, f, q) ==
  /\ at[c] = "idle"
  /\ file[f] = "none"
  /\ queue[q] = "open"
  /\ PrepareThreadpool
  /\ file' = [file EXCEPT ![f] = "open"]
  /\ oneshot' = oneshot \cup {f}
  /\ \E next \in {"read", "close"} : at' = [at EXCEPT ![c] = next]
  /\ using' = [using EXCEPT ![c] = [file |-> f, queue |-> q]]
  /\ UNCHANGED <<tasks, closing, queueVars, taskVars, pool, stop, working,
                 held, quits>>

-----------------------------------------------------------------------------
(* Starting a read or a write.                                              *)

(* A file that is closing takes no new tasks. *)
TakesTasks(f) == closing[f] = None

(* A started task counts in its queue.  The mutant forgets it. *)
NotCounted(q) == inflight
Counted(q) == [inflight EXCEPT ![q] = @ + 1]

(* A thread that asks for a read or write of f, with results on q. *)
Requests(c, f, q) ==
  \/ at[c] = "idle" /\ f \notin oneshot /\ queue[q] = "open"
  \/ at[c] = "read" /\ using[c] = [file |-> f, queue |-> q]

(* RequestAsyncIO, to the end of its locked section. *)
RequestAsyncIO(c, f, q) ==
  /\ Requests(c, f, q)
  /\ file[f] = "open"
  /\ TakesTasks(f)
  /\ \E t \in fresh :
       /\ fresh' = fresh \ {t} /\ live' = live \cup {t}
       /\ of' = [of EXCEPT ![t] = f] /\ to' = [to EXCEPT ![t] = q]
       /\ tasks' = [tasks EXCEPT ![f] = @ \cup {t}]
       /\ held' = [held EXCEPT ![c] = t]
  /\ inflight' = Counted(q)
  /\ at' = [at EXCEPT ![c] = "queue"]
  /\ using' = [using EXCEPT ![c] = [file |-> f, queue |-> q]]
  /\ UNCHANGED <<file, oneshot, closing, queue, completed, poolVars, quits>>

(* RequestAsyncIO: iface.read or iface.write. *)
QueueTask(c) ==
  /\ at[c] = "queue"
  /\ LET load == using[c].file \in oneshot
     IN /\ QueueAsyncIOTask(held[c], using[c].queue,
             [at EXCEPT ![c] = IF load THEN "close" ELSE "idle"])
        /\ using' = IF load THEN using ELSE [using EXCEPT ![c] = NoUse]
  /\ held' = [held EXCEPT ![c] = None]
  /\ UNCHANGED <<fileVars, queue, inflight, taskVars, init, stop, working, quits>>

-----------------------------------------------------------------------------
(* Closing.                                                                 *)
Closes(c, f, q) ==
  \/ at[c] = "idle" /\ f \notin oneshot /\ queue[q] = "open"
  \/ at[c] = "close" /\ using[c] = [file |-> f, queue |-> q]

(* CloseAsyncIO while the file has tasks: GetAsyncIOTaskOutcome will start  *)
(* the close.  The mutant looks for tasks that are not yet completed.       *)
NothingRuns(f) == \A t \in tasks[f] : t \in Elements(completed[to[t]])
NoTasks(f) == tasks[f] = {}

CloseAsyncIO(c, f, q) ==
  /\ Closes(c, f, q)
  /\ file[f] = "open"
  /\ closing[f] = None
  /\ \E t \in fresh :
       /\ fresh' = fresh \ {t} /\ live' = live \cup {t}
       /\ of' = [of EXCEPT ![t] = f] /\ to' = [to EXCEPT ![t] = q]
       /\ closing' = [closing EXCEPT ![f] = t]
       /\ \/ /\ NoTasks(f)
             /\ tasks' = [tasks EXCEPT ![f] = @ \cup {t}]
             /\ inflight' = Counted(q)
             /\ QueueAsyncIOTask(t, q, [at EXCEPT ![c] = "idle"])
          \/ /\ ~NoTasks(f)
             /\ at' = [at EXCEPT ![c] = "idle"]
             /\ UNCHANGED <<tasks, inflight, completed, pool, worker>>
  /\ using' = [using EXCEPT ![c] = NoUse]
  /\ UNCHANGED <<file, oneshot, queue, init, stop, working, held, quits>>

-----------------------------------------------------------------------------
(* Results.                                                                 *)

(* GetAsyncIOResult and WaitAsyncIOResult, with a completed task at hand. *)
GetResult(c, q) ==
  /\ at[c] = "idle" /\ queue[q] = "open"
  /\ completed[q] # <<>>
  /\ held' = [held EXCEPT ![c] = Head(completed[q])]
  /\ completed' = [completed EXCEPT ![q] = Tail(@)]
  /\ at' = [at EXCEPT ![c] = "outcome"]
  /\ using' = [using EXCEPT ![c].queue = q]
  /\ UNCHANGED <<fileVars, queue, inflight, taskVars, poolVars, quits>>

(* WaitAsyncIOResult with nothing completed. *)
WaitResult(c, q) ==
  /\ at[c] = "idle" /\ queue[q] = "open"
  /\ completed[q] = <<>>
  /\ at' = [at EXCEPT ![c] = "asleep"]
  /\ using' = [using EXCEPT ![c].queue = q]
  /\ UNCHANGED <<fileVars, queueVars, taskVars, poolVars, held, quits>>

(* The timeout of WaitAsyncIOResult; DestroyAsyncIOQueue waits without one. *)
WaitTimeout(c) ==
  /\ at[c] = "asleep" /\ queue[using[c].queue] = "open"
  /\ at' = [at EXCEPT ![c] = "woken"]
  /\ UNCHANGED <<fileVars, queueVars, taskVars, poolVars, held, using, quits>>

SignalAsyncIOQueue(q) ==
  /\ queue[q] = "open"
  /\ at' = [c \in Thread |-> IF c \in Asleep(q) THEN "woken" ELSE at[c]]
  /\ UNCHANGED <<fileVars, queueVars, taskVars, poolVars, held, using, quits>>

(* Back to the loop of DestroyAsyncIOQueue, or to the application. *)
Returns(c) ==
  IF queue[using[c].queue] = "dying"
  THEN at' = [at EXCEPT ![c] = "drain"] /\ UNCHANGED using
  ELSE at' = [at EXCEPT ![c] = "idle"] /\ using' = [using EXCEPT ![c] = NoUse]

(* generic_asyncioqueue_wait_results, after SDL_WaitConditionTimeout. *)
WaitReturn(c) ==
  /\ at[c] = "woken"
  /\ LET q == using[c].queue
     IN \/ /\ completed[q] # <<>>
           /\ held' = [held EXCEPT ![c] = Head(completed[q])]
           /\ completed' = [completed EXCEPT ![q] = Tail(@)]
           /\ at' = [at EXCEPT ![c] = "outcome"]
           /\ UNCHANGED using
        \/ /\ completed[q] = <<>>
           /\ Returns(c)
           /\ UNCHANGED <<held, completed>>
  /\ UNCHANGED <<fileVars, queue, inflight, taskVars, poolVars, quits>>

(* A close that waited and may start now that t is out of the list. *)
StartsClose(f, t) == closing[f] \notin {None, t} /\ tasks[f] = {t}

(* The locked section of GetAsyncIOTaskOutcome. *)
GetOutcome(c) ==
  /\ at[c] = "outcome"
  /\ LET t == held[c]
         f == of[t]
         a == [at EXCEPT ![c] = IF closing[f] = t THEN "destroy" ELSE "release"]
     IN \/ /\ StartsClose(f, t)
           /\ tasks' = [tasks EXCEPT ![f] = {closing[f]}]
           /\ inflight' = Counted(to[closing[f]])
           /\ QueueAsyncIOTask(closing[f], to[closing[f]], a)
        \/ /\ ~StartsClose(f, t)
           /\ tasks' = [tasks EXCEPT ![f] = @ \ {t}]
           /\ at' = a
           /\ UNCHANGED <<inflight, completed, pool, worker>>
  /\ UNCHANGED <<file, oneshot, closing, queue, taskVars, init, stop, working,
                 held, using, quits>>

(* GetAsyncIOTaskOutcome of a close: the file is gone. *)
DestroyFile(c) ==
  /\ at[c] = "destroy"
  /\ file' = [file EXCEPT ![of[held[c]]] = "freed"]
  /\ at' = [at EXCEPT ![c] = "release"]
  /\ UNCHANGED <<oneshot, tasks, closing, queueVars, taskVars, poolVars, held,
                 using, quits>>

(* GetAsyncIOTaskOutcome: the task is gone. *)
ReleaseTask(c) ==
  /\ at[c] = "release"
  /\ inflight' = [inflight EXCEPT ![to[held[c]]] = @ - 1]
  /\ live' = live \ {held[c]}
  /\ held' = [held EXCEPT ![c] = None]
  /\ Returns(c)
  /\ UNCHANGED <<fileVars, queue, completed, fresh, of, to, poolVars, quits>>

-----------------------------------------------------------------------------
(* Destroying a queue.                                                      *)
Deferred(f) == closing[f] # None /\ closing[f] \in live /\ closing[f] \notin tasks[f]

MayDestroy(q) ==
  /\ \A d \in Thread : using[d].queue # q
  /\ Careful => \A f \in File :
       Deferred(f) /\ to[closing[f]] = q => \A t \in tasks[f] : to[t] = q

DestroyAsyncIOQueue(c, q) ==
  /\ at[c] = "idle" /\ queue[q] = "open"
  /\ MayDestroy(q)
  /\ queue' = [queue EXCEPT ![q] = "dying"]
  /\ at' = [at EXCEPT ![c] = "drain"]
  /\ using' = [using EXCEPT ![c].queue = q]
  /\ UNCHANGED <<fileVars, inflight, completed, taskVars, poolVars, held, quits>>

(* What is left for DestroyAsyncIOQueue to wait for.  The mutant looks at   *)
(* the completed tasks only.                                                *)
HasCompleted(q) == completed[q] # <<>>
HasInflight(q) == inflight[q] > 0

(* The loop of DestroyAsyncIOQueue. *)
Drain(c) ==
  /\ at[c] = "drain"
  /\ LET q == using[c].queue
     IN \/ /\ HasInflight(q) /\ completed[q] # <<>>
           /\ held' = [held EXCEPT ![c] = Head(completed[q])]
           /\ completed' = [completed EXCEPT ![q] = Tail(@)]
           /\ at' = [at EXCEPT ![c] = "outcome"]
           /\ UNCHANGED <<queue, using>>
        \/ /\ HasInflight(q) /\ completed[q] = <<>>
           /\ at' = [at EXCEPT ![c] = "asleep"]
           /\ UNCHANGED <<held, completed, queue, using>>
        \/ /\ ~HasInflight(q)
           /\ queue' = [queue EXCEPT ![q] = "freed"]
           /\ at' = [at EXCEPT ![c] = "idle"]
           /\ using' = [using EXCEPT ![c] = NoUse]
           /\ UNCHANGED <<held, completed>>
  /\ UNCHANGED <<fileVars, inflight, taskVars, poolVars, quits>>

-----------------------------------------------------------------------------
(* AsyncIOThreadpoolWorker.                                                 *)
WorkerTake(w) ==
  /\ worker[w] = "loop" /\ ~stop
  /\ pool # <<>>
  /\ working' = [working EXCEPT ![w] = Head(pool)]
  /\ pool' = Tail(pool)
  /\ worker' = [worker EXCEPT ![w] = "io"]
  /\ UNCHANGED <<fileVars, queueVars, taskVars, init, stop, threadVars, quits>>

WorkerSleep(w) ==
  /\ worker[w] = "loop" /\ ~stop
  /\ pool = <<>>
  /\ worker' = [worker EXCEPT ![w] = "asleep"]
  /\ UNCHANGED <<fileVars, queueVars, taskVars, pool, init, stop, working,
                 threadVars, quits>>

WorkerTimeout(w) ==
  /\ worker[w] = "asleep"
  /\ worker' = [worker EXCEPT ![w] = "late"]
  /\ UNCHANGED <<fileVars, queueVars, taskVars, pool, init, stop, working,
                 threadVars, quits>>

(* SynchronousIO and AsyncIOTaskComplete. *)
WorkerIO(w) ==
  /\ worker[w] = "io"
  /\ LET t == working[w]
     IN completed' = Completed(t, to[t]) /\ at' \in Wakes(to[t], at)
  /\ working' = [working EXCEPT ![w] = None]
  /\ worker' = [worker EXCEPT ![w] = "loop"]
  /\ UNCHANGED <<fileVars, queue, inflight, taskVars, pool, init, stop, held,
                 using, quits>>

(* A worker that waited in vain leaves, but not the last one that waits.    *)
(* The mutant leaves in any case.                                           *)
AnyLate(w) == worker[w] = "late"
TooManyIdle(w) == worker[w] = "late" /\ \E v \in Worker \ {w} : Idle(v)

WorkerBack(w) ==
  /\ worker[w] \in {"woken", "late"}
  /\ ~TooManyIdle(w)
  /\ worker' = [worker EXCEPT ![w] = "loop"]
  /\ UNCHANGED <<fileVars, queueVars, taskVars, pool, init, stop, working,
                 threadVars, quits>>

(* The end of the thread; its broadcast reaches the thread in Shutdown. *)
WorkerExit(w) ==
  /\ \/ worker[w] = "loop" /\ stop
     \/ TooManyIdle(w)
  /\ worker' = [worker EXCEPT ![w] = "off"]
  /\ at' = [c \in Thread |-> IF stop /\ at[c] = "join" THEN "quit" ELSE at[c]]
  /\ UNCHANGED <<fileVars, queueVars, taskVars, pool, init, stop, working, held,
                 using, quits>>

-----------------------------------------------------------------------------
(* ShutdownThreadpool.                                                      *)

(* The tasks of q the shutdown cancels, the newest last. *)
Cancelled(q) ==
  LET n == Len(pool)
  IN  Select([i \in 1..n |-> pool[n + 1 - i]],
             {i \in 1..n : to[pool[n + 1 - i]] = q})

(* Each cancelled task wakes one of the threads that wait on its queue, if  *)
(* there is one left: S are the threads woken.                              *)
WokenByCancel(S) ==
  \A q \in Queue :
    LET woken == Cardinality(S \cap Asleep(q))
    IN \/ woken = Len(Cancelled(q))
       \/ woken < Len(Cancelled(q)) /\ Asleep(q) \subseteq S

Shutdown(c) ==
  /\ at[c] = "idle" /\ init = "yes"
  /\ quits < MaxQuits
  /\ quits' = quits + 1
  /\ init' = "quitting" /\ stop' = TRUE
  /\ completed' = [q \in Queue |-> Cancelled(q) \o completed[q]]
  /\ \E S \in SUBSET {d \in Thread : at[d] = "asleep"} :
       /\ WokenByCancel(S)
       /\ at' = [d \in Thread |-> IF d = c THEN "quit"
                                  ELSE IF d \in S THEN "woken" ELSE at[d]]
  /\ pool' = <<>>
  /\ worker' = Roused
  /\ UNCHANGED <<fileVars, queue, inflight, taskVars, working, held, using>>

(* The loop that waits for the workers, and the end of the pool: the lock   *)
(* is left and destroyed and the flags reset in one step.  A thread blocked *)
(* on that lock meanwhile, in QueueTask, is not modelled: it would use a    *)
(* mutex that is gone.                                                      *)
ShutdownWait(c) ==
  /\ at[c] = "quit"
  /\ \/ /\ \E w \in Worker : Running(w)
        /\ at' = [at EXCEPT ![c] = "join"]
        /\ UNCHANGED <<init, stop>>
     \/ /\ \A w \in Worker : ~Running(w)
        /\ at' = [at EXCEPT ![c] = "idle"]
        /\ init' = "no" /\ stop' = FALSE
  /\ UNCHANGED <<fileVars, queueVars, taskVars, pool, worker, working, held,
                 using, quits>>

-----------------------------------------------------------------------------
WorkerNext(w) ==
  WorkerTake(w) \/ WorkerSleep(w) \/ WorkerIO(w) \/ WorkerBack(w) \/ WorkerExit(w)

(* What a thread does on its own once it is inside a call. *)
Continues(c) ==
  \/ QueueTask(c) \/ WaitReturn(c) \/ GetOutcome(c) \/ DestroyFile(c)
  \/ ReleaseTask(c) \/ Drain(c) \/ ShutdownWait(c)
  \/ \E f \in oneshot, q \in Queue :
       at[c] # "idle" /\ (RequestAsyncIO(c, f, q) \/ CloseAsyncIO(c, f, q))

Next ==
  \/ \E q \in Queue : CreateAsyncIOQueue(q) \/ SignalAsyncIOQueue(q)
  \/ \E f \in File : AsyncIOFromFile(f)
  \/ \E c \in Thread, f \in File, q \in Queue :
       LoadFileAsync(c, f, q) \/ RequestAsyncIO(c, f, q) \/ CloseAsyncIO(c, f, q)
  \/ \E c \in Thread, q \in Queue :
       GetResult(c, q) \/ WaitResult(c, q) \/ DestroyAsyncIOQueue(c, q)
  \/ \E c \in Thread : QueueTask(c) \/ WaitTimeout(c) \/ WaitReturn(c)
  \/ \E c \in Thread : GetOutcome(c) \/ DestroyFile(c) \/ ReleaseTask(c)
  \/ \E c \in Thread : Drain(c) \/ Shutdown(c) \/ ShutdownWait(c)
  \/ \E w \in Worker : WorkerTake(w) \/ WorkerSleep(w) \/ WorkerTimeout(w)
  \/ \E w \in Worker : WorkerIO(w) \/ WorkerBack(w) \/ WorkerExit(w)

Spec == Init /\ [][Next]_vars

(* The system schedules every thread; nothing forces a call, a timeout or a *)
(* signal to come.                                                          *)
FairSpec ==
  /\ Spec
  /\ \A w \in Worker : WF_vars(WorkerNext(w))
  /\ \A c \in Thread : WF_vars(Continues(c))

-----------------------------------------------------------------------------
TypeOK ==
  /\ file \in [File -> {"none", "open", "freed"}]
  /\ oneshot \subseteq File
  /\ tasks \in [File -> SUBSET Task]
  /\ closing \in [File -> Task \cup {None}]
  /\ queue \in [Queue -> {"none", "open", "dying", "freed"}]
  /\ inflight \in [Queue -> Nat]
  /\ completed \in [Queue -> Seq(Task)]
  /\ live \subseteq Task /\ fresh \subseteq Task
  /\ of \in [Task -> File \cup {None}] /\ to \in [Task -> Queue \cup {None}]
  /\ pool \in Seq(Task)
  /\ init \in {"no", "yes", "quitting"} /\ stop \in BOOLEAN
  /\ worker \in [Worker -> {"off", "loop", "io", "asleep", "woken", "late"}]
  /\ working \in [Worker -> Task \cup {None}]
  /\ at \in [Thread -> {"idle", "read", "close", "queue", "asleep", "woken",
                        "outcome", "destroy", "release", "drain", "quit", "join"}]
  /\ held \in [Thread -> Task \cup {None}]
  /\ using \in [Thread -> [file : File \cup {None}, queue : Queue \cup {None}]]
  /\ quits \in 0..MaxQuits

(* A queue is there as long as one of its tasks is, those of a close that    *)
(* waits included (SDL_asyncio.c, 284-302).                                  *)
QueueOutlivesTasks == \A t \in live : queue[to[t]] # "freed"

(* A file is there as long as one of its tasks is, up to the last step of    *)
(* GetAsyncIOTaskOutcome, which only frees the task (255-256).               *)
FileOutlivesTasks ==
  \A t \in live : \/ file[of[t]] # "freed"
                  \/ \E c \in Thread : at[c] = "release" /\ held[c] = t

(* Nothing that a task, a worker or a call still uses is freed.              *)
NothingFreedInUse == QueueOutlivesTasks /\ FileOutlivesTasks

(* No task waits in the pool with every worker asleep or gone: neither the   *)
(* wake-ups, nor the 30 seconds after which workers leave, lose a task       *)
(* (SDL_asyncio_generic.c, 123-149, 166 and 197).                            *)
NoTaskStranded ==
  init = "yes" /\ pool # <<>> =>
    /\ \E w \in Worker : Running(w)
    /\ \A w \in Worker : worker[w] # "asleep"

(* A thread sleeps in SDL_WaitAsyncIOResult, or in SDL_DestroyAsyncIOQueue,  *)
(* only if others, already woken, are enough to take what is completed (53). *)
WaitersWoken ==
  \A q \in Queue : Asleep(q) # {} =>
    Cardinality({c \in Thread : at[c] = "woken" /\ using[c].queue = q})
      >= Len(completed[q])

(* SDL_DestroyAsyncIOQueue comes to its end (284-302): its tasks_inflight    *)
(* goes to zero, and it is woken for each completed task.  After SDL_Quit    *)
(* nothing runs a close that had waited for other tasks, hence init.         *)
DestroyEnds == \A q \in Queue : queue[q] = "dying" ~> (queue[q] = "freed" \/ init # "yes")

(***************************************************************************)
(* The promise of AsyncFiles: each task is done once, its result is taken  *)
(* once, the close is done after all other tasks of the file whatever      *)
(* threads start and take them, and the file outlives them (SDL_asyncio.h, *)
(* 336; SDL_asyncio.c, 121, 178, 233 and 246).                             *)
(***************************************************************************)
Status ==
  [t \in Task |->
    CASE t \in fresh -> "new"
      [] \E q \in Queue : t \in Elements(completed[q]) -> "done"
      [] \/ t \notin live \cup fresh
         \/ \E c \in Thread : held[c] = t /\ at[c] # "queue" -> "taken"
      [] OTHER -> "pending"]

Files == INSTANCE AsyncFiles
           WITH status <- Status, gone <- {f \in File : file[f] = "freed"}
FilesSpec == Files!Spec
=============================================================================
