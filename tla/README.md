# A verification of the concurrent core of Wine Mono

Wine Mono bundles several large projects as submodules. The code that lives in
this repository itself is `System.Speech/` (a C# implementation of the .NET
speech synthesis and recognition API), a set of build and installer tools, and
SDL3, which the package ships as a DLL. This project models the parts whose
correctness depends on threads: in System.Speech the event queue, the audio
device, the synthesizer's worker and the recognizer; in SDL3 asynchronous file
I/O, with its pool of threads, and the timers, with a thread of their own. Paths
below are relative to `src/System.Speech/src/` or to `src/SDL3/src/`.

## The system

| Component | State | Operations | What makes it correct |
|---|---|---|---|
| AsyncSerializedWorker (`Internal/AsyncSerializedWorker.cs`) | item queue, `_hasPendingPost`, `_isAsyncMode`, `_isEnabled` | Post, Post(array), PostOperation, AsyncMode, ConsumeQueue, Enabled, Purge, WorkerProc on the thread pool | no item left behind; one item at a time, in posting order |
| AudioDeviceOut (`Internal/Synthesis/AudioDeviceOut.cs`) | `_queueIn`, `_queueOut`, `_evt`, `_deviceOpen`, `_aborted`, `_fPaused`, the waveOut handle | Begin, Play, InjectEvent, WaitUntilDone, End on the speaking thread; Pause, Resume, Abort on clients; CallBackProc on the driver's thread | waiting ends exactly when everything was played; events come out in order with the audio |
| AudioFileOut (`Internal/Synthesis/AudioFileOut.cs`) | `_paused`, `_evt`, `_aborted`, the stream | the same interface over a stream | nothing is written while paused |
| VoiceSynthesis (`Internal/Synthesis/VoiceSynthesis.cs`), SpeechSynthesizer, Prompt | `_pendingSpeakQueue`, `_currentPrompt`, `_synthesizerState`, `_evtPendingSpeak`, the voice dictionary, the output | Speak, SpeakAsync, Abort, Pause, Resume, SetOutput, GetVoice, Dispose, the worker ThreadProc, event dispatch | every prompt completes once, in order; state and queue agree; cancel cancels; no deadlock |
| EngineSite, PhonemeEventMapper | action flags, exception, event filter | callbacks of the TTS engine | events kept in order, failures turned into aborts |
| RecognizerBase (`Recognition/RecognizerBase.cs`) | grammars and their states, recognition flags, bookmark table, timeouts, OperationLock | LoadGrammar(Async), Unload, Recognize(Async), Cancel, Stop, EmulateRecognize, SAPI events | flags agree with the engine; each recognition completes once; a grammar being loaded is never used or lost |
| SapiProxy, EventNotify (`Internal/SapiInterop/`) | delegate hand-over slot, request and done events | Invoke, Dispose, the MTA thread; SAPI notifications | each call runs its own delegate once |
| Grammar builders, SRGS parser and compiler | element trees, a state graph | parse, build, optimise, emit | the graph keeps the language of the grammar |
| Streams, string blobs, converters | buffers, tables | read, seek, convert | pure functions |
| SDL asynchronous I/O (`io/SDL_asyncio.c`, `io/generic/SDL_asyncio_generic.c`) | a file's tasks and pending close, a queue's completed tasks and count in flight, the pool's tasks and threads | open, read, write, close, load; get and wait for results, signal, create and destroy a queue; the workers; shutdown | a task is done and taken once, the close last; nothing freed in use; nobody sleeps over work |
| SDL timers (`timer/SDL_timer.c`) | the map from IDs, the pending, free and sorted lists, `canceled`, the semaphore, `active` | add, remove, from threads and callbacks; the timer thread; init and quit | an object is in one list; an ID removes its own timer; timers fire; quitting ends |

How they interact: clients call SpeechSynthesizer, which queues prompts for the
VoiceSynthesis worker thread. The worker drives the TTS engine; audio goes to
an AudioBase (device or file), events go through the same device so that they
stay in step with the audio, then to `_asyncWorker`, whose single WorkerProc
dispatches them, updates prompts and posts the application's callbacks to
`_asyncWorkerUI`. A synchronous Speak() switches that second queue to
synchronous mode and drains it on the caller's thread. Recognition has the same
two queues, fed by EventNotify from SAPI; a pool thread loads each grammar and
another starts the engine once the loads are over. The two parts of SDL share
nothing with System.Speech or with each other: applications call them, workers
complete tasks into the queues applications wait on, and the timer thread calls
back into the application.

Hard behaviours, by kind: clients, the worker, the driver's callback thread and
pool threads interleave at every lock; state is read under one lock and used
under another (`_currentPrompt`, `_aborted`, the synthesizer's state); locks are
kept while their holder waits for another thread (Abort, SetOutput, voice
lookups, Dispose); engines and devices fail in the middle of a prompt; objects are
freed, or taken again, while another thread still names them; the process itself persists nothing, so there is no crash
recovery. `PROJECT.json`
lists each hazard at its line.

## The plan

| Order | Module | Models | Status |
|---|---|---|---|
| 1 | `AsyncSerializedWorker`, `SerializedDispatcher` | the event queue, and what it promises | done, proved |
| 2 | `AudioDeviceOut`, `Selection` | the wave-out device with its driver and its callers | done, safety invariants proved |
| 3 | `VoiceSynthesis` | the speech queue, its worker and its clients | done, safety proved |
| 4 | `RecognizerBase` | grammar loading, the recognition life cycle, timeouts, OperationLock | done, safety invariants proved |
| 5 | `AsyncIO`, `AsyncFiles` | tasks, files and queues over the thread pool, and what they promise | done, safety and refinement proved |
| 6 | `Timers` | the timer thread and its callers | done, safety invariants proved |
| 7 | `SapiProxy`, `AudioFileOut` | the hand-over of delegates; pause and resume over a stream | not reached |
| 8 | pure modules (`StringBlob`, `SeekableReadStream`, `Graph` minimisation) | operators against reference definitions | not reached |

How the modules fit together. `AsyncSerializedWorker` is shown to implement
`SerializedDispatcher` (INSTANCE with a refinement mapping, run `async_worker`,
theorem `AsyncRefines`), and `AsyncIO` to implement `AsyncFiles` (run `asyncio`).
`VoiceSynthesis` and `RecognizerBase` use the first abstraction in place of the
queue: the sequence `events` with the index `delivered`, and the sequences
`events` and `ui`, are dispatchers that handle their items one at a time and in
order. `VoiceSynthesis` does not compose with `AudioDeviceOut`: it has its own,
coarser device, the flags `devPaused` (`_fPaused`) and `aborted`, and whether the
driver of the open session is paused (`halted`). A session ends when its driver is
not paused or is aborted. `halted` is not a function of the flag, because Resume
restarts the driver under `_noWriteOutLock` (until line 223) and clears the flag
after it (224): a session opened in between is paused and stays so, in both
modules. What the coarser device leaves out are refusals: a failing waveOutWrite,
waveOutPause or waveOutRestart, and CallBackProc setting its event early.
`AudioDeviceOut` has those; its `PauseHolds` says that flag and driver agree
in both directions, and its `WaitersLeave` that a session whose driver runs ends, each with the
same gap and the refusals as exceptions with names. No refinement between the two is claimed.

## The modules

### AsyncSerializedWorker

State: `_queue`, `_hasPendingPost`, `_isAsyncMode`, `_isEnabled`; where each
thread is inside OnWorkItemPending (`stage`), WorkerProc callbacks the pool has
not started (`submitted`), pool threads (`worker`), the item each is invoking,
the client in a synchronous call. Every `lock (_queue.SyncRoot)` section is a
step. The code between locks is one step per read of shared state:
OnWorkItemPending runs without the lock, reads `_hasPendingPost` (`NotifyCheck`),
then the mode (`NotifyMode`), then submits a WorkerProc or raises WorkItemPending.
Two specifications share the actions. `AsyncSpec` never changes the mode: that is
`_asyncWorker`. `Spec` has a client that enters synchronous mode, drains the
queue and leaves again, as Speak and Recognize do with `_asyncWorkerUI`.

`Spec` follows Recognize, whose handler of WorkItemPending stays subscribed
(RecognizerBase 507). Speak subscribes only after it has switched the mode
(VoiceSynthesis 116-117), so the notification for items the mode change leaves
behind may reach nobody: they then stay until the next post, which in
synchronous mode always notifies. A Speak posts events of its own, so that
delays them and loses none; it is listed as a hazard and not modelled.

### AudioDeviceOut

State: the two queues, `_evt`, `_deviceOpen`, `_aborted`, `_fPaused`, the holder
of `_noWriteOutLock` where it is kept across a wait, and the driver: open,
paused, buffers accepted, buffers done whose callback has not run. Opens, writes,
pauses and restarts of the driver may fail (`OpenMayFail`, `WriteMayFail`,
`ControlMayFail`); an open that succeeds before its pause fails leaves the device
open (76-88). `refused`, `failed` and `raced` are history: a pause or restart that
failed, a write that failed, a session opened in the gap of a Resume. The driver is
external: it plays buffers in order, and `waveOutReset` returns all of them. Four
threads act: the speaker (Begin, Play, InjectEvent, WaitUntilDone, End, in the
order SpeakText and EngineSite use them), one that pauses and resumes (the
callers hold `lock (_waveOut)`, so there is one at a time), one that aborts, and
the driver's in CallBackProc. CallBackProc is three steps because it tests for an
empty queue and sets the event after it has left the lock (380-383). Buffers and
events share one numbering, so that "a bookmark is not dispatched before the
audio it follows" is a comparison of numbers.

### VoiceSynthesis

State: the queue and its event, the synthesizer's state, `_currentPrompt`,
`Prompt.Exception`, the device's flags and which object `_waveOut` is, where the
worker is in ThreadProc, the locks kept while waiting, Dispose's flags, whether
there is a current voice, and what was posted to `_asyncWorker`. The worker goes through

    wait -> start -> look -> segment -> play -> close -> segment ... -> finish -> reset -> check -> wait

with `voice` for a voice request; each arrow is one locked section or the code
between two. Clients run SpeakAsync, Speak, Pause/Resume, Abort
(SpeakAsyncCancelAll), Abort(Prompt), SetOutput, a voice lookup that needs the
worker, and Dispose; a call that waits inside is an action that begins it and one
that ends it. Resume is three steps: the driver under the lock of the device
(`ResumeDevice`), the flag outside it (`ResumeFlag`), the state under the lock of the
queue (`ResumeState`). `Calls` says which operations a run uses. A prompt has one segment,
or two (`Long`: markup that changes voice or embeds audio); it may be a wave file
(`Wave`: PlayWaveFile opens the device without looking at the abort flag), and
its markup may look voices up (`Ssml`). Plain text looks one up too as long as no
voice is current (755): `NeedsLookup`; `LookupDeadlock` is the worker waiting in such
a lookup for a client that waits for the worker (1089). `accepted`, `asked` and `purged` are
history variables: what was queued, what a cancel call named, what a cancel call
has returned for.

Abstracted: text and audio content, the engine (it returns, or fails), progress
events (the order of events inside a prompt is AudioDeviceOut's matter), rate,
volume, lexicons, event interests (all events are wanted), the selection of a
voice, and reuse of a Prompt object (refused by the code).

The delivery of events to a client inside Speak is reduced to one mark per client
(`readyFor`). In the code every client in Speak waits on the same AutoResetEvent
(`_workerWaitHandle`, 124): with two of them the one that drains the queue sets
the event for the other, while with three or more two Sets may collapse into one.
The runs have at most two clients, and `CallsReturn` claims no more than that.

### RecognizerBase

State: the grammars with the pool thread that loads each, OperationLock (count and
event), the flags `_isRecognizing`, `_isRecognizeCancelled`, `_haveInputSource`, the
two timeouts being detected or reached, `_lastResult`, the pool thread of each
recognition, the engine (active or not, its stream, the bookmarks it is to
report), and three queues: the engine's events, the completed event the event
thread is about to post, and `_asyncWorkerUI`. A recognition goes through

    RecognizeAsync -> pool thread: wait, check, start -> stream -> end event -> completed event

or, when it is cancelled early, a grammar failed or the engine does not start,
from the pool thread to a completed event of its own kind. Recognitions are
numbered; where the code keeps a Boolean the model keeps the number of the
recognition it was set in (0 is false), which costs nothing in states that matter
and lets `ReportIsOwn` say whose flag a report carries. A negated number is the
timeout Recognize sets by itself.

The engine is external: it hears phrases, recognizes or rejects each, reports the
bookmarks it was given, and ends its stream when it is told to stop or by itself.
Its events come in order. Event handlers of the application may start the next
recognition. Left out: emulated recognition, RequestRecognizerUpdate and its table
of bookmarks, hypotheses, audio states, the shared recognizer, SAPI 5.1. An
application thread makes one call at a time; a second one would only repeat the
locked sections of the first.

### AsyncIO and AsyncFiles

State: each file's tasks, close and life; each queue's count in flight, completed
tasks and life; the pool's tasks, `threadpool_init`, `stop_threadpool`, where each
worker and each application thread is, and what it has in hand. A task goes

    request -> file's list, counted -> pool -> worker -> completed -> taken -> out of the list -> freed

with a close started at once when the file has no tasks, or by the thread that
takes the last of them. Each locked section is a step; GetAsyncIOTaskOutcome is
three (take out and perhaps start the close, destroy the file, free the task),
because the lock is left and destroyed in between. Condition variables are
modelled: a signal wakes one of the threads that sleep, a timeout makes a worker
`late`, and a woken thread still has to get the lock before it looks again.
SDL_Quit cancels what the pool has and waits for the workers; unlocking, destroying
the lock and resetting the flags (255-265) are one step, so a thread blocked on the
lock in QueueAsyncIOTask when it is destroyed is not modelled.

`AsyncFiles` is the promise: a task is done once and its result taken once, the
close of a file is done after the results of all others are taken, and the file
goes when nothing is left. `FilesSpec` maps the lists, the workers' and the
threads' hands onto a status per task.

The application keeps to SDL_asyncio.h: two threads do not close the same file,
nobody uses a queue that is being destroyed. Left out: results of the I/O itself,
the failure of an allocation or of the backend's queueing (the generic one never
refuses), files beyond one per run.

### Timers

State: for each SDL_Timer its ID and `canceled`; the map; the lists `pending`,
`freelist`, `timers` and the timer thread's own; which timers are due, where the
timer thread and each caller is; semaphore, `active`, `init`. SDL_CreateTimer is
seven steps (pop, remove the old ID, cancel through it, fill, link, push,
signal), SDL_RemoveTimer two, a round of the timer thread maintain, check, one
step per due timer, callback, scan end, wait. The callback is open: it may add or
remove a timer through the same steps before it returns. The order inside the
lists is left out; because the thread's list is sorted, its head is due whenever
any of it is. A timer's time comes at any moment while it is in a list. Any thread
may remove the IDs in `Removed`, also of timers that end by themselves. `asked` and
`caught` are history: the IDs the application asked to remove, and the timers that
took their object while a removal of an earlier ID of it was between leaving the
lock and canceling (394-397).

SDL_Quit is called while the application's other threads are in no call.

## What is checked

| Run | Question | Answer |
|---|---|---|
| `async_worker` | is `_asyncWorker` a serialized dispatcher with one WorkerProc? | yes |
| `async_worker_sync` | can an item be left behind when modes change? | no, neither in a state (`NoLostWakeup`) nor for ever (`NoItemStuck`) |
| `audio_device` | with opens, writes and controls that fail, pauses and an Abort: do events keep in step with the sound, do flag and device agree on a pause, does Abort silence it, does every wait end? | yes, as qualified in the properties |
| `audio_early` | does WaitUntilDone wait for all the buffers? | no, finding |
| `voice_safety` | queue, events, state, cancels and output for a prompt of one segment beside a wave file of two, with failures and pauses | seven invariants and `OutputKept` hold, as qualified in the properties |
| `voice_live` | with every operation beside synchronous prompts: do prompts, Speak, SpeakAsyncCancelAll, voice requests and Dispose end? | yes, unless the worker is `Stuck`: in a session whose driver is paused, or in `LookupDeadlock`; a Speak also not behind a voice request |
| `recognizer` | two recognitions beside two loads, with failures, a cancel, a give-up and a Dispose: is each completed once, with its own report, after its grammars are loaded? does a single one end? | yes, as qualified in the properties |
| `recognize_hangs` | does Recognize return when its grammar fails to load? | no, finding |
| `asyncio` | two threads, two workers, two queues and a quit over one file: are tasks done and taken once and the close last, is anything freed in use, does anyone sleep over work, does destroying a queue end? | the promises hold |
| `asyncio_destroy` | does a queue outlive the close that names it? | no, finding |
| `timers` | timers that end, last or are removed, objects taken again, removals from threads and inside callbacks, a quit and a restart: is an object in one list, is only the asked-for timer canceled, does every timer fire, does quitting end? | yes, as qualified in the properties |
| `timers_removed` | can a removal cancel a timer nobody asked to remove? | yes, finding |

Every property of a passing run is paired in `PROJECT.json` with a mutant: an
operator beside the definition it alters, which breaks the property when it
takes its place.

### Bounds

- `async_worker`: 8 items in arrays of up to 3, two posters, three pool threads:
  one WorkerProc more than may ever run, and a batch that meets a stopping one.
- `async_worker_sync`: 3 items, 2 synchronous calls, two posters, two pool threads:
  a WorkerProc may still be running from before the first call when the second
  ends. The second posting thread gives two notifiers with stale reads at once.
- `audio_device`: 4 buffers or events, one Abort, one Pause, failing opens, writes,
  pauses and restarts. Two buffers around an event is the smallest case of "in step"; the
  fourth item lets the next session start. The invariants were also checked with
  5 items.
- Voice runs: two clients, two prompts, 2 or 3 calls other than Speak. Two
  prompts are what "the next prompt" needs; two clients let a call meet another
  that is half done. In `voice_safety` the two prompts differ in kind, and either
  may be queued first, and 3 calls suffice for a Pause, a Resume and a SetOutput
  between two segments; `voice_live` has all seven operations and prompts of one text
  segment, since with two Dispose may wait for ever (see the findings). The violation
  runs use the smallest instance that shows them.
- `recognizer`: two grammars, two loads, two recognitions, one phrase, one call of
  cancel, unload, SetInput or Dispose. A second recognition is what leaks from the
  first need; a second load keeps OperationLock above zero when one ends.
- `asyncio`: one file, two queues, two tasks, two threads, two workers, one quit. A
  read and the close that waits for it, on either queue, with both workers idle or
  late; the second thread takes results, waits or destroys a queue meanwhile.
  The invariants were also checked with three tasks and two files (3.6 million
  states up to symmetry).
- `timers`: two objects and three IDs, so that an object is taken again. IDs 1
  and 2 may end by themselves, 3 does not; 1 may be removed at any time, also when it
  has just ended and its object is taken again; two application threads.
  `timers_removed` has one object and two IDs.
- `MaxItems`, `MaxAborts`, `MaxPauses`, `MaxPosts`, `MaxBatch`, `MaxCalls`, `MaxSessions`,
  `MaxLoads`, `MaxPhrases`, `MaxQuits`, `MaxId` and the finite sets of tasks are guards
  of the actions and bound nothing else.

### Fairness

No call of the application is ever forced to happen; deadlock checking is off
because an application may stop calling. Threads already running go on: weak
fairness for pool threads, the driver, the dispatcher, and calls already begun.
Strong fairness only where End waits for a lock others keep taking (`EndCheck` of
`AudioDeviceOut`): a .NET monitor hands the lock to a waiter in the end.
The TTS engine is assumed to return; the recognition engine to decide about a phrase it hears, to reach its bookmarks and to end its stream when
told to. In SDL the workers and the timer thread are scheduled, a call that has
begun goes on, callbacks return and time passes; no timeout of a wait, no signal
and no call is ever forced.

## What is proved

`AsyncSerializedWorker_proofs`, for any threads and bounds:

- `TypeCorrect`. Type correctness of `Spec`.
- `AsyncOneWorker`, `AsyncSerialized`. In `AsyncSpec` items are handled one at a
  time. `Serialized` is not inductive: two WorkerProcs might be scheduled. The
  invariant `AInv` says that the notification, the pool's callback and the running
  WorkerProc are one token, and that `_hasPendingPost` is set exactly while the
  token exists; AddItem creates it only when the flag is clear, and a stopping
  WorkerProc destroys it in the locked section that clears the flag.
- `WakeupNeverLost`. `NoLostWakeup` under `Spec`, with mode changes. There the flag
  may be set without a token, so `LInv` is weaker: whenever there are items, the
  flag or a notifier covers them, and a set flag means someone is running or about
  to be.
- `AsyncRefines`. `AsyncSpec` implements `SerializedDispatcher`: each step maps to
  a step of it or to none.

`VoiceSynthesis_proofs`, for any clients, prompts, kinds of prompt and bounds:

- `WorkerStaysAwake`. Its inductive form drops the position of the worker: the
  event is set whenever the queue is not empty.
- `CancelNeverLeaks`. The invariant `Blame` follows the blame for a cancel through
  the threads: an Abort that waits has the lock of the queue, so what it listed
  stays all there is (`LockKept`, `PurgeAsked`); the device's flag is about the
  prompt in hand, because `_currentPrompt` is that prompt or null and the flag is
  cleared when a prompt is taken (`InHand`, `FlagAsked`); so are the worker's
  result, `Prompt.Exception` and the events (`ResultAsked`, `CancelledAsked`,
  `ToldAsked`).
- `TypeCorrect`. `Base` adds to `Blame` the worker's place with its segment (`Kinds`)
  and that the outputs ever in use are counted by the calls (`DeviceInv`). All the
  theorems below start from `Base`.
- `IdleNeverSpeaks`, without voice requests (with them it is false, see the
  findings): `QuietInv` is its form for a worker that has no prompt and no queue.
- `OutputStays`, for prompts of any number of segments. SetOutput tests the state
  only, so what matters is when a prompt is taken and the state Ready. `CurrentInv`
  says that no prompt is current then, and that the state stays Ready inside
  SetOutput, which keeps the lock of the queue. `ReadyInv` says that a pause was
  announced then: only a Resume makes the state Ready under a prompt, and it follows
  a Pause whose event stays among those posted (`WasPausedLasts`).
- `StateTellsSound`. Its first half is `CurrentInv` and `ReadyInv`. `PauseInv` says
  what holds until the first cancel or change of output: Paused means a set flag
  outside Resume, a set flag a paused driver in a session (but between the two halves
  of Resume), and the lock of the device keeps a Pause and a Resume apart.
- `PromptsInOrder`. `OrderInv` is a ledger: the events about prompts are start and
  end of `accepted` in turn (`Alternates`), the queue holds exactly the prompts
  after the m-th with requests in between (`Backlog`), and twice m minus what the
  worker still owes (`Owed`) have been posted. The number of prompt events is a
  cardinality, with lemmas for what one more event does to it.
- `StatesInOrder`. `ChainInv` is the property itself, over the positions of the
  StateChanged events: a client and the worker change the state and post the event
  in one locked section.
- `PurgedStaysSilent`. `PurgeInv`: a purged prompt still in the queue carries the mark in
  `Prompt.Exception`, one in hand carries it, or has the device's flag set, or has
  no segment left. It needs the order of the prompts: a dispatched event overwrites
  that field, and no event is about a prompt that is still queued (`NotYet`).

`Timers_proofs`, for any threads, timers, callbacks and bounds:

- `TypeCorrect`, `MapAlwaysMatches`, `OnePlaceAlways`. None is inductive alone. The
  invariant `IInv` adds: what a caller has in hand at each of its steps
  (`CallersInv`: the object it makes is its own, the ID it has given it is the
  newest of the object, the entry it unlinked is no longer in the map), where the
  timer thread is and what its lists hold then (`LoopInv`: its own freelist is
  empty outside a scan and the hand-over, `current` is set exactly in a callback),
  that IDs are given once (`IdsInv`), that the lists and the hands are apart
  (`Apart`) and that the map agrees with the objects (`MapInv`). Taking an object
  from the freelist is the case that needs all of them: the old entry is removed
  before the object gets its new ID.
- `OnlyCaughtIsCanceled`, for applications that remove whatever they like. `CaughtInv`
  adds that a removal on its way is of an ID that was asked for, and that the object
  it will cancel has that ID still or is `caught`.

`RecognizerBase_proofs`, for any grammars and bounds, whether loads and starts fail
or not (any finite set of grammars: `OperationLock` counts them):

- `TypeCorrect`. That `operationCount` is the number of loads under way is part of
  it, and the case of each load step counts a finite set.
- `LoadsComeFirst`. `LoadInv` adds that the event of the OperationLock is set only
  while nothing is loading, and that what a recognition waits for is loading.
- `OneRecognition`. `OnePlace` speaks of four places; `PhaseInv` says which of five
  phases the recognizer is in (`Idle`, `Starting`, `Streaming`, `Ending`, `Failing`)
  with all that is empty then: in particular the end of the stream is the last event,
  so the event thread resets the flags when nothing of the recognition is left.
- `ReportsAreOwn`, `TimeoutsAreExclusive`. `OwnInv` follows the results and the
  timeouts back to where they are set: only while the engine runs (`DetectInv`), to
  the number of the recognition in progress, and a babble timeout only when the
  silence is no longer detected, because a stream starts once and its start is
  handled first. Each was checked with TLC before it was proved.

`AudioDeviceOut_proofs`, for any bounds, whether opens and writes fail or not:

- `TypeCorrect`. That only buffers enter `_queueOut` rests on the head of `_queueIn`
  being one (`HeadIsBuffer`): an event is queued only behind a buffer.
- `PauseNeverLost`, in both directions. Inductive with `LockHeld`, `FlagsHold` and
  `ResumeHolds`: who has `_noWriteOutLock` across a wait, that the driver is open only
  in a session, and that between the two halves of a Resume an open driver is paused
  only in a session opened there or aborted.
- `QueueInStep`, `FirstAbortSilences`. `OrderInv`: as long as nobody has aborted, the
  buffers of `_queueIn` are those the driver has or has done, in the same order
  (`Tidy`), and the events dispatched are numbered below all that is queued
  (`Before`). A callback that takes a buffer dispatches the events behind it up to
  the next one; a failed write takes the last item away again.

`Selection` defines the items of a sequence at a set of positions. The model uses
it in place of SelectSeq, whose definition is recursive; `Selection_proofs` has its
lemmas (the positions are enumerated in order, what is selected, and that it is
distinct where the sequence is) and those about the smallest and the largest member of a set of numbers,
which `VoiceSynthesis_proofs` uses as well.

`AsyncIO_proofs`, for any finite sets of threads and tasks, any files, queues, workers
and bounds:

- `Inductive`, `TypeCorrect`. `CoreInv` says of every task where it is: in its file's
  list or in the hand of one thread, which is when `tasks_inflight` counts it
  (`CountInv`, so the count never goes below zero), and, when busy, in exactly one
  of the pool, a worker and the completed tasks of its queue (`PlaceInv`,
  `BusyInv`). A task that is not started is a close that waits, and a close is alone
  once it is in the list (`LiveInv`, `FileInv`). `Inductive` is cited by all others.
- `Stranded`. `PoolInv` ties the flags to the workers: while there is something in the
  pool nobody sleeps, and an initialized pool has a running worker. It is kept
  because a worker leaves only under the lock with the pool empty.
- `FilesLast`, `NothingFreed`. A file outlives its tasks in any use. A queue does so
  for an application that is `Careful`, under which `CareInv` says that a close
  waiting in a dying queue waits for tasks of that queue only.
- `EnoughWoken`. `Enough`, queue by queue: the threads woken are no fewer than the
  completed tasks while another sleeps. A completion wakes one of those that sleep,
  and a woken thread that leaves takes a task with it, if there is one.
- `ImplementsFiles`. The refinement of `AsyncFiles`, action by action of `AsyncIO`:
  the step maps to a step of the promise or leaves every status as it is.

They assume what the modules assume: bounds are naturals, the client of the event
queue is no poster and no pool thread, the timer thread no application thread,
`None` and `"voice"` are no prompts, `None` is no timer, grammar, task, file or queue,
the threads and the tasks of `AsyncIO` and the grammars are finitely many (they are
counted). Hypotheses of single theorems: `Careful` (`NothingFreed`) and no voice
requests (`IdleNeverSpeaks`); each has a run or a finding that shows what fails
without it.

Every safety property of the passing runs is stated by one of these theorems, both
refinements included. Only model-checked are the liveness properties, because
TLAPS does not prove liveness under fairness here: `NoItemStuck`, `WaitersLeave`,
`PromptsEnd`, `CallsReturn`, `RequestsEnd`, `SingleEnds`, `DestroyEnds`, `TimerFires` and
`QuitEnds`.

## Findings

The runs that expect a violation:

- `audio_early`: CallBackProc tests for an empty queue inside and sets the event
  outside the lock; a Play in between is not waited for and End cuts it off.
- `recognize_hangs`: when a grammar fails to load, or the engine to start, the
  completed event is raised for RecognizeCompleted only (2086), and Recognize waits
  for RecognizeCompletedSync: its loop (602) never ends.
- `asyncio_destroy`: a close that waits for other tasks is not counted in its queue,
  so SDL_DestroyAsyncIOQueue frees the queue under it (SDL_asyncio.c 178, 288).
- `timers_removed`: SDL_RemoveTimer finds the entry of a timer that has just ended,
  leaves the lock (394) and cancels the object (398) after it was taken again (321,
  334) for a new timer, which never fires, although the call is "safe from any
  thread" (SDL_timer.h 439).

Seen while modelling, confirmed with TLC on instances not kept as runs, because
no comment or test promises otherwise or because they repeat a finding; the
properties name them as exceptions, or their runs leave out the calls they need:

- A lost Resume. Resume leaves `_noWriteOutLock` (AudioDeviceOut 223) before it clears
  `_fPaused` (224); a Begin in between opens the device and pauses it (76-79). The
  state is Speaking, the flag is clear, the device is paused: WaitUntilDone and a
  synchronous Speak never return, until the application pauses and resumes once more.
  `PauseHolds` and `WaitersLeave` except `raced`, the promises of `voice_live` except
  `Stuck` by its `halted`; TLC refutes each without the exception.
- A voice lookup. A client in GetVoice keeps `_defaultVoiceLock` (1445) while it waits
  for the worker to create the voice (1089). The worker takes that lock for plain text
  as long as no voice is current (755), and all locks of a lookup for markup: both
  wait for ever. `Stuck` by its `LookupDeadlock`; TLC refutes `PromptsEnd` and
  `RequestsEnd` without it.
- A synchronous Speak with a voice request queued behind its prompt never returns: the
  request passes for another prompt (1039), the state stays Speaking and no Ready event
  comes. `CallsReturn` excepts `AsleepSpeaking`.
- A failed `waveOutWrite` leaves the event reset (AudioDeviceOut 165/175) and
  WaitUntilDone waits for ever: `WaitersLeave` excepts `failed`.
- After a failed `waveOutOpen` the device stays marked open and every later Begin
  asserts and throws (64, 82).
- A callback that arrives after CheckForAbort takes the first buffer of the next
  session (354): `InStep` is about sessions nobody aborts.
- A pause that meets an aborted device, or one about to be replaced, is lost while
  the state says Paused (VoiceSynthesis 451, AudioDeviceOut 190): excepted in
  `StateIsHeard`.
- `_currentPrompt` is cleared after every segment (VoiceSynthesis 931), so an Abort
  between two segments stops nothing and the rest is spoken, although Abort
  "synchronously purges all data" (369-373): `PurgedIsSilent` with a long prompt.
- A voice request behind the last prompt counts as another prompt (1012, 1039), and
  the state stays Speaking over an idle worker: `IdleIsNotSpeaking` with requests.
- Pause and Resume in the gap after line 931 set the state to Ready in the middle
  of a prompt of two segments: the assertion at 1016 fails, and SetOutput then
  replaces the output under the prompt (345): `StateIsHeard` and `OutputKept` allow
  this case by name, and no other.
- SpeakAsyncCancel dereferences the missing prompt of a voice request ahead in the
  queue (418): action `CancelThrows`.
- Dispose of a synthesizer paused between two segments waits for ever (1603, 1611).
- Dispose during a synchronous Speak on another thread drops the completion event
  (1520) and closes the handle Speak waits on (122-126, 1624).
- An Abort before a wave-file segment is lost (922).
- When modes change, a WorkerProc inside a handler and the client, or a second
  WorkerProc, may run handlers of `_asyncWorkerUI` at the same time
  (AsyncSerializedWorker 164); `Serialized` is therefore asserted of `_asyncWorker`.

- Recognition. RecognizeAsyncCancel between the check (2031) and the start (2045) of
  the pool thread deactivates an engine that is not active yet: the engine then
  starts, and only the end of its input ends the recognition (a single one by its
  timeouts). Recognize giving up late (609) leaves `_initialSilenceTimeoutReached` set
  for the next recognition (asserted clear at 535), with a timeout of its own both
  are set (assertion 2469), and a failed start does not reset it (2081-2082). The
  engine call of a cancel, made outside the lock (662), may hit the next recognition.
  The completed event is posted (2475) after the lock is left (2467): a Recognize that
  enters in between returns with the previous recognition's event. A pool thread
  that waits while the recognizer is disposed throws on a closed handle (2006).
- Asynchronous I/O. A close cancelled by SDL_Quit frees the file without closing its
  stream (SDL_asyncio_generic.c 282-287); after SDL_Quit a close that waited for other
  tasks is queued to a pool that is gone. Completed tasks are taken newest first.
- Timers. A callback that adds a timer while SDL_Quit
  waits for the timer thread hangs both: SDL_ShouldInit waits for the quit to end
  (thread/SDL_thread.c 556-568); `QuitEnds` with `"add"` in `Callbacks`. A timer pushed
  between the maintenance and the look at `active` (139) stays pending over a quit.
  SDL_CreateTimer returns `entry->timerID` (358) when a callback may already have
  removed the entry.

## Not modelled

The table in `PROJECT.json` gives the reason for every part: parsers and builders
are tree walks over text, SAPI wrappers and object tokens are marshalling and
registry I/O, the tools are short sequential programs around files. SDL3 makes up
most of the lines in the repository: its drivers, renderers, blitters and codecs
are calls to devices and arithmetic on pixels and samples, with tables generated
or vendored in turn. SapiProxy, EventNotify and AudioFileOut have hazards listed in
`PROJECT.json` that no property covers.
