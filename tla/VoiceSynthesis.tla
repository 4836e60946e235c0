--------------------------- MODULE VoiceSynthesis ---------------------------
(***************************************************************************)
(* The speech queue of SpeechSynthesizer:                                  *)
(* src/Internal/Synthesis/VoiceSynthesis.cs, and the few lines of          *)
(* Synthesis/SpeechSynthesizer.cs that guard its calls.                    *)
(*                                                                         *)
(*  - Any client thread may call any operation.                            *)
(*  - One worker thread (ThreadProc) takes the entries of the queue one    *)
(*    after the other and speaks them, segment by segment.                 *)
(*  - The dispatcher delivers the events the others post (the serialized   *)
(*    queue of AsyncSerializedWorker, here one sequence and an index).     *)
(*                                                                         *)
(* A step is a locked section, or the code between two of them.  A lock    *)
(* that is kept while its holder waits is state: queueOwner is             *)
(* lock (_pendingSpeakQueue), locked is lock (_waveOut), voiceOwner stands *)
(* for the nested locks of a voice lookup (_enabledVoicesLock,             *)
(* _voiceDictionary); _processingSpeakLock is held exactly while the       *)
(* worker is at "play" or "close".  lock (_site) is never kept.            *)
(*                                                                         *)
(* The audio device is cut down to its two flags and its driver, which is  *)
(* paused or not and never refuses a call (AudioDeviceOut has the rest): a *)
(* session ends when its driver is not paused, or when it is aborted.      *)
(***************************************************************************)
EXTENDS Integers, Sequences, FiniteSets, SequencesExt

CONSTANTS
  Client,      (* client threads                                           *)
  Prompt,      (* prompts; each is spoken at most once                     *)
  Ssml,        (* prompts whose text makes the worker look voices up       *)
  Long,        (* prompts of two segments; the others have one             *)
  Wave,        (* prompts that are wave files                              *)
  None,        (* no client, no prompt, no exception                       *)
  Calls,       (* the operations the clients use                           *)
  MaxCalls,    (* bound on the calls other than Speak and SpeakAsync       *)
  MayFail      (* whether engines and devices may fail                     *)

ASSUME PromptKinds == Ssml \subseteq Prompt /\ Long \subseteq Prompt /\ Wave \subseteq Prompt
ASSUME NoneIsNobody == None \notin Client \cup Prompt \cup {"cancelled", "failed", "voice"}
ASSUME MaxCallsIsNat == MaxCalls \in Nat
ASSUME MayFailIsBoolean == MayFail \in BOOLEAN
ASSUME VoiceIsNoPrompt == "voice" \notin Prompt

VARIABLES
  queue,         (* _pendingSpeakQueue: prompts and "voice" requests       *)
  queueOwner,    (* the client that keeps lock (_pendingSpeakQueue)        *)
  evt,           (* _evtPendingSpeak, a ManualResetEvent                   *)
  state,         (* _synthesizerState                                      *)
  currentPrompt, (* _currentPrompt                                         *)
  exception,     (* Prompt.Exception of every prompt                       *)
  device,        (* which object _waveOut is                               *)
  devPaused,     (* _waveOut._fPaused                                      *)
  halted,        (* the driver of the open session is paused               *)
  aborted,       (* _waveOut.IsAborted                                     *)
  locked,        (* which device object each client keeps locked, or 0     *)
  worker,        (* where the worker is                                    *)
  spoken,        (* the prompt the worker took last                        *)
  segment,       (* its current segment                                    *)
  result,        (* the exception it will report                           *)
  voiceOwner,    (* the client that keeps the voice locks                  *)
  current,       (* whether _currentVoice is set                           *)
  proxy,         (* _evtPendingGetProxy, a ManualResetEvent                *)
  paused,        (* SpeechSynthesizer._paused                              *)
  exiting,       (* _fExitWorkerThread                                     *)
  disposer,      (* the client in Dispose, which keeps _thisObjectLock     *)
  disposed,      (* _isDisposed                                            *)
  at, arg,       (* where each client is, and with which prompt            *)
  events,        (* what was posted to _asyncWorker, in order              *)
  delivered,     (* how many of them were dispatched                       *)
  completed,     (* the prompts with IsCompleted set                       *)
  readyFor,      (* the clients whose Speak has a Ready event to look at   *)
  accepted,      (* history: the prompts queued, in order                  *)
  asked, purged, (* history: prompts a cancel call named; has returned for *)
  calls          (* calls so far                                           *)

queueVars == <<queue, queueOwner, evt>>
deviceVars == <<device, devPaused, halted, aborted>>
workerVars == <<worker, spoken, segment, result>>
voiceVars == <<voiceOwner, current, proxy>>
exitVars == <<exiting, disposer, disposed>>
clientVars == <<at, arg, locked, paused, calls>>
dispatchVars == <<delivered, completed, readyFor>>
history == <<accepted, asked, purged>>
vars == <<queueVars, state, currentPrompt, exception, deviceVars, workerVars,
          voiceVars, exitVars, clientVars, events, dispatchVars, history>>

-----------------------------------------------------------------------------
Start(p, e) == [kind |-> "start", prompt |-> p, exception |-> e]
End(p, e) == [kind |-> "end", prompt |-> p, exception |-> e]
Changed(s, previous) == [kind |-> "state", state |-> s, previous |-> previous]

(* What OnStateChanged posts: nothing when the state stays.  The mutant     *)
(* swaps the two states.                                                    *)
SwapsStates(s, previous) == IF s = previous THEN <<>> ELSE <<Changed(previous, s)>>
OnStateChanged(s, previous) == IF s = previous THEN <<>> ELSE <<Changed(s, previous)>>

QueueFree == queueOwner = None
WaveOutFree == \A c \in Client : locked[c] # device
ProcessingFree == worker \notin {"play", "close"}

(* The prompt the worker is busy with, and the prompts still in the queue.  *)
Speaking == IF worker \in {"start", "look", "segment", "play", "close"}
            THEN {spoken} ELSE {}
Queued == {queue[i] : i \in DOMAIN queue} \ {"voice"}

LastSegment(p) == IF p \in Long THEN 2 ELSE 1

Init ==
  /\ queue = <<>> /\ queueOwner = None /\ evt = FALSE
  /\ state = "Ready" /\ currentPrompt = None
  /\ exception = [p \in Prompt |-> None]
  /\ device = 1 /\ devPaused = FALSE /\ halted = FALSE /\ aborted = FALSE
  /\ locked = [c \in Client |-> 0]
  /\ worker = "wait" /\ spoken = None /\ segment = 1 /\ result = None
  /\ voiceOwner = None /\ current = FALSE /\ proxy = FALSE
  /\ paused = FALSE
  /\ exiting = FALSE /\ disposer = None /\ disposed = FALSE
  /\ at = [c \in Client |-> "idle"] /\ arg = [c \in Client |-> None]
  /\ events = <<>> /\ delivered = 0 /\ completed = {} /\ readyFor = {}
  /\ accepted = <<>> /\ asked = {} /\ purged = {}
  /\ calls = 0

-----------------------------------------------------------------------------
(* The worker: ThreadProc.                                                  *)

(* The prompt of an entry, if it is one; the mutant does not ask.           *)
EntryItself(entry) == entry
PromptOf(entry) == IF entry = "voice" THEN None ELSE entry

(* The device's abort flag once a prompt is taken; the mutant keeps it.     *)
AbortedKept == aborted
AbortedAfterTake == FALSE

(* WaitOne, then the first locked section: the next entry. *)
TakePrompt ==
  /\ worker = "wait" /\ evt /\ QueueFree
  /\ queue # <<>> /\ Head(queue) # "voice"
  /\ queue' = Tail(queue)
  /\ LET next == IF currentPrompt = None /\ state # "Paused" THEN "Speaking" ELSE state
     IN  /\ state' = next
         /\ events' = events \o OnStateChanged(next, state)
  /\ currentPrompt' = PromptOf(Head(queue)) /\ spoken' = Head(queue)
  /\ aborted' = AbortedAfterTake
  /\ worker' = "start"
  /\ UNCHANGED <<queueOwner, evt, exception, device, devPaused, halted, segment,
                 result, voiceVars, exitVars, clientVars, dispatchVars, history>>

TakeVoice ==
  /\ worker = "wait" /\ evt /\ QueueFree
  /\ queue # <<>> /\ Head(queue) = "voice"
  /\ queue' = Tail(queue)
  /\ currentPrompt' = PromptOf(Head(queue))
  /\ worker' = "voice"
  /\ UNCHANGED <<queueOwner, evt, state, exception, deviceVars, spoken, segment,
                 result, voiceVars, exitVars, clientVars, events, dispatchVars, history>>

TakeNothing ==
  /\ worker = "wait" /\ evt /\ QueueFree
  /\ queue = <<>>
  /\ worker' = "reset"
  /\ UNCHANGED <<queueVars, state, currentPrompt, exception, deviceVars, spoken,
                 segment, result, voiceVars, exitVars, clientVars, events,
                 dispatchVars, history>>

(* Action.GetVoice: the voice is created and the client unlocked. *)
MakeVoice ==
  /\ worker = "voice"
  /\ proxy' = TRUE
  /\ worker' = "reset"
  /\ UNCHANGED <<queueVars, state, currentPrompt, exception, deviceVars, spoken,
                 segment, result, voiceOwner, current, exitVars, clientVars, events,
                 dispatchVars, history>>

(* Action.SpeakText: a prompt cancelled in the queue is not spoken. *)
StartStream ==
  /\ worker = "start"
  /\ events' = Append(events, Start(spoken, exception[spoken]))
  /\ result' = exception[spoken]
  /\ worker' = IF exception[spoken] = None THEN "look" ELSE "finish"
  /\ UNCHANGED <<queueVars, state, currentPrompt, exception, deviceVars, spoken,
                 segment, voiceVars, exitVars, clientVars, dispatchVars, history>>

(* What SpeakText locks to find its voice: _defaultVoiceLock when there is  *)
(* no current voice yet (755, 1445), and the locks of every lookup when the *)
(* text is markup.                                                          *)
NeedsLookup == ~current \/ spoken \in Ssml
LookupDeadlock == worker = "look" /\ NeedsLookup /\ voiceOwner # None

(* Voices are looked up and the prompt is cut into segments. *)
LookUp ==
  /\ worker = "look" /\ ~LookupDeadlock
  /\ current' = TRUE
  /\ segment' = 1
  /\ worker' = "segment"
  /\ UNCHANGED <<queueVars, state, currentPrompt, exception, deviceVars, spoken,
                 result, voiceOwner, proxy, exitVars, clientVars, events,
                 dispatchVars, history>>

(* An exception anywhere in the prompt: the handler finishes it. *)
Throw ==
  /\ MayFail
  /\ \/ worker = "look" /\ ~LookupDeadlock /\ current' \in {current, TRUE}
     \/ worker = "segment" /\ UNCHANGED current
     \/ worker = "play" /\ (~halted \/ aborted) /\ UNCHANGED current
  /\ result' = "failed"
  /\ halted' = FALSE
  /\ worker' = "finish"
  /\ UNCHANGED <<queueVars, state, currentPrompt, exception, device, devPaused,
                 aborted, spoken, segment, voiceOwner, proxy, exitVars, clientVars,
                 events, dispatchVars, history>>

(* Whether a segment sees that the prompt was aborted: text does, a wave    *)
(* file does not look.  The mutant never looks.                             *)
NeverLooks == FALSE
SeesAbort == aborted /\ spoken \notin Wave

(* SpeakText, the start of a segment: the processing lock, Begin, which     *)
(* pauses the device it opens if the flag says so.                          *)
BeginSegment ==
  /\ worker = "segment" /\ segment <= LastSegment(spoken)
  /\ aborted' = FALSE
  /\ IF SeesAbort
     THEN worker' = "finish" /\ result' = "cancelled" /\ UNCHANGED halted
     ELSE worker' = "play" /\ halted' = devPaused /\ UNCHANGED result
  /\ UNCHANGED <<queueVars, state, currentPrompt, exception, device, devPaused,
                 spoken, segment, voiceVars, exitVars, clientVars, events,
                 dispatchVars, history>>

(* The engine returns, the device has played everything, End. *)
Played ==
  /\ worker = "play" /\ (~halted \/ aborted)
  /\ \E e \in {None, "failed"} : (e # None => MayFail) /\ result' = e
  /\ halted' = FALSE
  /\ worker' = "close"
  /\ UNCHANGED <<queueVars, state, currentPrompt, exception, device, devPaused,
                 aborted, spoken, segment, voiceVars, exitVars, clientVars, events,
                 dispatchVars, history>>

(* The end of a segment: the abort or the engine's exception is noticed. *)
CloseSegment ==
  /\ worker = "close"
  /\ currentPrompt' = None
  /\ aborted' = FALSE
  /\ result' = IF result = None /\ aborted THEN "cancelled" ELSE result
  /\ worker' = IF result' = None THEN "segment" ELSE "finish"
  /\ segment' = segment + 1
  /\ UNCHANGED <<queueVars, state, exception, device, devPaused, halted, spoken, voiceVars,
                 exitVars, clientVars, events, dispatchVars, history>>

AllSegments ==
  /\ worker = "segment" /\ segment > LastSegment(spoken)
  /\ result' = exception[spoken]
  /\ worker' = "finish"
  /\ UNCHANGED <<queueVars, state, currentPrompt, exception, deviceVars, spoken,
                 segment, voiceVars, exitVars, clientVars, events, dispatchVars, history>>

(* When the last prompt is over; the mutant is off by one.                  *)
OneLeft == Len(queue) = 1
NothingLeft == queue = <<>>

(* The end is announced after a failure too; the mutant forgets it.         *)
EndIfPlayed == IF result = None THEN <<End(spoken, result)>> ELSE <<>>
EndAlways == <<End(spoken, result)>>

(* ChangeStateToReady. *)
Finish ==
  /\ worker = "finish" /\ WaveOutFree /\ QueueFree
  /\ exception' = [exception EXCEPT ![spoken] = result]
  /\ currentPrompt' = IF NothingLeft THEN None ELSE currentPrompt
  /\ IF NothingLeft /\ state # "Paused"
     THEN /\ state' = "Ready"
          /\ events' = events \o EndAlways \o <<Changed("Ready", state)>>
     ELSE /\ events' = events \o EndAlways
          /\ UNCHANGED state
  /\ worker' = "reset"
  /\ UNCHANGED <<queueVars, deviceVars, spoken, segment, result, voiceVars,
                 exitVars, clientVars, dispatchVars, history>>

(* Whether the event is reset; the mutant always resets it.  The locals of  *)
(* the iteration are forgotten.                                             *)
AlwaysResets == TRUE
ResetsEvent == queue = <<>>

Reset ==
  /\ worker = "reset" /\ QueueFree
  /\ evt' = IF ResetsEvent THEN FALSE ELSE evt
  /\ worker' = "check" /\ spoken' = None /\ segment' = 1 /\ result' = None
  /\ UNCHANGED <<queue, queueOwner, state, currentPrompt, exception, deviceVars,
                 voiceVars, exitVars, clientVars, events,
                 dispatchVars, history>>

(* Whether the worker must go; the mutant waits for the Ready state, as     *)
(* Dispose does for a while.                                                *)
ToldWhenReady == exiting /\ state = "Ready"
ToldToExit == exiting

CheckExit ==
  /\ worker = "check"
  /\ IF ToldToExit THEN worker' = "exited" /\ state' = "Ready"
                ELSE worker' = "wait" /\ UNCHANGED state
  /\ UNCHANGED <<queueVars, currentPrompt, exception, deviceVars, spoken, segment,
                 result, voiceVars, exitVars, clientVars, events, dispatchVars, history>>

-----------------------------------------------------------------------------
(* The clients.                                                             *)

Goes(c, place) == at' = [at EXCEPT ![c] = place]

(* A call from the set Calls begins. *)
Call(c, name) ==
  /\ at[c] = "idle" /\ name \in Calls /\ ~disposed
  /\ calls < MaxCalls
  /\ calls' = calls + 1

(* AddSpeakParameters and ExecuteOnBackgroundThread: the entry, and the     *)
(* event if the queue was empty.  The mutant is off by one.                 *)
WakesAtOne == Len(queue) = 1
WakesWorker == queue = <<>>

Enqueue(entry) ==
  /\ QueueFree
  /\ queue' = Append(queue, entry)
  /\ evt' = (evt \/ WakesWorker)

Fresh == Prompt \ {accepted[i] : i \in DOMAIN accepted}

SpeakAsync(c, p) ==
  /\ at[c] = "idle" /\ "async" \in Calls /\ p \in Fresh
  /\ \A d \in Client : at[d] = "queueing" => arg[d] # p
  /\ ~disposed
  /\ Enqueue(p)
  /\ accepted' = Append(accepted, p)
  /\ UNCHANGED <<queueOwner, state, currentPrompt, exception, deviceVars, workerVars,
                 voiceVars, exitVars, clientVars, events, dispatchVars, asked, purged>>

(* Speak: not when paused ... *)
SpeakTest(c, p) ==
  /\ at[c] = "idle" /\ "speak" \in Calls /\ p \in Fresh
  /\ \A d \in Client : at[d] = "queueing" => arg[d] # p
  /\ state # "Paused" /\ ~disposed
  /\ Goes(c, "queueing")
  /\ arg' = [arg EXCEPT ![c] = p]
  /\ UNCHANGED <<queueVars, state, currentPrompt, exception, deviceVars, workerVars,
                 voiceVars, exitVars, locked, paused, calls, events, dispatchVars, history>>

(* ... the prompt is queued ... *)
SpeakQueue(c) ==
  /\ at[c] = "queueing" /\ ~disposed
  /\ Enqueue(arg[c])
  /\ accepted' = Append(accepted, arg[c])
  /\ Goes(c, "speaking")
  /\ UNCHANGED <<queueOwner, state, currentPrompt, exception, deviceVars, workerVars,
                 voiceVars, exitVars, arg, locked, paused, calls, events, dispatchVars,
                 asked, purged>>

SpeakRefused(c) ==
  /\ at[c] = "queueing" /\ disposed
  /\ Goes(c, "idle") /\ arg' = [arg EXCEPT ![c] = None]
  /\ UNCHANGED <<queueVars, state, currentPrompt, exception, deviceVars, workerVars,
                 voiceVars, exitVars, locked, paused, calls, events, dispatchVars,
                 history>>

(* ... and the caller returns at a Ready event, once its prompt is over. *)
SpeakReturn(c) ==
  /\ at[c] = "speaking" /\ c \in readyFor
  /\ readyFor' = readyFor \ {c}
  /\ IF arg[c] \in completed
     THEN Goes(c, "idle") /\ arg' = [arg EXCEPT ![c] = None]
     ELSE UNCHANGED <<at, arg>>
  /\ UNCHANGED <<queueVars, state, currentPrompt, exception, deviceVars, workerVars,
                 voiceVars, exitVars, locked, paused, calls, events, delivered,
                 completed, history>>

(* Whether the device takes the pause: also when it is closed, but not      *)
(* when aborted.  The mutant pauses an open device only.                    *)
PausesIfOpen == ~aborted /\ worker = "play"
TakesPause == ~aborted

(* Pause: the device, and its driver if a session is open ... *)
PauseDevice(c) ==
  /\ Call(c, "pause") /\ ~paused
  /\ WaveOutFree
  /\ devPaused' = (devPaused \/ TakesPause)
  /\ halted' = (halted \/ (TakesPause /\ ~devPaused /\ worker = "play"))
  /\ locked' = [locked EXCEPT ![c] = device]
  /\ Goes(c, "pausing")
  /\ UNCHANGED <<queueVars, state, currentPrompt, exception, device, aborted,
                 workerVars, voiceVars, exitVars, arg, paused, events, dispatchVars,
                 history>>

(* ... then, under the lock of the queue, the state. *)
PauseState(c) ==
  /\ at[c] = "pausing" /\ QueueFree
  /\ LET mid == IF queue # <<>> /\ state = "Ready" THEN "Speaking" ELSE state
     IN  events' = events \o OnStateChanged(mid, state) \o OnStateChanged("Paused", mid)
  /\ state' = "Paused"
  /\ paused' = TRUE
  /\ locked' = [locked EXCEPT ![c] = 0]
  /\ Goes(c, "idle")
  /\ UNCHANGED <<queueVars, currentPrompt, exception, deviceVars, workerVars,
                 voiceVars, exitVars, arg, calls, dispatchVars, history>>

(* Resume: the driver of an open session is restarted, under the lock of    *)
(* the device ...                                                           *)
ResumeDevice(c) ==
  /\ Call(c, "pause") /\ paused
  /\ WaveOutFree
  /\ halted' = (halted /\ (aborted \/ ~devPaused))
  /\ locked' = [locked EXCEPT ![c] = device]
  /\ Goes(c, "clearing")
  /\ UNCHANGED <<queueVars, state, currentPrompt, exception, device, devPaused, aborted,
                 workerVars, voiceVars, exitVars, arg, paused, events, dispatchVars,
                 history>>

(* ... the flag of that device is cleared outside it: a session opened in   *)
(* between was paused, and stays so (AudioDeviceOut.cs, 223-224) ...        *)
ResumeFlag(c) ==
  /\ at[c] = "clearing"
  /\ devPaused' = (devPaused /\ locked[c] # device)
  /\ Goes(c, "resuming")
  /\ UNCHANGED <<queueVars, state, currentPrompt, exception, device, halted, aborted,
                 workerVars, voiceVars, exitVars, arg, locked, paused, calls, events,
                 dispatchVars, history>>

(* Whether Resume finds something to speak.                                 *)
Busy == queue # <<>> \/ currentPrompt # None

(* ... and the state under the lock of the queue. *)
ResumeState(c) ==
  /\ at[c] = "resuming" /\ QueueFree
  /\ LET mid == IF Busy \/ state = "Paused" THEN "Speaking" ELSE state
         next == IF Busy THEN mid ELSE "Ready"
     IN  /\ events' = events \o OnStateChanged(mid, state) \o OnStateChanged(next, mid)
         /\ state' = next
  /\ paused' = FALSE
  /\ locked' = [locked EXCEPT ![c] = 0]
  /\ Goes(c, "idle")
  /\ UNCHANGED <<queueVars, currentPrompt, exception, deviceVars, workerVars,
                 voiceVars, exitVars, arg, calls, dispatchVars, history>>

(* Whether Abort reaches the device; the mutant spares a paused one.        *)
AbortsUnlessPaused == currentPrompt # None /\ ~devPaused
AbortsDevice == currentPrompt # None

(* Abort, by SpeakAsyncCancelAll or by Dispose: the current prompt ... *)
AbortCurrent(c) ==
  /\ QueueFree
  /\ \/ Call(c, "abort")
     \/ at[c] = "disposing" /\ UNCHANGED calls
  /\ aborted' = (aborted \/ AbortsDevice)
  /\ queueOwner' = c
  /\ asked' = asked \cup Queued \cup Speaking \cup ({currentPrompt} \ {None})
  /\ Goes(c, "purging")
  /\ UNCHANGED <<queue, evt, state, currentPrompt, exception, device, devPaused, halted,
                 workerVars, voiceVars, exitVars, arg, locked, paused, events,
                 dispatchVars, accepted, purged>>

(* ... and, once no segment is being spoken, those in the queue. *)
AbortQueued(c) ==
  /\ at[c] = "purging" /\ ProcessingFree
  /\ exception' = [p \in Prompt |-> IF p \in Queued THEN "cancelled" ELSE exception[p]]
  /\ evt' = TRUE
  /\ queueOwner' = None
  /\ purged' = purged \cup Queued \cup Speaking
  /\ Goes(c, IF c = disposer THEN "settling" ELSE "idle")
  /\ UNCHANGED <<queue, state, currentPrompt, deviceVars, workerVars, voiceVars,
                 exitVars, arg, locked, paused, calls, events, dispatchVars,
                 accepted, asked>>

(* SpeakAsyncCancel of a prompt in the queue, if no voice request is ahead  *)
(* of it.                                                                   *)
Ahead(p) == IF p \in Queued THEN SubSeq(queue, 1, CHOOSE i \in DOMAIN queue : queue[i] = p)
                            ELSE queue
CancelQueued(c, p) ==
  /\ Call(c, "cancel") /\ QueueFree
  /\ p \in Queued /\ ~Contains(Ahead(p), "voice")
  /\ exception' = [exception EXCEPT ![p] = "cancelled"]
  /\ asked' = asked \cup {p} /\ purged' = purged \cup {p}
  /\ UNCHANGED <<queueVars, state, currentPrompt, deviceVars, workerVars, voiceVars,
                 exitVars, at, arg, locked, paused, events, dispatchVars, accepted>>

(* A voice request ahead has no prompt to compare with: an exception. *)
CancelThrows(c, p) ==
  /\ Call(c, "cancel") /\ QueueFree
  /\ Contains(Ahead(p), "voice")
  /\ Goes(c, "threw")
  /\ UNCHANGED <<queueVars, state, currentPrompt, exception, deviceVars, workerVars,
                 voiceVars, exitVars, arg, locked, paused, events, dispatchVars, history>>

(* A prompt that is not in the queue: the current one is aborted ... *)
CancelCurrent(c, p) ==
  /\ Call(c, "cancel") /\ QueueFree
  /\ p \notin Queued /\ ~Contains(queue, "voice")
  /\ aborted' = (aborted \/ currentPrompt = p)
  /\ queueOwner' = c
  /\ asked' = asked \cup {p}
  /\ arg' = [arg EXCEPT ![c] = p]
  /\ Goes(c, "waiting")
  /\ UNCHANGED <<queue, evt, state, currentPrompt, exception, device, devPaused, halted,
                 workerVars, voiceVars, exitVars, locked, paused, events,
                 dispatchVars, accepted, purged>>

(* ... and its segment waited for. *)
CancelReturn(c) ==
  /\ at[c] = "waiting" /\ ProcessingFree
  /\ queueOwner' = None
  /\ purged' = purged \cup ({arg[c]} \cap Speaking)
  /\ Goes(c, "idle") /\ arg' = [arg EXCEPT ![c] = None]
  /\ UNCHANGED <<queue, evt, state, currentPrompt, exception, deviceVars, workerVars,
                 voiceVars, exitVars, locked, paused, calls, events,
                 dispatchVars, accepted, asked>>

(* SetOutput: refused unless Ready (the throw changes nothing).  The mutant *)
(* forgets the first of its two tests.                                      *)
OutputUnlessPaused == state # "Paused"
OutputAllowed == state = "Ready"

SetOutput(c) ==
  /\ Call(c, "output") /\ QueueFree
  /\ OutputAllowed
  /\ queueOwner' = c
  /\ Goes(c, "swapping")
  /\ UNCHANGED <<queue, evt, state, currentPrompt, exception, deviceVars, workerVars,
                 voiceVars, exitVars, arg, locked, paused, events, dispatchVars, history>>

Swap(c) ==
  /\ at[c] = "swapping" /\ ProcessingFree
  /\ device' = device + 1 /\ devPaused' = FALSE /\ aborted' = FALSE
  /\ queueOwner' = None
  /\ Goes(c, "idle")
  /\ UNCHANGED <<queue, evt, state, currentPrompt, exception, halted, workerVars, voiceVars,
                 exitVars, arg, locked, paused, calls, events, dispatchVars, history>>

(* A voice lookup on a client thread: the worker must create the voice, and *)
(* the locks of the lookup are kept meanwhile.                              *)
GetVoice(c) ==
  /\ Call(c, "voice") /\ voiceOwner = None
  /\ Enqueue("voice")
  /\ proxy' = FALSE
  /\ voiceOwner' = c
  /\ Goes(c, "voice")
  /\ UNCHANGED <<queueOwner, state, currentPrompt, exception, deviceVars, workerVars,
                 current, exitVars, arg, locked, paused, events, dispatchVars, history>>

GotVoice(c) ==
  /\ at[c] = "voice" /\ proxy
  /\ voiceOwner' = None
  /\ current' \in IF MayFail THEN {current, TRUE} ELSE {TRUE}
  /\ Goes(c, "idle")
  /\ UNCHANGED <<queueVars, state, currentPrompt, exception, deviceVars, workerVars,
                 proxy, exitVars, arg, locked, paused, calls, events, dispatchVars, history>>

(* Dispose: flag, Abort, two seconds at most for the state to be Ready ... *)
Dispose(c) ==
  /\ Call(c, "dispose") /\ disposer = None
  /\ exiting' = TRUE /\ disposer' = c
  /\ Goes(c, "disposing")
  /\ UNCHANGED <<queueVars, state, currentPrompt, exception, deviceVars, workerVars,
                 voiceVars, disposed, arg, locked, paused, events, dispatchVars, history>>

Settle(c) ==
  /\ at[c] = "settling"
  /\ evt' = TRUE
  /\ Goes(c, "joining")
  /\ UNCHANGED <<queue, queueOwner, state, currentPrompt, exception, deviceVars,
                 workerVars, voiceVars, exitVars, arg, locked, paused, calls, events,
                 dispatchVars, history>>

(* ... and the end of the worker. *)
Join(c) ==
  /\ at[c] = "joining" /\ worker = "exited"
  /\ disposed' = TRUE
  /\ Goes(c, "idle")
  /\ UNCHANGED <<queueVars, state, currentPrompt, exception, deviceVars, workerVars,
                 voiceVars, exiting, disposer, arg, locked, paused, calls, events,
                 dispatchVars, history>>

-----------------------------------------------------------------------------
(* The dispatcher: ProcessPostData and OnStateChanged(object), both under   *)
(* _thisObjectLock; SpeakCompleted is dropped once disposed, and a closed   *)
(* handle wakes nobody.  An event brings its exception back to the prompt.  *)
Dispatch ==
  /\ delivered < Len(events)
  /\ disposer # None => disposed
  /\ delivered' = delivered + 1
  /\ LET e == events[delivered']
     IN  /\ completed' = IF e.kind = "end" /\ ~disposed
                         THEN completed \cup {e.prompt} ELSE completed
         /\ exception' = IF e.kind # "state" /\ ~disposed
                         THEN [exception EXCEPT ![e.prompt] = e.exception] ELSE exception
         /\ readyFor' = IF e.kind = "state" /\ ~disposed
                        THEN IF e.state = "Ready"
                             THEN {c \in Client : at[c] = "speaking"} ELSE readyFor
                        ELSE readyFor
  /\ UNCHANGED <<queueVars, state, currentPrompt, deviceVars, workerVars,
                 voiceVars, exitVars, clientVars, events, history>>

-----------------------------------------------------------------------------
WorkerStep ==
  \/ TakePrompt \/ TakeVoice \/ TakeNothing \/ MakeVoice \/ StartStream \/ LookUp
  \/ Throw \/ BeginSegment \/ Played \/ CloseSegment \/ AllSegments \/ Finish
  \/ Reset \/ CheckExit

(* The steps that end a call already begun. *)
ReturnStep(c) ==
  \/ SpeakQueue(c) \/ SpeakRefused(c) \/ SpeakReturn(c) \/ PauseState(c)
  \/ ResumeFlag(c) \/ ResumeState(c) \/ AbortQueued(c) \/ CancelReturn(c)
  \/ Swap(c) \/ GotVoice(c) \/ Settle(c) \/ Join(c)

ClientStep(c) ==
  \/ \E p \in Prompt : \/ SpeakAsync(c, p) \/ SpeakTest(c, p) \/ CancelQueued(c, p)
                       \/ CancelThrows(c, p) \/ CancelCurrent(c, p)
  \/ PauseDevice(c) \/ ResumeDevice(c) \/ AbortCurrent(c) \/ SetOutput(c)
  \/ GetVoice(c) \/ Dispose(c)

Next == WorkerStep \/ Dispatch \/ \E c \in Client : ClientStep(c) \/ ReturnStep(c)

Spec == Init /\ [][Next]_vars

(***************************************************************************)
(* The worker and the dispatcher run, and a call already begun goes on, as *)
(* long as it can: threads are scheduled, and a lock that stays free is    *)
(* taken by its waiter.  Nobody is forced to call anything, nor to resume. *)
(***************************************************************************)
Fairness ==
  /\ WF_vars(WorkerStep) /\ WF_vars(Dispatch)
  /\ \A c \in Client : WF_vars(ReturnStep(c))
  /\ \A c \in Client : WF_vars(at[c] = "disposing" /\ AbortCurrent(c))

FairSpec == Spec /\ Fairness

-----------------------------------------------------------------------------
TypeOK ==
  /\ queue \in Seq(Prompt \cup {"voice"}) /\ queueOwner \in Client \cup {None}
  /\ evt \in BOOLEAN
  /\ state \in {"Ready", "Speaking", "Paused"}
  /\ currentPrompt \in Prompt \cup {None}
  /\ exception \in [Prompt -> {None, "cancelled", "failed"}]
  /\ device \in 1..(MaxCalls + 1) /\ devPaused \in BOOLEAN
  /\ halted \in BOOLEAN /\ aborted \in BOOLEAN
  /\ locked \in [Client -> 0..(MaxCalls + 1)]
  /\ worker \in {"wait", "voice", "start", "look", "segment", "play", "close",
                 "finish", "reset", "check", "exited"}
  /\ spoken \in Prompt \cup {None} /\ segment \in 1..3
  /\ result \in {None, "cancelled", "failed"}
  /\ voiceOwner \in Client \cup {None} /\ current \in BOOLEAN
  /\ proxy \in BOOLEAN /\ paused \in BOOLEAN
  /\ exiting \in BOOLEAN /\ disposer \in Client \cup {None} /\ disposed \in BOOLEAN
  /\ at \in [Client -> {"idle", "queueing", "speaking", "pausing", "clearing",
                        "resuming", "purging", "waiting", "swapping", "voice", "threw",
                        "disposing", "settling", "joining"}]
  /\ arg \in [Client -> Prompt \cup {None}]
  /\ delivered \in 0..Len(events) /\ completed \subseteq Prompt
  /\ readyFor \subseteq Client
  /\ accepted \in Seq(Prompt) /\ asked \subseteq Prompt /\ purged \subseteq Prompt
  /\ calls \in 0..MaxCalls

(***************************************************************************)
(* AddSpeakParameters sets the event only for the first entry and the      *)
(* worker resets it only for an empty queue: the worker never sleeps while *)
(* something is queued.                                                    *)
(***************************************************************************)
WorkerAwake == worker = "wait" /\ queue # <<>> => evt

(***************************************************************************)
(* SpeakStarted and SpeakCompleted: one of each for every prompt, in the   *)
(* order the prompts were queued, one prompt after the other, whatever was *)
(* cancelled or failed.                                                    *)
(***************************************************************************)
PromptEvents(n) == {i \in 1..n : events[i].kind # "state"}
StartsThenEnds ==
  \A i \in PromptEvents(Len(events)) :
    LET n == Cardinality(PromptEvents(i))
    IN  /\ events[i].kind = IF n % 2 = 1 THEN "start" ELSE "end"
        /\ events[i].prompt = accepted[(n + 1) \div 2]

(***************************************************************************)
(* StateChanged events come in the order of the changes: each starts from  *)
(* the state the one before it announced, and the last announces the state *)
(* the synthesizer is in, until the worker has exited: it sets the Ready   *)
(* state then and announces nothing.                                       *)
(***************************************************************************)
StateEvents(n) == {i \in 1..n : events[i].kind = "state"}
Announced(n) ==
  IF StateEvents(n) = {} THEN "Ready" ELSE events[Max(StateEvents(n))].state
StatesChain ==
  worker # "exited" =>
    /\ \A i \in StateEvents(Len(events)) : events[i].previous = Announced(i - 1)
    /\ Announced(Len(events)) = state

(***************************************************************************)
(* "More prompts to play" (line 1039) is true, so the last prompt ends the *)
(* Speaking state: a worker asleep is never Speaking, nor has a current    *)
(* prompt.                                                                 *)
(***************************************************************************)
IdleIsNotSpeaking == worker = "wait" /\ ~evt => state # "Speaking" /\ currentPrompt = None

(***************************************************************************)
(* The state tells what is heard.  While the worker is busy with a prompt, *)
(* the state is Ready only after a pause, and then no prompt is current:   *)
(* Resume came after line 931 had cleared it (the assertion at 1016 fails  *)
(* then).  In the Paused state ("Pause the playback of all speech in this  *)
(* synthesizer", SpeechSynthesizer.cs:145) the driver is paused outside    *)
(* Resume, as long as no prompt was cancelled and the output not changed:  *)
(* a pause that meets an aborted device, or one about to be replaced, is   *)
(* lost (451).                                                             *)
(***************************************************************************)
Taken == {"start", "look", "segment", "play", "close", "finish"}
WasPaused == \E i \in DOMAIN events : events[i].kind = "state" /\ events[i].state = "Paused"
StateIsHeard ==
  /\ worker \in Taken /\ state = "Ready" => currentPrompt = None /\ WasPaused
  /\ /\ worker = "play" /\ state = "Paused"
     /\ \A c \in Client : at[c] \notin {"clearing", "resuming"}
     /\ asked = {} /\ device = 1
     => halted

(***************************************************************************)
(* Abort "synchronously purges all data that is currently in the rendering *)
(* pipeline" (369-373): what was queued or being spoken before it returned *)
(* is never heard again.  Not so for a wave file, which does not look at   *)
(* the flag, nor for a prompt of two segments, which loses it in between.  *)
(***************************************************************************)
PurgedIsSilent ==
  worker = "play" /\ spoken \notin Long \cup Wave => spoken \notin purged

(***************************************************************************)
(* A prompt ends as cancelled only if some call asked for it: an abort of  *)
(* one prompt does not leak into the next, which shares the device's flag. *)
(***************************************************************************)
OnlyAskedCancelled ==
  \A i \in DOMAIN events :
    events[i].kind = "end" /\ events[i].exception = "cancelled" =>
      events[i].prompt \in asked

(***************************************************************************)
(* "Output is not supposed to change while speaking" (line 344): never     *)
(* while a prompt is taken and not yet over, whatever its segments, unless *)
(* the application paused and resumed in the gap at 931, where no prompt   *)
(* is current: the state is Ready then, and the test at 345 lets the       *)
(* change pass.                                                            *)
(***************************************************************************)
OutputKept ==
  [][device' # device /\ worker \in Taken => currentPrompt = None /\ WasPaused]_vars

(***************************************************************************)
(* What the promises below except by name: the worker in a session whose   *)
(* driver is paused, because the application left it so or because it was  *)
(* opened in the gap of a Resume (ResumeFlag); and the worker that waits   *)
(* for the lock of a voice lookup whose owner waits for the worker, plain  *)
(* text too as long as no voice is current.  What they promise lasts until *)
(* it is kept, so a worker once stuck and free again is no exception: only *)
(* one that is stuck for good is.                                          *)
(***************************************************************************)
Stuck == halted \/ LookupDeadlock

(***************************************************************************)
(* Every prompt accepted is completed, unless the worker is stuck or told  *)
(* to exit.                                                                *)
(***************************************************************************)
Ended(p) == \E i \in DOMAIN events : events[i].kind = "end" /\ events[i].prompt = p
PromptsEnd == \A p \in Prompt : Contains(accepted, p) ~> Ended(p) \/ exiting \/ Stuck

(***************************************************************************)
(* Calls that wait return: Speak, unless the synthesizer stays paused, the *)
(* worker is stuck or told to exit, or it sleeps in the Speaking state: a  *)
(* voice request behind the last prompt passed for a prompt (1039), and no *)
(* Ready event comes.  And SpeakAsyncCancelAll, also while paused, for     *)
(* what it waits for has just been aborted.                                *)
(***************************************************************************)
AsleepSpeaking == worker = "wait" /\ state = "Speaking"
CallsReturn ==
  \A c \in Client :
    /\ at[c] = "speaking" ~>
         at[c] = "idle" \/ state = "Paused" \/ AsleepSpeaking \/ exiting \/ Stuck
    /\ at[c] = "purging" ~> at[c] # "purging"

(***************************************************************************)
(* The worker "unlock[s] the client" (line 736) that waits for a voice,    *)
(* unless it is stuck or told to exit; and Dispose, which may "Wait for 2  *)
(* second max for any pending speak" (line 1602) and for the worker, ends, *)
(* unless the worker is stuck.                                             *)
(***************************************************************************)
RequestsEnd ==
  /\ voiceOwner # None ~> voiceOwner = None \/ exiting \/ Stuck
  /\ disposer # None ~> disposed \/ Stuck
=============================================================================
