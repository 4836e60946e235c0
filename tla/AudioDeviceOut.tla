--------------------------- MODULE AudioDeviceOut ---------------------------
(***************************************************************************)
(* The wave-out device: src/Internal/Synthesis/AudioDeviceOut.cs, with the *)
(* protocol its callers follow.                                            *)
(*                                                                         *)
(*  - The speaker is the worker thread of VoiceSynthesis: Begin, any       *)
(*    number of Play (EngineSite.Write) and InjectEvent (EngineSite.       *)
(*    AddEvents), then WaitUntilDone and End, again and again.             *)
(*  - A controller thread calls Pause and Resume (both under               *)
(*    lock (_waveOut), so never two at once).                              *)
(*  - A canceller thread calls Abort.                                      *)
(*  - The wave-out driver plays buffers in order and calls CallBackProc    *)
(*    for each one that is done, on its own thread.                        *)
(*                                                                         *)
(* Buffers and events share one numbering, in the order of the calls.      *)
(***************************************************************************)
EXTENDS Selection

CONSTANTS
  MaxItems,      (* bound on the buffers and events of a behaviour         *)
  MaxAborts,     (* bound on the calls of Abort                            *)
  MaxPauses,     (* bound on the calls of Pause                            *)
  OpenMayFail,   (* whether waveOutOpen may return an error                *)
  WriteMayFail,  (* whether waveOutWrite may return an error               *)
  ControlMayFail (* whether waveOutPause and waveOutRestart may            *)

ASSUME BoundsAreNat == MaxItems \in Nat /\ MaxAborts \in Nat /\ MaxPauses \in Nat
ASSUME FailuresAreBoolean ==
  OpenMayFail \in BOOLEAN /\ WriteMayFail \in BOOLEAN /\ ControlMayFail \in BOOLEAN

VARIABLES
  queueIn,    (* _queueIn: buffers and events not yet done                 *)
  queueOut,   (* _queueOut: buffers done and not yet released              *)
  evt,        (* _evt, a ManualResetEvent                                  *)
  deviceOpen, (* _deviceOpen                                               *)
  aborted,    (* _aborted                                                  *)
  fPaused,    (* _fPaused                                                  *)
  owner,      (* the thread that holds _noWriteOutLock across steps        *)
  speaker,    (* where the speaking thread is                              *)
  controller, (* where the thread that pauses and resumes is               *)
  canceller,  (* where the thread that aborts is                           *)
  hwOpen,     (* the driver: the handle is open                            *)
  hwPaused,   (* the driver: playback is paused                            *)
  hwQueue,    (* the driver: buffers accepted and not yet played           *)
  hwDone,     (* the driver: buffers done whose callback has not started   *)
  callback,   (* where the driver's thread is in CallBackProc              *)
  dispatched, (* events handed to _asyncDispatch, in order                 *)
  failed,     (* history: some waveOutWrite failed                         *)
  refused,    (* history: some waveOutPause or waveOutRestart failed       *)
  raced,      (* history: the session was opened while a Resume had left   *)
              (* the lock and not yet cleared the flag                     *)
  items, aborts, pauses   (* how many of each so far                       *)

devVars == <<queueIn, queueOut, evt, deviceOpen, aborted, fPaused, owner>>
hwVars == <<hwOpen, hwPaused, hwQueue, hwDone, callback>>
threadVars == <<speaker, controller, canceller>>
counters == <<items, aborts, pauses, failed, refused, raced>>
vars == <<devVars, hwVars, threadVars, dispatched, counters>>

Nobody == "nobody"
Buffer(n) == [id |-> n, event |-> FALSE]
Event(n) == [id |-> n, event |-> TRUE]
Item == [id : 1..MaxItems, event : BOOLEAN]
BufferItem == [id : 1..MaxItems, event : {FALSE}]

IsBuffer(item) == ~item.event
Ids(s) == [i \in DOMAIN s |-> s[i].id]
Elements(s) == {s[i] : i \in DOMAIN s}
BufferIds(s) == {s[i].id : i \in {j \in DOMAIN s : IsBuffer(s[j])}}
Events(s) == Ids(Select(s, {i \in DOMAIN s : ~IsBuffer(s[i])}))

-----------------------------------------------------------------------------
Init ==
  /\ queueIn = <<>> /\ queueOut = <<>>
  /\ evt = FALSE
  /\ deviceOpen = FALSE /\ aborted = FALSE /\ fPaused = FALSE
  /\ owner = Nobody
  /\ speaker = "idle" /\ controller = "idle" /\ canceller = "idle"
  /\ hwOpen = FALSE /\ hwPaused = FALSE
  /\ hwQueue = <<>> /\ hwDone = <<>> /\ callback = "idle"
  /\ dispatched = <<>>
  /\ items = 0 /\ aborts = 0 /\ pauses = 0 /\ failed = FALSE
  /\ refused = FALSE /\ raced = FALSE

(* Whether a device just opened is paused at once; the mutant forgets it.   *)
StartsRunning == FALSE
StartsPaused == fPaused

(***************************************************************************)
(* The locked part of Begin; the flags are set even if the open failed, or *)
(* the pause of the device just opened, which then stays open (76-88).     *)
(***************************************************************************)
BeginOpen ==
  /\ speaker = "idle" /\ owner = Nobody
  /\ ~deviceOpen
  /\ \E opened, halts \in BOOLEAN :
       /\ opened \/ OpenMayFail
       /\ halts \/ (ControlMayFail /\ opened /\ StartsPaused)
       /\ hwOpen' = opened
       /\ hwPaused' = (opened /\ StartsPaused /\ halts)
       /\ refused' = (refused \/ ~halts)
       /\ speaker' = IF opened /\ halts THEN "begun" ELSE "idle"
  /\ aborted' = FALSE
  /\ deviceOpen' = TRUE
  /\ raced' = (fPaused /\ controller = "clear")
  /\ UNCHANGED <<queueIn, queueOut, evt, fPaused, owner, hwQueue, hwDone,
                 callback, controller, canceller, dispatched, items, aborts,
                 pauses, failed>>

(* Begin on a device whose last Begin failed: an assertion and a throw. *)
BeginAsserts ==
  /\ speaker = "idle"
  /\ deviceOpen
  /\ speaker' = "assert"
  /\ UNCHANGED <<devVars, hwVars, controller, canceller, dispatched, counters>>

(* The end of Begin: nothing in the queue. *)
BeginSet ==
  /\ speaker = "begun"
  /\ evt' = TRUE
  /\ speaker' = "open"
  /\ UNCHANGED <<queueIn, queueOut, deviceOpen, aborted, fPaused, owner, hwVars,
                 controller, canceller, dispatched, counters>>

(* Play: the buffer enters the queue and the event is reset ... *)
PlayQueue ==
  /\ speaker = "open" /\ owner = Nobody
  /\ items < MaxItems
  /\ items' = items + 1
  /\ IF aborted
     THEN UNCHANGED <<queueIn, evt, owner, speaker>>
     ELSE /\ queueIn' = Append(queueIn, Buffer(items'))
          /\ evt' = FALSE
          /\ owner' = "speaker"
          /\ speaker' = "write"
  /\ UNCHANGED <<queueOut, deviceOpen, aborted, fPaused, hwVars, controller,
                 canceller, dispatched, aborts, pauses, failed, refused,
                 raced>>

(* ... then waveOutWrite hands it to the driver ... *)
PlayWrite ==
  /\ speaker = "write"
  /\ hwQueue' = Append(hwQueue, items)
  /\ owner' = Nobody
  /\ speaker' = "open"
  /\ UNCHANGED <<queueIn, queueOut, evt, deviceOpen, aborted, fPaused, hwOpen,
                 hwPaused, hwDone, callback, controller, canceller, dispatched,
                 counters>>

(* The queue after a failed waveOutWrite: without the newest item.          *)
AfterFailure == SubSeq(queueIn, 1, Len(queueIn) - 1)

(* ... or fails to; the exception ends up in EngineSite._exception. *)
PlayFails ==
  /\ speaker = "write" /\ WriteMayFail
  /\ queueIn' = AfterFailure
  /\ owner' = Nobody
  /\ speaker' = "open"
  /\ failed' = TRUE
  /\ UNCHANGED <<queueOut, evt, deviceOpen, aborted, fPaused, hwVars,
                 controller, canceller, dispatched, items, aborts, pauses,
                 refused, raced>>

(* InjectEvent tests _aborted before it takes the lock on the queue. *)
InjectTest ==
  /\ speaker = "open" /\ ~aborted
  /\ items < MaxItems
  /\ items' = items + 1
  /\ speaker' = "inject"
  /\ UNCHANGED <<devVars, hwVars, controller, canceller, dispatched, aborts, pauses,
                 failed, refused, raced>>

(* The locked part of InjectEvent.  The mutant always posts at once. *)
PostsAlways == TRUE
PostsAtOnce == queueIn = <<>>

InjectLocked ==
  /\ speaker = "inject"
  /\ IF PostsAtOnce
     THEN dispatched' = Append(dispatched, items) /\ UNCHANGED queueIn
     ELSE queueIn' = Append(queueIn, Event(items)) /\ UNCHANGED dispatched
  /\ speaker' = "open"
  /\ UNCHANGED <<queueOut, evt, deviceOpen, aborted, fPaused, owner, hwVars,
                 controller, canceller, counters>>

(* The engine returns; the finally block waits and ends. *)
Finish ==
  /\ speaker = "open"
  /\ speaker' = "wait"
  /\ UNCHANGED <<devVars, hwVars, controller, canceller, dispatched, counters>>

WaitUntilDone ==
  /\ speaker = "wait" /\ evt
  /\ speaker' = "end"
  /\ UNCHANGED <<devVars, hwVars, controller, canceller, dispatched, counters>>

(* End, first half: CheckForAbort and ClearBuffers. *)
EndCheck ==
  /\ speaker = "end" /\ owner = Nobody
  /\ owner' = "speaker"
  /\ deviceOpen' = FALSE
  /\ queueOut' = <<>>
  /\ IF aborted
     THEN /\ dispatched' = dispatched \o Events(queueIn)
          /\ queueIn' = <<>>
          /\ evt' = TRUE
     ELSE UNCHANGED <<dispatched, queueIn, evt>>
  /\ speaker' = "close"
  /\ UNCHANGED <<aborted, fPaused, hwVars, controller, canceller, counters>>

(* waveOutReset: every buffer is given back at once, its callback pending. *)
WaveOutReset == hwDone' = hwDone \o hwQueue /\ hwQueue' = <<>>

(* End, second half: reset what is left and close. *)
EndClose ==
  /\ speaker = "close"
  /\ IF queueIn # <<>> THEN WaveOutReset ELSE UNCHANGED <<hwDone, hwQueue>>
  /\ hwOpen' = FALSE /\ hwPaused' = FALSE
  /\ owner' = Nobody
  /\ speaker' = "idle"
  /\ UNCHANGED <<queueIn, queueOut, evt, deviceOpen, aborted, fPaused, callback,
                 controller, canceller, dispatched, counters>>

(* The worker resets IsAborted before the next prompt. *)
ClearAborted ==
  /\ speaker = "idle" /\ aborted
  /\ aborted' = FALSE
  /\ UNCHANGED <<queueIn, queueOut, evt, deviceOpen, fPaused, owner, hwVars,
                 threadVars, dispatched, counters>>

-----------------------------------------------------------------------------
(* Pause; a waveOutPause that fails is only asserted on (194-200).          *)
Pause ==
  /\ controller = "idle" /\ owner = Nobody
  /\ pauses < MaxPauses
  /\ pauses' = pauses + 1
  /\ IF ~aborted /\ ~fPaused
     THEN /\ fPaused' = TRUE
          /\ \E halts \in BOOLEAN :
               /\ halts \/ (ControlMayFail /\ deviceOpen)
               /\ hwPaused' = (hwPaused \/ (deviceOpen /\ hwOpen /\ halts))
               /\ refused' = (refused \/ ~halts)
     ELSE UNCHANGED <<fPaused, hwPaused, refused>>
  /\ UNCHANGED <<queueIn, queueOut, evt, deviceOpen, aborted, owner, hwOpen,
                 hwQueue, hwDone, callback, threadVars, dispatched, items,
                 aborts, failed, raced>>

(* Resume: the locked part restarts the driver, or only asserts on it ... *)
ResumeRestart ==
  /\ controller = "idle" /\ owner = Nobody
  /\ pauses > 0
  /\ IF ~aborted /\ fPaused /\ deviceOpen
     THEN \E runs \in BOOLEAN :
            /\ runs \/ ControlMayFail
            /\ hwPaused' = (hwPaused /\ ~runs)
            /\ refused' = (refused \/ ~runs)
     ELSE UNCHANGED <<hwPaused, refused>>
  /\ controller' = "clear"
  /\ UNCHANGED <<devVars, hwOpen, hwQueue, hwDone, callback, speaker, canceller,
                 dispatched, items, aborts, pauses, failed, raced>>

(* ... and the flag is cleared after the lock was released. *)
ResumeClear ==
  /\ controller = "clear"
  /\ fPaused' = FALSE
  /\ controller' = "idle"
  /\ UNCHANGED <<queueIn, queueOut, evt, deviceOpen, aborted, owner, hwVars,
                 speaker, canceller, dispatched, counters>>

(* Whether Abort resets the driver; the mutant only sets the flag. *)
NeverResets == FALSE
AbortResets == queueIn # <<>>

(* Abort, up to its wait, which keeps _noWriteOutLock. *)
AbortReset ==
  /\ canceller = "idle" /\ owner = Nobody
  /\ aborts < MaxAborts
  /\ aborts' = aborts + 1
  /\ aborted' = TRUE
  /\ IF AbortResets
     THEN WaveOutReset /\ owner' = "canceller" /\ canceller' = "wait"
     ELSE UNCHANGED <<hwDone, hwQueue, owner, canceller>>
  /\ UNCHANGED <<queueIn, queueOut, evt, deviceOpen, fPaused, hwOpen, hwPaused,
                 callback, speaker, controller, dispatched, items, pauses,
                 failed, refused, raced>>

AbortReturn ==
  /\ canceller = "wait" /\ evt
  /\ owner' = Nobody
  /\ canceller' = "idle"
  /\ UNCHANGED <<queueIn, queueOut, evt, deviceOpen, aborted, fPaused, hwVars,
                 speaker, controller, dispatched, counters>>

-----------------------------------------------------------------------------
(* The driver finishes playing the oldest buffer. *)
HwPlay ==
  /\ hwOpen /\ ~hwPaused /\ hwQueue # <<>>
  /\ hwDone' = Append(hwDone, Head(hwQueue))
  /\ hwQueue' = Tail(hwQueue)
  /\ UNCHANGED <<devVars, hwOpen, hwPaused, callback, threadVars, dispatched, counters>>

(* How many items from the front a callback removes: the buffer and the     *)
(* events behind it.  The mutant removes the buffer only.                   *)
BufferOnly == 1
Removed ==
  LET later == {i \in 2..Len(queueIn) : IsBuffer(queueIn[i])}
  IN  IF later = {} THEN Len(queueIn)
      ELSE (CHOOSE i \in later : \A j \in later : i <= j) - 1

(* CallBackProc(MM_WOM_DONE): the part under lock (_queueIn). *)
CallbackLocked ==
  /\ callback = "idle" /\ hwDone # <<>>
  /\ hwDone' = Tail(hwDone)
  /\ IF queueIn = <<>>
     THEN callback' = "failed" /\ UNCHANGED <<queueIn, queueOut, dispatched>>
     ELSE /\ queueIn' = SubSeq(queueIn, Removed + 1, Len(queueIn))
          /\ queueOut' = Append(queueOut, Head(queueIn))
          /\ dispatched' = IF aborted THEN dispatched
                           ELSE dispatched \o Ids(SubSeq(queueIn, 2, Removed))
          /\ callback' = "test"
  /\ UNCHANGED <<evt, deviceOpen, aborted, fPaused, owner, hwOpen, hwPaused,
                 hwQueue, threadVars, counters>>

(* CallBackProc after the lock: the test of the queue.  The mutant never    *)
(* finds it empty.                                                          *)
NeverWakes == FALSE
QueueIsEmpty == queueIn = <<>>

CallbackTest ==
  /\ callback = "test"
  /\ callback' = IF QueueIsEmpty THEN "set" ELSE "idle"
  /\ UNCHANGED <<devVars, hwOpen, hwPaused, hwQueue, hwDone, threadVars,
                 dispatched, counters>>

CallbackSet ==
  /\ callback = "set"
  /\ evt' = TRUE
  /\ callback' = "idle"
  /\ UNCHANGED <<queueIn, queueOut, deviceOpen, aborted, fPaused, owner, hwOpen,
                 hwPaused, hwQueue, hwDone, threadVars, dispatched, counters>>

-----------------------------------------------------------------------------
SpeakerStep ==
  \/ BeginOpen \/ BeginAsserts \/ BeginSet \/ PlayQueue \/ PlayWrite \/ PlayFails
  \/ InjectTest \/ InjectLocked \/ Finish \/ WaitUntilDone \/ EndCheck
  \/ EndClose \/ ClearAborted

ControllerStep == Pause \/ ResumeRestart \/ ResumeClear
CancellerStep == AbortReset \/ AbortReturn
CallbackStep == CallbackLocked \/ CallbackTest \/ CallbackSet

Next == SpeakerStep \/ ControllerStep \/ CancellerStep \/ HwPlay \/ CallbackStep

Spec == Init /\ [][Next]_vars

(***************************************************************************)
(* The engine always returns and the driver always plays what it may play. *)
(* SF for the steps that take _noWriteOutLock: the lock is free again and  *)
(* again, and .NET monitors do not starve a waiter for ever.  Nobody is    *)
(* forced to speak, pause, resume or abort.                                *)
(***************************************************************************)
Fairness ==
  /\ WF_vars(BeginSet \/ PlayWrite \/ InjectLocked \/ WaitUntilDone \/ EndClose)
  /\ WF_vars(Finish) /\ SF_vars(EndCheck)
  /\ WF_vars(HwPlay) /\ WF_vars(CallbackStep)
  /\ WF_vars(AbortReturn) /\ WF_vars(ResumeClear)

FairSpec == Spec /\ Fairness

-----------------------------------------------------------------------------
TypeOK ==
  /\ queueIn \in Seq(Item) /\ queueOut \in Seq(BufferItem)
  /\ evt \in BOOLEAN /\ deviceOpen \in BOOLEAN
  /\ aborted \in BOOLEAN /\ fPaused \in BOOLEAN
  /\ owner \in {Nobody, "speaker", "canceller"}
  /\ speaker \in {"idle", "begun", "open", "write", "inject", "wait", "end",
                  "close", "assert"}
  /\ controller \in {"idle", "clear"}
  /\ canceller \in {"idle", "wait"}
  /\ hwOpen \in BOOLEAN /\ hwPaused \in BOOLEAN
  /\ hwQueue \in Seq(1..MaxItems) /\ hwDone \in Seq(1..MaxItems)
  /\ callback \in {"idle", "test", "set", "failed"}
  /\ dispatched \in Seq(1..MaxItems)
  /\ failed \in BOOLEAN /\ refused \in BOOLEAN /\ raced \in BOOLEAN
  /\ items \in 0..MaxItems /\ aborts \in 0..MaxAborts /\ pauses \in 0..MaxPauses

(* The buffers given to Play that the driver has not reported, in order.   *)
Sounding == hwDone \o hwQueue \o (IF speaker = "write" THEN <<items>> ELSE <<>>)

(***************************************************************************)
(* The item queue stays in step with the driver.  The buffers the driver   *)
(* will still report are those of the queue, both in the order of the      *)
(* calls, so _queueIn[0] in CallBackProc is the buffer that is done; and   *)
(* an event is dispatched in the order of its injection, never while audio *)
(* queued before it is still to be played: bookmarks and visemes stay in   *)
(* step with the sound.  Only while nobody aborts: CheckForAbort may clear *)
(* the queue ahead of the callbacks, and a late one takes a buffer of the  *)
(* next sound.                                                             *)
(***************************************************************************)
InStep ==
  aborts = 0 =>
    /\ Increasing(Ids(queueIn)) /\ Increasing(Sounding)
    /\ BufferIds(queueIn) = Elements(Sounding)
    /\ hwDone # <<>> => queueIn # <<>> /\ Head(queueIn) = Buffer(Head(hwDone))
    /\ Increasing(dispatched)
    /\ \A e \in Elements(dispatched), b \in Elements(hwQueue) : e < b

(***************************************************************************)
(* Once Abort() has been called, nothing is left for the driver to play,   *)
(* until a new prompt clears the flag.  The first time, that is: after it  *)
(* a late callback may have emptied the queue of a sound still playing.    *)
(***************************************************************************)
AbortSilences == aborts <= 1 /\ aborted => hwQueue = <<>>

(***************************************************************************)
(* Comment at 264: "Wait for all the queued buffers to be played".  When   *)
(* WaitUntilDone returns and nobody aborted, no buffer is left.            *)
(***************************************************************************)
WaitMeansPlayed == speaker = "end" /\ ~aborted => BufferIds(queueIn) = {}

(***************************************************************************)
(* A thread that waits for the event gets out.  WaitUntilDone returns      *)
(* unless the application left the device paused or a write failed (175:   *)
(* the event was reset for a buffer that never comes back), and Abort      *)
(* returns although it keeps _noWriteOutLock while it waits, also when the *)
(* device is paused.  Excepted by name: a waveOutPause or waveOutRestart   *)
(* that failed; a session opened in the gap of a Resume (see PauseHolds);  *)
(* and an exception on the driver's thread, which ends the process.        *)
(***************************************************************************)
Dead == callback = "failed"
WaitersLeave ==
  /\ speaker = "wait" ~> (speaker # "wait" \/ fPaused \/ raced \/ refused \/ failed \/ Dead)
  /\ canceller = "wait" ~> (canceller = "idle" \/ Dead)

(***************************************************************************)
(* The flag and the device agree outside Resume, across sessions: a pause  *)
(* is never lost, in particular one between two Begins, and the device is  *)
(* not left paused when the flag is clear.  Excepted by name: a            *)
(* waveOutPause or waveOutRestart that failed; after Abort, where Resume   *)
(* only clears the flag (there is nothing left to play); and a session     *)
(* opened in the gap of a Resume, which has left the lock (223) and not    *)
(* yet cleared the flag (224): Begin pauses the device (76-79) and nothing *)
(* restarts it.                                                            *)
(***************************************************************************)
PauseHolds ==
  hwOpen /\ controller = "idle" /\ ~refused =>
    /\ fPaused => hwPaused
    /\ hwPaused => fPaused \/ raced \/ aborted
=============================================================================
