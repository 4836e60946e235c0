------------------------ MODULE VoiceSynthesis_proofs -----------------------
(***************************************************************************)
(* Proofs about VoiceSynthesis for any clients, prompts, kinds of prompts, *)
(* operations and bounds, with and without failures.                       *)
(***************************************************************************)
EXTENDS VoiceSynthesis, Selection_proofs, SequenceTheorems, FiniteSetTheorems, TLAPS

-----------------------------------------------------------------------------
(* The worker's event: the inductive form of WorkerAwake.                   *)
EventSet == queue # <<>> => evt

(* No step leaves the event reset over a queued entry.                      *)
LEMMA EventSetStep == EventSet /\ [Next]_vars => EventSet'
<1> USE DEF EventSet, queueVars
<1> SUFFICES ASSUME EventSet, [Next]_vars PROVE EventSet'
  OBVIOUS
<1>1. ASSUME NEW entry, Enqueue(entry) PROVE EventSet'
  <2>1. evt' = (evt \/ queue = <<>>)
    BY <1>1 DEF Enqueue, WakesWorker
  <2>2. CASE queue = <<>>
    BY <2>1, <2>2
  <2>3. CASE queue # <<>>
    BY <2>1, <2>3
  <2>4. QED
    BY <2>2, <2>3
<1>2. CASE WorkerStep
  BY <1>2 DEF WorkerStep, TakePrompt, TakeVoice, TakeNothing, MakeVoice, StartStream,
    LookUp, Throw, BeginSegment, Played, CloseSegment, AllSegments, Finish, Reset,
    ResetsEvent, CheckExit
<1>3. CASE Dispatch
  BY <1>3 DEF Dispatch
<1>4. ASSUME NEW c \in Client, ClientStep(c) PROVE EventSet'
  <2>1. ASSUME NEW p \in Prompt, SpeakAsync(c, p) PROVE EventSet'
    BY <2>1, <1>1 DEF SpeakAsync
  <2>2. CASE GetVoice(c)
    BY <2>2, <1>1 DEF GetVoice
  <2>3. CASE \/ \E p \in Prompt : \/ SpeakTest(c, p) \/ CancelQueued(c, p)
                                  \/ CancelThrows(c, p) \/ CancelCurrent(c, p)
             \/ PauseDevice(c) \/ ResumeDevice(c) \/ AbortCurrent(c) \/ SetOutput(c)
             \/ Dispose(c)
    BY <2>3 DEF SpeakTest, CancelQueued, CancelThrows, CancelCurrent, PauseDevice,
      ResumeDevice, AbortCurrent, SetOutput, Dispose
  <2>4. QED
    BY <1>4, <2>1, <2>2, <2>3 DEF ClientStep
<1>5. ASSUME NEW c \in Client, ReturnStep(c) PROVE EventSet'
  <2>1. CASE SpeakQueue(c)
    BY <2>1, <1>1 DEF SpeakQueue
  <2>2. CASE \/ SpeakRefused(c) \/ SpeakReturn(c) \/ PauseState(c) \/ ResumeState(c)
             \/ AbortQueued(c) \/ CancelReturn(c) \/ Swap(c) \/ GotVoice(c)
             \/ ResumeFlag(c) \/ Settle(c) \/ Join(c)
    BY <2>2 DEF SpeakRefused, SpeakReturn, PauseState, ResumeState, AbortQueued,
      CancelReturn, Swap, GotVoice, ResumeFlag, Settle, Join
  <2>3. QED
    BY <1>5, <2>1, <2>2 DEF ReturnStep
<1>6. CASE UNCHANGED vars
  BY <1>6 DEF vars
<1>7. QED
  BY <1>2, <1>3, <1>4, <1>5, <1>6 DEF Next

(***************************************************************************)
(* No interleaving of clients, cancels, disposal and the worker leaves the *)
(* worker asleep over a queued entry (AddSpeakParameters sets the event    *)
(* only for the first entry, ThreadProc resets it only for an empty queue).*)
(***************************************************************************)
THEOREM WorkerStaysAwake == Spec => []WorkerAwake
<1>1. Init => EventSet
  BY DEF Init, EventSet
<1>2. EventSet => WorkerAwake
  BY DEF EventSet, WorkerAwake
<1>3. QED
  BY <1>1, <1>2, EventSetStep, PTL DEF Spec

-----------------------------------------------------------------------------
(* A prompt is reported as cancelled only if a call asked for it.  The      *)
(* reason is spread over the threads: who keeps the lock of the queue, what *)
(* an Abort in progress has listed, what the device's flag is about.        *)

Exceptions == {None, "cancelled", "failed"}
States == {"Ready", "Speaking", "Paused"}
PromptEvent == [kind : {"start", "end"}, prompt : Prompt, exception : Exceptions]
StateEvent == [kind : {"state"}, state : States, previous : States]
Event == PromptEvent \cup StateEvent

Places == {"idle", "queueing", "speaking", "pausing", "clearing", "resuming", "purging",
           "waiting", "swapping", "voice", "threw", "disposing", "settling", "joining"}

(* What a sequence of events says of cancelled prompts.                     *)
ToldAsked(s, prompts) ==
  \A i \in DOMAIN s :
    s[i] \in PromptEvent /\ s[i].exception = "cancelled" => s[i].prompt \in prompts

Shape ==
  /\ queue \in Seq(Prompt \cup {"voice"})
  /\ state \in States
  /\ exception \in [Prompt -> Exceptions]
  /\ events \in Seq(Event)
  /\ delivered \in Nat /\ delivered <= Len(events)
  /\ at \in [Client -> Places] /\ arg \in [Client -> Prompt \cup {None}]
  /\ \A c \in Client : at[c] = "queueing" => arg[c] \in Prompt

(* The prompt in hand, and the prompt _currentPrompt names.                 *)
InHand ==
  /\ result \in Exceptions
  /\ worker \in Taken => spoken \in Prompt
  /\ worker \in Taken /\ currentPrompt # None => currentPrompt = spoken

(* The lock of the queue, kept while its holder waits.                      *)
LockKept ==
  \A c \in Client : at[c] \in {"purging", "waiting", "swapping"} => queueOwner = c

PurgeAsked == \A c \in Client : at[c] = "purging" => Queued \subseteq asked
FlagAsked == aborted /\ worker \in Taken => spoken \in asked
ResultAsked == result = "cancelled" /\ worker \in {"close", "finish"} => spoken \in asked
CancelledAsked == \A p \in Prompt : exception[p] = "cancelled" => p \in asked

Blame ==
  /\ Shape /\ InHand /\ LockKept /\ PurgeAsked
  /\ FlagAsked /\ ResultAsked /\ CancelledAsked
  /\ ToldAsked(events, asked)

(* Taking a prompt makes it current; nothing else changes what is in hand.  *)
LEMMA InHandStep == Shape /\ InHand /\ [Next]_vars => InHand'
<1> USE DEF InHand, Taken
<1> SUFFICES ASSUME Shape, InHand, [Next]_vars PROVE InHand'
  OBVIOUS
<1>1. CASE TakePrompt
  <2>1. Head(queue) \in Prompt
    BY <1>1, EmptySeq, HeadTailProperties DEF Shape, TakePrompt
  <2>2. QED
    BY <1>1, <2>1 DEF TakePrompt, PromptOf, Exceptions
<1>2. CASE TakeVoice \/ TakeNothing \/ MakeVoice \/ Reset \/ CheckExit
  BY <1>2 DEF TakeVoice, TakeNothing, MakeVoice, Reset, CheckExit, Exceptions
<1>3. CASE StartStream \/ LookUp \/ Throw \/ BeginSegment \/ Played
  BY <1>3 DEF StartStream, LookUp, Throw, BeginSegment, Played, Shape, Exceptions
<1>4. CASE CloseSegment \/ AllSegments \/ Finish
  BY <1>4 DEF CloseSegment, AllSegments, Finish, Shape, Exceptions
<1>5. CASE Dispatch
  BY <1>5 DEF Dispatch, workerVars
<1>6. ASSUME NEW c \in Client, ClientStep(c) \/ ReturnStep(c) PROVE InHand'
  <2>1. UNCHANGED <<worker, spoken, result, currentPrompt>>
    BY <1>6 DEF ClientStep, ReturnStep, SpeakAsync, SpeakTest, CancelQueued,
      CancelThrows, CancelCurrent, PauseDevice, ResumeDevice, AbortCurrent, SetOutput,
      GetVoice, Dispose, SpeakQueue, SpeakRefused, SpeakReturn, PauseState,
      ResumeState, AbortQueued, CancelReturn, Swap, GotVoice, ResumeFlag, Settle, Join, workerVars
  <2>2. QED
    BY <2>1
<1>7. CASE UNCHANGED vars
  BY <1>7 DEF vars, workerVars
<1>8. QED
  BY <1>1, <1>2, <1>3, <1>4, <1>5, <1>6, <1>7 DEF Next, WorkerStep

(* Only the client that has the lock of the queue is inside one of its      *)
(* waiting sections.                                                        *)
LEMMA LockKeptStep == Shape /\ LockKept /\ [Next]_vars => LockKept'
<1> USE DEF LockKept, QueueFree, Goes
<1> SUFFICES ASSUME Shape, LockKept, [Next]_vars PROVE LockKept'
  OBVIOUS
<1>1. CASE WorkerStep \/ Dispatch \/ UNCHANGED vars
  <2>1. UNCHANGED <<at, queueOwner>>
    BY <1>1 DEF WorkerStep, Dispatch, vars, TakePrompt, TakeVoice, TakeNothing,
      MakeVoice, StartStream, LookUp, Throw, BeginSegment, Played, CloseSegment,
      AllSegments, Finish, Reset, CheckExit, clientVars, queueVars
  <2>2. QED
    BY <2>1
<1>2. ASSUME NEW c \in Client, ClientStep(c) PROVE LockKept'
  <2>1. ASSUME NEW p \in Prompt, SpeakAsync(c, p) \/ CancelQueued(c, p) PROVE LockKept'
    BY <2>1 DEF SpeakAsync, CancelQueued, clientVars, queueVars
  <2>2. ASSUME NEW p \in Prompt, SpeakTest(c, p) \/ CancelThrows(c, p) PROVE LockKept'
    BY <2>2 DEF SpeakTest, CancelThrows, queueVars, Shape
  <2>3. ASSUME NEW p \in Prompt, CancelCurrent(c, p) PROVE LockKept'
    BY <2>3, NoneIsNobody DEF CancelCurrent, Shape
  <2>4. CASE PauseDevice(c) \/ ResumeDevice(c) \/ GetVoice(c) \/ Dispose(c)
    BY <2>4 DEF PauseDevice, ResumeDevice, GetVoice, Dispose, queueVars, Shape
  <2>5. CASE AbortCurrent(c) \/ SetOutput(c)
    BY <2>5, NoneIsNobody DEF AbortCurrent, SetOutput, Shape
  <2>6. QED
    BY <1>2, <2>1, <2>2, <2>3, <2>4, <2>5 DEF ClientStep
<1>3. ASSUME NEW c \in Client, ReturnStep(c) PROVE LockKept'
  <2>1. CASE AbortQueued(c) \/ CancelReturn(c) \/ Swap(c)
    BY <2>1 DEF AbortQueued, CancelReturn, Swap, Shape
  <2>2. CASE \/ SpeakQueue(c) \/ SpeakRefused(c) \/ SpeakReturn(c) \/ PauseState(c)
             \/ ResumeState(c) \/ GotVoice(c) \/ ResumeFlag(c) \/ Settle(c) \/ Join(c)
    BY <2>2 DEF SpeakQueue, SpeakRefused, SpeakReturn, PauseState, ResumeState,
      GotVoice, ResumeFlag, Settle, Join, queueVars, Shape
  <2>3. QED
    BY <1>3, <2>1, <2>2 DEF ReturnStep
<1>4. QED
  BY <1>1, <1>2, <1>3 DEF Next

-----------------------------------------------------------------------------
(* What a step can post: nothing, the start or the end of the prompt in     *)
(* hand, changes of the state.                                              *)
NewEvents(new) ==
  /\ new \in Seq(Event)
  /\ \A i \in DOMAIN new :
       new[i] \in PromptEvent =>
         \/ worker = "start" /\ new[i] = Start(spoken, exception[spoken])
         \/ worker = "finish" /\ new[i] = End(spoken, result)

(* So does every step; it dispatches one event or none.                     *)
LEMMA PostsEvents ==
  ASSUME Shape, InHand, [Next]_vars
  PROVE  /\ \E new : NewEvents(new) /\ events' = events \o new
         /\ \/ delivered' = delivered
            \/ /\ events' = events /\ delivered < Len(events)
               /\ delivered' = delivered + 1
<1> DEFINE Posted == \E new : NewEvents(new) /\ events' = events \o new
<1>1. ASSUME NEW s \in States, NEW t \in States PROVE NewEvents(OnStateChanged(s, t))
  <2>1. Changed(s, t) \in Event /\ Changed(s, t) \notin PromptEvent
    BY DEF Changed, Event, StateEvent, PromptEvent
  <2>2. QED
    BY <2>1 DEF OnStateChanged, NewEvents
<1>2. ASSUME NEW a, NewEvents(a), NEW b, NewEvents(b)
      PROVE  NewEvents(a \o b) /\ events \o a \o b = events \o (a \o b)
  <2>1. a \o b \in Seq(Event) /\ Len(a \o b) = Len(a) + Len(b)
    BY <1>2, ConcatProperties DEF NewEvents
  <2>2. ASSUME NEW i \in DOMAIN (a \o b)
        PROVE  (a \o b)[i] \in {a[j] : j \in DOMAIN a} \cup {b[j] : j \in DOMAIN b}
    BY <1>2, <2>1, ConcatProperties, LenProperties DEF NewEvents
  <2>3. NewEvents(a \o b)
    BY <1>2, <2>1, <2>2 DEF NewEvents
  <2>4. QED
    BY <1>2, <2>3, ConcatAssociative DEF NewEvents, Shape
<1>3. ASSUME UNCHANGED events PROVE Posted
  <2>1. NewEvents(<<>>)
    BY DEF NewEvents
  <2>2. events' = events \o <<>>
    BY <1>3, ConcatEmptySeq DEF Shape
  <2>3. QED
    BY <2>1, <2>2
<1>4. ASSUME TakePrompt PROVE Posted
  <2>1. PICK s \in States : events' = events \o OnStateChanged(s, state)
    BY <1>4 DEF TakePrompt, Shape, States
  <2>2. QED
    BY <1>1, <2>1 DEF Shape
<1>5. ASSUME StartStream PROVE Posted
  <2>1. Start(spoken, exception[spoken]) \in Event
    BY <1>5 DEF StartStream, Start, Event, PromptEvent, Shape, InHand, Taken
  <2>2. events' = events \o <<Start(spoken, exception[spoken])>>
    BY <1>5, <2>1, AppendIsConcat DEF StartStream, Shape
  <2>3. NewEvents(<<Start(spoken, exception[spoken])>>)
    BY <1>5, <2>1 DEF NewEvents, StartStream
  <2>4. QED
    BY <2>2, <2>3
<1>6. ASSUME Finish PROVE Posted
  <2>1. End(spoken, result) \in Event
    BY <1>6 DEF Finish, End, Event, PromptEvent, InHand, Taken
  <2>2. NewEvents(EndAlways)
    BY <1>6, <2>1 DEF NewEvents, EndAlways, Finish
  <2>3. NewEvents(<<Changed("Ready", state)>>)
    BY DEF Changed, NewEvents, Event, StateEvent, PromptEvent, Shape, States
  <2>4. /\ NewEvents(EndAlways \o <<Changed("Ready", state)>>)
        /\ events \o EndAlways \o <<Changed("Ready", state)>>
             = events \o (EndAlways \o <<Changed("Ready", state)>>)
    BY <1>2, <2>2, <2>3
  <2>5. \/ events' = events \o EndAlways
        \/ events' = events \o EndAlways \o <<Changed("Ready", state)>>
    BY <1>6 DEF Finish
  <2>6. QED
    BY <2>2, <2>4, <2>5
<1>7. ASSUME NEW c \in Client, PauseState(c) \/ ResumeState(c) PROVE Posted
  <2>1. PICK s \in States, t \in States :
          events' = events \o OnStateChanged(s, state) \o OnStateChanged(t, s)
    BY <1>7 DEF PauseState, ResumeState, Shape, States
  <2>2. NewEvents(OnStateChanged(s, state)) /\ NewEvents(OnStateChanged(t, s))
    BY <1>1 DEF Shape
  <2>3. /\ NewEvents(OnStateChanged(s, state) \o OnStateChanged(t, s))
        /\ events \o OnStateChanged(s, state) \o OnStateChanged(t, s)
             = events \o (OnStateChanged(s, state) \o OnStateChanged(t, s))
    BY <1>2, <2>2
  <2>4. QED
    BY <2>1, <2>3
<1>8. CASE WorkerStep \/ Dispatch \/ UNCHANGED vars
  <2>1. Posted
    BY <1>3, <1>4, <1>5, <1>6, <1>8 DEF WorkerStep, Dispatch, vars, TakeVoice, TakeNothing,
      MakeVoice, LookUp, Throw, BeginSegment, Played, CloseSegment, AllSegments, Reset,
      CheckExit
  <2>2. \/ delivered' = delivered
        \/ /\ events' = events /\ delivered < Len(events)
           /\ delivered' = delivered + 1
    BY <1>8 DEF WorkerStep, Dispatch, vars, TakePrompt, TakeVoice, TakeNothing, MakeVoice,
      StartStream, LookUp, Throw, BeginSegment, Played, CloseSegment, AllSegments, Finish,
      Reset, CheckExit, dispatchVars
  <2>3. QED
    BY <2>1, <2>2
<1>9. ASSUME NEW c \in Client, ClientStep(c) \/ ReturnStep(c)
      PROVE  Posted /\ delivered' = delivered
  <2>1. Posted
    BY <1>3, <1>7, <1>9 DEF ClientStep, ReturnStep, SpeakAsync, SpeakTest, CancelQueued,
      CancelThrows, CancelCurrent, PauseDevice, ResumeDevice, AbortCurrent, SetOutput,
      GetVoice, Dispose, SpeakQueue, SpeakRefused, SpeakReturn, AbortQueued, CancelReturn,
      Swap, GotVoice, ResumeFlag, Settle, Join
  <2>2. delivered' = delivered
    BY <1>9 DEF ClientStep, ReturnStep, SpeakAsync, SpeakTest, CancelQueued, CancelThrows,
      CancelCurrent, PauseDevice, ResumeDevice, AbortCurrent, SetOutput, GetVoice, Dispose,
      SpeakQueue, SpeakRefused, SpeakReturn, PauseState, ResumeState, AbortQueued,
      CancelReturn, Swap, GotVoice, ResumeFlag, Settle, Join, dispatchVars
  <2>3. QED
    BY <2>1, <2>2
<1>10. QED
  BY <1>8, <1>9 DEF Next

-----------------------------------------------------------------------------
(* The types Blame needs.                                                   *)
LEMMA ShapeStep == Shape /\ InHand /\ [Next]_vars => Shape'
<1> SUFFICES ASSUME Shape, InHand, [Next]_vars PROVE Shape'
  OBVIOUS
<1> DEFINE QueueOK == queue \in Seq(Prompt \cup {"voice"})
           EventsOK == events \in Seq(Event) /\ delivered \in Nat /\ delivered <= Len(events)
           PlacesOK == /\ at \in [Client -> Places] /\ arg \in [Client -> Prompt \cup {None}]
                       /\ \A c \in Client : at[c] = "queueing" => arg[c] \in Prompt
           ExceptionsOK == exception \in [Prompt -> Exceptions]
           StateOK == state \in States
(* What one more sequence of events leaves true.                            *)
<1>1. ASSUME NEW new \in Seq(Event), events' = events \o new, delivered' = delivered
      PROVE  EventsOK'
  <2>1. events' \in Seq(Event) /\ Len(events') = Len(events) + Len(new)
    BY <1>1, ConcatProperties DEF Shape
  <2>2. Len(new) \in Nat /\ Len(events) \in Nat
    BY <1>1, LenProperties DEF Shape
  <2>3. QED
    BY <1>1, <2>1, <2>2 DEF Shape
<1>3. QueueOK'
  <2>1. ASSUME NEW entry \in Prompt \cup {"voice"}, Enqueue(entry) PROVE QueueOK'
    BY <2>1, AppendProperties DEF Enqueue, Shape
  <2>2. CASE TakePrompt \/ TakeVoice
    <3>1. queue # <<>> /\ queue' = Tail(queue)
      BY <2>2 DEF TakePrompt, TakeVoice
    <3>2. QED
      BY <3>1, HeadTailProperties DEF Shape
  <2>3. CASE UNCHANGED queue
    BY <2>3 DEF Shape
  <2>4. CASE WorkerStep \/ Dispatch \/ UNCHANGED vars
    BY <2>2, <2>3, <2>4 DEF WorkerStep, Dispatch, vars, TakeNothing, MakeVoice,
      StartStream, LookUp, Throw, BeginSegment, Played, CloseSegment, AllSegments,
      Finish, Reset, CheckExit, queueVars
  <2>5. ASSUME NEW c \in Client, NEW p \in Prompt, SpeakAsync(c, p) PROVE QueueOK'
    BY <2>1, <2>5 DEF SpeakAsync
  <2>6. ASSUME NEW c \in Client, SpeakQueue(c) PROVE QueueOK'
    BY <2>1, <2>6 DEF SpeakQueue, Shape
  <2>7. ASSUME NEW c \in Client, GetVoice(c) PROVE QueueOK'
    BY <2>1, <2>7 DEF GetVoice
  <2>8. ASSUME NEW c \in Client, ClientStep(c) \/ ReturnStep(c) PROVE QueueOK'
    BY <2>3, <2>5, <2>6, <2>7, <2>8 DEF ClientStep, ReturnStep, SpeakTest, CancelQueued,
      CancelThrows, CancelCurrent, PauseDevice, ResumeDevice, AbortCurrent, SetOutput,
      Dispose, SpeakRefused, SpeakReturn, PauseState, ResumeState, AbortQueued,
      CancelReturn, Swap, GotVoice, ResumeFlag, Settle, Join, queueVars
  <2>9. QED
    BY <2>4, <2>8 DEF Next
<1>4. StateOK'
  <2>1. CASE WorkerStep
    BY <2>1 DEF Shape, States, WorkerStep, TakePrompt, TakeVoice, TakeNothing, MakeVoice,
      StartStream, LookUp, Throw, BeginSegment, Played, CloseSegment, AllSegments, Finish,
      Reset, CheckExit
  <2>2. CASE Dispatch \/ UNCHANGED vars
    BY <2>2 DEF Shape, Dispatch, vars
  <2>3. ASSUME NEW c \in Client, ClientStep(c) PROVE StateOK'
    BY <2>3 DEF Shape, ClientStep, SpeakAsync, SpeakTest, CancelQueued, CancelThrows,
      CancelCurrent, PauseDevice, ResumeDevice, AbortCurrent, SetOutput, GetVoice, Dispose
  <2>4. ASSUME NEW c \in Client, ReturnStep(c) PROVE StateOK'
    <3>1. CASE PauseState(c) \/ ResumeState(c)
      BY <3>1 DEF Shape, States, PauseState, ResumeState
    <3>2. CASE \/ SpeakQueue(c) \/ SpeakRefused(c) \/ SpeakReturn(c) \/ AbortQueued(c)
               \/ CancelReturn(c) \/ Swap(c) \/ GotVoice(c) \/ ResumeFlag(c) \/ Settle(c)
               \/ Join(c)
      BY <3>2 DEF Shape, SpeakQueue, SpeakRefused, SpeakReturn, AbortQueued, CancelReturn,
        Swap, GotVoice, ResumeFlag, Settle, Join
    <3>3. QED
      BY <2>4, <3>1, <3>2 DEF ReturnStep
  <2>5. QED
    BY <2>1, <2>2, <2>3, <2>4 DEF Next
<1>5. ExceptionsOK'
  <2>1. CASE Dispatch
    <3>1. CASE events[delivered'].kind # "state" /\ ~disposed
      <4>1. events[delivered'] \in Event
        BY <2>1, ElementOfSeq DEF Dispatch, Shape
      <4>2. events[delivered'].exception \in Exceptions
        BY <3>1, <4>1 DEF Event, PromptEvent, StateEvent
      <4>3. QED
        BY <2>1, <3>1, <4>2 DEF Dispatch, Shape
    <3>2. CASE ~(events[delivered'].kind # "state" /\ ~disposed)
      BY <2>1, <3>2 DEF Dispatch, Shape
    <3>3. QED
      BY <3>1, <3>2
  <2>2. CASE Finish
    BY <2>2 DEF Finish, Shape, InHand
  <2>3. ASSUME NEW c \in Client, AbortQueued(c) PROVE ExceptionsOK'
    BY <2>3 DEF AbortQueued, Shape, Exceptions
  <2>4. ASSUME NEW c \in Client, NEW p \in Prompt, CancelQueued(c, p) PROVE ExceptionsOK'
    BY <2>4 DEF CancelQueued, Shape, Exceptions
  <2>5. CASE UNCHANGED exception
    BY <2>5 DEF Shape
  <2>6. CASE WorkerStep \/ UNCHANGED vars
    BY <2>2, <2>5, <2>6 DEF WorkerStep, vars, TakePrompt, TakeVoice, TakeNothing,
      MakeVoice, StartStream, LookUp, Throw, BeginSegment, Played, CloseSegment,
      AllSegments, Reset, CheckExit
  <2>7. ASSUME NEW c \in Client, ClientStep(c) \/ ReturnStep(c) PROVE ExceptionsOK'
    BY <2>3, <2>4, <2>5, <2>7 DEF ClientStep, ReturnStep, SpeakAsync, SpeakTest,
      CancelThrows, CancelCurrent, PauseDevice, ResumeDevice, AbortCurrent, SetOutput,
      GetVoice, Dispose, SpeakQueue, SpeakRefused, SpeakReturn, PauseState, ResumeState,
      CancelReturn, Swap, GotVoice, ResumeFlag, Settle, Join
  <2>8. QED
    BY <2>1, <2>6, <2>7 DEF Next
<1>6. PlacesOK'
  <2>1. CASE UNCHANGED <<at, arg>>
    BY <2>1 DEF Shape
  <2>2. CASE WorkerStep \/ Dispatch \/ UNCHANGED vars
    BY <2>1, <2>2 DEF WorkerStep, Dispatch, vars, TakePrompt, TakeVoice, TakeNothing,
      MakeVoice, StartStream, LookUp, Throw, BeginSegment, Played, CloseSegment,
      AllSegments, Finish, Reset, CheckExit, clientVars
  <2>3. ASSUME NEW c \in Client, NEW place \in Places, Goes(c, place),
               NEW a \in Prompt \cup {None},
               \/ UNCHANGED arg /\ place # "queueing"
               \/ arg' = [arg EXCEPT ![c] = a] /\ (place = "queueing" => a \in Prompt)
        PROVE  PlacesOK'
    BY <2>3 DEF Shape, Goes
  <2>4. ASSUME NEW c \in Client, NEW p \in Prompt,
               \/ SpeakAsync(c, p) \/ SpeakTest(c, p) \/ CancelQueued(c, p)
               \/ CancelThrows(c, p) \/ CancelCurrent(c, p)
        PROVE  PlacesOK'
    <3>1. CASE SpeakAsync(c, p) \/ CancelQueued(c, p)
      BY <2>1, <3>1 DEF SpeakAsync, CancelQueued, clientVars
    <3>2. CASE SpeakTest(c, p)
      BY <2>3, <3>2 DEF SpeakTest, Places
    <3>3. CASE CancelThrows(c, p) \/ CancelCurrent(c, p)
      BY <2>3, <3>3 DEF CancelThrows, CancelCurrent, Places
    <3>4. QED
      BY <2>4, <3>1, <3>2, <3>3
  <2>5. ASSUME NEW c \in Client,
               \/ PauseDevice(c) \/ ResumeDevice(c) \/ AbortCurrent(c) \/ SetOutput(c)
               \/ GetVoice(c) \/ Dispose(c)
        PROVE  PlacesOK'
    <3>1. UNCHANGED arg
      BY <2>5 DEF PauseDevice, ResumeDevice, AbortCurrent, SetOutput, GetVoice, Dispose
    <3>2. \E place \in Places \ {"queueing"} : Goes(c, place)
      BY <2>5 DEF PauseDevice, ResumeDevice, AbortCurrent, SetOutput, GetVoice, Dispose,
        Places
    <3>3. QED
      BY <2>3, <3>1, <3>2
  <2>6. ASSUME NEW c \in Client, ReturnStep(c) PROVE PlacesOK'
    <3>1. CASE SpeakQueue(c) \/ PauseState(c) \/ ResumeState(c) \/ AbortQueued(c) \/ Swap(c)
      BY <2>3, <3>1 DEF SpeakQueue, PauseState, ResumeState, AbortQueued, Swap, Places
    <3>2. CASE GotVoice(c) \/ ResumeFlag(c) \/ Settle(c) \/ Join(c)
      BY <2>3, <3>2 DEF GotVoice, ResumeFlag, Settle, Join, Places
    <3>3. CASE SpeakRefused(c) \/ CancelReturn(c)
      BY <2>3, <3>3 DEF SpeakRefused, CancelReturn, Places
    <3>4. CASE SpeakReturn(c)
      BY <2>1, <2>3, <3>4 DEF SpeakReturn, Places
    <3>5. QED
      BY <2>6, <3>1, <3>2, <3>3, <3>4 DEF ReturnStep
  <2>7. QED
    BY <2>2, <2>4, <2>5, <2>6 DEF Next, ClientStep
<1>7. EventsOK'
  <2>1. PICK new \in Seq(Event) : events' = events \o new
    BY PostsEvents DEF NewEvents
  <2>2. CASE delivered' = delivered
    BY <1>1, <2>1, <2>2
  <2>3. CASE events' = events /\ delivered < Len(events) /\ delivered' = delivered + 1
    BY <2>3, LenProperties DEF Shape
  <2>4. QED
    BY <2>2, <2>3, PostsEvents
<1>8. QED
  BY <1>3, <1>4, <1>5, <1>6, <1>7 DEF Shape

-----------------------------------------------------------------------------
(* What was asked for is never forgotten.                                   *)
LEMMA AskedGrows == [Next]_vars => asked \subseteq asked'
<1>1. CASE WorkerStep \/ Dispatch \/ UNCHANGED vars
  BY <1>1 DEF WorkerStep, Dispatch, vars, TakePrompt, TakeVoice, TakeNothing, MakeVoice,
    StartStream, LookUp, Throw, BeginSegment, Played, CloseSegment, AllSegments, Finish,
    Reset, CheckExit, history
<1>2. ASSUME NEW c \in Client, ClientStep(c) \/ ReturnStep(c) PROVE asked \subseteq asked'
  BY <1>2 DEF ClientStep, ReturnStep, SpeakAsync, SpeakTest, CancelQueued, CancelThrows,
    CancelCurrent, PauseDevice, ResumeDevice, AbortCurrent, SetOutput, GetVoice, Dispose,
    SpeakQueue, SpeakRefused, SpeakReturn, PauseState, ResumeState, AbortQueued,
    CancelReturn, Swap, GotVoice, ResumeFlag, Settle, Join, history
<1>3. QED
  BY <1>1, <1>2 DEF Next

(* While an Abort waits, it has the lock of the queue: what it listed stays *)
(* all there is.                                                            *)
LEMMA PurgeAskedStep == Shape /\ LockKept /\ PurgeAsked /\ [Next]_vars => PurgeAsked'
<1> SUFFICES ASSUME Shape, LockKept, PurgeAsked, [Next]_vars PROVE PurgeAsked'
  OBVIOUS
<1> USE AskedGrows
<1>1. ASSUME QueueFree PROVE \A c \in Client : at[c] # "purging"
  BY <1>1, NoneIsNobody DEF QueueFree, LockKept
<1>2. ASSUME QueueFree, UNCHANGED at PROVE PurgeAsked'
  BY <1>1, <1>2 DEF PurgeAsked
<1>3. ASSUME QueueFree, NEW c \in Client, NEW place \in Places \ {"purging"}, Goes(c, place)
      PROVE  PurgeAsked'
  BY <1>1, <1>3 DEF PurgeAsked, Goes, Shape
<1>4. ASSUME UNCHANGED <<queue, at>> PROVE PurgeAsked'
  BY <1>4 DEF PurgeAsked, Queued
<1>5. ASSUME UNCHANGED queue, NEW c \in Client, NEW place \in Places \ {"purging"},
             Goes(c, place)
      PROVE  PurgeAsked'
  BY <1>5 DEF PurgeAsked, Queued, Goes, Shape
<1>6. CASE WorkerStep \/ Dispatch \/ UNCHANGED vars
  <2>1. UNCHANGED at /\ (UNCHANGED queue \/ QueueFree)
    BY <1>6 DEF WorkerStep, Dispatch, vars, TakePrompt, TakeVoice, TakeNothing, MakeVoice,
      StartStream, LookUp, Throw, BeginSegment, Played, CloseSegment, AllSegments, Finish,
      Reset, CheckExit, queueVars, clientVars
  <2>2. QED
    BY <2>1, <1>2, <1>4
<1>7. ASSUME NEW c \in Client, AbortCurrent(c) PROVE PurgeAsked'
  BY <1>7 DEF AbortCurrent, PurgeAsked, Queued, Goes, Shape
<1>8. ASSUME NEW c \in Client, ClientStep(c), ~AbortCurrent(c) PROVE PurgeAsked'
  <2>1. \/ UNCHANGED at
        \/ \E place \in Places \ {"purging"} : Goes(c, place)
    BY <1>8 DEF ClientStep, SpeakAsync, SpeakTest, CancelQueued, CancelThrows,
      CancelCurrent, PauseDevice, ResumeDevice, SetOutput, GetVoice, Dispose,
      clientVars, Places
  <2>2. UNCHANGED queue \/ QueueFree
    BY <1>8 DEF ClientStep, SpeakAsync, SpeakTest, CancelQueued, CancelThrows,
      CancelCurrent, PauseDevice, ResumeDevice, SetOutput, GetVoice, Dispose, Enqueue,
      queueVars
  <2>3. QED
    BY <2>1, <2>2, <1>2, <1>3, <1>4, <1>5
<1>9. ASSUME NEW c \in Client, ReturnStep(c) PROVE PurgeAsked'
  <2>1. \/ UNCHANGED at
        \/ \E place \in Places \ {"purging"} : Goes(c, place)
    BY <1>9 DEF ReturnStep, SpeakQueue, SpeakRefused, SpeakReturn, PauseState, ResumeState,
      AbortQueued, CancelReturn, Swap, GotVoice, ResumeFlag, Settle, Join, Places
  <2>2. UNCHANGED queue \/ QueueFree
    BY <1>9 DEF ReturnStep, SpeakQueue, Enqueue, SpeakRefused, SpeakReturn, PauseState,
      ResumeState, AbortQueued, CancelReturn, Swap, GotVoice, ResumeFlag, Settle, Join, queueVars
  <2>3. QED
    BY <2>1, <2>2, <1>2, <1>3, <1>4, <1>5
<1>10. QED
  BY <1>6, <1>7, <1>8, <1>9 DEF Next

(* The device's flag is about the prompt in hand.                           *)
LEMMA FlagAskedStep == Shape /\ InHand /\ FlagAsked /\ [Next]_vars => FlagAsked'
<1> USE AskedGrows DEF FlagAsked, Taken
<1> SUFFICES ASSUME Shape, InHand, FlagAsked, [Next]_vars PROVE FlagAsked'
  OBVIOUS
<1>1. CASE TakePrompt
  BY <1>1 DEF TakePrompt, AbortedAfterTake
<1>2. CASE BeginSegment \/ CloseSegment
  BY <1>2 DEF BeginSegment, CloseSegment
<1>3. CASE TakeVoice \/ TakeNothing \/ MakeVoice \/ Reset \/ CheckExit
  BY <1>3 DEF TakeVoice, TakeNothing, MakeVoice, Reset, CheckExit
<1>4. CASE StartStream \/ LookUp \/ Throw \/ Played \/ AllSegments \/ Finish
  BY <1>4 DEF StartStream, LookUp, Throw, Played, AllSegments, Finish, deviceVars
<1>5. CASE UNCHANGED <<worker, spoken, aborted>>
  BY <1>5
<1>6. ASSUME NEW c \in Client, AbortCurrent(c) PROVE FlagAsked'
  BY <1>6 DEF AbortCurrent, AbortsDevice, InHand, Speaking, workerVars
<1>7. ASSUME NEW c \in Client, NEW p \in Prompt, CancelCurrent(c, p) PROVE FlagAsked'
  BY <1>7, NoneIsNobody DEF CancelCurrent, InHand, workerVars
<1>8. ASSUME NEW c \in Client, Swap(c) PROVE FlagAsked'
  BY <1>8 DEF Swap
<1>9. ASSUME NEW c \in Client, ClientStep(c) PROVE FlagAsked'
  BY <1>5, <1>6, <1>7, <1>9 DEF ClientStep, SpeakAsync, SpeakTest, CancelQueued,
    CancelThrows, PauseDevice, ResumeDevice, SetOutput, GetVoice, Dispose, deviceVars,
    workerVars
<1>10. ASSUME NEW c \in Client, ReturnStep(c) PROVE FlagAsked'
  BY <1>5, <1>8, <1>10 DEF ReturnStep, SpeakQueue, SpeakRefused, SpeakReturn, PauseState,
    ResumeState, AbortQueued, CancelReturn, GotVoice, ResumeFlag, Settle, Join, deviceVars,
    workerVars
<1>11. CASE Dispatch \/ UNCHANGED vars
  BY <1>5, <1>11 DEF Dispatch, vars, deviceVars, workerVars
<1>12. QED
  BY <1>1, <1>2, <1>3, <1>4, <1>9, <1>10, <1>11 DEF Next, WorkerStep

(* What the worker will report of the prompt in hand.                       *)
LEMMA ResultAskedStep ==
  Shape /\ InHand /\ FlagAsked /\ ResultAsked /\ CancelledAsked /\ [Next]_vars => ResultAsked'
<1> USE AskedGrows, NoneIsNobody DEF ResultAsked
<1> SUFFICES ASSUME Shape, InHand, FlagAsked, ResultAsked, CancelledAsked, [Next]_vars
             PROVE ResultAsked'
  OBVIOUS
<1>1. CASE StartStream \/ AllSegments
  BY <1>1 DEF StartStream, AllSegments, CancelledAsked, InHand, Taken
<1>2. CASE BeginSegment \/ CloseSegment
  BY <1>2 DEF BeginSegment, CloseSegment, SeesAbort, FlagAsked, Taken
<1>3. CASE Throw \/ Played
  BY <1>3 DEF Throw, Played
<1>4. CASE TakePrompt \/ TakeVoice \/ TakeNothing \/ MakeVoice \/ LookUp \/ Finish \/ Reset
           \/ CheckExit
  BY <1>4 DEF TakePrompt, TakeVoice, TakeNothing, MakeVoice, LookUp, Finish, Reset, CheckExit
<1>5. CASE UNCHANGED workerVars
  BY <1>5 DEF workerVars
<1>6. ASSUME NEW c \in Client, ClientStep(c) \/ ReturnStep(c) PROVE ResultAsked'
  BY <1>5, <1>6 DEF ClientStep, ReturnStep, SpeakAsync, SpeakTest, CancelQueued,
    CancelThrows, CancelCurrent, PauseDevice, ResumeDevice, AbortCurrent, SetOutput,
    GetVoice, Dispose, SpeakQueue, SpeakRefused, SpeakReturn, PauseState, ResumeState,
    AbortQueued, CancelReturn, Swap, GotVoice, ResumeFlag, Settle, Join
<1>7. CASE Dispatch \/ UNCHANGED vars
  BY <1>5, <1>7 DEF Dispatch, vars
<1>8. QED
  BY <1>1, <1>2, <1>3, <1>4, <1>6, <1>7 DEF Next, WorkerStep

(* Prompt.Exception, set by cancels, by the worker and by the dispatcher.   *)
LEMMA CancelledAskedStep ==
  Blame /\ [Next]_vars => CancelledAsked'
<1> USE AskedGrows DEF CancelledAsked
<1> SUFFICES ASSUME Blame, [Next]_vars PROVE CancelledAsked'
  OBVIOUS
<1>1. CASE Finish
  BY <1>1 DEF Finish, Blame, ResultAsked, Shape
<1>2. CASE Dispatch
  <2>1. CASE events[delivered'].kind # "state" /\ ~disposed
    <3>1. delivered' \in DOMAIN events /\ events[delivered'] \in Event
      BY <1>2, ElementOfSeq, LenProperties DEF Dispatch, Blame, Shape
    <3>2. events[delivered'] \in PromptEvent
      BY <2>1, <3>1 DEF Event, PromptEvent, StateEvent
    <3>3. events[delivered'].exception = "cancelled" => events[delivered'].prompt \in asked
      BY <3>1, <3>2 DEF Blame, ToldAsked
    <3>4. exception' = [exception EXCEPT ![events[delivered'].prompt]
                                    = events[delivered'].exception]
      BY <1>2, <2>1 DEF Dispatch
    <3>5. QED
      BY <3>3, <3>4 DEF Blame, Shape
  <2>2. CASE ~(events[delivered'].kind # "state" /\ ~disposed)
    BY <1>2, <2>2 DEF Dispatch, Blame
  <2>3. QED
    BY <2>1, <2>2
<1>3. ASSUME NEW c \in Client, AbortQueued(c) PROVE CancelledAsked'
  BY <1>3 DEF AbortQueued, Blame, PurgeAsked
<1>4. ASSUME NEW c \in Client, NEW p \in Prompt, CancelQueued(c, p) PROVE CancelledAsked'
  BY <1>4 DEF CancelQueued, Blame, Shape
<1>5. CASE UNCHANGED exception
  BY <1>5 DEF Blame
<1>6. CASE WorkerStep \/ UNCHANGED vars
  BY <1>1, <1>5, <1>6 DEF WorkerStep, vars, TakePrompt, TakeVoice, TakeNothing, MakeVoice,
    StartStream, LookUp, Throw, BeginSegment, Played, CloseSegment, AllSegments, Reset,
    CheckExit
<1>7. ASSUME NEW c \in Client, ClientStep(c) \/ ReturnStep(c) PROVE CancelledAsked'
  BY <1>3, <1>4, <1>5, <1>7 DEF ClientStep, ReturnStep, SpeakAsync, SpeakTest, CancelThrows,
    CancelCurrent, PauseDevice, ResumeDevice, AbortCurrent, SetOutput, GetVoice, Dispose,
    SpeakQueue, SpeakRefused, SpeakReturn, PauseState, ResumeState, CancelReturn, Swap,
    GotVoice, ResumeFlag, Settle, Join
<1>8. QED
  BY <1>2, <1>6, <1>7 DEF Next

(* The events posted.                                                       *)
LEMMA ToldAskedStep == Blame /\ [Next]_vars => ToldAsked(events, asked)'
<1> SUFFICES ASSUME Blame, [Next]_vars PROVE ToldAsked(events', asked')
  OBVIOUS
<1>1. PICK new : NewEvents(new) /\ events' = events \o new
  BY PostsEvents DEF Blame
<1>2. ToldAsked(new, asked')
  BY <1>1, AskedGrows DEF NewEvents, ToldAsked, Blame, CancelledAsked, ResultAsked, Start,
    End, InHand, Taken
<1>3. events \in Seq(Event) /\ new \in Seq(Event) /\ ToldAsked(events, asked')
  BY <1>1, AskedGrows DEF Blame, Shape, NewEvents, ToldAsked
<1>4. ASSUME NEW i \in DOMAIN events'
      PROVE  events'[i] \in {events[j] : j \in DOMAIN events} \cup {new[j] : j \in DOMAIN new}
  <2>1. Len(events \o new) = Len(events) + Len(new)
    BY <1>3, ConcatProperties
  <2>2. QED
    BY <1>1, <1>3, <1>4, <2>1, ConcatProperties, LenProperties
<1>5. QED
  BY <1>2, <1>3, <1>4 DEF ToldAsked

(* The parts together.                                                      *)
LEMMA BlameStep == Blame /\ [Next]_vars => Blame'
<1> SUFFICES ASSUME Blame, [Next]_vars PROVE Blame'
  OBVIOUS
<1>1. Shape' /\ InHand' /\ LockKept'
  BY ShapeStep, InHandStep, LockKeptStep DEF Blame
<1>2. PurgeAsked' /\ FlagAsked' /\ ResultAsked' /\ CancelledAsked'
  BY PurgeAskedStep, FlagAskedStep, ResultAskedStep, CancelledAskedStep DEF Blame
<1>3. QED
  BY <1>1, <1>2, ToldAskedStep DEF Blame

(* At first nothing is queued, cancelled or announced.                      *)
LEMMA BlameInit == Init => Blame
<1> SUFFICES ASSUME Init PROVE Blame
  OBVIOUS
<1>1. Shape
  BY DEF Init, Shape, States, Exceptions, Places
<1>2. InHand /\ LockKept /\ PurgeAsked /\ FlagAsked
  BY DEF Init, InHand, Exceptions, Taken, LockKept, PurgeAsked, FlagAsked
<1>3. ResultAsked /\ CancelledAsked /\ ToldAsked(events, asked)
  BY NoneIsNobody DEF Init, ResultAsked, CancelledAsked, ToldAsked
<1>4. QED
  BY <1>1, <1>2, <1>3 DEF Blame

(***************************************************************************)
(* For any clients and prompts, a prompt is announced as cancelled         *)
(* (SpeakCompleted with Cancelled set) only if some call asked for it: the *)
(* abort flag the prompts share through the device never cancels another   *)
(* prompt, wherever an Abort meets the worker.                             *)
(***************************************************************************)
THEOREM CancelNeverLeaks == Spec => []OnlyAskedCancelled
<1>1. Blame => OnlyAskedCancelled
  <2> SUFFICES ASSUME Blame, NEW i \in DOMAIN events,
                      events[i].kind = "end", events[i].exception = "cancelled"
               PROVE  events[i].prompt \in asked
    BY DEF OnlyAskedCancelled
  <2>1. events[i] \in Event
    BY ElementOfSeq, LenProperties DEF Blame, Shape
  <2>2. events[i] \in PromptEvent
    BY <2>1 DEF Event, PromptEvent, StateEvent
  <2>3. QED
    BY <2>2 DEF Blame, ToldAsked
<1>2. QED
  BY <1>1, BlameInit, BlameStep, PTL DEF Spec

-----------------------------------------------------------------------------
(* The types of everything else, and the bounds of the segments: a segment  *)
(* that is spoken is one of its prompt's.                                   *)
Steps == {"wait", "voice", "start", "look", "segment", "play", "close",
          "finish", "reset", "check", "exited"}

Flags ==
  /\ evt \in BOOLEAN /\ proxy \in BOOLEAN /\ current \in BOOLEAN /\ paused \in BOOLEAN
  /\ devPaused \in BOOLEAN /\ halted \in BOOLEAN /\ aborted \in BOOLEAN
  /\ exiting \in BOOLEAN /\ disposed \in BOOLEAN

Kinds ==
  /\ queueOwner \in Client \cup {None}
  /\ currentPrompt \in Prompt \cup {None}
  /\ worker \in Steps /\ spoken \in Prompt \cup {None}
  /\ segment \in 1..3
  /\ worker \in {"play", "close"} => segment <= LastSegment(spoken)
  /\ voiceOwner \in Client \cup {None} /\ disposer \in Client \cup {None}
  /\ completed \subseteq Prompt /\ readyFor \subseteq Client
  /\ asked \subseteq Prompt /\ purged \subseteq Prompt

(* A prompt has one segment or two.                                         *)
LEMMA SegmentsOfPrompt == \A p : LastSegment(p) \in {1, 2}
BY DEF LastSegment

(* A flag is set, cleared or joined with another condition.                 *)
LEMMA FlagsStep == Flags /\ [Next]_vars => Flags'
<1> SUFFICES ASSUME Flags, [Next]_vars PROVE Flags'
  OBVIOUS
<1> USE DEF Flags
<1>1. CASE TakePrompt \/ TakeVoice \/ TakeNothing \/ MakeVoice \/ StartStream \/ LookUp
  BY <1>1 DEF TakePrompt, AbortedAfterTake, TakeVoice, TakeNothing, MakeVoice, StartStream,
    LookUp, queueVars, deviceVars, voiceVars, exitVars, clientVars
<1>2. CASE Throw \/ BeginSegment \/ Played \/ CloseSegment \/ AllSegments
  BY <1>2 DEF Throw, BeginSegment, Played, CloseSegment, AllSegments, queueVars, deviceVars,
    voiceVars, exitVars, clientVars
<1>3. CASE Finish \/ Reset \/ CheckExit \/ Dispatch \/ UNCHANGED vars
  BY <1>3 DEF Finish, Reset, CheckExit, Dispatch, vars, queueVars, deviceVars, voiceVars,
    exitVars, clientVars
<1>4. ASSUME NEW entry, Enqueue(entry) PROVE evt' \in BOOLEAN
  BY <1>4 DEF Enqueue
<1>5. ASSUME NEW c \in Client, ClientStep(c) PROVE Flags'
  <2>1. ASSUME NEW p \in Prompt, \/ SpeakAsync(c, p) \/ SpeakTest(c, p)
                                 \/ CancelQueued(c, p) \/ CancelThrows(c, p)
        PROVE  Flags'
    BY <2>1, <1>4 DEF SpeakAsync, SpeakTest, CancelQueued, CancelThrows, queueVars, deviceVars,
      voiceVars, exitVars, clientVars
  <2>2. ASSUME NEW p \in Prompt, CancelCurrent(c, p) PROVE Flags'
    BY <2>2 DEF CancelCurrent, voiceVars, exitVars
  <2>3. CASE PauseDevice(c)
    <3>1. devPaused' \in BOOLEAN /\ halted' \in BOOLEAN
      BY <2>3 DEF PauseDevice
    <3> QED
      BY <2>3, <3>1 DEF PauseDevice, queueVars, voiceVars, exitVars
  <2>4. CASE ResumeDevice(c)
    <3>1. halted' \in BOOLEAN
      BY <2>4 DEF ResumeDevice
    <3> QED
      BY <2>4, <3>1 DEF ResumeDevice, queueVars, voiceVars, exitVars
  <2>5. CASE AbortCurrent(c) \/ SetOutput(c) \/ Dispose(c)
    BY <2>5 DEF AbortCurrent, SetOutput, Dispose, queueVars, deviceVars, voiceVars, exitVars
  <2>6. CASE GetVoice(c)
    BY <2>6, <1>4 DEF GetVoice, deviceVars, voiceVars, exitVars
  <2> QED
    BY <1>5, <2>1, <2>2, <2>3, <2>4, <2>5, <2>6 DEF ClientStep
<1>6. ASSUME NEW c \in Client, ReturnStep(c) PROVE Flags'
  <2>1. CASE SpeakQueue(c)
    BY <2>1, <1>4 DEF SpeakQueue, deviceVars, voiceVars, exitVars
  <2>2. CASE SpeakRefused(c) \/ SpeakReturn(c) \/ PauseState(c) \/ ResumeState(c)
    BY <2>2 DEF SpeakRefused, SpeakReturn, PauseState, ResumeState, queueVars, deviceVars,
      voiceVars, exitVars
  <2>3. CASE ResumeFlag(c)
    <3>1. devPaused' \in BOOLEAN
      BY <2>3 DEF ResumeFlag
    <3> QED
      BY <2>3, <3>1 DEF ResumeFlag, queueVars, voiceVars, exitVars
  <2>4. CASE AbortQueued(c) \/ CancelReturn(c) \/ Swap(c)
    BY <2>4 DEF AbortQueued, CancelReturn, Swap, queueVars, deviceVars, voiceVars, exitVars
  <2>5. CASE GotVoice(c) \/ Settle(c) \/ Join(c)
    BY <2>5 DEF GotVoice, Settle, Join, queueVars, deviceVars, voiceVars, exitVars
  <2> QED
    BY <1>6, <2>1, <2>2, <2>3, <2>4, <2>5 DEF ReturnStep
<1> QED
  BY <1>1, <1>2, <1>3, <1>5, <1>6 DEF Next, WorkerStep

(* The steps of the worker keep the others.                                 *)
LEMMA KindsWorker == Shape /\ InHand /\ Kinds /\ WorkerStep => Kinds'
<1> USE SegmentsOfPrompt
<1> SUFFICES ASSUME Shape, InHand, Kinds, WorkerStep PROVE Kinds'
  OBVIOUS
<1>1. CASE TakePrompt
  <2>1. Head(queue) \in Prompt
    BY <1>1, EmptySeq, HeadTailProperties DEF Shape, TakePrompt
  <2> QED
    BY <1>1, <2>1 DEF TakePrompt, PromptOf, AbortedAfterTake, Kinds, Steps, exitVars, voiceVars,
      clientVars, dispatchVars, history
<1>2. CASE TakeVoice \/ TakeNothing \/ MakeVoice
  BY <1>2 DEF TakeVoice, TakeNothing, MakeVoice, PromptOf, Kinds, Steps, queueVars, deviceVars,
    voiceVars, exitVars, clientVars, dispatchVars, history
<1>3. CASE StartStream \/ LookUp \/ Throw
  <2>1. CASE StartStream
    BY <2>1 DEF StartStream, Kinds, Steps, queueVars, voiceVars, exitVars, dispatchVars, history
  <2>2. CASE LookUp
    BY <2>2 DEF LookUp, Kinds, Steps, queueVars, exitVars, dispatchVars, history
  <2>3. CASE Throw
    BY <2>3 DEF Throw, Kinds, Steps, queueVars, exitVars, dispatchVars, history
  <2> QED
    BY <1>3, <2>1, <2>2, <2>3
<1>4. CASE BeginSegment \/ Played
  BY <1>4 DEF BeginSegment, Played, Kinds, Steps, queueVars, deviceVars, voiceVars, exitVars,
    clientVars, dispatchVars, history
<1>5. CASE CloseSegment
  <2>1. segment + 1 \in 1..3
    BY <1>5 DEF CloseSegment, Kinds
  <2>2. worker' \in {"segment", "finish"} /\ currentPrompt' = None
        /\ segment' = segment + 1
        /\ UNCHANGED <<queueOwner, spoken, voiceOwner, disposer, completed, readyFor, asked,
                       purged>>
    BY <1>5 DEF CloseSegment, queueVars, voiceVars, exitVars, dispatchVars, history
  <2> QED
    BY <2>1, <2>2 DEF Kinds, Steps
<1>6. CASE AllSegments \/ Finish
  BY <1>6 DEF AllSegments, Finish, Kinds, Steps, queueVars, deviceVars, voiceVars, exitVars,
    clientVars, dispatchVars, history
<1>7. CASE Reset
  <2>1. /\ worker' = "check" /\ spoken' = None /\ segment' = 1
        /\ UNCHANGED <<queueOwner, currentPrompt, voiceOwner, disposer, completed, readyFor,
                       asked, purged>>
    BY <1>7 DEF Reset, voiceVars, exitVars, dispatchVars, history
  <2> QED
    BY <2>1 DEF Kinds, Steps
<1>8. CASE CheckExit
  BY <1>8 DEF CheckExit, Kinds, Steps, queueVars, deviceVars, voiceVars, exitVars,
    clientVars, dispatchVars, history
<1> QED
  BY <1>1, <1>2, <1>3, <1>4, <1>5, <1>6, <1>7, <1>8 DEF WorkerStep

(* So do the clients and the dispatcher.                                    *)
LEMMA KindsOthers ==
  ASSUME Shape, InHand, Kinds,
         Dispatch \/ \E c \in Client : ClientStep(c) \/ ReturnStep(c)
  PROVE  Kinds'
<1>1. CASE Dispatch
  <2>1. events[delivered'] \in Event
    BY <1>1, ElementOfSeq DEF Dispatch, Shape
  <2>2. events[delivered'].kind = "end" => events[delivered'].prompt \in Prompt
    BY <2>1 DEF Event, PromptEvent, StateEvent
  <2>3. completed' \subseteq Prompt /\ readyFor' \subseteq Client
    BY <1>1, <2>2 DEF Dispatch, Kinds
  <2>4. UNCHANGED <<queueVars, currentPrompt, deviceVars, workerVars, voiceVars, exitVars,
                    paused, history>>
    BY <1>1 DEF Dispatch, clientVars
  <2> QED
    BY <2>3, <2>4 DEF Kinds, queueVars, deviceVars, workerVars, voiceVars, exitVars, history
<1>q. Queued \subseteq Prompt /\ Speaking \subseteq Prompt
  BY DEF Queued, Speaking, Shape, InHand, Taken
<1>2. ASSUME NEW c \in Client, NEW p \in Prompt,
             SpeakAsync(c, p) \/ SpeakTest(c, p) \/ CancelQueued(c, p)
      PROVE  Kinds'
  BY <1>2 DEF SpeakAsync, SpeakTest, CancelQueued, Enqueue, WakesWorker, Kinds, queueVars,
    deviceVars, workerVars, voiceVars, exitVars, clientVars, dispatchVars, history
<1>3. ASSUME NEW c \in Client, NEW p \in Prompt, CancelThrows(c, p) \/ CancelCurrent(c, p)
      PROVE  Kinds'
  BY <1>3 DEF CancelThrows, CancelCurrent, Kinds, queueVars, deviceVars, workerVars, voiceVars,
    exitVars, dispatchVars, history
<1>4. ASSUME NEW c \in Client, PauseDevice(c) \/ ResumeDevice(c) \/ SetOutput(c) PROVE Kinds'
  BY <1>4 DEF PauseDevice, ResumeDevice, SetOutput, TakesPause, Kinds, queueVars, deviceVars,
    workerVars, voiceVars, exitVars, dispatchVars, history
<1>5. ASSUME NEW c \in Client, AbortCurrent(c) PROVE Kinds'
  BY <1>5, <1>q DEF AbortCurrent, AbortsDevice, Kinds, workerVars, voiceVars, exitVars,
    dispatchVars
<1>6. ASSUME NEW c \in Client, GetVoice(c) \/ Dispose(c) PROVE Kinds'
  <2>1. CASE GetVoice(c)
    BY <2>1 DEF GetVoice, Enqueue, WakesWorker, Kinds, deviceVars, workerVars, exitVars,
      dispatchVars, history
  <2>2. CASE Dispose(c)
    BY <2>2 DEF Dispose, Kinds, queueVars, deviceVars, workerVars, voiceVars, dispatchVars,
      history
  <2> QED
    BY <1>6, <2>1, <2>2
<1>7. ASSUME NEW c \in Client, SpeakQueue(c) \/ SpeakRefused(c) \/ SpeakReturn(c) PROVE Kinds'
  BY <1>7 DEF SpeakQueue, SpeakRefused, SpeakReturn, Enqueue, WakesWorker, Kinds, queueVars,
    deviceVars, workerVars, voiceVars, exitVars, dispatchVars, history
<1>8. ASSUME NEW c \in Client, PauseState(c) \/ ResumeState(c) PROVE Kinds'
  BY <1>8 DEF PauseState, ResumeState, Kinds, queueVars, deviceVars, workerVars, voiceVars,
    exitVars, dispatchVars, history
<1>9. ASSUME NEW c \in Client, AbortQueued(c) \/ CancelReturn(c) PROVE Kinds'
  BY <1>9, <1>q DEF AbortQueued, CancelReturn, Kinds, deviceVars, workerVars, voiceVars,
    exitVars, dispatchVars
<1>10. ASSUME NEW c \in Client,
              Swap(c) \/ GotVoice(c) \/ ResumeFlag(c) \/ Settle(c) \/ Join(c)
       PROVE  Kinds'
  BY <1>10 DEF Swap, GotVoice, ResumeFlag, Settle, Join, Kinds, queueVars, deviceVars,
    workerVars, voiceVars, exitVars, dispatchVars, history
<1> QED
  BY <1>1, <1>2, <1>3, <1>4, <1>5, <1>6, <1>7, <1>8, <1>9, <1>10 DEF ClientStep, ReturnStep

-----------------------------------------------------------------------------
(* Which device there is, and who keeps it locked.  A change of the output  *)
(* is counted as a call before it happens, and only one can be under way.   *)
DeviceInv ==
  /\ calls \in 0..MaxCalls /\ device \in 1..(calls + 1)
  /\ \A c \in Client : at[c] = "swapping" => device <= calls
  /\ locked \in [Client -> 0..device]
  /\ \A c \in Client : locked[c] # 0 <=> at[c] \in {"pausing", "clearing", "resuming"}

(* A change of the output is counted; the lock goes with the place.         *)
LEMMA DeviceStep == Shape /\ LockKept /\ DeviceInv /\ [Next]_vars => DeviceInv'
<1> SUFFICES ASSUME Shape, LockKept, DeviceInv, [Next]_vars PROVE DeviceInv'
  OBVIOUS
<1> USE MaxCallsIsNat
<1>t. at \in [Client -> Places]
  BY DEF Shape
<1>1. CASE UNCHANGED <<calls, device, at, locked>>
  BY <1>1 DEF DeviceInv
(* A client goes on that changes neither the device nor its lock. *)
<1>2. ASSUME UNCHANGED <<device, locked>>, NEW c \in Client, NEW place \in Places,
             Goes(c, place), calls' = calls \/ calls' = calls + 1, calls' \in 0..MaxCalls,
             place = "swapping" => calls' = calls + 1,
             at[c] \notin {"pausing", "clearing", "resuming"},
             place \notin {"pausing", "clearing", "resuming"}
      PROVE  DeviceInv'
  <2>1. at'[c] = place /\ \A d \in Client : d # c => at'[d] = at[d]
    BY <1>2, <1>t DEF Goes
  <2>2. calls \in Nat /\ calls' \in 0..MaxCalls /\ device' \in 1..(calls' + 1)
    <3>1. /\ calls \in Nat /\ device \in Nat /\ 1 <= device /\ device <= calls + 1
          /\ device' = device /\ calls' \in 0..MaxCalls
      BY <1>2 DEF DeviceInv
    <3>2. CASE calls' = calls
      BY <3>1, <3>2
    <3>3. CASE calls' = calls + 1
      BY <3>1, <3>3
    <3> QED
      BY <1>2, <3>2, <3>3
  <2>3. \A d \in Client : at'[d] = "swapping" => device' <= calls'
    BY <1>2, <2>1, <2>2 DEF DeviceInv
  <2>4. \A d \in Client : locked'[d] # 0 <=> at'[d] \in {"pausing", "clearing", "resuming"}
    BY <1>2, <2>1 DEF DeviceInv
  <2> QED
    BY <1>2, <2>2, <2>3, <2>4 DEF DeviceInv
(* A client takes or leaves the lock of the device. *)
<1>3. ASSUME UNCHANGED device, NEW c \in Client, NEW place \in Places \ {"swapping"},
             Goes(c, place), calls' = calls \/ calls' = calls + 1, calls' \in 0..MaxCalls,
             NEW l \in {0, device}, locked' = [locked EXCEPT ![c] = l],
             l # 0 <=> place \in {"pausing", "clearing", "resuming"}
      PROVE  DeviceInv'
  <2>1. at'[c] = place /\ \A d \in Client : d # c => at'[d] = at[d]
    BY <1>3, <1>t DEF Goes
  <2>2. /\ locked' \in [Client -> 0..device] /\ locked'[c] = l
        /\ \A d \in Client : d # c => locked'[d] = locked[d]
    BY <1>3 DEF DeviceInv
  <2>3. calls \in Nat /\ calls' \in 0..MaxCalls /\ device' \in 1..(calls' + 1)
    <3>1. /\ calls \in Nat /\ device \in Nat /\ 1 <= device /\ device <= calls + 1
          /\ device' = device /\ calls' \in 0..MaxCalls
      BY <1>3 DEF DeviceInv
    <3>2. CASE calls' = calls
      BY <3>1, <3>2
    <3>3. CASE calls' = calls + 1
      BY <3>1, <3>3
    <3> QED
      BY <1>3, <3>2, <3>3
  <2>4. \A d \in Client : at'[d] = "swapping" => device' <= calls'
    BY <1>3, <2>1, <2>3 DEF DeviceInv
  <2>5. \A d \in Client : locked'[d] # 0 <=> at'[d] \in {"pausing", "clearing", "resuming"}
    BY <1>3, <2>1, <2>2 DEF DeviceInv
  <2> QED
    BY <1>3, <2>2, <2>3, <2>4, <2>5 DEF DeviceInv
<1>c. ASSUME NEW c \in Client, NEW name, Call(c, name)
      PROVE  at[c] = "idle" /\ calls' = calls + 1 /\ calls' \in 0..MaxCalls
  BY <1>c DEF Call, DeviceInv
<1>4. CASE WorkerStep \/ Dispatch \/ UNCHANGED vars
  <2>1. UNCHANGED <<calls, device, at, locked>>
    BY <1>4 DEF WorkerStep, Dispatch, vars, TakePrompt, TakeVoice, TakeNothing, MakeVoice,
      StartStream, LookUp, Throw, BeginSegment, Played, CloseSegment, AllSegments, Finish,
      Reset, CheckExit, deviceVars, clientVars
  <2> QED
    BY <2>1, <1>1
<1>5. ASSUME NEW c \in Client, NEW p \in Prompt,
             \/ SpeakAsync(c, p) \/ SpeakTest(c, p) \/ CancelQueued(c, p)
             \/ CancelThrows(c, p) \/ CancelCurrent(c, p)
      PROVE  DeviceInv'
  <2>1. CASE SpeakAsync(c, p)
    BY <2>1, <1>1 DEF SpeakAsync, deviceVars, clientVars
  <2>2. CASE CancelQueued(c, p)
    BY <2>2, <1>c DEF CancelQueued, deviceVars, DeviceInv
  <2>3. CASE SpeakTest(c, p)
    <3>1. calls' = calls /\ calls \in 0..MaxCalls
      BY <2>3 DEF SpeakTest, DeviceInv
    <3> QED
      BY <2>3, <3>1, <1>2 DEF SpeakTest, Places, deviceVars
  <2>4. CASE CancelThrows(c, p) \/ CancelCurrent(c, p)
    BY <2>4, <1>c, <1>2 DEF CancelThrows, CancelCurrent, Places, deviceVars
  <2> QED
    BY <1>5, <2>1, <2>2, <2>3, <2>4
<1>6. ASSUME NEW c \in Client, PauseDevice(c) \/ ResumeDevice(c) PROVE DeviceInv'
  <2>1. device # 0
    BY DEF DeviceInv
  <2> QED
    BY <1>6, <2>1, <1>c, <1>3 DEF PauseDevice, ResumeDevice, Places
<1>7. ASSUME NEW c \in Client, SetOutput(c) \/ GetVoice(c) \/ Dispose(c) PROVE DeviceInv'
  BY <1>7, <1>c, <1>2 DEF SetOutput, GetVoice, Dispose, Places, deviceVars
<1>8. ASSUME NEW c \in Client, AbortCurrent(c) PROVE DeviceInv'
  <2>1. /\ calls' = calls \/ calls' = calls + 1
        /\ calls' \in 0..MaxCalls
        /\ at[c] \in {"idle", "disposing"}
    BY <1>8, <1>c DEF AbortCurrent, DeviceInv
  <2> QED
    BY <1>8, <2>1, <1>2 DEF AbortCurrent, Places
<1>9. ASSUME NEW c \in Client, PauseState(c) \/ ResumeState(c) PROVE DeviceInv'
  <2>1. calls' = calls /\ calls \in 0..MaxCalls
    BY <1>9 DEF PauseState, ResumeState, DeviceInv
  <2> QED
    BY <1>9, <2>1, <1>3 DEF PauseState, ResumeState, Places, deviceVars
<1>10. ASSUME NEW c \in Client, Swap(c) PROVE DeviceInv'
  <2>1. at[c] = "swapping" /\ \A d \in Client : at[d] = "swapping" => d = c
    BY <1>10 DEF Swap, LockKept
  <2>2. /\ device' = device + 1 /\ UNCHANGED <<calls, locked>>
        /\ at'[c] = "idle" /\ \A d \in Client : d # c => at'[d] = at[d]
    BY <1>10, <1>t DEF Swap, Goes
  <2>3. device <= calls /\ device \in Nat /\ calls \in Nat
    BY <2>1 DEF DeviceInv
  <2>4. device' \in 1..(calls' + 1) /\ locked' \in [Client -> 0..device']
    BY <2>2, <2>3 DEF DeviceInv
  <2> QED
    BY <2>1, <2>2, <2>4 DEF DeviceInv
<1>11. ASSUME NEW c \in Client,
              \/ SpeakQueue(c) \/ SpeakRefused(c) \/ AbortQueued(c) \/ CancelReturn(c)
              \/ GotVoice(c) \/ Settle(c) \/ Join(c)
       PROVE  DeviceInv'
  <2>1. calls' = calls /\ calls \in 0..MaxCalls
    BY <1>11 DEF SpeakQueue, SpeakRefused, AbortQueued, CancelReturn, GotVoice, Settle, Join,
      DeviceInv
  <2>2. /\ UNCHANGED <<device, locked>> /\ at[c] \notin {"pausing", "clearing", "resuming"}
        /\ \E place \in Places \ {"pausing", "clearing", "resuming", "swapping"} : Goes(c, place)
    BY <1>11 DEF SpeakQueue, SpeakRefused, AbortQueued, CancelReturn, GotVoice, Settle, Join,
      Places, deviceVars
  <2> QED
    BY <2>1, <2>2, <1>2
<1>12. ASSUME NEW c \in Client, SpeakReturn(c) PROVE DeviceInv'
  <2>1. calls' = calls /\ calls \in 0..MaxCalls
    BY <1>12 DEF SpeakReturn, DeviceInv
  <2> QED
    BY <1>12, <2>1, <1>1, <1>2 DEF SpeakReturn, Places, deviceVars
<1>13. ASSUME NEW c \in Client, ResumeFlag(c) PROVE DeviceInv'
  <2>1. UNCHANGED <<calls, device, locked>> /\ at[c] = "clearing" /\ at'[c] = "resuming"
        /\ \A d \in Client : d # c => at'[d] = at[d]
    BY <1>13, <1>t DEF ResumeFlag, Goes
  <2> QED
    BY <2>1 DEF DeviceInv
<1>14. ASSUME NEW c \in Client, ClientStep(c) PROVE DeviceInv'
  BY <1>14, <1>5, <1>6, <1>7, <1>8 DEF ClientStep
<1>15. ASSUME NEW c \in Client, ReturnStep(c) PROVE DeviceInv'
  BY <1>15, <1>9, <1>10, <1>11, <1>12, <1>13 DEF ReturnStep
<1> QED
  BY <1>4, <1>14, <1>15 DEF Next

(* The prompts that were queued: a new one is fresh. *)
LEMMA AcceptedStep ==
  ASSUME Shape, accepted \in Seq(Prompt), [Next]_vars
  PROVE  /\ accepted' \in Seq(Prompt)
         /\ \/ UNCHANGED accepted /\ queue' = queue
            \/ UNCHANGED accepted /\ (TakePrompt \/ TakeVoice)
            \/ UNCHANGED accepted /\ \E c \in Client : GetVoice(c) /\ Enqueue("voice")
            \/ \E c \in Client, p \in Prompt :
                 /\ SpeakAsync(c, p) \/ (SpeakQueue(c) /\ p = arg[c])
                 /\ accepted' = Append(accepted, p) /\ queue' = Append(queue, p)
<1>1. ASSUME UNCHANGED accepted PROVE accepted' \in Seq(Prompt)
  BY <1>1
<1>2. ASSUME NEW p \in Prompt, accepted' = Append(accepted, p) PROVE accepted' \in Seq(Prompt)
  BY <1>2, AppendProperties
<1>3. CASE TakePrompt \/ TakeVoice
  BY <1>1, <1>3 DEF TakePrompt, TakeVoice, history
<1>4. CASE \/ TakeNothing \/ MakeVoice \/ StartStream \/ LookUp \/ Throw \/ BeginSegment
           \/ Played \/ CloseSegment \/ AllSegments \/ Finish \/ Reset \/ CheckExit
           \/ Dispatch \/ UNCHANGED vars
  <2>1. UNCHANGED <<queue, accepted>>
    BY <1>4 DEF Dispatch, vars, TakeNothing, MakeVoice, StartStream, LookUp, Throw,
      BeginSegment, Played, CloseSegment, AllSegments, Finish, Reset, CheckExit, queueVars,
      history
  <2> QED
    BY <2>1, <1>1
<1>5. ASSUME NEW c \in Client, ClientStep(c) \/ ReturnStep(c),
             \A p \in Prompt : ~SpeakAsync(c, p), ~SpeakQueue(c), ~GetVoice(c)
      PROVE  UNCHANGED <<queue, accepted>>
  BY <1>5 DEF ClientStep, ReturnStep, SpeakTest, CancelQueued, CancelThrows, CancelCurrent,
    PauseDevice, ResumeDevice, AbortCurrent, SetOutput, Dispose, SpeakRefused, SpeakReturn,
    PauseState, ResumeState, AbortQueued, CancelReturn, Swap, GotVoice, ResumeFlag, Settle,
    Join, queueVars, history
<1>6. ASSUME NEW c \in Client, GetVoice(c) PROVE UNCHANGED accepted /\ Enqueue("voice")
  BY <1>6 DEF GetVoice, history
<1>7. ASSUME NEW c \in Client, NEW p \in Prompt, SpeakAsync(c, p)
      PROVE  accepted' = Append(accepted, p) /\ queue' = Append(queue, p)
  BY <1>7 DEF SpeakAsync, Enqueue
<1>8. ASSUME NEW c \in Client, SpeakQueue(c)
      PROVE  /\ arg[c] \in Prompt /\ accepted' = Append(accepted, arg[c])
             /\ queue' = Append(queue, arg[c])
  BY <1>8 DEF SpeakQueue, Enqueue, Shape
<1>9. ASSUME NEW c \in Client, ClientStep(c) \/ ReturnStep(c)
      PROVE  \/ UNCHANGED <<queue, accepted>>
             \/ UNCHANGED accepted /\ GetVoice(c) /\ Enqueue("voice")
             \/ \E p \in Prompt :
                 /\ SpeakAsync(c, p) \/ (SpeakQueue(c) /\ p = arg[c])
                 /\ accepted' = Append(accepted, p) /\ queue' = Append(queue, p)
  BY <1>5, <1>6, <1>7, <1>8, <1>9
<1> QED
  BY <1>1, <1>2, <1>3, <1>4, <1>9 DEF Next, WorkerStep

-----------------------------------------------------------------------------
(* What the other invariants rest on.                                       *)
Base == Blame /\ Flags /\ Kinds /\ DeviceInv /\ accepted \in Seq(Prompt)

(* At first.                                                                *)
LEMMA BaseInit == Init => Base
<1> SUFFICES ASSUME Init PROVE Base
  OBVIOUS
<1>1. Flags /\ Kinds
  <2>1. /\ worker = "wait" /\ segment = 1 /\ spoken = None /\ currentPrompt = None
        /\ queueOwner = None /\ voiceOwner = None /\ disposer = None
        /\ completed = {} /\ readyFor = {} /\ asked = {} /\ purged = {}
    BY DEF Init
  <2>2. segment \in 1..3 /\ worker \in Steps /\ worker \notin {"play", "close"}
    BY <2>1 DEF Steps
  <2>3. Flags
    BY DEF Init, Flags
  <2> QED
    BY <2>1, <2>2, <2>3 DEF Kinds
<1>2. DeviceInv
  BY MaxCallsIsNat DEF Init, DeviceInv
<1>3. accepted \in Seq(Prompt)
  BY DEF Init
<1> QED
  BY <1>1, <1>2, <1>3, BlameInit DEF Base

(* Every step keeps them.                                                   *)
LEMMA BaseStep == Base /\ [Next]_vars => Base'
<1> SUFFICES ASSUME Base, [Next]_vars PROVE Base'
  OBVIOUS
<1>1. Shape /\ InHand /\ LockKept /\ Flags /\ Kinds /\ DeviceInv
  BY DEF Base, Blame
<1>2. Kinds'
  <2>1. CASE UNCHANGED vars
    BY <1>1, <2>1 DEF Kinds, vars, queueVars, deviceVars, workerVars, voiceVars, exitVars,
      clientVars, dispatchVars, history
  <2> QED
    BY <1>1, <2>1, KindsWorker, KindsOthers DEF Next
<1> QED
  BY <1>1, <1>2, BlameStep, FlagsStep, DeviceStep, AcceptedStep DEF Base

(* So they always hold.                                                     *)
LEMMA BaseAlways == Spec => []Base
BY BaseInit, BaseStep, PTL DEF Spec

(***************************************************************************)
(* Type correctness, for any clients, prompts and bounds: in particular no *)
(* output is changed without a call, and a prompt ends by one of its       *)
(* segments.                                                               *)
(***************************************************************************)
THEOREM TypeCorrect == Spec => []TypeOK
<1>1. Base => TypeOK
  <2> SUFFICES ASSUME Base PROVE TypeOK
    OBVIOUS
  <2>1. Shape /\ InHand /\ Flags /\ Kinds /\ DeviceInv /\ accepted \in Seq(Prompt)
    BY DEF Base, Blame
  <2>2. device \in 1..(MaxCalls + 1) /\ locked \in [Client -> 0..(MaxCalls + 1)]
        /\ calls \in 0..MaxCalls
    <3>1. device \in Nat /\ calls \in Nat /\ device <= MaxCalls + 1
      BY <2>1, MaxCallsIsNat DEF DeviceInv
    <3>2. 0..device \subseteq 0..(MaxCalls + 1)
      BY <3>1, MaxCallsIsNat
    <3> QED
      BY <2>1, <3>1, <3>2, MaxCallsIsNat DEF DeviceInv
  <2>3. delivered \in 0..Len(events)
    BY <2>1, LenProperties DEF Shape
  <2> QED
    BY <2>1, <2>2, <2>3 DEF TypeOK, Shape, InHand, Flags, Kinds, Exceptions, States, Places,
      Steps
<1> QED
  BY <1>1, BaseAlways, PTL

-----------------------------------------------------------------------------
(* Without voice requests there are only prompts in the queue, and when the *)
(* worker has none and none is queued, nothing says that one is spoken.     *)
OnlyPrompts == queue \in Seq(Prompt)
QuietInv == worker \notin Taken /\ queue = <<>> => state # "Speaking" /\ currentPrompt = None

(* Only a voice request queues anything but a prompt.                       *)
LEMMA OnlyPromptsStep ==
  ASSUME Base, OnlyPrompts, [Next]_vars, "voice" \notin Calls
  PROVE  OnlyPrompts'
<1>1. Shape /\ accepted \in Seq(Prompt)
  BY DEF Base, Blame
<1>2. CASE queue' = queue
  BY <1>2 DEF OnlyPrompts
<1>3. CASE TakePrompt \/ TakeVoice
  <2>1. queue # <<>> /\ queue' = Tail(queue)
    BY <1>3 DEF TakePrompt, TakeVoice
  <2> QED
    BY <2>1, HeadTailProperties DEF OnlyPrompts
<1>4. CASE \E p \in Prompt : queue' = Append(queue, p)
  BY <1>4, AppendProperties DEF OnlyPrompts
<1>5. ASSUME NEW c \in Client PROVE ~GetVoice(c)
  BY DEF GetVoice, Call
<1> QED
  BY <1>1, <1>2, <1>3, <1>4, <1>5, AcceptedStep

(* Finish and Resume look at the queue under its lock.                      *)
LEMMA QuietStep ==
  ASSUME Base, OnlyPrompts, QuietInv, [Next]_vars, "voice" \notin Calls
  PROVE  QuietInv'
<1>1. /\ queue \in Seq(Prompt) /\ worker \in Steps
  BY DEF OnlyPrompts, Base, Kinds
<1>2. ASSUME UNCHANGED <<queue, state, currentPrompt>>, worker' \in Taken \/ worker' = worker
             \/ worker \notin Taken
      PROVE  QuietInv'
  BY <1>2 DEF QuietInv
<1>3. ASSUME NEW p \in Prompt \cup {"voice"}, Enqueue(p) PROVE QuietInv'
  <2>1. queue \in Seq(Prompt \cup {"voice"}) /\ queue' = Append(queue, p)
    BY <1>3 DEF Enqueue, Base, Blame, Shape
  <2>2. queue' # <<>>
    BY <2>1, AppendProperties
  <2> QED
    BY <2>2 DEF QuietInv
<1>4. ~TakeVoice
  <2>1. queue # <<>> => Head(queue) \in Prompt
    BY <1>1, HeadTailProperties
  <2> QED
    BY <2>1, VoiceIsNoPrompt DEF TakeVoice
<1>5. CASE WorkerStep
  <2>1. CASE TakePrompt \/ CloseSegment \/ StartStream \/ LookUp \/ Throw \/ BeginSegment
             \/ Played \/ AllSegments
    BY <2>1 DEF TakePrompt, CloseSegment, StartStream, LookUp, Throw, BeginSegment, Played,
      AllSegments, QuietInv, Taken
  <2>2. CASE TakeNothing \/ MakeVoice \/ Reset
    BY <2>2 DEF TakeNothing, MakeVoice, Reset, QuietInv, Taken, queueVars
  <2>3. CASE Finish
    BY <2>3 DEF Finish, NothingLeft, QuietInv, queueVars
  <2>4. CASE CheckExit
    BY <2>4 DEF CheckExit, QuietInv, Taken, queueVars
  <2> QED
    BY <1>4, <1>5, <2>1, <2>2, <2>3, <2>4 DEF WorkerStep
<1>6. ASSUME NEW c \in Client, PauseState(c) \/ ResumeState(c) PROVE QuietInv'
  BY <1>6 DEF PauseState, ResumeState, Busy, QuietInv, queueVars, workerVars
<1>7. CASE Dispatch \/ UNCHANGED vars
  BY <1>2, <1>7 DEF Dispatch, vars, queueVars, workerVars
<1>8. ASSUME NEW c \in Client, ClientStep(c) PROVE QuietInv'
  <2>1. ASSUME NEW p \in Prompt, SpeakAsync(c, p) PROVE QuietInv'
    BY <1>3, <2>1 DEF SpeakAsync
  <2>2. CASE GetVoice(c)
    BY <1>3, <2>2 DEF GetVoice
  <2>3. CASE \/ \E p \in Prompt : \/ SpeakTest(c, p) \/ CancelQueued(c, p)
                                  \/ CancelThrows(c, p) \/ CancelCurrent(c, p)
             \/ PauseDevice(c) \/ ResumeDevice(c) \/ AbortCurrent(c) \/ SetOutput(c)
             \/ Dispose(c)
    BY <1>2, <2>3 DEF SpeakTest, CancelQueued, CancelThrows, CancelCurrent, PauseDevice,
      ResumeDevice, AbortCurrent, SetOutput, Dispose, queueVars, workerVars
  <2> QED
    BY <1>8, <2>1, <2>2, <2>3 DEF ClientStep
<1>9. ASSUME NEW c \in Client, ReturnStep(c) PROVE QuietInv'
  <2>1. CASE SpeakQueue(c)
    <3>1. arg[c] \in Prompt
      BY <2>1 DEF SpeakQueue, Base, Blame, Shape
    <3> QED
      BY <1>3, <2>1, <3>1 DEF SpeakQueue
  <2>2. CASE \/ SpeakRefused(c) \/ SpeakReturn(c) \/ AbortQueued(c) \/ CancelReturn(c)
             \/ Swap(c) \/ GotVoice(c) \/ ResumeFlag(c) \/ Settle(c) \/ Join(c)
    BY <1>2, <2>2 DEF SpeakRefused, SpeakReturn, AbortQueued, CancelReturn, Swap, GotVoice,
      ResumeFlag, Settle, Join, queueVars, workerVars
  <2> QED
    BY <1>6, <1>9, <2>1, <2>2 DEF ReturnStep
<1> QED
  BY <1>5, <1>7, <1>8, <1>9 DEF Next

(***************************************************************************)
(* A worker asleep is never Speaking, nor has a current prompt: the test   *)
(* for more prompts (line 1039) and the one of Resume agree with the       *)
(* queue, whatever is paused, cancelled or failed.  A voice request, which *)
(* counts as a prompt there, breaks it, hence the hypothesis.              *)
(***************************************************************************)
THEOREM IdleNeverSpeaks ==
  ASSUME "voice" \notin Calls
  PROVE  Spec => []IdleIsNotSpeaking
<1>1. Init => OnlyPrompts /\ QuietInv
  BY DEF Init, OnlyPrompts, QuietInv
<1>2. Base /\ OnlyPrompts /\ QuietInv /\ [Next]_vars => OnlyPrompts' /\ QuietInv'
  BY OnlyPromptsStep, QuietStep
<1>3. Base /\ QuietInv /\ EventSet => IdleIsNotSpeaking
  BY DEF QuietInv, EventSet, IdleIsNotSpeaking, Taken
<1>4. Init => EventSet
  BY DEF Init, EventSet
<1> QED
  BY <1>1, <1>2, <1>3, <1>4, BaseAlways, EventSetStep, PTL DEF Spec

-----------------------------------------------------------------------------
(* Up to the end of its first segment the prompt in hand is the current     *)
(* one; while there is a current one the state is not Ready; and it stays   *)
(* Ready while the output is being changed.                                 *)
CurrentInv ==
  /\ worker \in {"start", "look"} => currentPrompt = spoken
  /\ worker \in {"segment", "play", "close"} /\ segment = 1 => currentPrompt = spoken
  /\ worker # "exited" /\ currentPrompt # None => state # "Ready"
  /\ \A c \in Client : at[c] = "swapping" => state = "Ready"

(* Every step keeps it: a prompt is taken, and the output changed, under the *)
(* lock of the queue.                                                       *)
LEMMA CurrentStep == Base /\ CurrentInv /\ [Next]_vars => CurrentInv'
<1> SUFFICES ASSUME Base, CurrentInv, [Next]_vars PROVE CurrentInv'
  OBVIOUS
<1>t. /\ at \in [Client -> Places] /\ state \in States /\ segment \in 1..3
      /\ Shape /\ InHand /\ LockKept
  BY DEF Base, Blame, Shape, Kinds
<1>1. ASSUME QueueFree PROVE \A c \in Client : at[c] # "swapping"
  BY <1>t, <1>1, NoneIsNobody DEF QueueFree, LockKept
<1>2. CASE WorkerStep
  <2>0. at' = at
    BY <1>2 DEF WorkerStep, TakePrompt, TakeVoice, TakeNothing, MakeVoice, StartStream,
      LookUp, Throw, BeginSegment, Played, CloseSegment, AllSegments, Finish, Reset, CheckExit,
      clientVars
  <2>1. CASE TakePrompt
    <3>1. Head(queue) \in Prompt /\ Head(queue) # None
      BY <1>t, <2>1, EmptySeq, HeadTailProperties, NoneIsNobody DEF Shape, TakePrompt
    <3>2. state' # "Ready"
      BY <2>1, <1>t DEF TakePrompt, CurrentInv, States
    <3> QED
      BY <1>1, <2>0, <2>1, <3>1, <3>2 DEF TakePrompt, PromptOf, CurrentInv
  <2>2. CASE TakeVoice \/ TakeNothing \/ MakeVoice
    BY <2>0, <2>2 DEF TakeVoice, TakeNothing, MakeVoice, PromptOf, CurrentInv
  <2>3. CASE StartStream \/ LookUp \/ Throw
    BY <2>0, <2>3 DEF StartStream, LookUp, Throw, CurrentInv
  <2>4. CASE BeginSegment \/ Played
    BY <2>0, <2>4 DEF BeginSegment, Played, CurrentInv
  <2>5. CASE CloseSegment
    <3>1. segment' # 1 /\ currentPrompt' = None /\ worker' \in {"segment", "finish"}
          /\ UNCHANGED <<state, spoken>>
      BY <1>t, <2>5 DEF CloseSegment
    <3> QED
      BY <2>0, <3>1 DEF CurrentInv
  <2>6. CASE AllSegments \/ Reset
    BY <2>0, <2>6 DEF AllSegments, Reset, CurrentInv
  <2>7. CASE Finish
    BY <1>1, <2>0, <2>7 DEF Finish, NothingLeft, CurrentInv
  <2>8. CASE CheckExit
    BY <2>0, <2>8 DEF CheckExit, CurrentInv
  <2> QED
    BY <1>2, <2>1, <2>2, <2>3, <2>4, <2>5, <2>6, <2>7, <2>8 DEF WorkerStep
<1>3. CASE Dispatch \/ UNCHANGED vars
  BY <1>3 DEF Dispatch, vars, workerVars, clientVars, CurrentInv
<1>4. ASSUME NEW c \in Client, PauseState(c) \/ ResumeState(c) PROVE CurrentInv'
  <2>1. /\ UNCHANGED <<worker, spoken, segment, currentPrompt>>
        /\ \A d \in Client : d # c => at'[d] = at[d]
        /\ at'[c] = "idle" /\ \A d \in Client : at[d] # "swapping"
    BY <1>1, <1>t, <1>4 DEF PauseState, ResumeState, Goes, workerVars
  <2>2. currentPrompt # None => state' # "Ready"
    BY <1>4 DEF PauseState, ResumeState, Busy
  <2> QED
    BY <2>1, <2>2 DEF CurrentInv
(* The other steps of a client leave the worker, the prompt and the state;  *)
(* only SetOutput starts to change the output.                              *)
<1>5. ASSUME UNCHANGED <<workerVars, currentPrompt, state>>, NEW c \in Client,
             NEW place \in Places, Goes(c, place), place = "swapping" => state = "Ready"
      PROVE  CurrentInv'
  BY <1>5, <1>t DEF CurrentInv, Goes, workerVars
<1>6. ASSUME UNCHANGED <<workerVars, currentPrompt, state, at>> PROVE CurrentInv'
  BY <1>6 DEF CurrentInv, workerVars
<1>7. ASSUME NEW c \in Client, ClientStep(c) PROVE CurrentInv'
  <2>1. UNCHANGED <<workerVars, currentPrompt, state>>
    BY <1>7 DEF ClientStep, SpeakAsync, SpeakTest, CancelQueued, CancelThrows, CancelCurrent,
      PauseDevice, ResumeDevice, AbortCurrent, SetOutput, GetVoice, Dispose
  <2>2. \/ UNCHANGED at
        \/ \E place \in Places : Goes(c, place) /\ (place = "swapping" => state = "Ready")
    BY <1>7 DEF ClientStep, SpeakAsync, SpeakTest, CancelQueued, CancelThrows, CancelCurrent,
      PauseDevice, ResumeDevice, AbortCurrent, SetOutput, OutputAllowed, GetVoice, Dispose,
      clientVars, Places
  <2> QED
    BY <1>5, <1>6, <2>1, <2>2
<1>8. ASSUME NEW c \in Client, ReturnStep(c) PROVE CurrentInv'
  <2>1. CASE \/ SpeakQueue(c) \/ SpeakRefused(c) \/ SpeakReturn(c) \/ AbortQueued(c)
             \/ CancelReturn(c) \/ Swap(c) \/ GotVoice(c) \/ ResumeFlag(c) \/ Settle(c) \/ Join(c)
    <3>1. UNCHANGED <<workerVars, currentPrompt, state>>
      BY <2>1 DEF SpeakQueue, SpeakRefused, SpeakReturn, AbortQueued, CancelReturn, Swap,
        GotVoice, ResumeFlag, Settle, Join
    <3>2. \/ UNCHANGED at
          \/ \E place \in Places \ {"swapping"} : Goes(c, place)
      BY <2>1 DEF SpeakQueue, SpeakRefused, SpeakReturn, AbortQueued, CancelReturn, Swap,
        GotVoice, ResumeFlag, Settle, Join, Places
    <3> QED
      BY <1>5, <1>6, <3>1, <3>2
  <2> QED
    BY <1>4, <1>8, <2>1 DEF ReturnStep
<1> QED
  BY <1>2, <1>3, <1>7, <1>8 DEF Next

(* So it always holds.                                                      *)
LEMMA CurrentAlways == Spec => []CurrentInv
<1>1. Init => CurrentInv
  BY DEF Init, CurrentInv
<1> QED
  BY <1>1, CurrentStep, BaseAlways, PTL DEF Spec

(* Which steps change the device. *)
LEMMA DeviceChanges ==
  ASSUME [Next]_vars
  PROVE  device' = device \/ \E c \in Client : Swap(c)
<1>1. CASE WorkerStep \/ Dispatch \/ UNCHANGED vars
  BY <1>1 DEF WorkerStep, Dispatch, vars, TakePrompt, TakeVoice, TakeNothing, MakeVoice,
    StartStream, LookUp, Throw, BeginSegment, Played, CloseSegment, AllSegments, Finish, Reset,
    CheckExit, deviceVars
<1>2. ASSUME NEW c \in Client, ClientStep(c) \/ ReturnStep(c), ~Swap(c) PROVE device' = device
  BY <1>2 DEF ClientStep, ReturnStep, SpeakAsync, SpeakTest, CancelQueued, CancelThrows,
    CancelCurrent, PauseDevice, ResumeDevice, AbortCurrent, SetOutput, GetVoice, Dispose,
    SpeakQueue, SpeakRefused, SpeakReturn, PauseState, ResumeState, AbortQueued, CancelReturn,
    GotVoice, ResumeFlag, Settle, Join, deviceVars
<1> QED
  BY <1>1, <1>2 DEF Next

-----------------------------------------------------------------------------
(* Ready while a prompt is taken: only a Resume announces it then, and it   *)
(* follows a Pause, whose event is among those posted.                      *)
ReadyInv ==
  /\ worker \in Taken /\ state = "Ready" => WasPaused
  /\ state = "Paused" \/ paused => WasPaused
  /\ \A c \in Client : at[c] \in {"clearing", "resuming"} => WasPaused

(* An event once posted stays.                                              *)
LEMMA WasPausedLasts == Base /\ [Next]_vars /\ WasPaused => WasPaused'
<1> SUFFICES ASSUME Base, [Next]_vars, WasPaused PROVE WasPaused'
  OBVIOUS
<1>1. PICK new \in Seq(Event) : events' = events \o new
  BY PostsEvents DEF NewEvents, Base, Blame
<1>2. PICK i \in DOMAIN events : events[i].kind = "state" /\ events[i].state = "Paused"
  BY DEF WasPaused
<1>3. events \in Seq(Event)
  BY DEF Base, Blame, Shape
<1>4. i \in DOMAIN events' /\ events'[i] = events[i]
  <2>1. events \o new \in Seq(Event) /\ Len(events \o new) = Len(events) + Len(new)
        /\ \A j \in 1..Len(events) : (events \o new)[j] = events[j]
    BY <1>1, <1>3, ConcatProperties
  <2> QED
    BY <1>1, <1>2, <1>3, <2>1, LenProperties
<1> QED
  BY <1>2, <1>4 DEF WasPaused

(* A Pause posts its event, or finds the state already Paused.              *)
LEMMA PausePosts ==
  ASSUME Base, [Next]_vars, ReadyInv, NEW c \in Client, PauseState(c)
  PROVE  WasPaused'
<1>1. CASE state = "Paused"
  BY <1>1, WasPausedLasts DEF ReadyInv
<1>2. CASE state # "Paused"
  <2>1. PICK mid \in States : /\ mid # "Paused"
          /\ events' = events \o OnStateChanged(mid, state) \o OnStateChanged("Paused", mid)
    BY <1>2 DEF PauseState, States, Base, Blame, Shape
  <2>2. OnStateChanged("Paused", mid) = <<Changed("Paused", mid)>>
    BY <2>1 DEF OnStateChanged
  <2>3. PICK before \in Seq(Event) : before = events \o OnStateChanged(mid, state)
    <3>1. state \in States /\ Changed(mid, state) \in Event
      BY <2>1 DEF Changed, Event, StateEvent, Base, Blame, Shape
    <3>2. OnStateChanged(mid, state) \in Seq(Event)
      BY <3>1 DEF OnStateChanged
    <3> QED
      BY <3>2, ConcatProperties DEF Base, Blame, Shape
  <2>4. Changed("Paused", mid) \in Event
    BY <2>1 DEF Changed, Event, StateEvent, States
  <2>5. events' = Append(before, Changed("Paused", mid))
    BY <2>1, <2>2, <2>3, <2>4, AppendIsConcat
  <2>6. Len(before) + 1 \in DOMAIN events'
        /\ events'[Len(before) + 1] = Changed("Paused", mid)
    <3>1. Len(before) \in Nat
      BY <2>3, LenProperties
    <3> QED
      BY <2>3, <2>4, <2>5, <3>1, AppendProperties
  <2> QED
    BY <2>6 DEF WasPaused, Changed
<1> QED
  BY <1>1, <1>2

(* Every step keeps it.                                                     *)
LEMMA ReadyStep == Base /\ CurrentInv /\ ReadyInv /\ [Next]_vars => ReadyInv'
<1> SUFFICES ASSUME Base, CurrentInv, ReadyInv, [Next]_vars PROVE ReadyInv'
  OBVIOUS
<1> USE WasPausedLasts
<1>t. at \in [Client -> Places] /\ state \in States
  BY DEF Base, Blame, Shape
<1>1. CASE WasPaused'
  BY <1>1 DEF ReadyInv
<1>2. ASSUME NEW c \in Client, PauseState(c) PROVE ReadyInv'
  BY <1>1, <1>2, PausePosts
<1>3. ASSUME NEW c \in Client, ResumeState(c) \/ ResumeDevice(c) \/ ResumeFlag(c)
      PROVE  ReadyInv'
  <2>1. WasPaused
    BY <1>3 DEF ResumeState, ResumeDevice, ResumeFlag, ReadyInv
  <2> QED
    BY <1>1, <2>1
<1>4. CASE WorkerStep
  <2>1. UNCHANGED <<at, paused>>
    BY <1>4 DEF WorkerStep, TakePrompt, TakeVoice, TakeNothing, MakeVoice, StartStream, LookUp,
      Throw, BeginSegment, Played, CloseSegment, AllSegments, Finish, Reset, CheckExit,
      clientVars
  <2>2. state' = "Paused" => state = "Paused"
    BY <1>4 DEF WorkerStep, TakePrompt, TakeVoice, TakeNothing, MakeVoice, StartStream, LookUp,
      Throw, BeginSegment, Played, CloseSegment, AllSegments, Finish, Reset, CheckExit
  <2>3. CASE TakePrompt
    <3>1. worker # "exited" /\ state' # "Ready"
      BY <1>t, <2>3 DEF TakePrompt, CurrentInv
    <3> QED
      BY <2>1, <2>2, <3>1 DEF ReadyInv
  <2>4. CASE ~TakePrompt
    <3>1. worker' \in Taken => worker \in Taken /\ UNCHANGED state
      BY <1>4, <2>4 DEF Taken, WorkerStep, TakeVoice, TakeNothing, MakeVoice, StartStream,
        LookUp, Throw, BeginSegment, Played, CloseSegment, AllSegments, Finish, Reset,
        CheckExit
    <3> QED
      BY <2>1, <2>2, <3>1 DEF ReadyInv
  <2> QED
    BY <2>3, <2>4
(* The other steps leave the state, and nobody begins a Resume.             *)
<1>5. ASSUME UNCHANGED <<worker, state, paused>>,
             \A d \in Client : at'[d] \in {"clearing", "resuming"} => at'[d] = at[d]
      PROVE  ReadyInv'
  BY <1>5 DEF ReadyInv
<1>6. CASE Dispatch \/ UNCHANGED vars
  BY <1>5, <1>6 DEF Dispatch, vars, workerVars, clientVars
<1>7. ASSUME NEW c \in Client, NEW place \in Places \ {"clearing", "resuming"}, Goes(c, place)
      PROVE  \A d \in Client : at'[d] \in {"clearing", "resuming"} => at'[d] = at[d]
  BY <1>t, <1>7 DEF Goes
<1>8. ASSUME NEW c \in Client, ClientStep(c), ~ResumeDevice(c) PROVE ReadyInv'
  <2>1. UNCHANGED <<worker, state, paused>>
    BY <1>8 DEF ClientStep, SpeakAsync, SpeakTest, CancelQueued, CancelThrows, CancelCurrent,
      PauseDevice, AbortCurrent, SetOutput, GetVoice, Dispose, workerVars, clientVars
  <2>2. UNCHANGED at \/ \E place \in Places \ {"clearing", "resuming"} : Goes(c, place)
    BY <1>8 DEF ClientStep, SpeakAsync, SpeakTest, CancelQueued, CancelThrows, CancelCurrent,
      PauseDevice, AbortCurrent, SetOutput, GetVoice, Dispose, clientVars, Places
  <2> QED
    BY <1>5, <1>7, <2>1, <2>2
<1>9. ASSUME NEW c \in Client, ReturnStep(c),
             ~PauseState(c), ~ResumeState(c), ~ResumeFlag(c)
      PROVE  ReadyInv'
  <2>1. UNCHANGED <<worker, state, paused>>
    BY <1>9 DEF ReturnStep, SpeakQueue, SpeakRefused, SpeakReturn, AbortQueued, CancelReturn,
      Swap, GotVoice, Settle, Join, workerVars
  <2>2. UNCHANGED at \/ \E place \in Places \ {"clearing", "resuming"} : Goes(c, place)
    BY <1>9 DEF ReturnStep, SpeakQueue, SpeakRefused, SpeakReturn, AbortQueued, CancelReturn,
      Swap, GotVoice, Settle, Join, Places
  <2> QED
    BY <1>5, <1>7, <2>1, <2>2
<1> QED
  BY <1>2, <1>3, <1>4, <1>6, <1>8, <1>9 DEF Next

(* So it always holds.                                                      *)
LEMMA ReadyAlways == Spec => []ReadyInv
<1>1. Init => ReadyInv
  BY DEF Init, ReadyInv, Taken
<1> QED
  BY <1>1, ReadyStep, BaseAlways, CurrentAlways, PTL DEF Spec

(***************************************************************************)
(* "Output is not supposed to change while speaking" (line 344): SetOutput *)
(* looks at the state under the lock of the queue and keeps the lock while *)
(* it waits, so that no prompt is taken in between.  For any prompts, of   *)
(* any number of segments, and any calls: a change that meets a prompt     *)
(* taken and not yet over finds no current prompt, and follows a pause;    *)
(* so it meets none before the end of a first segment (931), inside a      *)
(* segment, or at all in an application that never pauses.                 *)
(***************************************************************************)
THEOREM OutputStays == Spec => OutputKept
<1>1. Base /\ CurrentInv /\ ReadyInv /\ [Next]_vars
        => [device' # device /\ worker \in Taken => currentPrompt = None /\ WasPaused]_vars
  <2> SUFFICES ASSUME Base, CurrentInv, ReadyInv, [Next]_vars,
                      device' # device, worker \in Taken
               PROVE  currentPrompt = None /\ WasPaused
    OBVIOUS
  <2>1. PICK c \in Client : Swap(c)
    BY DeviceChanges
  <2>2. state = "Ready"
    BY <2>1 DEF Swap, CurrentInv
  <2>3. WasPaused
    BY <2>2 DEF ReadyInv
  <2>4. currentPrompt = None
    BY <2>2 DEF CurrentInv, Taken
  <2> QED
    BY <2>3, <2>4
<1> QED
  BY <1>1, BaseAlways, CurrentAlways, ReadyAlways, PTL DEF Spec, OutputKept

-----------------------------------------------------------------------------
(* The pause: as long as no cancel call was made and the output was not     *)
(* changed, the Paused state means a paused device, the lock of the device  *)
(* keeps a Pause and a Resume apart, and a session whose device is paused   *)
(* has a paused driver, but while a Resume is between its two steps.        *)
AbortAsked == aborted => asked # {}
Untouched == asked = {} /\ device = 1
Resumes(c) == at[c] \in {"clearing", "resuming"}
PauseInv ==
  /\ AbortAsked
  /\ Untouched =>
       /\ state = "Paused" => devPaused \/ \E c \in Client : Resumes(c)
       /\ \A c \in Client : at[c] = "pausing" => devPaused
       /\ \A c, d \in Client : locked[c] # 0 /\ locked[d] # 0 => c = d
       /\ worker = "play" /\ devPaused => halted \/ \E c \in Client : at[c] = "clearing"

(* The device is aborted only in a call that names some prompt.             *)
LEMMA AbortAskedStep == Base /\ AbortAsked /\ [Next]_vars => AbortAsked'
<1> SUFFICES ASSUME Base, AbortAsked, [Next]_vars PROVE AbortAsked'
  OBVIOUS
<1> USE AskedGrows DEF AbortAsked
<1>1. CASE aborted' = aborted \/ aborted' = FALSE
  BY <1>1
<1>2. ASSUME NEW c \in Client, AbortCurrent(c) PROVE AbortAsked'
  BY <1>2 DEF AbortCurrent, AbortsDevice
<1>3. ASSUME NEW c \in Client, NEW p \in Prompt, CancelCurrent(c, p) PROVE AbortAsked'
  BY <1>3 DEF CancelCurrent
<1>4. CASE WorkerStep \/ Dispatch \/ UNCHANGED vars
  BY <1>1, <1>4 DEF WorkerStep, Dispatch, vars, TakePrompt, AbortedAfterTake, TakeVoice,
    TakeNothing, MakeVoice, StartStream, LookUp, Throw, BeginSegment, Played, CloseSegment,
    AllSegments, Finish, Reset, CheckExit, deviceVars
<1>5. ASSUME NEW c \in Client, ClientStep(c) \/ ReturnStep(c) PROVE AbortAsked'
  BY <1>1, <1>2, <1>3, <1>5 DEF ClientStep, ReturnStep, SpeakAsync, SpeakTest, CancelQueued,
    CancelThrows, PauseDevice, ResumeDevice, SetOutput, GetVoice, Dispose, SpeakQueue,
    SpeakRefused, SpeakReturn, PauseState, ResumeState, AbortQueued, CancelReturn, Swap,
    GotVoice, ResumeFlag, Settle, Join, deviceVars
<1> QED
  BY <1>4, <1>5 DEF Next

(* Every step keeps it: both calls hold the lock of the device from its     *)
(* change to that of the state.                                             *)
LEMMA PauseStep == Base /\ PauseInv /\ [Next]_vars => PauseInv'
<1> SUFFICES ASSUME Base, PauseInv, [Next]_vars PROVE PauseInv'
  OBVIOUS
<1>a. AbortAsked'
  BY AbortAskedStep DEF PauseInv
<1>t. /\ at \in [Client -> Places] /\ DeviceInv /\ LockKept
      /\ devPaused \in BOOLEAN /\ halted \in BOOLEAN /\ aborted \in BOOLEAN
      /\ locked \in [Client -> 0..device] /\ device \in Nat /\ 1 <= device
      /\ state \in States
  BY DEF Base, Blame, Shape, Flags, DeviceInv
<1>g. asked' = {} => asked = {}
  BY AskedGrows
(* Most steps leave the device and its lock alone.                          *)
<1>1. ASSUME device' = device, devPaused' = devPaused, UNCHANGED locked,
             state' = "Paused" => state = "Paused",
             worker' = "play" => (worker = "play" /\ UNCHANGED halted) \/ halted' = devPaused,
             \A d \in Client : /\ at'[d] = "pausing" => at[d] = "pausing"
                               /\ at[d] = "clearing" => at'[d] = "clearing"
                               /\ at[d] = "resuming" => at'[d] = "resuming"
      PROVE  PauseInv'
  BY <1>a, <1>g, <1>1 DEF PauseInv, Untouched, Resumes
<1>2. ASSUME NEW c \in Client, NEW place \in Places, Goes(c, place)
      PROVE  at'[c] = place /\ \A d \in Client : d # c => at'[d] = at[d]
  BY <1>t, <1>2 DEF Goes
<1>3. CASE WorkerStep \/ Dispatch \/ UNCHANGED vars
  <2>1. UNCHANGED <<device, devPaused, locked, at>>
    BY <1>3 DEF WorkerStep, Dispatch, vars, TakePrompt, TakeVoice, TakeNothing, MakeVoice,
      StartStream, LookUp, Throw, BeginSegment, Played, CloseSegment, AllSegments, Finish,
      Reset, CheckExit, deviceVars, clientVars
  <2>2. state' = "Paused" => state = "Paused"
    BY <1>3 DEF WorkerStep, Dispatch, vars, TakePrompt, TakeVoice, TakeNothing, MakeVoice,
      StartStream, LookUp, Throw, BeginSegment, Played, CloseSegment, AllSegments, Finish,
      Reset, CheckExit
  <2>3. worker' = "play" => (worker = "play" /\ UNCHANGED halted) \/ halted' = devPaused
    BY <1>3 DEF WorkerStep, Dispatch, vars, TakePrompt, TakeVoice, TakeNothing, MakeVoice,
      StartStream, LookUp, Throw, BeginSegment, Played, CloseSegment, AllSegments, Finish,
      Reset, CheckExit, deviceVars, workerVars
  <2> QED
    BY <1>1, <2>1, <2>2, <2>3
(* At the first device, who takes its lock finds nobody with it.            *)
<1>4. ASSUME NEW c \in Client, PauseDevice(c) \/ ResumeDevice(c), Untouched'
      PROVE  /\ UNCHANGED <<device, asked, state, worker>> /\ Untouched
             /\ locked'[c] = device
             /\ \A d \in Client : locked[d] = 0 /\ (d # c => locked'[d] = 0)
             /\ \A d \in Client : d # c => at'[d] = at[d]
             /\ \A d \in Client : at[d] # "pausing" /\ ~Resumes(d)
  <2>1. /\ UNCHANGED <<device, asked, state, worker>> /\ WaveOutFree
        /\ locked' = [locked EXCEPT ![c] = device]
        /\ Goes(c, "pausing") \/ Goes(c, "clearing")
    BY <1>4 DEF PauseDevice, ResumeDevice, history, workerVars
  <2>2. device = 1 /\ Untouched
    BY <1>4, <2>1 DEF Untouched
  <2>3. \A d \in Client : locked[d] = 0
    BY <1>t, <2>1, <2>2 DEF WaveOutFree
  <2>4. \A d \in Client : at[d] # "pausing" /\ ~Resumes(d)
    BY <1>t, <2>3 DEF DeviceInv, Resumes
  <2> QED
    BY <1>t, <1>2, <2>1, <2>2, <2>3, <2>4 DEF Places
<1>5. ASSUME NEW c \in Client, PauseDevice(c) PROVE PauseInv'
  <2> SUFFICES ASSUME Untouched'
               PROVE  /\ devPaused' = TRUE
                      /\ \A d, e \in Client : locked'[d] # 0 /\ locked'[e] # 0 => d = e
                      /\ worker' = "play" => halted' = TRUE
    BY <1>a DEF PauseInv
  <2>1. ~aborted
    BY <1>4, <1>5 DEF PauseInv, AbortAsked, Untouched
  <2>2. worker = "play" /\ devPaused => halted
    BY <1>4, <1>5 DEF PauseInv, Resumes
  <2> QED
    BY <1>4, <1>5, <1>t, <2>1, <2>2 DEF PauseDevice, TakesPause
<1>6. ASSUME NEW c \in Client, ResumeDevice(c) PROVE PauseInv'
  <2> SUFFICES ASSUME Untouched'
               PROVE  /\ at'[c] = "clearing"
                      /\ \A d \in Client : at'[d] # "pausing"
                      /\ \A d, e \in Client : locked'[d] # 0 /\ locked'[e] # 0 => d = e
    BY <1>a DEF PauseInv, Resumes
  <2>1. at'[c] = "clearing"
    BY <1>2, <1>6 DEF ResumeDevice, Places
  <2> QED
    BY <1>4, <1>6, <2>1
(* The client that clears the flag has the lock: nobody is pausing.         *)
<1>f. ASSUME NEW c \in Client, ResumeFlag(c) PROVE PauseInv'
  <2>1. /\ UNCHANGED <<device, asked, locked, state>>
        /\ at[c] = "clearing" /\ at'[c] = "resuming"
        /\ \A d \in Client : d # c => at'[d] = at[d]
        /\ devPaused' = (devPaused /\ locked[c] # device)
    BY <1>f, <1>2 DEF ResumeFlag, Places, history
  <2> SUFFICES ASSUME Untouched'
               PROVE  /\ devPaused' = FALSE
                      /\ \A d \in Client : at'[d] # "pausing"
                      /\ \A d, e \in Client : locked'[d] # 0 /\ locked'[e] # 0 => d = e
    BY <1>a, <2>1 DEF PauseInv, Resumes
  <2>2. Untouched /\ device = 1 /\ locked[c] # 0
    BY <1>t, <2>1 DEF Untouched, DeviceInv
  <2>3. locked[c] = device
    BY <1>t, <2>2
  <2>4. \A d \in Client : at[d] # "pausing"
    BY <1>t, <2>1, <2>2 DEF PauseInv, DeviceInv
  <2> QED
    BY <2>1, <2>2, <2>3, <2>4 DEF PauseInv
<1>7. ASSUME NEW c \in Client, PauseState(c) \/ ResumeState(c) PROVE PauseInv'
  <2>1. /\ UNCHANGED <<device, devPaused, halted, worker, asked>>
        /\ at'[c] = "idle" /\ \A d \in Client : d # c => at'[d] = at[d]
        /\ locked'[c] = 0 /\ \A d \in Client : d # c => locked'[d] = locked[d]
    BY <1>t, <1>7, <1>2 DEF PauseState, ResumeState, deviceVars, workerVars, history, Places
  <2>2. at[c] # "clearing"
    BY <1>7 DEF PauseState, ResumeState
  <2>3. PauseState(c) => at[c] = "pausing"
    BY DEF PauseState
  <2>4. ResumeState(c) => state' # "Paused"
    BY DEF ResumeState
  <2> QED
    BY <1>7, <1>a, <2>1, <2>2, <2>3, <2>4 DEF PauseInv, Untouched, Resumes
<1>8. ASSUME NEW c \in Client, Swap(c) PROVE PauseInv'
  <2>1. device' # 1
    BY <1>8, <1>t DEF Swap
  <2> QED
    BY <1>a, <2>1 DEF PauseInv, Untouched
<1>9. ASSUME NEW c \in Client, ClientStep(c) PROVE PauseInv'
  <2>1. CASE \/ \E p \in Prompt : \/ SpeakAsync(c, p) \/ SpeakTest(c, p) \/ CancelQueued(c, p)
                                  \/ CancelThrows(c, p) \/ CancelCurrent(c, p)
             \/ AbortCurrent(c) \/ SetOutput(c) \/ GetVoice(c) \/ Dispose(c)
    <3>1. UNCHANGED <<device, devPaused, halted, worker, locked, state>>
      BY <2>1 DEF SpeakAsync, SpeakTest, CancelQueued, CancelThrows, CancelCurrent,
        AbortCurrent, SetOutput, GetVoice, Dispose, deviceVars, workerVars, clientVars
    <3>2. \/ UNCHANGED at
          \/ /\ at[c] \notin {"pausing", "clearing", "resuming"}
             /\ \E place \in Places \ {"pausing", "clearing", "resuming"} : Goes(c, place)
      BY <2>1 DEF SpeakAsync, SpeakTest, CancelQueued, CancelThrows, CancelCurrent,
        AbortCurrent, SetOutput, GetVoice, Dispose, Call, clientVars, Places
    <3> QED
      BY <1>1, <1>2, <3>1, <3>2
  <2> QED
    BY <1>5, <1>6, <1>9, <2>1 DEF ClientStep
<1>10. ASSUME NEW c \in Client, ReturnStep(c) PROVE PauseInv'
  <2>1. CASE \/ SpeakQueue(c) \/ SpeakRefused(c) \/ SpeakReturn(c) \/ AbortQueued(c)
             \/ CancelReturn(c) \/ GotVoice(c) \/ Settle(c) \/ Join(c)
    <3>1. UNCHANGED <<device, devPaused, halted, worker, locked, state>>
      BY <2>1 DEF SpeakQueue, SpeakRefused, SpeakReturn, AbortQueued, CancelReturn, GotVoice,
        Settle, Join, deviceVars, workerVars
    <3>2. \/ UNCHANGED at
          \/ /\ at[c] \notin {"pausing", "clearing", "resuming"}
             /\ \E place \in Places \ {"pausing", "clearing", "resuming"} : Goes(c, place)
      BY <2>1 DEF SpeakQueue, SpeakRefused, SpeakReturn, AbortQueued, CancelReturn, GotVoice,
        Settle, Join, Places
    <3> QED
      BY <1>1, <1>2, <3>1, <3>2
  <2> QED
    BY <1>7, <1>8, <1>f, <1>10, <2>1 DEF ReturnStep
<1> QED
  BY <1>3, <1>9, <1>10 DEF Next

(***************************************************************************)
(* The state tells what is heard, for any clients, prompts and calls: a    *)
(* prompt is taken and the state Ready only after a pause, once line 931   *)
(* cleared _currentPrompt, so that Resume found nothing to speak; and in   *)
(* the Paused state the driver of the session is paused outside Resume, as *)
(* long as nothing was cancelled and the output not changed.               *)
(***************************************************************************)
THEOREM StateTellsSound == Spec => []StateIsHeard
<1>1. Base /\ CurrentInv /\ ReadyInv /\ PauseInv => StateIsHeard
  <2> SUFFICES ASSUME Base, CurrentInv, ReadyInv, PauseInv PROVE StateIsHeard
    OBVIOUS
  <2>1. worker \in Taken /\ state = "Ready" => currentPrompt = None /\ WasPaused
    BY DEF CurrentInv, ReadyInv, Taken
  <2>2. ASSUME worker = "play", state = "Paused", asked = {}, device = 1,
               \A c \in Client : at[c] \notin {"clearing", "resuming"}
        PROVE  halted
    BY <2>2 DEF PauseInv, Untouched, Resumes
  <2> QED
    BY <2>1, <2>2 DEF StateIsHeard
<1>2. Init => PauseInv
  BY DEF Init, PauseInv, AbortAsked, Untouched
<1> QED
  BY <1>1, <1>2, BaseAlways, CurrentAlways, ReadyAlways, PauseStep, PTL DEF Spec

-----------------------------------------------------------------------------
(* The order of the prompts.  Of the prompts queued so far the worker has   *)
(* taken the first m; those in the queue are the others, with the voice     *)
(* requests in between: an entry is preceded by the prompt at its place.    *)
Backlog(q, acc, m) ==
  \E pos \in [1..Len(q) -> 0..Len(acc)] :
    /\ \A i \in 1..Len(q) :
         /\ pos[i] = (IF i = 1 THEN m ELSE pos[i - 1]) + (IF q[i] = "voice" THEN 0 ELSE 1)
         /\ q[i] # "voice" => q[i] = acc[pos[i]] /\ m < pos[i]
         /\ m <= pos[i]
         /\ \A j \in 1..Len(q) : i < j => pos[i] <= pos[j]
    /\ Len(acc) = IF Len(q) = 0 THEN m ELSE pos[Len(q)]

(* The first entry is taken.                                                *)
LEMMA BacklogTail ==
  ASSUME NEW q \in Seq(Prompt \cup {"voice"}), q # <<>>, NEW acc \in Seq(Prompt),
         NEW m \in 0..Len(acc), Backlog(q, acc, m)
  PROVE  /\ Head(q) = "voice" => Backlog(Tail(q), acc, m)
         /\ Head(q) # "voice" =>
              /\ m + 1 \in 0..Len(acc) /\ acc[m + 1] = Head(q)
              /\ Backlog(Tail(q), acc, m + 1)
<1> DEFINE r == Tail(q)
           n == IF Head(q) = "voice" THEN m ELSE m + 1
<1>1. PICK pos \in [1..Len(q) -> 0..Len(acc)] :
        /\ \A i \in 1..Len(q) :
             /\ pos[i] = (IF i = 1 THEN m ELSE pos[i - 1]) + (IF q[i] = "voice" THEN 0 ELSE 1)
             /\ q[i] # "voice" => q[i] = acc[pos[i]] /\ m < pos[i]
             /\ m <= pos[i]
             /\ \A j \in 1..Len(q) : i < j => pos[i] <= pos[j]
        /\ Len(acc) = IF Len(q) = 0 THEN m ELSE pos[Len(q)]
  BY DEF Backlog
<1>2. /\ Len(q) \in Nat /\ Len(q) > 0 /\ Head(q) = q[1] /\ Len(r) = Len(q) - 1
      /\ \A i \in 1..Len(r) : r[i] = q[i + 1]
      /\ Len(acc) \in Nat /\ m \in Nat
  BY EmptySeq, LenProperties, HeadTailProperties
<1>3. pos[1] = n /\ n \in 0..Len(acc)
  BY <1>1, <1>2
<1> DEFINE p == [i \in 1..Len(r) |-> pos[i + 1]]
<1>4. p \in [1..Len(r) -> 0..Len(acc)]
  BY <1>1, <1>2
<1>5. ASSUME NEW i \in 1..Len(r)
      PROVE  /\ p[i] = (IF i = 1 THEN n ELSE p[i - 1]) + (IF r[i] = "voice" THEN 0 ELSE 1)
             /\ r[i] # "voice" => r[i] = acc[p[i]] /\ n < p[i]
             /\ n <= p[i]
             /\ \A j \in 1..Len(r) : i < j => p[i] <= p[j]
  <2>1. /\ i + 1 \in 1..Len(q) /\ i + 1 # 1 /\ p[i] = pos[i + 1] /\ r[i] = q[i + 1]
        /\ 1 \in 1..Len(q) /\ 1 < i + 1
    BY <1>2
  <2>2. IF i = 1 THEN pos[i] = n ELSE p[i - 1] = pos[i]
    BY <1>2, <1>3
  <2>3. p[i] = (IF i = 1 THEN n ELSE p[i - 1]) + (IF r[i] = "voice" THEN 0 ELSE 1)
    BY <1>1, <2>1, <2>2
  <2>4. n <= p[i]
    BY <1>1, <1>3, <2>1
  <2>5. r[i] # "voice" => r[i] = acc[p[i]] /\ n < p[i]
    <3>1. CASE i = 1
      BY <1>1, <1>3, <2>1, <2>3, <3>1
    <3>2. CASE i # 1
      <4>1. i \in 1..Len(q) /\ i - 1 \in 1..Len(r) /\ 1 < i /\ p[i - 1] = pos[i]
        BY <1>2, <2>2, <3>2
      <4>2. n <= pos[i] /\ pos[i] \in Nat
        BY <1>1, <1>3, <2>1, <4>1
      <4> QED
        BY <1>1, <1>3, <2>1, <2>3, <3>2, <4>1, <4>2
    <3> QED
      BY <3>1, <3>2
  <2>6. ASSUME NEW j \in 1..Len(r), i < j PROVE p[i] <= p[j]
    <3>1. j + 1 \in 1..Len(q) /\ i + 1 < j + 1 /\ p[j] = pos[j + 1]
      BY <1>2, <2>6
    <3> QED
      BY <1>1, <2>1, <3>1
  <2> QED
    BY <2>3, <2>4, <2>5, <2>6
<1>6. Len(acc) = IF Len(r) = 0 THEN n ELSE p[Len(r)]
  <2>1. CASE Len(r) = 0
    <3>1. Len(q) = 1
      <4>1. Len(q) \in Nat /\ Len(r) = Len(q) - 1
        BY <1>2
      <4> HIDE DEF r
      <4> QED
        BY <2>1, <4>1
    <3>2. Len(acc) = pos[1]
      BY <1>1, <3>1
    <3> QED
      BY <1>3, <2>1, <3>2
  <2>2. CASE Len(r) # 0
    <3>1. Len(r) \in 1..Len(r) /\ p[Len(r)] = pos[Len(r) + 1] /\ Len(r) + 1 = Len(q)
      BY <1>2, <2>2
    <3> QED
      BY <1>1, <1>2, <2>2, <3>1
  <2> QED
    BY <2>1, <2>2
<1>7. Backlog(r, acc, n)
  <2> HIDE DEF p, r, n
  <2> QED
    BY <1>4, <1>5, <1>6 DEF Backlog
<1>8. Head(q) # "voice" => acc[m + 1] = Head(q)
  BY <1>1, <1>2, <1>3
<1> QED
  BY <1>3, <1>7, <1>8

(* An entry is added: a voice request, or a prompt also counted as queued.  *)
LEMMA BacklogAppend ==
  ASSUME NEW q \in Seq(Prompt \cup {"voice"}), NEW acc \in Seq(Prompt),
         NEW m \in 0..Len(acc), Backlog(q, acc, m),
         NEW e \in Prompt \cup {"voice"}, NEW more,
         IF e = "voice" THEN more = acc ELSE more = Append(acc, e)
  PROVE  m \in 0..Len(more) /\ Backlog(Append(q, e), more, m)
<1> DEFINE r == Append(q, e)
<1>1. PICK pos \in [1..Len(q) -> 0..Len(acc)] :
        /\ \A i \in 1..Len(q) :
             /\ pos[i] = (IF i = 1 THEN m ELSE pos[i - 1]) + (IF q[i] = "voice" THEN 0 ELSE 1)
             /\ q[i] # "voice" => q[i] = acc[pos[i]] /\ m < pos[i]
             /\ m <= pos[i]
             /\ \A j \in 1..Len(q) : i < j => pos[i] <= pos[j]
        /\ Len(acc) = IF Len(q) = 0 THEN m ELSE pos[Len(q)]
  BY DEF Backlog
<1>2. /\ Len(q) \in Nat /\ Len(r) = Len(q) + 1 /\ r[Len(q) + 1] = e
      /\ \A i \in 1..Len(q) : r[i] = q[i]
      /\ Len(acc) \in Nat /\ m \in Nat
  BY LenProperties, AppendProperties
<1>3. /\ Len(more) = Len(acc) + (IF e = "voice" THEN 0 ELSE 1)
      /\ \A k \in 1..Len(acc) : more[k] = acc[k]
      /\ e # "voice" => more[Len(acc) + 1] = e
  <2>1. CASE e = "voice"
    BY <1>2, <2>1
  <2>2. CASE e # "voice"
    <3>1. e \in Prompt /\ more = Append(acc, e)
      BY <2>2
    <3> QED
      BY <2>2, <3>1, AppendProperties
  <2> QED
    BY <2>1, <2>2
<1> DEFINE p == [i \in 1..Len(r) |-> IF i = Len(q) + 1 THEN Len(more) ELSE pos[i]]
<1>4. Len(more) \in Nat /\ Len(acc) <= Len(more) /\ p \in [1..Len(r) -> 0..Len(more)]
  BY <1>1, <1>2, <1>3
<1>5. ASSUME NEW i \in 1..Len(q)
      PROVE  /\ i \in 1..Len(r) /\ p[i] = pos[i] /\ r[i] = q[i] /\ pos[i] \in 0..Len(acc)
             /\ i # 1 => i - 1 \in 1..Len(q) /\ p[i - 1] = pos[i - 1]
  BY <1>1, <1>2
<1>6. p[Len(r)] = Len(more) /\ Len(r) \in 1..Len(r)
  BY <1>2
<1>7. ASSUME NEW i \in 1..Len(r)
      PROVE  /\ p[i] = (IF i = 1 THEN m ELSE p[i - 1]) + (IF r[i] = "voice" THEN 0 ELSE 1)
             /\ r[i] # "voice" => r[i] = more[p[i]] /\ m < p[i]
             /\ m <= p[i]
             /\ \A j \in 1..Len(r) : i < j => p[i] <= p[j]
  <2>1. CASE i \in 1..Len(q)
    <3>1. p[i] = (IF i = 1 THEN m ELSE p[i - 1]) + (IF r[i] = "voice" THEN 0 ELSE 1)
      BY <1>1, <1>5, <2>1
    <3>2. m <= p[i]
      BY <1>1, <1>5, <2>1
    <3>3. r[i] # "voice" => r[i] = more[p[i]] /\ m < p[i]
      <4>1. r[i] # "voice" => r[i] = acc[pos[i]] /\ m < pos[i] /\ pos[i] \in 1..Len(acc)
        BY <1>1, <1>2, <1>5, <2>1
      <4> QED
        BY <1>3, <1>5, <2>1, <4>1
    <3>4. ASSUME NEW j \in 1..Len(r), i < j PROVE p[i] <= p[j]
      <4>1. CASE j \in 1..Len(q)
        BY <1>1, <1>5, <2>1, <3>4, <4>1
      <4>2. CASE j = Len(r)
        <5>1. p[i] \in 0..Len(acc) /\ p[j] = Len(more)
          BY <1>5, <1>6, <2>1, <4>2
        <5> QED
          BY <1>2, <1>4, <5>1
      <4> QED
        BY <1>2, <4>1, <4>2
    <3> QED
      BY <3>1, <3>2, <3>3, <3>4
  <2>2. CASE i = Len(r)
    <3>1. (IF i = 1 THEN m ELSE p[i - 1]) = Len(acc)
      <4>1. CASE i = 1
        BY <1>1, <1>2, <2>2, <4>1
      <4>2. CASE i # 1
        <5>1. Len(q) \in 1..Len(q) /\ i - 1 = Len(q)
          BY <1>2, <2>2, <4>2
        <5>2. p[Len(q)] = pos[Len(q)] /\ pos[Len(q)] = Len(acc)
          BY <1>1, <1>2, <1>5, <5>1
        <5> QED
          BY <4>2, <5>1, <5>2
      <4> QED
        BY <4>1, <4>2
    <3>2. r[i] = e /\ p[i] = Len(more) /\ m <= Len(acc)
      <4>1. r[Len(r)] = e
        BY <1>2
      <4> HIDE DEF p, r
      <4> QED
        BY <1>2, <1>6, <2>2, <4>1
    <3>3. e # "voice" => m < Len(more) /\ e = more[Len(more)]
      BY <1>2, <1>3, <3>2
    <3>4. m <= p[i]
      BY <1>2, <1>4, <3>2
    <3>5. p[i] = (IF i = 1 THEN m ELSE p[i - 1]) + (IF r[i] = "voice" THEN 0 ELSE 1)
      BY <1>3, <3>1, <3>2
    <3>6. \A j \in 1..Len(r) : ~(i < j)
      BY <1>2, <2>2
    <3> QED
      BY <3>2, <3>3, <3>4, <3>5, <3>6
  <2> QED
    BY <1>2, <2>1, <2>2
<1>8. Backlog(r, more, m)
  <2>1. Len(more) = IF Len(r) = 0 THEN m ELSE p[Len(r)]
    <3>1. Len(q) \in Nat /\ Len(r) = Len(q) + 1
      BY <1>2
    <3> HIDE DEF p, r
    <3>2. Len(r) # 0
      BY <3>1
    <3> QED
      BY <1>6, <3>2
  <2> HIDE DEF p, r
  <2> QED
    BY <1>4, <1>7, <2>1 DEF Backlog
<1> QED
  BY <1>2, <1>4, <1>8

(* The events about prompts, by their rank, and what StartsThenEnds says of *)
(* a sequence of events.                                                    *)
Ranks(s, n) == {i \in 1..n : s[i].kind # "state"}
Count(s) == Cardinality(Ranks(s, Len(s)))
Alternates(s, acc) ==
  \A i \in Ranks(s, Len(s)) :
    LET n == Cardinality(Ranks(s, i))
    IN  /\ s[i].kind = IF n % 2 = 1 THEN "start" ELSE "end"
        /\ s[i].prompt = acc[(n + 1) \div 2]

(* The rank of an event is counted from one.                                *)
LEMMA RankBounds ==
  ASSUME NEW s \in Seq(Event), NEW i \in Ranks(s, Len(s))
  PROVE  Cardinality(Ranks(s, i)) \in 1..Count(s) /\ Count(s) \in Nat
<1>1. i \in 1..Len(s) /\ Len(s) \in Nat
  BY LenProperties DEF Ranks
<1>2. IsFiniteSet(1..Len(s)) /\ Ranks(s, Len(s)) \subseteq 1..Len(s)
  BY <1>1, FS_Interval DEF Ranks
<1>3. IsFiniteSet(Ranks(s, Len(s)))
  BY <1>2, FS_Subset
<1>4. Ranks(s, i) \subseteq Ranks(s, Len(s)) /\ i \in Ranks(s, i)
  BY <1>1 DEF Ranks
<1>5. IsFiniteSet(Ranks(s, i)) /\ Cardinality(Ranks(s, i)) <= Count(s)
  BY <1>3, <1>4, FS_Subset DEF Count
<1>6. Cardinality(Ranks(s, i)) \in Nat /\ Cardinality(Ranks(s, i)) # 0 /\ Count(s) \in Nat
  BY <1>3, <1>4, <1>5, FS_EmptySet, FS_CardinalityType DEF Count
<1> QED
  BY <1>5, <1>6

(* One more event: the ranks of the others stay.                            *)
LEMMA RankAppend ==
  ASSUME NEW s \in Seq(Event), NEW e \in Event
  PROVE  /\ Count(s) \in Nat
         /\ Count(Append(s, e)) = Count(s) + (IF e.kind = "state" THEN 0 ELSE 1)
         /\ Ranks(Append(s, e), Len(s) + 1)
              = Ranks(s, Len(s)) \cup (IF e.kind = "state" THEN {} ELSE {Len(s) + 1})
         /\ \A i \in 1..Len(s) : Ranks(Append(s, e), i) = Ranks(s, i)
<1> DEFINE t == Append(s, e)
<1>1. /\ Len(s) \in Nat /\ Len(t) = Len(s) + 1 /\ t[Len(s) + 1] = e
      /\ \A i \in 1..Len(s) : t[i] = s[i]
  BY LenProperties, AppendProperties
<1>2. Ranks(t, Len(s) + 1)
        = Ranks(s, Len(s)) \cup (IF e.kind = "state" THEN {} ELSE {Len(s) + 1})
  <2>1. \A i \in 1..(Len(s) + 1) : i \in 1..Len(s) \/ i = Len(s) + 1
    BY <1>1
  <2>2. \A i \in 1..Len(s) : i \in 1..(Len(s) + 1)
    BY <1>1
  <2>3. Len(s) + 1 \in 1..(Len(s) + 1)
    BY <1>1
  <2> HIDE DEF t
  <2> QED
    BY <1>1, <2>1, <2>2, <2>3 DEF Ranks
<1>3. \A i \in 1..Len(s) : Ranks(t, i) = Ranks(s, i)
  BY <1>1 DEF Ranks
<1>4. IsFiniteSet(Ranks(s, Len(s))) /\ Count(s) \in Nat
  <2>1. IsFiniteSet(1..Len(s)) /\ Ranks(s, Len(s)) \subseteq 1..Len(s)
    BY <1>1, FS_Interval DEF Ranks
  <2> QED
    BY <2>1, FS_Subset, FS_CardinalityType DEF Count
<1>5. Len(s) + 1 \notin Ranks(s, Len(s))
  BY <1>1 DEF Ranks
<1>6. Count(t) = Count(s) + (IF e.kind = "state" THEN 0 ELSE 1)
  <2>1. CASE e.kind = "state"
    <3>1. Ranks(t, Len(s) + 1) = Ranks(s, Len(s))
      BY <1>2, <2>1
    <3> QED
      BY <1>1, <1>4, <2>1, <3>1 DEF Count
  <2>2. CASE e.kind # "state"
    <3>1. Ranks(t, Len(s) + 1) = Ranks(s, Len(s)) \cup {Len(s) + 1}
      BY <1>2, <2>2
    <3>2. Cardinality(Ranks(s, Len(s)) \cup {Len(s) + 1}) = Cardinality(Ranks(s, Len(s))) + 1
      BY <1>4, <1>5, FS_AddElement
    <3> QED
      BY <1>1, <2>2, <3>1, <3>2 DEF Count
  <2> QED
    BY <2>1, <2>2
<1> QED
  BY <1>2, <1>3, <1>4, <1>6

(* A change of the state disturbs nothing; the start or the end of a prompt *)
(* must be of the prompt whose turn it is.                                  *)
LEMMA AlternatesAppend ==
  ASSUME NEW s \in Seq(Event), NEW acc \in Seq(Prompt), NEW e \in Event,
         Alternates(s, acc),
         LET n == Count(s) + 1
         IN  e.kind # "state" => /\ e.kind = IF n % 2 = 1 THEN "start" ELSE "end"
                                 /\ e.prompt = acc[(n + 1) \div 2]
  PROVE  Alternates(Append(s, e), acc)
<1> DEFINE t == Append(s, e)
<1>1. /\ Len(s) \in Nat /\ Len(t) = Len(s) + 1 /\ t[Len(s) + 1] = e
      /\ \A i \in 1..Len(s) : t[i] = s[i]
  BY LenProperties, AppendProperties
<1>2. /\ Count(t) = Count(s) + (IF e.kind = "state" THEN 0 ELSE 1)
      /\ Ranks(t, Len(t)) = Ranks(s, Len(s)) \cup (IF e.kind = "state" THEN {} ELSE {Len(s) + 1})
      /\ \A i \in 1..Len(s) : Ranks(t, i) = Ranks(s, i)
  BY <1>1, RankAppend
<1>3. ASSUME NEW i \in Ranks(t, Len(t))
      PROVE  LET n == Cardinality(Ranks(t, i))
             IN  /\ t[i].kind = IF n % 2 = 1 THEN "start" ELSE "end"
                 /\ t[i].prompt = acc[(n + 1) \div 2]
  <2> HIDE DEF t
  <2>1. CASE i \in Ranks(s, Len(s))
    <3>1. i \in 1..Len(s)
      BY <2>1 DEF Ranks
    <3>2. t[i] = s[i] /\ Ranks(t, i) = Ranks(s, i)
      BY <1>1, <1>2, <3>1
    <3> QED
      BY <2>1, <3>2 DEF Alternates
  <2>2. CASE i = Len(s) + 1 /\ e.kind # "state"
    <3>1. Cardinality(Ranks(t, i)) = Count(s) + 1
      BY <1>1, <1>2, <2>2 DEF Count
    <3> QED
      BY <1>1, <2>2, <3>1
  <2> QED
    BY <1>2, <1>3, <2>1, <2>2
<1> QED
  BY <1>3 DEF Alternates

(* What OnStateChanged posts disturbs nothing.                              *)
LEMMA AlternatesChanged ==
  ASSUME NEW s \in Seq(Event), NEW acc \in Seq(Prompt), Alternates(s, acc),
         NEW u \in States, NEW v \in States
  PROVE  LET t == s \o OnStateChanged(u, v)
         IN  t \in Seq(Event) /\ Alternates(t, acc) /\ Count(t) = Count(s)
<1>1. CASE u = v
  BY <1>1, ConcatEmptySeq DEF OnStateChanged
<1>2. CASE u # v
  <2>1. Changed(u, v) \in Event /\ Changed(u, v).kind = "state"
    BY DEF Changed, Event, StateEvent
  <2>2. s \o OnStateChanged(u, v) = Append(s, Changed(u, v))
    BY <1>2, <2>1, AppendIsConcat DEF OnStateChanged
  <2> QED
    BY <2>1, <2>2, AppendProperties, RankAppend, AlternatesAppend
<1> QED
  BY <1>1, <1>2

(* One more prompt queued leaves the places of the others.                  *)
LEMMA AlternatesLonger ==
  ASSUME NEW s \in Seq(Event), NEW acc \in Seq(Prompt), NEW p \in Prompt,
         Alternates(s, acc), Count(s) <= 2 * Len(acc)
  PROVE  Alternates(s, Append(acc, p))
<1>1. Len(acc) \in Nat /\ \A k \in 1..Len(acc) : Append(acc, p)[k] = acc[k]
  BY LenProperties, AppendProperties
<1>2. ASSUME NEW i \in Ranks(s, Len(s))
      PROVE  (Cardinality(Ranks(s, i)) + 1) \div 2 \in 1..Len(acc)
  <2>1. Cardinality(Ranks(s, i)) \in 1..Count(s) /\ Count(s) \in Nat
    BY RankBounds
  <2>2. \A n, m \in Nat : 1 <= n /\ n <= 2 * m => (n + 1) \div 2 \in 1..m
    OBVIOUS
  <2> QED
    BY <1>1, <2>1, <2>2
<1> QED
  BY <1>1, <1>2 DEF Alternates

(* How many events about the m prompts taken are still to be posted.        *)
Owed == IF worker \in Taken THEN IF worker = "start" THEN 2 ELSE 1 ELSE 0

AtPlace(m) ==
  /\ m \in 0..Len(accepted) /\ Backlog(queue, accepted, m)
  /\ worker \in Taken => m > 0 /\ accepted[m] = spoken
  /\ Count(events) = 2 * m - Owed

OrderInv == Alternates(events, accepted) /\ \E m \in Nat : AtPlace(m)

(* Every step but a few leaves the queue and what is owed; it may announce  *)
(* a change of the state.                                                   *)
LEMMA OrderStep == Base /\ OrderInv /\ [Next]_vars => OrderInv'
<1> SUFFICES ASSUME Base, OrderInv, [Next]_vars PROVE OrderInv'
  OBVIOUS
<1>t. /\ events \in Seq(Event) /\ accepted \in Seq(Prompt) /\ state \in States
      /\ queue \in Seq(Prompt \cup {"voice"}) /\ exception \in [Prompt -> Exceptions]
      /\ Shape /\ InHand /\ Alternates(events, accepted)
  BY DEF Base, Blame, Shape, OrderInv
<1>p. PICK m \in Nat : AtPlace(m)
  BY DEF OrderInv
<1>m. /\ m \in 0..Len(accepted) /\ Len(accepted) \in Nat /\ Backlog(queue, accepted, m)
      /\ worker \in Taken => m > 0 /\ accepted[m] = spoken
      /\ Count(events) = 2 * m - Owed
  BY <1>p, <1>t, LenProperties DEF AtPlace
<1>1. ASSUME UNCHANGED <<queue, accepted, spoken>>, Owed' = Owed,
             worker' \in Taken <=> worker \in Taken,
             \/ UNCHANGED events
             \/ \E u, v \in States : events' = events \o OnStateChanged(u, v)
             \/ \E u, v, w \in States :
                  events' = events \o OnStateChanged(u, v) \o OnStateChanged(w, u)
      PROVE  OrderInv'
  <2>1. Alternates(events', accepted) /\ Count(events') = Count(events)
    <3>1. CASE UNCHANGED events
      BY <1>t, <3>1
    <3>2. ASSUME NEW u \in States, NEW v \in States,
                 events' = events \o OnStateChanged(u, v)
          PROVE  Alternates(events', accepted) /\ Count(events') = Count(events)
      BY <1>t, <3>2, AlternatesChanged
    <3>3. ASSUME NEW u \in States, NEW v \in States, NEW w \in States,
                 events' = events \o OnStateChanged(u, v) \o OnStateChanged(w, u)
          PROVE  Alternates(events', accepted) /\ Count(events') = Count(events)
      <4> DEFINE s == events \o OnStateChanged(u, v)
      <4>1. s \in Seq(Event) /\ Alternates(s, accepted) /\ Count(s) = Count(events)
        BY <1>t, AlternatesChanged
      <4> HIDE DEF s
      <4>2. Alternates(s \o OnStateChanged(w, u), accepted)
            /\ Count(s \o OnStateChanged(w, u)) = Count(s)
        BY <1>t, <4>1, AlternatesChanged
      <4> QED
        BY <3>3, <4>1, <4>2 DEF s
    <3> QED
      BY <1>1, <3>1, <3>2, <3>3
  <2>2. AtPlace(m)'
    BY <1>1, <1>m, <2>1 DEF AtPlace
  <2> QED
    BY <1>1, <1>p, <2>1, <2>2 DEF OrderInv
<1>2. CASE TakePrompt
  <2>1. Head(queue) \in Prompt /\ Head(queue) # "voice" /\ queue # <<>>
    BY <1>t, <1>2, HeadTailProperties DEF TakePrompt
  <2>2. /\ queue' = Tail(queue) /\ spoken' = Head(queue) /\ worker' = "start"
        /\ worker \notin Taken /\ UNCHANGED accepted
    BY <1>2 DEF TakePrompt, Taken, history
  <2>3. \E u \in States : events' = events \o OnStateChanged(u, state)
    BY <1>2, <1>t DEF TakePrompt, States
  <2>4. Alternates(events', accepted) /\ Count(events') = Count(events)
    BY <1>t, <2>3, AlternatesChanged
  <2>5. m + 1 \in 0..Len(accepted) /\ accepted[m + 1] = Head(queue)
        /\ Backlog(Tail(queue), accepted, m + 1)
    BY <1>m, <1>t, <2>1, BacklogTail
  <2>6. Owed = 0 /\ Owed' = 2 /\ worker' \in Taken
    BY <2>2 DEF Owed, Taken
  <2>7. Count(events') = 2 * (m + 1) - Owed'
    BY <1>m, <2>4, <2>6
  <2>8. AtPlace(m + 1)'
    BY <1>p, <2>2, <2>5, <2>7 DEF AtPlace
  <2> QED
    BY <1>p, <2>2, <2>4, <2>8 DEF OrderInv
<1>3. CASE TakeVoice
  <2>1. /\ queue # <<>> /\ Head(queue) = "voice" /\ queue' = Tail(queue)
        /\ worker \notin Taken /\ worker' \notin Taken /\ UNCHANGED <<accepted, events>>
    BY <1>3 DEF TakeVoice, Taken, history
  <2>2. Backlog(Tail(queue), accepted, m)
    BY <1>m, <1>t, <2>1, BacklogTail
  <2>3. AtPlace(m)'
    BY <1>m, <2>1, <2>2 DEF AtPlace, Owed
  <2> QED
    BY <1>t, <1>p, <2>1, <2>3 DEF OrderInv
<1>4. CASE StartStream
  <2> DEFINE e == Start(spoken, exception[spoken])
  <2>1. /\ events' = Append(events, e) /\ worker = "start" /\ worker' \in {"look", "finish"}
        /\ UNCHANGED <<queue, accepted, spoken>>
    BY <1>4 DEF StartStream, queueVars, history
  <2>2. Owed = 2 /\ Owed' = 1 /\ worker \in Taken
    BY <2>1 DEF Owed, Taken
  <2>3. e \in Event /\ e.kind = "start" /\ e.prompt = spoken
    BY <1>t, <2>2 DEF Start, Event, PromptEvent, InHand
  <2> HIDE DEF e
  <2>4. m > 0 /\ accepted[m] = spoken /\ Count(events) + 1 = 2 * m - 1
    BY <1>m, <2>2
  <2>5. (2 * m - 1) % 2 = 1 /\ ((2 * m - 1) + 1) \div 2 = m
    BY <1>p, <2>4
  <2>6. Alternates(events', accepted)
    BY <1>t, <2>1, <2>3, <2>4, <2>5, AlternatesAppend
  <2>7. Count(events') = 2 * m - Owed'
    <3>1. Count(events') = Count(events) + 1
      BY <1>t, <2>1, <2>3, RankAppend
    <3> QED
      BY <3>1, <2>2, <2>4
  <2>8. AtPlace(m)'
    BY <1>m, <2>1, <2>4, <2>7 DEF AtPlace
  <2> QED
    BY <1>p, <2>1, <2>6, <2>8 DEF OrderInv
<1>5. CASE Finish
  <2> DEFINE e == End(spoken, result)
  <2>1. /\ worker = "finish" /\ worker' = "reset"
        /\ UNCHANGED <<queue, accepted, spoken>>
    BY <1>5 DEF Finish, queueVars, history
  <2>2. Owed = 1 /\ Owed' = 0 /\ worker \in Taken /\ worker' \notin Taken
    BY <2>1 DEF Owed, Taken
  <2>3. e \in Event /\ e.kind = "end" /\ e.prompt = spoken
    BY <1>t, <2>2 DEF End, Event, PromptEvent, InHand
  <2>4. \/ events' = events \o <<e>>
        \/ events' = events \o <<e>> \o <<Changed("Ready", state)>>
    BY <1>5 DEF Finish, EndAlways
  <2> HIDE DEF e
  <2>5. m > 0 /\ accepted[m] = spoken /\ Count(events) + 1 = 2 * m
    BY <1>m, <2>2
  <2>6. (2 * m) % 2 # 1 /\ (2 * m + 1) \div 2 = m
    BY <1>p, <2>5
  <2>7. events \o <<e>> = Append(events, e) /\ Append(events, e) \in Seq(Event)
    BY <1>t, <2>3, AppendIsConcat, AppendProperties
  <2>8. Alternates(Append(events, e), accepted)
    BY <1>t, <2>3, <2>5, <2>6, AlternatesAppend
  <2>9. Count(Append(events, e)) = 2 * m
    <3>1. Count(Append(events, e)) = Count(events) + 1
      BY <1>t, <2>3, RankAppend
    <3> QED
      BY <3>1, <2>5
  <2>10. Alternates(events', accepted) /\ Count(events') = 2 * m
    <3>1. CASE events' = events \o <<e>>
      BY <2>7, <2>8, <2>9, <3>1
    <3>2. CASE events' = events \o <<e>> \o <<Changed("Ready", state)>>
      <4>1. CASE state = "Ready"
        <5>1. Changed("Ready", state) \in Event /\ Changed("Ready", state).kind = "state"
          BY <1>t DEF Changed, Event, StateEvent, States
        <5>2. events' = Append(Append(events, e), Changed("Ready", state))
          BY <2>7, <3>2, <5>1, AppendIsConcat
        <5>3. Alternates(events', accepted)
          BY <1>t, <2>7, <2>8, <5>1, <5>2, AlternatesAppend
        <5>4. Count(events') = Count(Append(events, e)) + 0
          BY <2>7, <5>1, <5>2, RankAppend
        <5> QED
          BY <1>p, <2>9, <5>3, <5>4
      <4>2. CASE state # "Ready"
        <5>1. events' = Append(events, e) \o OnStateChanged("Ready", state)
          BY <2>7, <3>2, <4>2 DEF OnStateChanged
        <5> QED
          BY <1>t, <2>7, <2>8, <2>9, <5>1, AlternatesChanged DEF States
      <4> QED
        BY <4>1, <4>2
    <3> QED
      BY <2>4, <3>1, <3>2
  <2>11. AtPlace(m)'
    BY <1>m, <2>1, <2>2, <2>10 DEF AtPlace
  <2> QED
    BY <1>p, <2>1, <2>10, <2>11 DEF OrderInv
(* An entry is queued. *)
<1>6. ASSUME NEW e \in Prompt \cup {"voice"}, queue' = Append(queue, e),
             IF e = "voice" THEN accepted' = accepted ELSE accepted' = Append(accepted, e),
             UNCHANGED <<events, worker, spoken>>
      PROVE  OrderInv'
  <2>1. m \in 0..Len(accepted') /\ Backlog(queue', accepted', m)
    BY <1>6, <1>m, <1>t, BacklogAppend
  <2>2. worker \in Taken => accepted'[m] = accepted[m]
    <3>1. CASE e = "voice"
      BY <1>6, <3>1
    <3>2. CASE e # "voice"
      <4>1. e \in Prompt /\ accepted' = Append(accepted, e)
        BY <1>6, <3>2
      <4>2. worker \in Taken => m \in 1..Len(accepted)
        BY <1>m
      <4> QED
        BY <1>t, <4>1, <4>2, AppendProperties
    <3> QED
      BY <3>1, <3>2
  <2>3. AtPlace(m)'
    BY <1>6, <1>m, <2>1, <2>2 DEF AtPlace, Owed
  <2>4. Alternates(events', accepted')
    <3>1. CASE e = "voice"
      BY <1>6, <1>t, <3>1
    <3>2. CASE e # "voice"
      <4>1. e \in Prompt /\ accepted' = Append(accepted, e)
        BY <1>6, <3>2
      <4>2. Count(events) <= 2 * Len(accepted)
        <5>1. Owed \in 0..2
          BY DEF Owed
        <5> QED
          BY <1>m, <5>1
      <4> QED
        BY <1>6, <1>t, <4>1, <4>2, AlternatesLonger
    <3> QED
      BY <3>1, <3>2
  <2> QED
    BY <1>p, <2>3, <2>4 DEF OrderInv
<1>7. CASE \/ TakeNothing \/ MakeVoice \/ LookUp \/ Throw \/ BeginSegment \/ Played
           \/ CloseSegment \/ AllSegments \/ CheckExit \/ Dispatch \/ UNCHANGED vars
  <2>1. UNCHANGED <<queue, accepted, spoken, events>>
    BY <1>7 DEF TakeNothing, MakeVoice, LookUp, Throw, BeginSegment, Played, CloseSegment,
      AllSegments, CheckExit, Dispatch, vars, queueVars, workerVars, history
  <2>2. Owed' = Owed /\ (worker' \in Taken <=> worker \in Taken)
    BY <1>7 DEF TakeNothing, MakeVoice, LookUp, Throw, BeginSegment, Played, CloseSegment,
      AllSegments, CheckExit, Dispatch, vars, workerVars, Owed, Taken
  <2> QED
    BY <1>1, <2>1, <2>2
<1>8. CASE Reset
  <2>1. /\ UNCHANGED <<queue, accepted, events>> /\ worker \notin Taken
        /\ worker' \notin Taken
    BY <1>8 DEF Reset, history, Taken
  <2>2. AtPlace(m)'
    BY <1>m, <2>1 DEF AtPlace, Owed
  <2> QED
    BY <1>t, <1>p, <2>1, <2>2 DEF OrderInv
<1>9. ASSUME NEW c \in Client, PauseState(c) \/ ResumeState(c) PROVE OrderInv'
  <2>1. UNCHANGED <<queue, accepted, spoken, worker>>
    BY <1>9 DEF PauseState, ResumeState, queueVars, workerVars, history
  <2>2. \E u, v, w \in States :
          events' = events \o OnStateChanged(u, v) \o OnStateChanged(w, u)
    BY <1>9, <1>t DEF PauseState, ResumeState, States
  <2> QED
    BY <1>1, <2>1, <2>2 DEF Owed
<1>10. ASSUME NEW c \in Client, ClientStep(c) PROVE OrderInv'
  <2>1. ASSUME NEW p \in Prompt, SpeakAsync(c, p) PROVE OrderInv'
    BY <1>6, <2>1, VoiceIsNoPrompt DEF SpeakAsync, Enqueue, workerVars
  <2>2. CASE GetVoice(c)
    BY <1>6, <2>2 DEF GetVoice, Enqueue, workerVars, history
  <2>3. CASE \/ \E p \in Prompt : \/ SpeakTest(c, p) \/ CancelQueued(c, p)
                                  \/ CancelThrows(c, p) \/ CancelCurrent(c, p)
             \/ PauseDevice(c) \/ ResumeDevice(c) \/ AbortCurrent(c) \/ SetOutput(c)
             \/ Dispose(c)
    <3>1. UNCHANGED <<queue, accepted, spoken, worker, events>>
      BY <2>3 DEF SpeakTest, CancelQueued, CancelThrows, CancelCurrent, PauseDevice,
        ResumeDevice, AbortCurrent, SetOutput, Dispose, queueVars, workerVars, history
    <3> QED
      BY <1>1, <3>1 DEF Owed
  <2> QED
    BY <1>10, <2>1, <2>2, <2>3 DEF ClientStep
<1>11. ASSUME NEW c \in Client, ReturnStep(c) PROVE OrderInv'
  <2>1. CASE SpeakQueue(c)
    <3>1. arg[c] \in Prompt
      BY <1>t, <2>1 DEF SpeakQueue, Shape
    <3> QED
      BY <1>6, <2>1, <3>1, VoiceIsNoPrompt DEF SpeakQueue, Enqueue, workerVars
  <2>2. CASE \/ SpeakRefused(c) \/ SpeakReturn(c) \/ AbortQueued(c) \/ CancelReturn(c)
             \/ Swap(c) \/ GotVoice(c) \/ ResumeFlag(c) \/ Settle(c) \/ Join(c)
    <3>1. UNCHANGED <<queue, accepted, spoken, worker, events>>
      BY <2>2 DEF SpeakRefused, SpeakReturn, AbortQueued, CancelReturn, Swap, GotVoice,
        ResumeFlag, Settle, Join, queueVars, workerVars, history
    <3> QED
      BY <1>1, <3>1 DEF Owed
  <2> QED
    BY <1>9, <1>11, <2>1, <2>2 DEF ReturnStep
<1> QED
  BY <1>2, <1>3, <1>4, <1>5, <1>7, <1>8, <1>10, <1>11 DEF Next, WorkerStep

(* The order always holds.                                                  *)
LEMMA OrderAlways == Spec => []OrderInv
<1>1. Init => OrderInv
  <2> SUFFICES ASSUME Init PROVE OrderInv
    OBVIOUS
  <2>1. queue = <<>> /\ accepted = <<>> /\ events = <<>> /\ worker \notin Taken
    BY DEF Init, Taken
  <2>2. Ranks(events, Len(events)) = {} /\ Len(accepted) = 0 /\ Len(queue) = 0
    BY <2>1 DEF Ranks
  <2>3. Backlog(queue, accepted, 0)
    <3> DEFINE pos == [i \in 1..Len(queue) |-> 0]
    <3>1. pos \in [1..Len(queue) -> 0..Len(accepted)] /\ 1..Len(queue) = {}
      BY <2>2
    <3> QED
      BY <2>2, <3>1 DEF Backlog
  <2>4. Alternates(events, accepted) /\ Count(events) = 0
    BY <2>2, FS_EmptySet DEF Alternates, Count
  <2>5. AtPlace(0)
    BY <2>1, <2>2, <2>3, <2>4 DEF AtPlace, Owed
  <2> QED
    BY <2>4, <2>5 DEF OrderInv
<1> QED
  BY <1>1, OrderStep, BaseAlways, PTL DEF Spec

(***************************************************************************)
(* SpeakStarted and SpeakCompleted come once each for every prompt, one    *)
(* prompt after the other in the order they were queued: whatever is       *)
(* cancelled, paused or failed, for any number of clients and prompts, and *)
(* with voice requests between the prompts.                                *)
(***************************************************************************)
THEOREM PromptsInOrder == Spec => []StartsThenEnds
<1>1. OrderInv => StartsThenEnds
  BY DEF OrderInv, Alternates, StartsThenEnds, PromptEvents, Ranks
<1> QED
  BY <1>1, OrderAlways, PTL

-----------------------------------------------------------------------------
(* The changes of the state, announced by a sequence of events.             *)
Changes(s, n) == {i \in 1..n : s[i].kind = "state"}
Latest(s, n) == IF Changes(s, n) = {} THEN "Ready" ELSE s[Max(Changes(s, n))].state
Chained(s, now) ==
  /\ \A i \in Changes(s, Len(s)) : s[i].previous = Latest(s, i - 1)
  /\ Latest(s, Len(s)) = now

(* The last change is one of them.                                          *)
LEMMA LastChange ==
  ASSUME NEW s, NEW n \in Nat, Changes(s, n) # {}
  PROVE  /\ Max(Changes(s, n)) \in Changes(s, n)
         /\ \A i \in Changes(s, n) : Max(Changes(s, n)) >= i
<1>1. Changes(s, n) \subseteq 1..n /\ IsFiniteSet(1..n) /\ 1..n \subseteq Int
  BY FS_Interval DEF Changes
<1>2. IsFiniteSet(Changes(s, n)) /\ Changes(s, n) \in SUBSET Int
  BY <1>1, FS_Subset
<1>3. \E x \in Changes(s, n) : \A y \in Changes(s, n) : x >= y
  BY <1>2, LargestMember
<1> QED
  BY <1>3 DEF Max

(* One more event: a change must start from the state of now.               *)
LEMMA ChainAppend ==
  ASSUME NEW s \in Seq(Event), NEW e \in Event, NEW now, Chained(s, now),
         e.kind = "state" => e.previous = now
  PROVE  Chained(Append(s, e), IF e.kind = "state" THEN e.state ELSE now)
<1> DEFINE t == Append(s, e)
           n == Len(s)
<1>1. /\ n \in Nat /\ Len(t) = n + 1 /\ t[n + 1] = e
      /\ \A i \in 1..n : t[i] = s[i]
  BY LenProperties, AppendProperties
<1> HIDE DEF t, n
<1>2. \A i \in 0..n : Changes(t, i) = Changes(s, i)
  BY <1>1 DEF Changes
<1>3. ASSUME NEW i \in 0..n PROVE Latest(t, i) = Latest(s, i)
  <2>1. CASE Changes(s, i) = {}
    BY <1>2, <2>1 DEF Latest
  <2>2. CASE Changes(s, i) # {}
    <3>1. Max(Changes(s, i)) \in 1..n
      <4>1. Max(Changes(s, i)) \in Changes(s, i)
        BY <2>2, LastChange
      <4> QED
        BY <1>1, <4>1 DEF Changes
    <3> QED
      BY <1>1, <1>2, <2>2, <3>1 DEF Latest
  <2> QED
    BY <2>1, <2>2
<1>4. Changes(t, n + 1) = Changes(s, n) \cup (IF e.kind = "state" THEN {n + 1} ELSE {})
  <2>1. \A i \in 1..(n + 1) : i \in 1..n \/ i = n + 1
    BY <1>1
  <2>2. (\A i \in 1..n : i \in 1..(n + 1)) /\ n + 1 \in 1..(n + 1)
    BY <1>1
  <2> QED
    BY <1>1, <2>1, <2>2 DEF Changes
<1>5. /\ \A i \in Changes(s, n) : s[i].previous = Latest(s, i - 1)
      /\ Latest(s, n) = now
  BY DEF Chained, n
<1>6. ASSUME NEW i \in Changes(t, n + 1) PROVE t[i].previous = Latest(t, i - 1)
  <2>1. CASE i \in Changes(s, n)
    <3>1. i \in 1..n /\ i - 1 \in 0..n
      BY <1>1, <2>1 DEF Changes
    <3> QED
      BY <1>1, <1>3, <1>5, <2>1, <3>1
  <2>2. CASE i = n + 1 /\ e.kind = "state"
    <3>1. i - 1 = n /\ n \in 0..n
      BY <1>1, <2>2
    <3> QED
      BY <1>1, <1>3, <1>5, <2>2, <3>1
  <2> QED
    BY <1>4, <1>6, <2>1, <2>2
<1>7. Latest(t, n + 1) = IF e.kind = "state" THEN e.state ELSE now
  <2>1. CASE e.kind = "state"
    <3>1. n + 1 \in Changes(t, n + 1) /\ n + 1 \in Nat
      BY <1>1, <1>4, <2>1
    <3>2. /\ Max(Changes(t, n + 1)) \in Changes(t, n + 1)
          /\ Max(Changes(t, n + 1)) >= n + 1
      BY <3>1, LastChange
    <3>3. Max(Changes(t, n + 1)) = n + 1
      <4>1. Max(Changes(t, n + 1)) \in 1..(n + 1)
        BY <3>2 DEF Changes
      <4> QED
        BY <1>1, <3>2, <4>1
    <3> QED
      BY <1>1, <2>1, <3>1, <3>3 DEF Latest
  <2>2. CASE e.kind # "state"
    <3>1. Changes(t, n + 1) = Changes(s, n) /\ Changes(t, n) = Changes(s, n) /\ n \in 0..n
      <4>1. n \in 0..n
        BY <1>1
      <4> QED
        BY <1>2, <1>4, <2>2, <4>1, Zenon
    <3>2. Latest(t, n + 1) = Latest(t, n)
      BY <3>1 DEF Latest
    <3> QED
      BY <1>3, <1>5, <2>2, <3>1, <3>2
  <2> QED
    BY <2>1, <2>2
<1> QED
  BY <1>1, <1>6, <1>7 DEF Chained, t

(* What OnStateChanged posts prolongs the chain.                            *)
LEMMA ChainChanged ==
  ASSUME NEW s \in Seq(Event), NEW u \in States, NEW v \in States, Chained(s, v)
  PROVE  s \o OnStateChanged(u, v) \in Seq(Event) /\ Chained(s \o OnStateChanged(u, v), u)
<1>1. CASE u = v
  BY <1>1, ConcatEmptySeq DEF OnStateChanged
<1>2. CASE u # v
  <2> DEFINE e == Changed(u, v)
  <2>1. e \in Event /\ e.kind = "state" /\ e.previous = v /\ e.state = u
    BY DEF Changed, Event, StateEvent
  <2>2. s \o OnStateChanged(u, v) = Append(s, e)
    BY <1>2, <2>1, AppendIsConcat DEF OnStateChanged
  <2> HIDE DEF e
  <2> QED
    BY <2>1, <2>2, AppendProperties, ChainAppend
<1> QED
  BY <1>1, <1>2

(* Every change of the state is announced, but the last one of the worker.  *)
ChainInv == worker # "exited" => Chained(events, state)

(* Every step that changes the state announces it.                          *)
LEMMA ChainStep == Base /\ ChainInv /\ [Next]_vars => ChainInv'
<1> SUFFICES ASSUME Base, ChainInv, [Next]_vars, worker' # "exited"
             PROVE  Chained(events', state')
  BY DEF ChainInv
<1>t. events \in Seq(Event) /\ state \in States /\ Shape /\ InHand
  BY DEF Base, Blame, Shape
<1>1. CASE UNCHANGED <<worker, events, state>>
  BY <1>1 DEF ChainInv
<1>2. CASE WorkerStep
  <2>0. worker # "exited"
    BY <1>2 DEF WorkerStep, TakePrompt, TakeVoice, TakeNothing, MakeVoice, StartStream, LookUp,
      Throw, BeginSegment, Played, CloseSegment, AllSegments, Finish, Reset, CheckExit
  <2>c. Chained(events, state)
    BY <2>0 DEF ChainInv
  <2>1. CASE TakePrompt
    <3>1. state' \in States /\ events' = events \o OnStateChanged(state', state)
      BY <1>t, <2>1 DEF TakePrompt, States
    <3> QED
      BY <1>t, <2>c, <3>1, ChainChanged
  <2>2. CASE StartStream
    <3> DEFINE e == Start(spoken, exception[spoken])
    <3>1. e \in Event /\ e.kind # "state"
      BY <1>t, <2>2 DEF StartStream, Start, Event, PromptEvent, Shape, InHand, Taken
    <3>2. events' = Append(events, e) /\ state' = state
      BY <2>2 DEF StartStream
    <3> HIDE DEF e
    <3> QED
      BY <1>t, <2>c, <3>1, <3>2, ChainAppend
  <2>3. CASE Finish
    <3> DEFINE e == End(spoken, result)
               f == Changed("Ready", state)
    <3>1. e \in Event /\ e.kind # "state"
      BY <1>t, <2>3 DEF Finish, End, Event, PromptEvent, InHand, Taken
    <3>2. f \in Event /\ f.kind = "state" /\ f.previous = state /\ f.state = "Ready"
      BY <1>t DEF Changed, Event, StateEvent, States
    <3>3. \/ events' = events \o <<e>> /\ state' = state
          \/ events' = events \o <<e>> \o <<f>> /\ state' = "Ready"
      BY <2>3 DEF Finish, EndAlways
    <3> HIDE DEF e, f
    <3>4. events \o <<e>> = Append(events, e) /\ Append(events, e) \in Seq(Event)
      BY <1>t, <3>1, AppendIsConcat, AppendProperties
    <3>5. Chained(Append(events, e), state)
      BY <1>t, <2>c, <3>1, ChainAppend
    <3>6. Append(events, e) \o <<f>> = Append(Append(events, e), f)
      BY <3>2, <3>4, AppendIsConcat
    <3>7. Chained(Append(Append(events, e), f), "Ready")
      BY <3>2, <3>4, <3>5, ChainAppend
    <3> QED
      BY <3>3, <3>4, <3>5, <3>6, <3>7
  <2>4. CASE \/ TakeVoice \/ TakeNothing \/ MakeVoice \/ LookUp \/ Throw \/ BeginSegment
             \/ Played \/ CloseSegment \/ AllSegments \/ Reset \/ CheckExit
    <3>1. UNCHANGED <<events, state>>
      BY <2>4 DEF TakeVoice, TakeNothing, MakeVoice, LookUp, Throw, BeginSegment, Played,
        CloseSegment, AllSegments, Reset, CheckExit
    <3> QED
      BY <2>c, <3>1
  <2> QED
    BY <1>2, <2>1, <2>2, <2>3, <2>4 DEF WorkerStep
<1>3. CASE Dispatch \/ UNCHANGED vars
  BY <1>1, <1>3 DEF Dispatch, vars, workerVars
<1>4. ASSUME NEW c \in Client, PauseState(c) \/ ResumeState(c) PROVE Chained(events', state')
  <2>1. PICK mid \in States :
          /\ events' = events \o OnStateChanged(mid, state) \o OnStateChanged(state', mid)
          /\ state' \in States
    BY <1>4, <1>t DEF PauseState, ResumeState, States
  <2>2. worker = worker'
    BY <1>4 DEF PauseState, ResumeState, workerVars
  <2>3. Chained(events, state)
    BY <2>2 DEF ChainInv
  <2> DEFINE s == events \o OnStateChanged(mid, state)
  <2>4. s \in Seq(Event) /\ Chained(s, mid)
    BY <1>t, <2>3, ChainChanged
  <2> HIDE DEF s
  <2>5. Chained(s \o OnStateChanged(state', mid), state')
    BY <2>1, <2>4, ChainChanged
  <2> QED
    BY <2>1, <2>5 DEF s
<1>5. ASSUME NEW c \in Client, ClientStep(c) \/ ReturnStep(c) PROVE Chained(events', state')
  BY <1>1, <1>4, <1>5 DEF ClientStep, ReturnStep, SpeakAsync, SpeakTest, CancelQueued,
    CancelThrows, CancelCurrent, PauseDevice, ResumeDevice, AbortCurrent, SetOutput, GetVoice,
    Dispose, SpeakQueue, SpeakRefused, SpeakReturn, AbortQueued, CancelReturn, Swap, GotVoice,
    ResumeFlag, Settle, Join, workerVars
<1> QED
  BY <1>2, <1>3, <1>5 DEF Next

(***************************************************************************)
(* StateChanged events form a chain: each starts from the state the one    *)
(* before it announced, and the last one announces the state the           *)
(* synthesizer is in, for any number of threads that pause, resume and     *)
(* speak, until the worker has exited.                                     *)
(***************************************************************************)
THEOREM StatesInOrder == Spec => []StatesChain
<1>1. Init => ChainInv
  <2> SUFFICES ASSUME Init PROVE Chained(events, state)
    BY DEF ChainInv
  <2>1. events = <<>> /\ state = "Ready"
    BY DEF Init
  <2>2. Changes(events, Len(events)) = {}
    BY <2>1 DEF Changes
  <2> QED
    BY <2>1, <2>2 DEF Chained, Latest
<1>2. ChainInv => StatesChain
  BY DEF ChainInv, Chained, StatesChain, StateEvents, Announced, Changes, Latest
<1> QED
  BY <1>1, <1>2, ChainStep, BaseAlways, PTL DEF Spec

-----------------------------------------------------------------------------
(* A prompt is queued once: those about to be queued are fresh, each by one *)
(* client.                                                                  *)
Known == {accepted[i] : i \in DOMAIN accepted}
Distinct ==
  /\ \A i, j \in DOMAIN accepted : accepted[i] = accepted[j] => i = j
  /\ \A c \in Client : at[c] = "queueing" => arg[c] \notin Known
  /\ \A c, d \in Client : at[c] = "queueing" /\ at[d] = "queueing" /\ arg[c] = arg[d] => c = d

(* Every step keeps it: a prompt is chosen fresh, and by one client.        *)
LEMMA DistinctStep == Base /\ Distinct /\ [Next]_vars => Distinct'
<1> SUFFICES ASSUME Base, Distinct, [Next]_vars PROVE Distinct'
  OBVIOUS
<1>t. /\ at \in [Client -> Places] /\ arg \in [Client -> Prompt \cup {None}]
      /\ accepted \in Seq(Prompt)
  BY DEF Base, Blame, Shape
<1>1. ASSUME UNCHANGED accepted,
             \A d \in Client : at'[d] = "queueing" => at[d] = "queueing" /\ arg'[d] = arg[d]
      PROVE  Distinct'
  BY <1>1 DEF Distinct, Known
<1>2. ASSUME NEW c \in Client, NEW place \in Places, Goes(c, place)
      PROVE  at'[c] = place /\ \A d \in Client : d # c => at'[d] = at[d]
  BY <1>t, <1>2 DEF Goes
<1>3. ASSUME NEW p \in Prompt \ Known, accepted' = Append(accepted, p), UNCHANGED arg,
             \A d \in Client : at'[d] = "queueing" => at[d] = "queueing" /\ arg[d] # p
      PROVE  Distinct'
  <2>1. /\ Len(accepted) \in Nat /\ DOMAIN accepted = 1..Len(accepted)
        /\ DOMAIN accepted' = 1..(Len(accepted) + 1)
        /\ accepted'[Len(accepted) + 1] = p
        /\ \A i \in DOMAIN accepted : accepted'[i] = accepted[i] /\ accepted[i] # p
    <3>1. accepted' \in Seq(Prompt) /\ Len(accepted') = Len(accepted) + 1
      BY <1>t, <1>3, AppendProperties
    <3> QED
      BY <1>t, <1>3, <3>1, AppendProperties, LenProperties DEF Known
  <2>2. \A i \in DOMAIN accepted' : i \in DOMAIN accepted \/ i = Len(accepted) + 1
    BY <2>1
  <2>3. \A i, j \in DOMAIN accepted' : accepted'[i] = accepted'[j] => i = j
    BY <2>1, <2>2 DEF Distinct
  <2>4. Known' \subseteq Known \cup {p}
    BY <2>1, <2>2 DEF Known
  <2> QED
    BY <1>3, <2>3, <2>4 DEF Distinct
<1>4. CASE WorkerStep \/ Dispatch \/ UNCHANGED vars
  <2>1. UNCHANGED <<at, arg, accepted>>
    BY <1>4 DEF WorkerStep, Dispatch, vars, TakePrompt, TakeVoice, TakeNothing, MakeVoice,
      StartStream, LookUp, Throw, BeginSegment, Played, CloseSegment, AllSegments, Finish,
      Reset, CheckExit, clientVars, history
  <2> QED
    BY <1>1, <2>1
<1>5. ASSUME NEW c \in Client, NEW p \in Prompt, SpeakAsync(c, p) PROVE Distinct'
  BY <1>3, <1>5 DEF SpeakAsync, Fresh, Known, clientVars
<1>6. ASSUME NEW c \in Client, NEW p \in Prompt, SpeakTest(c, p) PROVE Distinct'
  <2>1. /\ at'[c] = "queueing" /\ arg'[c] = p /\ p \notin Known /\ UNCHANGED accepted
        /\ \A d \in Client : d # c => at'[d] = at[d] /\ arg'[d] = arg[d]
        /\ \A d \in Client : at[d] = "queueing" => arg[d] # p
    BY <1>t, <1>6 DEF SpeakTest, Goes, Fresh, Known, history
  <2> QED
    BY <2>1 DEF Distinct, Known
<1>7. ASSUME NEW c \in Client, SpeakQueue(c) PROVE Distinct'
  <2>1. /\ at[c] = "queueing" /\ at'[c] = "speaking" /\ UNCHANGED arg
        /\ accepted' = Append(accepted, arg[c])
        /\ \A d \in Client : d # c => at'[d] = at[d]
    BY <1>t, <1>7 DEF SpeakQueue, Goes
  <2>2. arg[c] \in Prompt \ Known
    BY <2>1 DEF Distinct, Base, Blame, Shape
  <2>3. \A d \in Client : at'[d] = "queueing" => at[d] = "queueing" /\ arg[d] # arg[c]
    BY <2>1 DEF Distinct
  <2> QED
    BY <1>3, <2>1, <2>2, <2>3
<1>8. ASSUME NEW c \in Client, ClientStep(c) PROVE Distinct'
  <2>1. CASE \/ \E p \in Prompt : CancelQueued(c, p) \/ CancelThrows(c, p)
             \/ PauseDevice(c) \/ ResumeDevice(c) \/ AbortCurrent(c) \/ SetOutput(c)
             \/ GetVoice(c) \/ Dispose(c)
    <3>1. UNCHANGED <<accepted, arg>>
      BY <2>1 DEF CancelQueued, CancelThrows, PauseDevice, ResumeDevice, AbortCurrent,
        SetOutput, GetVoice, Dispose, history
    <3>2. UNCHANGED at \/ \E place \in Places \ {"queueing"} : Goes(c, place)
      BY <2>1 DEF CancelQueued, CancelThrows, PauseDevice, ResumeDevice, AbortCurrent,
        SetOutput, GetVoice, Dispose, Places
    <3> QED
      BY <1>1, <1>2, <3>1, <3>2
  <2>2. ASSUME NEW p \in Prompt, CancelCurrent(c, p) PROVE Distinct'
    <3>1. /\ UNCHANGED accepted /\ at'[c] = "waiting"
          /\ \A d \in Client : d # c => at'[d] = at[d] /\ arg'[d] = arg[d]
      BY <1>t, <2>2 DEF CancelCurrent, Goes
    <3> QED
      BY <1>1, <3>1
  <2> QED
    BY <1>5, <1>6, <1>8, <2>1, <2>2 DEF ClientStep
<1>9. ASSUME NEW c \in Client, ReturnStep(c) PROVE Distinct'
  <2>1. CASE \/ PauseState(c) \/ ResumeState(c) \/ AbortQueued(c) \/ Swap(c) \/ GotVoice(c)
             \/ ResumeFlag(c) \/ Settle(c) \/ Join(c)
    <3>1. UNCHANGED <<accepted, arg>>
      BY <2>1 DEF PauseState, ResumeState, AbortQueued, Swap, GotVoice, ResumeFlag, Settle,
        Join, history
    <3>2. \E place \in Places \ {"queueing"} : Goes(c, place)
      BY <2>1 DEF PauseState, ResumeState, AbortQueued, Swap, GotVoice, ResumeFlag, Settle,
        Join, Places
    <3> QED
      BY <1>1, <1>2, <3>1, <3>2
  <2>2. CASE SpeakRefused(c) \/ SpeakReturn(c) \/ CancelReturn(c)
    <3>1. \/ UNCHANGED <<accepted, at, arg>>
          \/ /\ UNCHANGED accepted /\ at'[c] = "idle"
             /\ \A d \in Client : d # c => at'[d] = at[d] /\ arg'[d] = arg[d]
      BY <1>t, <2>2 DEF SpeakRefused, SpeakReturn, CancelReturn, Goes, history
    <3> QED
      BY <1>1, <3>1
  <2> QED
    BY <1>7, <1>9, <2>1, <2>2 DEF ReturnStep
<1> QED
  BY <1>4, <1>8, <1>9 DEF Next

(* What the order says of the prompts in the queue: each was queued once,   *)
(* is not the one in hand, and no event is about it yet; nor about the one  *)
(* in hand before its start is announced.                                   *)
LEMMA NotYet ==
  ASSUME Base, OrderInv, Distinct
  PROVE  /\ Queued \subseteq Known
         /\ worker \in Taken => spoken \in Known \ Queued
         /\ \A i \in DOMAIN events :
              events[i].kind # "state" =>
                /\ events[i].prompt \notin Queued
                /\ worker = "start" => events[i].prompt # spoken
<1>t. /\ events \in Seq(Event) /\ accepted \in Seq(Prompt)
      /\ queue \in Seq(Prompt \cup {"voice"})
  BY DEF Base, Blame, Shape
<1>d. /\ Len(accepted) \in Nat /\ DOMAIN accepted = 1..Len(accepted)
      /\ DOMAIN events = 1..Len(events) /\ DOMAIN queue = 1..Len(queue)
  BY <1>t, LenProperties
<1>1. PICK m \in Nat : AtPlace(m)
  BY DEF OrderInv
<1>2. ASSUME NEW p \in Queued
      PROVE  \E k \in 1..Len(accepted) : accepted[k] = p /\ m < k
  <2>1. PICK pos \in [1..Len(queue) -> 0..Len(accepted)] :
          \A i \in 1..Len(queue) : queue[i] # "voice" => queue[i] = accepted[pos[i]] /\ m < pos[i]
    BY <1>1 DEF AtPlace, Backlog
  <2>2. PICK i \in 1..Len(queue) : queue[i] = p /\ p # "voice"
    BY <1>2, <1>d DEF Queued
  <2>3. pos[i] \in 0..Len(accepted) /\ m < pos[i] /\ accepted[pos[i]] = p
    BY <2>1, <2>2
  <2>4. pos[i] \in 1..Len(accepted)
    BY <1>1, <1>d, <2>3
  <2> QED
    BY <2>3, <2>4
<1>3. worker \in Taken => m \in 1..Len(accepted) /\ accepted[m] = spoken
  BY <1>1, <1>d DEF AtPlace
<1>4. ASSUME NEW i \in DOMAIN events, events[i].kind # "state"
      PROVE  \E k \in 1..Len(accepted) :
               /\ accepted[k] = events[i].prompt /\ k <= m
               /\ worker = "start" => k < m
  <2>1. i \in Ranks(events, Len(events))
    BY <1>4, <1>d DEF Ranks
  <2> DEFINE n == Cardinality(Ranks(events, i))
             k == (n + 1) \div 2
  <2>2. n \in 1..Count(events) /\ Count(events) = 2 * m - Owed /\ Count(events) \in Nat
    BY <1>t, <1>1, <2>1, RankBounds DEF AtPlace
  <2>3. events[i].prompt = accepted[k]
    BY <2>1 DEF OrderInv, Alternates
  <2> HIDE DEF n
  <2>4. Owed \in 0..2 /\ (worker = "start" => Owed = 2)
    BY DEF Owed, Taken
  <2>5. \A x, y \in Nat : 1 <= x /\ x <= 2 * y => (x + 1) \div 2 \in 1..y
    OBVIOUS
  <2>6. \A x, y \in Nat : 1 <= x /\ x <= 2 * y - 2 => (x + 1) \div 2 \in 1..(y - 1)
    OBVIOUS
  <2>7. k \in 1..m /\ m <= Len(accepted)
    BY <1>1, <1>d, <2>2, <2>4, <2>5 DEF AtPlace
  <2>8. worker = "start" => k < m
    BY <1>1, <2>2, <2>4, <2>6
  <2> HIDE DEF k
  <2>9. k \in 1..Len(accepted) /\ k <= m
    BY <1>d, <2>7
  <2> QED
    BY <2>3, <2>8, <2>9
<1>5. Queued \subseteq Known
  BY <1>2, <1>d DEF Known
<1>6. worker \in Taken => spoken \in Known \ Queued
  <2> SUFFICES ASSUME worker \in Taken PROVE spoken \in Known /\ spoken \notin Queued
    OBVIOUS
  <2>1. ASSUME spoken \in Queued PROVE FALSE
    <3>1. PICK k \in 1..Len(accepted) : accepted[k] = spoken /\ m < k
      BY <1>2, <2>1
    <3>2. k = m
      BY <1>3, <1>d, <3>1 DEF Distinct
    <3> QED
      BY <3>1, <3>2
  <2> QED
    BY <1>3, <1>d, <2>1 DEF Known
<1>7. ASSUME NEW i \in DOMAIN events, events[i].kind # "state"
      PROVE  /\ events[i].prompt \notin Queued
             /\ worker = "start" => events[i].prompt # spoken
  <2>1. PICK k \in 1..Len(accepted) : /\ accepted[k] = events[i].prompt /\ k <= m
                                      /\ worker = "start" => k < m
    BY <1>4, <1>7
  <2>2. ASSUME events[i].prompt \in Queued PROVE FALSE
    <3>1. PICK l \in 1..Len(accepted) : accepted[l] = events[i].prompt /\ m < l
      BY <1>2, <2>2
    <3>2. k = l
      BY <1>d, <2>1, <3>1 DEF Distinct
    <3> QED
      BY <2>1, <3>1, <3>2
  <2>3. ASSUME worker = "start", events[i].prompt = spoken PROVE FALSE
    <3>1. m \in 1..Len(accepted) /\ accepted[m] = spoken
      BY <1>3, <2>3 DEF Taken
    <3>2. k = m
      BY <1>d, <2>1, <2>3, <3>1 DEF Distinct
    <3> QED
      BY <2>1, <2>3, <3>2
  <2> QED
    BY <2>2, <2>3
<1> QED
  BY <1>5, <1>6, <1>7

-----------------------------------------------------------------------------
(* What was purged stays silent.  A prompt still in the queue is marked as  *)
(* cancelled; one in hand (of one text segment) either carries the mark, or *)
(* has the device's flag set, or has no segment left; so does the prompt    *)
(* that a cancel call still under way found in hand.                        *)
Silent ==
  \/ aborted
  \/ worker = "start" /\ exception[spoken] # None
  \/ worker = "segment" /\ segment > LastSegment(spoken)

Marked == \A p \in purged \cap Queued : exception[p] # None
Hushed ==
  worker \in {"start", "look", "segment"} /\ spoken \notin Long \cup Wave =>
    /\ spoken \in purged => Silent
    /\ \A c \in Client : at[c] = "purging" => Silent
    /\ \A c \in Client : at[c] = "waiting" /\ arg[c] = spoken => Silent
PurgeInv == Marked /\ Hushed /\ PurgedIsSilent /\ purged \subseteq Known

(* What the other invariants give.                                          *)
Context == Base /\ CurrentInv /\ OrderInv /\ Distinct

(* What was queued stays known.                                             *)
LEMMA KnownGrows == Base /\ [Next]_vars => Known \subseteq Known'
<1> SUFFICES ASSUME Base, [Next]_vars PROVE Known \subseteq Known'
  OBVIOUS
<1>t. Shape /\ accepted \in Seq(Prompt)
  BY DEF Base, Blame
<1>1. CASE UNCHANGED accepted
  BY <1>1 DEF Known
<1>2. ASSUME NEW p \in Prompt, accepted' = Append(accepted, p) PROVE Known \subseteq Known'
  <2>1. /\ accepted' \in Seq(Prompt) /\ Len(accepted') = Len(accepted) + 1
        /\ Len(accepted) \in Nat /\ DOMAIN accepted = 1..Len(accepted)
        /\ \A i \in 1..Len(accepted) : accepted'[i] = accepted[i]
    BY <1>t, <1>2, AppendProperties, LenProperties
  <2>2. DOMAIN accepted' = 1..(Len(accepted) + 1)
    BY <2>1, LenProperties
  <2> QED
    BY <2>1, <2>2 DEF Known
<1> QED
  BY <1>t, <1>1, <1>2, AcceptedStep

(* How the queue changes: it loses its first entry, or gets a fresh one.    *)
LEMMA QueuedStep ==
  ASSUME Base, [Next]_vars
  PROVE  \/ Queued' \subseteq Queued
         \/ \E c \in Client, p \in Prompt :
              /\ SpeakAsync(c, p) \/ (SpeakQueue(c) /\ p = arg[c])
              /\ Queued' \subseteq Queued \cup {p}
<1>t. Shape /\ accepted \in Seq(Prompt) /\ queue \in Seq(Prompt \cup {"voice"})
  BY DEF Base, Blame, Shape
<1>1. CASE queue' = queue
  BY <1>1 DEF Queued
<1>2. CASE TakePrompt \/ TakeVoice
  <2>1. queue # <<>> /\ queue' = Tail(queue)
    BY <1>2 DEF TakePrompt, TakeVoice
  <2>2. /\ queue' \in Seq(Prompt \cup {"voice"}) /\ Len(queue') = Len(queue) - 1
        /\ \A i \in 1..Len(queue') : queue'[i] = queue[i + 1]
    BY <1>t, <2>1, HeadTailProperties
  <2>3. /\ DOMAIN queue' = 1..Len(queue') /\ DOMAIN queue = 1..Len(queue)
        /\ Len(queue) \in Nat
    BY <1>t, <2>2, LenProperties
  <2>4. \A i \in DOMAIN queue' : i + 1 \in DOMAIN queue /\ queue'[i] = queue[i + 1]
    BY <2>2, <2>3
  <2> QED
    BY <2>4 DEF Queued
<1>3. ASSUME NEW e \in Prompt \cup {"voice"}, queue' = Append(queue, e)
      PROVE  Queued' \subseteq Queued \cup ({e} \ {"voice"})
  <2>1. /\ queue' \in Seq(Prompt \cup {"voice"}) /\ Len(queue') = Len(queue) + 1
        /\ queue'[Len(queue) + 1] = e
        /\ \A i \in 1..Len(queue) : queue'[i] = queue[i]
    BY <1>t, <1>3, AppendProperties
  <2>2. /\ DOMAIN queue' = 1..Len(queue') /\ DOMAIN queue = 1..Len(queue)
        /\ Len(queue) \in Nat
    BY <1>t, <2>1, LenProperties
  <2>3. \A i \in DOMAIN queue' :
          (i \in DOMAIN queue /\ queue'[i] = queue[i]) \/ queue'[i] = e
    BY <2>1, <2>2
  <2> QED
    BY <2>3 DEF Queued
<1>4. ASSUME Enqueue("voice") PROVE Queued' \subseteq Queued
  BY <1>3, <1>4 DEF Enqueue
<1>5. ASSUME NEW p \in Prompt, queue' = Append(queue, p)
      PROVE  Queued' \subseteq Queued \cup {p}
  BY <1>3, <1>5
<1> QED
  BY <1>t, <1>1, <1>2, <1>4, <1>5, AcceptedStep

(* What the dispatcher gives back is about prompts announced before.        *)
LEMMA DispatchStep ==
  ASSUME Context, Dispatch
  PROVE  /\ exception' \in [Prompt -> Exceptions]
         /\ \A p \in Queued : exception'[p] = exception[p]
         /\ worker = "start" => exception'[spoken] = exception[spoken]
<1>t. /\ events \in Seq(Event) /\ exception \in [Prompt -> Exceptions]
      /\ worker \in Taken => spoken \in Prompt
      /\ Queued \subseteq Prompt
  <2>1. Shape /\ InHand
    BY DEF Context, Base, Blame
  <2>2. Queued \subseteq Prompt
    BY <2>1 DEF Queued, Shape
  <2> QED
    BY <2>1, <2>2 DEF Shape, InHand
<1> DEFINE i == delivered'
<1>1. i \in DOMAIN events
  BY <1>t, LenProperties DEF Dispatch, Context, Base, Blame, Shape
<1>2. CASE events[i].kind # "state" /\ ~disposed
  <2>1. exception' = [exception EXCEPT ![events[i].prompt] = events[i].exception]
    BY <1>2 DEF Dispatch
  <2>2. events[i] \in Event
    BY <1>1, <1>t, ElementOfSeq, LenProperties
  <2>3. events[i].prompt \in Prompt /\ events[i].exception \in Exceptions
    BY <1>2, <2>2 DEF Event, PromptEvent, StateEvent
  <2>4. /\ events[i].prompt \notin Queued
        /\ worker = "start" => events[i].prompt # spoken
    BY <1>1, <1>2, NotYet DEF Context
  <2>5. exception' \in [Prompt -> Exceptions]
    BY <1>t, <2>1, <2>3
  <2>6. \A p \in Prompt : p # events[i].prompt => exception'[p] = exception[p]
    BY <1>t, <2>1
  <2>7. worker = "start" => spoken \in Prompt
    BY <1>t DEF Taken
  <2> QED
    BY <1>t, <2>4, <2>5, <2>6, <2>7
<1>3. CASE ~(events[i].kind # "state" /\ ~disposed)
  <2>1. exception' = exception
    BY <1>3 DEF Dispatch
  <2> QED
    BY <1>t, <2>1
<1> QED
  BY <1>2, <1>3

(* Which steps purge prompts, and which.                                    *)
LEMMA PurgedStep ==
  ASSUME [Next]_vars
  PROVE  \/ UNCHANGED purged
         \/ \E c \in Client : /\ AbortQueued(c)
                              /\ purged' = purged \cup Queued \cup Speaking
         \/ \E c \in Client : /\ CancelReturn(c)
                              /\ purged' = purged \cup ({arg[c]} \cap Speaking)
         \/ \E c \in Client, p \in Prompt : /\ CancelQueued(c, p) /\ p \in Queued
                                            /\ purged' = purged \cup {p}
<1>1. CASE WorkerStep \/ Dispatch \/ UNCHANGED vars
  BY <1>1 DEF WorkerStep, Dispatch, vars, TakePrompt, TakeVoice, TakeNothing, MakeVoice,
    StartStream, LookUp, Throw, BeginSegment, Played, CloseSegment, AllSegments, Finish, Reset,
    CheckExit, history
<1>2. ASSUME NEW c \in Client, ClientStep(c) \/ ReturnStep(c)
      PROVE  \/ UNCHANGED purged
             \/ AbortQueued(c) /\ purged' = purged \cup Queued \cup Speaking
             \/ CancelReturn(c) /\ purged' = purged \cup ({arg[c]} \cap Speaking)
             \/ \E p \in Prompt : /\ CancelQueued(c, p) /\ p \in Queued
                                  /\ purged' = purged \cup {p}
  <2>1. CASE AbortQueued(c)
    BY <2>1 DEF AbortQueued
  <2>2. CASE CancelReturn(c)
    BY <2>2 DEF CancelReturn
  <2>3. ASSUME NEW p \in Prompt, CancelQueued(c, p)
        PROVE  p \in Queued /\ purged' = purged \cup {p}
    BY <2>3 DEF CancelQueued
  <2>4. CASE ~AbortQueued(c) /\ ~CancelReturn(c) /\ \A p \in Prompt : ~CancelQueued(c, p)
    BY <1>2, <2>4 DEF ClientStep, ReturnStep, SpeakAsync, SpeakTest, CancelThrows,
      CancelCurrent, PauseDevice, ResumeDevice, AbortCurrent, SetOutput, GetVoice, Dispose,
      SpeakQueue, SpeakRefused, SpeakReturn, PauseState, ResumeState, Swap, GotVoice,
      ResumeFlag, Settle, Join, history
  <2> QED
    BY <2>1, <2>2, <2>3, <2>4
<1> QED
  BY <1>1, <1>2 DEF Next

(* Only prompts that were queued are purged.                                *)
LEMMA PurgedKnownStep ==
  ASSUME Context, purged \subseteq Known, [Next]_vars
  PROVE  purged' \subseteq Known'
<1>1. Queued \subseteq Known /\ Speaking \subseteq Known /\ Known \subseteq Known'
  BY NotYet, KnownGrows DEF Context, Speaking, Taken
<1> QED
  BY <1>1, PurgedStep

(* The mark of a prompt in the queue stays until it is taken.               *)
LEMMA MarkedStep ==
  ASSUME Context, Marked, purged \subseteq Known, [Next]_vars
  PROVE  Marked'
<1>t. /\ exception \in [Prompt -> Exceptions] /\ Queued \subseteq Prompt
      /\ Queued \subseteq Known
      /\ worker \in Taken => spoken \notin Queued /\ spoken \in Prompt
  <2>1. Shape /\ InHand
    BY DEF Context, Base, Blame
  <2>2. Queued \subseteq Prompt
    BY <2>1 DEF Queued, Shape
  <2> QED
    BY <2>1, <2>2, NotYet DEF Context, Shape, InHand
<1>1. ASSUME \A p \in Queued : exception[p] # None => exception'[p] # None,
             \A p \in Queued : p \in purged' \ purged => exception'[p] # None
      PROVE  Marked'
  <2>1. CASE Queued' \subseteq Queued
    BY <1>1, <2>1 DEF Marked
  <2>2. ASSUME NEW c \in Client, NEW p \in Prompt,
               SpeakAsync(c, p) \/ (SpeakQueue(c) /\ p = arg[c]),
               Queued' \subseteq Queued \cup {p}
        PROVE  Marked'
    <3>1. p \notin Known
      BY <2>2 DEF SpeakAsync, SpeakQueue, Fresh, Known, Context, Distinct
    <3>2. UNCHANGED purged
      BY <2>2 DEF SpeakAsync, SpeakQueue
    <3> QED
      BY <1>1, <2>2, <3>1, <3>2 DEF Marked
  <2> QED
    BY <2>1, <2>2, QueuedStep DEF Context
<1>2. ASSUME NEW c \in Client, AbortQueued(c) PROVE Marked'
  <2>1. exception' = [p \in Prompt |-> IF p \in Queued THEN "cancelled" ELSE exception[p]]
    BY <1>2 DEF AbortQueued
  <2>2. \A p \in Queued : exception'[p] # None
    BY <1>t, <2>1, NoneIsNobody
  <2> QED
    BY <1>1, <2>2
<1>3. ASSUME NEW c \in Client, NEW p \in Prompt, CancelQueued(c, p) PROVE Marked'
  <2>1. exception' = [exception EXCEPT ![p] = "cancelled"] /\ purged' = purged \cup {p}
    BY <1>3 DEF CancelQueued
  <2>2. \A q \in Queued : exception'[q] = IF q = p THEN "cancelled" ELSE exception[q]
    BY <1>t, <2>1
  <2> QED
    BY <1>1, <2>1, <2>2, NoneIsNobody
<1>4. ASSUME NEW c \in Client, CancelReturn(c) PROVE Marked'
  <2>1. UNCHANGED exception /\ purged' = purged \cup ({arg[c]} \cap Speaking)
    BY <1>4 DEF CancelReturn
  <2>2. Speaking \cap Queued = {}
    BY <1>t DEF Speaking, Taken
  <2> QED
    BY <1>1, <2>1, <2>2
<1>5. CASE Finish
  <2>1. worker = "finish" /\ exception' = [exception EXCEPT ![spoken] = result]
        /\ UNCHANGED purged
    BY <1>5 DEF Finish, history
  <2>2. spoken \notin Queued
    BY <1>t, <2>1 DEF Taken
  <2>3. \A p \in Queued : exception'[p] = exception[p]
    BY <1>t, <2>1, <2>2
  <2> QED
    BY <1>1, <2>1, <2>3
<1>6. CASE Dispatch
  <2>1. UNCHANGED purged
    BY <1>6 DEF Dispatch, history
  <2> QED
    BY <1>1, <1>6, <2>1, DispatchStep
<1>7. CASE UNCHANGED <<exception, purged>>
  BY <1>1, <1>7
<1>8. CASE WorkerStep \/ UNCHANGED vars
  BY <1>5, <1>7, <1>8 DEF WorkerStep, vars, TakePrompt, TakeVoice, TakeNothing, MakeVoice,
    StartStream, LookUp, Throw, BeginSegment, Played, CloseSegment, AllSegments, Reset,
    CheckExit, history
<1>9. ASSUME NEW c \in Client, ClientStep(c) \/ ReturnStep(c) PROVE Marked'
  <2>1. CASE ~AbortQueued(c) /\ ~CancelReturn(c) /\ \A p \in Prompt : ~CancelQueued(c, p)
    <3>1. UNCHANGED <<exception, purged>>
      BY <1>9, <2>1 DEF ClientStep, ReturnStep, SpeakAsync, SpeakTest, CancelThrows,
        CancelCurrent, PauseDevice, ResumeDevice, AbortCurrent, SetOutput, GetVoice, Dispose,
        SpeakQueue, SpeakRefused, SpeakReturn, PauseState, ResumeState, Swap, GotVoice,
        ResumeFlag, Settle, Join, history
    <3> QED
      BY <1>7, <3>1
  <2> QED
    BY <1>2, <1>3, <1>4, <2>1
<1> QED
  BY <1>6, <1>8, <1>9 DEF Next

(* Before its only segment the prompt in hand is the current one.           *)
LEMMA InHandIsCurrent ==
  ASSUME Context, spoken \notin Long, worker \in {"start", "look", "segment"}, ~Silent
  PROVE  currentPrompt = spoken /\ spoken # None /\ state # "Ready"
<1>1. segment \in 1..3 /\ spoken \in Prompt /\ LastSegment(spoken) = 1
  BY DEF Context, Base, Kinds, Blame, InHand, Taken, LastSegment
<1>2. worker = "segment" => segment = 1
  BY <1>1 DEF Silent
<1>3. spoken # None
  BY <1>1, NoneIsNobody
<1> QED
  BY <1>2, <1>3 DEF Context, CurrentInv

(* The worker: a prompt taken brings its mark along, a segment that begins  *)
(* looks at the flag, one that ends was the last.                           *)
LEMMA HushedWorker ==
  ASSUME Context, PurgeInv, WorkerStep
  PROVE  Hushed' /\ PurgedIsSilent'
<1>u. UNCHANGED <<at, arg, purged>>
  BY DEF WorkerStep, TakePrompt, TakeVoice, TakeNothing, MakeVoice, StartStream, LookUp, Throw,
    BeginSegment, Played, CloseSegment, AllSegments, Finish, Reset, CheckExit, clientVars,
    history
<1>1. CASE TakePrompt
  <2>1. /\ worker' = "start" /\ spoken' = Head(queue) /\ UNCHANGED exception
        /\ QueueFree /\ queue # <<>> /\ Head(queue) # "voice"
    BY <1>1 DEF TakePrompt
  <2>2. Head(queue) \in Queued
    <3>1. queue \in Seq(Prompt \cup {"voice"})
      BY DEF Context, Base, Blame, Shape
    <3>2. 1 \in DOMAIN queue /\ Head(queue) = queue[1]
      BY <2>1, <3>1, EmptySeq, LenProperties
    <3> QED
      BY <2>1, <3>2 DEF Queued
  <2>3. \A c \in Client : at[c] \notin {"purging", "waiting"}
    BY <2>1, NoneIsNobody DEF QueueFree, LockKept, Context, Base, Blame
  <2>4. spoken' \in purged => exception[spoken'] # None
    BY <2>1, <2>2 DEF PurgeInv, Marked
  <2> QED
    BY <1>u, <2>1, <2>3, <2>4 DEF Hushed, Silent, PurgedIsSilent
<1>2. CASE StartStream
  <2>1. CASE exception[spoken] = None
    <3>1. /\ worker = "start" /\ worker' = "look"
          /\ UNCHANGED <<spoken, aborted, segment, exception>>
      BY <1>2, <2>1 DEF StartStream, deviceVars
    <3>2. Silent => aborted
      BY <2>1, <3>1 DEF Silent
    <3> QED
      BY <1>u, <3>1, <3>2 DEF PurgeInv, Hushed, Silent, PurgedIsSilent
  <2>2. CASE exception[spoken] # None
    BY <1>2, <2>2 DEF StartStream, Hushed, PurgedIsSilent
  <2> QED
    BY <2>1, <2>2
<1>3. CASE LookUp
  <2>1. worker = "look" /\ worker' = "segment" /\ UNCHANGED <<spoken, aborted>>
    BY <1>3 DEF LookUp, deviceVars
  <2>2. Silent => aborted
    BY <2>1 DEF Silent
  <2> QED
    BY <1>u, <2>1, <2>2 DEF PurgeInv, Hushed, Silent, PurgedIsSilent
<1>4. CASE BeginSegment
  <2>1. CASE SeesAbort
    BY <1>4, <2>1 DEF BeginSegment, Hushed, PurgedIsSilent
  <2>2. CASE ~SeesAbort /\ spoken \in Long \cup Wave
    BY <1>4, <2>2 DEF BeginSegment, Hushed, PurgedIsSilent
  <2>3. CASE ~SeesAbort /\ spoken \notin Long \cup Wave
    <3>1. /\ worker = "segment" /\ segment <= LastSegment(spoken) /\ worker' = "play"
          /\ spoken' = spoken
      BY <1>4, <2>3 DEF BeginSegment
    <3>2. LastSegment(spoken) = 1 /\ segment \in 1..3
      BY <2>3 DEF LastSegment, Context, Base, Kinds
    <3>3. ~(segment > LastSegment(spoken))
      BY <3>1, <3>2
    <3>4. ~Silent
      BY <2>3, <3>1, <3>3 DEF Silent, SeesAbort
    <3>5. spoken \notin purged
      BY <2>3, <3>1, <3>4 DEF PurgeInv, Hushed
    <3> QED
      BY <1>u, <3>1, <3>5 DEF Hushed, PurgedIsSilent
  <2> QED
    BY <2>1, <2>2, <2>3
<1>5. CASE CloseSegment
  <2>1. worker' \in {"segment", "finish"} /\ segment' = segment + 1 /\ spoken' = spoken
    BY <1>5 DEF CloseSegment
  <2>2. segment \in 1..3 /\ (spoken \notin Long => LastSegment(spoken) = 1)
    BY DEF LastSegment, Context, Base, Kinds
  <2>3. spoken' \notin Long => segment' > LastSegment(spoken')
    BY <2>1, <2>2
  <2>4. worker' = "segment" /\ spoken' \notin Long => Silent'
    BY <2>3 DEF Silent
  <2> QED
    BY <2>1, <2>4 DEF Hushed, PurgedIsSilent
<1>6. CASE \/ TakeVoice \/ TakeNothing \/ MakeVoice \/ Throw \/ Played \/ AllSegments
           \/ Finish \/ Reset \/ CheckExit
  <2>1. worker' \notin {"start", "look", "segment", "play"}
    BY <1>6 DEF TakeVoice, TakeNothing, MakeVoice, Throw, Played, AllSegments, Finish, Reset,
      CheckExit
  <2> QED
    BY <2>1 DEF Hushed, PurgedIsSilent
<1> QED
  BY <1>1, <1>2, <1>3, <1>4, <1>5, <1>6 DEF WorkerStep

(* The others: a cancel call aborts the current prompt, and counts it as    *)
(* purged only while no segment is spoken.                                  *)
LEMMA HushedOthers ==
  ASSUME Context, PurgeInv,
         Dispatch \/ \E c \in Client : ClientStep(c) \/ ReturnStep(c)
  PROVE  Hushed' /\ PurgedIsSilent'
<1>t. /\ at \in [Client -> Places] /\ arg \in [Client -> Prompt \cup {None}]
      /\ exception \in [Prompt -> Exceptions]
      /\ worker \in Taken => spoken \in Prompt /\ spoken \notin Queued
      /\ LockKept
  BY NotYet DEF Context, Base, Blame, Shape, InHand
<1>h. /\ worker \in {"start", "look", "segment"} /\ spoken \notin Long \cup Wave =>
           /\ spoken \in purged => Silent
           /\ \A c \in Client : at[c] = "purging" => Silent
           /\ \A c \in Client : at[c] = "waiting" /\ arg[c] = spoken => Silent
      /\ worker = "play" /\ spoken \notin Long \cup Wave => spoken \notin purged
  BY DEF PurgeInv, Hushed, PurgedIsSilent
(* Most steps neither name a prompt nor touch the one in hand. *)
<1>1. ASSUME UNCHANGED <<worker, spoken, segment, purged>>,
             worker \in {"start", "look", "segment"} /\ Silent => Silent',
             \A d \in Client : /\ at'[d] = "purging" => at[d] = "purging"
                               /\ at'[d] = "waiting" => at[d] = "waiting" /\ arg'[d] = arg[d]
      PROVE  Hushed' /\ PurgedIsSilent'
  BY <1>h, <1>1 DEF Hushed, PurgedIsSilent
<1>2. ASSUME UNCHANGED <<worker, spoken, segment, aborted, exception>> PROVE Silent' = Silent
  BY <1>2 DEF Silent
<1>3. ASSUME NEW c \in Client, NEW place \in Places, Goes(c, place)
      PROVE  at'[c] = place /\ \A d \in Client : d # c => at'[d] = at[d]
  BY <1>t, <1>3 DEF Goes
<1>4. CASE Dispatch
  <2>1. UNCHANGED <<worker, spoken, segment, purged, aborted, at, arg>>
    BY <1>4 DEF Dispatch, workerVars, deviceVars, clientVars, history
  <2>2. worker = "start" => exception'[spoken] = exception[spoken]
    BY <1>4, DispatchStep
  <2> QED
    BY <1>1, <2>1, <2>2 DEF Silent
<1>5. ASSUME NEW c \in Client, NEW p \in Prompt, CancelQueued(c, p)
      PROVE  Hushed' /\ PurgedIsSilent'
  <2>1. /\ UNCHANGED <<worker, spoken, segment, aborted, at, arg>>
        /\ p \in Queued /\ purged' = purged \cup {p}
        /\ exception' = [exception EXCEPT ![p] = "cancelled"]
    BY <1>5 DEF CancelQueued, workerVars, deviceVars
  <2>2. worker \in Taken => exception'[spoken] = exception[spoken] /\ spoken # p
    BY <1>t, <2>1
  <2>3. worker \in Taken => (spoken \in purged' <=> spoken \in purged) /\ Silent' = Silent
    BY <2>1, <2>2 DEF Silent
  <2> QED
    BY <1>h, <2>1, <2>3 DEF Hushed, PurgedIsSilent, Taken
<1>6. ASSUME NEW c \in Client, NEW p \in Prompt, CancelCurrent(c, p)
      PROVE  Hushed' /\ PurgedIsSilent'
  <2>1. /\ UNCHANGED <<worker, spoken, segment, exception, purged>>
        /\ aborted' = (aborted \/ currentPrompt = p)
        /\ at'[c] = "waiting" /\ arg'[c] = p
        /\ \A d \in Client : d # c => at'[d] = at[d] /\ arg'[d] = arg[d]
    BY <1>t, <1>6 DEF CancelCurrent, workerVars, Goes
  <2>2. Silent => Silent'
    BY <2>1 DEF Silent
  <2>3. worker \in {"start", "look", "segment"} /\ spoken \notin Long /\ p = spoken => Silent'
    <3> SUFFICES ASSUME worker \in {"start", "look", "segment"}, spoken \notin Long,
                        p = spoken, ~Silent
                 PROVE  Silent'
      BY <2>2
    <3>1. currentPrompt = p
      BY InHandIsCurrent
    <3> QED
      BY <2>1, <3>1 DEF Silent
  <2> QED
    BY <1>h, <2>1, <2>2, <2>3 DEF Hushed, PurgedIsSilent
<1>7. ASSUME NEW c \in Client, AbortCurrent(c) PROVE Hushed' /\ PurgedIsSilent'
  <2>1. /\ UNCHANGED <<worker, spoken, segment, exception, purged, arg>>
        /\ aborted' = (aborted \/ currentPrompt # None)
        /\ \A d \in Client : d # c => at'[d] = at[d]
    BY <1>t, <1>7 DEF AbortCurrent, AbortsDevice, workerVars, Goes
  <2>2. worker \in {"start", "look", "segment"} /\ spoken \notin Long => Silent'
    <3> SUFFICES ASSUME worker \in {"start", "look", "segment"}, spoken \notin Long
                 PROVE  Silent'
      OBVIOUS
    <3>1. CASE Silent
      BY <2>1, <3>1 DEF Silent
    <3>2. CASE ~Silent
      <4>1. currentPrompt # None
        BY <3>2, InHandIsCurrent
      <4> QED
        BY <2>1, <4>1 DEF Silent
    <3> QED
      BY <3>1, <3>2
  <2> QED
    BY <1>h, <2>1, <2>2 DEF Hushed, PurgedIsSilent
<1>8. ASSUME NEW c \in Client, AbortQueued(c) PROVE Hushed' /\ PurgedIsSilent'
  <2>1. /\ UNCHANGED <<worker, spoken, segment, aborted>> /\ at[c] = "purging"
        /\ exception' = [p \in Prompt |-> IF p \in Queued THEN "cancelled" ELSE exception[p]]
        /\ worker \notin {"play", "close"}
    BY <1>8 DEF AbortQueued, ProcessingFree, workerVars, deviceVars
  <2>2. worker \in {"start", "look", "segment"} /\ spoken \notin Long \cup Wave => Silent
    BY <1>h, <2>1
  <2>3. worker \in Taken => exception'[spoken] = exception[spoken]
    BY <1>t, <2>1
  <2>4. worker \in {"start", "look", "segment"} /\ spoken \notin Long \cup Wave => Silent'
    BY <2>1, <2>2, <2>3 DEF Silent, Taken
  <2> QED
    BY <2>1, <2>4 DEF Hushed, PurgedIsSilent
<1>9. ASSUME NEW c \in Client, CancelReturn(c) PROVE Hushed' /\ PurgedIsSilent'
  <2>1. /\ UNCHANGED <<worker, spoken, segment, aborted, exception>>
        /\ purged' = purged \cup ({arg[c]} \cap Speaking)
        /\ at[c] = "waiting" /\ worker \notin {"play", "close"}
        /\ at'[c] = "idle"
        /\ \A d \in Client : d # c => at'[d] = at[d] /\ arg'[d] = arg[d]
    BY <1>t, <1>9 DEF CancelReturn, ProcessingFree, workerVars, deviceVars, Goes
  <2>2. Silent' = Silent
    BY <1>2, <2>1
  <2>3. spoken \in purged' => spoken \in purged \/ arg[c] = spoken
    BY <2>1
  <2> QED
    BY <1>h, <2>1, <2>2, <2>3 DEF Hushed, PurgedIsSilent
<1>10. ASSUME NEW c \in Client, Swap(c) PROVE Hushed' /\ PurgedIsSilent'
  <2>1. /\ UNCHANGED <<worker, spoken, segment, exception, purged, arg>>
        /\ at[c] = "swapping" /\ at'[c] = "idle"
        /\ \A d \in Client : d # c => at'[d] = at[d]
    BY <1>t, <1>10 DEF Swap, workerVars, history, Goes
  <2>2. state = "Ready"
    BY <2>1 DEF Context, CurrentInv
(* Ready: no prompt in hand, unless its segment is over or its end is due. *)
  <2>3. worker \in {"start", "look", "segment"} /\ spoken \notin Long => Silent'
    <3> SUFFICES ASSUME worker \in {"start", "look", "segment"}, spoken \notin Long
                 PROVE  Silent'
      OBVIOUS
    <3>1. spoken # None /\ segment \in 1..3 /\ LastSegment(spoken) = 1
      BY <1>t, NoneIsNobody DEF Taken, LastSegment, Context, Base, Kinds
    <3>2. worker = "segment" /\ segment # 1
      BY <2>2, <3>1 DEF Context, CurrentInv
    <3>3. segment > LastSegment(spoken)
      BY <3>1, <3>2
    <3> QED
      BY <2>1, <3>2, <3>3 DEF Silent
  <2> QED
    BY <1>h, <2>1, <2>3 DEF Hushed, PurgedIsSilent
<1>11. ASSUME NEW c \in Client, ClientStep(c) PROVE Hushed' /\ PurgedIsSilent'
  <2>1. CASE \/ \E p \in Prompt : SpeakAsync(c, p) \/ CancelThrows(c, p)
             \/ PauseDevice(c) \/ ResumeDevice(c) \/ SetOutput(c) \/ GetVoice(c) \/ Dispose(c)
    <3>1. UNCHANGED <<worker, spoken, segment, aborted, exception, purged, arg>>
      BY <2>1 DEF SpeakAsync, CancelThrows, PauseDevice, ResumeDevice, SetOutput, GetVoice,
        Dispose, workerVars, deviceVars, clientVars, history
    <3>2. \/ UNCHANGED at
          \/ \E place \in Places \ {"purging", "waiting"} : Goes(c, place)
      BY <2>1 DEF SpeakAsync, CancelThrows, PauseDevice, ResumeDevice, SetOutput, GetVoice,
        Dispose, clientVars, Places
    <3> QED
      BY <1>1, <1>2, <1>3, <3>1, <3>2
  <2>2. ASSUME NEW p \in Prompt, SpeakTest(c, p) PROVE Hushed' /\ PurgedIsSilent'
    <3>1. /\ UNCHANGED <<worker, spoken, segment, aborted, exception, purged>>
          /\ at'[c] = "queueing"
          /\ \A d \in Client : d # c => at'[d] = at[d] /\ arg'[d] = arg[d]
      BY <1>t, <2>2 DEF SpeakTest, workerVars, deviceVars, history, Goes
    <3> QED
      BY <1>1, <1>2, <3>1
  <2> QED
    BY <1>5, <1>6, <1>7, <1>11, <2>1, <2>2 DEF ClientStep
<1>12. ASSUME NEW c \in Client, ReturnStep(c) PROVE Hushed' /\ PurgedIsSilent'
  <2>1. CASE \/ SpeakQueue(c) \/ PauseState(c) \/ ResumeState(c) \/ GotVoice(c)
             \/ ResumeFlag(c) \/ Settle(c) \/ Join(c)
    <3>1. UNCHANGED <<worker, spoken, segment, aborted, exception, purged, arg>>
      BY <2>1 DEF SpeakQueue, PauseState, ResumeState, GotVoice, ResumeFlag, Settle, Join,
        workerVars, deviceVars, history
    <3>2. \E place \in Places \ {"purging", "waiting"} : Goes(c, place)
      BY <2>1 DEF SpeakQueue, PauseState, ResumeState, GotVoice, ResumeFlag, Settle, Join, Places
    <3> QED
      BY <1>1, <1>2, <1>3, <3>1, <3>2
  <2>2. CASE SpeakRefused(c) \/ SpeakReturn(c)
    <3>1. /\ UNCHANGED <<worker, spoken, segment, aborted, exception, purged>>
          /\ \/ UNCHANGED <<at, arg>>
             \/ /\ at'[c] = "idle"
                /\ \A d \in Client : d # c => at'[d] = at[d] /\ arg'[d] = arg[d]
      BY <1>t, <2>2 DEF SpeakRefused, SpeakReturn, workerVars, deviceVars, history, Goes
    <3> QED
      BY <1>1, <1>2, <3>1
  <2> QED
    BY <1>8, <1>9, <1>10, <1>12, <2>1, <2>2 DEF ReturnStep
<1> QED
  BY <1>4, <1>11, <1>12

(***************************************************************************)
(* Abort "synchronously purges all data that is currently in the rendering *)
(* pipeline" (369-373): for any clients, a prompt that SpeakAsyncCancel,   *)
(* SpeakAsyncCancelAll or Dispose found queued or in hand is not heard     *)
(* after the call has returned, if it is of one text segment, whatever the *)
(* others are.  It rests on the order of the prompts (a mark in            *)
(* Prompt.Exception is not overwritten by an earlier event).               *)
(***************************************************************************)
THEOREM PurgedStaysSilent == Spec => []PurgedIsSilent
<1>1. Init => Distinct /\ PurgeInv
  <2> SUFFICES ASSUME Init PROVE Distinct /\ PurgeInv
    OBVIOUS
  <2>1. /\ accepted = <<>> /\ purged = {} /\ worker = "wait"
        /\ \A c \in Client : at[c] = "idle"
    BY DEF Init
  <2>2. Distinct
    BY <2>1 DEF Distinct
  <2> QED
    BY <2>1, <2>2 DEF PurgeInv, Marked, Hushed, PurgedIsSilent
<1>2. Base /\ Distinct /\ [Next]_vars => Distinct'
  BY DistinctStep
<1>3. Context /\ PurgeInv /\ [Next]_vars => PurgeInv'
  <2> SUFFICES ASSUME Context, PurgeInv, [Next]_vars PROVE PurgeInv'
    OBVIOUS
  <2>1. purged \subseteq Known /\ Marked
    BY DEF PurgeInv
  <2>2. Marked' /\ purged' \subseteq Known'
    BY <2>1, MarkedStep, PurgedKnownStep
  <2>3. CASE Next
    BY <2>2, <2>3, HushedWorker, HushedOthers DEF Next, PurgeInv
  <2>4. CASE UNCHANGED vars
    <3>1. UNCHANGED <<worker, spoken, segment, aborted, exception, purged, at, arg>>
      BY <2>4 DEF vars, workerVars, deviceVars, clientVars, history
    <3>2. Hushed' /\ PurgedIsSilent'
      BY <3>1 DEF PurgeInv, Hushed, Silent, PurgedIsSilent
    <3> QED
      BY <2>2, <3>2 DEF PurgeInv
  <2> QED
    BY <2>3, <2>4
<1>4. Base /\ CurrentInv /\ OrderInv /\ Distinct => Context
  BY DEF Context
<1>5. PurgeInv => PurgedIsSilent
  BY DEF PurgeInv
<1> QED
  BY <1>1, <1>2, <1>3, <1>4, <1>5, BaseAlways, CurrentAlways, OrderAlways, PTL DEF Spec
=============================================================================
