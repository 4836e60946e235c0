--------------------------- MODULE RecognizerBase ---------------------------
(***************************************************************************)
(* The recognizer of System.Speech (Recognition/RecognizerBase.cs) as      *)
(* SpeechRecognitionEngine uses it: in process, with SAPI 5.3.             *)
(*                                                                         *)
(*  - The application loads grammars, recognizes, cancels and disposes,    *)
(*    and starts recognitions from its event handlers.                     *)
(*  - A pool thread loads each grammar; another waits for the loads and    *)
(*    starts the engine (RecognizeAsyncWaitForGrammarsToLoad).             *)
(*  - The engine, external, hears phrases and posts events.                *)
(*  - The event thread handles them in order (DispatchEvents).             *)
(*  - Completed events go through _asyncWorkerUI, which the application    *)
(*    drains itself inside Recognize.                                      *)
(*                                                                         *)
(* A step is a section under lock (SapiRecognizer), a call of the engine,  *)
(* or the code between two of them.  Both queues are the serialized        *)
(* dispatcher of AsyncSerializedWorker.  Recognitions are numbered, and a  *)
(* flag holds the number of the recognition it was set in, negated when     *)
(* Recognize set it to give up; 0 is false.                                 *)
(***************************************************************************)
EXTENDS Integers, Sequences, FiniteSets

CONSTANTS
  Grammar,      (* grammars                                                *)
  None,         (* no grammar                                              *)
  MaxSessions,  (* bound on the recognitions                               *)
  MaxLoads,     (* bound on the asynchronous loads                         *)
  MaxPhrases,   (* bound on the phrases the engine hears                   *)
  MaxCalls,     (* bound on cancels, stops, unloads, SetInput, Dispose      *)
  LoadsFail,    (* a grammar may fail to load                              *)
  StartFails    (* the engine may fail to start                            *)

Session == 1..MaxSessions
Timeout == {"silence", "babble"}

ASSUME NoneIsNoGrammar == None \notin Grammar
ASSUME GrammarIsFinite == IsFiniteSet(Grammar)
ASSUME BoundsAreNat == {MaxSessions, MaxLoads, MaxPhrases, MaxCalls} \subseteq Nat
ASSUME FailuresAreBoolean == {LoadsFail, StartFails} \subseteq BOOLEAN

VARIABLES
  state,       (* grammar.State                                            *)
  load,        (* where the pool thread that loads it is                   *)
  operationCount, loadsDone,   (* the OperationLock: count and event       *)
  isRecognizing,
  isRecognizeCancelled,
  recognizeMode,
  haveInputSource,
  detecting,   (* _detectingInitialSilenceTimeout, _detectingBabbleTimeout *)
  reached,     (* _initialSilenceTimeoutReached, _babbleTimeoutReached     *)
  lastResult,
  task,        (* where the pool thread of each recognition is             *)
  active,      (* the state of the engine                                  *)
  stream,      (* its stream: "off", "on", or inside a "phrase"            *)
  marks,       (* the timeout bookmarks it is to report                    *)
  events,      (* its events, on the way to the event thread               *)
  completing,  (* the completed event the event thread is about to post    *)
  ui,          (* _asyncWorkerUI: the completed events                     *)
  at,          (* where the application is                                 *)
  gaveUp,      (* canceled, in Recognize                                   *)
  disposed,    (* "no", "yes", or while Dispose runs                       *)
  started,     (* recognitions started                                     *)
  awaited,     (* for each, the loads that were under way                  *)
  loads, phrases, calls        (* counted for the bounds                   *)

loadVars == <<state, load, operationCount, loadsDone, awaited>>
flagVars == <<isRecognizing, isRecognizeCancelled, recognizeMode, haveInputSource>>
dispatchVars == <<detecting, reached, lastResult, completing>>
engineVars == <<active, stream, marks, phrases>>
appVars == <<at, gaveUp, disposed>>
countVars == <<started, loads, calls>>
vars == <<loadVars, flagVars, dispatchVars, task, engineVars, events, ui, appVars,
          countVars>>

Init ==
  /\ state = [g \in Grammar |-> "unloaded"]
  /\ load = [g \in Grammar |-> "none"]
  /\ operationCount = 0 /\ loadsDone = TRUE
  /\ isRecognizing = FALSE /\ isRecognizeCancelled = 0
  /\ recognizeMode = "multiple" /\ haveInputSource = TRUE
  /\ detecting = {} /\ reached = [x \in Timeout |-> 0] /\ lastResult = 0
  /\ task = [s \in Session |-> "none"]
  /\ active = FALSE /\ stream = "off" /\ marks = {} /\ events = <<>>
  /\ completing = <<>> /\ ui = <<>>
  /\ at = "idle" /\ gaveUp = FALSE /\ disposed = "no"
  /\ started = 0 /\ awaited = [s \in Session |-> {}]
  /\ loads = 0 /\ phrases = 0 /\ calls = 0

Alive == disposed = "no"
Calls == at = "idle" /\ Alive

-----------------------------------------------------------------------------
(* Grammars.                                                                *)

(* The operations after one more has started.  The mutant forgets those     *)
(* under way.                                                               *)
CountsNew(count) == 1
CountsAll(count) == count + 1

(* OperationLock.StartOperation, and the load goes to the pool. *)
LoadGrammarAsync(g) ==
  /\ Calls
  /\ loads < MaxLoads /\ loads' = loads + 1
  /\ state[g] = "unloaded" /\ load[g] = "none"
  /\ state' = [state EXCEPT ![g] = "loading"]
  /\ load' = [load EXCEPT ![g] = "load"]
  /\ loadsDone' = (loadsDone /\ operationCount # 0)
  /\ operationCount' = CountsAll(operationCount)
  /\ UNCHANGED <<awaited, flagVars, dispatchVars, task, engineVars, events, ui,
                 appVars, started, calls>>

(* LoadGrammarAsyncCallback, under _grammarDataLock. *)
LoadGrammarAsyncCallback(g) ==
  /\ load[g] = "load"
  /\ \/ state' = [state EXCEPT ![g] = "loaded"]
     \/ LoadsFail /\ state' = [state EXCEPT ![g] = "failed"]
  /\ load' = [load EXCEPT ![g] = "finish"]
  /\ UNCHANGED <<operationCount, loadsDone, awaited, flagVars, dispatchVars, task,
                 engineVars, events, ui, appVars, countVars>>

(* Whether the last operation has finished.  The mutant signals on each.    *)
EachFinishes(count) == TRUE
LastFinishes(count) == count = 0

(* OperationLock.FinishOperation. *)
FinishOperation(g) ==
  /\ load[g] = "finish"
  /\ load' = [load EXCEPT ![g] = "none"]
  /\ operationCount' = operationCount - 1
  /\ loadsDone' = (loadsDone \/ LastFinishes(operationCount'))
  /\ awaited' = [s \in Session |-> awaited[s] \ {g}]
  /\ UNCHANGED <<state, flagVars, dispatchVars, task, engineVars, events, ui,
                 appVars, countVars>>

Called == calls < MaxCalls /\ calls' = calls + 1

UnloadGrammar(g) ==
  /\ Calls /\ Called
  /\ state[g] \in {"loaded", "failed"}
  /\ state' = [state EXCEPT ![g] = "unloaded"]
  /\ UNCHANGED <<load, operationCount, loadsDone, awaited, flagVars, dispatchVars,
                 task, engineVars, events, ui, appVars, started, loads>>

-----------------------------------------------------------------------------
(* The engine, external.                                                    *)

(* SetRecoState: what is started ends, sooner or later, with an event. *)
Activates ==
  /\ active' = TRUE
  /\ stream' = IF stream = "off" THEN "on" ELSE stream
  /\ events' = IF stream = "off" THEN Append(events, [is |-> "start"]) ELSE events
  /\ UNCHANGED <<marks, phrases>>
Deactivates == active' = FALSE /\ UNCHANGED <<stream, marks, phrases>>

EngineHears ==
  /\ stream = "on" /\ active /\ Alive
  /\ phrases < MaxPhrases /\ phrases' = phrases + 1
  /\ stream' = "phrase"
  /\ events' = Append(events, [is |-> "phrase"])
  /\ UNCHANGED <<loadVars, flagVars, dispatchVars, task, active, marks, ui, appVars,
                 countVars>>

(* A recognition of some grammar, or a false recognition of one or of none. *)
EngineDecides(kind, g) ==
  /\ stream = "phrase" /\ Alive
  /\ IF g = None THEN kind = "false" ELSE state[g] = "loaded"
  /\ stream' = "on"
  /\ events' = Append(events, [is |-> kind, grammar |-> g])
  /\ UNCHANGED <<loadVars, flagVars, dispatchVars, task, active, marks, phrases, ui,
                 appVars, countVars>>

EngineMarks(x) ==
  /\ x \in marks /\ Alive
  /\ marks' = marks \ {x}
  /\ events' = Append(events, [is |-> "mark", timeout |-> x])
  /\ UNCHANGED <<loadVars, flagVars, dispatchVars, task, active, stream, phrases, ui,
                 appVars, countVars>>

(* The stream ends because it was told to, perhaps after an empty false     *)
(* recognition, or because the input is used up or has failed.              *)
EngineEnds(released, empty) ==
  /\ stream = "on" /\ Alive
  /\ ~active \/ released
  /\ active' = FALSE /\ stream' = "off" /\ marks' = {}
  /\ events' = events \o
       (IF empty THEN << [is |-> "false", grammar |-> None] >> ELSE <<>>)
       \o << [is |-> "end", released |-> released] >>
  /\ UNCHANGED <<loadVars, flagVars, dispatchVars, task, phrases, ui, appVars,
                 countVars>>

-----------------------------------------------------------------------------
(* Starting, cancelling and stopping.                                       *)

Starts(mode) ==
  /\ ~isRecognizing /\ haveInputSource
  /\ started < MaxSessions /\ started' = started + 1
  /\ isRecognizing' = TRUE
  /\ recognizeMode' = mode
  /\ task' = [task EXCEPT ![started + 1] = "wait"]
  /\ awaited' = [awaited EXCEPT ![started + 1] = {g \in Grammar : load[g] # "none"}]
  /\ UNCHANGED <<state, load, operationCount, loadsDone, isRecognizeCancelled,
                 haveInputSource, dispatchVars, engineVars, events, ui, disposed,
                 loads, calls>>

(* From any thread: an event handler may start the next recognition. *)
RecognizeAsync(mode) ==
  /\ Alive
  /\ Starts(mode)
  /\ UNCHANGED <<at, gaveUp>>

(* Recognize, up to its loop; from here on the thread drains _asyncWorkerUI. *)
Recognize ==
  /\ Calls
  /\ Starts("single")
  /\ at' = "recognize" /\ gaveUp' = FALSE

(* RecognizeAsyncCancel and RecognizeAsyncStop, under the lock. *)
RecognizeAsyncCancel ==
  /\ Calls /\ Called
  /\ isRecognizing
  /\ isRecognizeCancelled' = started
  /\ at' = "cancel"
  /\ UNCHANGED <<loadVars, isRecognizing, recognizeMode, haveInputSource,
                 dispatchVars, task, engineVars, events, ui, gaveUp, disposed,
                 started, loads>>

(* After it. *)
CancelEngine ==
  /\ at = "cancel" /\ at' = "idle"
  /\ Deactivates
  /\ UNCHANGED <<loadVars, flagVars, dispatchVars, task, events, ui, gaveUp, disposed,
                 countVars>>

SetInput ==
  /\ Calls /\ Called
  /\ ~isRecognizing /\ ~haveInputSource
  /\ haveInputSource' = TRUE
  /\ UNCHANGED <<loadVars, isRecognizing, isRecognizeCancelled, recognizeMode,
                 dispatchVars, task, engineVars, events, ui, appVars, started,
                 loads>>

-----------------------------------------------------------------------------
(* RecognizeAsyncWaitForGrammarsToLoad.                                     *)

WaitForOperationsToFinish(s) ==
  /\ task[s] = "wait" /\ loadsDone /\ disposed # "yes"
  /\ task' = [task EXCEPT ![s] = "check"]
  /\ UNCHANGED <<loadVars, flagVars, dispatchVars, engineVars, events, ui, appVars,
                 countVars>>

(* The completed event of a recognition that did not start. *)
Failed(cancelled) == [failed |-> TRUE, session |-> started, cancelled |-> cancelled,
                      reached |-> [x \in Timeout |-> 0], result |-> 0, sync |-> FALSE]
PostsFailed(cancelled) ==
  IF Alive THEN ui' = Append(ui, Failed(cancelled)) ELSE UNCHANGED ui

Refused == isRecognizeCancelled # 0 \/ \E g \in Grammar : state[g] = "failed"

(* Where the thread goes on.  The mutant starts the engine although it has  *)
(* posted the completed event.                                              *)
StartsAnyway(refused) == "start"
StartsUnlessRefused(refused) == IF refused THEN "none" ELSE "start"

(* Under the lock. *)
CheckLoads(s) ==
  /\ task[s] = "check" /\ disposed # "yes"
  /\ task' = [task EXCEPT ![s] = StartsUnlessRefused(Refused)]
  /\ IF Refused THEN PostsFailed(isRecognizeCancelled) ELSE UNCHANGED ui
  /\ UNCHANGED <<loadVars, flagVars, dispatchVars, engineVars, events, appVars,
                 countVars>>

(* Outside the lock. *)
StartEngine(s) ==
  /\ task[s] = "start" /\ disposed # "yes"
  /\ task' = [task EXCEPT ![s] = "none"]
  /\ \/ Activates /\ UNCHANGED ui
     \/ StartFails /\ PostsFailed(0) /\ UNCHANGED <<engineVars, events>>
  /\ UNCHANGED <<loadVars, flagVars, dispatchVars, appVars, countVars>>

-----------------------------------------------------------------------------
(* DispatchEvents, under _thisObjectLock.                                   *)

Event == Head(events)
Dispatches(kind) ==
  /\ Alive /\ completing = <<>>
  /\ events # <<>> /\ Event.is = kind
  /\ events' = Tail(events)
  /\ UNCHANGED <<loadVars, task, ui, appVars, countVars>>

Single == recognizeMode = "single"

(* SapiContext.Bookmark for a timeout: it can fire while the stream lasts.  *)
Bookmarks(x) == marks' = IF Single /\ stream # "off" THEN marks \cup {x} ELSE marks

ProcessStartStreamEvent ==
  /\ Dispatches("start")
  /\ Bookmarks("silence")
  /\ detecting' = IF Single THEN detecting \cup {"silence"} ELSE detecting
  /\ UNCHANGED <<flagVars, reached, lastResult, completing, active, stream, phrases>>

(* The timeouts a phrase leaves to detect.  The mutant goes on with the     *)
(* silence.                                                                 *)
DetectsBoth == detecting \cup (IF Single THEN {"babble"} ELSE {})
DetectsBabble == (detecting \ {"silence"}) \cup (IF Single THEN {"babble"} ELSE {})

ProcessPhraseStartEvent ==
  /\ Dispatches("phrase")
  /\ Bookmarks("babble")
  /\ detecting' = DetectsBabble
  /\ UNCHANGED <<flagVars, reached, lastResult, completing, active, stream, phrases>>

(* A bookmark ends the recognition if its timeout is still being detected   *)
(* and the other one was not reached.                                       *)
ProcessBookmarkEvent ==
  /\ Dispatches("mark")
  /\ LET x == Event.timeout
     IN IF x \in detecting /\ (x = "babble" => reached["silence"] = 0)
        THEN reached' = [reached EXCEPT ![x] = started] /\ Deactivates
        ELSE UNCHANGED <<reached, engineVars>>
  /\ UNCHANGED <<flagVars, detecting, lastResult, completing>>

(* _lastResult after a recognition or a false one; a grammar that was       *)
(* unloaded meanwhile changes nothing.                                      *)
ResultAfter(e) ==
  IF e.grammar # None /\ state[e.grammar] # "loaded" THEN lastResult
  ELSE IF e.is = "reco" THEN started ELSE 0

(* Whether the engine is stopped after a result.  The mutant forgets it.    *)
StopsNever == FALSE
StopsAfterResult == Single

ProcessRecognitionEvent ==
  /\ Dispatches("reco") \/ Dispatches("false")
  /\ detecting' = {}
  /\ lastResult' = ResultAfter(Event)
  /\ IF StopsAfterResult THEN Deactivates ELSE UNCHANGED engineVars
  /\ UNCHANGED <<flagVars, reached, completing>>

(* What the end of a recognition leaves in _lastResult.  The mutant does    *)
(* not reset it.                                                            *)
ResultKept == lastResult
ResultReset == 0

(* The event that will be posted is put together, and everything is reset.  *)
ProcessEndStreamEvent ==
  /\ Dispatches("end")
  /\ completing' = << [failed |-> FALSE, session |-> started,
                       cancelled |-> isRecognizeCancelled, reached |-> reached,
                       result |-> lastResult, sync |-> FALSE] >>
  /\ detecting' = {} /\ reached' = [x \in Timeout |-> 0]
  /\ lastResult' = ResultReset
  /\ isRecognizing' = FALSE /\ isRecognizeCancelled' = 0
  /\ haveInputSource' = (haveInputSource /\ ~Event.released)
  /\ UNCHANGED <<recognizeMode, engineVars>>

(* FireRecognizeCompletedEvent, for Recognize if it is waiting now. *)
PostCompleted ==
  /\ completing # <<>>
  /\ ui' = Append(ui, [completing[1] EXCEPT !.sync = (at = "recognize")])
  /\ completing' = <<>>
  /\ UNCHANGED <<loadVars, flagVars, detecting, reached, lastResult, task, engineVars,
                 events, appVars, countVars>>

-----------------------------------------------------------------------------
(* The completed events.                                                    *)

(* The event is raised; RecognizeAsyncWaitForGrammarsToLoadFailed resets    *)
(* the flags first.                                                         *)
Raises(c) ==
  /\ ui' = Tail(ui)
  /\ isRecognizing' = (isRecognizing /\ ~c.failed)
  /\ isRecognizeCancelled' = IF c.failed THEN 0 ELSE isRecognizeCancelled
  /\ UNCHANGED <<loadVars, recognizeMode, haveInputSource, dispatchVars, task,
                 engineVars, events, disposed, countVars>>

(* By the dispatcher of _asyncWorkerUI, in its asynchronous mode. *)
Deliver ==
  /\ ui # <<>> /\ at # "recognize"
  /\ Raises(Head(ui))
  /\ UNCHANGED <<at, gaveUp>>

(* By Recognize, which has completed with the event meant for it. *)
ConsumeQueue ==
  /\ ui # <<>> /\ at = "recognize"
  /\ Raises(Head(ui))
  /\ at' = IF Head(ui).sync THEN "idle" ELSE at
  /\ UNCHANGED gaveUp

(* Recognize has waited for its timeout: EndRecognitionWithTimeout, once. *)
EndRecognitionWithTimeout ==
  /\ at = "recognize" /\ ui = <<>> /\ ~gaveUp
  /\ gaveUp' = TRUE
  /\ reached' = [reached EXCEPT !["silence"] = -started]
  /\ Deactivates
  /\ UNCHANGED <<loadVars, flagVars, detecting, lastResult, completing, task, events,
                 ui, at, disposed, countVars>>

-----------------------------------------------------------------------------
(* Dispose, under _thisObjectLock: both queues are disabled and purged, and *)
(* the loads are waited for.                                                *)
Dispose ==
  /\ Calls /\ Called /\ completing = <<>>
  /\ at' = "dispose" /\ disposed' = "disposing"
  /\ events' = <<>> /\ ui' = <<>>
  /\ UNCHANGED <<loadVars, flagVars, dispatchVars, task, engineVars, gaveUp,
                 started, loads>>

UnloadAllGrammars ==
  /\ at = "dispose" /\ loadsDone
  /\ at' = "idle" /\ disposed' = "yes"
  /\ state' = [g \in Grammar |-> "unloaded"]
  /\ UNCHANGED <<load, operationCount, loadsDone, awaited, flagVars, dispatchVars,
                 task, engineVars, events, ui, gaveUp, countVars>>

(* A pool thread that finds the recognizer disposed throws. *)
TaskThrows(s) ==
  /\ task[s] # "none" /\ disposed = "yes"
  /\ task' = [task EXCEPT ![s] = "none"]
  /\ UNCHANGED <<loadVars, flagVars, dispatchVars, engineVars, events, ui, appVars,
                 countVars>>

-----------------------------------------------------------------------------
Pool(s) == WaitForOperationsToFinish(s) \/ CheckLoads(s) \/ StartEngine(s) \/ TaskThrows(s)
Loads(g) == LoadGrammarAsyncCallback(g) \/ FinishOperation(g)
Dispatch ==
  \/ ProcessStartStreamEvent \/ ProcessPhraseStartEvent \/ ProcessBookmarkEvent
  \/ ProcessRecognitionEvent \/ ProcessEndStreamEvent \/ PostCompleted
Stops == EngineEnds(FALSE, FALSE) \/ EngineEnds(FALSE, TRUE)
Decides == \E kind \in {"reco", "false"}, g \in Grammar \cup {None} : EngineDecides(kind, g)

Next ==
  \/ \E g \in Grammar : LoadGrammarAsync(g) \/ Loads(g) \/ UnloadGrammar(g)
  \/ \E mode \in {"single", "multiple"} : RecognizeAsync(mode)
  \/ Recognize \/ RecognizeAsyncCancel \/ CancelEngine \/ SetInput
  \/ \E s \in Session : Pool(s)
  \/ EngineHears \/ Decides \/ \E x \in Timeout : EngineMarks(x)
  \/ \E released, empty \in BOOLEAN : EngineEnds(released, empty)
  \/ Dispatch
  \/ Deliver \/ ConsumeQueue \/ EndRecognitionWithTimeout
  \/ Dispose \/ UnloadAllGrammars

Spec == Init /\ [][Next]_vars

(* Threads are scheduled and loads end.  The engine decides about a phrase, *)
(* reaches its bookmarks and ends when it is told to.                       *)
FairSpec ==
  /\ Spec
  /\ \A g \in Grammar : WF_vars(Loads(g))
  /\ \A s \in Session : WF_vars(Pool(s))
  /\ WF_vars(Dispatch) /\ WF_vars(Deliver \/ ConsumeQueue) /\ WF_vars(CancelEngine)
  /\ WF_vars(UnloadAllGrammars)
  /\ WF_vars(EndRecognitionWithTimeout)
  /\ WF_vars(Decides) /\ WF_vars(Stops)
  /\ \A x \in Timeout : WF_vars(EngineMarks(x))

-----------------------------------------------------------------------------
EngineEvent ==
  [is : {"start", "phrase"}] \cup [is : {"mark"}, timeout : Timeout]
    \cup [is : {"reco", "false"}, grammar : Grammar \cup {None}]
    \cup [is : {"end"}, released : BOOLEAN]
Completion == [failed : BOOLEAN, session : 0..MaxSessions, cancelled : 0..MaxSessions,
               reached : [Timeout -> -MaxSessions..MaxSessions], result : 0..MaxSessions,
               sync : BOOLEAN]
TypeOK ==
  /\ state \in [Grammar -> {"unloaded", "loading", "loaded", "failed"}]
  /\ load \in [Grammar -> {"none", "load", "finish"}]
  /\ operationCount = Cardinality({g \in Grammar : load[g] # "none"})
  /\ loadsDone \in BOOLEAN
  /\ isRecognizing \in BOOLEAN /\ isRecognizeCancelled \in 0..started
  /\ recognizeMode \in {"single", "multiple"} /\ haveInputSource \in BOOLEAN
  /\ detecting \subseteq Timeout /\ marks \subseteq Timeout
  /\ reached \in [Timeout -> -started..started] /\ lastResult \in 0..started
  /\ task \in [Session -> {"none", "wait", "check", "start"}]
  /\ active \in BOOLEAN /\ stream \in {"off", "on", "phrase"}
  /\ events \in Seq(EngineEvent)
  /\ completing \in Seq(Completion) /\ Len(completing) <= 1
  /\ ui \in Seq(Completion)
  /\ at \in {"idle", "cancel", "recognize", "dispose"} /\ gaveUp \in BOOLEAN
  /\ disposed \in {"no", "disposing", "yes"}
  /\ started \in 0..MaxSessions
  /\ awaited \in [Session -> SUBSET Grammar]

(* A recognition in progress is in one place, and there is none elsewhere:   *)
(* a pool thread, the stream of the engine, its end event, or the completed  *)
(* event of a start that failed.  So each RecognizeAsync is answered by one  *)
(* completed event (RecognizerBase.cs, 2001-2087, 2418-2494).                *)
Places ==
  {<<"pool", s>> : s \in {t \in Session : task[t] # "none"}}
  \cup (IF stream = "off" THEN {} ELSE {<<"stream", 0>>})
  \cup {<<"end", k>> : k \in {i \in DOMAIN events : events[i].is = "end"}}
  \cup {<<"failed", k>> : k \in {i \in DOMAIN ui : ui[i].failed}}
OnePlace ==
  Alive => IF isRecognizing THEN \E p \in Places : Places = {p} ELSE Places = {}

(* A completed event tells of its own recognition: a cancel that was asked   *)
(* for, a result and timeouts from it and no earlier one; except the timeout *)
(* that Recognize sets when it gives up, which nothing resets if the         *)
(* recognition has ended or never starts (RecognizerBase.cs, 609, 2436-2467).*)
ReportIsOwn ==
  \A k \in DOMAIN ui : LET c == ui[k] IN
    /\ c.cancelled # 0 => c.cancelled = c.session
    /\ c.result \in {0, c.session}
    /\ \A x \in Timeout : c.reached[x] \in {0, c.session} \/ c.reached[x] < 0

(* Of the two timeouts only one is reported, unless Recognize gave up by     *)
(* itself (the assertion at 2469, and 2195-2250).                            *)
OneTimeout ==
  \A k \in DOMAIN ui :
    \/ \E x \in Timeout : ui[k].reached[x] = 0
    \/ ui[k].reached["silence"] < 0

(* The engine starts only when every grammar that was being loaded when the  *)
(* recognition was asked for has been loaded, or has failed to               *)
(* (RecognizerBase.cs, 2006, 3141-3168).                                     *)
LoadedFirst == \A s \in Session : task[s] \in {"check", "start"} => awaited[s] = {}

(* A recognition of one phrase ends: by its result, a timeout or a failure,  *)
(* whatever a cancel did (RecognizerBase.cs, 2166-2215, 2364-2376).          *)
SingleEnds == isRecognizing /\ Single ~> ~isRecognizing \/ ~Alive

(* Recognize returns: the silence timeout, or its own, keeps it from waiting *)
(* for ever (RecognizerBase.cs, 594-595, 602-624).                           *)
RecognizeReturns == at = "recognize" ~> at # "recognize"
=============================================================================
