----------------------- MODULE RecognizerBase_proofs -----------------------
(***************************************************************************)
(* Proofs about RecognizerBase for any grammars and bounds, whether loads  *)
(* and starts fail or not.                                                 *)
(***************************************************************************)
EXTENDS RecognizerBase, FiniteSetTheorems, TLAPS

(* The grammars that are being loaded. *)
Loading == {g \in Grammar : load[g] # "none"}

(* The count of the loads under way, when one starts or finishes. *)
LEMMA CountFacts ==
  ASSUME NEW S, IsFiniteSet(S), NEW g
  PROVE  /\ g \notin S => Cardinality(S \cup {g}) = Cardinality(S) + 1
         /\ g \in S => Cardinality(S \ {g}) = Cardinality(S) - 1
         /\ IsFiniteSet(S \ {g})
  BY FS_AddElement, FS_RemoveElement

(* A queue after something has been put at its end. *)
LEMMA AppendFacts ==
  ASSUME NEW S, NEW q \in Seq(S), NEW e \in S
  PROVE  /\ Append(q, e) \in Seq(S) /\ Len(Append(q, e)) = Len(q) + 1
         /\ \A k \in 1..Len(q) : Append(q, e)[k] = q[k]
         /\ Append(q, e)[Len(q) + 1] = e
  OBVIOUS

(* A queue after its head has been taken. *)
LEMMA TailFacts ==
  ASSUME NEW S, NEW q \in Seq(S), q # <<>>
  PROVE  /\ Tail(q) \in Seq(S) /\ Len(Tail(q)) = Len(q) - 1 /\ Len(q) > 0
         /\ Head(q) = q[1] /\ Head(q) \in S
         /\ \A k \in 1..Len(Tail(q)) : Tail(q)[k] = q[k + 1]
  OBVIOUS

(* A queue of length zero is empty. *)
LEMMA EmptyFact ==
  ASSUME NEW S, NEW q \in Seq(S), Len(q) = 0
  PROVE  q = <<>>
  OBVIOUS

(* The events of the engine are of five kinds. *)
LEMMA Kinds ==
  /\ [is |-> "start"] \in EngineEvent /\ [is |-> "phrase"] \in EngineEvent
  /\ \A x \in Timeout : [is |-> "mark", timeout |-> x] \in EngineEvent
  /\ \A kind \in {"reco", "false"}, g \in Grammar \cup {None} :
       [is |-> kind, grammar |-> g] \in EngineEvent
  /\ \A b \in BOOLEAN : [is |-> "end", released |-> b] \in EngineEvent
  /\ \A e \in EngineEvent :
       /\ e.is = "mark" => e.timeout \in Timeout
       /\ e.is = "end" => e.released \in BOOLEAN
       /\ e.is \in {"reco", "false"} => e.grammar \in Grammar \cup {None}
  BY DEF EngineEvent

(* The events after the end of the stream. *)
Ended(q, released, empty) ==
  q \o (IF empty THEN << [is |-> "false", grammar |-> None] >> ELSE <<>>)
    \o << [is |-> "end", released |-> released] >>

(* What that adds: perhaps an empty result, and the end. *)
Adds(q, r) ==
  /\ r \in Seq(EngineEvent) /\ Len(r) > Len(q)
  /\ \A k \in 1..Len(q) : r[k] = q[k]
  /\ r[Len(r)].is = "end"
  /\ \A k \in Len(q)+1..Len(r)-1 : r[k].is = "false"

(* What the end of a stream adds to the queue. *)
LEMMA EndsFacts ==
  ASSUME NEW q \in Seq(EngineEvent), NEW released \in BOOLEAN, NEW empty \in BOOLEAN
  PROVE  Adds(q, Ended(q, released, empty))
<1> DEFINE f == [is |-> "false", grammar |-> None]
           e == [is |-> "end", released |-> released]
<1>1. f \in EngineEvent /\ e \in EngineEvent
  BY Kinds
<1>2. f.is = "false" /\ e.is = "end"
  OBVIOUS
<1>3. Ended(q, released, empty) = IF empty THEN q \o << f >> \o << e >> ELSE q \o << e >>
  BY <1>1 DEF Ended
<1> HIDE DEF f, e
<1>4. CASE empty
  <2> DEFINE m == q \o << f >>
  <2>1. /\ m \in Seq(EngineEvent) /\ Len(m) = Len(q) + 1 /\ m[Len(q) + 1] = f
        /\ \A k \in 1..Len(q) : m[k] = q[k]
    BY <1>1
  <2>2. Ended(q, released, empty) = m \o << e >>
    BY <1>3, <1>4
  <2> HIDE DEF m
  <2>3. QED
    BY <1>1, <1>2, <2>1, <2>2 DEF Adds
<1>5. CASE ~empty
  BY <1>1, <1>2, <1>3, <1>5 DEF Adds
<1>6. QED
  BY <1>4, <1>5

(* Every variable keeps its type. *)
LEMMA TypeStep ==
  ASSUME TypeOK, [Next]_vars
  PROVE  TypeOK'
<1> USE BoundsAreNat DEF TypeOK, loadVars, flagVars, dispatchVars, engineVars, appVars,
        countVars, Timeout
<1>0. /\ IsFiniteSet(Loading) /\ Cardinality(Loading) \in Nat
      /\ operationCount = Cardinality(Loading)
  BY GrammarIsFinite, FS_Subset, FS_CardinalityType DEF Loading
<1>1. ASSUME NEW g \in Grammar, LoadGrammarAsync(g) PROVE TypeOK'
  <2>1. Loading' = Loading \cup {g} /\ g \notin Loading
    BY <1>1 DEF LoadGrammarAsync, Loading
  <2>2. Cardinality(Loading') = operationCount + 1
    <3> HIDE DEF TypeOK
    <3>1. Cardinality(Loading \cup {g}) = Cardinality(Loading) + 1
      BY <1>0, <2>1, CountFacts
    <3>2. QED
      BY <1>0, <2>1, <3>1
  <2>3. operationCount' = Cardinality({h \in Grammar : load'[h] # "none"})
    BY <1>1, <2>2 DEF LoadGrammarAsync, CountsAll, Loading
  <2>4. QED
    BY <1>1, <2>3 DEF LoadGrammarAsync, Calls
<1>2. ASSUME NEW g \in Grammar, LoadGrammarAsyncCallback(g) PROVE TypeOK'
  <2>1. Loading' = Loading
    BY <1>2 DEF LoadGrammarAsyncCallback, Loading
  <2>2. operationCount' = Cardinality({h \in Grammar : load'[h] # "none"})
    BY <1>0, <1>2, <2>1 DEF LoadGrammarAsyncCallback, Loading
  <2>3. /\ state' \in [Grammar -> {"unloaded", "loading", "loaded", "failed"}]
        /\ load' \in [Grammar -> {"none", "load", "finish"}]
    BY <1>2 DEF LoadGrammarAsyncCallback
  <2>4. /\ UNCHANGED <<loadsDone, awaited, flagVars, dispatchVars, task, engineVars>>
        /\ UNCHANGED <<events, ui, appVars, countVars>>
    BY <1>2 DEF LoadGrammarAsyncCallback
  <2>5. QED
    BY <2>2, <2>3, <2>4
<1>3. ASSUME NEW g \in Grammar, FinishOperation(g) PROVE TypeOK'
  <2>1. Loading' = Loading \ {g} /\ g \in Loading
    BY <1>3 DEF FinishOperation, Loading
  <2>2. Cardinality(Loading') = operationCount - 1
    <3> HIDE DEF TypeOK
    <3>1. Cardinality(Loading \ {g}) = Cardinality(Loading) - 1
      BY <1>0, <2>1, CountFacts
    <3>2. QED
      BY <1>0, <2>1, <3>1
  <2>3. operationCount' = Cardinality({h \in Grammar : load'[h] # "none"})
    BY <1>3, <2>2 DEF FinishOperation, Loading
  <2>4. QED
    BY <1>3, <2>3 DEF FinishOperation, LastFinishes
<1>4. ASSUME NEW g \in Grammar, UnloadGrammar(g) PROVE TypeOK'
  BY <1>4 DEF UnloadGrammar, Calls, Called
<1>5. ASSUME NEW mode \in {"single", "multiple"}, Starts(mode),
             at' \in {at, "recognize"}, gaveUp' \in BOOLEAN
      PROVE TypeOK'
  <2>1. started + 1 \in Session /\ started' = started + 1 /\ started' \in 0..MaxSessions
    BY <1>5 DEF Starts, Session
  <2>2. task' \in [Session -> {"none", "wait", "check", "start"}]
    BY <1>5, <2>1 DEF Starts
  <2>3. awaited' \in [Session -> SUBSET Grammar]
    BY <1>5, <2>1 DEF Starts
  <2>4. \A x \in Timeout : reached[x] \in -started'..started'
    BY <2>1
  <2>5. reached' \in [Timeout -> -started'..started']
    BY <1>5, <2>4 DEF Starts, dispatchVars
  <2>6. lastResult' \in 0..started' /\ isRecognizeCancelled' \in 0..started'
    BY <1>5, <2>1 DEF Starts
  <2>7. operationCount' = Cardinality({h \in Grammar : load'[h] # "none"})
    BY <1>5 DEF Starts
  <2>8. /\ UNCHANGED <<state, load, loadsDone, haveInputSource, detecting, completing>>
        /\ UNCHANGED <<engineVars, events, ui, disposed>>
        /\ isRecognizing' = TRUE /\ recognizeMode' = mode
    BY <1>5 DEF Starts
  <2>9. QED
    BY <1>5, <2>1, <2>2, <2>3, <2>5, <2>6, <2>7, <2>8
<1>7. ASSUME RecognizeAsyncCancel PROVE TypeOK'
  BY <1>7 DEF RecognizeAsyncCancel, Calls, Called
<1>8. ASSUME CancelEngine PROVE TypeOK'
  BY <1>8 DEF CancelEngine, Deactivates
<1>9. ASSUME SetInput PROVE TypeOK'
  BY <1>9 DEF SetInput, Calls, Called
<1>10. ASSUME NEW s \in Session, WaitForOperationsToFinish(s) PROVE TypeOK'
  BY <1>10 DEF WaitForOperationsToFinish
<1> DEFINE None0 == [x \in Timeout |-> 0]
<1>f. ASSUME NEW c \in 0..started, PostsFailed(c) PROVE ui' \in Seq(Completion)
  <2>1. None0 \in [Timeout -> -MaxSessions..MaxSessions]
    OBVIOUS
  <2>2. started \in 0..MaxSessions /\ c \in 0..MaxSessions /\ 0 \in 0..MaxSessions
    OBVIOUS
  <2>3. Failed(c) \in Completion
    BY <2>1, <2>2 DEF Failed, Completion
  <2>4. Append(ui, Failed(c)) \in Seq(Completion)
    BY <2>3, AppendFacts
  <2>5. QED
    BY <1>f, <2>4 DEF PostsFailed
<1>11. ASSUME NEW s \in Session, CheckLoads(s) PROVE TypeOK'
  <2>1. ui' \in Seq(Completion)
    BY <1>11, <1>f DEF CheckLoads
  <2>2. task' \in [Session -> {"none", "wait", "check", "start"}]
    BY <1>11 DEF CheckLoads, StartsUnlessRefused
  <2>3. QED
    BY <1>11, <2>1, <2>2 DEF CheckLoads
<1>12. ASSUME NEW s \in Session, StartEngine(s) PROVE TypeOK'
  <2>1. CASE Activates /\ UNCHANGED ui
    <3>1. events' \in Seq(EngineEvent)
      BY <2>1, AppendFacts, Kinds DEF Activates
    <3>2. QED
      BY <1>12, <2>1, <3>1 DEF StartEngine, Activates
  <2>2. CASE PostsFailed(0) /\ UNCHANGED <<engineVars, events>>
    <3>1. ui' \in Seq(Completion)
      BY <2>2, <1>f
    <3>2. QED
      BY <1>12, <2>2, <3>1 DEF StartEngine
  <2>3. QED
    BY <1>12, <2>1, <2>2 DEF StartEngine
<1>13. ASSUME NEW s \in Session, TaskThrows(s) PROVE TypeOK'
  BY <1>13 DEF TaskThrows
<1>14. ASSUME EngineHears PROVE TypeOK'
  <2>1. events' \in Seq(EngineEvent)
    BY <1>14, AppendFacts, Kinds DEF EngineHears
  <2>2. QED
    BY <1>14, <2>1 DEF EngineHears
<1>15. ASSUME NEW kind \in {"reco", "false"}, NEW g \in Grammar \cup {None},
              EngineDecides(kind, g)
       PROVE TypeOK'
  <2>1. events' \in Seq(EngineEvent)
    BY <1>15, AppendFacts, Kinds DEF EngineDecides
  <2>2. QED
    BY <1>15, <2>1 DEF EngineDecides
<1>16. ASSUME NEW x \in Timeout, EngineMarks(x) PROVE TypeOK'
  <2>1. events' \in Seq(EngineEvent)
    BY <1>16, AppendFacts, Kinds DEF EngineMarks
  <2>2. QED
    BY <1>16, <2>1 DEF EngineMarks
<1>17. ASSUME NEW released \in BOOLEAN, NEW empty \in BOOLEAN, EngineEnds(released, empty)
       PROVE TypeOK'
  <2>1. events' \in Seq(EngineEvent)
    <3>1. events' = Ended(events, released, empty)
      BY <1>17 DEF EngineEnds, Ended
    <3>2. QED
      BY <3>1, EndsFacts DEF Adds
  <2>2. QED
    BY <1>17, <2>1 DEF EngineEnds
<1>d. ASSUME NEW kind, Dispatches(kind)
      PROVE /\ events' \in Seq(EngineEvent) /\ Event \in EngineEvent
            /\ Event.is = kind
            /\ UNCHANGED <<loadVars, task, ui, appVars, countVars>>
  BY <1>d, TailFacts DEF Dispatches, Event
<1>18. ASSUME ProcessStartStreamEvent PROVE TypeOK'
  <2>1. /\ events' \in Seq(EngineEvent)
        /\ UNCHANGED <<loadVars, task, ui, appVars, countVars>>
    BY <1>18, <1>d DEF ProcessStartStreamEvent
  <2>2. marks' \subseteq Timeout /\ detecting' \subseteq Timeout
    BY <1>18 DEF ProcessStartStreamEvent, Bookmarks
  <2>3. UNCHANGED <<flagVars, reached, lastResult, completing, active, stream, phrases>>
    BY <1>18 DEF ProcessStartStreamEvent
  <2>4. QED
    BY <2>1, <2>2, <2>3
<1>19. ASSUME ProcessPhraseStartEvent PROVE TypeOK'
  <2>1. /\ events' \in Seq(EngineEvent)
        /\ UNCHANGED <<loadVars, task, ui, appVars, countVars>>
    BY <1>19, <1>d DEF ProcessPhraseStartEvent
  <2>2. marks' \subseteq Timeout /\ detecting' \subseteq Timeout
    BY <1>19 DEF ProcessPhraseStartEvent, Bookmarks, DetectsBabble
  <2>3. UNCHANGED <<flagVars, reached, lastResult, completing, active, stream, phrases>>
    BY <1>19 DEF ProcessPhraseStartEvent
  <2>4. QED
    BY <2>1, <2>2, <2>3
<1>20. ASSUME ProcessBookmarkEvent PROVE TypeOK'
  <2>0. /\ Event.timeout \in Timeout /\ events' \in Seq(EngineEvent)
        /\ UNCHANGED <<loadVars, task, ui, appVars, countVars>>
    BY <1>20, <1>d, Kinds DEF ProcessBookmarkEvent
  <2>1. started \in -started..started
    OBVIOUS
  <2>2. reached' \in [Timeout -> -started..started]
    <3>1. UNCHANGED reached \/ reached' = [reached EXCEPT ![Event.timeout] = started]
      BY <1>20 DEF ProcessBookmarkEvent
    <3>2. QED
      BY <2>0, <2>1, <3>1
  <2>3. UNCHANGED <<marks, phrases, stream>> /\ active' \in BOOLEAN
    BY <1>20 DEF ProcessBookmarkEvent, Deactivates
  <2>4. UNCHANGED <<flagVars, detecting, lastResult, completing>>
    BY <1>20 DEF ProcessBookmarkEvent
  <2>5. QED
    BY <2>0, <2>2, <2>3, <2>4
<1>21. ASSUME ProcessRecognitionEvent PROVE TypeOK'
  <2>0. /\ events' \in Seq(EngineEvent)
        /\ UNCHANGED <<loadVars, task, ui, appVars, countVars>>
    BY <1>21, <1>d DEF ProcessRecognitionEvent
  <2>1. lastResult' \in 0..started
    BY <1>21 DEF ProcessRecognitionEvent, ResultAfter
  <2>2. UNCHANGED <<marks, phrases, stream>> /\ active' \in BOOLEAN
    BY <1>21 DEF ProcessRecognitionEvent, Deactivates
  <2>3. detecting' = {} /\ UNCHANGED <<flagVars, reached, completing>>
    BY <1>21 DEF ProcessRecognitionEvent
  <2>4. QED
    BY <2>0, <2>1, <2>2, <2>3
<1>22. ASSUME ProcessEndStreamEvent PROVE TypeOK'
  <2>0. /\ events' \in Seq(EngineEvent)
        /\ UNCHANGED <<loadVars, task, ui, appVars, countVars>>
    BY <1>22, <1>d DEF ProcessEndStreamEvent
  <2>1. reached' \in [Timeout -> -started..started]
    BY <1>22 DEF ProcessEndStreamEvent
  <2>2. \A x \in Timeout : reached[x] \in -MaxSessions..MaxSessions
    OBVIOUS
  <2>3. /\ reached \in [Timeout -> -MaxSessions..MaxSessions]
        /\ started \in 0..MaxSessions /\ isRecognizeCancelled \in 0..MaxSessions
        /\ lastResult \in 0..MaxSessions
    BY <2>2
  <2>4. completing' \in Seq(Completion) /\ Len(completing') = 1
    <3> DEFINE c == [failed |-> FALSE, session |-> started,
                     cancelled |-> isRecognizeCancelled, reached |-> reached,
                     result |-> lastResult, sync |-> FALSE]
    <3>1. c \in Completion
      BY <2>3 DEF Completion
    <3>2. completing' = << c >>
      BY <1>22 DEF ProcessEndStreamEvent
    <3> HIDE DEF c
    <3>3. QED
      BY <3>1, <3>2
  <2>5. /\ detecting' = {} /\ lastResult' = 0 /\ isRecognizeCancelled' = 0
        /\ isRecognizing' \in BOOLEAN
        /\ UNCHANGED <<recognizeMode, engineVars>>
    BY <1>22, Zenon DEF ProcessEndStreamEvent, ResultReset
  <2>6. Len(completing') <= 1
    BY <2>4
  <2>7. haveInputSource' \in BOOLEAN
    BY <1>22, Zenon DEF ProcessEndStreamEvent
  <2>8. QED
    BY <2>0, <2>1, <2>4, <2>5, <2>6, <2>7
<1>23. ASSUME PostCompleted PROVE TypeOK'
  <2>1. completing[1] \in Completion
    BY <1>23 DEF PostCompleted
  <2>2. [completing[1] EXCEPT !.sync = (at = "recognize")] \in Completion
    BY <2>1 DEF Completion
  <2>3. ui' \in Seq(Completion)
    BY <1>23, <2>2, AppendFacts DEF PostCompleted
  <2>4. QED
    BY <1>23, <2>3 DEF PostCompleted
<1>24. ASSUME ui # <<>>, Raises(Head(ui)), at' \in {at, "idle"}, UNCHANGED gaveUp
       PROVE TypeOK'
  <2>1. ui' \in Seq(Completion) /\ Head(ui) \in Completion
    <3>1. Tail(ui) \in Seq(Completion) /\ Head(ui) \in Completion
      BY <1>24, TailFacts
    <3>2. QED
      BY <1>24, <3>1 DEF Raises
  <2>2. Head(ui).failed \in BOOLEAN
    BY <2>1 DEF Completion
  <2>3. QED
    BY <1>24, <2>1, <2>2 DEF Raises
<1>26. ASSUME EndRecognitionWithTimeout PROVE TypeOK'
  <2>1. -started \in -started..started
    OBVIOUS
  <2>2. reached' \in [Timeout -> -started..started]
    BY <1>26, <2>1 DEF EndRecognitionWithTimeout
  <2>3. QED
    BY <1>26, <2>2 DEF EndRecognitionWithTimeout, Deactivates
<1>27. ASSUME Dispose PROVE TypeOK'
  BY <1>27 DEF Dispose, Calls, Called
<1>28. ASSUME UnloadAllGrammars PROVE TypeOK'
  BY <1>28 DEF UnloadAllGrammars
<1>29. ASSUME UNCHANGED vars PROVE TypeOK'
  BY <1>29 DEF vars
<1>30. QED
  <2>1. ASSUME NEW mode \in {"single", "multiple"}, RecognizeAsync(mode) PROVE TypeOK'
    BY <2>1, <1>5 DEF RecognizeAsync
  <2>2. ASSUME Recognize PROVE TypeOK'
    BY <2>2, <1>5 DEF Recognize
  <2>3. ASSUME Deliver \/ ConsumeQueue PROVE TypeOK'
    BY <2>3, <1>24 DEF Deliver, ConsumeQueue
  <2>4. QED
    BY <1>1, <1>2, <1>3, <1>4, <2>1, <2>2, <1>7, <1>8, <1>9, <1>10, <1>11, <1>12, <1>13,
       <1>14, <1>15, <1>16, <1>17, <1>18, <1>19, <1>20, <1>21, <1>22, <1>23, <2>3, <1>26,
       <1>27, <1>28, <1>29
    DEF Next, Pool, Loads, Dispatch, Decides

(* Type correctness: the count of the OperationLock is the number of loads   *)
(* under way, and every flag holds a recognition that was started.           *)
THEOREM TypeCorrect == Spec => []TypeOK
<1>1. Init => TypeOK
  <2> SUFFICES ASSUME Init PROVE TypeOK
    OBVIOUS
  <2>1. {g \in Grammar : load[g] # "none"} = {}
    BY DEF Init
  <2>2. operationCount = Cardinality({g \in Grammar : load[g] # "none"})
    BY <2>1, FS_EmptySet DEF Init
  <2>3. /\ state \in [Grammar -> {"unloaded", "loading", "loaded", "failed"}]
        /\ load \in [Grammar -> {"none", "load", "finish"}]
        /\ task \in [Session -> {"none", "wait", "check", "start"}]
        /\ awaited \in [Session -> SUBSET Grammar]
        /\ reached \in [Timeout -> {0}] /\ started = 0
    BY DEF Init
  <2>4. reached \in [Timeout -> -started..started]
    BY <2>3
  <2>5. /\ detecting = {} /\ marks = {} /\ lastResult = 0 /\ isRecognizeCancelled = 0
        /\ loadsDone /\ ~isRecognizing /\ recognizeMode = "multiple" /\ haveInputSource
        /\ ~active /\ stream = "off" /\ ~gaveUp /\ at = "idle" /\ disposed = "no"
        /\ loadsDone \in BOOLEAN /\ isRecognizing \in BOOLEAN /\ active \in BOOLEAN
        /\ haveInputSource \in BOOLEAN /\ gaveUp \in BOOLEAN
    BY DEF Init
  <2>6. events = <<>> /\ completing = <<>> /\ ui = <<>>
    BY DEF Init
  <2>7. QED
    BY <2>2, <2>3, <2>4, <2>5, <2>6, BoundsAreNat DEF TypeOK
<1>2. QED
  BY <1>1, TypeStep, PTL DEF Spec

(* The event of the OperationLock is set only while nothing is loading, and *)
(* a recognition only waits for what is.                                    *)
LoadInv ==
  /\ loadsDone => Loading = {}
  /\ \A s \in Session : awaited[s] \subseteq Loading
  /\ LoadedFirst

(* Starting, finishing and waiting keep the count, the event and the waits *)
(* in step.                                                                 *)
LEMMA LoadStep ==
  ASSUME TypeOK, LoadInv, [Next]_vars
  PROVE  LoadInv'
<1> USE DEF LoadInv, LoadedFirst, Session
<1>t. /\ load \in [Grammar -> {"none", "load", "finish"}]
      /\ operationCount = Cardinality(Loading) /\ loadsDone \in BOOLEAN
      /\ task \in [Session -> {"none", "wait", "check", "start"}]
      /\ awaited \in [Session -> SUBSET Grammar] /\ started \in 0..MaxSessions
  BY DEF TypeOK, Loading
<1>c. ASSUME NEW n, n = Cardinality(Loading), n = 0 PROVE Loading = {}
  <2>1. IsFiniteSet(Loading)
    BY GrammarIsFinite, FS_Subset DEF Loading
  <2>2. QED
    BY <1>c, <2>1, FS_EmptySet
<1>q. ASSUME UNCHANGED <<load, loadsDone, awaited, task>> PROVE LoadInv'
  BY <1>q DEF Loading
<1>1. ASSUME NEW g \in Grammar, LoadGrammarAsync(g) PROVE LoadInv'
  <2>1. Loading' = Loading \cup {g}
    BY <1>1, <1>t DEF LoadGrammarAsync, Loading
  <2>2. ~loadsDone'
    <3>1. CASE operationCount = 0
      BY <1>1, <3>1 DEF LoadGrammarAsync
    <3>2. CASE operationCount # 0
      <4>1. Loading # {}
        BY <1>t, <3>2, FS_EmptySet
      <4>2. QED
        BY <1>1, <4>1 DEF LoadGrammarAsync
    <3>3. QED
      BY <3>1, <3>2
  <2>3. UNCHANGED <<task, awaited>>
    BY <1>1 DEF LoadGrammarAsync
  <2>4. QED
    BY <2>1, <2>2, <2>3
<1>2. ASSUME NEW g \in Grammar, LoadGrammarAsyncCallback(g) PROVE LoadInv'
  <2>1. Loading' = Loading
    BY <1>2, <1>t DEF LoadGrammarAsyncCallback, Loading
  <2>2. QED
    BY <1>2, <2>1 DEF LoadGrammarAsyncCallback
<1>3. ASSUME NEW g \in Grammar, FinishOperation(g) PROVE LoadInv'
  <2>1. Loading' = Loading \ {g} /\ g \in Loading
    BY <1>3, <1>t DEF FinishOperation, Loading
  <2>2. \A s \in Session : awaited'[s] = awaited[s] \ {g}
    BY <1>3 DEF FinishOperation
  <2>3. loadsDone' => Loading' = {}
    <3>0. IsFiniteSet(Loading)
      BY GrammarIsFinite, FS_Subset DEF Loading
    <3>1. /\ IsFiniteSet(Loading') /\ Cardinality(Loading') = operationCount - 1
      BY <1>t, <2>1, <3>0, CountFacts
    <3>2. operationCount' = Cardinality(Loading') /\ ~loadsDone
      BY <1>3, <2>1, <3>1 DEF FinishOperation
    <3>3. loadsDone' => operationCount' = 0
      BY <1>3, <3>2 DEF FinishOperation, LastFinishes
    <3>4. QED
      BY <3>1, <3>2, <3>3, FS_EmptySet
  <2>4. UNCHANGED task
    BY <1>3 DEF FinishOperation
  <2>5. QED
    BY <2>1, <2>2, <2>3, <2>4
<1>4. ASSUME NEW mode, Starts(mode) PROVE LoadInv'
  <2>1. started + 1 \in Session
    BY <1>4, <1>t, BoundsAreNat DEF Starts
  <2>2. /\ UNCHANGED <<load, loadsDone>> /\ Loading' = Loading
        /\ \A s \in Session :
             /\ task'[s] = IF s = started + 1 THEN "wait" ELSE task[s]
             /\ awaited'[s] = IF s = started + 1 THEN Loading ELSE awaited[s]
    BY <1>4, <1>t, <2>1 DEF Starts, Loading, loadVars
  <2>3. QED
    BY <2>1, <2>2
<1>5. ASSUME NEW s \in Session, WaitForOperationsToFinish(s) PROVE LoadInv'
  <2>1. awaited[s] = {}
    BY <1>5 DEF WaitForOperationsToFinish
  <2>2. QED
    BY <1>5, <1>t, <2>1 DEF WaitForOperationsToFinish, loadVars, Loading
<1>6. ASSUME NEW s \in Session, task[s] \in {"check", "start"},
             NEW p \in {"none", "start"}, task' = [task EXCEPT ![s] = p],
             UNCHANGED loadVars
      PROVE LoadInv'
  BY <1>6, <1>t DEF loadVars, Loading
<1>7. ASSUME NEW s \in Session, TaskThrows(s) PROVE LoadInv'
  BY <1>7, <1>t DEF TaskThrows, loadVars, Loading
<1>8. QED
  <2>1. ASSUME NEW s \in Session, CheckLoads(s) PROVE LoadInv'
    BY <2>1, <1>6 DEF CheckLoads, StartsUnlessRefused
  <2>2. ASSUME NEW s \in Session, StartEngine(s) PROVE LoadInv'
    BY <2>2, <1>6 DEF StartEngine
  <2>3. CASE RecognizeAsyncCancel \/ CancelEngine \/ SetInput
    BY <2>3, <1>q DEF RecognizeAsyncCancel, CancelEngine, SetInput, loadVars
  <2>4. CASE EngineHears \/ Decides \/ (\E x \in Timeout : EngineMarks(x))
             \/ \E released, empty \in BOOLEAN : EngineEnds(released, empty)
    BY <2>4, <1>q DEF EngineHears, Decides, EngineDecides, EngineMarks, EngineEnds, loadVars
  <2>5. CASE Dispatch
    BY <2>5, <1>q DEF Dispatch, ProcessStartStreamEvent, ProcessPhraseStartEvent,
       ProcessBookmarkEvent, ProcessRecognitionEvent, ProcessEndStreamEvent, PostCompleted,
       Dispatches, loadVars
  <2>6. CASE Deliver \/ ConsumeQueue \/ EndRecognitionWithTimeout
    BY <2>6, <1>q DEF Deliver, ConsumeQueue, Raises, EndRecognitionWithTimeout, loadVars
  <2>7. CASE Dispose \/ UnloadAllGrammars \/ UNCHANGED vars
    BY <2>7, <1>q DEF Dispose, UnloadAllGrammars, vars, loadVars
  <2>8. ASSUME NEW g \in Grammar, UnloadGrammar(g) PROVE LoadInv'
    BY <2>8, <1>q DEF UnloadGrammar
  <2>9. QED
    BY <1>1, <1>2, <1>3, <1>4, <1>5, <1>7, <2>1, <2>2, <2>3, <2>4, <2>5, <2>6, <2>7, <2>8
    DEF Next, Pool, Loads, RecognizeAsync, Recognize

(* The engine starts only when every grammar that was being loaded when the *)
(* recognition was asked for has been loaded, or has failed to              *)
(* (RecognizerBase.cs, 2006, 3141-3168).                                    *)
THEOREM LoadsComeFirst == Spec => []LoadedFirst
<1>1. Init => LoadInv
  BY DEF Init, LoadInv, LoadedFirst, Loading, Session
<1>2. LoadInv => LoadedFirst
  BY DEF LoadInv
<1>3. QED
  BY <1>1, <1>2, TypeCorrect, LoadStep, PTL DEF Spec

-----------------------------------------------------------------------------
(* Where a recognition is: nowhere, in its pool thread, in the stream of    *)
(* the engine, in its end event, or in the completed event of a failed      *)
(* start.                                                                   *)
NoEnd(q) == \A k \in 1..Len(q) : q[k].is # "end"
EndsLast(q) ==
  Len(q) > 0 /\ q[Len(q)].is = "end" /\ \A k \in 1..Len(q)-1 : q[k].is # "end"
NoneFailed(q) == \A k \in 1..Len(q) : ~q[k].failed
OneFailed(q) ==
  \E k \in 1..Len(q) : q[k].failed /\ \A j \in 1..Len(q) : q[j].failed => j = k

NoTask == \A s \in Session : task[s] = "none"
OneTask ==
  /\ started \in Session /\ task[started] # "none"
  /\ \A s \in Session : s # started => task[s] = "none"

Idle == ~isRecognizing /\ NoTask /\ stream = "off" /\ events = <<>> /\ NoneFailed(ui)
Starting == isRecognizing /\ OneTask /\ stream = "off" /\ events = <<>> /\ NoneFailed(ui)
Streaming == isRecognizing /\ NoTask /\ stream # "off" /\ NoEnd(events) /\ NoneFailed(ui)
Ending == isRecognizing /\ NoTask /\ stream = "off" /\ EndsLast(events) /\ NoneFailed(ui)
Failing == isRecognizing /\ NoTask /\ stream = "off" /\ events = <<>> /\ OneFailed(ui)

PhaseInv ==
  /\ Alive => Idle \/ Starting \/ Streaming \/ Ending \/ Failing
  /\ stream = "off" => marks = {}
  /\ NoneFailed(completing)

(* The end of the stream, as the queue of events grows and shrinks. *)
LEMMA EndPosted ==
  ASSUME NEW q \in Seq(EngineEvent), NoEnd(q)
  PROVE  /\ \A e \in EngineEvent : e.is # "end" => NoEnd(Append(q, e))
         /\ \A released, empty \in BOOLEAN : EndsLast(Ended(q, released, empty))
<1>1. ASSUME NEW e \in EngineEvent, e.is # "end" PROVE NoEnd(Append(q, e))
  BY <1>1, AppendFacts DEF NoEnd
<1>2. ASSUME NEW released \in BOOLEAN, NEW empty \in BOOLEAN
      PROVE EndsLast(Ended(q, released, empty))
  <2> DEFINE r == Ended(q, released, empty)
  <2>1. Adds(q, r)
    BY EndsFacts
  <2> HIDE DEF r
  <2>2. Len(q) \in Nat /\ Len(r) \in Nat
    BY <2>1 DEF Adds
  <2>3. EndsLast(r)
    BY <2>1, <2>2 DEF Adds, EndsLast, NoEnd
  <2>4. QED
    BY <2>3 DEF r
<1>3. QED
  BY <1>1, <1>2

(* And when its head is taken: the end comes last, so nothing follows it. *)
LEMMA EndTaken ==
  ASSUME NEW q \in Seq(EngineEvent), q # <<>>
  PROVE  /\ NoEnd(q) => NoEnd(Tail(q)) /\ Head(q).is # "end"
         /\ EndsLast(q) /\ Head(q).is # "end" => EndsLast(Tail(q))
         /\ EndsLast(q) /\ Head(q).is = "end" => Tail(q) = <<>>
<1> DEFINE t == Tail(q)
<1>1. /\ t \in Seq(EngineEvent) /\ Len(t) = Len(q) - 1 /\ Len(q) > 0 /\ Head(q) = q[1]
      /\ \A k \in 1..Len(t) : t[k] = q[k + 1]
  BY TailFacts
<1>2. Len(q) \in Nat
  OBVIOUS
<1>3. Len(t) = 0 => t = <<>>
  BY <1>1, EmptyFact
<1> HIDE DEF t
<1>4. NoEnd(q) => NoEnd(t) /\ Head(q).is # "end"
  BY <1>1, <1>2 DEF NoEnd
<1>5. EndsLast(q) /\ Head(q).is # "end" => EndsLast(t)
  BY <1>1, <1>2 DEF EndsLast
<1>6. EndsLast(q) /\ Head(q).is = "end" => Len(t) = 0
  BY <1>1, <1>2 DEF EndsLast
<1>7. QED
  BY <1>3, <1>4, <1>5, <1>6 DEF t

(* A failed start, as the queue of completed events grows and shrinks. *)
LEMMA FailurePosted ==
  ASSUME NEW q \in Seq(Completion), NEW c \in Completion
  PROVE  /\ NoneFailed(q) /\ c.failed => OneFailed(Append(q, c))
         /\ NoneFailed(q) /\ ~c.failed => NoneFailed(Append(q, c))
         /\ OneFailed(q) /\ ~c.failed => OneFailed(Append(q, c))
<1> DEFINE r == Append(q, c)
<1>1. /\ r \in Seq(Completion) /\ Len(r) = Len(q) + 1
      /\ \A k \in 1..Len(q) : r[k] = q[k]
      /\ r[Len(q) + 1] = c /\ Len(q) \in Nat
  BY AppendFacts
<1> HIDE DEF r
<1>2. ASSUME NoneFailed(q), c.failed PROVE OneFailed(r)
  <2>1. Len(q) + 1 \in 1..Len(r) /\ r[Len(q) + 1].failed
    BY <1>1, <1>2
  <2>2. \A j \in 1..Len(r) : r[j].failed => j = Len(q) + 1
    BY <1>1, <1>2 DEF NoneFailed
  <2>3. QED
    BY <2>1, <2>2 DEF OneFailed
<1>3. NoneFailed(q) /\ ~c.failed => NoneFailed(r)
  BY <1>1 DEF NoneFailed
<1>4. ASSUME OneFailed(q), ~c.failed PROVE OneFailed(r)
  <2>1. PICK k \in 1..Len(q) : q[k].failed /\ \A j \in 1..Len(q) : q[j].failed => j = k
    BY <1>4 DEF OneFailed
  <2>2. k \in 1..Len(r) /\ r[k] = q[k]
    BY <1>1
  <2>3. ASSUME NEW j \in 1..Len(r), r[j].failed PROVE j = k
    <3>1. j # Len(q) + 1
      BY <1>1, <1>4, <2>3
    <3>2. j \in 1..Len(q) /\ r[j] = q[j]
      BY <1>1, <3>1
    <3>3. QED
      BY <2>1, <2>3, <3>2
  <2>4. QED
    BY <2>1, <2>2, <2>3 DEF OneFailed
<1>5. QED
  BY <1>2, <1>3, <1>4 DEF r

(* And when its head is taken. *)
LEMMA FailureTaken ==
  ASSUME NEW q \in Seq(Completion), q # <<>>
  PROVE  /\ NoneFailed(q) => NoneFailed(Tail(q)) /\ ~Head(q).failed
         /\ OneFailed(q) /\ Head(q).failed => NoneFailed(Tail(q))
         /\ OneFailed(q) /\ ~Head(q).failed => OneFailed(Tail(q))
<1> DEFINE t == Tail(q)
<1>1. /\ t \in Seq(Completion) /\ Len(t) = Len(q) - 1 /\ Len(q) > 0 /\ Head(q) = q[1]
      /\ \A k \in 1..Len(t) : t[k] = q[k + 1]
      /\ Len(q) \in Nat
  BY TailFacts
<1> HIDE DEF t
<1>2. NoneFailed(q) => NoneFailed(t) /\ ~Head(q).failed
  BY <1>1 DEF NoneFailed
<1>3. OneFailed(q) /\ Head(q).failed => NoneFailed(t)
  BY <1>1 DEF NoneFailed, OneFailed
<1>4. ASSUME OneFailed(q), ~Head(q).failed PROVE OneFailed(t)
  <2>1. PICK k \in 1..Len(q) : q[k].failed /\ \A j \in 1..Len(q) : q[j].failed => j = k
    BY <1>4 DEF OneFailed
  <2>2. k - 1 \in 1..Len(t) /\ t[k - 1] = q[k]
    BY <1>1, <1>4, <2>1
  <2>3. \A j \in 1..Len(t) : t[j].failed => j = k - 1
    BY <1>1, <2>1
  <2>4. QED
    BY <2>1, <2>2, <2>3 DEF OneFailed
<1>5. QED
  BY <1>2, <1>3, <1>4 DEF t

(* A recognition goes from one place to the next. *)
LEMMA PhaseStep ==
  ASSUME TypeOK, PhaseInv, [Next]_vars
  PROVE  PhaseInv'
<1> DEFINE Placed == Idle \/ Starting \/ Streaming \/ Ending \/ Failing
<1>t. /\ isRecognizing \in BOOLEAN /\ stream \in {"off", "on", "phrase"}
      /\ task \in [Session -> {"none", "wait", "check", "start"}]
      /\ events \in Seq(EngineEvent) /\ ui \in Seq(Completion)
      /\ completing \in Seq(Completion) /\ Len(completing) <= 1
      /\ started \in 0..MaxSessions
  BY DEF TypeOK
<1>i. Alive => Placed
  BY DEF PhaseInv
<1> HIDE DEF Placed
<1> USE DEF Idle, Starting, Streaming, Ending, Failing, NoTask, OneTask
<1>u. ASSUME UNCHANGED <<isRecognizing, task, stream, events, ui, started>>
      PROVE Placed' <=> Placed
  BY <1>u DEF Placed, NoEnd, EndsLast, NoneFailed, OneFailed
<1>q. ASSUME UNCHANGED <<isRecognizing, task, stream, events, ui, started, completing,
                         marks, disposed>>
      PROVE PhaseInv'
  <2>1. Alive' => Placed'
    BY <1>q, <1>u, <1>i DEF Alive
  <2>2. (stream = "off" => marks = {})' /\ NoneFailed(completing)'
    BY <1>q DEF PhaseInv, NoneFailed
  <2>3. QED
    BY <2>1, <2>2 DEF PhaseInv, Placed
<1>1. ASSUME NEW mode, Starts(mode), Alive PROVE PhaseInv'
  <2>1. started + 1 \in Session /\ started' = started + 1
    BY <1>1, <1>t, BoundsAreNat DEF Starts, Session
  <2>2. /\ isRecognizing' = TRUE
        /\ task' = [task EXCEPT ![started + 1] = "wait"]
        /\ UNCHANGED <<stream, events, ui, marks, completing>>
    BY <1>1 DEF Starts, engineVars, dispatchVars
  <2>3. Idle
    BY <1>1, <1>i DEF Placed, Starts
  <2>4. OneTask'
    BY <2>1, <2>2, <2>3, <1>t
  <2>5. Starting'
    BY <2>2, <2>3, <2>4 DEF NoneFailed
  <2>6. QED
    BY <2>2, <2>5 DEF PhaseInv, NoneFailed
<1>2. ASSUME NEW s \in Session, WaitForOperationsToFinish(s) PROVE PhaseInv'
  <2>1. /\ task[s] # "none" /\ task' = [task EXCEPT ![s] = "check"]
        /\ UNCHANGED <<isRecognizing, stream, events, ui, started, marks, completing,
                       disposed>>
    BY <1>2 DEF WaitForOperationsToFinish, flagVars, dispatchVars, engineVars, appVars,
       countVars
  <2>2. ASSUME Alive PROVE Starting'
    <3>1. Starting /\ s = started
      BY <2>1, <2>2, <1>i DEF Placed
    <3>2. QED
      BY <2>1, <3>1, <1>t DEF NoneFailed
  <2>3. QED
    BY <2>1, <2>2 DEF PhaseInv, Alive, NoneFailed
<1>f. ASSUME NEW c, Alive, PostsFailed(c), c \in 0..started, NoneFailed(ui)
      PROVE OneFailed(ui)'
  <2> DEFINE None0 == [x \in Timeout |-> 0]
  <2>1. /\ started \in 0..MaxSessions /\ c \in 0..MaxSessions /\ 0 \in 0..MaxSessions
        /\ None0 \in [Timeout -> -MaxSessions..MaxSessions]
    BY <1>f, <1>t, BoundsAreNat
  <2>2. Failed(c) \in Completion /\ Failed(c).failed
    BY <2>1 DEF Failed, Completion
  <2>3. OneFailed(Append(ui, Failed(c)))
    BY <1>f, <1>t, <2>2, FailurePosted
  <2>4. QED
    BY <1>f, <2>3 DEF PostsFailed, OneFailed
<1>3. ASSUME NEW s \in Session, CheckLoads(s) PROVE PhaseInv'
  <2>1. /\ task[s] # "none"
        /\ UNCHANGED <<isRecognizing, stream, events, started, marks, completing,
                       disposed>>
    BY <1>3 DEF CheckLoads, flagVars, dispatchVars, engineVars, appVars, countVars
  <2>2. ASSUME Alive PROVE Starting' \/ Failing'
    <3>1. Starting /\ s = started
      BY <2>1, <2>2, <1>i DEF Placed
    <3>2. CASE Refused
      <4>1. task' = [task EXCEPT ![s] = "none"] /\ PostsFailed(isRecognizeCancelled)
        BY <1>3, <3>2 DEF CheckLoads, StartsUnlessRefused
      <4>2. OneFailed(ui)'
        BY <2>2, <3>1, <4>1, <1>f DEF TypeOK
      <4>3. Failing'
        BY <2>1, <3>1, <4>1, <4>2, <1>t
      <4>4. QED
        BY <4>3
    <3>3. CASE ~Refused
      <4>1. task' = [task EXCEPT ![s] = "start"] /\ UNCHANGED ui
        BY <1>3, <3>3 DEF CheckLoads, StartsUnlessRefused
      <4>2. Starting'
        BY <2>1, <3>1, <4>1, <1>t DEF NoneFailed
      <4>3. QED
        BY <4>2
    <3>4. QED
      BY <3>2, <3>3
  <2>3. QED
    BY <2>1, <2>2 DEF PhaseInv, Alive, NoneFailed
<1>4. ASSUME NEW s \in Session, StartEngine(s) PROVE PhaseInv'
  <2>1. /\ task[s] # "none" /\ task' = [task EXCEPT ![s] = "none"]
        /\ UNCHANGED <<isRecognizing, started, completing, disposed, marks>>
    BY <1>4 DEF StartEngine, Activates, flagVars, dispatchVars, engineVars, appVars,
       countVars
  <2>2. stream' = "off" => stream = "off"
    BY <1>4 DEF StartEngine, Activates, engineVars
  <2>3. ASSUME Alive PROVE Streaming' \/ Failing'
    <3>1. Starting /\ s = started
      BY <2>1, <2>3, <1>i DEF Placed
    <3>2. NoTask'
      BY <2>1, <3>1, <1>t
    <3>3. CASE Activates /\ UNCHANGED ui
      <4>1. stream' = "on" /\ events' = Append(events, [is |-> "start"])
        BY <3>1, <3>3 DEF Activates
      <4>2. NoEnd(events) /\ [is |-> "start"] \in EngineEvent
        BY <3>1, Kinds DEF NoEnd
      <4>3. NoEnd(Append(events, [is |-> "start"]))
        BY <4>2, <1>t, EndPosted
      <4>4. NoEnd(events)'
        BY <4>1, <4>3 DEF NoEnd
      <4>5. Streaming'
        BY <2>1, <3>1, <3>2, <3>3, <4>1, <4>4 DEF NoneFailed
      <4>6. QED
        BY <4>5
    <3>4. CASE PostsFailed(0) /\ UNCHANGED <<engineVars, events>>
      <4>1. OneFailed(ui)'
        BY <2>3, <3>1, <3>4, <1>f, <1>t
      <4>2. Failing'
        BY <2>1, <3>1, <3>2, <3>4, <4>1 DEF engineVars
      <4>3. QED
        BY <4>2
    <3>5. QED
      BY <1>4, <3>3, <3>4 DEF StartEngine
  <2>4. QED
    BY <2>1, <2>2, <2>3 DEF PhaseInv, Alive, NoneFailed
<1>5. ASSUME NEW s \in Session, TaskThrows(s) PROVE PhaseInv'
  BY <1>5 DEF TaskThrows, PhaseInv, Alive, NoneFailed, appVars, engineVars, dispatchVars
<1>a. ASSUME NEW e \in EngineEvent, e.is # "end", Alive, stream # "off", stream' # "off",
             events' = Append(events, e),
             UNCHANGED <<isRecognizing, task, ui, started, completing>>
      PROVE PhaseInv'
  <2>1. Streaming
    BY <1>a, <1>i DEF Placed
  <2>2. NoEnd(Append(events, e))
    BY <2>1, <1>a, <1>t, EndPosted
  <2>3. NoEnd(events)'
    BY <1>a, <2>2 DEF NoEnd
  <2>4. Streaming'
    BY <1>a, <2>1, <2>3 DEF NoneFailed
  <2>5. QED
    BY <1>a, <2>4 DEF PhaseInv, NoneFailed
<1>6. ASSUME EngineHears PROVE PhaseInv'
  BY <1>6, <1>a, Kinds DEF EngineHears, flagVars, dispatchVars, countVars
<1>7. ASSUME NEW kind \in {"reco", "false"}, NEW g \in Grammar \cup {None},
             EngineDecides(kind, g)
      PROVE PhaseInv'
  <2>1. [is |-> kind, grammar |-> g] \in EngineEvent
    BY Kinds
  <2>2. QED
    BY <1>7, <1>a, <2>1 DEF EngineDecides, flagVars, dispatchVars, countVars
<1>8. ASSUME NEW x \in Timeout, EngineMarks(x) PROVE PhaseInv'
  <2>1. [is |-> "mark", timeout |-> x] \in EngineEvent
    BY Kinds
  <2>2. stream # "off"
    BY <1>8 DEF EngineMarks, PhaseInv
  <2>3. QED
    BY <1>8, <1>a, <2>1, <2>2 DEF EngineMarks, flagVars, dispatchVars, countVars
<1>9. ASSUME NEW released \in BOOLEAN, NEW empty \in BOOLEAN, EngineEnds(released, empty)
      PROVE PhaseInv'
  <2>1. Streaming
    BY <1>9, <1>i DEF Placed, EngineEnds
  <2>2. events' = Ended(events, released, empty)
    BY <1>9 DEF EngineEnds, Ended
  <2>3. EndsLast(Ended(events, released, empty))
    BY <2>1, <1>t, EndPosted
  <2>4. EndsLast(events)'
    BY <2>2, <2>3 DEF EndsLast
  <2>5. /\ stream' = "off" /\ marks' = {}
        /\ UNCHANGED <<isRecognizing, task, ui, started, completing>>
    BY <1>9 DEF EngineEnds, flagVars, dispatchVars, countVars
  <2>6. Ending'
    BY <2>1, <2>4, <2>5 DEF NoneFailed
  <2>7. QED
    BY <2>5, <2>6 DEF PhaseInv, NoneFailed
<1>d. ASSUME NEW kind, kind # "end", Dispatches(kind),
             UNCHANGED <<isRecognizing, stream, completing>>,
             stream = "off" => marks' \subseteq marks
      PROVE PhaseInv'
  <2>1. /\ Alive /\ events # <<>> /\ Head(events).is # "end" /\ events' = Tail(events)
        /\ UNCHANGED <<task, ui, started>>
    BY <1>d DEF Dispatches, Event, countVars
  <2>2. CASE Streaming
    <3>1. NoEnd(events)'
      BY <1>t, <2>1, <2>2, EndTaken DEF NoEnd
    <3>2. Streaming'
      BY <1>d, <2>1, <2>2, <3>1 DEF NoneFailed
    <3>3. QED
      BY <1>d, <3>2 DEF PhaseInv, NoneFailed
  <2>3. CASE Ending
    <3>1. EndsLast(Tail(events))
      BY <1>t, <2>1, <2>3, EndTaken
    <3>2. EndsLast(events)'
      BY <2>1, <3>1 DEF EndsLast
    <3>3. Ending'
      BY <1>d, <2>1, <2>3, <3>2 DEF NoneFailed
    <3>4. QED
      BY <1>d, <3>3 DEF PhaseInv, NoneFailed
  <2>4. QED
    BY <1>i, <2>1, <2>2, <2>3 DEF Placed
<1>10. ASSUME ProcessStartStreamEvent PROVE PhaseInv'
  BY <1>10, <1>d DEF ProcessStartStreamEvent, Bookmarks, flagVars
<1>11. ASSUME ProcessPhraseStartEvent PROVE PhaseInv'
  BY <1>11, <1>d DEF ProcessPhraseStartEvent, Bookmarks, flagVars
<1>12. ASSUME ProcessBookmarkEvent PROVE PhaseInv'
  <2>1. UNCHANGED <<isRecognizing, stream, completing, marks>> /\ Dispatches("mark")
    BY <1>12 DEF ProcessBookmarkEvent, Deactivates, flagVars, engineVars
  <2>2. QED
    BY <2>1, <1>d
<1>13. ASSUME ProcessRecognitionEvent PROVE PhaseInv'
  <2>1. UNCHANGED <<isRecognizing, stream, completing, marks>>
    BY <1>13 DEF ProcessRecognitionEvent, Deactivates, flagVars, engineVars
  <2>2. QED
    BY <1>13, <2>1, <1>d DEF ProcessRecognitionEvent
<1>14. ASSUME ProcessEndStreamEvent PROVE PhaseInv'
  <2>1. /\ Alive /\ events # <<>> /\ Head(events).is = "end" /\ events' = Tail(events)
        /\ UNCHANGED <<task, ui, started, stream, marks>> /\ ~isRecognizing'
    BY <1>14 DEF ProcessEndStreamEvent, Dispatches, Event, countVars, engineVars
  <2>2. Ending
    BY <1>t, <1>i, <2>1, EndTaken DEF Placed
  <2>3. events' = <<>>
    BY <1>t, <2>1, <2>2, EndTaken
  <2>4. Idle'
    BY <2>1, <2>2, <2>3 DEF NoneFailed
  <2>5. NoneFailed(completing)'
    BY <1>14 DEF ProcessEndStreamEvent, NoneFailed
  <2>6. QED
    BY <2>1, <2>4, <2>5 DEF PhaseInv
<1>15. ASSUME PostCompleted PROVE PhaseInv'
  <2> DEFINE c == [completing[1] EXCEPT !.sync = (at = "recognize")]
  <2>1. completing[1] \in Completion /\ ~completing[1].failed
    BY <1>15, <1>t DEF PostCompleted, PhaseInv, NoneFailed
  <2>2. c \in Completion /\ ~c.failed
    BY <2>1 DEF Completion
  <2>3. /\ ui' = Append(ui, c) /\ completing' = <<>>
        /\ UNCHANGED <<isRecognizing, task, stream, events, started, marks, disposed>>
    BY <1>15 DEF PostCompleted, flagVars, engineVars, countVars, appVars
  <2> HIDE DEF c
  <2>4. /\ NoneFailed(ui) => NoneFailed(Append(ui, c))
        /\ OneFailed(ui) => OneFailed(Append(ui, c))
    BY <2>2, <1>t, FailurePosted
  <2>5. (NoneFailed(ui) => NoneFailed(ui)') /\ (OneFailed(ui) => OneFailed(ui)')
    BY <2>3, <2>4 DEF NoneFailed, OneFailed
  <2>6. Placed => Placed'
    BY <2>3, <2>5 DEF Placed, NoEnd, EndsLast
  <2>7. QED
    BY <2>3, <2>6, <1>i DEF PhaseInv, Alive, Placed, NoneFailed
<1>16. ASSUME ui # <<>>, Raises(Head(ui)) PROVE PhaseInv'
  <2>1. /\ ui' = Tail(ui)
        /\ isRecognizing' = (isRecognizing /\ ~Head(ui).failed)
        /\ UNCHANGED <<task, stream, events, started, marks, completing, disposed>>
    BY <1>16 DEF Raises, dispatchVars, engineVars, countVars
  <2>2. CASE Head(ui).failed
    <3>1. ASSUME Alive PROVE Idle'
      <4>1. Failing
        BY <1>16, <1>t, <1>i, <2>2, <3>1, FailureTaken DEF Placed
      <4>2. NoneFailed(ui)'
        BY <1>16, <1>t, <2>1, <2>2, <4>1, FailureTaken DEF NoneFailed
      <4>3. QED
        BY <2>1, <2>2, <4>1, <4>2
    <3>2. QED
      BY <2>1, <3>1 DEF PhaseInv, Alive, NoneFailed
  <2>3. CASE ~Head(ui).failed
    <3>1. isRecognizing' = isRecognizing
      BY <2>1, <2>3, <1>t
    <3>2. /\ NoneFailed(ui) => NoneFailed(Tail(ui))
          /\ OneFailed(ui) => OneFailed(Tail(ui))
      BY <1>16, <1>t, <2>3, FailureTaken
    <3>3. (NoneFailed(ui) => NoneFailed(ui)') /\ (OneFailed(ui) => OneFailed(ui)')
      BY <2>1, <3>2 DEF NoneFailed, OneFailed
    <3>4. Placed => Placed'
      BY <2>1, <3>1, <3>3 DEF Placed, NoEnd, EndsLast
    <3>5. QED
      BY <2>1, <3>4, <1>i DEF PhaseInv, Alive, Placed, NoneFailed
  <2>4. QED
    BY <2>2, <2>3
<1>17. ASSUME Dispose \/ UnloadAllGrammars PROVE PhaseInv'
  BY <1>17 DEF Dispose, UnloadAllGrammars, PhaseInv, Alive, NoneFailed, dispatchVars,
     engineVars
<1>18. QED
  <2>1. ASSUME NEW g \in Grammar, LoadGrammarAsync(g) \/ Loads(g) \/ UnloadGrammar(g)
        PROVE PhaseInv'
    BY <2>1, <1>q DEF LoadGrammarAsync, Loads, LoadGrammarAsyncCallback, FinishOperation,
       UnloadGrammar, flagVars, dispatchVars, engineVars, appVars, countVars
  <2>2. ASSUME NEW mode, RecognizeAsync(mode) PROVE PhaseInv'
    BY <2>2, <1>1 DEF RecognizeAsync
  <2>3. ASSUME Recognize PROVE PhaseInv'
    BY <2>3, <1>1 DEF Recognize, Calls
  <2>4. CASE RecognizeAsyncCancel \/ CancelEngine \/ SetInput
    BY <2>4, <1>q DEF RecognizeAsyncCancel, CancelEngine, SetInput, Deactivates,
       flagVars, dispatchVars, engineVars, appVars, countVars
  <2>5. CASE Deliver \/ ConsumeQueue
    BY <2>5, <1>16 DEF Deliver, ConsumeQueue
  <2>6. CASE EndRecognitionWithTimeout
    BY <2>6, <1>q DEF EndRecognitionWithTimeout, Deactivates, flagVars, countVars
  <2>7. CASE UNCHANGED vars
    BY <2>7, <1>q DEF vars, flagVars, dispatchVars, engineVars, appVars, countVars
  <2>8. QED
    BY <1>2, <1>3, <1>4, <1>5, <1>6, <1>7, <1>8, <1>9, <1>10, <1>11, <1>12, <1>13, <1>14,
       <1>15, <1>17, <2>1, <2>2, <2>3, <2>4, <2>5, <2>6, <2>7
    DEF Next, Pool, Dispatch, Decides

(* At first no recognition is anywhere. *)
LEMMA PhaseStart == Init => PhaseInv
<1> SUFFICES ASSUME Init PROVE PhaseInv
  OBVIOUS
<1>1. /\ task = [s \in Session |-> "none"] /\ events = <<>> /\ ui = <<>>
      /\ completing = <<>> /\ stream = "off" /\ marks = {} /\ ~isRecognizing
  BY DEF Init
<1>2. Len(ui) = 0 /\ Len(completing) = 0
  BY <1>1
<1>3. NoneFailed(ui) /\ NoneFailed(completing)
  BY <1>2 DEF NoneFailed
<1>4. QED
  BY <1>1, <1>3 DEF PhaseInv, Idle, NoTask

(* Places is what the phases say. *)
LEMMA PhasesArePlaces ==
  ASSUME TypeOK, PhaseInv
  PROVE  OnePlace
<1> SUFFICES ASSUME Alive
             PROVE  IF isRecognizing THEN \E p \in Places : Places = {p} ELSE Places = {}
  BY DEF OnePlace
<1> DEFINE Tasks == {s \in Session : task[s] # "none"}
           Ends == {k \in DOMAIN events : events[k].is = "end"}
           Failures == {k \in DOMAIN ui : ui[k].failed}
<1>t. /\ events \in Seq(EngineEvent) /\ ui \in Seq(Completion)
      /\ DOMAIN events = 1..Len(events) /\ DOMAIN ui = 1..Len(ui)
      /\ Len(events) \in Nat
  BY DEF TypeOK
<1>e. events = <<>> \/ NoEnd(events) => Ends = {}
  BY <1>t DEF NoEnd
<1>f. NoneFailed(ui) => Failures = {}
  BY <1>t DEF NoneFailed
<1>n. NoTask => Tasks = {}
  BY DEF NoTask
<1>p. Places = {<<"pool", s>> : s \in Tasks}
               \cup (IF stream = "off" THEN {} ELSE {<<"stream", 0>>})
               \cup {<<"end", k>> : k \in Ends}
               \cup {<<"failed", k>> : k \in Failures}
  BY DEF Places
<1>o. ASSUME NEW p, Places = {p}, isRecognizing
      PROVE IF isRecognizing THEN \E q \in Places : Places = {q} ELSE Places = {}
  BY <1>o
<1> HIDE DEF Tasks, Ends, Failures
<1>1. CASE Idle
  BY <1>1, <1>e, <1>f, <1>n, <1>p DEF Idle
<1>2. CASE Starting
  <2>1. Tasks = {started}
    BY <1>2 DEF Starting, OneTask, Tasks
  <2>2. Ends = {} /\ Failures = {}
    BY <1>2, <1>e, <1>f DEF Starting
  <2>3. Places = {<<"pool", started>>}
    BY <1>2, <2>1, <2>2, <1>p DEF Starting
  <2>4. QED
    BY <1>2, <2>3, <1>o DEF Starting
<1>3. CASE Streaming
  <2>1. Places = {<<"stream", 0>>}
    BY <1>3, <1>e, <1>f, <1>n, <1>p DEF Streaming
  <2>2. QED
    BY <1>3, <2>1, <1>o DEF Streaming
<1>4. CASE Ending
  <2>1. Ends = {Len(events)}
    BY <1>4, <1>t DEF Ending, EndsLast, Ends
  <2>2. Places = {<<"end", Len(events)>>}
    BY <1>4, <2>1, <1>f, <1>n, <1>p DEF Ending
  <2>3. QED
    BY <1>4, <2>2, <1>o DEF Ending
<1>5. CASE Failing
  <2>1. PICK k \in 1..Len(ui) : ui[k].failed /\ \A j \in 1..Len(ui) : ui[j].failed => j = k
    BY <1>5 DEF Failing, OneFailed
  <2>2. Failures = {k}
    BY <2>1, <1>t DEF Failures
  <2>3. Places = {<<"failed", k>>}
    BY <1>5, <2>2, <1>e, <1>n, <1>p DEF Failing
  <2>4. QED
    BY <1>5, <2>3, <1>o DEF Failing
<1>6. QED
  BY <1>1, <1>2, <1>3, <1>4, <1>5 DEF PhaseInv

(* A recognition in progress is in one place, and there is none elsewhere:  *)
(* each RecognizeAsync is answered by one completed event                   *)
(* (RecognizerBase.cs, 2001-2087, 2418-2494).                               *)
THEOREM OneRecognition == Spec => []OnePlace
<1>1. TypeOK /\ PhaseInv => OnePlace
  BY PhasesArePlaces
<1>2. QED
  BY <1>1, PhaseStart, TypeCorrect, PhaseStep, PTL DEF Spec

-----------------------------------------------------------------------------
(* A completed event that tells of its own recognition, and of one timeout. *)
Own(c) ==
  /\ c.cancelled # 0 => c.cancelled = c.session
  /\ c.result \in {0, c.session}
  /\ \A x \in Timeout : c.reached[x] \in {0, c.session} \/ c.reached[x] < 0
  /\ (\E x \in Timeout : c.reached[x] = 0) \/ c.reached["silence"] < 0
AllOwn(q) == \A k \in 1..Len(q) : Own(q[k])

(* While the engine runs, or its events are being handled. *)
Running == stream # "off" \/ events # <<>>

(* What will be reported belongs to the recognition in progress, and while  *)
(* one timeout is reached or detected the other is not detected.            *)
DetectInv ==
  /\ lastResult # 0 => lastResult = started /\ Running
  /\ \A x \in Timeout : reached[x] > 0 => reached[x] = started /\ Running
  /\ detecting # {} => Running
  /\ "silence" \in detecting => "babble" \notin detecting
  /\ reached["babble"] > 0 => reached["silence"] <= 0 /\ "silence" \notin detecting
  /\ \A k \in 1..Len(events) :
       events[k].is = "start" => k = 1 /\ detecting = {} /\ reached["babble"] = 0
FlagInv ==
  /\ isRecognizeCancelled # 0 => isRecognizing /\ isRecognizeCancelled = started
  /\ at = "recognize" => started # 0
  /\ reached["babble"] >= 0
OwnInv == FlagInv /\ (Alive => DetectInv) /\ AllOwn(completing) /\ AllOwn(ui)

(* The cancel flag is set in a recognition and reset when it ends. *)
LEMMA FlagStep ==
  ASSUME TypeOK, PhaseInv, FlagInv, [Next]_vars
  PROVE  FlagInv'
<1> USE DEF FlagInv
<1>t. /\ isRecognizing \in BOOLEAN /\ started \in 0..MaxSessions
      /\ reached \in [Timeout -> -started..started]
      /\ {"silence", "babble"} = Timeout
  BY DEF TypeOK, Timeout
<1>q. ASSUME UNCHANGED <<isRecognizing, isRecognizeCancelled, reached, started>>,
             at' \in {at, "idle", "cancel", "dispose"}
      PROVE FlagInv'
  BY <1>q
<1>1. ASSUME NEW mode, Starts(mode) PROVE FlagInv'
  BY <1>1, <1>t, BoundsAreNat DEF Starts, dispatchVars
<1>2. ASSUME RecognizeAsyncCancel PROVE FlagInv'
  BY <1>2 DEF RecognizeAsyncCancel, Calls, dispatchVars
<1>3. ASSUME ProcessBookmarkEvent PROVE FlagInv'
  <2>1. UNCHANGED <<isRecognizing, isRecognizeCancelled, at, started>>
    BY <1>3 DEF ProcessBookmarkEvent, Dispatches, flagVars, appVars, countVars
  <2>2. reached'["babble"] \in {reached["babble"], started}
    BY <1>3, <1>t DEF ProcessBookmarkEvent
  <2>3. QED
    BY <2>1, <2>2, <1>t
<1>4. ASSUME ProcessEndStreamEvent PROVE FlagInv'
  BY <1>4, <1>t DEF ProcessEndStreamEvent, Dispatches, appVars, countVars
<1>5. ASSUME Raises(Head(ui)), at' \in {at, "idle"} PROVE FlagInv'
  BY <1>5, <1>t DEF Raises, dispatchVars, countVars
<1>6. ASSUME EndRecognitionWithTimeout PROVE FlagInv'
  BY <1>6, <1>t DEF EndRecognitionWithTimeout, flagVars, countVars
<1>7. QED
  <2>1. ASSUME NEW g \in Grammar, LoadGrammarAsync(g) \/ Loads(g) \/ UnloadGrammar(g)
        PROVE FlagInv'
    BY <2>1, <1>q DEF LoadGrammarAsync, Loads, LoadGrammarAsyncCallback, FinishOperation,
       UnloadGrammar, flagVars, dispatchVars, appVars, countVars
  <2>2. CASE Recognize \/ \E mode \in {"single", "multiple"} : RecognizeAsync(mode)
    BY <2>2, <1>1 DEF Recognize, RecognizeAsync
  <2>3. CASE CancelEngine \/ SetInput
    BY <2>3, <1>q DEF CancelEngine, SetInput, flagVars, dispatchVars, appVars, countVars
  <2>4. ASSUME NEW s \in Session, Pool(s) PROVE FlagInv'
    BY <2>4, <1>q DEF Pool, WaitForOperationsToFinish, CheckLoads, StartEngine, TaskThrows,
       flagVars, dispatchVars, appVars, countVars
  <2>5. CASE EngineHears \/ Decides \/ (\E x \in Timeout : EngineMarks(x))
             \/ \E released, empty \in BOOLEAN : EngineEnds(released, empty)
    BY <2>5, <1>q DEF EngineHears, Decides, EngineDecides, EngineMarks, EngineEnds, flagVars,
       dispatchVars, appVars, countVars
  <2>6. CASE ProcessStartStreamEvent \/ ProcessPhraseStartEvent
             \/ ProcessRecognitionEvent \/ PostCompleted
    BY <2>6, <1>q DEF ProcessStartStreamEvent, ProcessPhraseStartEvent,
       ProcessRecognitionEvent, PostCompleted, Dispatches, flagVars, appVars, countVars
  <2>7. CASE Deliver \/ ConsumeQueue
    BY <2>7, <1>5 DEF Deliver, ConsumeQueue
  <2>8. CASE Dispose \/ UnloadAllGrammars \/ UNCHANGED vars
    BY <2>8, <1>q DEF Dispose, UnloadAllGrammars, vars, flagVars, dispatchVars, appVars,
       countVars
  <2>9. QED
    BY <1>2, <1>3, <1>4, <1>6, <2>1, <2>2, <2>3, <2>4, <2>5, <2>6, <2>7, <2>8
    DEF Next, Dispatch

(* The results and timeouts are set while the engine runs, and reset by the *)
(* end of its stream.                                                       *)
LEMMA DetectStep ==
  ASSUME TypeOK, PhaseInv, FlagInv, DetectInv, Alive, Alive', [Next]_vars
  PROVE  DetectInv'
<1> USE DEF DetectInv
<1>t. /\ started \in 0..MaxSessions /\ lastResult \in 0..started
      /\ reached \in [Timeout -> -started..started] /\ detecting \subseteq Timeout
      /\ events \in Seq(EngineEvent) /\ Len(events) \in Nat
      /\ Timeout = {"silence", "babble"} /\ isRecognizing \in BOOLEAN
      /\ reached["babble"] >= 0
  BY DEF TypeOK, Timeout, FlagInv
<1>i. Idle \/ Starting \/ Streaming \/ Ending \/ Failing
  BY DEF PhaseInv
<1>q. ASSUME UNCHANGED <<detecting, reached, lastResult, stream, events, started>>
      PROVE DetectInv'
  BY <1>q DEF Running
<1>z. ASSUME ~Running, UNCHANGED <<detecting, reached, lastResult>>,
             \A k \in 1..Len(events') : events'[k].is = "start" => k = 1
      PROVE DetectInv'
  <2>1. lastResult = 0 /\ detecting = {} /\ \A x \in Timeout : ~(reached[x] > 0)
    BY <1>z
  <2>2. reached["babble"] = 0
    BY <2>1, <1>t
  <2>3. QED
    BY <1>z, <2>1, <2>2
<1>1. ASSUME NEW mode, Starts(mode) PROVE DetectInv'
  <2>1. Idle
    BY <1>1, <1>i DEF Starts, Starting, Streaming, Ending, Failing
  <2>2. ~Running /\ Len(events) = 0 /\ UNCHANGED <<detecting, reached, lastResult, events>>
    BY <1>1, <2>1 DEF Running, Idle, Starts, dispatchVars
  <2>3. QED
    BY <2>2, <1>z
<1>2. ASSUME NEW s \in Session, StartEngine(s) PROVE DetectInv'
  <2>1. UNCHANGED <<detecting, reached, lastResult, started>> /\ task[s] # "none"
    BY <1>2 DEF StartEngine, dispatchVars, countVars
  <2>2. ~Running /\ events = <<>>
    BY <1>i, <2>1 DEF Running, Idle, Starting, Streaming, Ending, Failing, NoTask
  <2>3. CASE Activates
    <3>1. events' = Append(<<>>, [is |-> "start"])
      BY <2>2, <2>3 DEF Activates, Running
    <3>2. Len(events') = 1
      BY <3>1
    <3>3. QED
      BY <2>1, <2>2, <3>2, <1>z
  <2>4. CASE UNCHANGED <<engineVars, events>>
    BY <2>1, <2>4, <1>q DEF engineVars
  <2>5. QED
    BY <1>2, <2>3, <2>4 DEF StartEngine
<1>a. ASSUME NEW e \in EngineEvent, e.is # "start", events' = Append(events, e),
             UNCHANGED <<detecting, reached, lastResult, started>>
      PROVE DetectInv'
  <2>1. /\ Len(events') = Len(events) + 1 /\ events'[Len(events) + 1] = e
        /\ \A k \in 1..Len(events) : events'[k] = events[k]
    BY <1>a, <1>t, AppendFacts
  <2>2. events' # <<>>
    BY <2>1, <1>t
  <2>3. QED
    BY <1>a, <2>1, <2>2, <1>t DEF Running
<1>3. ASSUME EngineHears PROVE DetectInv'
  BY <1>3, <1>a, Kinds DEF EngineHears, dispatchVars, countVars
<1>4. ASSUME NEW kind \in {"reco", "false"}, NEW g \in Grammar \cup {None},
             EngineDecides(kind, g)
      PROVE DetectInv'
  <2>1. [is |-> kind, grammar |-> g] \in EngineEvent
    BY Kinds
  <2>2. QED
    BY <1>4, <1>a, <2>1 DEF EngineDecides, dispatchVars, countVars
<1>5. ASSUME NEW x \in Timeout, EngineMarks(x) PROVE DetectInv'
  <2>1. [is |-> "mark", timeout |-> x] \in EngineEvent
    BY Kinds
  <2>2. QED
    BY <1>5, <1>a, <2>1 DEF EngineMarks, dispatchVars, countVars
<1>6. ASSUME NEW released \in BOOLEAN, NEW empty \in BOOLEAN, EngineEnds(released, empty)
      PROVE DetectInv'
  <2>1. UNCHANGED <<detecting, reached, lastResult, started>>
    BY <1>6 DEF EngineEnds, dispatchVars, countVars
  <2>2. events' = Ended(events, released, empty)
    BY <1>6 DEF EngineEnds, Ended
  <2>3. Adds(events, events')
    BY <2>2, <1>t, EndsFacts
  <2>4. /\ \A k \in 1..Len(events) : events'[k] = events[k]
        /\ \A k \in Len(events)+1..Len(events') : events'[k].is # "start"
        /\ Len(events') \in Nat /\ Len(events') > 0
    BY <2>3, <1>t DEF Adds
  <2>5. events' # <<>>
    BY <2>4
  <2>6. QED
    BY <2>1, <2>4, <2>5, <1>t DEF Running
<1>d. ASSUME NEW kind, kind # "end", Dispatches(kind), stream' = stream
      PROVE /\ Running /\ Running' /\ started' = started
            /\ \A k \in 1..Len(events') : events'[k].is # "start"
            /\ Event.is = kind
            /\ kind = "start" => detecting = {} /\ reached["babble"] = 0
  <2>1. /\ events # <<>> /\ Head(events).is = kind /\ events' = Tail(events)
        /\ started' = started /\ Event = Head(events)
    BY <1>d DEF Dispatches, Event, countVars
  <2>2. /\ Len(events') = Len(events) - 1 /\ Len(events) > 0 /\ Head(events) = events[1]
        /\ \A k \in 1..Len(events') : events'[k] = events[k + 1]
    BY <2>1, <1>t, TailFacts
  <2>3. \A k \in 1..Len(events') : events'[k].is # "start"
    BY <2>2, <1>t
  <2>4. kind = "start" => detecting = {} /\ reached["babble"] = 0
    BY <2>1, <2>2
  <2>5. CASE stream # "off"
    BY <1>d, <2>1, <2>3, <2>4, <2>5 DEF Running
  <2>6. CASE stream = "off"
    <3>1. Ending
      BY <1>i, <2>1, <2>6 DEF Idle, Starting, Streaming, Failing
    <3>2. EndsLast(Tail(events))
      BY <1>d, <2>1, <3>1, <1>t, EndTaken DEF Ending
    <3>3. Len(events') > 0
      BY <2>1, <3>2 DEF EndsLast
    <3>4. events' # <<>>
      BY <3>3
    <3>5. QED
      BY <1>d, <2>1, <2>3, <2>4, <3>4 DEF Running
  <2>7. QED
    BY <2>5, <2>6
<1>7. ASSUME ProcessStartStreamEvent PROVE DetectInv'
  <2>1. /\ UNCHANGED <<stream, reached, lastResult>> /\ Dispatches("start")
        /\ detecting' \in {detecting, detecting \cup {"silence"}}
    BY <1>7 DEF ProcessStartStreamEvent
  <2>2. QED
    BY <2>1, <1>d
<1>8. ASSUME ProcessPhraseStartEvent PROVE DetectInv'
  <2>1. /\ UNCHANGED <<stream, reached, lastResult>> /\ Dispatches("phrase")
        /\ "silence" \notin detecting'
    BY <1>8, <1>t DEF ProcessPhraseStartEvent, DetectsBabble
  <2>2. QED
    BY <2>1, <1>d
<1>9. ASSUME ProcessBookmarkEvent PROVE DetectInv'
  <2> DEFINE x == Event.timeout
  <2>1. UNCHANGED <<stream, detecting, lastResult>> /\ Dispatches("mark")
    BY <1>9 DEF ProcessBookmarkEvent, Deactivates, engineVars
  <2>2. CASE x \in detecting /\ (x = "babble" => reached["silence"] = 0)
    <3>1. reached' = [reached EXCEPT ![x] = started]
      BY <1>9, <2>2 DEF ProcessBookmarkEvent
    <3> HIDE DEF x
    <3>2. x \in Timeout /\ \A y \in Timeout : reached'[y] = IF y = x THEN started ELSE reached[y]
      BY <2>2, <3>1, <1>t
    <3>3. reached'["babble"] > 0 => reached'["silence"] <= 0 /\ "silence" \notin detecting
      BY <2>2, <3>2, <1>t
    <3>4. /\ started' = started /\ Running /\ Running'
          /\ \A k \in 1..Len(events') : events'[k].is # "start"
      BY <2>1, <1>d
    <3>5. QED
      BY <2>1, <3>2, <3>3, <3>4
  <2>3. CASE UNCHANGED reached
    BY <2>1, <2>3, <1>d
  <2>4. QED
    BY <1>9, <2>2, <2>3 DEF ProcessBookmarkEvent
<1>10. ASSUME ProcessRecognitionEvent PROVE DetectInv'
  <2>1. /\ UNCHANGED <<stream, reached>> /\ detecting' = {}
        /\ Dispatches("reco") \/ Dispatches("false")
        /\ lastResult' \in {lastResult, started, 0}
    BY <1>10 DEF ProcessRecognitionEvent, ResultAfter, Deactivates, engineVars
  <2>2. /\ started' = started /\ Running /\ Running'
        /\ \A k \in 1..Len(events') : events'[k].is # "start"
    BY <2>1, <1>d
  <2>3. QED
    BY <2>1, <2>2
<1>11. ASSUME ProcessEndStreamEvent PROVE DetectInv'
  <2>1. /\ detecting' = {} /\ lastResult' = 0
        /\ \A x \in Timeout : reached'[x] = 0
        /\ events # <<>> /\ Head(events).is = "end" /\ events' = Tail(events)
    BY <1>11 DEF ProcessEndStreamEvent, Dispatches, Event, ResultReset
  <2>2. \A k \in 1..Len(events') : events'[k].is = "start" => k = 1
    <3>1. Ending
      BY <1>i, <1>t, <2>1, EndTaken DEF Idle, Starting, Streaming, Failing
    <3>2. events' = <<>>
      BY <1>t, <2>1, <3>1, EndTaken DEF Ending
    <3>3. QED
      BY <3>2
  <2>3. QED
    BY <2>1, <2>2, <1>t
<1>12. ASSUME EndRecognitionWithTimeout PROVE DetectInv'
  <2>1. /\ UNCHANGED <<detecting, lastResult, stream, events, started>>
        /\ \A x \in Timeout : reached'[x] = IF x = "silence" THEN -started ELSE reached[x]
    BY <1>12, <1>t DEF EndRecognitionWithTimeout, Deactivates, countVars
  <2>2. QED
    BY <2>1, <1>t DEF Running
<1>13. QED
  <2>1. ASSUME NEW g \in Grammar, LoadGrammarAsync(g) \/ Loads(g) \/ UnloadGrammar(g)
        PROVE DetectInv'
    BY <2>1, <1>q DEF LoadGrammarAsync, Loads, LoadGrammarAsyncCallback, FinishOperation,
       UnloadGrammar, dispatchVars, engineVars, countVars
  <2>2. CASE Recognize \/ \E mode \in {"single", "multiple"} : RecognizeAsync(mode)
    BY <2>2, <1>1 DEF Recognize, RecognizeAsync
  <2>3. CASE RecognizeAsyncCancel \/ CancelEngine \/ SetInput
    BY <2>3, <1>q DEF RecognizeAsyncCancel, CancelEngine, SetInput, Deactivates,
       dispatchVars, engineVars, countVars
  <2>4. ASSUME NEW s \in Session,
               WaitForOperationsToFinish(s) \/ CheckLoads(s) \/ TaskThrows(s)
        PROVE DetectInv'
    BY <2>4, <1>q DEF WaitForOperationsToFinish, CheckLoads, TaskThrows, dispatchVars,
       engineVars, countVars
  <2>5. CASE PostCompleted \/ Deliver \/ ConsumeQueue
    BY <2>5, <1>q DEF PostCompleted, Deliver, ConsumeQueue, Raises, dispatchVars,
       engineVars, countVars
  <2>6. CASE Dispose \/ UnloadAllGrammars
    BY <2>6 DEF Dispose, UnloadAllGrammars, Alive
  <2>7. CASE UNCHANGED vars
    BY <2>7, <1>q DEF vars, dispatchVars, engineVars, countVars
  <2>8. QED
    BY <1>2, <1>3, <1>4, <1>5, <1>6, <1>7, <1>8, <1>9, <1>10, <1>11, <1>12,
       <2>1, <2>2, <2>3, <2>4, <2>5, <2>6, <2>7
    DEF Next, Pool, Dispatch, Decides

(* A queue of such events, when one more is posted. *)
LEMMA OwnAppend ==
  ASSUME NEW q \in Seq(Completion), AllOwn(q), NEW c \in Completion, Own(c)
  PROVE  AllOwn(Append(q, c))
<1>1. /\ Len(Append(q, c)) = Len(q) + 1 /\ Len(q) \in Nat
      /\ \A k \in 1..Len(q) : Append(q, c)[k] = q[k]
      /\ Append(q, c)[Len(q) + 1] = c
  BY AppendFacts
<1>2. QED
  BY <1>1 DEF AllOwn

(* And when the first is raised. *)
LEMMA OwnTail ==
  ASSUME NEW q \in Seq(Completion), AllOwn(q), q # <<>>
  PROVE  AllOwn(Tail(q))
<1>1. /\ Len(Tail(q)) = Len(q) - 1 /\ Len(q) \in Nat
      /\ \A k \in 1..Len(Tail(q)) : Tail(q)[k] = q[k + 1]
  BY TailFacts
<1>2. QED
  BY <1>1 DEF AllOwn

(* Each completed event that is put together or posted tells of its own. *)
LEMMA OwnStep ==
  ASSUME TypeOK, PhaseInv, OwnInv, [Next]_vars
  PROVE  OwnInv'
<1>t. /\ started \in 0..MaxSessions /\ lastResult \in 0..started
      /\ isRecognizeCancelled \in 0..started
      /\ reached \in [Timeout -> -started..started] /\ Timeout = {"silence", "babble"}
      /\ ui \in Seq(Completion) /\ completing \in Seq(Completion) /\ Len(completing) <= 1
  BY DEF TypeOK, Timeout
<1>o. FlagInv /\ (Alive => DetectInv) /\ AllOwn(completing) /\ AllOwn(ui)
  BY DEF OwnInv
<1>f. ASSUME NEW c \in {0, isRecognizeCancelled}, PostsFailed(c) PROVE AllOwn(ui)'
  <2> DEFINE None0 == [x \in Timeout |-> 0]
  <2>1. /\ started \in 0..MaxSessions /\ c \in 0..MaxSessions /\ 0 \in 0..MaxSessions
        /\ None0 \in [Timeout -> -MaxSessions..MaxSessions]
    BY <1>t, BoundsAreNat
  <2>2. Failed(c) \in Completion
    BY <2>1 DEF Failed, Completion
  <2>3. c # 0 => c = started
    BY <1>o DEF FlagInv
  <2>4. Own(Failed(c))
    BY <2>3, <1>t DEF Own, Failed
  <2>5. AllOwn(Append(ui, Failed(c)))
    BY <1>o, <1>t, <2>2, <2>4, OwnAppend
  <2>6. QED
    BY <1>f, <1>o, <2>5 DEF PostsFailed, AllOwn
<1>1. ASSUME NEW s \in Session, CheckLoads(s) \/ StartEngine(s) PROVE AllOwn(ui)'
  <2>1. UNCHANGED ui \/ PostsFailed(0) \/ PostsFailed(isRecognizeCancelled)
    BY <1>1 DEF CheckLoads, StartEngine
  <2>2. QED
    BY <2>1, <1>f, <1>o DEF AllOwn
<1>2. ASSUME PostCompleted PROVE AllOwn(ui)'
  <2> DEFINE c == [completing[1] EXCEPT !.sync = (at = "recognize")]
  <2>1. completing[1] \in Completion /\ Own(completing[1])
    BY <1>2, <1>t, <1>o DEF PostCompleted, AllOwn
  <2>2. c \in Completion /\ Own(c)
    BY <2>1 DEF Completion, Own
  <2>3. ui' = Append(ui, c)
    BY <1>2 DEF PostCompleted
  <2> HIDE DEF c
  <2>4. AllOwn(Append(ui, c))
    BY <2>2, <1>t, <1>o, OwnAppend
  <2>5. QED
    BY <2>3, <2>4 DEF AllOwn
<1>3. ASSUME Deliver \/ ConsumeQueue PROVE AllOwn(ui)'
  <2>1. ui # <<>> /\ ui' = Tail(ui)
    BY <1>3 DEF Deliver, ConsumeQueue, Raises
  <2>2. AllOwn(Tail(ui))
    BY <2>1, <1>t, <1>o, OwnTail
  <2>3. QED
    BY <2>1, <2>2 DEF AllOwn
<1>4. ASSUME ProcessEndStreamEvent PROVE AllOwn(completing)'
  <2> DEFINE c == [failed |-> FALSE, session |-> started,
                   cancelled |-> isRecognizeCancelled, reached |-> reached,
                   result |-> lastResult, sync |-> FALSE]
  <2>1. completing' = << c >> /\ Alive
    BY <1>4 DEF ProcessEndStreamEvent, Dispatches
  <2>2. /\ isRecognizeCancelled # 0 => isRecognizeCancelled = started
        /\ lastResult \in {0, started}
    BY <1>o, <2>1 DEF FlagInv, DetectInv
  <2>3. \A x \in Timeout : reached[x] \in {0, started} \/ reached[x] < 0
    BY <1>o, <1>t, <2>1 DEF DetectInv
  <2>4. (\E x \in Timeout : reached[x] = 0) \/ reached["silence"] < 0
    BY <1>o, <1>t, <2>1 DEF DetectInv, FlagInv
  <2>5. Own(c)
    BY <2>2, <2>3, <2>4 DEF Own
  <2> HIDE DEF c
  <2>6. Len(completing') = 1 /\ completing'[1] = c
    BY <2>1
  <2>7. QED
    BY <2>5, <2>6 DEF AllOwn
<1>e. ASSUME UNCHANGED ui \/ ui' = <<>>, UNCHANGED completing \/ completing' = <<>>
      PROVE AllOwn(ui)' /\ AllOwn(completing)'
  BY <1>e, <1>o DEF AllOwn
<1>c. ASSUME AllOwn(ui)', UNCHANGED completing \/ completing' = <<>>
      PROVE AllOwn(ui)' /\ AllOwn(completing)'
  BY <1>c, <1>o DEF AllOwn
<1>5. AllOwn(ui)' /\ AllOwn(completing)'
  <2>1. ASSUME NEW g \in Grammar, LoadGrammarAsync(g) \/ Loads(g) \/ UnloadGrammar(g)
        PROVE AllOwn(ui)' /\ AllOwn(completing)'
    BY <2>1, <1>e DEF LoadGrammarAsync, Loads, LoadGrammarAsyncCallback, FinishOperation,
       UnloadGrammar, dispatchVars
  <2>2. CASE Recognize \/ \E mode \in {"single", "multiple"} : RecognizeAsync(mode)
    BY <2>2, <1>e DEF Recognize, RecognizeAsync, Starts, dispatchVars
  <2>3. CASE RecognizeAsyncCancel \/ CancelEngine \/ SetInput \/ EndRecognitionWithTimeout
    BY <2>3, <1>e DEF RecognizeAsyncCancel, CancelEngine, SetInput,
       EndRecognitionWithTimeout, dispatchVars
  <2>4. ASSUME NEW s \in Session, Pool(s) PROVE AllOwn(ui)' /\ AllOwn(completing)'
    <3>1. CASE CheckLoads(s) \/ StartEngine(s)
      BY <3>1, <1>1, <1>c DEF CheckLoads, StartEngine, dispatchVars
    <3>2. CASE WaitForOperationsToFinish(s) \/ TaskThrows(s)
      BY <3>2, <1>e DEF WaitForOperationsToFinish, TaskThrows, dispatchVars
    <3>3. QED
      BY <2>4, <3>1, <3>2 DEF Pool
  <2>5. CASE EngineHears \/ Decides \/ (\E x \in Timeout : EngineMarks(x))
             \/ \E released, empty \in BOOLEAN : EngineEnds(released, empty)
    BY <2>5, <1>e DEF EngineHears, Decides, EngineDecides, EngineMarks, EngineEnds,
       dispatchVars
  <2>6. CASE ProcessStartStreamEvent \/ ProcessPhraseStartEvent
             \/ ProcessBookmarkEvent \/ ProcessRecognitionEvent
    BY <2>6, <1>e DEF ProcessStartStreamEvent, ProcessPhraseStartEvent,
       ProcessBookmarkEvent, ProcessRecognitionEvent, Dispatches
  <2>7. CASE ProcessEndStreamEvent
    BY <2>7, <1>4, <1>o DEF ProcessEndStreamEvent, Dispatches, AllOwn
  <2>8. CASE PostCompleted
    BY <2>8, <1>2, <1>c DEF PostCompleted
  <2>9. CASE Deliver \/ ConsumeQueue
    BY <2>9, <1>3, <1>c DEF Deliver, ConsumeQueue, Raises, dispatchVars
  <2>10. CASE Dispose \/ UnloadAllGrammars \/ UNCHANGED vars
    BY <2>10, <1>e DEF Dispose, UnloadAllGrammars, vars, dispatchVars
  <2>11. QED
    BY <2>1, <2>2, <2>3, <2>4, <2>5, <2>6, <2>7, <2>8, <2>9, <2>10 DEF Next, Dispatch
<1>6. FlagInv'
  BY <1>o, FlagStep
<1>7. Alive' => Alive /\ DetectInv'
  <2>1. Alive' => Alive
    <3>1. disposed # "no" => disposed' # "no"
      BY DEF Next, Pool, Loads, Dispatch, Decides, vars, appVars, LoadGrammarAsync,
         LoadGrammarAsyncCallback, FinishOperation, UnloadGrammar, RecognizeAsync,
         Recognize, Starts, RecognizeAsyncCancel, CancelEngine, SetInput,
         WaitForOperationsToFinish, CheckLoads, StartEngine, TaskThrows, EngineHears,
         EngineDecides, EngineMarks, EngineEnds, ProcessStartStreamEvent,
         ProcessPhraseStartEvent, ProcessBookmarkEvent, ProcessRecognitionEvent,
         ProcessEndStreamEvent, Dispatches, PostCompleted, Deliver, ConsumeQueue, Raises,
         EndRecognitionWithTimeout, Dispose, UnloadAllGrammars
    <3>2. QED
      BY <3>1 DEF Alive
  <2>2. QED
    BY <2>1, <1>o, DetectStep
<1>8. QED
  BY <1>5, <1>6, <1>7 DEF OwnInv

(* At first nothing is set and nothing is queued. *)
LEMMA OwnStart == Init => OwnInv
<1> SUFFICES ASSUME Init PROVE OwnInv
  OBVIOUS
<1>1. FlagInv /\ DetectInv
  BY DEF Init, FlagInv, DetectInv, Timeout
<1>2. AllOwn(completing) /\ AllOwn(ui)
  BY DEF Init, AllOwn
<1>3. QED
  BY <1>1, <1>2 DEF OwnInv

(* A completed event tells of its own recognition: a cancel that was asked  *)
(* for, a result and timeouts from it and no earlier one; except the        *)
(* timeout that Recognize sets when it gives up                             *)
(* (RecognizerBase.cs, 609, 2436-2467).                                     *)
THEOREM ReportsAreOwn == Spec => []ReportIsOwn
<1>1. TypeOK /\ OwnInv => ReportIsOwn
  BY DEF TypeOK, OwnInv, AllOwn, Own, ReportIsOwn
<1>2. QED
  BY <1>1, OwnStart, OwnStep, PhaseStart, PhaseStep, TypeCorrect, PTL DEF Spec

(* Of the two timeouts only one is reported, unless Recognize gave up by    *)
(* itself (RecognizerBase.cs, 2195-2250, 2469).                             *)
THEOREM TimeoutsAreExclusive == Spec => []OneTimeout
<1>1. TypeOK /\ OwnInv => OneTimeout
  <2> SUFFICES ASSUME TypeOK, OwnInv, NEW k \in DOMAIN ui
               PROVE  (\E x \in Timeout : ui[k].reached[x] = 0) \/ ui[k].reached["silence"] < 0
    BY DEF OneTimeout
  <2>1. k \in 1..Len(ui)
    BY DEF TypeOK
  <2>2. QED
    BY <2>1 DEF OwnInv, AllOwn, Own
<1>2. QED
  BY <1>1, OwnStart, OwnStep, PhaseStart, PhaseStep, TypeCorrect, PTL DEF Spec
=============================================================================
