------------------------------ MODULE Timers -------------------------------
(***************************************************************************)
(* The timers of SDL3 (src/timer/SDL_timer.c, the build with threads).     *)
(*                                                                         *)
(*  - Application threads, and callbacks, add and remove timers, and one   *)
(*    thread quits.                                                        *)
(*  - The timer thread collects the timers added, calls back those that    *)
(*    are due and puts those that have ended on the freelist, from where   *)
(*    SDL_CreateTimer takes them again.                                    *)
(*                                                                         *)
(* A step is a section under data->lock or timermap_lock, one access to    *)
(* canceled, active or the semaphore, or the timer thread's own code       *)
(* between two of them.  The order of the lists is left out: the timer     *)
(* thread's is sorted, so that its head is due if any of its timers is,    *)
(* and a timer's time comes at some moment while it is in a list.          *)
(* An entry of the map is known by its timerID.                            *)
(*                                                                         *)
(* The application calls SDL_Quit while its other threads are in no call.  *)
(***************************************************************************)
EXTENDS Integers, FiniteSets

CONSTANTS
  Thread,       (* application threads                                     *)
  TimerThread,  (* SDL_TimerThread, which calls from inside a callback     *)
  Timer,        (* SDL_Timer objects                                       *)
  None,         (* NULL                                                    *)
  MaxId,        (* bound on the timer IDs                                  *)
  Once,         (* the timers whose callback may return 0                  *)
  Callbacks,    (* what callbacks may call: "add", "remove"                *)
  Removed,      (* bound: the timers the application may ask to remove     *)
  MaxQuits      (* bound on the calls of SDL_Quit                          *)

Caller == Thread \cup {TimerThread}
Id == 1..MaxId

ASSUME TimerThreadIsOther == TimerThread \notin Thread
ASSUME NoneIsNoTimer == None \notin Timer
ASSUME MaxIdIsNat == MaxId \in Nat
ASSUME OnceIsId == Once \subseteq Id
ASSUME RemovedIsId == Removed \subseteq Id
ASSUME CallbacksAreCalls == Callbacks \subseteq {"add", "remove"}
ASSUME MaxQuitsIsNat == MaxQuits \in Nat

VARIABLES
  id,        (* timer->timerID; 0 when the object is not allocated         *)
  canceled,  (* timer->canceled                                            *)
  timermap,  (* data->timermap: the timer of each ID, or None              *)
  pending,   (* data->pending                                              *)
  freelist,  (* data->freelist                                             *)
  timers,    (* data->timers                                               *)
  ended,     (* the freelist the timer thread gathers in a cycle           *)
  due,       (* the timers whose time has come                             *)
  ready,     (* the timers due at the tick of this cycle, not yet handled  *)
  current,   (* the timer that is called back                              *)
  thread,    (* where the timer thread is; "off" before and after it runs  *)
  sem,       (* the value of data->sem                                     *)
  active,    (* data->active                                               *)
  init,      (* data->init: "no", "yes" or "quitting"                      *)
  at,        (* where each caller is                                       *)
  timer,     (* the object it has in hand                                  *)
  target,    (* the ID it removes                                          *)
  last,      (* SDL_GetNextObjectID                                        *)
  asked,     (* history: the IDs the application asked to remove           *)
  caught,    (* history: the timers started while a removal, of an earlier *)
             (* timer, had the object in hand                              *)
  quits      (* calls of SDL_Quit so far                                   *)

objectVars == <<id, canceled, timermap>>
listVars == <<pending, freelist, timers, ended, due, ready>>
loopVars == <<current, thread>>
dataVars == <<sem, active, init>>
callVars == <<at, timer, target>>
history == <<asked, caught>>
vars == <<objectVars, listVars, loopVars, dataVars, callVars, last, history, quits>>

Init ==
  /\ id = [t \in Timer |-> 0]
  /\ canceled = [t \in Timer |-> FALSE]
  /\ timermap = [i \in Id |-> None]
  /\ pending = {} /\ freelist = {} /\ timers = {} /\ ended = {}
  /\ due = {} /\ ready = {}
  /\ current = None /\ thread = "off"
  /\ sem = 0 /\ active = FALSE /\ init = "no"
  /\ at = [c \in Caller |-> "idle"]
  /\ timer = [c \in Caller |-> None]
  /\ target = [c \in Caller |-> 0]
  /\ last = 0 /\ asked = {} /\ caught = {} /\ quits = 0

-----------------------------------------------------------------------------
(* SDL_InitTimers, from SDL_Init or the first SDL_AddTimer. *)
InitTimers ==
  /\ init = "no"
  /\ init' = "yes" /\ active' = TRUE /\ sem' = 0
  /\ thread' = "maintain"
  /\ UNCHANGED <<objectVars, listVars, current, callVars, last, history, quits>>

(* Who makes a call: a thread of the application, or a callback, which    *)
(* makes at most one.                                                       *)
Calls(c, call) ==
  /\ at[c] = "idle"
  /\ \/ /\ c \in Thread /\ init = "yes"
        /\ UNCHANGED thread
     \/ /\ c = TimerThread /\ call \in Callbacks
        /\ thread = "callback" /\ thread' = "returning"

-----------------------------------------------------------------------------
(* SDL_RemoveTimer.                                                         *)

RemoveTimer(c, i) ==
  /\ Calls(c, "remove")
  /\ i <= last /\ i \in Removed
  /\ asked' = asked \cup {i}
  /\ at' = [at EXCEPT ![c] = "unlink"]
  /\ target' = [target EXCEPT ![c] = i]
  /\ UNCHANGED <<objectVars, listVars, current, dataVars, timer, last, caught, quits>>

(* SDL_CreateTimer removes the entry of an object it takes again. *)
Reusing(c) == at[c] = "reuse"

(* The section under timermap_lock. *)
Unlink(c) ==
  /\ at[c] \in {"unlink", "reuse"}
  /\ LET i == IF Reusing(c) THEN id[timer[c]] ELSE target[c]
         t == timermap[i]
     IN /\ timermap' = [timermap EXCEPT ![i] = None]
        /\ IF t = None
           THEN /\ at' = [at EXCEPT ![c] = IF Reusing(c) THEN "fill" ELSE "idle"]
                /\ UNCHANGED timer
           ELSE /\ at' = [at EXCEPT ![c] = IF Reusing(c) THEN "recancel" ELSE "cancel"]
                /\ timer' = [timer EXCEPT ![c] = t]
  /\ target' = [target EXCEPT ![c] = 0]
  /\ UNCHANGED <<id, canceled, listVars, loopVars, dataVars, last, history, quits>>

(* The entry's timer is canceled, unless it is already; the entry is freed. *)
Cancel(c) ==
  /\ at[c] \in {"cancel", "recancel"}
  /\ canceled' = [canceled EXCEPT ![timer[c]] = TRUE]
  /\ IF at[c] = "recancel"
     THEN at' = [at EXCEPT ![c] = "fill"] /\ UNCHANGED timer
     ELSE /\ at' = [at EXCEPT ![c] = "idle"]
          /\ timer' = [timer EXCEPT ![c] = None]
  /\ UNCHANGED <<id, timermap, listVars, loopVars, dataVars, target, last,
                 history, quits>>

-----------------------------------------------------------------------------
(* SDL_CreateTimer.                                                         *)

(* The callers that still take the next ID, for the bound. *)
Adding == {c \in Caller : at[c] \in {"pop", "reuse", "recancel", "fill"}}

CreateTimer(c) ==
  /\ Calls(c, "add")
  /\ last + Cardinality(Adding) < MaxId
  /\ at' = [at EXCEPT ![c] = "pop"]
  /\ UNCHANGED <<objectVars, listVars, current, dataVars, timer, target, last,
                 history, quits>>

Allocated(t) == id[t] # 0 \/ \E c \in Caller : timer[c] = t

(* The mutant takes the object as it is.                                    *)
TakesAsIs(t) == "fill"
Takes(t) == "reuse"

(* SDL_CheckInitTimers, which waits while the timers are shut down, and the *)
(* section that pops the freelist; with nothing there, an allocation, which *)
(* may fail.                                                                *)
Pop(c) ==
  /\ at[c] = "pop"
  /\ init = "yes"
  /\ \/ \E t \in freelist :
          /\ freelist' = freelist \ {t}
          /\ timer' = [timer EXCEPT ![c] = t]
          /\ at' = [at EXCEPT ![c] = Takes(t)]
     \/ /\ freelist = {}
        /\ \E t \in Timer : ~Allocated(t) /\ timer' = [timer EXCEPT ![c] = t]
        /\ at' = [at EXCEPT ![c] = "fill"]
        /\ UNCHANGED freelist
     \/ /\ freelist = {}
        /\ at' = [at EXCEPT ![c] = "idle"]
        /\ UNCHANGED <<freelist, timer>>
  /\ UNCHANGED <<objectVars, pending, timers, ended, due, ready, loopVars,
                 dataVars, target, last, history, quits>>

(* canceled of a timer that starts, whatever an ended one left there.       *)
StartsCanceled(t) == FALSE

(* Whether a removal is between the lock and the end, with this object. *)
BeingRemoved(t) == \E d \in Caller : at[d] = "cancel" /\ timer[d] = t

Fill(c) ==
  /\ at[c] = "fill"
  /\ last < MaxId
  /\ last' = last + 1
  /\ id' = [id EXCEPT ![timer[c]] = last + 1]
  /\ canceled' = [canceled EXCEPT ![timer[c]] = StartsCanceled(timer[c])]
  /\ caught' = IF BeingRemoved(timer[c]) THEN caught \cup {timer[c]} ELSE caught \ {timer[c]}
  /\ at' = [at EXCEPT ![c] = "link"]
  /\ UNCHANGED <<timermap, listVars, loopVars, dataVars, timer, target, asked,
                 quits>>

(* The order of the last steps.  The mutant signals before the timer is in  *)
(* the pending list.                                                        *)
SignalsFirst(step) ==
  CASE step = "link" -> "signal" [] step = "signal" -> "push" [] step = "push" -> "idle"
Following(step) ==
  CASE step = "link" -> "push" [] step = "push" -> "signal" [] step = "signal" -> "idle"

Goes(c) ==
  /\ at' = [at EXCEPT ![c] = Following(at[c])]
  /\ timer' = [timer EXCEPT ![c] = IF Following(at[c]) = "idle" THEN None ELSE @]

Link(c) ==
  /\ at[c] = "link"
  /\ timermap' = [timermap EXCEPT ![id[timer[c]]] = timer[c]]
  /\ Goes(c)
  /\ UNCHANGED <<id, canceled, listVars, loopVars, dataVars, target, last,
                 history, quits>>

(* No memory for the entry: the timer is freed. *)
LinkFails(c) ==
  /\ at[c] = "link"
  /\ id' = [id EXCEPT ![timer[c]] = 0]
  /\ timer' = [timer EXCEPT ![c] = None]
  /\ at' = [at EXCEPT ![c] = "idle"]
  /\ UNCHANGED <<canceled, timermap, listVars, loopVars, dataVars, target, last,
                 history, quits>>

Push(c) ==
  /\ at[c] = "push"
  /\ pending' = pending \cup {timer[c]}
  /\ Goes(c)
  /\ UNCHANGED <<objectVars, freelist, timers, ended, due, ready, loopVars,
                 dataVars, target, last, history, quits>>

Signal(c) ==
  /\ at[c] = "signal"
  /\ sem' = sem + 1
  /\ Goes(c)
  /\ UNCHANGED <<objectVars, listVars, loopVars, active, init, target, last,
                 history, quits>>

-----------------------------------------------------------------------------
(* SDL_TimerThread.                                                         *)

TimePasses(t) ==
  /\ t \in pending \cup timers /\ t \notin due
  /\ due' = due \cup {t}
  /\ UNCHANGED <<objectVars, pending, freelist, timers, ended, ready, loopVars,
                 dataVars, callVars, last, history, quits>>

(* What is left in the thread's own freelist once it is handed over.  The   *)
(* mutant does not reset it.                                                *)
KeptAfterHandOver == ended
AfterHandOver == {}

Maintain ==
  /\ thread = "maintain"
  /\ pending' = {} /\ timers' = timers \cup pending
  /\ freelist' = freelist \cup ended /\ ended' = AfterHandOver
  /\ thread' = "check"
  /\ UNCHANGED <<objectVars, due, ready, current, dataVars, callVars, last,
                 history, quits>>

(* The timers due at the tick.  The mutant forgets that a timer that is     *)
(* still pending is not in the list.                                        *)
AllDue == due
DueAtTick == timers \cap due

(* Ends, or reads the tick. *)
Check ==
  /\ thread = "check"
  /\ thread' = IF active THEN "scan" ELSE "off"
  /\ ready' = IF active THEN DueAtTick ELSE {}
  /\ UNCHANGED <<objectVars, pending, freelist, timers, ended, due, current,
                 dataVars, callVars, last, history, quits>>

(* A timer due at the tick: called back, or dropped when canceled. *)
Handle(t) ==
  /\ thread = "scan" /\ t \in ready
  /\ timers' = timers \ {t} /\ due' = due \ {t} /\ ready' = ready \ {t}
  /\ \/ /\ canceled[t]
        /\ ended' = ended \cup {t}
        /\ UNCHANGED <<thread, current>>
     \/ /\ ~canceled[t]
        /\ thread' = "callback" /\ current' = t
        /\ UNCHANGED ended
  /\ UNCHANGED <<objectVars, pending, freelist, dataVars, callVars, last, history,
                 quits>>

(* The callback gives the next interval, or 0. *)
Return(again) ==
  /\ thread \in {"callback", "returning"} /\ at[TimerThread] = "idle"
  /\ \/ /\ again
        /\ timers' = timers \cup {current}
        /\ UNCHANGED <<ended, canceled>>
     \/ /\ ~again /\ id[current] \in Once
        /\ ended' = ended \cup {current}
        /\ canceled' = [canceled EXCEPT ![current] = TRUE]
        /\ UNCHANGED timers
  /\ thread' = "scan" /\ current' = None
  /\ UNCHANGED <<id, timermap, pending, freelist, due, ready, dataVars, callVars,
                 last, history, quits>>

ScanEnds ==
  /\ thread = "scan" /\ ready = {}
  /\ thread' = "wait"
  /\ UNCHANGED <<objectVars, listVars, current, dataVars, callVars, last,
                 history, quits>>

(* SDL_WaitSemaphoreTimeoutNS: signaled, or the head of the list is due. *)
Wakes ==
  /\ thread = "wait"
  /\ \/ sem > 0 /\ sem' = sem - 1
     \/ sem = 0 /\ timers \cap due # {} /\ UNCHANGED sem
  /\ thread' = "maintain"
  /\ UNCHANGED <<objectVars, listVars, current, active, init, callVars, last,
                 history, quits>>

-----------------------------------------------------------------------------
(* SDL_QuitTimers.                                                          *)
QuitTimers(c) ==
  /\ Calls(c, "quit")
  /\ \A d \in Thread : at[d] = "idle"
  /\ quits < MaxQuits
  /\ quits' = quits + 1
  /\ init' = "quitting" /\ active' = FALSE
  /\ at' = [at EXCEPT ![c] = "stop"]
  /\ UNCHANGED <<objectVars, listVars, current, sem, timer, target, last,
                 history>>

(* The mutant waits for the thread without waking it.                       *)
WakesNobody == sem
WakesThread == sem + 1

Stop(c) ==
  /\ at[c] = "stop"
  /\ sem' = WakesThread
  /\ at' = [at EXCEPT ![c] = "join"]
  /\ UNCHANGED <<objectVars, listVars, loopVars, active, init, timer, target,
                 last, history, quits>>

(* Once the thread has ended: what is still pending is left behind. *)
Join(c) ==
  /\ at[c] = "join" /\ thread = "off"
  /\ id' = [t \in Timer |-> IF t \in pending THEN id[t] ELSE 0]
  /\ timermap' = [i \in Id |-> None]
  /\ timers' = {} /\ freelist' = {}
  /\ due' = due \cap pending
  /\ init' = "no"
  /\ at' = [at EXCEPT ![c] = "idle"]
  /\ UNCHANGED <<canceled, pending, ended, ready, loopVars, sem, active, timer,
                 target, last, history, quits>>

-----------------------------------------------------------------------------
Loop ==
  \/ Maintain \/ Check \/ ScanEnds \/ Wakes
  \/ \E t \in Timer : Handle(t)
  \/ \E again \in BOOLEAN : Return(again)

(* A caller's next step inside a call. *)
Continues(c) ==
  \/ Unlink(c) \/ Cancel(c) \/ Pop(c) \/ Fill(c) \/ Link(c)
  \/ LinkFails(c) \/ Push(c) \/ Signal(c) \/ Stop(c) \/ Join(c)

Next ==
  \/ InitTimers
  \/ \E c \in Caller, i \in Id : RemoveTimer(c, i)
  \/ \E c \in Caller : CreateTimer(c) \/ QuitTimers(c)
  \/ \E c \in Caller : Continues(c)
  \/ \E t \in Timer : TimePasses(t)
  \/ Loop

Spec == Init /\ [][Next]_vars

(* Every thread is scheduled, callbacks return and time passes. *)
FairSpec ==
  /\ Spec
  /\ WF_vars(Maintain \/ Check \/ ScanEnds \/ Wakes)
  /\ WF_vars(\E t \in Timer : Handle(t))
  /\ WF_vars(\E again \in BOOLEAN : Return(again))
  /\ \A c \in Caller : WF_vars(Continues(c))
  /\ \A t \in Timer : WF_vars(TimePasses(t))

-----------------------------------------------------------------------------
TypeOK ==
  /\ id \in [Timer -> 0..MaxId]
  /\ canceled \in [Timer -> BOOLEAN]
  /\ timermap \in [Id -> Timer \cup {None}]
  /\ pending \subseteq Timer /\ freelist \subseteq Timer /\ timers \subseteq Timer
  /\ ended \subseteq Timer /\ due \subseteq Timer /\ ready \subseteq timers
  /\ current \in Timer \cup {None}
  /\ thread \in {"off", "maintain", "check", "scan", "callback", "returning", "wait"}
  /\ sem \in Nat /\ active \in BOOLEAN /\ init \in {"no", "yes", "quitting"}
  /\ at \in [Caller -> {"idle", "unlink", "cancel", "pop", "reuse", "recancel",
                        "fill", "link", "push", "signal", "stop", "join"}]
  /\ timer \in [Caller -> Timer \cup {None}]
  /\ target \in [Caller -> 0..MaxId]
  /\ last \in 0..MaxId /\ asked \subseteq Id /\ caught \subseteq Timer /\ quits \in 0..MaxQuits

(* An ID leads to the timer that has it: an object that is taken from the    *)
(* freelist again is no longer found by the ID it had, so that a look-up for *)
(* an old timer does not find a new one (SDL_timer.c, 320-328, 382-393).     *)
MapMatches == \A i \in Id : timermap[i] # None => id[timermap[i]] = i

(* A timer object is in one list at a time, or in the hands of one thread: a *)
(* second place would corrupt the lists, which share the field next          *)
(* (SDL_timer.c, 116-137, 172-187, 313-353).                                 *)
Makes(c) == at[c] \in {"reuse", "recancel", "fill", "link", "push"}
Lists == <<pending, freelist, timers, ended, {current} \ {None}>>
OnePlace ==
  /\ \A j, k \in DOMAIN Lists : j # k => Lists[j] \cap Lists[k] = {}
  /\ \A c \in Caller : Makes(c) =>
       /\ \A k \in DOMAIN Lists : timer[c] \notin Lists[k]
       /\ \A d \in Caller \ {c} : Makes(d) => timer[d] # timer[c]

(* A timer that waits for its time is canceled only if the application asked *)
(* to remove it, or by a removal of the object's earlier timer that was      *)
(* already past the lock (394) when the object was started again: no removal *)
(* begun later falls on it, nor does what the earlier timer left set, were   *)
(* it canceled or over by itself (SDL_timer.c, 186, 321, 334, 396-400).      *)
OnlyCaughtCanceled ==
  \A t \in pending \cup timers : canceled[t] => id[t] \in asked \/ t \in caught

(* "It is safe to call this function from any thread" (SDL_timer.h, 439): a  *)
(* timer that waits for its time is canceled only if the application asked   *)
(* to remove it, by its own ID.                                              *)
OnlyAskedCanceled ==
  \A t \in pending \cup timers : canceled[t] => id[t] \in asked

(* A timer that is scheduled is called back, or canceled, or the timers are  *)
(* shut down: no order of the semaphore, the pending list and the waiting    *)
(* thread loses it (SDL_timer.c, 115-134, 204, 349-356).                     *)
Armed(i) == \E t \in pending \cup timers : id[t] = i /\ ~canceled[t]
TimerFires == \A i \in Id : Armed(i) ~> (~Armed(i) \/ init # "yes")

(* SDL_QuitTimers returns: the timer thread sees active wherever it was      *)
(* (SDL_timer.c, 139-142, 254-261).                                          *)
QuitEnds == init = "quitting" ~> init = "no"
=============================================================================
