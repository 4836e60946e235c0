--------------------------- MODULE Timers_proofs ---------------------------
(***************************************************************************)
(* Proofs about Timers for any threads, timer objects, IDs and bounds, and *)
(* for any application.                                                    *)
(***************************************************************************)
EXTENDS Timers, TLAPS

Place == {"idle", "unlink", "cancel", "pop", "reuse", "recancel", "fill", "link",
          "push", "signal", "stop", "join"}

(* Where the callers are: one thread shuts down while the others are in no  *)
(* call, the timer thread calls only from inside a callback.                *)
InHand == {"cancel", "reuse", "recancel", "fill", "link", "push", "signal"}
CallersInv ==
  /\ \A c \in Caller : at[c] \in {"stop", "join"} =>
       c \in Thread /\ init = "quitting" /\ \A d \in Thread \ {c} : at[d] = "idle"
  /\ init = "no" => thread = "off"
  /\ at[TimerThread] # "idle" => thread = "returning"
  /\ \A c \in Caller : at[c] = "unlink" => target[c] \in Id
  /\ \A c \in Caller : at[c] \in InHand => timer[c] \in Timer

(* What the timer thread has in hand. *)
LoopInv ==
  /\ current # None <=> thread \in {"callback", "returning"}
  /\ thread \in {"off", "check"} => ended = {}
  /\ thread \notin {"scan", "callback", "returning"} => ready = {}

(* An object that somebody uses has an ID of its own. *)
IdsInv ==
  /\ \A t \in Timer : id[t] <= last
  /\ \A t, u \in Timer : id[t] = id[u] /\ id[t] # 0 => t = u
  /\ \A t \in pending \cup freelist \cup timers \cup ended : id[t] # 0
  /\ current # None => id[current] # 0
  /\ \A c \in Caller : at[c] \in {"reuse", "link", "push"} => id[timer[c]] # 0

(* The lists, spelled out. *)
Apart ==
  /\ pending \cap freelist = {} /\ pending \cap timers = {}
  /\ pending \cap ended = {} /\ freelist \cap timers = {}
  /\ freelist \cap ended = {} /\ timers \cap ended = {}
  /\ current \notin pending \cup freelist \cup timers \cup ended
  /\ \A c \in Caller : Makes(c) =>
       /\ timer[c] \notin pending \cup freelist \cup timers \cup ended
       /\ timer[c] # current
       /\ \A d \in Caller : d # c /\ Makes(d) => timer[d] # timer[c]

(* An object that SDL_CreateTimer prepares has no entry yet. *)
MapInv ==
  /\ MapMatches
  /\ \A c \in Caller : at[c] \in {"recancel", "fill", "link"} =>
       \A i \in Id : timermap[i] # timer[c]

(* Every field keeps its type. *)
LEMMA TypeStep ==
  ASSUME TypeOK, CallersInv, LoopInv, IdsInv, [Next]_vars
  PROVE  TypeOK'
<1> USE MaxIdIsNat, MaxQuitsIsNat, OnceIsId, NoneIsNoTimer DEF TypeOK,
     CallersInv, LoopInv, IdsInv, InHand, Place, Id,
       objectVars, listVars, loopVars, dataVars, callVars, history
<1>1. ASSUME InitTimers PROVE TypeOK'
  BY <1>1 DEF InitTimers
<1>2. ASSUME NEW c \in Caller, NEW i \in Id, RemoveTimer(c, i) PROVE TypeOK'
  BY <1>2 DEF RemoveTimer, Calls
<1>3. ASSUME NEW c \in Caller, CreateTimer(c) PROVE TypeOK'
  BY <1>3 DEF CreateTimer, Calls, Adding
<1>4. ASSUME NEW c \in Caller, QuitTimers(c) PROVE TypeOK'
  <2>1. quits' \in 0..MaxQuits
    BY <1>4 DEF QuitTimers, Calls
  <2>2. at' \in [Caller -> Place]
    BY <1>4, <2>1 DEF QuitTimers, Calls
  <2>3. thread' \in {thread, "returning"}
    BY <1>4 DEF QuitTimers, Calls
  <2>4. QED
    BY <1>4, <2>1, <2>2, <2>3 DEF QuitTimers, Calls
<1>5. ASSUME NEW c \in Caller, Unlink(c) PROVE TypeOK'
  <2>1. (IF Reusing(c) THEN id[timer[c]] ELSE target[c]) \in Id
    BY <1>5 DEF Unlink, Reusing
  <2>2. timermap' \in [Id -> Timer \cup {None}]
    BY <1>5, <2>1 DEF Unlink, Reusing
  <2>3. target' \in [Caller -> 0..MaxId]
    BY <1>5, <2>1, <2>2 DEF Unlink, Reusing
  <2>4. \E x \in {"idle", "cancel", "reuse", "recancel", "fill"} :
          at' = [at EXCEPT ![c] = x]
    BY <1>5, <2>1, <2>2, <2>3 DEF Unlink, Reusing
  <2>5. at' \in [Caller -> Place]
    BY <2>4
  <2>6. \E x \in Timer \cup {None} :
          timer' = timer \/ timer' = [timer EXCEPT ![c] = x]
    BY <1>5, <2>1, <2>2, <2>3 DEF Unlink, Reusing
  <2>7. timer' \in [Caller -> Timer \cup {None}]
    <3>1. PICK x \in Timer \cup {None} : timer' = timer \/ timer' = [timer EXCEPT ![c] = x]
      BY <2>6
    <3>2. CASE timer' = timer
      BY <3>2
    <3>3. CASE timer' = [timer EXCEPT ![c] = x]
      BY <3>3
    <3>4. QED
      BY <3>1, <3>2, <3>3
  <2>8. QED
    BY <1>5, <2>1, <2>2, <2>3, <2>5, <2>7 DEF Unlink, Reusing
<1>6. ASSUME NEW c \in Caller, Cancel(c) PROVE TypeOK'
  <2>1. timer[c] \in Timer
    BY <1>6 DEF Cancel
  <2>2. canceled' \in [Timer -> BOOLEAN]
    BY <1>6, <2>1 DEF Cancel
  <2>3. \E x \in {"idle", "cancel", "reuse", "recancel", "fill"} :
          at' = [at EXCEPT ![c] = x]
    BY <1>6, <2>1, <2>2 DEF Cancel
  <2>4. at' \in [Caller -> Place]
    BY <2>3
  <2>5. \E x \in Timer \cup {None} :
          timer' = timer \/ timer' = [timer EXCEPT ![c] = x]
    BY <1>6, <2>1, <2>2 DEF Cancel
  <2>6. timer' \in [Caller -> Timer \cup {None}]
    <3>1. PICK x \in Timer \cup {None} : timer' = timer \/ timer' = [timer EXCEPT ![c] = x]
      BY <2>5
    <3>2. CASE timer' = timer
      BY <3>2
    <3>3. CASE timer' = [timer EXCEPT ![c] = x]
      BY <3>3
    <3>4. QED
      BY <3>1, <3>2, <3>3
  <2>7. QED
    BY <1>6, <2>1, <2>2, <2>4, <2>6 DEF Cancel
<1>7. ASSUME NEW c \in Caller, Pop(c) PROVE TypeOK'
  <2>1. \E x \in {"idle", "cancel", "reuse", "recancel", "fill"} :
          at' = [at EXCEPT ![c] = x]
    BY <1>7 DEF Pop, Allocated, Takes
  <2>2. at' \in [Caller -> Place]
    BY <2>1
  <2>3. \E x \in Timer \cup {None} :
          timer' = timer \/ timer' = [timer EXCEPT ![c] = x]
    BY <1>7 DEF Pop, Allocated, Takes
  <2>4. timer' \in [Caller -> Timer \cup {None}]
    <3>1. PICK x \in Timer \cup {None} : timer' = timer \/ timer' = [timer EXCEPT ![c] = x]
      BY <2>3
    <3>2. CASE timer' = timer
      BY <3>2
    <3>3. CASE timer' = [timer EXCEPT ![c] = x]
      BY <3>3
    <3>4. QED
      BY <3>1, <3>2, <3>3
  <2>5. QED
    BY <1>7, <2>2, <2>4 DEF Pop, Allocated, Takes
<1>8. ASSUME NEW c \in Caller, Fill(c) PROVE TypeOK'
  <2>1. timer[c] \in Timer /\ last + 1 \in 0..MaxId
    BY <1>8 DEF Fill, StartsCanceled
  <2>2. id' \in [Timer -> 0..MaxId]
    BY <1>8, <2>1 DEF Fill, StartsCanceled
  <2>3. canceled' \in [Timer -> BOOLEAN]
    BY <1>8, <2>1 DEF Fill, StartsCanceled
  <2>4. at' \in [Caller -> Place]
    BY <1>8, <2>1 DEF Fill, StartsCanceled
  <2>5. QED
    BY <1>8, <2>1, <2>2, <2>3, <2>4 DEF Fill, StartsCanceled
<1>9. ASSUME NEW c \in Caller, Link(c) PROVE TypeOK'
  <2>1. timer[c] \in Timer /\ id[timer[c]] \in Id
    BY <1>9 DEF Link, Goes, Following
  <2>2. timermap' \in [Id -> Timer \cup {None}]
    BY <1>9, <2>1 DEF Link, Goes, Following
  <2>3. at' \in [Caller -> Place]
    BY <1>9, <2>1 DEF Link, Goes, Following
  <2>4. timer' \in [Caller -> Timer \cup {None}]
    BY <1>9, <2>1 DEF Link, Goes, Following
  <2>5. QED
    BY <1>9, <2>1, <2>2, <2>3, <2>4 DEF Link, Goes, Following
<1>10. ASSUME NEW c \in Caller, LinkFails(c) PROVE TypeOK'
  <2>1. timer[c] \in Timer
    BY <1>10 DEF LinkFails
  <2>2. id' \in [Timer -> 0..MaxId]
    BY <1>10, <2>1 DEF LinkFails
  <2>3. at' \in [Caller -> Place]
    BY <1>10, <2>1 DEF LinkFails
  <2>4. timer' \in [Caller -> Timer \cup {None}]
    BY <1>10, <2>1 DEF LinkFails
  <2>5. QED
    BY <1>10, <2>1, <2>2, <2>3, <2>4 DEF LinkFails
<1>11. ASSUME NEW c \in Caller, Push(c) PROVE TypeOK'
  <2>1. timer[c] \in Timer
    BY <1>11 DEF Push, Goes, Following
  <2>2. at' \in [Caller -> Place]
    BY <1>11, <2>1 DEF Push, Goes, Following
  <2>3. timer' \in [Caller -> Timer \cup {None}]
    BY <1>11, <2>1 DEF Push, Goes, Following
  <2>4. QED
    BY <1>11, <2>1, <2>2, <2>3 DEF Push, Goes, Following
<1>12. ASSUME NEW c \in Caller, Signal(c) PROVE TypeOK'
  BY <1>12 DEF Signal, Goes, Following
<1>13. ASSUME NEW c \in Caller, Stop(c) PROVE TypeOK'
  BY <1>13 DEF Stop, WakesThread
<1>14. ASSUME NEW c \in Caller, Join(c) PROVE TypeOK'
  <2>1. id' \in [Timer -> 0..MaxId]
    BY <1>14 DEF Join
  <2>2. timermap' \in [Id -> Timer \cup {None}]
    BY <1>14 DEF Join
  <2>3. at' \in [Caller -> Place]
    BY <1>14 DEF Join
  <2>4. QED
    BY <1>14, <2>1, <2>2, <2>3 DEF Join
<1>15. ASSUME NEW t \in Timer, TimePasses(t) PROVE TypeOK'
  BY <1>15 DEF TimePasses
<1>16. ASSUME Maintain PROVE TypeOK'
  BY <1>16 DEF Maintain, AfterHandOver
<1>17. ASSUME Check PROVE TypeOK'
  BY <1>17 DEF Check, DueAtTick
<1>18. ASSUME NEW t \in Timer, Handle(t) PROVE TypeOK'
  BY <1>18 DEF Handle
<1>19. ASSUME NEW again \in BOOLEAN, Return(again) PROVE TypeOK'
  <2>1. current \in Timer
    BY <1>19 DEF Return
  <2>2. timers' \subseteq Timer /\ ended' \subseteq Timer /\ ready' \subseteq timers'
    BY <1>19, <2>1 DEF Return
  <2>3. canceled' \in [Timer -> BOOLEAN]
    BY <1>19, <2>1, <2>2 DEF Return
  <2>4. QED
    BY <1>19, <2>1, <2>2, <2>3 DEF Return
<1>20. ASSUME ScanEnds PROVE TypeOK'
  BY <1>20 DEF ScanEnds
<1>21. ASSUME Wakes PROVE TypeOK'
  BY <1>21 DEF Wakes
<1>22. CASE UNCHANGED vars
  BY <1>22 DEF vars
<1>23. QED
  BY <1>1, <1>2, <1>3, <1>4, <1>5, <1>6, <1>7, <1>8, <1>9, <1>10, <1>11,
       <1>12, <1>13, <1>14, <1>15, <1>16, <1>17, <1>18, <1>19, <1>20, <1>21,
       <1>22
  DEF Next, Continues, Loop

(* One thread shuts down, and callbacks call only while they run. *)
LEMMA CallersStep ==
  ASSUME TypeOK, CallersInv, IdsInv, [Next]_vars
  PROVE  CallersInv'
<1> USE TimerThreadIsOther, CallbacksAreCalls, NoneIsNoTimer DEF TypeOK,
     CallersInv, InHand, Caller, Id,
       objectVars, listVars, loopVars, dataVars, callVars
<1>1. ASSUME InitTimers PROVE CallersInv'
  BY <1>1 DEF InitTimers
<1>2. ASSUME NEW c \in Caller, NEW i \in Id, RemoveTimer(c, i) PROVE CallersInv'
  BY <1>2 DEF RemoveTimer, Calls
<1>3. ASSUME NEW c \in Caller, CreateTimer(c) PROVE CallersInv'
  BY <1>3 DEF CreateTimer, Calls, Adding
<1>4. ASSUME NEW c \in Caller, QuitTimers(c) PROVE CallersInv'
  BY <1>4 DEF QuitTimers, Calls
<1>5. ASSUME NEW c \in Caller, Unlink(c) PROVE CallersInv'
  <2>1. \E x \in {"idle", "cancel", "recancel", "fill"} : at' = [at EXCEPT ![c] = x]
    BY <1>5 DEF Unlink, Reusing
  <2>2. at[c] \in {"unlink", "reuse"} /\ UNCHANGED <<init, thread>>
    BY <1>5 DEF Unlink, loopVars, dataVars
  <2>3. at'[c] \in InHand => timer'[c] \in Timer
    <3>1. CASE timermap[IF Reusing(c) THEN id[timer[c]] ELSE target[c]] = None
      BY <1>5, <3>1 DEF Unlink, Reusing
    <3>2. CASE timermap[IF Reusing(c) THEN id[timer[c]] ELSE target[c]] # None
      <4>1. (IF Reusing(c) THEN id[timer[c]] ELSE target[c]) \in Id
        BY <1>5 DEF Unlink, Reusing, IdsInv
      <4>2. QED
        BY <1>5, <3>2, <4>1 DEF Unlink, Reusing
    <3>3. QED
      BY <3>1, <3>2
  <2>4. \A d \in Caller \ {c} : at'[d] = at[d] /\ timer'[d] = timer[d] /\ target'[d] = target[d]
    BY <1>5, <2>1 DEF Unlink
  <2>5. QED
    BY <2>1, <2>2, <2>3, <2>4
<1>6. ASSUME NEW c \in Caller, Cancel(c) PROVE CallersInv'
  BY <1>6 DEF Cancel
<1>7. ASSUME NEW c \in Caller, Pop(c) PROVE CallersInv'
  BY <1>7 DEF Pop, Allocated, Takes
<1>8. ASSUME NEW c \in Caller, Fill(c) PROVE CallersInv'
  BY <1>8 DEF Fill, StartsCanceled
<1>9. ASSUME NEW c \in Caller, Link(c) PROVE CallersInv'
  BY <1>9 DEF Link, Goes, Following
<1>10. ASSUME NEW c \in Caller, LinkFails(c) PROVE CallersInv'
  BY <1>10 DEF LinkFails
<1>11. ASSUME NEW c \in Caller, Push(c) PROVE CallersInv'
  BY <1>11 DEF Push, Goes, Following
<1>12. ASSUME NEW c \in Caller, Signal(c) PROVE CallersInv'
  BY <1>12 DEF Signal, Goes, Following
<1>13. ASSUME NEW c \in Caller, Stop(c) PROVE CallersInv'
  BY <1>13 DEF Stop, WakesThread
<1>14. ASSUME NEW c \in Caller, Join(c) PROVE CallersInv'
  BY <1>14 DEF Join
<1>15. ASSUME NEW t \in Timer, TimePasses(t) PROVE CallersInv'
  BY <1>15 DEF TimePasses
<1>16. ASSUME Maintain PROVE CallersInv'
  BY <1>16 DEF Maintain, AfterHandOver
<1>17. ASSUME Check PROVE CallersInv'
  BY <1>17 DEF Check, DueAtTick
<1>18. ASSUME NEW t \in Timer, Handle(t) PROVE CallersInv'
  BY <1>18 DEF Handle
<1>19. ASSUME NEW again \in BOOLEAN, Return(again) PROVE CallersInv'
  BY <1>19 DEF Return
<1>20. ASSUME ScanEnds PROVE CallersInv'
  BY <1>20 DEF ScanEnds
<1>21. ASSUME Wakes PROVE CallersInv'
  BY <1>21 DEF Wakes
<1>22. CASE UNCHANGED vars
  BY <1>22 DEF vars
<1>23. QED
  BY <1>1, <1>2, <1>3, <1>4, <1>5, <1>6, <1>7, <1>8, <1>9, <1>10, <1>11,
       <1>12, <1>13, <1>14, <1>15, <1>16, <1>17, <1>18, <1>19, <1>20, <1>21,
       <1>22
  DEF Next, Continues, Loop

(* The timer thread keeps what it gathers until it hands it over. *)
LEMMA LoopStep ==
  ASSUME TypeOK, CallersInv, LoopInv, [Next]_vars
  PROVE  LoopInv'
<1> USE NoneIsNoTimer, TimerThreadIsOther DEF TypeOK, CallersInv, LoopInv,
     Caller,
       objectVars, listVars, loopVars, dataVars, callVars
<1>1. ASSUME InitTimers PROVE LoopInv'
  BY <1>1 DEF InitTimers
<1>2. ASSUME NEW c \in Caller, NEW i \in Id, RemoveTimer(c, i) PROVE LoopInv'
  BY <1>2 DEF RemoveTimer, Calls
<1>3. ASSUME NEW c \in Caller, CreateTimer(c) PROVE LoopInv'
  BY <1>3 DEF CreateTimer, Calls, Adding
<1>4. ASSUME NEW c \in Caller, QuitTimers(c) PROVE LoopInv'
  BY <1>4 DEF QuitTimers, Calls
<1>5. ASSUME NEW c \in Caller, Unlink(c) PROVE LoopInv'
  BY <1>5 DEF Unlink, Reusing
<1>6. ASSUME NEW c \in Caller, Cancel(c) PROVE LoopInv'
  BY <1>6 DEF Cancel
<1>7. ASSUME NEW c \in Caller, Pop(c) PROVE LoopInv'
  BY <1>7 DEF Pop, Allocated, Takes
<1>8. ASSUME NEW c \in Caller, Fill(c) PROVE LoopInv'
  BY <1>8 DEF Fill, StartsCanceled
<1>9. ASSUME NEW c \in Caller, Link(c) PROVE LoopInv'
  BY <1>9 DEF Link, Goes, Following
<1>10. ASSUME NEW c \in Caller, LinkFails(c) PROVE LoopInv'
  BY <1>10 DEF LinkFails
<1>11. ASSUME NEW c \in Caller, Push(c) PROVE LoopInv'
  BY <1>11 DEF Push, Goes, Following
<1>12. ASSUME NEW c \in Caller, Signal(c) PROVE LoopInv'
  BY <1>12 DEF Signal, Goes, Following
<1>13. ASSUME NEW c \in Caller, Stop(c) PROVE LoopInv'
  BY <1>13 DEF Stop, WakesThread
<1>14. ASSUME NEW c \in Caller, Join(c) PROVE LoopInv'
  BY <1>14 DEF Join
<1>15. ASSUME NEW t \in Timer, TimePasses(t) PROVE LoopInv'
  BY <1>15 DEF TimePasses
<1>16. ASSUME Maintain PROVE LoopInv'
  BY <1>16 DEF Maintain, AfterHandOver
<1>17. ASSUME Check PROVE LoopInv'
  BY <1>17 DEF Check, DueAtTick
<1>18. ASSUME NEW t \in Timer, Handle(t) PROVE LoopInv'
  BY <1>18 DEF Handle
<1>19. ASSUME NEW again \in BOOLEAN, Return(again) PROVE LoopInv'
  BY <1>19 DEF Return
<1>20. ASSUME ScanEnds PROVE LoopInv'
  BY <1>20 DEF ScanEnds
<1>21. ASSUME Wakes PROVE LoopInv'
  BY <1>21 DEF Wakes
<1>22. CASE UNCHANGED vars
  BY <1>22 DEF vars
<1>23. QED
  BY <1>1, <1>2, <1>3, <1>4, <1>5, <1>6, <1>7, <1>8, <1>9, <1>10, <1>11,
       <1>12, <1>13, <1>14, <1>15, <1>16, <1>17, <1>18, <1>19, <1>20, <1>21,
       <1>22
  DEF Next, Continues, Loop

(* IDs stay apart: a timer gets the next one. *)
LEMMA IdsStep ==
  ASSUME TypeOK, CallersInv, LoopInv, Apart, IdsInv, [Next]_vars
  PROVE  IdsInv'
<1> USE NoneIsNoTimer, TimerThreadIsOther, MaxIdIsNat DEF TypeOK, CallersInv,
     LoopInv, InHand, Apart, Makes, IdsInv,
       objectVars, listVars, loopVars, dataVars, callVars
<1>1. ASSUME InitTimers PROVE IdsInv'
  BY <1>1 DEF InitTimers
<1>2. ASSUME NEW c \in Caller, NEW i \in Id, RemoveTimer(c, i) PROVE IdsInv'
  BY <1>2 DEF RemoveTimer, Calls
<1>3. ASSUME NEW c \in Caller, CreateTimer(c) PROVE IdsInv'
  BY <1>3 DEF CreateTimer, Calls, Adding
<1>4. ASSUME NEW c \in Caller, QuitTimers(c) PROVE IdsInv'
  BY <1>4 DEF QuitTimers, Calls
<1>5. ASSUME NEW c \in Caller, Unlink(c) PROVE IdsInv'
  BY <1>5 DEF Unlink, Reusing
<1>6. ASSUME NEW c \in Caller, Cancel(c) PROVE IdsInv'
  BY <1>6 DEF Cancel
<1>7. ASSUME NEW c \in Caller, Pop(c) PROVE IdsInv'
  BY <1>7 DEF Pop, Allocated, Takes
<1>8. ASSUME NEW c \in Caller, Fill(c) PROVE IdsInv'
  BY <1>8 DEF Fill, StartsCanceled
<1>9. ASSUME NEW c \in Caller, Link(c) PROVE IdsInv'
  BY <1>9 DEF Link, Goes, Following
<1>10. ASSUME NEW c \in Caller, LinkFails(c) PROVE IdsInv'
  BY <1>10 DEF LinkFails
<1>11. ASSUME NEW c \in Caller, Push(c) PROVE IdsInv'
  BY <1>11 DEF Push, Goes, Following
<1>12. ASSUME NEW c \in Caller, Signal(c) PROVE IdsInv'
  BY <1>12 DEF Signal, Goes, Following
<1>13. ASSUME NEW c \in Caller, Stop(c) PROVE IdsInv'
  BY <1>13 DEF Stop, WakesThread
<1>14. ASSUME NEW c \in Caller, Join(c) PROVE IdsInv'
  <2>1. \A d \in Caller : at'[d] = "idle"
    BY <1>14 DEF Join, Caller
  <2>2. ended' = {} /\ freelist' = {} /\ timers' = {} /\ current' = None
    BY <1>14 DEF Join, loopVars
  <2>3. \A t \in Timer : id'[t] = IF t \in pending THEN id[t] ELSE 0
    BY <1>14 DEF Join
  <2>4. pending' = pending /\ last' = last /\ 0 <= last
    BY <1>14 DEF Join
  <2>5. QED
    BY <2>1, <2>2, <2>3, <2>4
<1>15. ASSUME NEW t \in Timer, TimePasses(t) PROVE IdsInv'
  BY <1>15 DEF TimePasses
<1>16. ASSUME Maintain PROVE IdsInv'
  BY <1>16 DEF Maintain, AfterHandOver
<1>17. ASSUME Check PROVE IdsInv'
  BY <1>17 DEF Check, DueAtTick
<1>18. ASSUME NEW t \in Timer, Handle(t) PROVE IdsInv'
  BY <1>18 DEF Handle
<1>19. ASSUME NEW again \in BOOLEAN, Return(again) PROVE IdsInv'
  BY <1>19 DEF Return
<1>20. ASSUME ScanEnds PROVE IdsInv'
  BY <1>20 DEF ScanEnds
<1>21. ASSUME Wakes PROVE IdsInv'
  BY <1>21 DEF Wakes
<1>22. CASE UNCHANGED vars
  BY <1>22 DEF vars
<1>23. QED
  BY <1>1, <1>2, <1>3, <1>4, <1>5, <1>6, <1>7, <1>8, <1>9, <1>10, <1>11,
       <1>12, <1>13, <1>14, <1>15, <1>16, <1>17, <1>18, <1>19, <1>20, <1>21,
       <1>22
  DEF Next, Continues, Loop

(* An object goes from one list to another. *)
LEMMA ApartStep ==
  ASSUME TypeOK, CallersInv, LoopInv, IdsInv, MapInv, Apart, [Next]_vars
  PROVE  Apart'
<1> USE NoneIsNoTimer, TimerThreadIsOther DEF TypeOK, CallersInv, LoopInv,
     InHand, Makes, Apart, IdsInv,
       objectVars, listVars, loopVars, dataVars, callVars
<1>1. ASSUME InitTimers PROVE Apart'
  BY <1>1 DEF InitTimers
<1>2. ASSUME NEW c \in Caller, NEW i \in Id, RemoveTimer(c, i) PROVE Apart'
  BY <1>2 DEF RemoveTimer, Calls
<1>3. ASSUME NEW c \in Caller, CreateTimer(c) PROVE Apart'
  BY <1>3 DEF CreateTimer, Calls, Adding
<1>4. ASSUME NEW c \in Caller, QuitTimers(c) PROVE Apart'
  BY <1>4 DEF QuitTimers, Calls
<1>5. ASSUME NEW c \in Caller, Unlink(c) PROVE Apart'
  <2>1. Reusing(c) /\ at'[c] = "recancel" => timer'[c] = timer[c]
    <3>1. SUFFICES ASSUME Reusing(c), at'[c] = "recancel" PROVE timer'[c] = timer[c]
      OBVIOUS
    <3>2. timer[c] \in Timer /\ id[timer[c]] # 0 /\ id[timer[c]] \in Id
      BY <3>1 DEF Reusing, Id
    <3>3. timermap[id[timer[c]]] # None /\ timer'[c] = timermap[id[timer[c]]]
      BY <1>5, <3>1 DEF Unlink, Reusing
    <3>4. timermap[id[timer[c]]] \in Timer /\ id[timermap[id[timer[c]]]] = id[timer[c]]
      BY <3>2, <3>3 DEF MapInv, MapMatches
    <3>5. QED
      BY <3>2, <3>3, <3>4
  <2>2. Reusing(c) /\ at'[c] = "fill" => timer'[c] = timer[c]
    BY <1>5 DEF Unlink, Reusing
  <2>3. Makes(c)' => Makes(c) /\ timer'[c] = timer[c]
    BY <1>5, <2>1, <2>2 DEF Unlink, Reusing
  <2>4. \A d \in Caller \ {c} : at'[d] = at[d] /\ timer'[d] = timer[d]
    BY <1>5 DEF Unlink, Reusing
  <2>5. UNCHANGED <<pending, freelist, timers, ended, current>>
    BY <1>5 DEF Unlink, listVars, loopVars
  <2>6. QED
    BY <2>3, <2>4, <2>5
<1>6. ASSUME NEW c \in Caller, Cancel(c) PROVE Apart'
  BY <1>6 DEF Cancel
<1>7. ASSUME NEW c \in Caller, Pop(c) PROVE Apart'
  BY <1>7 DEF Pop, Allocated, Takes
<1>8. ASSUME NEW c \in Caller, Fill(c) PROVE Apart'
  BY <1>8 DEF Fill, StartsCanceled
<1>9. ASSUME NEW c \in Caller, Link(c) PROVE Apart'
  BY <1>9 DEF Link, Goes, Following
<1>10. ASSUME NEW c \in Caller, LinkFails(c) PROVE Apart'
  BY <1>10 DEF LinkFails
<1>11. ASSUME NEW c \in Caller, Push(c) PROVE Apart'
  BY <1>11 DEF Push, Goes, Following
<1>12. ASSUME NEW c \in Caller, Signal(c) PROVE Apart'
  BY <1>12 DEF Signal, Goes, Following
<1>13. ASSUME NEW c \in Caller, Stop(c) PROVE Apart'
  BY <1>13 DEF Stop, WakesThread
<1>14. ASSUME NEW c \in Caller, Join(c) PROVE Apart'
  BY <1>14 DEF Join
<1>15. ASSUME NEW t \in Timer, TimePasses(t) PROVE Apart'
  BY <1>15 DEF TimePasses
<1>16. ASSUME Maintain PROVE Apart'
  BY <1>16 DEF Maintain, AfterHandOver
<1>17. ASSUME Check PROVE Apart'
  BY <1>17 DEF Check, DueAtTick
<1>18. ASSUME NEW t \in Timer, Handle(t) PROVE Apart'
  BY <1>18 DEF Handle
<1>19. ASSUME NEW again \in BOOLEAN, Return(again) PROVE Apart'
  BY <1>19 DEF Return
<1>20. ASSUME ScanEnds PROVE Apart'
  BY <1>20 DEF ScanEnds
<1>21. ASSUME Wakes PROVE Apart'
  BY <1>21 DEF Wakes
<1>22. CASE UNCHANGED vars
  BY <1>22 DEF vars
<1>23. QED
  BY <1>1, <1>2, <1>3, <1>4, <1>5, <1>6, <1>7, <1>8, <1>9, <1>10, <1>11,
       <1>12, <1>13, <1>14, <1>15, <1>16, <1>17, <1>18, <1>19, <1>20, <1>21,
       <1>22
  DEF Next, Continues, Loop

(* An entry goes before its object gets another ID. *)
LEMMA MapStep ==
  ASSUME TypeOK, CallersInv, IdsInv, Apart, MapInv, [Next]_vars
  PROVE  MapInv'
<1> USE NoneIsNoTimer, TimerThreadIsOther, MaxIdIsNat DEF TypeOK, CallersInv,
     InHand, IdsInv, Apart, Makes, MapInv, MapMatches, Id,
       objectVars, listVars, loopVars, dataVars, callVars
<1>1. ASSUME InitTimers PROVE MapInv'
  BY <1>1 DEF InitTimers
<1>2. ASSUME NEW c \in Caller, NEW i \in Id, RemoveTimer(c, i) PROVE MapInv'
  BY <1>2 DEF RemoveTimer, Calls
<1>3. ASSUME NEW c \in Caller, CreateTimer(c) PROVE MapInv'
  BY <1>3 DEF CreateTimer, Calls, Adding
<1>4. ASSUME NEW c \in Caller, QuitTimers(c) PROVE MapInv'
  BY <1>4 DEF QuitTimers, Calls
<1>5. ASSUME NEW c \in Caller, Unlink(c) PROVE MapInv'
  <2> DEFINE i == IF Reusing(c) THEN id[timer[c]] ELSE target[c]
  <2>1. /\ i \in Id /\ timermap' = [timermap EXCEPT ![i] = None] /\ UNCHANGED id
        /\ \A d \in Caller \ {c} : at'[d] = at[d] /\ timer'[d] = timer[d]
    BY <1>5 DEF Unlink, Reusing
  <2>2. at'[c] \in {"recancel", "fill"} =>
          at[c] = "reuse" /\ timer'[c] \in Timer /\
          \A k \in Id : timermap'[k] # timer'[c]
    BY <1>5, <2>1 DEF Unlink, Reusing
  <2>3. at'[c] # "link"
    BY <1>5 DEF Unlink, Reusing
  <2>4. MapMatches'
    BY <2>1
  <2>5. QED
    BY <2>1, <2>2, <2>3, <2>4
<1>6. ASSUME NEW c \in Caller, Cancel(c) PROVE MapInv'
  <2>1. MapMatches'
    BY <1>6 DEF Cancel
  <2>2. \A d \in Caller : at'[d] \in {"recancel", "fill", "link"} =>
          at[d] \in {"recancel", "fill", "link"} /\ timer'[d] = timer[d]
    BY <1>6 DEF Cancel
  <2>3. UNCHANGED timermap
    BY <1>6 DEF Cancel
  <2>4. \A d \in Caller : at[d] \in {"recancel", "fill", "link"} =>
          \A i \in Id : timermap[i] # timer[d]
    OBVIOUS
  <2>5. \A d \in Caller : at'[d] \in {"recancel", "fill", "link"} =>
          \A i \in Id : timermap'[i] # timer'[d]
    <3> HIDE DEF TypeOK, CallersInv, IdsInv, Apart, MapMatches, MapInv
    <3>1. QED
      BY <2>2, <2>3, <2>4
  <2>6. QED
    BY <2>1, <2>5, ZenonT(30)
<1>7. ASSUME NEW c \in Caller, Pop(c) PROVE MapInv'
  <2>1. MapMatches'
    BY <1>7 DEF Pop, objectVars
  <2>2. \A d \in Caller \ {c} : at'[d] = at[d] /\ timer'[d] = timer[d]
    BY <1>7 DEF Pop, Takes
  <2>3. at'[c] = "fill" => timer'[c] \in Timer /\ id[timer'[c]] = 0
    BY <1>7 DEF Pop, Takes, Allocated
  <2>4. at'[c] \in {"reuse", "fill", "idle"} /\ UNCHANGED timermap
    BY <1>7 DEF Pop, Takes, objectVars
  <2>5. \A d \in Caller : at'[d] \in {"recancel", "fill", "link"} =>
          \A i \in Id : timermap'[i] # timer'[d]
    <3>1. ASSUME NEW i \in Id, at'[c] = "fill" PROVE timermap[i] # timer'[c]
      <4>1. i # 0 /\ (timermap[i] # None => id[timermap[i]] = i) /\ timer'[c] # None
        BY <2>3, <3>1
      <4>2. QED
        BY <2>3, <3>1, <4>1
    <3>2. ASSUME NEW d \in Caller \ {c}, at[d] \in {"recancel", "fill", "link"}, NEW i \in Id
          PROVE  timermap[i] # timer[d]
      BY <3>2
    <3> HIDE DEF TypeOK, CallersInv, IdsInv, Apart, MapMatches, MapInv
    <3>3. QED
      BY <2>2, <2>4, <3>1, <3>2
  <2>6. QED
    BY <2>1, <2>5, ZenonT(30)
<1>8. ASSUME NEW c \in Caller, Fill(c) PROVE MapInv'
  BY <1>8 DEF Fill, StartsCanceled
<1>9. ASSUME NEW c \in Caller, Link(c) PROVE MapInv'
  BY <1>9 DEF Link, Goes, Following
<1>10. ASSUME NEW c \in Caller, LinkFails(c) PROVE MapInv'
  BY <1>10 DEF LinkFails
<1>11. ASSUME NEW c \in Caller, Push(c) PROVE MapInv'
  BY <1>11 DEF Push, Goes, Following
<1>12. ASSUME NEW c \in Caller, Signal(c) PROVE MapInv'
  BY <1>12 DEF Signal, Goes, Following
<1>13. ASSUME NEW c \in Caller, Stop(c) PROVE MapInv'
  BY <1>13 DEF Stop, WakesThread
<1>14. ASSUME NEW c \in Caller, Join(c) PROVE MapInv'
  BY <1>14 DEF Join
<1>15. ASSUME NEW t \in Timer, TimePasses(t) PROVE MapInv'
  BY <1>15 DEF TimePasses
<1>16. ASSUME Maintain PROVE MapInv'
  BY <1>16 DEF Maintain, AfterHandOver
<1>17. ASSUME Check PROVE MapInv'
  BY <1>17 DEF Check, DueAtTick
<1>18. ASSUME NEW t \in Timer, Handle(t) PROVE MapInv'
  BY <1>18 DEF Handle
<1>19. ASSUME NEW again \in BOOLEAN, Return(again) PROVE MapInv'
  BY <1>19 DEF Return
<1>20. ASSUME ScanEnds PROVE MapInv'
  BY <1>20 DEF ScanEnds
<1>21. ASSUME Wakes PROVE MapInv'
  BY <1>21 DEF Wakes
<1>22. CASE UNCHANGED vars
  BY <1>22 DEF vars
<1>23. QED
  BY <1>1, <1>2, <1>3, <1>4, <1>5, <1>6, <1>7, <1>8, <1>9, <1>10, <1>11,
       <1>12, <1>13, <1>14, <1>15, <1>16, <1>17, <1>18, <1>19, <1>20, <1>21,
       <1>22
  DEF Next, Continues, Loop

(* What a removal has in hand, and what is canceled: a timer asked for, or   *)
(* one that was started while a removal had the object in hand.              *)
Known(t) == id[t] \in asked \/ t \in caught
RemovesAsked == \A c \in Caller : at[c] = "unlink" => target[c] \in asked
CancelsKnown == \A c \in Caller : at[c] = "cancel" =>
                  id[timer[c]] = 0 \/ Known(timer[c])
CanceledKnown ==
  /\ \A t \in pending \cup timers : canceled[t] => Known(t)
  /\ current # None /\ canceled[current] => Known(current)
  /\ \A c \in Caller : at[c] \in {"link", "push"} /\ canceled[timer[c]] =>
       Known(timer[c])
CaughtInv == RemovesAsked /\ CancelsKnown /\ CanceledKnown

(* A removal falls on the timer it was asked for, or is caught in between. *)
LEMMA CaughtStep ==
  ASSUME TypeOK, CallersInv, LoopInv, IdsInv, Apart, MapInv, CaughtInv, [Next]_vars
  PROVE  CaughtInv'
<1> USE NoneIsNoTimer, TimerThreadIsOther, MaxIdIsNat, CallbacksAreCalls DEF
     TypeOK, CallersInv, LoopInv, InHand, IdsInv, Apart, Makes, MapInv,
     MapMatches, CaughtInv, Known, RemovesAsked, CancelsKnown, CanceledKnown,
     Id, objectVars, listVars, loopVars, dataVars, callVars, history
<1>1. ASSUME InitTimers PROVE CaughtInv'
  BY <1>1 DEF InitTimers
<1>2. ASSUME NEW c \in Caller, NEW i \in Id, RemoveTimer(c, i) PROVE CaughtInv'
  BY <1>2 DEF RemoveTimer, Calls
<1>3. ASSUME NEW c \in Caller, CreateTimer(c) PROVE CaughtInv'
  BY <1>3 DEF CreateTimer, Calls, Adding
<1>4. ASSUME NEW c \in Caller, QuitTimers(c) PROVE CaughtInv'
  BY <1>4 DEF QuitTimers, Calls
<1>5. ASSUME NEW c \in Caller, Unlink(c) PROVE CaughtInv'
  <2>1. \A d \in Caller \ {c} : at'[d] = at[d] /\ timer'[d] = timer[d]
    BY <1>5 DEF Unlink, Reusing
  <2>2. UNCHANGED <<id, canceled, pending, timers, current, asked, caught>>
    BY <1>5 DEF Unlink, loopVars
  <2>3. at'[c] \in {"idle", "fill", "recancel", "cancel"}
    BY <1>5 DEF Unlink, Reusing
  <2>4. at'[c] = "cancel" => id[timer'[c]] \in asked
    <3>1. SUFFICES ASSUME at'[c] = "cancel" PROVE id[timer'[c]] \in asked
      OBVIOUS
    <3>2. at[c] = "unlink" /\ timermap[target[c]] # None /\ timer'[c] = timermap[target[c]]
      BY <1>5, <3>1 DEF Unlink, Reusing
    <3>3. target[c] \in asked /\ target[c] \in Id
      BY <3>2
    <3>4. QED
      BY <3>2, <3>3
  <2>5. RemovesAsked'
    BY <1>5, <2>1, <2>2, <2>3 DEF Unlink, Reusing
  <2>6. CancelsKnown'
    BY <2>1, <2>2, <2>3, <2>4
  <2>7. CanceledKnown'
    BY <2>1, <2>2, <2>3
  <2>8. QED
    BY <2>5, <2>6, <2>7
<1>6. ASSUME NEW c \in Caller, Cancel(c) PROVE CaughtInv'
  <2>1. \A d \in Caller \ {c} : at'[d] = at[d] /\ timer'[d] = timer[d]
    BY <1>6 DEF Cancel
  <2>2. UNCHANGED <<id, target, pending, timers, current, asked, caught>>
    BY <1>6 DEF Cancel
  <2>3. at'[c] \in {"idle", "fill"} /\ timer[c] \in Timer
    BY <1>6 DEF Cancel
  <2>4. \A t \in Timer : canceled'[t] => canceled[t] \/ t = timer[c]
    BY <1>6 DEF Cancel
  <2>5. RemovesAsked' /\ CancelsKnown'
    BY <2>1, <2>2, <2>3
  <2>6. CanceledKnown'
    <3>1. CASE at[c] = "cancel"
      <4>1. id[timer[c]] = 0 \/ Known(timer[c])
        BY <3>1
      <4>2. QED
        BY <2>1, <2>2, <2>3, <2>4, <4>1
    <3>2. CASE at[c] = "recancel"
      <4>1. timer[c] \notin pending \cup timers /\ timer[c] # current
        BY <3>2
      <4>2. \A d \in Caller : d # c /\ at[d] \in {"link", "push"} => timer[d] # timer[c]
        BY <3>2
      <4>3. QED
        BY <2>1, <2>2, <2>3, <2>4, <4>1, <4>2
    <3>3. QED
      BY <1>6, <3>1, <3>2 DEF Cancel
  <2>7. QED
    BY <2>5, <2>6
<1>7. ASSUME NEW c \in Caller, Pop(c) PROVE CaughtInv'
  <2>1. \A d \in Caller \ {c} : at'[d] = at[d] /\ timer'[d] = timer[d]
    BY <1>7 DEF Pop
  <2>2. at'[c] \in {"reuse", "fill", "idle"}
    BY <1>7 DEF Pop, Takes
  <2>3. UNCHANGED <<id, canceled, target, pending, timers, current, asked, caught>>
    BY <1>7 DEF Pop
  <2>4. QED
    BY <2>1, <2>2, <2>3
<1>8. ASSUME NEW c \in Caller, Fill(c) PROVE CaughtInv'
  <2> DEFINE t == timer[c]
  <2>1. \A d \in Caller \ {c} : at'[d] = at[d]
    BY <1>8 DEF Fill
  <2>2. /\ UNCHANGED <<timer, target, pending, timers, current, asked>>
        /\ at[c] = "fill" /\ at'[c] = "link" /\ t \in Timer
    BY <1>8 DEF Fill
  <2>3. \A u \in Timer : u # t => id'[u] = id[u] /\ canceled'[u] = canceled[u]
                                    /\ (u \in caught' <=> u \in caught)
    BY <1>8 DEF Fill
  <2>4. ~canceled'[t]
    BY <1>8 DEF Fill, StartsCanceled
  <2>5. \A d \in Caller : at[d] = "cancel" /\ timer[d] = t => t \in caught'
    BY <1>8 DEF Fill, BeingRemoved
  <2>6. t \notin pending \cup timers /\ t # current
    BY <2>2
  <2>7. RemovesAsked'
    BY <2>1, <2>2
  <2>8. CancelsKnown'
    BY <2>1, <2>2, <2>3, <2>5
  <2>9. pending \cup timers \subseteq Timer /\ current \in Timer \cup {None}
    OBVIOUS
  <2>10. \A d \in Caller : d # c /\ at[d] \in {"link", "push"} =>
           timer[d] \in Timer /\ timer[d] # t
    BY <2>2
  <2> HIDE DEF TypeOK, CallersInv, LoopInv, IdsInv, Apart, MapInv, MapMatches, Makes
  <2>11. CanceledKnown'
    <3>1. \A u \in Timer : u # t /\ Known(u) => Known(u)'
      BY <2>2, <2>3
    <3>2. \A u \in pending \cup timers : canceled'[u] => Known(u)'
      BY <2>2, <2>3, <2>6, <2>9, <3>1
    <3>3. current # None /\ canceled'[current] => Known(current)'
      BY <2>2, <2>3, <2>6, <2>9, <3>1
    <3>4. ASSUME NEW d \in Caller, (at[d] \in {"link", "push"} /\ canceled[timer[d]])'
          PROVE  Known(timer[d])'
      <4>1. d # c /\ at[d] \in {"link", "push"} /\ timer[d] \in Timer /\ timer[d] # t
        BY <2>1, <2>2, <2>4, <2>10, <3>4
      <4>2. QED
        BY <2>2, <2>3, <2>10, <3>1, <3>4, <4>1
    <3>5. QED
      BY <2>2, <3>2, <3>3, <3>4
  <2>12. QED
    BY <2>7, <2>8, <2>11
<1>9. ASSUME NEW c \in Caller, Link(c) PROVE CaughtInv'
  BY <1>9 DEF Link, Goes, Following
<1>10. ASSUME NEW c \in Caller, LinkFails(c) PROVE CaughtInv'
  <2>1. \A d \in Caller \ {c} : at'[d] = at[d] /\ timer'[d] = timer[d]
    BY <1>10 DEF LinkFails
  <2>2. /\ UNCHANGED <<canceled, target, pending, timers, current, asked, caught>>
        /\ at[c] = "link" /\ at'[c] = "idle" /\ timer[c] \in Timer
    BY <1>10 DEF LinkFails
  <2>3. id'[timer[c]] = 0 /\ \A u \in Timer : u # timer[c] => id'[u] = id[u]
    BY <1>10 DEF LinkFails
  <2>4. timer[c] \notin pending \cup timers /\ timer[c] # current
    BY <2>2
  <2>5. \A d \in Caller : d # c /\ at[d] \in {"link", "push"} => timer[d] # timer[c]
    BY <2>2
  <2>6. RemovesAsked'
    BY <2>1, <2>2
  <2>7. CancelsKnown'
    BY <2>1, <2>2, <2>3
  <2>8. /\ pending \cup timers \subseteq Timer /\ current \in Timer \cup {None}
        /\ \A d \in Caller : at[d] \in {"link", "push"} => timer[d] \in Timer
    OBVIOUS
  <2> HIDE DEF TypeOK, CallersInv, LoopInv, IdsInv, Apart, MapInv, MapMatches, Makes
  <2>9. CanceledKnown'
    <3>1. \A u \in Timer : u # timer[c] /\ Known(u) => Known(u)'
      BY <2>2, <2>3
    <3>2. \A u \in pending \cup timers : canceled[u] => Known(u)'
      BY <2>2, <2>4, <2>8, <3>1
    <3>3. current # None /\ canceled[current] => Known(current)'
      BY <2>2, <2>4, <2>8, <3>1
    <3>4. ASSUME NEW d \in Caller, (at[d] \in {"link", "push"} /\ canceled[timer[d]])'
          PROVE  Known(timer[d])'
      <4>1. d # c /\ at[d] \in {"link", "push"} /\ timer'[d] = timer[d] /\ timer[d] \in Timer
        BY <2>1, <2>2, <2>8, <3>4
      <4>2. QED
        BY <2>2, <2>5, <3>1, <3>4, <4>1
    <3>5. QED
      BY <2>2, <3>2, <3>3, <3>4
  <2>10. QED
    BY <2>6, <2>7, <2>9
<1>11. ASSUME NEW c \in Caller, Push(c) PROVE CaughtInv'
  BY <1>11 DEF Push, Goes, Following
<1>12. ASSUME NEW c \in Caller, Signal(c) PROVE CaughtInv'
  BY <1>12 DEF Signal, Goes, Following
<1>13. ASSUME NEW c \in Caller, Stop(c) PROVE CaughtInv'
  BY <1>13 DEF Stop, WakesThread
<1>14. ASSUME NEW c \in Caller, Join(c) PROVE CaughtInv'
  <2>1. \A d \in Caller : at'[d] = "idle"
    BY <1>14 DEF Join, Caller
  <2>2. /\ UNCHANGED <<canceled, pending, current, asked, caught>> /\ timers' = {}
        /\ \A t \in pending : id'[t] = id[t]
    BY <1>14 DEF Join
  <2>3. current = None
    BY <1>14 DEF Join
  <2>4. RemovesAsked' /\ CancelsKnown'
    BY <2>1
  <2>5. CanceledKnown'
    BY <2>1, <2>2, <2>3
  <2>6. QED
    BY <2>4, <2>5
<1>15. ASSUME NEW t \in Timer, TimePasses(t) PROVE CaughtInv'
  BY <1>15 DEF TimePasses
<1>16. ASSUME Maintain PROVE CaughtInv'
  BY <1>16 DEF Maintain, AfterHandOver
<1>17. ASSUME Check PROVE CaughtInv'
  BY <1>17 DEF Check, DueAtTick
<1>18. ASSUME NEW t \in Timer, Handle(t) PROVE CaughtInv'
  BY <1>18 DEF Handle
<1>19. ASSUME NEW again \in BOOLEAN, Return(again) PROVE CaughtInv'
  BY <1>19 DEF Return
<1>20. ASSUME ScanEnds PROVE CaughtInv'
  BY <1>20 DEF ScanEnds
<1>21. ASSUME Wakes PROVE CaughtInv'
  BY <1>21 DEF Wakes
<1>22. CASE UNCHANGED vars
  BY <1>22 DEF vars
<1>23. QED
  BY <1>1, <1>2, <1>3, <1>4, <1>5, <1>6, <1>7, <1>8, <1>9, <1>10, <1>11,
       <1>12, <1>13, <1>14, <1>15, <1>16, <1>17, <1>18, <1>19, <1>20, <1>21,
       <1>22
  DEF Next, Continues, Loop

(* The invariant of the proofs. *)
IInv == TypeOK /\ CallersInv /\ LoopInv /\ IdsInv /\ Apart /\ MapInv

(* At first. *)
LEMMA InitInv == Init => IInv
<1> USE MaxIdIsNat, MaxQuitsIsNat, NoneIsNoTimer, TimerThreadIsOther
<1> SUFFICES ASSUME Init PROVE IInv
  OBVIOUS
<1>1. TypeOK
  <2>1. /\ id \in [Timer -> 0..MaxId] /\ canceled \in [Timer -> BOOLEAN]
        /\ timermap \in [Id -> Timer \cup {None}]
    BY DEF Init
  <2>2. at = [c \in Caller |-> "idle"] /\ last \in 0..MaxId /\ quits \in 0..MaxQuits
        /\ target \in [Caller -> 0..MaxId]
        /\ timer \in [Caller -> Timer \cup {None}]
    BY DEF Init
  <2>3. /\ pending \subseteq Timer /\ freelist \subseteq Timer /\ timers \subseteq Timer
        /\ ended \subseteq Timer /\ due \subseteq Timer /\ ready \subseteq timers
        /\ current \in Timer \cup {None} /\ asked \subseteq Id
        /\ caught \subseteq Timer /\ sem \in Nat
    BY DEF Init
  <2>4. QED
    BY <2>1, <2>2, <2>3 DEF Init, TypeOK
<1>2. CallersInv /\ LoopInv
  BY DEF Init, CallersInv, LoopInv, InHand, Caller
<1>3. IdsInv
  BY DEF Init, IdsInv
<1>4. Apart
  BY DEF Init, Apart, Makes
<1>5. MapInv
  BY DEF Init, MapInv, MapMatches
<1>6. QED
  BY <1>1, <1>2, <1>3, <1>4, <1>5 DEF IInv

(* Every step keeps it. *)
LEMMA StepInv == IInv /\ [Next]_vars => IInv'
BY TypeStep, CallersStep, LoopStep, IdsStep, ApartStep, MapStep DEF IInv

(* So it always holds. *)
LEMMA InvHolds == Spec => []IInv
BY InitInv, StepInv, PTL DEF Spec

-----------------------------------------------------------------------------
(* Type correctness: every field of every timer, caller and list stays in    *)
(* its type (SDL_timer.c, 30-70), for any number of threads and timers.      *)
THEOREM TypeCorrect == Spec => []TypeOK
<1>1. IInv => TypeOK
  BY DEF IInv
<1>2. QED
  BY <1>1, InvHolds, PTL

(* An ID leads only to the timer that has it: however calls, callbacks and   *)
(* the reuse of ended objects interleave, SDL_RemoveTimer never finds an     *)
(* object by the ID of its former life (SDL_timer.c, 320-328, 382-393).      *)
THEOREM MapAlwaysMatches == Spec => []MapMatches
<1>1. IInv => MapMatches
  BY DEF IInv, MapInv
<1>2. QED
  BY <1>1, InvHolds, PTL

(* A timer object is in one list, or in the hands of one thread: the lists,  *)
(* linked through one field and partly unlocked, never share an object       *)
(* (SDL_timer.c, 116-137, 172-187, 313-353).                                 *)
THEOREM OnePlaceAlways == Spec => []OnePlace
<1>1. IInv => OnePlace
  <2>1. SUFFICES ASSUME IInv PROVE OnePlace
    OBVIOUS
  <2>2. DOMAIN Lists = 1..5 /\ Lists[1] = pending /\ Lists[2] = freelist
        /\ Lists[3] = timers /\ Lists[4] = ended /\ Lists[5] = {current} \ {None}
    BY DEF Lists
  <2>3. ASSUME NEW j \in 1..5, NEW k \in 1..5, j # k PROVE Lists[j] \cap Lists[k] = {}
    <3>1. /\ pending \cap freelist = {} /\ pending \cap timers = {}
          /\ pending \cap ended = {} /\ freelist \cap timers = {}
          /\ freelist \cap ended = {} /\ timers \cap ended = {}
          /\ current \notin pending \cup freelist \cup timers \cup ended
      BY <2>1 DEF IInv, Apart
    <3>2. CASE j = 1
      BY <2>2, <2>3, <3>1, <3>2
    <3>3. CASE j = 2
      BY <2>2, <2>3, <3>1, <3>3
    <3>4. CASE j = 3
      BY <2>2, <2>3, <3>1, <3>4
    <3>5. CASE j = 4
      BY <2>2, <2>3, <3>1, <3>5
    <3>6. CASE j = 5
      BY <2>2, <2>3, <3>1, <3>6
    <3>7. QED
      BY <3>2, <3>3, <3>4, <3>5, <3>6
  <2>4. ASSUME NEW c \in Caller, Makes(c), NEW k \in 1..5 PROVE timer[c] \notin Lists[k]
    BY <2>1, <2>2, <2>4 DEF IInv, Apart
  <2>5. ASSUME NEW c \in Caller, Makes(c), NEW d \in Caller \ {c}, Makes(d)
        PROVE timer[d] # timer[c]
    BY <2>1, <2>5 DEF IInv, Apart
  <2>6. QED
    BY <2>2, <2>3, <2>4, <2>5 DEF OnePlace
<1>2. QED
  BY <1>1, InvHolds, PTL

(* No removal has begun when the program starts. *)
LEMMA InitCaught == Init => CaughtInv
BY NoneIsNoTimer DEF Init, CaughtInv, RemovesAsked, CancelsKnown, CanceledKnown, Known

(* Whatever timers are removed, from threads and callbacks: a scheduled      *)
(* timer is canceled only when its own removal was asked for, or by a        *)
(* removal of the object's earlier timer that was past its lock when the     *)
(* object was started again.  No removal begun later falls on it, and        *)
(* nothing is left of the earlier timer (SDL_timer.c, 186, 321, 334,         *)
(* 382-400).                                                                 *)
THEOREM OnlyCaughtIsCanceled == Spec => []OnlyCaughtCanceled
<1>1. IInv /\ CaughtInv /\ [Next]_vars => CaughtInv'
  BY CaughtStep DEF IInv
<1>2. CaughtInv => OnlyCaughtCanceled
  BY DEF CaughtInv, CanceledKnown, Known, OnlyCaughtCanceled
<1>3. QED
  BY InitCaught, <1>1, <1>2, InvHolds, PTL DEF Spec
=============================================================================
