----------------------- MODULE AudioDeviceOut_proofs ------------------------
(***************************************************************************)
(* Proofs about AudioDeviceOut, for every bound and whatever calls fail.   *)
(***************************************************************************)
EXTENDS AudioDeviceOut, Selection_proofs, SequenceTheorems

-----------------------------------------------------------------------------
(* What the state variables must satisfy for TypeOK to last: the oldest     *)
(* item is a buffer, for events enter the queue only behind one and leave   *)
(* it with it; and the newest one, while waveOutWrite runs, is the buffer   *)
(* it was called for, unless a late callback has already removed it.        *)
HeadIsBuffer == queueIn # <<>> => IsBuffer(queueIn[1])
LastIsWritten ==
  speaker = "write" /\ queueIn # <<>> => queueIn[Len(queueIn)] = Buffer(items)
ItemNumbered == speaker \in {"write", "inject"} => items >= 1

TypeInv == TypeOK /\ HeadIsBuffer /\ LastIsWritten /\ ItemNumbered

(* Who holds _noWriteOutLock, and what the flags say of the device.         *)
LockHeld ==
  /\ owner = "speaker" <=> speaker \in {"write", "close"}
  /\ owner = "canceller" <=> canceller = "wait"
FlagsHold ==
  /\ hwOpen => deviceOpen \/ speaker = "close"
  /\ aborted => aborts >= 1
  /\ aborted => speaker # "write"

(* The device between two prompts is closed unless its opening failed, and  *)
(* inside Resume, once it has been restarted, it is not paused.             *)
ResumeHolds ==
  hwOpen /\ ~refused =>
    /\ speaker # "idle"
    /\ controller = "clear" /\ hwPaused => raced \/ aborted

PauseInv == LockHeld /\ FlagsHold /\ ResumeHolds /\ PauseHolds

(* The items are numbered in the order of the calls, and what is dispatched *)
(* comes before all that is queued.                                         *)
Tidy(q, s) ==
  /\ Increasing(Ids(q)) /\ Increasing(s)
  /\ BufferIds(q) = Elements(s)

Below(q, d, n) ==
  /\ \A i \in DOMAIN q : q[i].id <= n
  /\ \A i \in DOMAIN d : d[i] <= n
Before(d, q) == \A i \in DOMAIN d, j \in DOMAIN q : d[i] < q[j].id

OrderInv ==
  aborts = 0 =>
    /\ Tidy(queueIn, Sounding)
    /\ Increasing(dispatched)
    /\ Before(dispatched, queueIn)
    /\ Below(queueIn, dispatched, IF speaker = "inject" THEN items - 1 ELSE items)

SilentInv == OrderInv /\ AbortSilences
AllInv == TypeInv /\ PauseInv /\ SilentInv

-----------------------------------------------------------------------------
(* A buffer and an event, and what tells them apart.                        *)
LEMMA ItemFacts ==
  /\ \A n \in 1..MaxItems :
       /\ Buffer(n) \in BufferItem /\ IsBuffer(Buffer(n)) /\ Buffer(n).id = n
       /\ Event(n) \in Item /\ ~IsBuffer(Event(n)) /\ Event(n).id = n
  /\ \A x \in Item : /\ x.id \in 1..MaxItems
                     /\ IsBuffer(x) => x = Buffer(x.id) /\ x \in BufferItem
  /\ \A x \in BufferItem : x \in Item
<1>1. ASSUME NEW n \in 1..MaxItems
      PROVE  /\ Buffer(n) \in BufferItem /\ IsBuffer(Buffer(n)) /\ Buffer(n).id = n
             /\ Event(n) \in Item /\ ~IsBuffer(Event(n)) /\ Event(n).id = n
  BY DEF Buffer, Event, Item, BufferItem, IsBuffer
<1>2. ASSUME NEW x \in Item
      PROVE  x.id \in 1..MaxItems /\ x.event \in BOOLEAN
  BY DEF Item
<1>3. ASSUME NEW x \in Item, IsBuffer(x)
      PROVE  x = Buffer(x.id)
  <2>1. x.event = FALSE
    BY <1>2, <1>3 DEF IsBuffer
  <2>2. x = [id |-> x.id, event |-> x.event]
    BY DEF Item
  <2> QED
    BY <2>1, <2>2 DEF Buffer
<1>4. \A x \in BufferItem : x \in Item
  BY DEF Item, BufferItem
<1> QED
  BY <1>1, <1>2, <1>3, <1>4

(* The numbers of a sequence of items.                                      *)
LEMMA IdsFacts ==
  ASSUME NEW q \in Seq(Item)
  PROVE  /\ Ids(q) \in Seq(1..MaxItems)
         /\ Len(Ids(q)) = Len(q)
         /\ DOMAIN Ids(q) = 1..Len(q)
         /\ \A i \in 1..Len(q) : Ids(q)[i] = q[i].id
<1>1. \A i \in 1..Len(q) : q[i].id \in 1..MaxItems
  BY ItemFacts
<1>2. Ids(q) = [i \in 1..Len(q) |-> q[i].id]
  BY DEF Ids
<1>3. [i \in 1..Len(q) |-> q[i].id] \in Seq(1..MaxItems)
  BY <1>1
<1> QED
  BY <1>2, <1>3

(* A piece of a sequence.                                                   *)
LEMMA PieceFacts ==
  ASSUME NEW T, NEW q \in Seq(T), NEW m \in 1..(Len(q) + 1), NEW n \in Int, n <= Len(q)
  PROVE  /\ SubSeq(q, m, n) \in Seq(T)
         /\ Len(SubSeq(q, m, n)) = IF m <= n THEN n - m + 1 ELSE 0
         /\ \A i \in 1..Len(SubSeq(q, m, n)) : SubSeq(q, m, n)[i] = q[m + i - 1]
<1>1. \A i \in m..n : q[i] \in T
  OBVIOUS
<1> QED
  BY <1>1, SubSeqProperties

(* What a callback removes: at least the item in front, then events only,   *)
(* and the buffer behind them stays.                                        *)
LEMMA RemovedFacts ==
  ASSUME queueIn \in Seq(Item), queueIn # <<>>
  PROVE  /\ Removed \in 1..Len(queueIn)
         /\ \A i \in 2..Removed : ~IsBuffer(queueIn[i])
         /\ Removed < Len(queueIn) => IsBuffer(queueIn[Removed + 1])
<1> DEFINE later == {i \in 2..Len(queueIn) : IsBuffer(queueIn[i])}
           first == CHOOSE i \in later : \A j \in later : i <= j
<1>1. Len(queueIn) \in Nat /\ Len(queueIn) >= 1
  OBVIOUS
<1>2. Removed = IF later = {} THEN Len(queueIn) ELSE first - 1
  BY DEF Removed
<1>3. CASE later = {}
  <2>1. \A i \in 2..Len(queueIn) : ~IsBuffer(queueIn[i])
    BY <1>3
  <2>2. Removed = Len(queueIn)
    BY <1>2, <1>3
  <2> QED
    BY <1>1, <2>1, <2>2
<1>4. CASE later # {}
  <2>1. later \in SUBSET (2..Len(queueIn)) /\ later \in SUBSET Int
    BY <1>1
  <2>2. IsFiniteSet(later)
    <3>1. IsFiniteSet(2..Len(queueIn))
      BY <1>1, FS_Interval
    <3> HIDE DEF later
    <3> QED
      BY <2>1, <3>1, FS_Subset
  <2>3. \E i \in later : \A j \in later : i <= j
    BY <1>4, <2>1, <2>2, SmallestMember
  <2>4. first \in later /\ \A j \in later : first <= j
    BY <2>3
  <2>5. Removed = first - 1
    BY <1>2, <1>4
  <2>6. first \in 2..Len(queueIn) /\ IsBuffer(queueIn[first])
    BY <2>4
  <2>7. \A i \in 2..Len(queueIn) : IsBuffer(queueIn[i]) => first <= i
    BY <2>4
  <2> HIDE DEF first, later
  <2>8. Removed + 1 = first
    BY <2>5, <2>6
  <2> QED
    BY <1>1, <2>5, <2>6, <2>7, <2>8
<1> QED
  BY <1>3, <1>4
-----------------------------------------------------------------------------
(* Typing.  A step that leaves the sequences and the numbers alone, and     *)
(* does not take the speaker to the write or to the injection.              *)
LEMMA QuietType ==
  ASSUME TypeInv, TypeOK',
         UNCHANGED <<queueIn, items>>,
         speaker' = speaker \/ speaker' \notin {"write", "inject"}
  PROVE  TypeInv'
BY DEF TypeInv, HeadIsBuffer, LastIsWritten, ItemNumbered

(* Every step keeps the types, an operation of a handler at a time.         *)
LEMMA TypeStep == TypeInv /\ [Next]_vars => TypeInv'
<1> SUFFICES ASSUME TypeInv, [Next]_vars PROVE TypeInv'
  OBVIOUS
<1>m. MaxItems \in Nat /\ MaxAborts \in Nat /\ MaxPauses \in Nat
  BY BoundsAreNat
<1>t. TypeOK
  BY DEF TypeInv
<1>q. queueIn \in Seq(Item) /\ queueOut \in Seq(BufferItem) /\ items \in 0..MaxItems
  BY DEF TypeInv, TypeOK
<1>s. hwQueue \in Seq(1..MaxItems) /\ hwDone \in Seq(1..MaxItems) /\ dispatched \in Seq(1..MaxItems)
  BY DEF TypeInv, TypeOK
<1>e. <<>> \in Seq(Item) /\ <<>> \in Seq(BufferItem) /\ <<>> \in Seq(1..MaxItems)
  BY EmptySeq
<1>u. CASE UNCHANGED vars
  BY <1>u, <1>t, QuietType DEF vars, devVars, hwVars, threadVars, counters, TypeOK
<1>1. CASE BeginOpen
  <2>1. TypeOK'
    BY <1>1, <1>t, <1>m DEF BeginOpen, TypeOK, StartsPaused, QueueIsEmpty, devVars, hwVars, threadVars, counters
  <2> QED
    BY <1>1, <2>1, QuietType DEF BeginOpen, devVars, hwVars, threadVars, counters
<1>2. CASE BeginAsserts
  <2>1. TypeOK'
    BY <1>2, <1>t, <1>m DEF BeginAsserts, TypeOK, StartsPaused, QueueIsEmpty, devVars, hwVars, threadVars, counters
  <2> QED
    BY <1>2, <2>1, QuietType DEF BeginAsserts, devVars, hwVars, threadVars, counters
<1>3. CASE BeginSet
  <2>1. TypeOK'
    BY <1>3, <1>t, <1>m DEF BeginSet, TypeOK, StartsPaused, QueueIsEmpty, devVars, hwVars, threadVars, counters
  <2> QED
    BY <1>3, <2>1, QuietType DEF BeginSet, devVars, hwVars, threadVars, counters
<1>4. CASE Finish
  <2>1. TypeOK'
    BY <1>4, <1>t, <1>m DEF Finish, TypeOK, StartsPaused, QueueIsEmpty, devVars, hwVars, threadVars, counters
  <2> QED
    BY <1>4, <2>1, QuietType DEF Finish, devVars, hwVars, threadVars, counters
<1>5. CASE WaitUntilDone
  <2>1. TypeOK'
    BY <1>5, <1>t, <1>m DEF WaitUntilDone, TypeOK, StartsPaused, QueueIsEmpty, devVars, hwVars, threadVars, counters
  <2> QED
    BY <1>5, <2>1, QuietType DEF WaitUntilDone, devVars, hwVars, threadVars, counters
<1>6. CASE ResumeRestart
  <2>1. TypeOK'
    BY <1>6, <1>t, <1>m DEF ResumeRestart, TypeOK, StartsPaused, QueueIsEmpty, devVars, hwVars, threadVars, counters
  <2> QED
    BY <1>6, <2>1, QuietType DEF ResumeRestart, devVars, hwVars, threadVars, counters
<1>7. CASE AbortReturn
  <2>1. TypeOK'
    BY <1>7, <1>t, <1>m DEF AbortReturn, TypeOK, StartsPaused, QueueIsEmpty, devVars, hwVars, threadVars, counters
  <2> QED
    BY <1>7, <2>1, QuietType DEF AbortReturn, devVars, hwVars, threadVars, counters
<1>8. CASE CallbackTest
  <2>1. TypeOK'
    BY <1>8, <1>t, <1>m DEF CallbackTest, TypeOK, StartsPaused, QueueIsEmpty, devVars, hwVars, threadVars, counters
  <2> QED
    BY <1>8, <2>1, QuietType DEF CallbackTest, devVars, hwVars, threadVars, counters
<1>9. CASE CallbackSet
  <2>1. TypeOK'
    BY <1>9, <1>t, <1>m DEF CallbackSet, TypeOK, StartsPaused, QueueIsEmpty, devVars, hwVars, threadVars, counters
  <2> QED
    BY <1>9, <2>1, QuietType DEF CallbackSet, devVars, hwVars, threadVars, counters
<1>10. CASE Pause
  <2>1. fPaused' \in BOOLEAN
    BY <1>10, <1>t DEF Pause, TypeOK
  <2>2. hwPaused' \in BOOLEAN
    BY <1>10, <1>t, Zenon DEF Pause, TypeOK
  <2>3. pauses' \in 0..MaxPauses
    BY <1>10, <1>t, <1>m DEF Pause, TypeOK
  <2>4. TypeOK'
    BY <1>10, <1>t, <2>1, <2>2, <2>3 DEF Pause, TypeOK, threadVars
  <2> QED
    BY <1>10, <2>4, QuietType DEF Pause, threadVars
<1>11. CASE ClearAborted
  <2>1. aborted' \in BOOLEAN
    BY <1>11 DEF ClearAborted
  <2>2. UNCHANGED <<queueIn, queueOut, evt, deviceOpen, fPaused, owner, hwOpen, hwPaused,
                    hwQueue, hwDone, callback, speaker, controller, canceller, dispatched,
                    items, aborts, pauses, failed, refused, raced>>
    BY <1>11 DEF ClearAborted, hwVars, threadVars, counters
  <2>3. TypeOK'
    BY <1>t, <2>1, <2>2 DEF TypeOK
  <2> QED
    BY <2>2, <2>3, QuietType
<1>12. CASE ResumeClear
  <2>1. fPaused' \in BOOLEAN /\ controller' \in {"idle", "clear"}
    BY <1>12 DEF ResumeClear
  <2>2. UNCHANGED <<queueIn, queueOut, evt, deviceOpen, aborted, owner, hwOpen, hwPaused,
                    hwQueue, hwDone, callback, speaker, canceller, dispatched, items,
                    aborts, pauses, failed, refused, raced>>
    BY <1>12 DEF ResumeClear, hwVars, counters
  <2>3. TypeOK'
    BY <1>t, <2>1, <2>2 DEF TypeOK
  <2> QED
    BY <2>2, <2>3, QuietType
<1>13. CASE PlayQueue
  <2>1. items' = items + 1 /\ items' \in 1..MaxItems
    BY <1>13, <1>q, <1>m DEF PlayQueue
  <2>2. CASE aborted
    <3>1. TypeOK'
      BY <1>13, <1>t, <2>1, <2>2 DEF PlayQueue, TypeOK, hwVars
    <3> QED
      BY <1>13, <3>1, <2>1, <2>2 DEF PlayQueue, TypeInv, HeadIsBuffer, LastIsWritten, ItemNumbered
  <2>3. CASE ~aborted
    <3>1. queueIn' = Append(queueIn, Buffer(items')) /\ speaker' = "write" /\ owner' = "speaker" /\ evt' = FALSE
      BY <1>13, <2>3 DEF PlayQueue
    <3>2. Buffer(items') \in Item /\ IsBuffer(Buffer(items'))
      BY <2>1, ItemFacts
    <3>3. queueIn' \in Seq(Item)
      BY <1>q, <3>1, <3>2
    <3>0. UNCHANGED <<queueOut, deviceOpen, aborted, fPaused, hwOpen, hwPaused, hwQueue,
                      hwDone, callback, controller, canceller, dispatched, aborts, pauses,
                      failed, refused, raced>>
      BY <1>13 DEF PlayQueue, hwVars
    <3>4. TypeOK'
      <4>1. evt' \in BOOLEAN
        BY <3>1
      <4>2. owner' \in {Nobody, "speaker", "canceller"}
        BY <3>1
      <4>3. speaker' \in {"idle", "begun", "open", "write", "inject", "wait", "end",
                          "close", "assert"}
        BY <3>1
      <4>4. items' \in 0..MaxItems
        BY <1>m, <2>1
      <4> QED
        BY <1>t, <3>0, <3>3, <4>1, <4>2, <4>3, <4>4 DEF TypeOK
    <3>5. HeadIsBuffer'
      BY <1>q, <3>1, <3>2 DEF TypeInv, HeadIsBuffer
    <3>6. LastIsWritten' /\ ItemNumbered'
      BY <1>q, <2>1, <3>1, <3>2 DEF LastIsWritten, ItemNumbered
    <3> QED
      BY <3>4, <3>5, <3>6 DEF TypeInv
  <2> QED
    BY <2>2, <2>3
<1>14. CASE PlayWrite
  <2>1. items \in 1..MaxItems
    BY <1>14, <1>q, <1>m DEF PlayWrite, TypeInv, ItemNumbered
  <2>2. hwQueue' \in Seq(1..MaxItems)
    BY <1>14, <1>s, <2>1 DEF PlayWrite
  <2>3. TypeOK'
    BY <1>14, <1>t, <2>2 DEF PlayWrite, TypeOK, threadVars, counters
  <2> QED
    BY <1>14, <2>3, QuietType DEF PlayWrite, counters
<1>15. CASE PlayFails
  <2>1. queueIn' \in Seq(Item) /\ (queueIn' # <<>> => queueIn # <<>> /\ queueIn'[1] = queueIn[1])
    <3>1. queueIn' = SubSeq(queueIn, 1, Len(queueIn) - 1)
      BY <1>15 DEF PlayFails, AfterFailure
    <3>2. Len(queueIn) \in Nat /\ 1 \in 1..(Len(queueIn) + 1) /\ Len(queueIn) - 1 \in Int /\ Len(queueIn) - 1 <= Len(queueIn)
      BY <1>q
    <3>3. /\ queueIn' \in Seq(Item)
          /\ Len(queueIn') = IF 1 <= Len(queueIn) - 1 THEN Len(queueIn) - 1 ELSE 0
          /\ \A i \in 1..Len(queueIn') : queueIn'[i] = queueIn[i]
      BY <1>q, <3>1, <3>2, PieceFacts
    <3> QED
      BY <3>2, <3>3
  <2>2. TypeOK'
    BY <1>15, <1>t, <2>1 DEF PlayFails, TypeOK, hwVars
  <2> QED
    BY <1>15, <2>1, <2>2 DEF PlayFails, TypeInv, HeadIsBuffer, LastIsWritten, ItemNumbered
<1>16. CASE InjectTest
  <2>1. items' = items + 1 /\ items' \in 1..MaxItems
    BY <1>16, <1>q, <1>m DEF InjectTest
  <2>2. TypeOK'
    BY <1>16, <1>t, <2>1 DEF InjectTest, TypeOK, devVars, hwVars
  <2> QED
    BY <1>16, <2>1, <2>2 DEF InjectTest, TypeInv, HeadIsBuffer, LastIsWritten, ItemNumbered, devVars
<1>17. CASE InjectLocked
  <2>1. items \in 1..MaxItems
    BY <1>17, <1>q, <1>m DEF InjectLocked, TypeInv, ItemNumbered
  <2>2. Event(items) \in Item
    BY <2>1, ItemFacts
  <2>3. queueIn' \in Seq(Item) /\ dispatched' \in Seq(1..MaxItems)
    <3>1. Append(queueIn, Event(items)) \in Seq(Item) /\ Append(dispatched, items) \in Seq(1..MaxItems)
      BY <1>q, <1>s, <2>1, <2>2, AppendProperties
    <3> QED
      BY <1>17, <1>q, <1>s, <3>1 DEF InjectLocked
  <2>4. TypeOK'
    BY <1>17, <1>t, <2>3 DEF InjectLocked, TypeOK, hwVars, counters
  <2>5. queueIn' # <<>> => queueIn # <<>> /\ queueIn'[1] = queueIn[1]
    BY <1>17, <1>q, <2>2 DEF InjectLocked, PostsAtOnce
  <2>6. HeadIsBuffer'
    BY <2>5 DEF TypeInv, HeadIsBuffer
  <2>7. LastIsWritten' /\ ItemNumbered'
    BY <1>17 DEF InjectLocked, LastIsWritten, ItemNumbered
  <2> QED
    BY <2>4, <2>6, <2>7 DEF TypeInv
<1>18. CASE EndCheck
  <2>1. Events(queueIn) \in Seq(1..MaxItems)
    <3>1. {i \in DOMAIN queueIn : ~IsBuffer(queueIn[i])} \in SUBSET (1..Len(queueIn))
      BY <1>q
    <3>2. Select(queueIn, {i \in DOMAIN queueIn : ~IsBuffer(queueIn[i])}) \in Seq(Item)
      BY <1>q, <3>1, SelectFacts
    <3> QED
      BY <3>2, IdsFacts DEF Events
  <2>2. /\ dispatched' \in Seq(1..MaxItems)
        /\ queueIn' = queueIn \/ queueIn' = <<>>
        /\ evt' \in BOOLEAN
    <3>1. dispatched' = dispatched \/ dispatched' = dispatched \o Events(queueIn)
      BY <1>18 DEF EndCheck
    <3>2. dispatched \o Events(queueIn) \in Seq(1..MaxItems)
      BY <1>s, <2>1, ConcatProperties
    <3>3. evt' \in BOOLEAN
      BY <1>18, <1>t DEF EndCheck, TypeOK
    <3>4. queueIn' = queueIn \/ queueIn' = <<>>
      BY <1>18 DEF EndCheck
    <3> QED
      BY <1>s, <3>1, <3>2, <3>3, <3>4
  <2>3. queueIn' \in Seq(Item)
    BY <1>q, <1>e, <2>2
  <2>4. queueOut' \in Seq(BufferItem)
    BY <1>18 DEF EndCheck
  <2>5. TypeOK'
    BY <1>18, <1>t, <2>2, <2>3, <2>4 DEF EndCheck, TypeOK, hwVars, counters
  <2>6. speaker' = "close" /\ HeadIsBuffer'
    BY <1>18, <2>2 DEF EndCheck, TypeInv, HeadIsBuffer
  <2> QED
    BY <2>5, <2>6 DEF TypeInv, LastIsWritten, ItemNumbered
<1>19. CASE EndClose
  <2>1. hwDone' \in Seq(1..MaxItems) /\ hwQueue' \in Seq(1..MaxItems)
    <3>1. hwDone \o hwQueue \in Seq(1..MaxItems)
      BY <1>s, ConcatProperties
    <3> QED
      BY <1>19, <1>s, <1>e, <3>1 DEF EndClose, WaveOutReset
  <2>2. TypeOK'
    BY <1>19, <1>t, <2>1 DEF EndClose, TypeOK, counters
  <2> QED
    BY <1>19, <2>2, QuietType DEF EndClose, counters
<1>20. CASE AbortReset
  <2>1. hwDone' \in Seq(1..MaxItems) /\ hwQueue' \in Seq(1..MaxItems)
    <3>1. hwDone \o hwQueue \in Seq(1..MaxItems)
      BY <1>s, ConcatProperties
    <3> QED
      BY <1>20, <1>s, <1>e, <3>1 DEF AbortReset, WaveOutReset
  <2>2. aborts' \in 0..MaxAborts
    BY <1>20, <1>t, <1>m DEF AbortReset, TypeOK
  <2>3. owner' \in {Nobody, "speaker", "canceller"} /\ canceller' \in {"idle", "wait"}
    BY <1>20, <1>t DEF AbortReset, TypeOK
  <2>4. TypeOK'
    BY <1>20, <1>t, <2>1, <2>2, <2>3 DEF AbortReset, TypeOK
  <2> QED
    BY <1>20, <2>4, QuietType DEF AbortReset
<1>21. CASE HwPlay
  <2>1. Head(hwQueue) \in 1..MaxItems /\ Tail(hwQueue) \in Seq(1..MaxItems)
    <3>1. hwQueue # <<>>
      BY <1>21 DEF HwPlay
    <3> QED
      BY <1>s, <3>1, HeadTailProperties
  <2>2. hwDone' \in Seq(1..MaxItems) /\ hwQueue' \in Seq(1..MaxItems)
    <3>1. Append(hwDone, Head(hwQueue)) \in Seq(1..MaxItems)
      BY <1>s, <2>1, AppendProperties
    <3> QED
      BY <1>21, <1>s, <2>1, <3>1 DEF HwPlay
  <2>3. TypeOK'
    BY <1>21, <1>t, <2>2 DEF HwPlay, TypeOK, devVars, threadVars, counters
  <2> QED
    BY <1>21, <2>3, QuietType DEF HwPlay, devVars, threadVars, counters
<1>22. CASE CallbackLocked
  <2>1. hwDone' \in Seq(1..MaxItems)
    BY <1>22, <1>s DEF CallbackLocked
  <2>2. CASE queueIn = <<>>
    <3>1. TypeOK'
      BY <1>22, <1>t, <2>1, <2>2 DEF CallbackLocked, TypeOK, threadVars, counters
    <3> QED
      BY <1>22, <3>1, <2>2, QuietType DEF CallbackLocked, threadVars, counters
  <2>3. CASE queueIn # <<>>
    <3>1. /\ Removed \in 1..Len(queueIn)
          /\ Removed < Len(queueIn) => IsBuffer(queueIn[Removed + 1])
      BY <1>q, <2>3, RemovedFacts
    <3>2. Len(queueIn) \in Nat
      BY <1>q
    <3>3. /\ queueIn' = SubSeq(queueIn, Removed + 1, Len(queueIn))
          /\ queueOut' = Append(queueOut, Head(queueIn))
          /\ dispatched' = dispatched \/ dispatched' = dispatched \o Ids(SubSeq(queueIn, 2, Removed))
          /\ callback' = "test"
      BY <1>22, <2>3 DEF CallbackLocked
    <3>4. /\ queueIn' \in Seq(Item)
          /\ Len(queueIn') = IF Removed + 1 <= Len(queueIn) THEN Len(queueIn) - Removed ELSE 0
          /\ \A i \in 1..Len(queueIn') : queueIn'[i] = queueIn[Removed + i]
      <4>1. Removed + 1 \in 1..(Len(queueIn) + 1) /\ Len(queueIn) \in Int
        BY <3>1, <3>2
      <4>2. /\ SubSeq(queueIn, Removed + 1, Len(queueIn)) \in Seq(Item)
            /\ Len(SubSeq(queueIn, Removed + 1, Len(queueIn)))
                 = IF Removed + 1 <= Len(queueIn) THEN Len(queueIn) - (Removed + 1) + 1 ELSE 0
            /\ \A i \in 1..Len(SubSeq(queueIn, Removed + 1, Len(queueIn))) :
                 SubSeq(queueIn, Removed + 1, Len(queueIn))[i] = queueIn[Removed + 1 + i - 1]
        BY <1>q, <3>2, <4>1, PieceFacts
      <4>3. Len(queueIn) - (Removed + 1) + 1 = Len(queueIn) - Removed
        BY <3>1, <3>2
      <4>4. Len(queueIn') = IF Removed + 1 <= Len(queueIn) THEN Len(queueIn) - Removed ELSE 0
        BY <3>3, <4>2, <4>3
      <4>5. Len(queueIn') \in Nat
        BY <3>1, <3>2, <4>4
      <4>6. \A i \in 1..Len(queueIn') : queueIn'[i] = queueIn[Removed + i]
        <5> SUFFICES ASSUME NEW i \in 1..Len(queueIn') PROVE queueIn'[i] = queueIn[Removed + i]
          OBVIOUS
        <5>1. Removed + 1 + i - 1 = Removed + i
          BY <3>1, <4>5
        <5>2. queueIn'[i] = queueIn[Removed + 1 + i - 1]
          BY <3>3, <4>2
        <5> QED
          BY <5>1, <5>2
      <4> QED
        BY <3>3, <4>2, <4>4, <4>6
    <3>5. Ids(SubSeq(queueIn, 2, Removed)) \in Seq(1..MaxItems)
      <4>1. 2 \in 1..(Len(queueIn) + 1) /\ Removed \in Int /\ Removed <= Len(queueIn)
        BY <3>1, <3>2
      <4>2. SubSeq(queueIn, 2, Removed) \in Seq(Item)
        BY <1>q, <4>1, PieceFacts
      <4> QED
        BY <4>2, IdsFacts
    <3>6. dispatched' \in Seq(1..MaxItems)
      BY <1>s, <3>3, <3>5, ConcatProperties
    <3>7. Head(queueIn) \in BufferItem
      <4>1. Head(queueIn) = queueIn[1] /\ queueIn[1] \in Item
        BY <1>q, <2>3
      <4>2. IsBuffer(queueIn[1])
        BY <2>3 DEF TypeInv, HeadIsBuffer
      <4> QED
        BY <4>1, <4>2, ItemFacts
    <3>8. queueOut' \in Seq(BufferItem)
      BY <1>q, <3>3, <3>7
    <3>9. TypeOK'
      BY <1>22, <1>t, <2>1, <3>3, <3>4, <3>6, <3>8 DEF CallbackLocked, TypeOK, threadVars, counters
    <3>10. HeadIsBuffer'
      BY <3>1, <3>2, <3>4 DEF HeadIsBuffer
    <3>11. LastIsWritten'
      <4>1. UNCHANGED <<speaker, items>>
        BY <1>22 DEF CallbackLocked, threadVars, counters
      <4>2. queueIn' # <<>> => queueIn'[Len(queueIn')] = queueIn[Len(queueIn)]
        BY <3>1, <3>2, <3>4
      <4> QED
        BY <2>3, <4>1, <4>2 DEF TypeInv, LastIsWritten
    <3>12. ItemNumbered'
      BY <1>22 DEF CallbackLocked, threadVars, counters, TypeInv, ItemNumbered
    <3> QED
      BY <3>9, <3>10, <3>11, <3>12 DEF TypeInv
  <2> QED
    BY <2>2, <2>3
<1> QED
  BY <1>u, <1>1, <1>2, <1>3, <1>4, <1>5, <1>6, <1>7, <1>8, <1>9, <1>10, <1>11, <1>12, <1>13, <1>14, <1>15, <1>16, <1>17, <1>18, <1>19, <1>20, <1>21, <1>22
     DEF Next, SpeakerStep, ControllerStep, CancellerStep, CallbackStep

(* The device starts closed, with empty queues.                             *)
LEMMA InitTyped == Init => TypeInv
<1> SUFFICES ASSUME Init PROVE TypeInv
  OBVIOUS
<1>1. <<>> \in Seq(Item) /\ <<>> \in Seq(BufferItem) /\ <<>> \in Seq(1..MaxItems)
  BY EmptySeq
<1>2. 0 \in 0..MaxItems /\ 0 \in 0..MaxAborts /\ 0 \in 0..MaxPauses
  BY BoundsAreNat
<1>3. TypeOK
  BY <1>1, <1>2 DEF Init, TypeOK
<1> QED
  BY <1>3 DEF Init, TypeInv, HeadIsBuffer, LastIsWritten, ItemNumbered

(* The type invariant of the runs, for every bound: in particular the queue *)
(* of released buffers, which ClearBuffers unprepares, holds buffers only.  *)
THEOREM TypeCorrect == Spec => []TypeOK
<1>1. TypeInv => TypeOK
  BY DEF TypeInv
<1> QED
  BY <1>1, InitTyped, TypeStep, PTL DEF Spec
-----------------------------------------------------------------------------
(* The lock, the flags and the pause: each action, which holds the lock or  *)
(* changes one flag only, keeps them in agreement with the driver.          *)
LEMMA PauseStep == TypeInv /\ PauseInv /\ [Next]_vars => PauseInv'
<1> SUFFICES ASSUME TypeInv, PauseInv, [Next]_vars PROVE PauseInv'
  OBVIOUS
<1>t. aborts \in Nat /\ aborted \in BOOLEAN
  BY BoundsAreNat DEF TypeInv, TypeOK
<1>i. LockHeld /\ FlagsHold /\ ResumeHolds /\ PauseHolds
  BY DEF PauseInv
<1> USE DEF PauseInv
<1>u. CASE UNCHANGED vars
  BY <1>u, <1>i DEF LockHeld, FlagsHold, ResumeHolds, PauseHolds, vars, devVars, hwVars, threadVars, counters
<1>1. CASE BeginOpen
  <2>1. LockHeld'
    BY <1>1, <1>i DEF BeginOpen, LockHeld, devVars, hwVars, threadVars, counters, Nobody, StartsPaused
  <2>2. FlagsHold'
    BY <1>1, <1>i, <1>t DEF BeginOpen, LockHeld, FlagsHold, devVars, hwVars, threadVars, counters, Nobody, StartsPaused
  <2>3. ResumeHolds' /\ PauseHolds'
    <3>1. PICK opened \in BOOLEAN, halts \in BOOLEAN :
             /\ hwOpen' = opened
             /\ hwPaused' = (opened /\ fPaused /\ halts)
             /\ refused' = (refused \/ ~halts)
             /\ speaker' = IF opened /\ halts THEN "begun" ELSE "idle"
      BY <1>1 DEF BeginOpen, StartsPaused
    <3>2. UNCHANGED <<fPaused, controller>> /\ raced' = (fPaused /\ controller = "clear")
      BY <1>1 DEF BeginOpen
    <3> QED
      BY <3>1, <3>2 DEF ResumeHolds, PauseHolds
  <2> QED
    BY <2>1, <2>2, <2>3
<1>2. CASE BeginAsserts
  <2>1. LockHeld'
    BY <1>2, <1>i DEF BeginAsserts, LockHeld, devVars, hwVars, threadVars, counters, Nobody
  <2>2. FlagsHold'
    BY <1>2, <1>i, <1>t DEF BeginAsserts, LockHeld, FlagsHold, devVars, hwVars, threadVars, counters, Nobody
  <2>3. (ResumeHolds /\ PauseHolds)'
    BY <1>2, <1>i DEF BeginAsserts, LockHeld, FlagsHold, ResumeHolds, PauseHolds, devVars, hwVars, threadVars, counters, Nobody
  <2> QED
    BY <2>1, <2>2, <2>3
<1>3. CASE BeginSet
  <2>1. LockHeld'
    BY <1>3, <1>i DEF BeginSet, LockHeld, devVars, hwVars, threadVars, counters, Nobody
  <2>2. FlagsHold'
    BY <1>3, <1>i, <1>t DEF BeginSet, LockHeld, FlagsHold, devVars, hwVars, threadVars, counters, Nobody
  <2>3. (ResumeHolds /\ PauseHolds)'
    BY <1>3, <1>i DEF BeginSet, LockHeld, FlagsHold, ResumeHolds, PauseHolds, devVars, hwVars, threadVars, counters, Nobody
  <2> QED
    BY <2>1, <2>2, <2>3
<1>4. CASE PlayQueue
  <2>1. LockHeld'
    BY <1>4, <1>i DEF PlayQueue, LockHeld, devVars, hwVars, threadVars, counters, Nobody
  <2>2. FlagsHold'
    BY <1>4, <1>i, <1>t DEF PlayQueue, LockHeld, FlagsHold, devVars, hwVars, threadVars, counters, Nobody
  <2>3. (ResumeHolds /\ PauseHolds)'
    BY <1>4, <1>i DEF PlayQueue, LockHeld, FlagsHold, ResumeHolds, PauseHolds, devVars, hwVars, threadVars, counters, Nobody
  <2> QED
    BY <2>1, <2>2, <2>3
<1>5. CASE PlayWrite
  <2>1. LockHeld'
    BY <1>5, <1>i DEF PlayWrite, LockHeld, devVars, hwVars, threadVars, counters, Nobody
  <2>2. FlagsHold'
    BY <1>5, <1>i, <1>t DEF PlayWrite, LockHeld, FlagsHold, devVars, hwVars, threadVars, counters, Nobody
  <2>3. (ResumeHolds /\ PauseHolds)'
    BY <1>5, <1>i DEF PlayWrite, LockHeld, FlagsHold, ResumeHolds, PauseHolds, devVars, hwVars, threadVars, counters, Nobody
  <2> QED
    BY <2>1, <2>2, <2>3
<1>6. CASE PlayFails
  <2>1. LockHeld'
    BY <1>6, <1>i DEF PlayFails, LockHeld, devVars, hwVars, threadVars, counters, Nobody
  <2>2. FlagsHold'
    BY <1>6, <1>i, <1>t DEF PlayFails, LockHeld, FlagsHold, devVars, hwVars, threadVars, counters, Nobody
  <2>3. (ResumeHolds /\ PauseHolds)'
    BY <1>6, <1>i DEF PlayFails, LockHeld, FlagsHold, ResumeHolds, PauseHolds, devVars, hwVars, threadVars, counters, Nobody
  <2> QED
    BY <2>1, <2>2, <2>3
<1>7. CASE InjectTest
  <2>1. LockHeld'
    BY <1>7, <1>i DEF InjectTest, LockHeld, devVars, hwVars, threadVars, counters, Nobody
  <2>2. FlagsHold'
    BY <1>7, <1>i, <1>t DEF InjectTest, LockHeld, FlagsHold, devVars, hwVars, threadVars, counters, Nobody
  <2>3. (ResumeHolds /\ PauseHolds)'
    BY <1>7, <1>i DEF InjectTest, LockHeld, FlagsHold, ResumeHolds, PauseHolds, devVars, hwVars, threadVars, counters, Nobody
  <2> QED
    BY <2>1, <2>2, <2>3
<1>8. CASE InjectLocked
  <2>1. LockHeld'
    BY <1>8, <1>i DEF InjectLocked, LockHeld, devVars, hwVars, threadVars, counters, Nobody
  <2>2. FlagsHold'
    BY <1>8, <1>i, <1>t DEF InjectLocked, LockHeld, FlagsHold, devVars, hwVars, threadVars, counters, Nobody
  <2>3. (ResumeHolds /\ PauseHolds)'
    BY <1>8, <1>i DEF InjectLocked, LockHeld, FlagsHold, ResumeHolds, PauseHolds, devVars, hwVars, threadVars, counters, Nobody
  <2> QED
    BY <2>1, <2>2, <2>3
<1>9. CASE Finish
  <2>1. LockHeld'
    BY <1>9, <1>i DEF Finish, LockHeld, devVars, hwVars, threadVars, counters, Nobody
  <2>2. FlagsHold'
    BY <1>9, <1>i, <1>t DEF Finish, LockHeld, FlagsHold, devVars, hwVars, threadVars, counters, Nobody
  <2>3. (ResumeHolds /\ PauseHolds)'
    BY <1>9, <1>i DEF Finish, LockHeld, FlagsHold, ResumeHolds, PauseHolds, devVars, hwVars, threadVars, counters, Nobody
  <2> QED
    BY <2>1, <2>2, <2>3
<1>10. CASE WaitUntilDone
  <2>1. LockHeld'
    BY <1>10, <1>i DEF WaitUntilDone, LockHeld, devVars, hwVars, threadVars, counters, Nobody
  <2>2. FlagsHold'
    BY <1>10, <1>i, <1>t DEF WaitUntilDone, LockHeld, FlagsHold, devVars, hwVars, threadVars, counters, Nobody
  <2>3. (ResumeHolds /\ PauseHolds)'
    BY <1>10, <1>i DEF WaitUntilDone, LockHeld, FlagsHold, ResumeHolds, PauseHolds, devVars, hwVars, threadVars, counters, Nobody
  <2> QED
    BY <2>1, <2>2, <2>3
<1>11. CASE EndCheck
  <2>1. LockHeld'
    BY <1>11, <1>i DEF EndCheck, LockHeld, devVars, hwVars, threadVars, counters, Nobody
  <2>2. FlagsHold'
    BY <1>11, <1>i, <1>t DEF EndCheck, LockHeld, FlagsHold, devVars, hwVars, threadVars, counters, Nobody
  <2>3. (ResumeHolds /\ PauseHolds)'
    BY <1>11, <1>i DEF EndCheck, LockHeld, FlagsHold, ResumeHolds, PauseHolds, devVars, hwVars, threadVars, counters, Nobody
  <2> QED
    BY <2>1, <2>2, <2>3
<1>12. CASE EndClose
  <2>1. LockHeld'
    BY <1>12, <1>i DEF EndClose, LockHeld, devVars, hwVars, threadVars, counters, Nobody, WaveOutReset
  <2>2. FlagsHold'
    BY <1>12, <1>i, <1>t DEF EndClose, LockHeld, FlagsHold, devVars, hwVars, threadVars, counters, Nobody, WaveOutReset
  <2>3. (ResumeHolds /\ PauseHolds)'
    BY <1>12, <1>i DEF EndClose, LockHeld, FlagsHold, ResumeHolds, PauseHolds, devVars, hwVars, threadVars, counters, Nobody, WaveOutReset
  <2> QED
    BY <2>1, <2>2, <2>3
<1>13. CASE ClearAborted
  <2>1. LockHeld'
    BY <1>13, <1>i DEF ClearAborted, LockHeld, devVars, hwVars, threadVars, counters, Nobody
  <2>2. FlagsHold'
    BY <1>13, <1>i, <1>t DEF ClearAborted, LockHeld, FlagsHold, devVars, hwVars, threadVars, counters, Nobody
  <2>3. (ResumeHolds /\ PauseHolds)'
    BY <1>13, <1>i DEF ClearAborted, LockHeld, FlagsHold, ResumeHolds, PauseHolds, devVars, hwVars, threadVars, counters, Nobody
  <2> QED
    BY <2>1, <2>2, <2>3
<1>14. CASE Pause
  <2>1. LockHeld'
    BY <1>14, <1>i DEF Pause, LockHeld, devVars, hwVars, threadVars, counters, Nobody
  <2>2. FlagsHold'
    BY <1>14, <1>i, <1>t DEF Pause, LockHeld, FlagsHold, devVars, hwVars, threadVars, counters, Nobody
  <2>3. (ResumeHolds /\ PauseHolds)'
    BY <1>14, <1>i DEF Pause, LockHeld, FlagsHold, ResumeHolds, PauseHolds, devVars, hwVars, threadVars, counters, Nobody
  <2> QED
    BY <2>1, <2>2, <2>3
<1>15. CASE ResumeRestart
  <2>1. LockHeld'
    BY <1>15, <1>i DEF ResumeRestart, LockHeld, devVars, hwVars, threadVars, counters, Nobody
  <2>2. FlagsHold'
    BY <1>15, <1>i, <1>t DEF ResumeRestart, LockHeld, FlagsHold, devVars, hwVars, threadVars, counters, Nobody
  <2>3. (ResumeHolds /\ PauseHolds)'
    BY <1>15, <1>i DEF ResumeRestart, LockHeld, FlagsHold, ResumeHolds, PauseHolds, devVars, hwVars, threadVars, counters, Nobody
  <2> QED
    BY <2>1, <2>2, <2>3
<1>16. CASE ResumeClear
  <2>1. LockHeld'
    BY <1>16, <1>i DEF ResumeClear, LockHeld, devVars, hwVars, threadVars, counters, Nobody
  <2>2. FlagsHold'
    BY <1>16, <1>i, <1>t DEF ResumeClear, LockHeld, FlagsHold, devVars, hwVars, threadVars, counters, Nobody
  <2>3. (ResumeHolds /\ PauseHolds)'
    BY <1>16, <1>i DEF ResumeClear, LockHeld, FlagsHold, ResumeHolds, PauseHolds, devVars, hwVars, threadVars, counters, Nobody
  <2> QED
    BY <2>1, <2>2, <2>3
<1>17. CASE AbortReset
  <2>1. LockHeld'
    BY <1>17, <1>i DEF AbortReset, LockHeld, devVars, hwVars, threadVars, counters, Nobody, WaveOutReset
  <2>2. FlagsHold'
    BY <1>17, <1>i, <1>t DEF AbortReset, LockHeld, FlagsHold, devVars, hwVars, threadVars, counters, Nobody, WaveOutReset
  <2>3. (ResumeHolds /\ PauseHolds)'
    BY <1>17, <1>i DEF AbortReset, LockHeld, FlagsHold, ResumeHolds, PauseHolds, devVars, hwVars, threadVars, counters, Nobody, WaveOutReset
  <2> QED
    BY <2>1, <2>2, <2>3
<1>18. CASE AbortReturn
  <2>1. LockHeld'
    BY <1>18, <1>i DEF AbortReturn, LockHeld, devVars, hwVars, threadVars, counters, Nobody
  <2>2. FlagsHold'
    BY <1>18, <1>i, <1>t DEF AbortReturn, LockHeld, FlagsHold, devVars, hwVars, threadVars, counters, Nobody
  <2>3. (ResumeHolds /\ PauseHolds)'
    BY <1>18, <1>i DEF AbortReturn, LockHeld, FlagsHold, ResumeHolds, PauseHolds, devVars, hwVars, threadVars, counters, Nobody
  <2> QED
    BY <2>1, <2>2, <2>3
<1>19. CASE HwPlay
  <2>1. LockHeld'
    BY <1>19, <1>i DEF HwPlay, LockHeld, devVars, hwVars, threadVars, counters, Nobody
  <2>2. FlagsHold'
    BY <1>19, <1>i, <1>t DEF HwPlay, LockHeld, FlagsHold, devVars, hwVars, threadVars, counters, Nobody
  <2>3. (ResumeHolds /\ PauseHolds)'
    BY <1>19, <1>i DEF HwPlay, LockHeld, FlagsHold, ResumeHolds, PauseHolds, devVars, hwVars, threadVars, counters, Nobody
  <2> QED
    BY <2>1, <2>2, <2>3
<1>20. CASE CallbackLocked
  <2>1. LockHeld'
    BY <1>20, <1>i DEF CallbackLocked, LockHeld, devVars, hwVars, threadVars, counters, Nobody
  <2>2. FlagsHold'
    BY <1>20, <1>i, <1>t DEF CallbackLocked, LockHeld, FlagsHold, devVars, hwVars, threadVars, counters, Nobody
  <2>3. (ResumeHolds /\ PauseHolds)'
    BY <1>20, <1>i DEF CallbackLocked, LockHeld, FlagsHold, ResumeHolds, PauseHolds, devVars, hwVars, threadVars, counters, Nobody
  <2> QED
    BY <2>1, <2>2, <2>3
<1>21. CASE CallbackTest
  <2>1. LockHeld'
    BY <1>21, <1>i DEF CallbackTest, LockHeld, devVars, hwVars, threadVars, counters, Nobody
  <2>2. FlagsHold'
    BY <1>21, <1>i, <1>t DEF CallbackTest, LockHeld, FlagsHold, devVars, hwVars, threadVars, counters, Nobody
  <2>3. (ResumeHolds /\ PauseHolds)'
    BY <1>21, <1>i DEF CallbackTest, LockHeld, FlagsHold, ResumeHolds, PauseHolds, devVars, hwVars, threadVars, counters, Nobody
  <2> QED
    BY <2>1, <2>2, <2>3
<1>22. CASE CallbackSet
  <2>1. LockHeld'
    BY <1>22, <1>i DEF CallbackSet, LockHeld, devVars, hwVars, threadVars, counters, Nobody
  <2>2. FlagsHold'
    BY <1>22, <1>i, <1>t DEF CallbackSet, LockHeld, FlagsHold, devVars, hwVars, threadVars, counters, Nobody
  <2>3. (ResumeHolds /\ PauseHolds)'
    BY <1>22, <1>i DEF CallbackSet, LockHeld, FlagsHold, ResumeHolds, PauseHolds, devVars, hwVars, threadVars, counters, Nobody
  <2> QED
    BY <2>1, <2>2, <2>3
<1> QED
  BY <1>u, <1>1, <1>2, <1>3, <1>4, <1>5, <1>6, <1>7, <1>8, <1>9, <1>10, <1>11, <1>12, <1>13, <1>14, <1>15, <1>16, <1>17, <1>18, <1>19, <1>20, <1>21, <1>22
     DEF Next, SpeakerStep, ControllerStep, CancellerStep, CallbackStep

(***************************************************************************)
(* The flag and the device agree, whatever the order of Pause, Resume,     *)
(* Begin and End: outside Resume an open device is paused exactly when     *)
(* _fPaused says so, but for the three cases PauseHolds names.             *)
(***************************************************************************)
THEOREM PauseNeverLost == Spec => []PauseHolds
<1>1. Init => TypeInv /\ PauseInv
  <2>1. Init => PauseInv
    BY DEF Init, PauseInv, LockHeld, FlagsHold, ResumeHolds, PauseHolds, Nobody
  <2> QED
    BY <2>1, InitTyped
<1>2. TypeInv /\ PauseInv /\ [Next]_vars => (TypeInv /\ PauseInv)'
  BY TypeStep, PauseStep
<1>3. PauseInv => PauseHolds
  BY DEF PauseInv
<1> QED
  BY <1>1, <1>2, <1>3, PTL DEF Spec
-----------------------------------------------------------------------------
(* Order.  What it means that a queue of items is in step with a sequence   *)
(* of buffers, position by position.                                        *)
LEMMA TidyMeans ==
  ASSUME NEW q \in Seq(Item), NEW s \in Seq(1..MaxItems)
  PROVE  Tidy(q, s) <=>
           /\ \A i, j \in 1..Len(q) : i < j => q[i].id < q[j].id
           /\ \A i, j \in 1..Len(s) : i < j => s[i] < s[j]
           /\ \A i \in 1..Len(q) : IsBuffer(q[i]) => \E k \in 1..Len(s) : s[k] = q[i].id
           /\ \A k \in 1..Len(s) : \E i \in 1..Len(q) : IsBuffer(q[i]) /\ q[i].id = s[k]
<1>1. Increasing(Ids(q)) <=> \A i, j \in 1..Len(q) : i < j => q[i].id < q[j].id
  <2>1. /\ DOMAIN Ids(q) = 1..Len(q)
        /\ \A i \in 1..Len(q) : Ids(q)[i] = q[i].id
    BY IdsFacts
  <2>2. Increasing(Ids(q)) <=> \A i, j \in 1..Len(q) : i < j => Ids(q)[i] < Ids(q)[j]
    BY <2>1, Zenon DEF Increasing
  <2> QED
    BY <2>1, <2>2
<1>2. Increasing(s) <=> \A i, j \in 1..Len(s) : i < j => s[i] < s[j]
  BY DEF Increasing
<1>3. DOMAIN q = 1..Len(q) /\ DOMAIN s = 1..Len(s)
  OBVIOUS
<1>4. BufferIds(q) = Elements(s) <=>
        /\ \A i \in 1..Len(q) : IsBuffer(q[i]) => \E k \in 1..Len(s) : s[k] = q[i].id
        /\ \A k \in 1..Len(s) : \E i \in 1..Len(q) : IsBuffer(q[i]) /\ q[i].id = s[k]
  <2>1. /\ BufferIds(q) = {q[i].id : i \in {j \in 1..Len(q) : IsBuffer(q[j])}}
        /\ Elements(s) = {s[k] : k \in 1..Len(s)}
    BY <1>3 DEF BufferIds, Elements
  <2>2. BufferIds(q) \subseteq Elements(s) <=>
          \A i \in 1..Len(q) : IsBuffer(q[i]) => \E k \in 1..Len(s) : s[k] = q[i].id
    BY <2>1
  <2>3. Elements(s) \subseteq BufferIds(q) <=>
          \A k \in 1..Len(s) : \E i \in 1..Len(q) : IsBuffer(q[i]) /\ q[i].id = s[k]
    BY <2>1
  <2>4. BufferIds(q) = Elements(s) <=>
          BufferIds(q) \subseteq Elements(s) /\ Elements(s) \subseteq BufferIds(q)
    OBVIOUS
  <2> QED
    BY <2>2, <2>3, <2>4
<1> QED
  BY <1>1, <1>2, <1>4 DEF Tidy

(* A new item goes to the end: a buffer on both sides, an event in the      *)
(* queue only.                                                              *)
LEMMA TidyAppend ==
  ASSUME NEW q \in Seq(Item), NEW s \in Seq(1..MaxItems), Tidy(q, s),
         NEW n \in 1..MaxItems, \A i \in 1..Len(q) : q[i].id < n
  PROVE  /\ Tidy(Append(q, Buffer(n)), Append(s, n))
         /\ Tidy(Append(q, Event(n)), s)
<1>1. /\ \A i, j \in 1..Len(q) : i < j => q[i].id < q[j].id
      /\ \A i, j \in 1..Len(s) : i < j => s[i] < s[j]
      /\ \A i \in 1..Len(q) : IsBuffer(q[i]) => \E k \in 1..Len(s) : s[k] = q[i].id
      /\ \A k \in 1..Len(s) : \E i \in 1..Len(q) : IsBuffer(q[i]) /\ q[i].id = s[k]
  BY TidyMeans
<1>2. Len(q) \in Nat /\ Len(s) \in Nat
  OBVIOUS
<1>3. \A k \in 1..Len(s) : s[k] < n
  BY <1>1
<1>4. /\ Append(s, n) \in Seq(1..MaxItems) /\ Len(Append(s, n)) = Len(s) + 1
      /\ \A k \in 1..Len(s) : Append(s, n)[k] = s[k]
      /\ Append(s, n)[Len(s) + 1] = n
  BY AppendProperties
<1>5. ASSUME NEW x \in Item, x.id = n
      PROVE  /\ Append(q, x) \in Seq(Item)
             /\ \A i, j \in 1..Len(Append(q, x)) : i < j => Append(q, x)[i].id < Append(q, x)[j].id
             /\ Len(Append(q, x)) = Len(q) + 1
             /\ \A i \in 1..Len(q) : Append(q, x)[i] = q[i]
             /\ Append(q, x)[Len(q) + 1] = x
  <2>1. /\ Append(q, x) \in Seq(Item) /\ Len(Append(q, x)) = Len(q) + 1
        /\ \A i \in 1..Len(q) : Append(q, x)[i] = q[i]
        /\ Append(q, x)[Len(q) + 1] = x
    BY AppendProperties
  <2>2. ASSUME NEW i \in 1..(Len(q) + 1), NEW j \in 1..(Len(q) + 1), i < j
        PROVE  Append(q, x)[i].id < Append(q, x)[j].id
    <3>1. i \in 1..Len(q) /\ Append(q, x)[i] = q[i]
      BY <1>2, <2>1, <2>2
    <3>2. CASE j = Len(q) + 1
      BY <1>5, <2>1, <3>1, <3>2
    <3>3. CASE j # Len(q) + 1
      <4>1. j \in 1..Len(q) /\ Append(q, x)[j] = q[j]
        BY <1>2, <2>1, <3>3
      <4> QED
        BY <1>1, <2>2, <3>1, <4>1
    <3> QED
      BY <3>2, <3>3
  <2> QED
    BY <2>1, <2>2
<1>6. /\ Buffer(n) \in Item /\ IsBuffer(Buffer(n)) /\ Buffer(n).id = n
      /\ Event(n) \in Item /\ ~IsBuffer(Event(n)) /\ Event(n).id = n
  BY ItemFacts
<1> DEFINE b == Append(q, Buffer(n))
           v == Append(q, Event(n))
           z == Append(s, n)
<1>7. Tidy(b, z)
  <2>1. /\ b \in Seq(Item) /\ Len(b) = Len(q) + 1
        /\ \A i, j \in 1..Len(b) : i < j => b[i].id < b[j].id
        /\ \A i \in 1..Len(q) : b[i] = q[i]
        /\ b[Len(q) + 1] = Buffer(n)
    BY <1>5, <1>6
  <2>2. /\ z \in Seq(1..MaxItems) /\ Len(z) = Len(s) + 1
        /\ \A k \in 1..Len(s) : z[k] = s[k]
        /\ z[Len(s) + 1] = n
    BY <1>4
  <2> HIDE DEF b, z
  <2>3. \A i, j \in 1..Len(z) : i < j => z[i] < z[j]
    <3> SUFFICES ASSUME NEW i \in 1..(Len(s) + 1), NEW j \in 1..(Len(s) + 1), i < j
                 PROVE  z[i] < z[j]
      BY <2>2
    <3>1. i \in 1..Len(s) /\ z[i] = s[i]
      BY <1>2, <2>2
    <3>2. CASE j = Len(s) + 1
      BY <1>3, <2>2, <3>1, <3>2
    <3>3. CASE j # Len(s) + 1
      <4>1. j \in 1..Len(s) /\ z[j] = s[j]
        BY <1>2, <2>2, <3>3
      <4> QED
        BY <1>1, <3>1, <4>1
    <3> QED
      BY <3>2, <3>3
  <2>4. ASSUME NEW i \in 1..Len(b), IsBuffer(b[i])
        PROVE  \E k \in 1..Len(z) : z[k] = b[i].id
    <3>1. CASE i = Len(q) + 1
      <4>1. Len(s) + 1 \in 1..Len(z)
        BY <1>2, <2>2
      <4> QED
        BY <1>6, <2>1, <2>2, <3>1, <4>1
    <3>2. CASE i # Len(q) + 1
      <4>1. i \in 1..Len(q) /\ b[i] = q[i]
        BY <1>2, <2>1, <3>2
      <4>2. PICK k \in 1..Len(s) : s[k] = q[i].id
        BY <1>1, <2>4, <4>1
      <4>3. k \in 1..Len(z) /\ z[k] = s[k]
        BY <1>2, <2>2
      <4> QED
        BY <4>1, <4>2, <4>3
    <3> QED
      BY <3>1, <3>2
  <2>5. ASSUME NEW k \in 1..Len(z)
        PROVE  \E i \in 1..Len(b) : IsBuffer(b[i]) /\ b[i].id = z[k]
    <3>1. CASE k = Len(s) + 1
      <4>1. Len(q) + 1 \in 1..Len(b)
        BY <1>2, <2>1
      <4> QED
        BY <1>6, <2>1, <2>2, <3>1, <4>1
    <3>2. CASE k # Len(s) + 1
      <4>1. k \in 1..Len(s) /\ z[k] = s[k]
        BY <1>2, <2>2, <3>2
      <4>2. PICK i \in 1..Len(q) : IsBuffer(q[i]) /\ q[i].id = s[k]
        BY <1>1, <4>1
      <4>3. i \in 1..Len(b) /\ b[i] = q[i]
        BY <1>2, <2>1
      <4> QED
        BY <4>1, <4>2, <4>3
    <3> QED
      BY <3>1, <3>2
  <2> QED
    BY <2>1, <2>2, <2>3, <2>4, <2>5, TidyMeans
<1>8. Tidy(v, s)
  <2>1. /\ v \in Seq(Item) /\ Len(v) = Len(q) + 1
        /\ \A i, j \in 1..Len(v) : i < j => v[i].id < v[j].id
        /\ \A i \in 1..Len(q) : v[i] = q[i]
        /\ v[Len(q) + 1] = Event(n)
    BY <1>5, <1>6
  <2> HIDE DEF v
  <2>2. \A i \in 1..Len(v) : IsBuffer(v[i]) => i \in 1..Len(q)
    BY <1>2, <1>6, <2>1
  <2>3. \A i \in 1..Len(q) : i \in 1..Len(v)
    BY <1>2, <2>1
  <2>4. \A i \in 1..Len(v) : IsBuffer(v[i]) => \E k \in 1..Len(s) : s[k] = v[i].id
    BY <1>1, <2>1, <2>2
  <2>5. \A k \in 1..Len(s) : \E i \in 1..Len(v) : IsBuffer(v[i]) /\ v[i].id = s[k]
    BY <1>1, <2>1, <2>3
  <2> QED
    BY <1>1, <2>1, <2>4, <2>5, TidyMeans
<1> QED
  BY <1>7, <1>8

(* When both begin with a buffer it is the same one ...                     *)
LEMMA TidyHead ==
  ASSUME NEW q \in Seq(Item), NEW s \in Seq(1..MaxItems), Tidy(q, s),
         s # <<>>, q # <<>> => IsBuffer(q[1])
  PROVE  q # <<>> /\ q[1] = Buffer(s[1]) /\ q[1].id = s[1]
<1>1. /\ \A i, j \in 1..Len(q) : i < j => q[i].id < q[j].id
      /\ \A i, j \in 1..Len(s) : i < j => s[i] < s[j]
      /\ \A i \in 1..Len(q) : IsBuffer(q[i]) => \E k \in 1..Len(s) : s[k] = q[i].id
      /\ \A k \in 1..Len(s) : \E i \in 1..Len(q) : IsBuffer(q[i]) /\ q[i].id = s[k]
  BY TidyMeans
<1>2. 1 \in 1..Len(s) /\ Len(q) \in Nat /\ Len(s) \in Nat
  BY EmptySeq
<1>3. PICK i \in 1..Len(q) : IsBuffer(q[i]) /\ q[i].id = s[1]
  BY <1>1, <1>2
<1>4. 1 \in 1..Len(q) /\ q # <<>>
  BY <1>2, <1>3
<1>5. PICK k \in 1..Len(s) : s[k] = q[1].id
  BY <1>1, <1>4
<1>6. /\ \A j \in 1..Len(q) : q[j].id \in Int
      /\ \A j \in 1..Len(s) : s[j] \in Int
  <2>1. \A j \in 1..Len(q) : q[j] \in Item
    OBVIOUS
  <2>2. \A j \in 1..Len(s) : s[j] \in 1..MaxItems
    BY ElementOfSeq
  <2>3. \A n \in 1..MaxItems : n \in Int
    OBVIOUS
  <2> QED
    BY <2>1, <2>2, <2>3, ItemFacts
<1>7. i = 1 \/ q[1].id < q[i].id
  BY <1>1, <1>3, <1>4
<1>8. k = 1 \/ s[1] < s[k]
  BY <1>1, <1>2, <1>5
<1>9. q[1].id = s[1]
  BY <1>2, <1>3, <1>4, <1>5, <1>6, <1>7, <1>8
<1>10. q[1] = Buffer(q[1].id)
  BY <1>4, ItemFacts
<1> QED
  BY <1>4, <1>9, <1>10

(* ... and both stay in step when it leaves with the events behind it.      *)
LEMMA TidyRemove ==
  ASSUME NEW q \in Seq(Item), NEW s \in Seq(1..MaxItems), Tidy(q, s),
         s # <<>>, q # <<>> => IsBuffer(q[1]),
         NEW r \in 1..Len(q), \A i \in 2..r : ~IsBuffer(q[i]),
         NEW p \in Seq(Item), Len(p) = Len(q) - r,
         \A i \in 1..Len(p) : p[i] = q[r + i]
  PROVE  Tidy(p, Tail(s))
<1>1. /\ \A i, j \in 1..Len(q) : i < j => q[i].id < q[j].id
      /\ \A i, j \in 1..Len(s) : i < j => s[i] < s[j]
      /\ \A i \in 1..Len(q) : IsBuffer(q[i]) => \E k \in 1..Len(s) : s[k] = q[i].id
      /\ \A k \in 1..Len(s) : \E i \in 1..Len(q) : IsBuffer(q[i]) /\ q[i].id = s[k]
  BY TidyMeans
<1>2. 1 \in 1..Len(s) /\ Len(q) \in Nat /\ Len(s) \in Nat /\ Len(p) \in Nat /\ r \in Nat
  BY EmptySeq
<1>3. q[1].id = s[1]
  BY TidyHead
<1> DEFINE t == Tail(s)
<1>4. t \in Seq(1..MaxItems) /\ Len(t) = Len(s) - 1 /\ \A k \in 1..Len(t) : t[k] = s[k + 1]
  BY HeadTailProperties
<1> HIDE DEF t
<1>5. \A i \in 1..Len(p) : r + i \in 1..Len(q)
  BY <1>2
<1>6. \A k \in 1..Len(t) : k + 1 \in 1..Len(s)
  BY <1>2, <1>4
<1>7. \A i, j \in 1..Len(p) : i < j => p[i].id < p[j].id
  <2> SUFFICES ASSUME NEW i \in 1..Len(p), NEW j \in 1..Len(p), i < j PROVE p[i].id < p[j].id
    OBVIOUS
  <2>1. r + i < r + j
    BY <1>2
  <2>2. r + i \in 1..Len(q) /\ r + j \in 1..Len(q)
    BY <1>5
  <2>3. q[r + i].id < q[r + j].id
    BY <1>1, <2>1, <2>2
  <2>4. p[i] = q[r + i] /\ p[j] = q[r + j]
    OBVIOUS
  <2> QED
    BY <2>3, <2>4
<1>8. \A i, j \in 1..Len(t) : i < j => t[i] < t[j]
  <2> SUFFICES ASSUME NEW i \in 1..Len(t), NEW j \in 1..Len(t), i < j PROVE t[i] < t[j]
    OBVIOUS
  <2>1. i + 1 < j + 1
    BY <1>2
  <2>2. i + 1 \in 1..Len(s) /\ j + 1 \in 1..Len(s)
    BY <1>6
  <2>3. s[i + 1] < s[j + 1]
    BY <1>1, <2>1, <2>2
  <2> QED
    BY <1>4, <2>3
<1>9. ASSUME NEW i \in 1..Len(p), IsBuffer(p[i])
      PROVE  \E k \in 1..Len(t) : t[k] = p[i].id
  <2>1. PICK k \in 1..Len(s) : s[k] = q[r + i].id
    BY <1>1, <1>5, <1>9
  <2>2. q[1].id < q[r + i].id
    <3>1. 1 < r + i /\ 1 \in 1..Len(q)
      BY <1>2
    <3> QED
      BY <1>1, <1>5, <3>1
  <2>3. k # 1
    <3>1. q[1] \in Item
      BY <1>2
    <3>2. q[1].id \in Int
      BY <3>1, ItemFacts
    <3> QED
      BY <1>3, <2>1, <2>2, <3>2
  <2>4. k - 1 \in 1..Len(t) /\ (k - 1) + 1 = k
    BY <1>2, <1>4, <2>3
  <2>5. t[k - 1] = s[k]
    BY <1>4, <2>4
  <2> QED
    BY <2>1, <2>4, <2>5
<1>10. ASSUME NEW k \in 1..Len(t)
       PROVE  \E i \in 1..Len(p) : IsBuffer(p[i]) /\ p[i].id = t[k]
  <2>1. PICK i \in 1..Len(q) : IsBuffer(q[i]) /\ q[i].id = s[k + 1]
    BY <1>1, <1>6
  <2>2. i # 1
    <3>1. s[1] < s[k + 1]
      <4>1. 1 < k + 1
        BY <1>2, <1>4
      <4> QED
        BY <1>1, <1>2, <1>6, <4>1
    <3>2. s[1] \in Int /\ s[k + 1] \in Int
      <4>1. \A j \in 1..Len(s) : s[j] \in 1..MaxItems
        BY ElementOfSeq
      <4>2. k + 1 \in 1..Len(s)
        BY <1>6
      <4> QED
        BY <1>2, <4>1, <4>2
    <3> QED
      BY <1>3, <2>1, <3>1, <3>2
  <2>3. i \notin 2..r
    BY <2>1
  <2>4. i - r \in 1..Len(p) /\ r + (i - r) = i
    BY <1>2, <2>2, <2>3
  <2>5. p[i - r] = q[i]
    BY <2>4
  <2> QED
    BY <1>4, <2>1, <2>4, <2>5
<1> QED
  BY <1>4, <1>7, <1>8, <1>9, <1>10, TidyMeans DEF t

(* A buffer that fails leaves at the end.                                   *)
LEMMA TidyLast ==
  ASSUME NEW q \in Seq(Item), NEW s \in Seq(1..MaxItems), NEW n \in 1..MaxItems,
         Tidy(q, Append(s, n)),
         q # <<>> => q[Len(q)] = Buffer(n),
         NEW p \in Seq(Item), Len(p) = IF Len(q) > 0 THEN Len(q) - 1 ELSE 0,
         \A i \in 1..Len(p) : p[i] = q[i]
  PROVE  Tidy(p, s)
<1> DEFINE z == Append(s, n)
<1>1. /\ z \in Seq(1..MaxItems) /\ Len(z) = Len(s) + 1
      /\ \A k \in 1..Len(s) : z[k] = s[k]
      /\ z[Len(s) + 1] = n
  BY AppendProperties
<1>2. Tidy(q, z)
  OBVIOUS
<1> HIDE DEF z
<1>3. /\ \A i, j \in 1..Len(q) : i < j => q[i].id < q[j].id
      /\ \A i, j \in 1..Len(z) : i < j => z[i] < z[j]
      /\ \A i \in 1..Len(q) : IsBuffer(q[i]) => \E k \in 1..Len(z) : z[k] = q[i].id
      /\ \A k \in 1..Len(z) : \E i \in 1..Len(q) : IsBuffer(q[i]) /\ q[i].id = z[k]
  BY <1>1, <1>2, TidyMeans
<1>4. Len(q) \in Nat /\ Len(s) \in Nat /\ Len(s) + 1 \in 1..Len(z)
  BY <1>1
<1>5. Len(q) \in 1..Len(q) /\ q # <<>>
  <2>1. PICK i \in 1..Len(q) : TRUE
    BY <1>3, <1>4
  <2> QED
    BY <1>4
<1>6. q[Len(q)].id = n /\ Len(p) = Len(q) - 1
  BY <1>4, <1>5, ItemFacts
<1>7. \A i \in 1..Len(p) : i \in 1..Len(q) /\ i < Len(q)
  BY <1>4, <1>6
<1>8. \A k \in 1..Len(s) : k \in 1..Len(z) /\ k < Len(s) + 1
  BY <1>1, <1>4
<1>9. \A i, j \in 1..Len(p) : i < j => p[i].id < p[j].id
  BY <1>3, <1>7
<1>10. \A i, j \in 1..Len(s) : i < j => s[i] < s[j]
  BY <1>1, <1>3, <1>8
<1>11. ASSUME NEW i \in 1..Len(p), IsBuffer(p[i])
       PROVE  \E k \in 1..Len(s) : s[k] = p[i].id
  <2>1. PICK k \in 1..Len(z) : z[k] = q[i].id
    BY <1>3, <1>7, <1>11
  <2>2. q[i].id < n
    BY <1>3, <1>5, <1>6, <1>7
  <2>3. k # Len(s) + 1
    BY <1>1, <2>1, <2>2
  <2>4. k \in 1..Len(s)
    BY <1>1, <1>4, <2>3
  <2> QED
    BY <1>1, <2>1, <2>4
<1>12. ASSUME NEW k \in 1..Len(s)
       PROVE  \E i \in 1..Len(p) : IsBuffer(p[i]) /\ p[i].id = s[k]
  <2>1. PICK i \in 1..Len(q) : IsBuffer(q[i]) /\ q[i].id = z[k]
    BY <1>3, <1>8
  <2>2. z[k] < n /\ z[k] = s[k]
    BY <1>1, <1>3, <1>4, <1>8
  <2>3. i # Len(q)
    BY <1>6, <2>1, <2>2
  <2>4. i \in 1..Len(p)
    BY <1>4, <1>6, <2>3
  <2> QED
    BY <2>1, <2>2, <2>4
<1> QED
  BY <1>9, <1>10, <1>11, <1>12, TidyMeans
(* What is sounding as a sequence: the driver's moves do not change it,     *)
(* only Play and CallBackProc do.                                           *)
LEMMA MoveOne ==
  ASSUME NEW T, NEW s \in Seq(T), NEW t \in Seq(T), t # <<>>
  PROVE  Append(s, Head(t)) \o Tail(t) = s \o t
<1>1. Head(t) \in T /\ Tail(t) \in Seq(T) /\ <<Head(t)>> \in Seq(T)
  BY HeadTailProperties
<1>2. Append(s, Head(t)) = s \o <<Head(t)>>
  BY <1>1, AppendIsConcat
<1>3. (s \o <<Head(t)>>) \o Tail(t) = s \o (<<Head(t)>> \o Tail(t))
  BY <1>1, ConcatAssociative
<1>4. <<Head(t)>> \o Tail(t) = t
  <2> DEFINE u == <<Head(t)>> \o Tail(t)
  <2>1. /\ Len(t) \in Nat \ {0} /\ Len(Tail(t)) = Len(t) - 1
        /\ \A i \in 1..Len(Tail(t)) : Tail(t)[i] = t[i + 1]
        /\ Head(t) = t[1]
    BY HeadTailProperties, EmptySeq
  <2>2. /\ u \in Seq(T) /\ Len(u) = 1 + Len(Tail(t))
        /\ \A i \in 1..(1 + Len(Tail(t))) :
             u[i] = IF i <= 1 THEN <<Head(t)>>[i] ELSE Tail(t)[i - 1]
    <3>1. Len(<<Head(t)>>) = 1
      OBVIOUS
    <3> QED
      BY <1>1, <3>1, ConcatProperties
  <2> HIDE DEF u
  <2>3. ASSUME NEW i \in 1..Len(u) PROVE u[i] = t[i]
    <3>1. CASE i = 1
      BY <2>1, <2>2, <3>1
    <3>2. CASE i # 1
      <4>1. i - 1 \in 1..Len(Tail(t)) /\ (i - 1) + 1 = i /\ ~(i <= 1)
        BY <2>1, <2>2, <3>2
      <4>2. i \in 1..(1 + Len(Tail(t)))
        BY <2>2
      <4>3. u[i] = Tail(t)[i - 1]
        BY <2>2, <4>1, <4>2
      <4> QED
        BY <2>1, <4>1, <4>3
    <3> QED
      BY <3>1, <3>2
  <2>4. Len(u) = Len(t)
    BY <2>1, <2>2
  <2>5. u = t
    BY <2>2, <2>3, <2>4, SeqEqual
  <2> QED
    BY <2>5 DEF u
<1> QED
  BY <1>2, <1>3, <1>4

(* The first element of a concatenation is the first of its left part,     *)
(* which loses it with the concatenation.                                  *)
LEMMA TailOfConcat ==
  ASSUME NEW T, NEW s \in Seq(T), NEW t \in Seq(T), s # <<>>
  PROVE  /\ s \o t # <<>> /\ (s \o t)[1] = Head(s)
         /\ Tail(s \o t) = Tail(s) \o t
<1>1. /\ Len(s) \in Nat \ {0} /\ Len(t) \in Nat /\ Tail(s) \in Seq(T)
      /\ Len(Tail(s)) = Len(s) - 1
      /\ \A i \in 1..Len(Tail(s)) : Tail(s)[i] = s[i + 1]
  BY HeadTailProperties, EmptySeq
<1> DEFINE u == s \o t
           v == Tail(s) \o t
           w == Tail(u)
<1>2. /\ u \in Seq(T) /\ Len(u) = Len(s) + Len(t)
      /\ \A i \in 1..Len(s) + Len(t) : u[i] = IF i <= Len(s) THEN s[i] ELSE t[i - Len(s)]
  BY ConcatProperties
<1>3. /\ v \in Seq(T) /\ Len(v) = Len(Tail(s)) + Len(t)
      /\ \A i \in 1..Len(Tail(s)) + Len(t) :
           v[i] = IF i <= Len(Tail(s)) THEN Tail(s)[i] ELSE t[i - Len(Tail(s))]
  BY <1>1, ConcatProperties
<1> HIDE DEF u, v
<1>4. u # <<>> /\ u[1] = s[1]
  <2>1. 1 \in 1..Len(s) + Len(t) /\ 1 <= Len(s) /\ Len(u) # 0
    BY <1>1, <1>2
  <2> QED
    BY <1>2, <2>1
<1>5. /\ w \in Seq(T) /\ Len(w) = Len(u) - 1
      /\ \A i \in 1..Len(w) : w[i] = u[i + 1]
  BY <1>2, <1>4, HeadTailProperties
<1> HIDE DEF w
<1>6. Len(w) = Len(v)
  BY <1>1, <1>2, <1>3, <1>5
<1>7. ASSUME NEW i \in 1..Len(w) PROVE w[i] = v[i]
  <2>1. i \in Nat /\ i + 1 \in 1..Len(s) + Len(t) /\ i \in 1..Len(Tail(s)) + Len(t)
    BY <1>1, <1>2, <1>5
  <2>2. w[i] = u[i + 1]
    BY <1>5
  <2>3. CASE i <= Len(s) - 1
    <3>1. i + 1 <= Len(s) /\ i <= Len(Tail(s)) /\ i \in 1..Len(Tail(s))
      BY <1>1, <2>1, <2>3
    <3> QED
      BY <1>1, <1>2, <1>3, <2>1, <2>2, <3>1
  <2>4. CASE ~(i <= Len(s) - 1)
    <3>1. ~(i + 1 <= Len(s)) /\ ~(i <= Len(Tail(s))) /\ i + 1 - Len(s) = i - Len(Tail(s))
      BY <1>1, <2>1, <2>4
    <3>2. u[i + 1] = t[i + 1 - Len(s)]
      BY <1>2, <2>1, <3>1
    <3>3. v[i] = t[i - Len(Tail(s))]
      BY <1>3, <2>1, <3>1
    <3> QED
      BY <2>2, <3>1, <3>2, <3>3
  <2> QED
    BY <2>3, <2>4
<1>8. w = v
  BY <1>3, <1>5, <1>6, <1>7, SeqEqual
<1> QED
  BY <1>4, <1>8 DEF u, v, w

(* The buffer waveOutWrite is called for.                                    *)
Written == IF speaker = "write" THEN <<items>> ELSE <<>>

(* A buffer that waveOutWrite is putting in belongs at the end of what the  *)
(* driver holds, and ends there when the call returns.                     *)
LEMMA SoundsLike ==
  ASSUME NEW d \in Seq(1..MaxItems), NEW h \in Seq(1..MaxItems)
  PROVE  /\ d \o h \in Seq(1..MaxItems)
         /\ (d \o h) \o <<>> = d \o h
         /\ <<>> \in Seq(1..MaxItems)
         /\ \A n \in 1..MaxItems :
              /\ <<n>> \in Seq(1..MaxItems)
              /\ (d \o h) \o <<n>> \in Seq(1..MaxItems)
              /\ (d \o h) \o <<n>> = Append(d \o h, n)
<1>1. d \o h \in Seq(1..MaxItems)
  BY ConcatProperties
<1>2. (d \o h) \o <<>> = d \o h /\ <<>> \in Seq(1..MaxItems)
  BY <1>1, ConcatEmptySeq, EmptySeq
<1>3. ASSUME NEW n \in 1..MaxItems
      PROVE  /\ <<n>> \in Seq(1..MaxItems)
             /\ (d \o h) \o <<n>> \in Seq(1..MaxItems)
             /\ (d \o h) \o <<n>> = Append(d \o h, n)
  <2>1. <<n>> \in Seq(1..MaxItems)
    OBVIOUS
  <2>2. (d \o h) \o <<n>> \in Seq(1..MaxItems)
    BY <1>1, <2>1, ConcatProperties
  <2>3. (d \o h) \o <<n>> = Append(d \o h, n)
    BY <1>1, AppendIsConcat
  <2> QED
    BY <2>1, <2>2, <2>3
<1> QED
  BY <1>1, <1>2, <1>3

(* The buffers that will still be reported, with one being written last.   *)
LEMMA SoundingFacts ==
  ASSUME TypeInv
  PROVE  /\ Written \in Seq(1..MaxItems) /\ Sounding \in Seq(1..MaxItems)
         /\ hwDone \o hwQueue \in Seq(1..MaxItems)
         /\ Sounding = (hwDone \o hwQueue) \o Written
         /\ speaker = "write" => Sounding = Append(hwDone \o hwQueue, items)
         /\ speaker # "write" => Sounding = hwDone \o hwQueue
<1>1. hwQueue \in Seq(1..MaxItems) /\ hwDone \in Seq(1..MaxItems)
  BY DEF TypeInv, TypeOK
<1>2. speaker = "write" => items \in 1..MaxItems
  BY BoundsAreNat DEF TypeInv, TypeOK, ItemNumbered
<1>3. Sounding = (hwDone \o hwQueue) \o Written
  BY DEF Sounding, Written
<1>4. Written = IF speaker = "write" THEN <<items>> ELSE <<>>
  BY DEF Written
<1>5. CASE speaker = "write"
  <2>1. Written = <<items>>
    BY <1>4, <1>5
  <2> QED
    BY <1>1, <1>2, <1>3, <1>5, <2>1, SoundsLike
<1>6. CASE speaker # "write"
  <2>1. Written = <<>>
    BY <1>4, <1>6
  <2> QED
    BY <1>1, <1>3, <1>6, <2>1, SoundsLike
<1> QED
  BY <1>5, <1>6

(* The same after a step.                                                  *)
LEMMA SoundingFactsNext ==
  ASSUME TypeInv'
  PROVE  /\ Written' \in Seq(1..MaxItems) /\ Sounding' \in Seq(1..MaxItems)
         /\ hwDone' \o hwQueue' \in Seq(1..MaxItems)
         /\ Sounding' = (hwDone' \o hwQueue') \o Written'
         /\ speaker' = "write" => Sounding' = Append(hwDone' \o hwQueue', items')
         /\ speaker' # "write" => Sounding' = hwDone' \o hwQueue'
<1>1. hwQueue' \in Seq(1..MaxItems) /\ hwDone' \in Seq(1..MaxItems)
  BY DEF TypeInv, TypeOK
<1>2. speaker' = "write" => items' \in 1..MaxItems
  BY BoundsAreNat DEF TypeInv, TypeOK, ItemNumbered
<1>3. Sounding' = (hwDone' \o hwQueue') \o Written'
  BY DEF Sounding, Written
<1>4. Written' = IF speaker' = "write" THEN <<items'>> ELSE <<>>
  BY DEF Written
<1>5. CASE speaker' = "write"
  <2>1. Written' = <<items'>>
    BY <1>4, <1>5
  <2> QED
    BY <1>1, <1>2, <1>3, <1>5, <2>1, SoundsLike
<1>6. CASE speaker' # "write"
  <2>1. Written' = <<>>
    BY <1>4, <1>6
  <2> QED
    BY <1>1, <1>3, <1>6, <2>1, SoundsLike
<1> QED
  BY <1>5, <1>6

(* The largest number that is queued or dispatched.                         *)
Top == IF speaker = "inject" THEN items - 1 ELSE items

(* OrderInv, position by position: what each step is checked against.      *)
LEMMA OrderMeans ==
  ASSUME TypeInv, aborts = 0
  PROVE  OrderInv <=>
           /\ Tidy(queueIn, Sounding)
           /\ \A i, j \in 1..Len(dispatched) : i < j => dispatched[i] < dispatched[j]
           /\ \A i \in 1..Len(dispatched), j \in 1..Len(queueIn) : dispatched[i] < queueIn[j].id
           /\ \A i \in 1..Len(queueIn) : queueIn[i].id <= Top
           /\ \A i \in 1..Len(dispatched) : dispatched[i] <= Top
<1>1. DOMAIN queueIn = 1..Len(queueIn) /\ DOMAIN dispatched = 1..Len(dispatched)
  BY DEF TypeInv, TypeOK
<1> QED
  BY <1>1 DEF OrderInv, Increasing, Before, Below, Top

(* A step that leaves what is queued, sounding and dispatched alone.        *)
LEMMA QuietOrder ==
  ASSUME TypeInv, TypeInv', OrderInv,
         UNCHANGED <<queueIn, dispatched, aborts, Sounding>>,
         Top <= Top'
  PROVE  OrderInv'
<1> SUFFICES ASSUME aborts = 0 PROVE OrderInv'
  BY DEF OrderInv
<1>1. /\ Tidy(queueIn, Sounding)
      /\ \A i, j \in 1..Len(dispatched) : i < j => dispatched[i] < dispatched[j]
      /\ \A i \in 1..Len(dispatched), j \in 1..Len(queueIn) : dispatched[i] < queueIn[j].id
      /\ \A i \in 1..Len(queueIn) : queueIn[i].id <= Top
      /\ \A i \in 1..Len(dispatched) : dispatched[i] <= Top
  BY OrderMeans
<1>2. Top \in Int /\ Top' \in Int
  BY DEF TypeInv, TypeOK, Top
<1>3. /\ \A i \in 1..Len(queueIn) : queueIn[i].id \in Int
      /\ \A i \in 1..Len(dispatched) : dispatched[i] \in Int
  <2>1. queueIn \in Seq(Item) /\ dispatched \in Seq(1..MaxItems)
    BY DEF TypeInv, TypeOK
  <2>2. \A i \in 1..Len(queueIn) : queueIn[i] \in Item
    BY <2>1, ElementOfSeq
  <2>3. \A i \in 1..Len(dispatched) : dispatched[i] \in 1..MaxItems
    BY <2>1, ElementOfSeq
  <2> QED
    BY <2>2, <2>3, ItemFacts
<1>4. /\ \A i \in 1..Len(queueIn) : queueIn[i].id <= Top'
      /\ \A i \in 1..Len(dispatched) : dispatched[i] <= Top'
  BY <1>1, <1>2, <1>3
<1>5. Tidy(queueIn', Sounding')
  BY <1>1
<1> HIDE DEF Tidy, Top
<1>6. aborts' = 0 /\ queueIn' = queueIn /\ dispatched' = dispatched
  OBVIOUS
<1>7. Increasing(dispatched') /\ Before(dispatched', queueIn')
  BY <1>6 DEF OrderInv
<1>8. Below(queueIn', dispatched', Top')
  <2>1. DOMAIN queueIn = 1..Len(queueIn) /\ DOMAIN dispatched = 1..Len(dispatched)
    BY DEF TypeInv, TypeOK
  <2> QED
    BY <1>4, <1>6, <2>1 DEF Below
<1> QED
  BY <1>5, <1>7, <1>8 DEF OrderInv, Top

(* Every step keeps the order of the queue, of the driver's buffers and of *)
(* what was dispatched, as long as nobody has aborted.                     *)
LEMMA OrderStep == TypeInv /\ PauseInv /\ OrderInv /\ [Next]_vars => OrderInv'
<1> SUFFICES ASSUME TypeInv, PauseInv, OrderInv, [Next]_vars PROVE OrderInv'
  OBVIOUS
<1>t. TypeInv'
  BY TypeStep
<1>s. /\ Sounding \in Seq(1..MaxItems) /\ Sounding' \in Seq(1..MaxItems)
      /\ hwDone \in Seq(1..MaxItems) /\ hwQueue \in Seq(1..MaxItems)
      /\ dispatched \in Seq(1..MaxItems) /\ dispatched' \in Seq(1..MaxItems)
      /\ queueIn \in Seq(Item) /\ queueIn' \in Seq(Item)
      /\ items \in 0..MaxItems /\ items' \in 0..MaxItems /\ MaxItems \in Nat
  BY <1>t, SoundingFacts, SoundingFactsNext, BoundsAreNat DEF TypeInv, TypeOK
<1>d. /\ \A i \in 1..Len(queueIn) : queueIn[i] \in Item /\ queueIn[i].id \in 1..MaxItems
      /\ \A i \in 1..Len(dispatched) : dispatched[i] \in 1..MaxItems
      /\ Len(queueIn) \in Nat /\ Len(dispatched) \in Nat
  <2>1. /\ \A i \in 1..Len(queueIn) : queueIn[i] \in Item
        /\ \A i \in 1..Len(dispatched) : dispatched[i] \in 1..MaxItems
    BY <1>s, ElementOfSeq
  <2>2. Len(queueIn) \in Nat /\ Len(dispatched) \in Nat
    BY <1>s, LenProperties
  <2> QED
    BY <2>1, <2>2, ItemFacts
<1>m. ASSUME aborts = 0
      PROVE  /\ Tidy(queueIn, Sounding)
             /\ \A i, j \in 1..Len(dispatched) : i < j => dispatched[i] < dispatched[j]
             /\ \A i \in 1..Len(dispatched), j \in 1..Len(queueIn) : dispatched[i] < queueIn[j].id
             /\ \A i \in 1..Len(queueIn) : queueIn[i].id <= Top
             /\ \A i \in 1..Len(dispatched) : dispatched[i] <= Top
  BY <1>m, OrderMeans
<1>i. ASSUME aborts' = 0,
             Tidy(queueIn', Sounding'),
             \A i, j \in 1..Len(dispatched') : i < j => dispatched'[i] < dispatched'[j],
             \A i \in 1..Len(dispatched'), j \in 1..Len(queueIn') : dispatched'[i] < queueIn'[j].id,
             \A i \in 1..Len(queueIn') : queueIn'[i].id <= Top',
             \A i \in 1..Len(dispatched') : dispatched'[i] <= Top'
      PROVE  OrderInv'
  <2>1. DOMAIN queueIn' = 1..Len(queueIn') /\ DOMAIN dispatched' = 1..Len(dispatched')
    BY <1>s
  <2>2. Increasing(dispatched')
    BY <1>i, <2>1 DEF Increasing
  <2>3. Before(dispatched', queueIn') /\ Below(queueIn', dispatched', Top')
    BY <1>i, <2>1 DEF Before, Below
  <2> QED
    BY <1>i, <2>2, <2>3 DEF OrderInv, Top
<1>a. ASSUME aborts' # 0 PROVE OrderInv'
  BY <1>a DEF OrderInv
<1>w. ASSUME UNCHANGED <<hwDone, hwQueue>>, speaker' # "write", speaker # "write"
      PROVE  Sounding' = Sounding
  BY <1>w DEF Sounding
<1>q. ASSUME UNCHANGED <<queueIn, dispatched, aborts, items, hwDone, hwQueue>>,
             speaker # "write", speaker' \notin {"write", "inject"}
      PROVE  OrderInv'
  <2>1. Sounding' = Sounding
    BY <1>q DEF Sounding
  <2>2. Top <= Top'
    BY <1>q, <1>s DEF Top
  <2> QED
    BY <1>q, <1>t, <2>1, <2>2, QuietOrder
<1>r. ASSUME UNCHANGED <<queueIn, dispatched, aborts, items, hwDone, hwQueue, speaker>>
      PROVE  OrderInv'
  <2>1. Sounding' = Sounding
    BY <1>r DEF Sounding
  <2>2. Top <= Top'
    BY <1>r, <1>s DEF Top
  <2> QED
    BY <1>r, <1>t, <2>1, <2>2, QuietOrder
<1>u. CASE UNCHANGED vars
  BY <1>u, <1>r DEF vars, devVars, hwVars, threadVars, counters
<1>1. CASE BeginOpen
  BY <1>1, <1>q DEF BeginOpen, devVars, hwVars, threadVars, counters
<1>2. CASE BeginAsserts
  BY <1>2, <1>q DEF BeginAsserts, devVars, hwVars, threadVars, counters
<1>3. CASE BeginSet
  BY <1>3, <1>q DEF BeginSet, devVars, hwVars, threadVars, counters
<1>4. CASE Finish
  BY <1>4, <1>q DEF Finish, devVars, hwVars, threadVars, counters
<1>5. CASE WaitUntilDone
  BY <1>5, <1>q DEF WaitUntilDone, devVars, hwVars, threadVars, counters
<1>6. CASE ClearAborted
  BY <1>6, <1>r DEF ClearAborted, devVars, hwVars, threadVars, counters
<1>7. CASE Pause
  BY <1>7, <1>r DEF Pause, devVars, hwVars, threadVars, counters
<1>8. CASE ResumeRestart
  BY <1>8, <1>r DEF ResumeRestart, devVars, hwVars, threadVars, counters
<1>9. CASE ResumeClear
  BY <1>9, <1>r DEF ResumeClear, devVars, hwVars, threadVars, counters
<1>10. CASE AbortReturn
  BY <1>10, <1>r DEF AbortReturn, devVars, hwVars, threadVars, counters
<1>11. CASE CallbackTest
  BY <1>11, <1>r DEF CallbackTest, devVars, hwVars, threadVars, counters
<1>12. CASE CallbackSet
  BY <1>12, <1>r DEF CallbackSet, devVars, hwVars, threadVars, counters
<1>13. CASE PlayQueue
  <2> SUFFICES ASSUME aborts = 0 PROVE OrderInv'
    BY <1>13, <1>a DEF PlayQueue
  <2>1. /\ items' = items + 1 /\ aborts' = 0 /\ speaker = "open"
        /\ UNCHANGED <<hwDone, hwQueue, dispatched>>
    BY <1>13 DEF PlayQueue, hwVars
  <2>2. CASE aborted
    <3>1. UNCHANGED <<queueIn, speaker>>
      BY <1>13, <2>2 DEF PlayQueue
    <3>2. Sounding' = Sounding /\ Top <= Top'
      BY <1>s, <1>w, <2>1, <3>1 DEF Top
    <3> QED
      BY <1>t, <2>1, <3>1, <3>2, QuietOrder
  <2>3. CASE ~aborted
    <3>1. queueIn' = Append(queueIn, Buffer(items')) /\ speaker' = "write"
      BY <1>13, <2>3 DEF PlayQueue
    <3>2. Top = items /\ Top' = items' /\ items' \in 1..MaxItems
      BY <1>s, <2>1, <3>1 DEF Top
    <3>3. Sounding' = Append(Sounding, items')
      <4>1. Sounding' = Append(hwDone' \o hwQueue', items')
        BY <1>t, <3>1, SoundingFactsNext
      <4>2. Sounding = hwDone \o hwQueue
        BY <2>1, SoundingFacts
      <4> QED
        BY <2>1, <4>1, <4>2
    <3>4. \A i \in 1..Len(queueIn) : queueIn[i].id < items'
      <4>1. \A i \in 1..Len(queueIn) : queueIn[i].id <= items
        BY <1>m, <3>2
      <4> QED
        BY <1>d, <1>s, <2>1, <4>1
    <3>5. Tidy(queueIn', Sounding')
      BY <1>m, <1>s, <3>1, <3>2, <3>3, <3>4, TidyAppend
    <3>6. /\ Len(queueIn') = Len(queueIn) + 1
          /\ \A i \in 1..Len(queueIn) : queueIn'[i] = queueIn[i]
          /\ queueIn'[Len(queueIn) + 1].id = items'
      BY <1>s, <3>1, <3>2, ItemFacts, AppendProperties
    <3>7. ASSUME NEW i \in 1..Len(queueIn')
          PROVE  queueIn'[i].id <= Top' /\ \A j \in 1..Len(dispatched) : dispatched[j] < queueIn'[i].id
      <4>1. CASE i = Len(queueIn) + 1
        <5>1. queueIn'[i].id = items' /\ items' = items + 1 /\ Top' = items' /\ items \in Nat
          BY <1>s, <2>1, <3>2, <3>6, <4>1
        <5>2. \A j \in 1..Len(dispatched) : dispatched[j] <= items /\ dispatched[j] \in Int
          BY <1>d, <1>m, <3>2
        <5> QED
          BY <5>1, <5>2
      <4>2. CASE i # Len(queueIn) + 1
        <5>1. i \in 1..Len(queueIn) /\ queueIn'[i] = queueIn[i]
          BY <1>d, <3>6, <4>2
        <5> QED
          <6>1. queueIn[i].id < items' /\ Top' = items' /\ items' \in Int
            BY <1>s, <3>2, <3>4, <5>1
          <6>2. \A j \in 1..Len(dispatched) : dispatched[j] < queueIn[i].id
            BY <1>m, <5>1
          <6>3. queueIn[i].id \in Int
            BY <1>d, <5>1
          <6> QED
            BY <5>1, <6>1, <6>2, <6>3
      <4> QED
        BY <4>1, <4>2
    <3>8. \A i \in 1..Len(dispatched) : dispatched[i] <= Top'
      BY <1>d, <1>m, <1>s, <2>1, <3>2
    <3> QED
      BY <1>i, <1>m, <2>1, <3>5, <3>7, <3>8
  <2> QED
    BY <2>2, <2>3
<1>14. CASE PlayWrite
  <2>1. /\ UNCHANGED <<queueIn, dispatched, aborts, items, hwDone>>
        /\ hwQueue' = Append(hwQueue, items) /\ speaker = "write" /\ speaker' = "open"
    BY <1>14 DEF PlayWrite, counters
  <2>2. items \in 1..MaxItems
    BY <1>s, <2>1 DEF TypeInv, ItemNumbered
  <2>3. Sounding' = hwDone \o Append(hwQueue, items)
    BY <1>t, <2>1, SoundingFacts, SoundingFactsNext
  <2>4. Sounding = (hwDone \o hwQueue) \o <<items>>
    BY <2>1, SoundingFacts DEF Written
  <2>5. <<items>> \in Seq(1..MaxItems)
    BY <2>2
  <2>6. Append(hwQueue, items) = hwQueue \o <<items>>
    BY <1>s, <2>2, AppendIsConcat
  <2>7. Sounding' = Sounding
    <3>1. (hwDone \o hwQueue) \o <<items>> = hwDone \o (hwQueue \o <<items>>)
      <4>1. /\ hwDone \in Seq(1..MaxItems) /\ hwQueue \in Seq(1..MaxItems)
            /\ <<items>> \in Seq(1..MaxItems)
        BY <1>s, <2>5
      <4> QED
        BY <4>1, ConcatAssociative
    <3> QED
      BY <2>3, <2>4, <2>6, <3>1
  <2>8. Top <= Top'
    BY <1>s, <2>1 DEF Top
  <2> QED
    BY <1>t, <2>1, <2>7, <2>8, QuietOrder
<1>15. CASE PlayFails
  <2> SUFFICES ASSUME aborts = 0 PROVE OrderInv'
    BY <1>15, <1>a DEF PlayFails
  <2>1. /\ UNCHANGED <<dispatched, aborts, items, hwDone, hwQueue>>
        /\ queueIn' = SubSeq(queueIn, 1, Len(queueIn) - 1)
        /\ speaker = "write" /\ speaker' = "open" /\ aborts' = 0
    BY <1>15 DEF PlayFails, AfterFailure, hwVars
  <2>2. /\ 1 \in 1..(Len(queueIn) + 1) /\ Len(queueIn) - 1 \in Int
        /\ Len(queueIn) - 1 <= Len(queueIn)
    BY <1>d
  <2>3. /\ Len(queueIn') = IF 1 <= Len(queueIn) - 1 THEN Len(queueIn) - 1 - 1 + 1 ELSE 0
        /\ \A i \in 1..Len(queueIn') : queueIn'[i] = queueIn[1 + i - 1]
    BY <1>s, <2>1, <2>2, PieceFacts
  <2>4. /\ Len(queueIn') = IF Len(queueIn) > 0 THEN Len(queueIn) - 1 ELSE 0
        /\ \A i \in 1..Len(queueIn') : queueIn'[i] = queueIn[i] /\ i \in 1..Len(queueIn)
    BY <1>d, <2>3
  <2>5. Sounding = Append(Sounding', items)
    <3>1. Sounding' = hwDone \o hwQueue
      BY <1>t, <2>1, SoundingFacts, SoundingFactsNext
    <3> QED
      BY <2>1, <3>1, SoundingFacts
  <2>6. items \in 1..MaxItems /\ (queueIn # <<>> => queueIn[Len(queueIn)] = Buffer(items))
    BY <1>s, <2>1 DEF TypeInv, ItemNumbered, LastIsWritten
  <2>7. Tidy(queueIn', Sounding')
    BY <1>m, <1>s, <2>4, <2>5, <2>6, TidyLast
  <2>8. Top' = Top
    BY <2>1 DEF Top
  <2> QED
    BY <1>i, <1>m, <2>1, <2>4, <2>7, <2>8
<1>16. CASE InjectTest
  <2>1. /\ UNCHANGED <<queueIn, dispatched, aborts, hwDone, hwQueue>>
        /\ items' = items + 1 /\ speaker = "open" /\ speaker' = "inject"
    BY <1>16 DEF InjectTest, devVars, hwVars
  <2>2. Sounding' = Sounding
    BY <1>w, <2>1
  <2>3. Top <= Top'
    BY <1>s, <2>1 DEF Top
  <2> QED
    BY <1>t, <2>1, <2>2, <2>3, QuietOrder
<1>17. CASE InjectLocked
  <2> SUFFICES ASSUME aborts = 0 PROVE OrderInv'
    BY <1>17, <1>a DEF InjectLocked, counters
  <2>1. /\ UNCHANGED <<aborts, items, hwDone, hwQueue>>
        /\ speaker = "inject" /\ speaker' = "open" /\ aborts' = 0
    BY <1>17 DEF InjectLocked, hwVars, counters
  <2>2. Sounding' = Sounding
    BY <1>w, <2>1
  <2>3. items \in 1..MaxItems /\ Top = items - 1 /\ Top' = items
    BY <1>s, <2>1 DEF TypeInv, ItemNumbered, Top
  <2>4. \A i \in 1..Len(queueIn) : queueIn[i].id < items
    BY <1>d, <1>m, <2>3
  <2>5. \A i \in 1..Len(dispatched) : dispatched[i] < items
    BY <1>d, <1>m, <2>3
  <2>6. CASE queueIn = <<>>
    <3>1. dispatched' = Append(dispatched, items) /\ queueIn' = queueIn
      BY <1>17, <2>6 DEF InjectLocked, PostsAtOnce
    <3>2. /\ Len(dispatched') = Len(dispatched) + 1
          /\ \A i \in 1..Len(dispatched) : dispatched'[i] = dispatched[i]
          /\ dispatched'[Len(dispatched) + 1] = items
      BY <1>s, <2>3, <3>1, AppendProperties
    <3>3. Tidy(queueIn', Sounding')
      BY <1>m, <2>2, <3>1
    <3>4. ASSUME NEW i \in 1..Len(dispatched'), NEW j \in 1..Len(dispatched'), i < j
          PROVE  dispatched'[i] < dispatched'[j]
      <4>1. i \in 1..Len(dispatched) /\ dispatched'[i] = dispatched[i]
        BY <1>d, <3>2, <3>4
      <4>2. CASE j = Len(dispatched) + 1
        BY <2>5, <3>2, <4>1, <4>2
      <4>3. CASE j # Len(dispatched) + 1
        <5>1. j \in 1..Len(dispatched) /\ dispatched'[j] = dispatched[j]
          BY <1>d, <3>2, <4>3
        <5> QED
          BY <1>m, <3>4, <4>1, <5>1
      <4> QED
        BY <4>2, <4>3
    <3>5. \A i \in 1..Len(dispatched') : dispatched'[i] <= Top'
      <4> SUFFICES ASSUME NEW i \in 1..Len(dispatched') PROVE dispatched'[i] <= Top'
        OBVIOUS
      <4>1. CASE i = Len(dispatched) + 1
        BY <2>3, <3>2, <4>1
      <4>2. CASE i # Len(dispatched) + 1
        <5>1. i \in 1..Len(dispatched) /\ dispatched'[i] = dispatched[i]
          BY <1>d, <3>2, <4>2
        <5> QED
          BY <1>d, <2>3, <2>5, <5>1
      <4> QED
        BY <4>1, <4>2
    <3>6. Len(queueIn') = 0
      BY <2>6, <3>1
    <3> QED
      BY <1>i, <2>1, <3>3, <3>4, <3>5, <3>6
  <2>7. CASE queueIn # <<>>
    <3>1. queueIn' = Append(queueIn, Event(items)) /\ dispatched' = dispatched
      BY <1>17, <2>7 DEF InjectLocked, PostsAtOnce
    <3>2. /\ Len(queueIn') = Len(queueIn) + 1
          /\ \A i \in 1..Len(queueIn) : queueIn'[i] = queueIn[i]
          /\ queueIn'[Len(queueIn) + 1].id = items
      BY <1>s, <2>3, <3>1, ItemFacts, AppendProperties
    <3>3. Tidy(queueIn', Sounding')
      BY <1>m, <1>s, <2>2, <2>3, <2>4, <3>1, TidyAppend
    <3>4. ASSUME NEW i \in 1..Len(queueIn')
          PROVE  queueIn'[i].id <= Top' /\ \A j \in 1..Len(dispatched) : dispatched[j] < queueIn'[i].id
      <4>1. CASE i = Len(queueIn) + 1
        BY <2>3, <2>5, <3>2, <4>1
      <4>2. CASE i # Len(queueIn) + 1
        <5>1. i \in 1..Len(queueIn) /\ queueIn'[i] = queueIn[i]
          BY <1>d, <3>2, <4>2
        <5> QED
          BY <1>d, <1>m, <2>3, <2>4, <5>1
      <4> QED
        BY <4>1, <4>2
    <3>5. \A i \in 1..Len(dispatched) : dispatched[i] <= Top'
      BY <1>d, <2>3, <2>5
    <3> QED
      BY <1>i, <1>m, <2>1, <3>1, <3>3, <3>4, <3>5
  <2> QED
    BY <2>6, <2>7
<1>18. CASE EndCheck
  <2> SUFFICES ASSUME aborts = 0 PROVE OrderInv'
    BY <1>18, <1>a DEF EndCheck, counters
  <2>1. ~aborted
    BY DEF PauseInv, FlagsHold
  <2> QED
    BY <1>18, <1>q, <2>1 DEF EndCheck, hwVars, counters
<1>19. CASE EndClose
  <2>1. /\ UNCHANGED <<queueIn, dispatched, aborts, items>>
        /\ speaker = "close" /\ speaker' = "idle"
        /\ \/ UNCHANGED <<hwDone, hwQueue>>
           \/ hwDone' = hwDone \o hwQueue /\ hwQueue' = <<>>
    BY <1>19 DEF EndClose, WaveOutReset, counters
  <2>2. Sounding' = hwDone' \o hwQueue' /\ Sounding = hwDone \o hwQueue
    BY <1>t, <2>1, SoundingFacts, SoundingFactsNext
  <2>3. (hwDone \o hwQueue) \o <<>> = hwDone \o hwQueue
    BY SoundingFacts, ConcatEmptySeq
  <2>4. Sounding' = Sounding
    BY <2>1, <2>2, <2>3
  <2>5. Top <= Top'
    BY <1>s, <2>1 DEF Top
  <2> QED
    BY <1>t, <2>1, <2>4, <2>5, QuietOrder
<1>20. CASE AbortReset
  <2>1. aborts' # 0
    BY <1>20, BoundsAreNat DEF AbortReset, TypeInv, TypeOK
  <2> QED
    BY <1>a, <2>1
<1>21. CASE HwPlay
  <2>1. /\ UNCHANGED <<queueIn, dispatched, aborts, items, speaker>>
        /\ hwDone' = Append(hwDone, Head(hwQueue)) /\ hwQueue' = Tail(hwQueue) /\ hwQueue # <<>>
    BY <1>21 DEF HwPlay, devVars, threadVars, counters
  <2>2. hwDone' \o hwQueue' = hwDone \o hwQueue
    BY <1>s, <2>1, MoveOne
  <2>3. Sounding' = Sounding
    BY <2>1, <2>2 DEF Sounding
  <2>4. Top <= Top'
    BY <1>s, <2>1 DEF Top
  <2> QED
    BY <1>t, <2>1, <2>3, <2>4, QuietOrder
<1>22. CASE CallbackLocked
  <2> SUFFICES ASSUME aborts = 0 PROVE OrderInv'
    BY <1>22, <1>a DEF CallbackLocked, counters
  <2>1. /\ UNCHANGED <<hwQueue, speaker, items, aborts>>
        /\ hwDone # <<>> /\ hwDone' = Tail(hwDone) /\ aborts' = 0
    BY <1>22 DEF CallbackLocked, threadVars, counters
  <2>2. Sounding # <<>> /\ Sounding' = Tail(Sounding)
    <3>1. /\ Tail(hwDone \o hwQueue) = Tail(hwDone) \o hwQueue
          /\ hwDone \o hwQueue # <<>>
      BY <1>s, <2>1, TailOfConcat
    <3>2. /\ Tail((hwDone \o hwQueue) \o Written) = Tail(hwDone \o hwQueue) \o Written
          /\ (hwDone \o hwQueue) \o Written # <<>>
      BY <3>1, SoundingFacts, TailOfConcat
    <3>3. Sounding' = (hwDone' \o hwQueue') \o Written'
      BY <1>t, SoundingFactsNext
    <3>4. Written' = Written
      BY <2>1 DEF Written
    <3> QED
      BY <2>1, <3>1, <3>2, <3>3, <3>4, SoundingFacts
  <2>3. queueIn # <<>> /\ IsBuffer(queueIn[1])
    BY <1>m, <1>s, <2>2, TidyHead DEF TypeInv, HeadIsBuffer
  <2>4. /\ Removed \in 1..Len(queueIn)
        /\ \A i \in 2..Removed : ~IsBuffer(queueIn[i])
    BY <1>s, <2>3, RemovedFacts
  <2> DEFINE r == Removed
             e == SubSeq(queueIn, 2, r)
  <2>5. /\ queueIn' = SubSeq(queueIn, r + 1, Len(queueIn))
        /\ dispatched' = dispatched \/ dispatched' = dispatched \o Ids(e)
    BY <1>22, <2>3 DEF CallbackLocked
  <2>6. r \in 1..Len(queueIn) /\ r + 1 \in 1..(Len(queueIn) + 1) /\ 2 \in 1..(Len(queueIn) + 1)
        /\ r <= Len(queueIn) /\ r \in Int
    BY <1>d, <2>4
  <2> HIDE DEF r
  <2>7. /\ Len(queueIn') = Len(queueIn) - r
        /\ \A i \in 1..Len(queueIn') : queueIn'[i] = queueIn[r + i] /\ r + i \in 1..Len(queueIn)
    <3>1. /\ Len(queueIn') = IF r + 1 <= Len(queueIn) THEN Len(queueIn) - (r + 1) + 1 ELSE 0
          /\ \A i \in 1..Len(queueIn') : queueIn'[i] = queueIn[r + 1 + i - 1]
      BY <1>d, <1>s, <2>5, <2>6, PieceFacts
    <3>2. Len(queueIn') = Len(queueIn) - r
      BY <1>d, <2>6, <3>1
    <3>3. ASSUME NEW i \in 1..Len(queueIn')
          PROVE  queueIn'[i] = queueIn[r + i] /\ r + i \in 1..Len(queueIn)
      <4>1. r + 1 + i - 1 = r + i /\ r + i \in 1..Len(queueIn)
        BY <1>d, <2>6, <3>2
      <4>2. queueIn'[i] = queueIn[r + 1 + i - 1]
        BY <3>1
      <4> QED
        BY <4>1, <4>2
    <3> QED
      BY <3>2, <3>3
  <2>8. /\ e \in Seq(Item) /\ Len(e) = r - 1
        /\ \A i \in 1..Len(e) : e[i] = queueIn[i + 1] /\ i + 1 \in 1..Len(queueIn) /\ i + 1 <= r
    <3>1. /\ e \in Seq(Item) /\ Len(e) = IF 2 <= r THEN r - 2 + 1 ELSE 0
          /\ \A i \in 1..Len(e) : e[i] = queueIn[2 + i - 1]
      BY <1>s, <2>6, PieceFacts
    <3>2. Len(e) = r - 1
      BY <2>6, <3>1
    <3>3. ASSUME NEW i \in 1..Len(e)
          PROVE  e[i] = queueIn[i + 1] /\ i + 1 \in 1..Len(queueIn) /\ i + 1 <= r
      <4>1. 2 + i - 1 = i + 1 /\ i + 1 \in 1..Len(queueIn) /\ i + 1 <= r
        BY <1>d, <2>6, <3>2
      <4>2. e[i] = queueIn[2 + i - 1]
        BY <3>1
      <4> QED
        BY <4>1, <4>2
    <3> QED
      BY <3>1, <3>2, <3>3
  <2> HIDE DEF e
  <2>9. Tidy(queueIn', Sounding')
    <3>1. \A i \in 2..r : ~IsBuffer(queueIn[i])
      BY <2>4 DEF r
    <3> QED
      BY <1>m, <1>s, <2>2, <2>3, <2>6, <2>7, <3>1, TidyRemove
  <2>10. \A i, j \in 1..Len(queueIn) : i < j => queueIn[i].id < queueIn[j].id
    BY <1>m, <1>s, TidyMeans
  <2>11. Top' = Top /\ Top \in Int
    BY <1>s, <2>1 DEF Top
  <2>12. \A i \in 1..Len(queueIn') : queueIn'[i].id <= Top'
    BY <1>m, <2>7, <2>11
  <2>13. CASE dispatched' = dispatched
    <3>1. \A i \in 1..Len(dispatched), j \in 1..Len(queueIn') : dispatched[i] < queueIn'[j].id
      BY <1>m, <2>7
    <3> QED
      BY <1>i, <1>m, <2>1, <2>9, <2>11, <2>12, <2>13, <3>1
  <2>14. CASE dispatched' = dispatched \o Ids(e)
    <3>1. /\ Ids(e) \in Seq(1..MaxItems) /\ Len(Ids(e)) = r - 1
          /\ \A i \in 1..(r - 1) : Ids(e)[i] = queueIn[i + 1].id /\ i + 1 \in 1..Len(queueIn) /\ i + 1 <= r
      BY <2>8, IdsFacts
    <3> DEFINE n == Len(dispatched)
    <3>2. /\ Len(dispatched') = n + (r - 1)
          /\ \A i \in 1..n + (r - 1) :
               dispatched'[i] = IF i <= n THEN dispatched[i] ELSE Ids(e)[i - n]
      <4>1. dispatched \in Seq(1..MaxItems) /\ Ids(e) \in Seq(1..MaxItems)
        BY <1>s, <3>1
      <4>2. /\ Len(dispatched \o Ids(e)) = n + Len(Ids(e))
            /\ \A i \in 1..n + Len(Ids(e)) :
                 (dispatched \o Ids(e))[i] = IF i <= n THEN dispatched[i] ELSE Ids(e)[i - n]
        BY <4>1, ConcatProperties
      <4>3. Len(Ids(e)) = r - 1
        BY <3>1
      <4> QED
        BY <2>14, <4>2, <4>3
    <3>3. n \in Nat
      BY <1>d
    <3> HIDE DEF n
    <3>4. ASSUME NEW i \in 1..Len(dispatched')
          PROVE  \/ i \in 1..n /\ dispatched'[i] = dispatched[i]
                 \/ /\ i > n /\ i - n + 1 \in 1..Len(queueIn) /\ i - n + 1 <= r
                    /\ dispatched'[i] = queueIn[i - n + 1].id
      <4>1. CASE i <= n
        BY <2>6, <3>2, <3>3, <4>1
      <4>2. CASE ~(i <= n)
        <5>1. i - n \in 1..(r - 1) /\ i > n
          BY <2>6, <3>2, <3>3, <4>2
        <5> QED
          BY <3>1, <3>2, <4>2, <5>1
      <4> QED
        BY <4>1, <4>2
    <3>5. ASSUME NEW i \in 1..Len(dispatched'), NEW j \in 1..Len(dispatched'), i < j
          PROVE  dispatched'[i] < dispatched'[j]
      <4>1. CASE j \in 1..n /\ dispatched'[j] = dispatched[j]
        <5>1. i \in 1..n /\ dispatched'[i] = dispatched[i]
          BY <3>3, <3>4, <3>5, <4>1
        <5> QED
          BY <1>m, <3>5, <4>1, <5>1 DEF n
      <4>2. CASE /\ j > n /\ j - n + 1 \in 1..Len(queueIn)
                 /\ dispatched'[j] = queueIn[j - n + 1].id
        <5>1. CASE i \in 1..n /\ dispatched'[i] = dispatched[i]
          BY <1>m, <4>2, <5>1 DEF n
        <5>2. CASE /\ i > n /\ i - n + 1 \in 1..Len(queueIn)
                   /\ dispatched'[i] = queueIn[i - n + 1].id
          <6>1. i - n + 1 < j - n + 1
            BY <3>2, <3>3, <3>5, <2>6
          <6> QED
            BY <2>10, <4>2, <5>2, <6>1
        <5> QED
          BY <3>4, <5>1, <5>2
      <4> QED
        BY <3>4, <4>1, <4>2
    <3>6. ASSUME NEW i \in 1..Len(dispatched')
          PROVE  /\ dispatched'[i] <= Top'
                 /\ \A j \in 1..Len(queueIn') : dispatched'[i] < queueIn'[j].id
      <4>1. CASE i \in 1..n /\ dispatched'[i] = dispatched[i]
        BY <1>m, <2>7, <2>11, <4>1 DEF n
      <4>2. CASE /\ i > n /\ i - n + 1 \in 1..Len(queueIn) /\ i - n + 1 <= r
                 /\ dispatched'[i] = queueIn[i - n + 1].id
        <5>1. queueIn[i - n + 1].id <= Top'
          BY <1>m, <2>11, <4>2
        <5>2. ASSUME NEW j \in 1..Len(queueIn')
              PROVE  queueIn[i - n + 1].id < queueIn'[j].id
          <6>1. i - n + 1 < r + j
            BY <2>6, <2>7, <4>2
          <6>2. r + j \in 1..Len(queueIn) /\ queueIn'[j] = queueIn[r + j]
            BY <2>7
          <6> QED
            BY <2>10, <4>2, <6>1, <6>2
        <5> QED
          BY <4>2, <5>1, <5>2
      <4> QED
        BY <3>4, <4>1, <4>2
    <3> QED
      BY <1>i, <2>1, <2>9, <2>12, <3>5, <3>6
  <2> QED
    BY <2>5, <2>13, <2>14
<1> QED
  BY <1>u, <1>1, <1>2, <1>3, <1>4, <1>5, <1>6, <1>7, <1>8, <1>9, <1>10, <1>11, <1>12, <1>13, <1>14, <1>15, <1>16, <1>17, <1>18, <1>19, <1>20, <1>21, <1>22
     DEF Next, SpeakerStep, ControllerStep, CancellerStep, CallbackStep
-----------------------------------------------------------------------------
(* What the first Abort leaves to play.  When it does not reset the driver  *)
(* the queue is empty, so nothing was sounding.                             *)
LEMMA SilentStep ==
  TypeInv /\ PauseInv /\ OrderInv /\ AbortSilences /\ [Next]_vars => AbortSilences'
<1> SUFFICES ASSUME TypeInv, PauseInv, OrderInv, AbortSilences, [Next]_vars,
                    aborts' <= 1, aborted'
             PROVE  hwQueue' = <<>>
  BY DEF AbortSilences
<1>t. aborts \in Nat /\ hwQueue \in Seq(1..MaxItems) /\ hwDone \in Seq(1..MaxItems)
  BY BoundsAreNat DEF TypeInv, TypeOK
<1>f. aborted => speaker # "write"
  BY DEF PauseInv, FlagsHold
<1>q. ASSUME UNCHANGED <<hwQueue, aborted, aborts>>
      PROVE  hwQueue' = <<>>
  BY <1>q DEF AbortSilences
<1>u. CASE UNCHANGED vars
  BY <1>u, <1>q DEF vars, devVars, hwVars, counters
<1>1. CASE BeginAsserts
  BY <1>1, <1>q DEF BeginAsserts, devVars, hwVars, counters
<1>2. CASE BeginSet
  BY <1>2, <1>q DEF BeginSet, devVars, hwVars, counters
<1>3. CASE PlayQueue
  BY <1>3, <1>q DEF PlayQueue, devVars, hwVars, counters
<1>4. CASE PlayFails
  BY <1>4, <1>q DEF PlayFails, devVars, hwVars, counters
<1>5. CASE InjectTest
  BY <1>5, <1>q DEF InjectTest, devVars, hwVars, counters
<1>6. CASE InjectLocked
  BY <1>6, <1>q DEF InjectLocked, devVars, hwVars, counters
<1>7. CASE Finish
  BY <1>7, <1>q DEF Finish, devVars, hwVars, counters
<1>8. CASE WaitUntilDone
  BY <1>8, <1>q DEF WaitUntilDone, devVars, hwVars, counters
<1>9. CASE EndCheck
  BY <1>9, <1>q DEF EndCheck, devVars, hwVars, counters
<1>10. CASE Pause
  BY <1>10, <1>q DEF Pause, devVars, hwVars, counters
<1>11. CASE ResumeRestart
  BY <1>11, <1>q DEF ResumeRestart, devVars, hwVars, counters
<1>12. CASE ResumeClear
  BY <1>12, <1>q DEF ResumeClear, devVars, hwVars, counters
<1>13. CASE AbortReturn
  BY <1>13, <1>q DEF AbortReturn, devVars, hwVars, counters
<1>14. CASE CallbackLocked
  BY <1>14, <1>q DEF CallbackLocked, devVars, hwVars, counters
<1>15. CASE CallbackTest
  BY <1>15, <1>q DEF CallbackTest, devVars, hwVars, counters
<1>16. CASE CallbackSet
  BY <1>16, <1>q DEF CallbackSet, devVars, hwVars, counters
<1>17. CASE BeginOpen
  BY <1>17 DEF BeginOpen
<1>18. CASE ClearAborted
  BY <1>18 DEF ClearAborted
<1>19. CASE PlayWrite
  <2>1. aborted /\ speaker = "write"
    BY <1>19 DEF PlayWrite
  <2> QED
    BY <1>f, <2>1
<1>20. CASE EndClose
  <2>1. hwQueue' = <<>> \/ hwQueue' = hwQueue
    BY <1>20 DEF EndClose, WaveOutReset
  <2>2. UNCHANGED <<aborted, aborts>>
    BY <1>20 DEF EndClose, counters
  <2> QED
    BY <1>q, <2>1, <2>2
<1>21. CASE HwPlay
  <2>1. UNCHANGED <<aborted, aborts>> /\ hwQueue # <<>>
    BY <1>21 DEF HwPlay, devVars, counters
  <2> QED
    BY <2>1 DEF AbortSilences
<1>22. CASE AbortReset
  <2>1. aborts = 0 /\ owner = Nobody
    BY <1>22, <1>t DEF AbortReset
  <2>2. CASE queueIn # <<>>
    BY <1>22, <2>2 DEF AbortReset, AbortResets, WaveOutReset
  <2>3. CASE queueIn = <<>>
    <3>1. hwQueue' = hwQueue
      BY <1>22, <2>3 DEF AbortReset, AbortResets
    <3>2. Tidy(queueIn, Sounding)
      BY <2>1 DEF OrderInv
    <3>3. speaker # "write"
      BY <2>1 DEF PauseInv, LockHeld, Nobody
    <3>4. Sounding \in Seq(1..MaxItems) /\ Sounding = hwDone \o hwQueue
      BY <3>3, SoundingFacts
    <3>5. Sounding = <<>>
      <4>1. queueIn \in Seq(Item)
        BY DEF TypeInv, TypeOK
      <4>2. Sounding # <<>> => queueIn # <<>>
        BY <2>3, <3>2, <3>4, <4>1, TidyHead
      <4> QED
        BY <2>3, <4>2
    <3>6. hwDone \o hwQueue = <<>>
      BY <3>4, <3>5
    <3>7. hwQueue = <<>>
      BY <1>t, <3>6, ConcatEqualIffEmpty
    <3> QED
      BY <3>1, <3>7
  <2> QED
    BY <2>2, <2>3
<1> QED
  BY <1>u, <1>1, <1>2, <1>3, <1>4, <1>5, <1>6, <1>7, <1>8, <1>9, <1>10, <1>11, <1>12, <1>13, <1>14, <1>15, <1>16, <1>17, <1>18, <1>19, <1>20, <1>21, <1>22
     DEF Next, SpeakerStep, ControllerStep, CancellerStep, CallbackStep

(* All that is inductive, and it holds of every reachable state.            *)
LEMMA AllInvariant == Spec => []AllInv
<1>1. Init => AllInv
  <2> SUFFICES ASSUME Init PROVE AllInv
    OBVIOUS
  <2>1. TypeInv
    BY InitTyped
  <2>2. PauseInv
    BY DEF Init, PauseInv, LockHeld, FlagsHold, ResumeHolds, PauseHolds, Nobody
  <2>3. AbortSilences
    BY DEF Init, AbortSilences
  <2>4. queueIn = <<>> /\ dispatched = <<>> /\ hwDone = <<>> /\ hwQueue = <<>> /\ speaker = "idle"
    BY DEF Init
  <2>5. Sounding = <<>> \o <<>>
    BY <2>1, <2>4, SoundingFacts
  <2>6. Sounding = <<>>
    <3>1. <<>> \in Seq(1..MaxItems)
      BY EmptySeq
    <3> QED
      BY <2>5, <3>1, ConcatEmptySeq
  <2>7. Len(queueIn) = 0 /\ Len(dispatched) = 0 /\ Len(Sounding) = 0
    BY <2>4, <2>6
  <2>8. Tidy(queueIn, Sounding)
    <3>1. queueIn \in Seq(Item) /\ Sounding \in Seq(1..MaxItems)
      BY <2>1, SoundingFacts DEF TypeInv, TypeOK
    <3>2. /\ \A i \in 1..Len(queueIn) : FALSE
          /\ \A i \in 1..Len(Sounding) : FALSE
      BY <2>7
    <3> QED
      BY <3>1, <3>2, TidyMeans
  <2>9. OrderInv
    <3>1. CASE aborts = 0
      BY <2>1, <2>7, <2>8, <3>1, OrderMeans
    <3> QED
      BY <3>1 DEF OrderInv
  <2> QED
    BY <2>1, <2>2, <2>3, <2>9 DEF AllInv, SilentInv
<1>2. AllInv /\ [Next]_vars => AllInv'
  BY TypeStep, PauseStep, OrderStep, SilentStep DEF AllInv, SilentInv
<1> QED
  BY <1>1, <1>2, PTL DEF Spec

(***************************************************************************)
(* The item queue stays in step with the driver, and events are dispatched *)
(* in the order of their injection, behind the audio queued before them,   *)
(* however Play, InjectEvent, failed writes, pauses and the callbacks      *)
(* interleave, as long as nobody aborts.                                   *)
(***************************************************************************)
THEOREM QueueInStep == Spec => []InStep
<1>1. AllInv => InStep
  <2> SUFFICES ASSUME AllInv, aborts = 0
               PROVE  /\ Increasing(Ids(queueIn)) /\ Increasing(Sounding)
                      /\ BufferIds(queueIn) = Elements(Sounding)
                      /\ hwDone # <<>> => queueIn # <<>> /\ Head(queueIn) = Buffer(Head(hwDone))
                      /\ Increasing(dispatched)
                      /\ \A e \in Elements(dispatched), b \in Elements(hwQueue) : e < b
    BY DEF InStep
  <2>1. TypeInv /\ OrderInv
    BY DEF AllInv, SilentInv
  <2>2. /\ queueIn \in Seq(Item) /\ hwDone \in Seq(1..MaxItems) /\ hwQueue \in Seq(1..MaxItems)
        /\ dispatched \in Seq(1..MaxItems) /\ Sounding \in Seq(1..MaxItems)
    BY <2>1, SoundingFacts DEF TypeInv, TypeOK
  <2>3. /\ Tidy(queueIn, Sounding) /\ Increasing(dispatched)
        /\ \A i \in 1..Len(dispatched), j \in 1..Len(queueIn) : dispatched[i] < queueIn[j].id
    BY <2>1, OrderMeans DEF OrderInv
  <2>4. ASSUME hwDone # <<>>
        PROVE  queueIn # <<>> /\ Head(queueIn) = Buffer(Head(hwDone))
    <3>1. hwDone \o hwQueue # <<>> /\ (hwDone \o hwQueue)[1] = Head(hwDone)
      BY <2>2, <2>4, TailOfConcat
    <3>2. hwDone \o hwQueue \in Seq(1..MaxItems) /\ Written \in Seq(1..MaxItems)
      BY <2>1, SoundingFacts
    <3>3. Sounding # <<>> /\ Sounding[1] = Head(hwDone \o hwQueue)
      <4>1. /\ (hwDone \o hwQueue) \o Written # <<>>
            /\ ((hwDone \o hwQueue) \o Written)[1] = Head(hwDone \o hwQueue)
        BY <3>1, <3>2, TailOfConcat
      <4>2. Sounding = (hwDone \o hwQueue) \o Written
        BY <2>1, SoundingFacts
      <4> QED
        BY <4>1, <4>2
    <3>4. Sounding[1] = Head(hwDone)
      BY <3>1, <3>2, <3>3
    <3>5. queueIn # <<>> /\ queueIn[1] = Buffer(Sounding[1])
      BY <2>1, <2>2, <2>3, <3>3, TidyHead DEF TypeInv, HeadIsBuffer
    <3> QED
      BY <2>2, <3>4, <3>5
  <2>5. ASSUME NEW e \in Elements(dispatched), NEW b \in Elements(hwQueue)
        PROVE  e < b
    <3>1. PICK i \in 1..Len(dispatched) : e = dispatched[i]
      BY <2>2 DEF Elements
    <3>2. PICK k \in 1..Len(hwQueue) : b = hwQueue[k]
      BY <2>2 DEF Elements
    <3>3. Len(hwDone) \in Nat /\ Len(hwQueue) \in Nat /\ Len(Written) \in Nat
      BY <2>1, <2>2, SoundingFacts
    <3> DEFINE u == hwDone \o hwQueue
               m == Len(hwDone) + k
    <3>4. /\ u \in Seq(1..MaxItems) /\ Len(u) = Len(hwDone) + Len(hwQueue)
          /\ \A l \in 1..Len(hwDone) + Len(hwQueue) :
               u[l] = IF l <= Len(hwDone) THEN hwDone[l] ELSE hwQueue[l - Len(hwDone)]
      BY <2>2, ConcatProperties
    <3> HIDE DEF u
    <3>5. m \in 1..Len(u) /\ ~(m <= Len(hwDone)) /\ m - Len(hwDone) = k
      BY <3>3, <3>4
    <3>6. u[m] = b
      BY <3>2, <3>4, <3>5
    <3>7. Written \in Seq(1..MaxItems) /\ Sounding = u \o Written
      BY <2>1, SoundingFacts DEF u
    <3>8. /\ Len(Sounding) = Len(u) + Len(Written)
          /\ \A l \in 1..Len(u) + Len(Written) :
               Sounding[l] = IF l <= Len(u) THEN u[l] ELSE Written[l - Len(u)]
      <4>1. /\ Len(u \o Written) = Len(u) + Len(Written)
            /\ \A l \in 1..Len(u) + Len(Written) :
                 (u \o Written)[l] = IF l <= Len(u) THEN u[l] ELSE Written[l - Len(u)]
        <5>1. u \in Seq(1..MaxItems) /\ Written \in Seq(1..MaxItems)
          BY <3>4, <3>7
        <5> QED
          BY <5>1, ConcatProperties
      <4> QED
        BY <3>7, <4>1
    <3>9. m \in 1..Len(Sounding) /\ Sounding[m] = b
      BY <3>3, <3>4, <3>5, <3>6, <3>8
    <3>10. PICK j \in 1..Len(queueIn) : queueIn[j].id = Sounding[m]
      BY <2>2, <2>3, <3>9, TidyMeans
    <3> QED
      BY <2>3, <3>1, <3>9, <3>10
  <2> QED
    BY <2>3, <2>4, <2>5 DEF Tidy
<1> QED
  BY <1>1, AllInvariant, PTL

(***************************************************************************)
(* Once Abort() has been called for the first time nothing is left for the *)
(* driver to play until the flag is cleared, also when Abort found the     *)
(* queue empty and did not call waveOutReset.                              *)
(***************************************************************************)
THEOREM FirstAbortSilences == Spec => []AbortSilences
<1>1. AllInv => AbortSilences
  BY DEF AllInv, SilentInv
<1> QED
  BY <1>1, AllInvariant, PTL
=============================================================================
