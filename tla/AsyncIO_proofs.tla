--------------------------- MODULE AsyncIO_proofs ---------------------------
(***************************************************************************)
(* Proofs about AsyncIO, for any number of threads, workers, files, queues *)
(* and tasks.                                                              *)
(***************************************************************************)
EXTENDS AsyncIO, Selection_proofs, SequenceTheorems

-----------------------------------------------------------------------------
(* Where a task is.  A started task is in asyncio->tasks or in the hands of *)
(* a thread, which counts in tasks_inflight; a busy one is in the pool, run *)
(* by a worker, or completed.                                               *)
Holding == {"queue", "outcome", "destroy", "release"}
Distinct(s) == \A i, j \in DOMAIN s : s[i] = s[j] => i = j

InHand(t) == \E c \in Thread : held[c] = t
InWork(t) == \E w \in Worker : working[w] = t
InDone(t) == \E q \in Queue : t \in Elements(completed[q])
Busy(t) == t \in Elements(pool) \/ InWork(t) \/ InDone(t)
Listed(t) == t \in live /\ t \in tasks[of[t]]
Started(t) == t \in tasks[of[t]] \/ InHand(t)

(* The pool: its threads and its flags. *)
PoolInv ==
  /\ stop <=> init = "quitting"
  /\ init = "yes" => \E w \in Worker : Running(w)
  /\ init = "no" => \A w \in Worker : ~Running(w)
  /\ pool # <<>> => \A w \in Worker : worker[w] # "asleep"

(* The call of a thread, and the task it has in hand. *)
CallInv(c) ==
  /\ held[c] # None <=> at[c] \in Holding
  /\ held[c] # None => held[c] \in live /\ using[c].queue = to[held[c]]
  /\ at[c] \notin {"idle", "quit", "join"} => using[c].queue \in Queue
  /\ at[c] \in {"read", "close", "queue"} => queue[using[c].queue] = "open"
  /\ at[c] = "drain" => queue[using[c].queue] \in {"dying", "freed"}
  /\ at[c] \in {"queue", "outcome"} => held[c] \in tasks[of[held[c]]]
  /\ at[c] \in {"destroy", "release"} => held[c] \notin tasks[of[held[c]]]
  /\ at[c] = "destroy" => closing[of[held[c]]] = held[c]
  /\ at[c] = "queue" => closing[of[held[c]]] # held[c]

ThreadInv == \A c \in Thread : CallInv(c)
HandInv == \A c, d \in Thread : held[c] = held[d] /\ held[c] # None => c = d

(* A task that is not started is a close that waits. *)
LiveInv ==
  /\ live \cap fresh = {}
  /\ \A t \in live : of[t] \in File /\ to[t] \in Queue
  /\ \A t \in fresh : of[t] = None
  /\ \A t \in live : Started(t) \/ closing[of[t]] = t

(* The close of a file is alone once it is in the list, and waits as long   *)
(* as others are.                                                           *)
FileInv ==
  \A f \in File :
    /\ \A t \in tasks[f] : t \in live /\ of[t] = f
    /\ closing[f] # None =>
         /\ closing[f] \notin fresh /\ of[closing[f]] = f
         /\ closing[f] \in tasks[f] => tasks[f] = {closing[f]}
         /\ closing[f] \notin tasks[f] =>
              (tasks[f] # {} <=> closing[f] \in live /\ ~InHand(closing[f]))

(* A busy task is in one place. *)
PlaceInv ==
  /\ Distinct(pool)
  /\ \A q \in Queue : Distinct(completed[q])
  /\ \A w, v \in Worker : working[w] = working[v] /\ working[w] # None => w = v
  /\ \A w \in Worker : worker[w] = "io" <=> working[w] # None
  /\ \A t \in Elements(pool) : ~InWork(t)
  /\ \A q \in Queue : \A t \in Elements(completed[q]) :
       to[t] = q /\ ~InWork(t) /\ t \notin Elements(pool)

BusyInv == \A t \in Task : Busy(t) => Listed(t) /\ ~InHand(t)

Counts(q) == {t \in live : to[t] = q /\ Started(t)}
CountInv == \A q \in Queue : inflight[q] = Cardinality(Counts(q))

(* All but what concerns the pool's own threads and flags. *)
CoreInv ==
  /\ TypeOK /\ ThreadInv /\ HandInv /\ LiveInv /\ FileInv
  /\ PlaceInv /\ BusyInv /\ CountInv

IInv == CoreInv /\ PoolInv

-----------------------------------------------------------------------------
(* Sequences as the sets of their elements.                                 *)
LEMMA ElementsTyped ==
  ASSUME NEW T, NEW s \in Seq(T)
  PROVE  /\ \A x : x \in Elements(s) <=> \E i \in 1..Len(s) : x = s[i]
         /\ Elements(s) \subseteq T
         /\ Elements(s) = {} <=> s = <<>>
         /\ Distinct(s) <=> \A i, j \in 1..Len(s) : s[i] = s[j] => i = j
<1>1. DOMAIN s = 1..Len(s) /\ Len(s) \in Nat
  OBVIOUS
<1>2. \A i \in 1..Len(s) : s[i] \in T
  OBVIOUS
<1>3. \A x : x \in Elements(s) <=> \E i \in 1..Len(s) : x = s[i]
  BY <1>1 DEF Elements
<1>4. Elements(s) \subseteq T
  BY <1>2, <1>3
<1>5. ASSUME s # <<>> PROVE Elements(s) # {}
  <2>1. Len(s) # 0
    BY <1>5, EmptySeq
  <2>2. 1 \in 1..Len(s)
    BY <1>1, <2>1
  <2> QED
    BY <1>3, <2>2
<1>6. ASSUME s = <<>> PROVE Elements(s) = {}
  <2>1. Len(s) = 0
    BY <1>6
  <2>2. 1..Len(s) = {}
    BY <2>1
  <2> QED
    BY <1>3, <2>2
<1>7. Distinct(s) <=> \A i, j \in 1..Len(s) : s[i] = s[j] => i = j
  BY <1>1, Zenon DEF Distinct
<1> QED
  BY <1>3, <1>4, <1>5, <1>6, <1>7

(* Taking the first element. *)
LEMMA TailSet ==
  ASSUME NEW T, NEW s \in Seq(T), s # <<>>
  PROVE  /\ Head(s) \in T /\ Head(s) \in Elements(s) /\ Tail(s) \in Seq(T)
         /\ Len(Tail(s)) = Len(s) - 1
         /\ Distinct(s) => Distinct(Tail(s)) /\ Elements(Tail(s)) = Elements(s) \ {Head(s)}
<1>1. /\ Head(s) = s[1] /\ Tail(s) \in Seq(T) /\ Len(Tail(s)) = Len(s) - 1
      /\ \A i \in 1..Len(Tail(s)) : Tail(s)[i] = s[i + 1]
  BY HeadTailProperties
<1>2. Len(s) \in Nat /\ Len(s) # 0
  BY EmptySeq
<1>3. 1 \in 1..Len(s) /\ s[1] \in T
  <2>1. 1 \in 1..Len(s)
    BY <1>2
  <2> QED
    BY <2>1, ElementOfSeq
<1> DEFINE u == Tail(s)
<1>4. /\ u \in Seq(T) /\ Len(u) = Len(s) - 1
      /\ \A i \in 1..Len(u) : u[i] = s[i + 1]
  BY <1>1
<1> HIDE DEF u
<1>5. /\ \A x : x \in Elements(s) <=> \E i \in 1..Len(s) : x = s[i]
      /\ \A x : x \in Elements(u) <=> \E i \in 1..Len(u) : x = u[i]
      /\ Distinct(s) <=> \A i, j \in 1..Len(s) : s[i] = s[j] => i = j
      /\ Distinct(u) <=> \A i, j \in 1..Len(u) : u[i] = u[j] => i = j
  BY <1>4, ElementsTyped
<1>6. ASSUME Distinct(s) PROVE Distinct(u)
  <2>1. ASSUME NEW i \in 1..Len(u), NEW j \in 1..Len(u), u[i] = u[j] PROVE i = j
    <3>1. i + 1 \in 1..Len(s) /\ j + 1 \in 1..Len(s) /\ s[i + 1] = s[j + 1]
      BY <1>2, <1>4, <2>1
    <3>2. i + 1 = j + 1
      BY <1>5, <1>6, <3>1
    <3> QED
      BY <3>2
  <2> QED
    BY <1>5, <2>1
<1>7. ASSUME Distinct(s) PROVE Elements(u) = Elements(s) \ {s[1]}
  <2>1. ASSUME NEW x \in Elements(u) PROVE x \in Elements(s) /\ x # s[1]
    <3>1. PICK i \in 1..Len(u) : x = u[i]
      BY <1>5
    <3>2. i + 1 \in 1..Len(s) /\ i + 1 # 1 /\ x = s[i + 1]
      BY <1>2, <1>4, <3>1
    <3>3. s[i + 1] # s[1]
      BY <1>3, <1>5, <1>7, <3>2
    <3> QED
      BY <1>5, <3>2, <3>3
  <2>2. ASSUME NEW x \in Elements(s), x # s[1] PROVE x \in Elements(u)
    <3>1. PICK i \in 1..Len(s) : x = s[i]
      BY <1>5
    <3>2. i # 1
      BY <2>2, <3>1
    <3>3. i - 1 \in 1..Len(u) /\ i - 1 + 1 = i
      BY <1>2, <1>4, <3>2
    <3>4. u[i - 1] = s[i]
      BY <1>4, <3>3
    <3> QED
      BY <1>5, <3>1, <3>3, <3>4
  <2> QED
    BY <2>1, <2>2
<1>8. s[1] \in Elements(s)
  BY <1>3, <1>5
<1> QED
  BY <1>1, <1>3, <1>6, <1>7, <1>8 DEF u

(* Putting one sequence before another. *)
LEMMA ConcatSet ==
  ASSUME NEW T, NEW s \in Seq(T), NEW r \in Seq(T)
  PROVE  /\ s \o r \in Seq(T) /\ Len(s \o r) = Len(s) + Len(r)
         /\ Elements(s \o r) = Elements(s) \cup Elements(r)
         /\ Distinct(s) /\ Distinct(r) /\ Elements(s) \cap Elements(r) = {}
              => Distinct(s \o r)
<1> DEFINE u == s \o r
<1>1. /\ u \in Seq(T) /\ Len(u) = Len(s) + Len(r)
      /\ \A i \in 1..(Len(s) + Len(r)) :
           u[i] = IF i <= Len(s) THEN s[i] ELSE r[i - Len(s)]
  BY ConcatProperties
<1> HIDE DEF u
<1>2. Len(s) \in Nat /\ Len(r) \in Nat
  OBVIOUS
<1>3. /\ \A i \in 1..Len(s) : i \in 1..Len(u) /\ u[i] = s[i]
      /\ \A i \in 1..Len(r) : i + Len(s) \in 1..Len(u) /\ u[i + Len(s)] = r[i]
  <2>1. ASSUME NEW i \in 1..Len(s) PROVE i \in 1..Len(u) /\ u[i] = s[i]
    BY <1>1, <1>2
  <2>2. ASSUME NEW i \in 1..Len(r)
        PROVE  i + Len(s) \in 1..Len(u) /\ u[i + Len(s)] = r[i]
    <3>1. /\ i + Len(s) \in 1..(Len(s) + Len(r)) /\ ~(i + Len(s) <= Len(s))
          /\ i + Len(s) - Len(s) = i
      BY <1>2
    <3> QED
      BY <1>1, <3>1
  <2> QED
    BY <2>1, <2>2
<1>4. \A i \in 1..Len(u) : \/ i \in 1..Len(s) /\ u[i] = s[i]
                           \/ /\ i - Len(s) \in 1..Len(r) /\ u[i] = r[i - Len(s)]
                              /\ i > Len(s)
  BY <1>1, <1>2
<1>5. /\ \A x : x \in Elements(s) <=> \E i \in 1..Len(s) : x = s[i]
      /\ \A x : x \in Elements(r) <=> \E i \in 1..Len(r) : x = r[i]
      /\ \A x : x \in Elements(u) <=> \E i \in 1..Len(u) : x = u[i]
      /\ Distinct(s) <=> \A i, j \in 1..Len(s) : s[i] = s[j] => i = j
      /\ Distinct(r) <=> \A i, j \in 1..Len(r) : r[i] = r[j] => i = j
      /\ Distinct(u) <=> \A i, j \in 1..Len(u) : u[i] = u[j] => i = j
  BY <1>1, ElementsTyped
<1>6. Elements(u) = Elements(s) \cup Elements(r)
  <2>1. ASSUME NEW x \in Elements(u) PROVE x \in Elements(s) \cup Elements(r)
    <3>1. PICK i \in 1..Len(u) : x = u[i]
      BY <1>5
    <3>2. CASE i \in 1..Len(s) /\ u[i] = s[i]
      BY <1>5, <3>1, <3>2
    <3>3. CASE i - Len(s) \in 1..Len(r) /\ u[i] = r[i - Len(s)]
      BY <1>5, <3>1, <3>3
    <3> QED
      BY <1>4, <3>2, <3>3
  <2>2. ASSUME NEW x \in Elements(s) PROVE x \in Elements(u)
    <3>1. PICK i \in 1..Len(s) : x = s[i]
      BY <1>5
    <3>2. i \in 1..Len(u) /\ u[i] = x
      BY <1>3, <3>1
    <3> QED
      BY <1>5, <3>2
  <2>3. ASSUME NEW x \in Elements(r) PROVE x \in Elements(u)
    <3>1. PICK i \in 1..Len(r) : x = r[i]
      BY <1>5
    <3>2. i + Len(s) \in 1..Len(u) /\ u[i + Len(s)] = x
      BY <1>3, <3>1
    <3> QED
      BY <1>5, <3>2
  <2> QED
    BY <2>1, <2>2, <2>3
<1>7. ASSUME Distinct(s), Distinct(r), Elements(s) \cap Elements(r) = {}
      PROVE  Distinct(u)
  <2>1. \A i \in 1..Len(s), j \in 1..Len(r) : s[i] # r[j]
    BY <1>5, <1>7
  <2>2. ASSUME NEW i \in 1..Len(u), NEW j \in 1..Len(u), u[i] = u[j] PROVE i = j
    <3>1. CASE i \in 1..Len(s) /\ j \in 1..Len(s)
      <4>1. u[i] = s[i] /\ u[j] = s[j]
        BY <1>3, <3>1
      <4> QED
        BY <1>5, <1>7, <2>2, <3>1, <4>1
    <3>2. CASE i \in 1..Len(s) /\ j \notin 1..Len(s)
      BY <1>4, <2>1, <2>2, <3>2
    <3>3. CASE i \notin 1..Len(s) /\ j \in 1..Len(s)
      BY <1>4, <2>1, <2>2, <3>3
    <3>4. CASE i \notin 1..Len(s) /\ j \notin 1..Len(s)
      <4>1. /\ i - Len(s) \in 1..Len(r) /\ u[i] = r[i - Len(s)]
            /\ j - Len(s) \in 1..Len(r) /\ u[j] = r[j - Len(s)]
        BY <1>4, <3>4
      <4>2. i - Len(s) = j - Len(s)
        BY <1>5, <1>7, <2>2, <4>1
      <4> QED
        BY <1>2, <4>2
    <3> QED
      BY <3>1, <3>2, <3>3, <3>4
  <2> QED
    BY <1>5, <2>2
<1> QED
  BY <1>1, <1>6, <1>7 DEF u

(* Putting one element at the front. *)
LEMMA ConsSet ==
  ASSUME NEW T, NEW s \in Seq(T), NEW x \in T
  PROVE  /\ <<x>> \o s \in Seq(T) /\ Len(<<x>> \o s) = Len(s) + 1
         /\ <<x>> \o s # <<>>
         /\ Elements(<<x>> \o s) = {x} \cup Elements(s)
         /\ Distinct(s) /\ x \notin Elements(s) => Distinct(<<x>> \o s)
<1> DEFINE r == <<x>>
<1>1. r \in Seq(T) /\ Len(r) = 1 /\ r[1] = x
  OBVIOUS
<1> HIDE DEF r
<1>2. Elements(r) = {x} /\ Distinct(r)
  <2>1. /\ \A y : y \in Elements(r) <=> \E i \in 1..Len(r) : y = r[i]
        /\ Distinct(r) <=> \A i, j \in 1..Len(r) : r[i] = r[j] => i = j
    BY <1>1, ElementsTyped
  <2>2. 1..Len(r) = {1}
    BY <1>1
  <2> QED
    BY <1>1, <2>1, <2>2
<1>3. /\ r \o s \in Seq(T) /\ Len(r \o s) = Len(r) + Len(s)
      /\ Elements(r \o s) = Elements(r) \cup Elements(s)
      /\ Distinct(r) /\ Distinct(s) /\ Elements(r) \cap Elements(s) = {}
           => Distinct(r \o s)
  BY <1>1, ConcatSet
<1>4. Elements(r \o s) # {}
  BY <1>2, <1>3
<1>5. r \o s # <<>>
  BY <1>3, <1>4, ElementsTyped
<1>6. Len(r \o s) = Len(s) + 1
  <2>1. Len(s) \in Nat
    OBVIOUS
  <2> QED
    BY <1>1, <1>3, <2>1
<1> QED
  BY <1>2, <1>3, <1>5, <1>6 DEF r

(* The tasks ShutdownThreadpool cancels for a queue: those of the pool that *)
(* go to it, each once.                                                     *)
LEMMA CancelledFacts ==
  ASSUME pool \in Seq(Task), NEW q
  PROVE  /\ Cancelled(q) \in Seq(Task)
         /\ Elements(Cancelled(q)) = {t \in Elements(pool) : to[t] = q}
         /\ Distinct(pool) => Distinct(Cancelled(q))
<1> DEFINE n == Len(pool)
           u == [i \in 1..n |-> pool[n + 1 - i]]
           I == {i \in 1..n : to[pool[n + 1 - i]] = q}
<1>1. n \in Nat /\ \A i \in 1..n : n + 1 - i \in 1..n /\ n + 1 - (n + 1 - i) = i
  OBVIOUS
<1>2. \A i \in 1..n : pool[i] \in Task
  OBVIOUS
<1>3. u \in Seq(Task) /\ Len(u) = n /\ \A i \in 1..n : u[i] = pool[n + 1 - i]
  <2>1. \A i \in 1..n : pool[n + 1 - i] \in Task
    BY <1>1, <1>2
  <2>2. u \in [1..n -> Task]
    BY <2>1
  <2> QED
    BY <1>1, <2>2
<1>4. I \subseteq 1..n /\ \A i \in 1..n : i \in I <=> to[pool[n + 1 - i]] = q
  OBVIOUS
<1>5. Cancelled(q) = Select(u, I)
  BY DEF Cancelled
<1>6. \A x : x \in Elements(pool) <=> \E i \in 1..n : x = pool[i]
  BY ElementsTyped
<1>7. Distinct(pool) <=> \A i, j \in 1..n : pool[i] = pool[j] => i = j
  BY ElementsTyped
<1> HIDE DEF n, u, I
<1>8. I \in SUBSET (1..Len(u))
  BY <1>3, <1>4
<1>9. /\ Select(u, I) \in Seq(Task)
      /\ \A k \in 1..Len(Select(u, I)) : \E i \in I : Select(u, I)[k] = u[i]
      /\ \A i \in I : \E k \in 1..Len(Select(u, I)) : Select(u, I)[k] = u[i]
  <2>1. u \in Seq(Task)
    BY <1>3
  <2> QED
    BY <1>8, <2>1, SelectFacts
<1>10. \A x : x \in Elements(Select(u, I)) <=> \E i \in I : x = u[i]
  <2>1. \A x : x \in Elements(Select(u, I)) <=>
                 \E k \in 1..Len(Select(u, I)) : x = Select(u, I)[k]
    BY <1>9, ElementsTyped
  <2>2. ASSUME NEW x \in Elements(Select(u, I)) PROVE \E i \in I : x = u[i]
    <3>1. PICK k \in 1..Len(Select(u, I)) : x = Select(u, I)[k]
      BY <2>1
    <3> QED
      BY <1>9, <3>1
  <2>3. ASSUME NEW i \in I PROVE u[i] \in Elements(Select(u, I))
    <3>1. PICK k \in 1..Len(Select(u, I)) : Select(u, I)[k] = u[i]
      BY <1>9
    <3> QED
      BY <2>1, <3>1
  <2> QED
    BY <2>2, <2>3
<1>11. ASSUME NEW i \in I PROVE u[i] \in Elements(pool) /\ to[u[i]] = q
  <2>1. i \in 1..n /\ u[i] = pool[n + 1 - i] /\ n + 1 - i \in 1..n
    BY <1>1, <1>3, <1>4
  <2> QED
    BY <1>4, <1>6, <2>1
<1>12. ASSUME NEW t \in Elements(pool), to[t] = q PROVE \E i \in I : t = u[i]
  <2>1. PICK i \in 1..n : t = pool[i]
    BY <1>6
  <2>2. n + 1 - i \in 1..n /\ pool[n + 1 - (n + 1 - i)] = t
    BY <1>1, <2>1
  <2>3. n + 1 - i \in I /\ u[n + 1 - i] = t
    BY <1>3, <1>4, <1>12, <2>2
  <2> QED
    BY <2>3
<1>13. Elements(Select(u, I)) = {t \in Elements(pool) : to[t] = q}
  <2>1. ASSUME NEW x \in Elements(Select(u, I)) PROVE x \in Elements(pool) /\ to[x] = q
    BY <1>10, <1>11
  <2>2. ASSUME NEW x \in Elements(pool), to[x] = q PROVE x \in Elements(Select(u, I))
    BY <1>10, <1>12, <2>2
  <2> QED
    BY <2>1, <2>2
<1>14. ASSUME Distinct(pool) PROVE Distinct(Select(u, I))
  <2>1. ASSUME NEW i \in I, NEW j \in I, u[i] = u[j] PROVE i = j
    <3>1. /\ i \in 1..n /\ u[i] = pool[n + 1 - i] /\ n + 1 - i \in 1..n
          /\ j \in 1..n /\ u[j] = pool[n + 1 - j] /\ n + 1 - j \in 1..n
      BY <1>1, <1>3, <1>4
    <3>2. n + 1 - i = n + 1 - j
      BY <1>7, <1>14, <2>1, <3>1
    <3> QED
      BY <1>1, <3>1, <3>2
  <2>2. \A k, l \in 1..Len(Select(u, I)) : Select(u, I)[k] = Select(u, I)[l] => k = l
    BY <1>3, <1>8, <2>1, SelectDistinct
  <2> QED
    BY <1>9, <2>2, ElementsTyped
<1> QED
  BY <1>5, <1>9, <1>13, <1>14

-----------------------------------------------------------------------------
(* Wake-ups.  The places of threads and workers.                            *)
Place == {"idle", "read", "close", "queue", "asleep", "woken", "outcome",
          "destroy", "release", "drain", "quit", "join"}
Post == {"off", "loop", "io", "asleep", "woken", "late"}

(* A completed task wakes one thread that waits on its queue, or nobody.    *)
LEMMA WakesFacts ==
  ASSUME NEW q, NEW a \in [Thread -> Place], at' \in Wakes(q, a)
  PROVE  /\ at' \in [Thread -> Place]
         /\ \A d \in Thread : at'[d] = a[d] \/ (d \in Asleep(q) /\ at'[d] = "woken")
<1>1. CASE at' = a
  BY <1>1
<1>2. CASE \E c \in Asleep(q) : at' = [a EXCEPT ![c] = "woken"]
  <2>1. PICK c \in Asleep(q) : at' = [a EXCEPT ![c] = "woken"]
    BY <1>2
  <2>2. c \in Thread
    BY DEF Asleep
  <2>3. "woken" \in Place
    BY DEF Place
  <2> QED
    BY <2>1, <2>2, <2>3
<1> QED
  BY <1>1, <1>2 DEF Wakes

(* A broadcast to the workers, with or without a new one.                   *)
LEMMA SpinFacts ==
  ASSUME worker \in [Worker -> Post], Spin
  PROVE  /\ worker' \in [Worker -> Post]
         /\ \A w \in Worker : /\ worker'[w] = "io" <=> worker[w] = "io"
                              /\ worker[w] # "off" => worker'[w] # "off"
                              /\ worker'[w] # "asleep"
                              /\ init = "no" /\ worker[w] = "off" => worker'[w] = "off"
<1>1. /\ Roused \in [Worker -> Post]
      /\ \A w \in Worker : /\ Roused[w] = "io" <=> worker[w] = "io"
                           /\ worker[w] # "off" <=> Roused[w] # "off"
                           /\ Roused[w] # "asleep"
  BY DEF Roused, Post
<1>2. CASE worker' = Roused
  BY <1>1, <1>2
<1>3. CASE WantsWorker /\ \E w \in Worker : ~Running(w) /\ worker' = [Roused EXCEPT ![w] = "loop"]
  <2>1. PICK w \in Worker : ~Running(w) /\ worker' = [Roused EXCEPT ![w] = "loop"]
    BY <1>3
  <2>2. worker[w] = "off" /\ init # "no"
    BY <1>3, <2>1 DEF Running, WantsWorker
  <2>3. "loop" \in Post
    BY DEF Post
  <2> QED
    BY <1>1, <2>1, <2>2, <2>3
<1> QED
  BY <1>2, <1>3 DEF Spin

(* The start of the pool.                                                   *)
LEMMA PrepareFacts ==
  ASSUME worker \in [Worker -> Post], PoolInv, PrepareThreadpool
  PROVE  /\ worker' \in [Worker -> Post] /\ init' \in {"no", "yes", "quitting"}
         /\ \A w \in Worker : /\ worker'[w] = "io" <=> worker[w] = "io"
                              /\ worker'[w] = "asleep" => worker[w] = "asleep"
         /\ init' = "yes" /\ (\E w \in Worker : worker'[w] # "off")
         /\ init # "quitting"
<1>1. CASE init = "yes" /\ UNCHANGED <<init, worker>>
  <2>1. \E w \in Worker : Running(w)
    BY <1>1 DEF PoolInv
  <2> QED
    BY <1>1, <2>1 DEF Running
<1>2. CASE init = "no" /\ init' = "yes" /\ \E w \in Worker : worker' = [worker EXCEPT ![w] = "loop"]
  <2>1. PICK w \in Worker : worker' = [worker EXCEPT ![w] = "loop"]
    BY <1>2
  <2>2. \A v \in Worker : worker[v] = "off"
    BY <1>2 DEF PoolInv, Running
  <2>3. "loop" \in Post
    BY DEF Post
  <2> QED
    BY <1>2, <2>1, <2>2, <2>3
<1> QED
  BY <1>1, <1>2 DEF PrepareThreadpool

-----------------------------------------------------------------------------
(* A task is handed to the pool, or completed at once when the pool stops.  *)
LEMMA QueueFacts ==
  ASSUME TypeOK, PlaceInv,
         NEW t \in Task, ~Busy(t), NEW q \in Queue,
         NEW a \in [Thread -> Place], QueueAsyncIOTask(t, q, a),
         to'[t] = q, \A u \in Task : Busy(u) => to'[u] = to[u], working' = working
  PROVE  /\ completed' \in [Queue -> Seq(Task)] /\ pool' \in Seq(Task)
         /\ worker' \in [Worker -> Post] /\ at' \in [Thread -> Place]
         /\ PlaceInv'
         /\ \A u \in Task : /\ Busy(u)' <=> Busy(u) \/ u = t
                            /\ InDone(u)' <=> InDone(u) \/ (stop /\ u = t)
         /\ \A d \in Thread : at'[d] = a[d] \/ (d \in Asleep(q) /\ at'[d] = "woken")
<1>t. /\ completed \in [Queue -> Seq(Task)] /\ pool \in Seq(Task)
      /\ worker \in [Worker -> Post]
  BY DEF TypeOK, Post
<1>p. /\ t \notin Elements(pool) /\ ~InWork(t)
      /\ \A p \in Queue : t \notin Elements(completed[p])
  BY DEF Busy, InDone
<1>w. \A u : InWork(u)' <=> InWork(u)
  BY DEF InWork
<1>b. \A u \in Elements(pool) : to'[u] = to[u]
  <2>1. Elements(pool) \subseteq Task
    BY <1>t, ElementsTyped
  <2> QED
    BY <2>1 DEF Busy
<1>d. \A p \in Queue : \A u \in Elements(completed[p]) : to'[u] = to[u]
  <2>1. ASSUME NEW p \in Queue PROVE Elements(completed[p]) \subseteq Task
    <3>1. completed[p] \in Seq(Task)
      BY <1>t
    <3> QED
      BY <3>1, ElementsTyped
  <2> QED
    BY <2>1 DEF Busy, InDone
<1>1. CASE stop /\ completed' = Completed(t, q) /\ at' \in Wakes(q, a) /\ UNCHANGED <<pool, worker>>
  <2>1. completed[q] \in Seq(Task)
    BY <1>t
  <2>2. /\ <<t>> \o completed[q] \in Seq(Task)
        /\ Elements(<<t>> \o completed[q]) = {t} \cup Elements(completed[q])
        /\ Distinct(completed[q]) /\ t \notin Elements(completed[q])
             => Distinct(<<t>> \o completed[q])
    BY <2>1, ConsSet
  <2>3. /\ completed' \in [Queue -> Seq(Task)]
        /\ completed'[q] = <<t>> \o completed[q]
        /\ \A p \in Queue : p # q => completed'[p] = completed[p]
    BY <1>1, <1>t, <2>2 DEF Completed
  <2>4. \A p \in Queue : Elements(completed'[p]) =
          (IF p = q THEN {t} ELSE {}) \cup Elements(completed[p])
    BY <2>2, <2>3
  <2>5. \A u \in Task : InDone(u)' <=> InDone(u) \/ u = t
    BY <2>4 DEF InDone
  <2>6. \A u \in Task : Busy(u)' <=> Busy(u) \/ u = t
    BY <1>1, <1>w, <2>5 DEF Busy
  <2>7. PlaceInv'
    <3>1. Distinct(pool)' /\ \A u \in Elements(pool)' : ~InWork(u)'
      BY <1>1, <1>w DEF PlaceInv, Distinct
    <3>2. \A p \in Queue : Distinct(completed'[p])
      <4>1. \A p \in Queue : Distinct(completed[p])
        BY DEF PlaceInv
      <4>2. Distinct(<<t>> \o completed[q])
        BY <1>p, <2>2, <4>1
      <4> QED
        BY <2>3, <4>1, <4>2
    <3>3. /\ \A w, v \in Worker : working'[w] = working'[v] /\ working'[w] # None => w = v
          /\ \A w \in Worker : worker'[w] = "io" <=> working'[w] # None
      BY <1>1 DEF PlaceInv
    <3>4. ASSUME NEW p \in Queue, NEW u \in Elements(completed'[p])
          PROVE  to'[u] = p /\ ~InWork(u)' /\ u \notin Elements(pool')
      <4>1. CASE u \in Elements(completed[p])
        BY <1>1, <1>d, <1>w, <4>1 DEF PlaceInv
      <4>2. CASE u = t /\ p = q
        BY <1>1, <1>p, <1>w, <4>2
      <4> QED
        BY <2>4, <3>4, <4>1, <4>2
    <3> QED
      BY <3>1, <3>2, <3>3, <3>4 DEF PlaceInv
  <2>8. /\ at' \in [Thread -> Place]
        /\ \A d \in Thread : at'[d] = a[d] \/ (d \in Asleep(q) /\ at'[d] = "woken")
    BY <1>1, WakesFacts
  <2> QED
    BY <1>1, <1>t, <2>3, <2>5, <2>6, <2>7, <2>8
<1>2. CASE ~stop /\ pool' = <<t>> \o pool /\ Spin /\ at' = a /\ UNCHANGED completed
  <2>1. /\ pool' \in Seq(Task) /\ Elements(pool') = {t} \cup Elements(pool)
        /\ Distinct(pool) /\ t \notin Elements(pool) => Distinct(pool')
    BY <1>2, <1>t, ConsSet
  <2>2. worker' \in [Worker -> Post] /\ \A w \in Worker : worker'[w] = "io" <=> worker[w] = "io"
    BY <1>2, <1>t, SpinFacts
  <2>3. \A u : InDone(u)' <=> InDone(u)
    BY <1>2 DEF InDone
  <2>4. \A u \in Task : Busy(u)' <=> Busy(u) \/ u = t
    BY <1>w, <2>1, <2>3 DEF Busy
  <2>5. PlaceInv'
    <3>1. Distinct(pool)'
      <4>1. Distinct(pool')
        BY <1>p, <2>1 DEF PlaceInv
      <4> QED
        BY <4>1 DEF Distinct
    <3>2. \A u \in Elements(pool') : ~InWork(u)'
      BY <1>p, <1>w, <2>1 DEF PlaceInv
    <3>3. \A p \in Queue : Distinct(completed'[p])
      BY <1>2 DEF PlaceInv
    <3>4. /\ \A w, v \in Worker : working'[w] = working'[v] /\ working'[w] # None => w = v
          /\ \A w \in Worker : worker'[w] = "io" <=> working'[w] # None
      BY <2>2 DEF PlaceInv
    <3>5. ASSUME NEW p \in Queue, NEW u \in Elements(completed'[p])
          PROVE  to'[u] = p /\ ~InWork(u)' /\ u \notin Elements(pool')
      <4>1. u \in Elements(completed[p]) /\ u # t
        BY <1>2, <1>p, <3>5
      <4> QED
        BY <1>d, <1>w, <2>1, <4>1 DEF PlaceInv
    <3> QED
      BY <3>1, <3>2, <3>3, <3>4, <3>5 DEF PlaceInv
  <2> QED
    BY <1>2, <1>t, <2>1, <2>2, <2>3, <2>4, <2>5
<1> QED
  BY <1>1, <1>2 DEF QueueAsyncIOTask

(* A result is taken from a queue.                                          *)
LEMMA TakeFacts ==
  ASSUME TypeOK, PlaceInv, NEW q \in Queue, completed[q] # <<>>,
         completed' = [completed EXCEPT ![q] = Tail(@)],
         UNCHANGED <<pool, worker, working, to>>
  PROVE  /\ completed' \in [Queue -> Seq(Task)]
         /\ Head(completed[q]) \in Task /\ InDone(Head(completed[q]))
         /\ to[Head(completed[q])] = q
         /\ PlaceInv'
         /\ \A u \in Task : /\ Busy(u)' <=> Busy(u) /\ u # Head(completed[q])
                            /\ InDone(u)' <=> InDone(u) /\ u # Head(completed[q])
<1> DEFINE t == Head(completed[q])
<1>1. completed[q] \in Seq(Task) /\ completed \in [Queue -> Seq(Task)]
  BY DEF TypeOK
<1>2. Distinct(completed[q])
  BY DEF PlaceInv
<1>3. /\ t \in Task /\ t \in Elements(completed[q]) /\ Tail(completed[q]) \in Seq(Task)
      /\ Distinct(Tail(completed[q])) /\ Elements(Tail(completed[q])) = Elements(completed[q]) \ {t}
  BY <1>1, <1>2, TailSet
<1> HIDE DEF t
<1>4. /\ completed' \in [Queue -> Seq(Task)]
      /\ completed'[q] = Tail(completed[q])
      /\ \A p \in Queue : p # q => completed'[p] = completed[p]
  BY <1>1, <1>3
<1>5. /\ to[t] = q /\ ~InWork(t) /\ t \notin Elements(pool)
      /\ \A p \in Queue : p # q => t \notin Elements(completed[p])
  <2>1. to[t] = q /\ ~InWork(t) /\ t \notin Elements(pool)
    BY <1>3 DEF PlaceInv
  <2>2. \A p \in Queue : t \in Elements(completed[p]) => to[t] = p
    BY DEF PlaceInv
  <2> QED
    BY <2>1, <2>2
<1>6. \A p \in Queue : Elements(completed'[p]) = Elements(completed[p]) \ {t}
  BY <1>3, <1>4, <1>5
<1>7. \A p \in Queue : Distinct(completed'[p])
  <2>1. \A p \in Queue : Distinct(completed[p])
    BY DEF PlaceInv
  <2> QED
    BY <1>3, <1>4, <2>1
<1>8. \A u : InWork(u)' <=> InWork(u)
  BY DEF InWork
<1>9. \A u \in Task : InDone(u)' <=> InDone(u) /\ u # t
  BY <1>6 DEF InDone
<1>10. \A u \in Task : Busy(u)' <=> Busy(u) /\ u # t
  BY <1>5, <1>8, <1>9 DEF Busy
<1>11. PlaceInv'
  <2>1. Distinct(pool)' /\ \A u \in Elements(pool)' : ~InWork(u)'
    BY <1>8 DEF PlaceInv, Distinct
  <2>2. /\ \A w, v \in Worker : working'[w] = working'[v] /\ working'[w] # None => w = v
        /\ \A w \in Worker : worker'[w] = "io" <=> working'[w] # None
    BY DEF PlaceInv
  <2>3. ASSUME NEW p \in Queue, NEW u \in Elements(completed'[p])
        PROVE  to'[u] = p /\ ~InWork(u)' /\ u \notin Elements(pool')
    <3>1. u \in Elements(completed[p])
      BY <1>6, <2>3
    <3> QED
      BY <1>8, <3>1 DEF PlaceInv
  <2> QED
    BY <1>7, <2>1, <2>2, <2>3 DEF PlaceInv
<1>12. InDone(t)
  BY <1>3 DEF InDone
<1> QED
  BY <1>3, <1>4, <1>5, <1>9, <1>10, <1>11, <1>12 DEF t

(* The step of a worker that takes the first task of the pool.              *)
LEMMA WorkerTakeFacts ==
  ASSUME TypeOK, PlaceInv, NEW w \in Worker, WorkerTake(w)
  PROVE  /\ pool' \in Seq(Task) /\ working' \in [Worker -> Task \cup {None}]
         /\ PlaceInv'
         /\ \A u \in Task : (Busy(u)' <=> Busy(u)) /\ (InDone(u)' <=> InDone(u))
<1> DEFINE t == Head(pool)
<1>1. pool \in Seq(Task) /\ pool # <<>> /\ working \in [Worker -> Task \cup {None}]
  BY DEF TypeOK, WorkerTake
<1>2. Distinct(pool) /\ None \notin Task
  BY NoneIsNothing DEF PlaceInv
<1>3. /\ t \in Task /\ t \in Elements(pool) /\ Tail(pool) \in Seq(Task)
      /\ Distinct(Tail(pool)) /\ Elements(Tail(pool)) = Elements(pool) \ {t}
  BY <1>1, <1>2, TailSet
<1>4. /\ pool' = Tail(pool) /\ working' = [working EXCEPT ![w] = t]
      /\ worker[w] = "loop" /\ worker' = [worker EXCEPT ![w] = "io"]
      /\ UNCHANGED <<completed, to>>
  BY DEF WorkerTake, queueVars, taskVars
<1> HIDE DEF t
<1>5. /\ pool' \in Seq(Task) /\ Elements(pool') = Elements(pool) \ {t} /\ Distinct(pool')
      /\ working' \in [Worker -> Task \cup {None}] /\ working'[w] = t
      /\ \A v \in Worker : v # w => working'[v] = working[v]
      /\ worker'[w] = "io" /\ \A v \in Worker : v # w => worker'[v] = worker[v]
  BY <1>1, <1>3, <1>4 DEF TypeOK
<1>6. working[w] = None /\ ~InWork(t)
  BY <1>3, <1>4 DEF PlaceInv
<1>7. \A u \in Task : InWork(u)' <=> InWork(u) \/ u = t
  BY <1>2, <1>5, <1>6 DEF InWork
<1>8. \A u : InDone(u)' <=> InDone(u)
  BY <1>4 DEF InDone
<1>9. \A u \in Task : Busy(u)' <=> Busy(u)
  BY <1>3, <1>5, <1>7, <1>8 DEF Busy
<1>10. PlaceInv'
  <2>1. Elements(pool) \subseteq Task /\ \A q \in Queue : Elements(completed[q]) \subseteq Task
    BY ElementsTyped DEF TypeOK
  <2>2. Distinct(pool)'
    BY <1>5 DEF Distinct
  <2>3. \A q \in Queue : Distinct(completed'[q])
    BY <1>4 DEF PlaceInv
  <2>4. \A v, x \in Worker : working'[v] = working'[x] /\ working'[v] # None => v = x
    BY <1>5, <1>6 DEF PlaceInv, InWork
  <2>5. \A v \in Worker : worker'[v] = "io" <=> working'[v] # None
    BY <1>2, <1>3, <1>5 DEF PlaceInv
  <2>6. \A u \in Elements(pool') : ~InWork(u)'
    BY <1>5, <1>7, <2>1 DEF PlaceInv
  <2>7. ASSUME NEW q \in Queue, NEW u \in Elements(completed'[q])
        PROVE  to'[u] = q /\ ~InWork(u)' /\ u \notin Elements(pool')
    <3>1. u \in Elements(completed[q]) /\ u \in Task
      BY <1>4, <2>1, <2>7
    <3>2. u # t
      BY <1>3, <3>1 DEF PlaceInv
    <3> QED
      BY <1>4, <1>5, <1>7, <3>1, <3>2 DEF PlaceInv
  <2> QED
    BY <2>2, <2>3, <2>4, <2>5, <2>6, <2>7 DEF PlaceInv
<1> QED
  BY <1>5, <1>8, <1>9, <1>10

(* A busy task is allocated, and goes to a queue.                           *)
LEMMA BusyFacts ==
  ASSUME BusyInv, LiveInv, NEW t \in Task, Busy(t)
  PROVE  /\ t \in live /\ t \in tasks[of[t]] /\ ~InHand(t)
         /\ of[t] \in File /\ to[t] \in Queue /\ t \notin fresh
BY DEF BusyInv, LiveInv, Listed

(* The step of a worker that has done the I/O of its task.                  *)
LEMMA WorkerIOFacts ==
  ASSUME CoreInv, NEW w \in Worker, WorkerIO(w)
  PROVE  /\ completed' \in [Queue -> Seq(Task)] /\ working' \in [Worker -> Task \cup {None}]
         /\ worker' \in [Worker -> Post] /\ at' \in [Thread -> Place]
         /\ working[w] \in Task /\ Busy(working[w]) /\ ~InDone(working[w])
         /\ PlaceInv'
         /\ \A u \in Task : /\ Busy(u)' <=> Busy(u)
                            /\ InDone(u)' <=> InDone(u) \/ u = working[w]
         /\ \A d \in Thread :
              at'[d] = at[d] \/ (d \in Asleep(to[working[w]]) /\ at'[d] = "woken")
<1> DEFINE t == working[w]
           q == to[t]
<1>1. /\ worker[w] = "io" /\ working \in [Worker -> Task \cup {None}]
      /\ worker \in [Worker -> Post] /\ completed \in [Queue -> Seq(Task)]
      /\ at \in [Thread -> Place] /\ pool \in Seq(Task)
  BY DEF WorkerIO, CoreInv, TypeOK, Post, Place
<1>2. PlaceInv /\ BusyInv /\ LiveInv
  BY DEF CoreInv
<1>3. t \in Task /\ t # None /\ InWork(t) /\ Busy(t)
  BY <1>1, <1>2, NoneIsNothing DEF PlaceInv, InWork, Busy
<1>4. q \in Queue
  BY <1>2, <1>3, BusyFacts
<1>5. /\ completed' = Completed(t, q) /\ at' \in Wakes(q, at)
      /\ working' = [working EXCEPT ![w] = None]
      /\ worker' = [worker EXCEPT ![w] = "loop"]
      /\ UNCHANGED <<pool, to>>
  BY DEF WorkerIO, taskVars
<1> HIDE DEF q
<1>q. q = to[t]
  BY DEF q
<1> HIDE DEF t
<1>6. /\ t \notin Elements(pool) /\ \A p \in Queue : t \notin Elements(completed[p])
  BY <1>2, <1>3 DEF PlaceInv
<1>7. /\ <<t>> \o completed[q] \in Seq(Task)
      /\ Elements(<<t>> \o completed[q]) = {t} \cup Elements(completed[q])
      /\ Distinct(completed[q]) /\ t \notin Elements(completed[q])
           => Distinct(<<t>> \o completed[q])
  <2>1. completed[q] \in Seq(Task)
    BY <1>1, <1>4
  <2> QED
    BY <1>3, <2>1, ConsSet
<1>8. /\ completed' \in [Queue -> Seq(Task)]
      /\ completed'[q] = <<t>> \o completed[q]
      /\ \A p \in Queue : p # q => completed'[p] = completed[p]
  BY <1>1, <1>4, <1>5, <1>7 DEF Completed
<1>9. /\ working' \in [Worker -> Task \cup {None}] /\ worker' \in [Worker -> Post]
      /\ working'[w] = None /\ \A v \in Worker : v # w => working'[v] = working[v]
      /\ worker'[w] = "loop" /\ \A v \in Worker : v # w => worker'[v] = worker[v]
  BY <1>1, <1>5 DEF Post
<1>10. \A p \in Queue : Elements(completed'[p]) =
         (IF p = q THEN {t} ELSE {}) \cup Elements(completed[p])
  BY <1>7, <1>8
<1>11. \A u \in Task : InDone(u)' <=> InDone(u) \/ u = t
  BY <1>4, <1>10 DEF InDone
<1>12. \A u \in Task : InWork(u)' <=> InWork(u) /\ u # t
  <2>1. \A v \in Worker : working[v] = t => v = w
    BY <1>2, <1>3 DEF PlaceInv, t
  <2>2. working[w] = t
    BY DEF t
  <2>3. None \notin Task
    BY NoneIsNothing
  <2> QED
    BY <1>9, <2>1, <2>2, <2>3 DEF InWork
<1>13. \A u \in Task : Busy(u)' <=> Busy(u)
  BY <1>3, <1>5, <1>11, <1>12 DEF Busy
<1>14. PlaceInv'
  <2>1. Elements(pool) \subseteq Task /\ \A p \in Queue : Elements(completed[p]) \subseteq Task
    BY <1>1, ElementsTyped
  <2>2. Distinct(pool)'
    BY <1>2, <1>5 DEF Distinct, PlaceInv
  <2>3. \A p \in Queue : Distinct(completed'[p])
    <3>1. \A p \in Queue : Distinct(completed[p])
      BY <1>2 DEF PlaceInv
    <3> QED
      BY <1>6, <1>4, <1>7, <1>8, <3>1
  <2>4. \A v, x \in Worker : working'[v] = working'[x] /\ working'[v] # None => v = x
    BY <1>2, <1>9 DEF PlaceInv
  <2>5. \A v \in Worker : worker'[v] = "io" <=> working'[v] # None
    BY <1>2, <1>9 DEF PlaceInv
  <2>6. \A u \in Elements(pool') : ~InWork(u)'
    BY <1>2, <1>5, <1>12, <2>1 DEF PlaceInv
  <2>7. ASSUME NEW p \in Queue, NEW u \in Elements(completed'[p])
        PROVE  to'[u] = p /\ ~InWork(u)' /\ u \notin Elements(pool')
    <3>1. CASE u \in Elements(completed[p])
      <4>1. to[u] = p /\ ~InWork(u) /\ u \notin Elements(pool)
        BY <1>2, <3>1 DEF PlaceInv
      <4>2. u \in Task
        BY <2>1, <3>1
      <4> QED
        BY <1>5, <1>12, <4>1, <4>2
    <3>2. CASE u = t /\ p = q
      BY <1>3, <1>5, <1>6, <1>12, <1>q, <3>2
    <3> QED
      BY <1>10, <2>7, <3>1, <3>2
  <2> QED
    BY <2>2, <2>3, <2>4, <2>5, <2>6, <2>7 DEF PlaceInv
<1>15. /\ at' \in [Thread -> Place]
       /\ \A d \in Thread : at'[d] = at[d] \/ (d \in Asleep(q) /\ at'[d] = "woken")
  <2>1. at' \in Wakes(q, at)
    BY <1>5
  <2> QED
    BY <1>1, <2>1, WakesFacts
<1>16. ~InDone(t)
  BY <1>6 DEF InDone
<1> QED
  BY <1>3, <1>8, <1>9, <1>11, <1>13, <1>14, <1>15, <1>16 DEF q, t

(* ShutdownThreadpool moves what is in the pool to the queues.              *)
LEMMA ShutdownFacts ==
  ASSUME CoreInv, NEW c \in Thread, Shutdown(c)
  PROVE  /\ completed' \in [Queue -> Seq(Task)] /\ worker' \in [Worker -> Post]
         /\ at' \in [Thread -> Place]
         /\ PlaceInv'
         /\ \A u \in Task : /\ Busy(u)' <=> Busy(u)
                            /\ InDone(u)' <=> InDone(u) \/ u \in Elements(pool)
         /\ at[c] = "idle" /\ at'[c] = "quit"
         /\ \A d \in Thread \ {c} :
              at'[d] = at[d] \/ (at[d] = "asleep" /\ at'[d] = "woken")
<1>1. /\ worker \in [Worker -> Post] /\ completed \in [Queue -> Seq(Task)]
      /\ at \in [Thread -> Place] /\ pool \in Seq(Task)
  BY DEF CoreInv, TypeOK, Post, Place
<1>2. PlaceInv /\ BusyInv /\ LiveInv
  BY DEF CoreInv
<1>3. /\ completed' = [q \in Queue |-> Cancelled(q) \o completed[q]]
      /\ pool' = <<>> /\ worker' = Roused
      /\ UNCHANGED <<to, working>>
  BY DEF Shutdown, taskVars
<1>4. Elements(pool) \subseteq Task /\ \A q \in Queue : Elements(completed[q]) \subseteq Task
  BY <1>1, ElementsTyped
<1>5. ASSUME NEW q \in Queue
      PROVE  /\ completed'[q] \in Seq(Task) /\ Distinct(completed'[q])
             /\ \A u : u \in Elements(completed'[q]) <=>
                         \/ u \in Elements(completed[q])
                         \/ u \in Elements(pool) /\ to[u] = q
  <2>1. /\ Cancelled(q) \in Seq(Task)
        /\ Elements(Cancelled(q)) = {t \in Elements(pool) : to[t] = q}
        /\ Distinct(Cancelled(q))
    BY <1>1, <1>2, CancelledFacts DEF PlaceInv
  <2>2. completed[q] \in Seq(Task) /\ Distinct(completed[q])
    BY <1>1, <1>2 DEF PlaceInv
  <2>3. \A u \in Elements(completed[q]) : u \notin Elements(pool)
    BY <1>2 DEF PlaceInv
  <2>4. Elements(Cancelled(q)) \cap Elements(completed[q]) = {}
    BY <2>1, <2>3
  <2>5. completed'[q] = Cancelled(q) \o completed[q]
    BY <1>3
  <2>6. /\ Cancelled(q) \o completed[q] \in Seq(Task)
        /\ Elements(Cancelled(q) \o completed[q]) = Elements(Cancelled(q)) \cup Elements(completed[q])
        /\ Distinct(Cancelled(q)) /\ Distinct(completed[q])
             /\ Elements(Cancelled(q)) \cap Elements(completed[q]) = {}
             => Distinct(Cancelled(q) \o completed[q])
    <3>1. Cancelled(q) \in Seq(Task) /\ completed[q] \in Seq(Task)
      BY <2>1, <2>2
    <3> QED
      BY <3>1, ConcatSet
  <2> QED
    BY <2>1, <2>2, <2>4, <2>5, <2>6
<1>6. completed' \in [Queue -> Seq(Task)]
  <2>1. \A q \in Queue : completed'[q] \in Seq(Task)
    BY <1>5
  <2> QED
    BY <1>3, <2>1
<1>7. \A u \in Elements(pool) : to[u] \in Queue
  BY <1>2, <1>4, BusyFacts DEF Busy
<1>8. \A u \in Task : InDone(u)' <=> InDone(u) \/ u \in Elements(pool)
  BY <1>5, <1>7 DEF InDone
<1>9. Elements(pool') = {}
  BY <1>3 DEF Elements
<1>10. \A u : InWork(u)' <=> InWork(u)
  BY <1>3 DEF InWork
<1>11. \A u \in Task : Busy(u)' <=> Busy(u)
  BY <1>8, <1>9, <1>10 DEF Busy
<1>12. /\ worker' \in [Worker -> Post]
       /\ \A w \in Worker : worker'[w] = "io" <=> worker[w] = "io"
  BY <1>1, <1>3 DEF Roused, Post
<1>13. PlaceInv'
  <2>1. Distinct(pool)'
    BY <1>3 DEF Distinct
  <2>2. \A q \in Queue : Distinct(completed'[q])
    BY <1>5
  <2>3. /\ \A v, x \in Worker : working'[v] = working'[x] /\ working'[v] # None => v = x
        /\ \A v \in Worker : worker'[v] = "io" <=> working'[v] # None
    BY <1>2, <1>3, <1>12 DEF PlaceInv
  <2>4. \A u \in Elements(pool') : ~InWork(u)'
    BY <1>9
  <2>5. ASSUME NEW q \in Queue, NEW u \in Elements(completed'[q])
        PROVE  to'[u] = q /\ ~InWork(u)' /\ u \notin Elements(pool')
    <3>1. to[u] = q /\ ~InWork(u)
      BY <1>2, <1>5, <2>5 DEF PlaceInv
    <3> QED
      BY <1>3, <1>9, <1>10, <3>1
  <2> QED
    BY <2>1, <2>2, <2>3, <2>4, <2>5 DEF PlaceInv
<1>14. /\ at[c] = "idle" /\ at' \in [Thread -> Place] /\ at'[c] = "quit"
       /\ \A d \in Thread \ {c} :
            at'[d] = at[d] \/ (at[d] = "asleep" /\ at'[d] = "woken")
  <2>1. PICK S \in SUBSET {d \in Thread : at[d] = "asleep"} :
          at' = [d \in Thread |-> IF d = c THEN "quit"
                                  ELSE IF d \in S THEN "woken" ELSE at[d]]
    BY DEF Shutdown
  <2>2. at[c] = "idle" /\ {"quit", "woken"} \subseteq Place
    BY DEF Shutdown, Place
  <2> QED
    BY <1>1, <2>1, <2>2
<1> QED
  BY <1>6, <1>8, <1>11, <1>12, <1>13, <1>14

-----------------------------------------------------------------------------
(* A step that concerns neither a thread nor its task keeps its invariant.  *)
LEMMA CallKept ==
  ASSUME NEW d \in Thread, CallInv(d),
         held'[d] = held[d], using'[d] = using[d],
         at'[d] = at[d] \/ (at[d] = "asleep" /\ at'[d] = "woken"),
         held[d] # None =>
           /\ held[d] \in live'
           /\ to'[held[d]] = to[held[d]] /\ of'[held[d]] = of[held[d]]
           /\ held[d] \in tasks'[of[held[d]]] <=> held[d] \in tasks[of[held[d]]]
           /\ closing'[of[held[d]]] = held[d] <=> closing[of[held[d]]] = held[d],
         at[d] \in {"read", "close", "queue"} => queue'[using[d].queue] = "open",
         at[d] = "drain" => queue'[using[d].queue] \in {"dying", "freed"}
  PROVE  CallInv(d)'
<1>1. CASE at'[d] = at[d]
  <2>1. CASE held[d] = None
    BY <1>1, <2>1 DEF CallInv, Holding
  <2>2. CASE held[d] # None
    BY <1>1, <2>2 DEF CallInv, Holding
  <2> QED
    BY <2>1, <2>2
<1>2. CASE at[d] = "asleep" /\ at'[d] = "woken"
  BY <1>2 DEF CallInv, Holding
<1> QED
  BY <1>1, <1>2

(* What a step that creates or hands over a task may change, and what any   *)
(* step that moves a task may change.                                       *)
handState == <<tasks, closing, live, fresh, of, to, held, inflight>>
taskState == <<handState, working, pool, completed>>

(* A step that neither creates nor hands over a task.                       *)
LEMMA HandStep ==
  ASSUME CoreInv, UNCHANGED handState, \A u \in Task : Busy(u)' <=> Busy(u)
  PROVE  HandInv' /\ LiveInv' /\ FileInv' /\ BusyInv' /\ CountInv'
<1>1. HandInv /\ LiveInv /\ FileInv /\ BusyInv /\ CountInv
  BY DEF CoreInv
<1>2. /\ \A t : InHand(t)' <=> InHand(t)
      /\ \A t : Started(t)' <=> Started(t)
      /\ \A t : Listed(t)' <=> Listed(t)
  BY DEF handState, InHand, Started, Listed
<1>3. HandInv' /\ LiveInv'
  BY <1>1, <1>2 DEF handState, HandInv, LiveInv
<1>4. FileInv'
  BY <1>1, <1>2 DEF handState, FileInv
<1>5. BusyInv'
  BY <1>1, <1>2 DEF BusyInv
<1>6. CountInv'
  <2>1. \A q \in Queue : Counts(q)' = Counts(q)
    BY <1>2 DEF Counts, handState
  <2> QED
    BY <1>1, <2>1 DEF CountInv, handState
<1> QED
  BY <1>3, <1>4, <1>5, <1>6

(* A step that moves no task.                                               *)
LEMMA QuietStep ==
  ASSUME CoreInv, UNCHANGED taskState,
         \A w \in Worker : worker'[w] = "io" <=> worker[w] = "io"
  PROVE  HandInv' /\ LiveInv' /\ FileInv' /\ PlaceInv' /\ BusyInv' /\ CountInv'
<1>1. /\ \A t : InWork(t)' <=> InWork(t)
      /\ \A t : InDone(t)' <=> InDone(t)
      /\ \A t : Busy(t)' <=> Busy(t)
      /\ UNCHANGED handState
  BY DEF taskState, InWork, InDone, Busy
<1>2. PlaceInv'
  BY <1>1 DEF CoreInv, taskState, handState, PlaceInv
<1> QED
  BY <1>1, <1>2, HandStep

(* What a thread keeps when its task stays and no queue it needs changes.   *)
LEMMA HandCall ==
  ASSUME CoreInv, UNCHANGED handState, NEW d \in Thread,
         using'[d] = using[d],
         at'[d] = at[d] \/ (at[d] = "asleep" /\ at'[d] = "woken"),
         \A q \in Queue : /\ queue[q] = "open" /\ at[d] \in {"read", "close", "queue"}
                                /\ using[d].queue = q => queue'[q] = "open"
                          /\ queue[q] \in {"dying", "freed"} => queue'[q] \in {"dying", "freed"}
  PROVE  CallInv(d)'
<1>1. CallInv(d)
  BY DEF CoreInv, ThreadInv
<1>2. at[d] \in {"read", "close", "queue", "drain"} => using[d].queue \in Queue
  BY <1>1 DEF CallInv
<1>3. at[d] \in {"read", "close", "queue"} => queue'[using[d].queue] = "open"
  BY <1>1, <1>2 DEF CallInv
<1>4. at[d] = "drain" => queue'[using[d].queue] \in {"dying", "freed"}
  BY <1>1, <1>2 DEF CallInv
<1>5. /\ held'[d] = held[d]
      /\ held[d] # None =>
           /\ held[d] \in live'
           /\ to'[held[d]] = to[held[d]] /\ of'[held[d]] = of[held[d]]
           /\ held[d] \in tasks'[of[held[d]]] <=> held[d] \in tasks[of[held[d]]]
           /\ closing'[of[held[d]]] = held[d] <=> closing[of[held[d]]] = held[d]
  BY <1>1 DEF CallInv, handState
<1> QED
  BY <1>1, <1>3, <1>4, <1>5, CallKept

(* The same when no task moves.                                             *)
LEMMA QuietCall ==
  ASSUME CoreInv, UNCHANGED taskState, NEW d \in Thread,
         using'[d] = using[d],
         at'[d] = at[d] \/ (at[d] = "asleep" /\ at'[d] = "woken"),
         \A q \in Queue : /\ queue[q] = "open" /\ at[d] \in {"read", "close", "queue"}
                                /\ using[d].queue = q => queue'[q] = "open"
                          /\ queue[q] \in {"dying", "freed"} => queue'[q] \in {"dying", "freed"}
  PROVE  CallInv(d)'
<1>1. UNCHANGED handState
  BY DEF taskState
<1> QED
  BY <1>1, HandCall

(* Steps of the application that move no task.                              *)
LEMMA OpenStep ==
  ASSUME IInv,
         \/ \E q \in Queue : CreateAsyncIOQueue(q) \/ SignalAsyncIOQueue(q)
         \/ \E f \in File : AsyncIOFromFile(f)
  PROVE  CoreInv'
<1>t. TypeOK /\ CoreInv /\ PoolInv
  BY DEF IInv, CoreInv
<1>w. worker \in [Worker -> Post] /\ at \in [Thread -> Place]
  BY <1>t DEF TypeOK, Post, Place
<1>1. ASSUME NEW q \in Queue, CreateAsyncIOQueue(q)
      PROVE  /\ TypeOK' /\ UNCHANGED taskState /\ ThreadInv'
             /\ \A w \in Worker : worker'[w] = "io" <=> worker[w] = "io"
  <2>1. /\ worker' \in [Worker -> Post] /\ init' \in {"no", "yes", "quitting"}
        /\ \A w \in Worker : worker'[w] = "io" <=> worker[w] = "io"
    BY <1>1, <1>t, <1>w, PrepareFacts DEF CreateAsyncIOQueue
  <2>2. queue' \in [Queue -> {"none", "open", "dying", "freed"}]
    BY <1>1, <1>t DEF CreateAsyncIOQueue, TypeOK
  <2>3. /\ UNCHANGED <<fileVars, inflight, completed, taskVars, pool, stop, working, threadVars, quits>>
        /\ queue[q] = "none" /\ queue' = [queue EXCEPT ![q] = "open"]
    BY <1>1 DEF CreateAsyncIOQueue
  <2>4. TypeOK'
    BY <1>t, <2>1, <2>2, <2>3 DEF TypeOK, fileVars, taskVars, threadVars, Post
  <2>5. UNCHANGED taskState
    BY <2>3 DEF taskState, handState, fileVars, taskVars, threadVars
  <2>6. ASSUME NEW d \in Thread PROVE CallInv(d)'
    <3>1. using'[d] = using[d] /\ at'[d] = at[d]
      BY <2>3 DEF threadVars
    <3>2. \A p \in Queue : /\ queue[p] = "open" => queue'[p] = "open"
                           /\ queue[p] \in {"dying", "freed"} => queue'[p] \in {"dying", "freed"}
      BY <1>t, <2>3 DEF TypeOK
    <3> QED
      BY <1>t, <2>5, <3>1, <3>2, QuietCall
  <2> QED
    BY <2>1, <2>4, <2>5, <2>6 DEF ThreadInv
<1>2. ASSUME NEW q \in Queue, SignalAsyncIOQueue(q)
      PROVE  /\ TypeOK' /\ UNCHANGED taskState /\ ThreadInv'
             /\ \A w \in Worker : worker'[w] = "io" <=> worker[w] = "io"
  <2>1. /\ UNCHANGED <<fileVars, queueVars, taskVars, poolVars, held, using, quits>>
        /\ at' = [c \in Thread |-> IF c \in Asleep(q) THEN "woken" ELSE at[c]]
    BY <1>2 DEF SignalAsyncIOQueue
  <2>2. /\ at' \in [Thread -> Place]
        /\ \A d \in Thread : at'[d] = at[d] \/ (at[d] = "asleep" /\ at'[d] = "woken")
    BY <1>w, <2>1 DEF Asleep, Place
  <2>3. TypeOK'
    BY <1>t, <2>1, <2>2 DEF TypeOK, fileVars, queueVars, taskVars, poolVars, Place
  <2>4. UNCHANGED taskState /\ UNCHANGED worker
    BY <2>1 DEF taskState, handState, fileVars, queueVars, taskVars, poolVars
  <2>5. ASSUME NEW d \in Thread PROVE CallInv(d)'
    <3>1. using'[d] = using[d] /\ queue' = queue
      BY <2>1 DEF queueVars
    <3> QED
      BY <1>t, <2>2, <2>4, <3>1, QuietCall
  <2> QED
    BY <2>3, <2>4, <2>5 DEF ThreadInv
<1>3. ASSUME NEW f \in File, AsyncIOFromFile(f)
      PROVE  /\ TypeOK' /\ UNCHANGED taskState /\ ThreadInv'
             /\ \A w \in Worker : worker'[w] = "io" <=> worker[w] = "io"
  <2>1. /\ worker' \in [Worker -> Post] /\ init' \in {"no", "yes", "quitting"}
        /\ \A w \in Worker : worker'[w] = "io" <=> worker[w] = "io"
    BY <1>3, <1>t, <1>w, PrepareFacts DEF AsyncIOFromFile
  <2>2. file' \in [File -> {"none", "open", "freed"}]
    BY <1>3, <1>t DEF AsyncIOFromFile, TypeOK
  <2>3. UNCHANGED <<oneshot, tasks, closing, queueVars, taskVars, pool, stop, working, threadVars, quits>>
    BY <1>3 DEF AsyncIOFromFile
  <2>4. TypeOK'
    BY <1>t, <2>1, <2>2, <2>3 DEF TypeOK, queueVars, taskVars, threadVars, Post
  <2>5. UNCHANGED taskState
    BY <2>3 DEF taskState, handState, queueVars, taskVars, threadVars
  <2>6. ASSUME NEW d \in Thread PROVE CallInv(d)'
    <3>1. using'[d] = using[d] /\ at'[d] = at[d] /\ queue' = queue
      BY <2>3 DEF threadVars, queueVars
    <3> QED
      BY <1>t, <2>5, <3>1, QuietCall
  <2> QED
    BY <2>1, <2>4, <2>5, <2>6 DEF ThreadInv
<1>4. /\ TypeOK' /\ UNCHANGED taskState /\ ThreadInv'
      /\ \A w \in Worker : worker'[w] = "io" <=> worker[w] = "io"
  BY <1>1, <1>2, <1>3
<1> QED
  BY <1>t, <1>4, QuietStep DEF CoreInv

(* Steps of a thread that move no task, but the thread.                     *)
LEMMA MoveStep ==
  ASSUME IInv, NEW c \in Thread,
         \/ \E f \in File, q \in Queue : LoadFileAsync(c, f, q)
         \/ \E q \in Queue : WaitResult(c, q) \/ DestroyAsyncIOQueue(c, q)
         \/ WaitTimeout(c)
         \/ ShutdownWait(c)
  PROVE  CoreInv'
<1>t. TypeOK /\ CoreInv /\ PoolInv
  BY DEF IInv, CoreInv
<1>w. /\ worker \in [Worker -> Post] /\ at \in [Thread -> Place]
      /\ using \in [Thread -> [file : File \cup {None}, queue : Queue \cup {None}]]
      /\ held \in [Thread -> Task \cup {None}]
      /\ queue \in [Queue -> {"none", "open", "dying", "freed"}]
  BY <1>t DEF TypeOK, Post, Place
<1>c. CallInv(c)
  BY <1>t DEF CoreInv, ThreadInv
<1>1. ASSUME NEW f \in File, NEW q \in Queue, LoadFileAsync(c, f, q)
      PROVE  /\ TypeOK' /\ UNCHANGED taskState /\ ThreadInv'
             /\ \A w \in Worker : worker'[w] = "io" <=> worker[w] = "io"
  <2>1. /\ worker' \in [Worker -> Post] /\ init' \in {"no", "yes", "quitting"}
        /\ \A w \in Worker : worker'[w] = "io" <=> worker[w] = "io"
    BY <1>1, <1>t, <1>w, PrepareFacts DEF LoadFileAsync
  <2>2. /\ at[c] = "idle" /\ queue[q] = "open"
        /\ \E next \in {"read", "close"} : at' = [at EXCEPT ![c] = next]
        /\ using' = [using EXCEPT ![c] = [file |-> f, queue |-> q]]
        /\ file' = [file EXCEPT ![f] = "open"] /\ oneshot' = oneshot \cup {f}
        /\ UNCHANGED <<tasks, closing, queueVars, taskVars, pool, stop, working, held, quits>>
    BY <1>1 DEF LoadFileAsync
  <2>3. /\ at' \in [Thread -> Place] /\ at'[c] \in {"read", "close"}
        /\ \A d \in Thread : d # c => at'[d] = at[d]
        /\ using' \in [Thread -> [file : File \cup {None}, queue : Queue \cup {None}]]
        /\ using'[c].queue = q
        /\ \A d \in Thread : d # c => using'[d] = using[d]
    BY <1>w, <2>2 DEF Place
  <2>4. TypeOK'
    BY <1>t, <2>1, <2>2, <2>3 DEF TypeOK, queueVars, taskVars, Post, Place
  <2>5. UNCHANGED taskState /\ queue' = queue
    BY <2>2 DEF taskState, handState, queueVars, taskVars
  <2>6. ASSUME NEW d \in Thread, d # c PROVE CallInv(d)'
    BY <1>t, <2>3, <2>5, <2>6, QuietCall
  <2>7. CallInv(c)'
    <3>1. held'[c] = None
      BY <1>c, <2>2 DEF CallInv, Holding
    <3> QED
      BY <2>2, <2>3, <2>5, <3>1 DEF CallInv, Holding
  <2> QED
    BY <2>1, <2>4, <2>5, <2>6, <2>7 DEF ThreadInv
<1>2. ASSUME NEW q \in Queue, WaitResult(c, q)
      PROVE  /\ TypeOK' /\ UNCHANGED taskState /\ ThreadInv'
             /\ \A w \in Worker : worker'[w] = "io" <=> worker[w] = "io"
  <2>2. /\ at[c] = "idle" /\ queue[q] = "open"
        /\ at' = [at EXCEPT ![c] = "asleep"]
        /\ using' = [using EXCEPT ![c].queue = q]
        /\ UNCHANGED <<fileVars, queueVars, taskVars, poolVars, held, quits>>
    BY <1>2 DEF WaitResult
  <2>3. /\ at' \in [Thread -> Place] /\ at'[c] = "asleep"
        /\ \A d \in Thread : d # c => at'[d] = at[d]
        /\ using' \in [Thread -> [file : File \cup {None}, queue : Queue \cup {None}]]
        /\ using'[c].queue = q
        /\ \A d \in Thread : d # c => using'[d] = using[d]
    BY <1>w, <2>2 DEF Place
  <2>4. TypeOK'
    BY <1>t, <2>2, <2>3 DEF TypeOK, fileVars, queueVars, taskVars, poolVars, Place
  <2>5. UNCHANGED taskState /\ queue' = queue /\ worker' = worker
    BY <2>2 DEF taskState, handState, fileVars, queueVars, taskVars, poolVars
  <2>6. ASSUME NEW d \in Thread, d # c PROVE CallInv(d)'
    BY <1>t, <2>3, <2>5, <2>6, QuietCall
  <2>7. CallInv(c)'
    <3>1. held'[c] = None
      BY <1>c, <2>2 DEF CallInv, Holding
    <3> QED
      BY <2>2, <2>3, <2>5, <3>1 DEF CallInv, Holding
  <2> QED
    BY <2>4, <2>5, <2>6, <2>7 DEF ThreadInv
<1>3. ASSUME NEW q \in Queue, DestroyAsyncIOQueue(c, q)
      PROVE  /\ TypeOK' /\ UNCHANGED taskState /\ ThreadInv'
             /\ \A w \in Worker : worker'[w] = "io" <=> worker[w] = "io"
  <2>2. /\ at[c] = "idle" /\ queue[q] = "open" /\ \A d \in Thread : using[d].queue # q
        /\ queue' = [queue EXCEPT ![q] = "dying"]
        /\ at' = [at EXCEPT ![c] = "drain"]
        /\ using' = [using EXCEPT ![c].queue = q]
        /\ UNCHANGED <<fileVars, inflight, completed, taskVars, poolVars, held, quits>>
    BY <1>3 DEF DestroyAsyncIOQueue, MayDestroy
  <2>3. /\ at' \in [Thread -> Place] /\ at'[c] = "drain"
        /\ \A d \in Thread : d # c => at'[d] = at[d]
        /\ using' \in [Thread -> [file : File \cup {None}, queue : Queue \cup {None}]]
        /\ using'[c].queue = q
        /\ \A d \in Thread : d # c => using'[d] = using[d]
    BY <1>w, <2>2 DEF Place
  <2>q. /\ queue' \in [Queue -> {"none", "open", "dying", "freed"}] /\ queue'[q] = "dying"
        /\ \A p \in Queue : p # q => queue'[p] = queue[p]
    BY <1>w, <2>2
  <2>4. TypeOK'
    BY <1>t, <2>2, <2>3, <2>q DEF TypeOK, fileVars, taskVars, poolVars, Place
  <2>5. UNCHANGED taskState /\ worker' = worker
    BY <2>2 DEF taskState, handState, fileVars, taskVars, poolVars
  <2>6. ASSUME NEW d \in Thread, d # c PROVE CallInv(d)'
    <3>1. using[d].queue # q
      BY <2>2
    <3>2. \A p \in Queue : /\ queue[p] = "open" /\ at[d] \in {"read", "close", "queue"}
                                /\ using[d].queue = p => queue'[p] = "open"
                           /\ queue[p] \in {"dying", "freed"} => queue'[p] \in {"dying", "freed"}
      BY <2>q, <3>1
    <3> QED
      BY <1>t, <2>3, <2>5, <2>6, <3>2, QuietCall
  <2>7. CallInv(c)'
    <3>1. held'[c] = None
      BY <1>c, <2>2 DEF CallInv, Holding
    <3> QED
      BY <2>2, <2>3, <2>5, <2>q, <3>1 DEF CallInv, Holding
  <2> QED
    BY <2>4, <2>5, <2>6, <2>7 DEF ThreadInv
<1>4. ASSUME WaitTimeout(c)
      PROVE  /\ TypeOK' /\ UNCHANGED taskState /\ ThreadInv'
             /\ \A w \in Worker : worker'[w] = "io" <=> worker[w] = "io"
  <2>2. /\ at[c] = "asleep" /\ at' = [at EXCEPT ![c] = "woken"]
        /\ UNCHANGED <<fileVars, queueVars, taskVars, poolVars, held, using, quits>>
    BY <1>4 DEF WaitTimeout
  <2>3. /\ at' \in [Thread -> Place] /\ at'[c] = "woken"
        /\ \A d \in Thread : d # c => at'[d] = at[d]
    BY <1>w, <2>2 DEF Place
  <2>4. TypeOK'
    BY <1>t, <2>2, <2>3 DEF TypeOK, fileVars, queueVars, taskVars, poolVars, Place
  <2>5. UNCHANGED taskState /\ queue' = queue /\ worker' = worker
    BY <2>2 DEF taskState, handState, fileVars, queueVars, taskVars, poolVars
  <2>6. ASSUME NEW d \in Thread PROVE CallInv(d)'
    BY <1>t, <2>2, <2>3, <2>5, QuietCall
  <2> QED
    BY <2>4, <2>5, <2>6 DEF ThreadInv
<1>5. ASSUME ShutdownWait(c)
      PROVE  /\ TypeOK' /\ UNCHANGED taskState /\ ThreadInv'
             /\ \A w \in Worker : worker'[w] = "io" <=> worker[w] = "io"
  <2>2. /\ at[c] = "quit"
        /\ \E p \in {"join", "idle"} : at' = [at EXCEPT ![c] = p]
        /\ init' \in {"no", "yes", "quitting"} /\ stop' \in BOOLEAN
        /\ UNCHANGED <<fileVars, queueVars, taskVars, pool, worker, working, held, using, quits>>
    BY <1>5, <1>t DEF ShutdownWait, TypeOK
  <2>3. /\ at' \in [Thread -> Place] /\ at'[c] \in {"join", "idle"}
        /\ \A d \in Thread : d # c => at'[d] = at[d]
    BY <1>w, <2>2 DEF Place
  <2>4. TypeOK'
    BY <1>t, <2>2, <2>3 DEF TypeOK, fileVars, queueVars, taskVars, Place
  <2>5. UNCHANGED taskState /\ queue' = queue /\ worker' = worker
    BY <2>2 DEF taskState, handState, fileVars, queueVars, taskVars
  <2>6. ASSUME NEW d \in Thread, d # c PROVE CallInv(d)'
    BY <1>t, <2>2, <2>3, <2>5, <2>6, QuietCall
  <2>7. CallInv(c)'
    <3>1. held'[c] = None
      BY <1>c, <2>2 DEF CallInv, Holding
    <3> QED
      BY <2>2, <2>3, <2>5, <3>1 DEF CallInv, Holding
  <2> QED
    BY <2>4, <2>5, <2>6, <2>7 DEF ThreadInv
<1>6. /\ TypeOK' /\ UNCHANGED taskState /\ ThreadInv'
      /\ \A w \in Worker : worker'[w] = "io" <=> worker[w] = "io"
  BY <1>1, <1>2, <1>3, <1>4, <1>5
<1> QED
  BY <1>t, <1>6, QuietStep DEF CoreInv

(* A thread finds nothing completed: it returns, sleeps, or ends the queue. *)
LEMMA EmptyStep ==
  ASSUME IInv, NEW c \in Thread,
         UNCHANGED <<held, completed>>,
         WaitReturn(c) \/ Drain(c)
  PROVE  CoreInv'
<1>t. TypeOK /\ CoreInv
  BY DEF IInv, CoreInv
<1>w. /\ at \in [Thread -> Place] /\ held \in [Thread -> Task \cup {None}]
      /\ using \in [Thread -> [file : File \cup {None}, queue : Queue \cup {None}]]
      /\ queue \in [Queue -> {"none", "open", "dying", "freed"}]
  BY <1>t DEF TypeOK, Place
<1>c. CallInv(c)
  BY <1>t DEF CoreInv, ThreadInv
<1> DEFINE q == using[c].queue
<1>q. at[c] \in {"woken", "drain"} => q \in Queue
  BY <1>c DEF CallInv
<1>n. NoUse \in [file : File \cup {None}, queue : Queue \cup {None}]
  BY DEF NoUse
<1>o. at[c] \in Holding <=> held[c] # None
  BY <1>c DEF CallInv
<1>1. ASSUME WaitReturn(c)
      PROVE  /\ UNCHANGED <<fileVars, queue, inflight, taskVars, poolVars, quits>>
             /\ at[c] = "woken"
             /\ \/ /\ queue[q] = "dying"
                   /\ at' = [at EXCEPT ![c] = "drain"] /\ UNCHANGED using
                \/ /\ at' = [at EXCEPT ![c] = "idle"]
                   /\ using' = [using EXCEPT ![c] = NoUse]
  <2>1. /\ UNCHANGED <<fileVars, queue, inflight, taskVars, poolVars, quits>>
        /\ at[c] = "woken"
    BY <1>1 DEF WaitReturn
  <2>2. CASE completed[q] # <<>> /\ held' = [held EXCEPT ![c] = Head(completed[q])]
    <3>1. held'[c] = Head(completed[q])
      BY <1>w, <2>2
    <3>2. Head(completed[q]) \in Task
      <4>1. completed[q] \in Seq(Task)
        BY <1>q, <1>t, <2>1 DEF TypeOK
      <4> QED
        BY <2>2, <4>1, TailSet
    <3>3. held'[c] = None
      BY <1>o, <2>1 DEF Holding
    <3> QED
      BY <3>1, <3>2, <3>3, NoneIsNothing
  <2>3. CASE Returns(c)
    BY <2>1, <2>3 DEF Returns
  <2> QED
    BY <1>1, <2>1, <2>2, <2>3 DEF WaitReturn
<1>2. ASSUME Drain(c)
      PROVE  /\ UNCHANGED <<fileVars, inflight, taskVars, poolVars, quits>>
             /\ at[c] = "drain"
             /\ \/ at' = [at EXCEPT ![c] = "asleep"] /\ UNCHANGED <<queue, using>>
                \/ /\ at' = [at EXCEPT ![c] = "idle"]
                   /\ queue' = [queue EXCEPT ![q] = "freed"]
                   /\ using' = [using EXCEPT ![c] = NoUse]
  <2>1. /\ UNCHANGED <<fileVars, inflight, taskVars, poolVars, quits>>
        /\ at[c] = "drain"
    BY <1>2 DEF Drain
  <2>2. CASE completed[q] # <<>> /\ held' = [held EXCEPT ![c] = Head(completed[q])]
    <3>1. held'[c] = Head(completed[q])
      BY <1>w, <2>2
    <3>2. Head(completed[q]) \in Task
      <4>1. completed[q] \in Seq(Task)
        BY <1>q, <1>t, <2>1 DEF TypeOK
      <4> QED
        BY <2>2, <4>1, TailSet
    <3>3. held'[c] = None
      BY <1>o, <2>1 DEF Holding
    <3> QED
      BY <3>1, <3>2, <3>3, NoneIsNothing
  <2>3. CASE at' = [at EXCEPT ![c] = "asleep"] /\ UNCHANGED <<queue, using>>
    BY <2>1, <2>3
  <2>4. CASE /\ at' = [at EXCEPT ![c] = "idle"]
             /\ queue' = [queue EXCEPT ![q] = "freed"]
             /\ using' = [using EXCEPT ![c] = NoUse]
    BY <2>1, <2>4
  <2> QED
    BY <1>2, <2>2, <2>3, <2>4 DEF Drain
<1> HIDE DEF q
<1>3. /\ UNCHANGED <<fileVars, inflight, taskVars, poolVars, quits>>
      /\ \/ at' = [at EXCEPT ![c] = "drain"] /\ queue[q] = "dying" /\ UNCHANGED <<queue, using>>
         \/ at' = [at EXCEPT ![c] = "asleep"] /\ UNCHANGED <<queue, using>>
         \/ /\ at' = [at EXCEPT ![c] = "idle"]
            /\ UNCHANGED queue \/ (at[c] = "drain" /\ queue' = [queue EXCEPT ![q] = "freed"])
            /\ using' = [using EXCEPT ![c] = NoUse]
      /\ at[c] \in {"woken", "drain"} /\ q \in Queue
  BY <1>1, <1>2, <1>q
<1>4. /\ at' \in [Thread -> Place] /\ at'[c] \in {"drain", "asleep", "idle"}
      /\ \A d \in Thread : d # c => at'[d] = at[d] /\ using'[d] = using[d]
      /\ using' \in [Thread -> [file : File \cup {None}, queue : Queue \cup {None}]]
      /\ at'[c] \in {"drain", "asleep"} => using'[c] = using[c]
      /\ at'[c] = "drain" => queue[q] = "dying" /\ queue' = queue
  BY <1>3, <1>n, <1>w DEF Place
<1>5. /\ queue' \in [Queue -> {"none", "open", "dying", "freed"}]
      /\ queue[q] \in {"dying", "freed"} \/ queue' = queue
      /\ \A p \in Queue : queue'[p] = queue[p] \/ (p = q /\ queue'[p] = "freed")
  <2>1. at[c] = "drain" => queue[q] \in {"dying", "freed"}
    BY <1>c DEF CallInv, q
  <2> QED
    BY <1>3, <1>w, <2>1
<1>6. TypeOK'
  BY <1>t, <1>3, <1>4, <1>5 DEF TypeOK, fileVars, taskVars, poolVars, Place
<1>7. UNCHANGED taskState /\ worker' = worker
  BY <1>3 DEF taskState, handState, fileVars, taskVars, poolVars
<1>8. ASSUME NEW d \in Thread, d # c PROVE CallInv(d)'
  <2>1. \A p \in Queue : /\ queue[p] = "open" => queue'[p] = "open"
                         /\ queue[p] \in {"dying", "freed"} => queue'[p] \in {"dying", "freed"}
    BY <1>5
  <2> QED
    BY <1>t, <1>4, <1>7, <1>8, <2>1, QuietCall
<1>9. CallInv(c)'
  <2>1. held'[c] = None
    BY <1>3, <1>o DEF Holding
  <2>2. at'[c] \in {"drain", "asleep"} => using'[c].queue = q
    BY <1>4 DEF q
  <2> QED
    BY <1>3, <1>4, <2>1, <2>2 DEF CallInv, Holding
<1>10. ThreadInv'
  BY <1>8, <1>9 DEF ThreadInv
<1> QED
  BY <1>t, <1>6, <1>7, <1>10, QuietStep DEF CoreInv

(* Workers that wait, wake and leave.                                       *)
LEMMA WaitStep ==
  ASSUME IInv, NEW w \in Worker,
         WorkerSleep(w) \/ WorkerTimeout(w) \/ WorkerBack(w) \/ WorkerExit(w)
  PROVE  CoreInv'
<1>t. TypeOK /\ CoreInv
  BY DEF IInv, CoreInv
<1>w. worker \in [Worker -> Post] /\ at \in [Thread -> Place]
  BY <1>t DEF TypeOK, Post, Place
<1>1. /\ worker[w] # "io"
      /\ \E p \in {"asleep", "late", "loop", "off"} : worker' = [worker EXCEPT ![w] = p]
      /\ UNCHANGED <<fileVars, queueVars, taskVars, pool, init, stop, working, held, using, quits>>
      /\ \/ at' = at
         \/ at' = [c \in Thread |-> IF stop /\ at[c] = "join" THEN "quit" ELSE at[c]]
  BY DEF WorkerSleep, WorkerTimeout, WorkerBack, WorkerExit, TooManyIdle, threadVars
<1>2. /\ worker' \in [Worker -> Post]
      /\ \A v \in Worker : worker'[v] = "io" <=> worker[v] = "io"
  BY <1>1, <1>w DEF Post
<1>3. /\ at' \in [Thread -> Place]
      /\ \A d \in Thread : at'[d] = at[d] \/ (at[d] = "join" /\ at'[d] = "quit")
  BY <1>1, <1>w DEF Place
<1>4. TypeOK'
  BY <1>t, <1>1, <1>2, <1>3 DEF TypeOK, fileVars, queueVars, taskVars, Post, Place
<1>5. UNCHANGED taskState /\ queue' = queue /\ using' = using
  BY <1>1 DEF taskState, handState, fileVars, queueVars, taskVars
<1>6. ASSUME NEW d \in Thread PROVE CallInv(d)'
  <2>1. CASE at'[d] = at[d]
    BY <1>t, <1>5, <2>1, QuietCall
  <2>2. CASE at[d] = "join" /\ at'[d] = "quit"
    <3>1. CallInv(d)
      BY <1>t DEF CoreInv, ThreadInv
    <3>2. held'[d] = None
      BY <1>5, <2>2, <3>1 DEF CallInv, Holding, taskState, handState
    <3> QED
      BY <2>2, <3>2 DEF CallInv, Holding
  <2> QED
    BY <1>3, <2>1, <2>2
<1>7. ThreadInv'
  BY <1>6 DEF ThreadInv
<1> QED
  BY <1>t, <1>2, <1>4, <1>5, <1>7, QuietStep DEF CoreInv

(* A worker takes a task or has done it, or the shutdown cancels tasks:     *)
(* busy tasks move from one place to another.                               *)
LEMMA WorkStep ==
  ASSUME IInv,
         \/ \E w \in Worker : WorkerTake(w) \/ WorkerIO(w)
         \/ \E c \in Thread : Shutdown(c)
  PROVE  CoreInv'
<1>t. TypeOK /\ CoreInv /\ PlaceInv
  BY DEF IInv, CoreInv
<1>w. worker \in [Worker -> Post] /\ at \in [Thread -> Place]
  BY <1>t DEF TypeOK, Post, Place
<1>1. ASSUME NEW w \in Worker, WorkerTake(w)
      PROVE  /\ TypeOK' /\ UNCHANGED handState /\ ThreadInv' /\ PlaceInv'
             /\ \A u \in Task : Busy(u)' <=> Busy(u)
  <2>1. /\ pool' \in Seq(Task) /\ working' \in [Worker -> Task \cup {None}]
        /\ PlaceInv' /\ \A u \in Task : Busy(u)' <=> Busy(u)
    BY <1>1, <1>t, WorkerTakeFacts
  <2>2. /\ worker' = [worker EXCEPT ![w] = "io"]
        /\ UNCHANGED <<fileVars, queueVars, taskVars, init, stop, threadVars, quits>>
    BY <1>1 DEF WorkerTake
  <2>3. worker' \in [Worker -> Post]
    BY <1>w, <2>2 DEF Post
  <2>4. TypeOK'
    BY <1>t, <2>1, <2>2, <2>3 DEF TypeOK, fileVars, queueVars, taskVars, threadVars, Post
  <2>5. UNCHANGED <<handState, queue, at, using>>
    BY <2>2 DEF handState, fileVars, queueVars, taskVars, threadVars
  <2>6. ASSUME NEW d \in Thread PROVE CallInv(d)'
    BY <1>t, <2>5, HandCall
  <2> QED
    BY <2>1, <2>4, <2>5, <2>6 DEF ThreadInv
<1>2. ASSUME NEW w \in Worker, WorkerIO(w)
      PROVE  /\ TypeOK' /\ UNCHANGED handState /\ ThreadInv' /\ PlaceInv'
             /\ \A u \in Task : Busy(u)' <=> Busy(u)
  <2>1. /\ completed' \in [Queue -> Seq(Task)] /\ working' \in [Worker -> Task \cup {None}]
        /\ worker' \in [Worker -> Post] /\ at' \in [Thread -> Place]
        /\ PlaceInv' /\ \A u \in Task : Busy(u)' <=> Busy(u)
        /\ \A d \in Thread :
             at'[d] = at[d] \/ (d \in Asleep(to[working[w]]) /\ at'[d] = "woken")
    BY <1>2, <1>t, WorkerIOFacts
  <2>2. UNCHANGED <<fileVars, queue, inflight, taskVars, pool, init, stop, held, using, quits>>
    BY <1>2 DEF WorkerIO
  <2>4. TypeOK'
    BY <1>t, <2>1, <2>2 DEF TypeOK, fileVars, taskVars, Post, Place
  <2>5. UNCHANGED <<handState, queue, using>>
    BY <2>2 DEF handState, fileVars, taskVars
  <2>6. ASSUME NEW d \in Thread PROVE CallInv(d)'
    <3>1. at'[d] = at[d] \/ (at[d] = "asleep" /\ at'[d] = "woken")
      BY <2>1 DEF Asleep
    <3> QED
      BY <1>t, <2>5, <3>1, HandCall
  <2> QED
    BY <2>1, <2>4, <2>5, <2>6 DEF ThreadInv
<1>3. ASSUME NEW c \in Thread, Shutdown(c)
      PROVE  /\ TypeOK' /\ UNCHANGED handState /\ ThreadInv' /\ PlaceInv'
             /\ \A u \in Task : Busy(u)' <=> Busy(u)
  <2>1. /\ completed' \in [Queue -> Seq(Task)]
        /\ worker' \in [Worker -> Post] /\ at' \in [Thread -> Place]
        /\ PlaceInv' /\ \A u \in Task : Busy(u)' <=> Busy(u)
        /\ at[c] = "idle" /\ at'[c] = "quit"
        /\ \A d \in Thread \ {c} :
             at'[d] = at[d] \/ (at[d] = "asleep" /\ at'[d] = "woken")
    BY <1>3, <1>t, ShutdownFacts
  <2>2. /\ UNCHANGED <<fileVars, queue, inflight, taskVars, working, held, using>>
        /\ init' = "quitting" /\ stop' = TRUE /\ pool' = <<>>
        /\ quits < MaxQuits /\ quits' = quits + 1
    BY <1>3 DEF Shutdown
  <2>3. pool' \in Seq(Task) /\ quits' \in 0..MaxQuits
    <3>1. quits \in 0..MaxQuits /\ MaxQuits \in Nat
      BY <1>t, MaxQuitsIsNat DEF TypeOK
    <3> QED
      BY <2>2, <3>1
  <2>4. TypeOK'
    BY <1>t, <2>1, <2>2, <2>3 DEF TypeOK, fileVars, taskVars, Post, Place
  <2>5. UNCHANGED <<handState, queue, using>>
    BY <2>2 DEF handState, fileVars, taskVars
  <2>6. ASSUME NEW d \in Thread, d # c PROVE CallInv(d)'
    <3>1. at'[d] = at[d] \/ (at[d] = "asleep" /\ at'[d] = "woken")
      BY <2>1, <2>6
    <3> QED
      BY <1>t, <2>5, <3>1, HandCall
  <2>7. CallInv(c)'
    <3>1. CallInv(c)
      BY <1>t DEF CoreInv, ThreadInv
    <3>2. held'[c] = None
      BY <2>1, <2>5, <3>1 DEF CallInv, Holding, handState
    <3> QED
      BY <2>1, <3>2 DEF CallInv, Holding
  <2> QED
    BY <2>1, <2>4, <2>5, <2>6, <2>7 DEF ThreadInv
<1>4. /\ TypeOK' /\ UNCHANGED handState /\ ThreadInv' /\ PlaceInv'
      /\ \A u \in Task : Busy(u)' <=> Busy(u)
  BY <1>1, <1>2, <1>3
<1> QED
  BY <1>4, <1>t, HandStep DEF CoreInv

(* A thread takes the result of a task.                                     *)
LEMMA TakeStep ==
  ASSUME IInv, NEW c \in Thread, NEW q \in Queue,
         at[c] \in {"idle", "woken", "drain"},
         completed[q] # <<>>,
         held' = [held EXCEPT ![c] = Head(completed[q])],
         completed' = [completed EXCEPT ![q] = Tail(@)],
         at' = [at EXCEPT ![c] = "outcome"],
         using' \in [Thread -> [file : File \cup {None}, queue : Queue \cup {None}]],
         using'[c].queue = q, \A d \in Thread : d # c => using'[d] = using[d],
         UNCHANGED <<fileVars, queue, inflight, taskVars, poolVars, quits>>
  PROVE  CoreInv'
<1>t. TypeOK /\ CoreInv /\ PlaceInv /\ ThreadInv /\ HandInv /\ LiveInv /\ FileInv /\ BusyInv /\ CountInv
  BY DEF IInv, CoreInv
<1>w. at \in [Thread -> Place] /\ held \in [Thread -> Task \cup {None}]
  BY <1>t DEF TypeOK, Place
<1>u. UNCHANGED <<tasks, closing, live, fresh, of, to, inflight, queue, pool, worker, working>>
  BY DEF fileVars, taskVars, poolVars
<1> DEFINE t == Head(completed[q])
<1>1. /\ completed' \in [Queue -> Seq(Task)]
      /\ t \in Task /\ InDone(t) /\ to[t] = q
      /\ PlaceInv'
      /\ \A u \in Task : Busy(u)' <=> Busy(u) /\ u # t
  BY <1>t, <1>u, TakeFacts
<1> HIDE DEF t
<1>2. /\ t \in live /\ t \in tasks[of[t]] /\ ~InHand(t) /\ of[t] \in File
      /\ t \notin fresh /\ t # None
  BY <1>1, <1>t, BusyFacts, NoneIsNothing DEF Busy
<1>3. held[c] = None
  BY <1>t DEF ThreadInv, CallInv, Holding
<1>4. /\ held' \in [Thread -> Task \cup {None}] /\ held'[c] = t
      /\ \A d \in Thread : d # c => held'[d] = held[d]
      /\ at' \in [Thread -> Place] /\ at'[c] = "outcome"
      /\ \A d \in Thread : d # c => at'[d] = at[d]
  BY <1>1, <1>w DEF t, Place
<1>5. TypeOK'
  BY <1>t, <1>1, <1>4 DEF TypeOK, fileVars, taskVars, poolVars, Place
<1>6. \A u \in Task : InHand(u)' <=> InHand(u) \/ u = t
  BY <1>3, <1>4, NoneIsNothing DEF InHand
<1>7. \A u \in Task : /\ Started(u)' <=> Started(u)
                      /\ Listed(u)' <=> Listed(u)
  BY <1>2, <1>6, <1>u DEF Started, Listed
<1>8. live \subseteq Task
  BY <1>t DEF TypeOK
<1>9. HandInv'
  BY <1>2, <1>4, <1>t DEF HandInv, InHand
<1>10. LiveInv'
  BY <1>7, <1>8, <1>t, <1>u DEF LiveInv
<1>11. FileInv'
  <2>1. ASSUME NEW f \in File, closing[f] # None, closing[f] \notin tasks[f]
        PROVE  (\E d \in Thread : held'[d] = closing[f]) <=> InHand(closing[f])
    <3>1. closing[f] \in Task /\ of[closing[f]] = f
      BY <1>t, <2>1 DEF FileInv, TypeOK
    <3>2. closing[f] # t
      BY <1>2, <2>1, <3>1
    <3> QED
      BY <1>6, <3>1, <3>2 DEF InHand
  <2>2. \A f \in File : closing[f] # None /\ closing[f] \notin tasks[f] =>
          (InHand(closing[f])' <=> InHand(closing[f]))
    BY <1>u, <2>1 DEF InHand
  <2> QED
    BY <1>t, <1>u, <2>2 DEF FileInv
<1>12. BusyInv'
  BY <1>1, <1>6, <1>7, <1>t DEF BusyInv
<1>13. CountInv'
  <2>1. \A p \in Queue : Counts(p)' = Counts(p)
    BY <1>7, <1>8, <1>u DEF Counts
  <2> QED
    BY <1>t, <1>u, <2>1 DEF CountInv
<1>14. ASSUME NEW d \in Thread PROVE CallInv(d)'
  <2>1. CASE d = c
    BY <1>1, <1>2, <1>4, <1>u, <2>1 DEF CallInv, Holding
  <2>2. CASE d # c
    <3>1. CallInv(d) /\ held'[d] = held[d] /\ using'[d] = using[d] /\ at'[d] = at[d]
      BY <1>4, <1>t, <2>2 DEF ThreadInv
    <3>2. /\ held[d] # None => held[d] \in live
          /\ at[d] \in {"read", "close", "queue"} => queue[using[d].queue] = "open"
          /\ at[d] = "drain" => queue[using[d].queue] \in {"dying", "freed"}
      BY <3>1 DEF CallInv
    <3> QED
      BY <1>u, <3>1, <3>2, CallKept
  <2> QED
    BY <2>1, <2>2
<1> QED
  BY <1>1, <1>5, <1>9, <1>10, <1>11, <1>12, <1>13, <1>14 DEF CoreInv, ThreadInv

(* GetAsyncIOResult, WaitAsyncIOResult and DestroyAsyncIOQueue take one.    *)
LEMMA ResultStep ==
  ASSUME IInv, NEW c \in Thread,
         \/ \E q \in Queue : GetResult(c, q)
         \/ WaitReturn(c)
         \/ Drain(c)
  PROVE  CoreInv'
<1>t. TypeOK /\ CallInv(c)
  BY DEF IInv, CoreInv, ThreadInv
<1>w. using \in [Thread -> [file : File \cup {None}, queue : Queue \cup {None}]]
  BY <1>t DEF TypeOK
<1>1. ASSUME NEW q \in Queue, GetResult(c, q) PROVE CoreInv'
  <2>1. /\ at[c] = "idle" /\ completed[q] # <<>>
        /\ held' = [held EXCEPT ![c] = Head(completed[q])]
        /\ completed' = [completed EXCEPT ![q] = Tail(@)]
        /\ at' = [at EXCEPT ![c] = "outcome"]
        /\ using' = [using EXCEPT ![c].queue = q]
        /\ UNCHANGED <<fileVars, queue, inflight, taskVars, poolVars, quits>>
    BY <1>1 DEF GetResult
  <2>2. /\ using' \in [Thread -> [file : File \cup {None}, queue : Queue \cup {None}]]
        /\ using'[c].queue = q /\ \A d \in Thread : d # c => using'[d] = using[d]
    BY <1>w, <2>1
  <2> QED
    BY <2>1, <2>2, TakeStep
<1> DEFINE q == using[c].queue
<1>2. ASSUME at[c] \in {"woken", "drain"}, completed[q] # <<>>,
             held' = [held EXCEPT ![c] = Head(completed[q])],
             completed' = [completed EXCEPT ![q] = Tail(@)],
             at' = [at EXCEPT ![c] = "outcome"], UNCHANGED using,
             UNCHANGED <<fileVars, queue, inflight, taskVars, poolVars, quits>>
      PROVE  CoreInv'
  <2>1. q \in Queue
    BY <1>2, <1>t DEF CallInv
  <2>2. /\ using' \in [Thread -> [file : File \cup {None}, queue : Queue \cup {None}]]
        /\ using'[c].queue = q /\ \A d \in Thread : d # c => using'[d] = using[d]
    BY <1>w, <1>2
  <2> QED
    BY <1>2, <2>1, <2>2, TakeStep
<1>3. ASSUME WaitReturn(c) PROVE CoreInv'
  <2>1. \/ /\ at[c] = "woken" /\ completed[q] # <<>>
           /\ held' = [held EXCEPT ![c] = Head(completed[q])]
           /\ completed' = [completed EXCEPT ![q] = Tail(@)]
           /\ at' = [at EXCEPT ![c] = "outcome"] /\ UNCHANGED using
           /\ UNCHANGED <<fileVars, queue, inflight, taskVars, poolVars, quits>>
        \/ UNCHANGED <<held, completed>>
    BY <1>3 DEF WaitReturn
  <2> QED
    BY <1>2, <1>3, <2>1, EmptyStep
<1>4. ASSUME Drain(c) PROVE CoreInv'
  <2>1. \/ /\ at[c] = "drain" /\ completed[q] # <<>>
           /\ held' = [held EXCEPT ![c] = Head(completed[q])]
           /\ completed' = [completed EXCEPT ![q] = Tail(@)]
           /\ at' = [at EXCEPT ![c] = "outcome"] /\ UNCHANGED using
           /\ UNCHANGED <<fileVars, queue, inflight, taskVars, poolVars, quits>>
        \/ UNCHANGED <<held, completed>>
    BY <1>4 DEF Drain
  <2> QED
    BY <1>2, <1>4, <2>1, EmptyStep
<1> QED
  BY <1>1, <1>3, <1>4

(* A task that is not allocated yet is nowhere.                             *)
LEMMA FreshFacts ==
  ASSUME CoreInv, NEW t \in fresh
  PROVE  /\ t \in Task /\ t # None /\ t \notin live /\ ~Busy(t) /\ ~InHand(t)
         /\ \A f \in File : t \notin tasks[f] /\ closing[f] # t
         /\ of[t] = None
<1>1. t \in Task /\ t # None /\ t \notin live /\ of[t] = None
  BY NoneIsNothing DEF CoreInv, TypeOK, LiveInv
<1>2. ~Busy(t)
  BY <1>1 DEF CoreInv, BusyInv, Listed
<1>3. ~InHand(t)
  BY <1>1 DEF CoreInv, ThreadInv, CallInv, InHand
<1>4. \A f \in File : t \notin tasks[f] /\ closing[f] # t
  BY <1>1 DEF CoreInv, FileInv
<1> QED
  BY <1>1, <1>2, <1>3, <1>4

(* A task that is not busy may get another destination.                     *)
LEMMA PlaceKept ==
  ASSUME PlaceInv, TypeOK, UNCHANGED <<pool, completed, working, worker>>,
         \A u \in Task : Busy(u) => to'[u] = to[u]
  PROVE  /\ PlaceInv'
         /\ \A u : (Busy(u)' <=> Busy(u)) /\ (InDone(u)' <=> InDone(u))
<1>1. \A u : /\ InWork(u)' <=> InWork(u)
             /\ InDone(u)' <=> InDone(u)
             /\ Busy(u)' <=> Busy(u)
  BY DEF InWork, InDone, Busy
<1>2. ASSUME NEW q \in Queue, NEW u \in Elements(completed[q]) PROVE to'[u] = to[u]
  <2>1. completed[q] \in Seq(Task)
    BY DEF TypeOK
  <2>2. u \in Task
    BY <2>1, ElementsTyped
  <2> QED
    BY <2>2 DEF Busy, InDone
<1>3. PlaceInv'
  BY <1>1, <1>2 DEF PlaceInv
<1> QED
  BY <1>1, <1>3

(* How many tasks count in a queue.                                         *)
LEMMA CountFacts ==
  ASSUME TypeOK, NEW q
  PROVE  /\ Cardinality(Counts(q)) \in Nat
         /\ \A t : /\ t \notin Counts(q) =>
                        Cardinality(Counts(q) \cup {t}) = Cardinality(Counts(q)) + 1
                   /\ t \in Counts(q) =>
                        /\ Cardinality(Counts(q) \ {t}) = Cardinality(Counts(q)) - 1
                        /\ Cardinality(Counts(q)) > 0
         /\ Cardinality(Counts(q)) = 0 => Counts(q) = {}
<1>1. Counts(q) \in SUBSET Task
  BY DEF Counts, TypeOK
<1>2. IsFiniteSet(Counts(q))
  BY <1>1, Bounded, FS_Subset
<1> DEFINE S == Counts(q)
<1>3. IsFiniteSet(S)
  BY <1>2
<1> HIDE DEF S
<1>4. Cardinality(S) \in Nat
  BY <1>3, FS_CardinalityType
<1>5. \A t : t \notin S => Cardinality(S \cup {t}) = Cardinality(S) + 1
  BY <1>3, FS_AddElement
<1>6. \A t : t \in S => Cardinality(S \ {t}) = Cardinality(S) - 1
  BY <1>3, FS_RemoveElement
<1>7. Cardinality(S) = 0 <=> S = {}
  BY <1>3, FS_EmptySet
<1>8. \A t : t \in S => Cardinality(S) > 0
  BY <1>4, <1>7
<1> QED
  BY <1>4, <1>5, <1>6, <1>7, <1>8 DEF S

(* A read or a write is started.                                            *)
LEMMA RequestStep ==
  ASSUME IInv, NEW c \in Thread, NEW f \in File, NEW q \in Queue,
         RequestAsyncIO(c, f, q)
  PROVE  CoreInv'
<1>t. TypeOK /\ CoreInv /\ PlaceInv /\ ThreadInv /\ HandInv /\ LiveInv /\ FileInv /\ BusyInv /\ CountInv
  BY DEF IInv, CoreInv
<1>w. /\ at \in [Thread -> Place] /\ held \in [Thread -> Task \cup {None}]
      /\ using \in [Thread -> [file : File \cup {None}, queue : Queue \cup {None}]]
      /\ of \in [Task -> File \cup {None}] /\ to \in [Task -> Queue \cup {None}]
      /\ tasks \in [File -> SUBSET Task] /\ inflight \in [Queue -> Nat]
      /\ live \subseteq Task /\ fresh \subseteq Task
      /\ closing \in [File -> Task \cup {None}]
  BY <1>t DEF TypeOK, Place
<1>0. PICK t \in fresh :
        /\ fresh' = fresh \ {t} /\ live' = live \cup {t}
        /\ of' = [of EXCEPT ![t] = f] /\ to' = [to EXCEPT ![t] = q]
        /\ tasks' = [tasks EXCEPT ![f] = @ \cup {t}]
        /\ held' = [held EXCEPT ![c] = t]
  BY DEF RequestAsyncIO
<1>1. /\ Requests(c, f, q) /\ closing[f] = None
      /\ inflight' = [inflight EXCEPT ![q] = @ + 1]
      /\ at' = [at EXCEPT ![c] = "queue"]
      /\ using' = [using EXCEPT ![c] = [file |-> f, queue |-> q]]
      /\ UNCHANGED <<file, oneshot, closing, queue, completed, poolVars, quits>>
  BY DEF RequestAsyncIO, TakesTasks, Counted
<1>2. /\ t \in Task /\ t # None /\ t \notin live /\ ~Busy(t) /\ ~InHand(t)
      /\ \A g \in File : t \notin tasks[g] /\ closing[g] # t
  BY <1>t, FreshFacts
<1>3. held[c] = None /\ queue[q] = "open"
  BY <1>1, <1>t DEF Requests, ThreadInv, CallInv, Holding
<1>4. /\ of' \in [Task -> File \cup {None}] /\ to' \in [Task -> Queue \cup {None}]
      /\ of'[t] = f /\ to'[t] = q
      /\ \A u \in Task : u # t => of'[u] = of[u] /\ to'[u] = to[u]
  BY <1>0, <1>2, <1>w
<1>5. /\ tasks' \in [File -> SUBSET Task] /\ tasks'[f] = tasks[f] \cup {t}
      /\ \A g \in File : g # f => tasks'[g] = tasks[g]
  BY <1>0, <1>2, <1>w
<1>6. /\ held' \in [Thread -> Task \cup {None}] /\ held'[c] = t
      /\ at' \in [Thread -> Place] /\ at'[c] = "queue"
      /\ using' \in [Thread -> [file : File \cup {None}, queue : Queue \cup {None}]]
      /\ using'[c].queue = q
      /\ \A d \in Thread : d # c => at'[d] = at[d] /\ held'[d] = held[d] /\ using'[d] = using[d]
  BY <1>0, <1>1, <1>2, <1>w DEF Place
<1>7. /\ inflight' \in [Queue -> Nat] /\ inflight'[q] = inflight[q] + 1
      /\ \A p \in Queue : p # q => inflight'[p] = inflight[p]
  BY <1>1, <1>w
<1>8. TypeOK'
  BY <1>0, <1>1, <1>2, <1>4, <1>5, <1>6, <1>7, <1>t DEF TypeOK, poolVars, Place
<1>9. \A u \in Task : InHand(u)' <=> InHand(u) \/ u = t
  BY <1>2, <1>3, <1>6, NoneIsNothing DEF InHand
<1>10. /\ PlaceInv'
       /\ \A u \in Task : Busy(u)' <=> Busy(u)
  <2>1. \A u \in Task : Busy(u) => to'[u] = to[u]
    BY <1>2, <1>4
  <2>2. UNCHANGED <<pool, completed, working, worker>>
    BY <1>1 DEF poolVars
  <2> QED
    BY <1>t, <2>1, <2>2, PlaceKept
<1>11. /\ \A u \in live : /\ Started(u)' <=> Started(u)
                          /\ Listed(u)' <=> Listed(u)
       /\ Started(t)'
  <2>1. ASSUME NEW u \in live
        PROVE  u \in tasks'[of'[u]] <=> u \in tasks[of[u]]
    <3>1. u \in Task /\ u # t /\ of[u] \in File /\ of'[u] = of[u]
      BY <1>2, <1>4, <1>t, <1>w DEF LiveInv
    <3> QED
      BY <1>5, <3>1
  <2>2. t \in tasks'[of'[t]]
    BY <1>4, <1>5
  <2>3. \A u \in live : u \in Task /\ u # t /\ u \in live'
    BY <1>0, <1>2, <1>w
  <2> QED
    BY <1>9, <2>1, <2>2, <2>3 DEF Started, Listed
<1>12. HandInv'
  BY <1>2, <1>6, <1>t DEF HandInv, InHand
<1>13. LiveInv'
  <2>1. live' \cap fresh' = {}
    BY <1>0, <1>t DEF LiveInv
  <2>2. \A u \in live' : /\ of'[u] \in File /\ to'[u] \in Queue
                         /\ Started(u)' \/ closing'[of'[u]] = u
    <3>1. ASSUME NEW u \in live
          PROVE  /\ of'[u] \in File /\ to'[u] \in Queue
                 /\ Started(u)' \/ closing'[of'[u]] = u
      <4>1. of'[u] = of[u] /\ to'[u] = to[u] /\ closing' = closing
        BY <1>1, <1>2, <1>4, <1>w
      <4> QED
        BY <1>11, <1>t, <4>1 DEF LiveInv
    <3> QED
      BY <1>0, <1>4, <1>11, <3>1
  <2>3. \A u \in fresh' : of'[u] = None
    BY <1>0, <1>4, <1>t, <1>w DEF LiveInv
  <2> QED
    BY <2>1, <2>2, <2>3 DEF LiveInv
<1>14. FileInv'
  <2>1. ASSUME NEW g \in File, NEW u \in tasks'[g] PROVE u \in live' /\ of'[u] = g
    <3>1. CASE u = t
      BY <1>0, <1>2, <1>4, <1>5, <2>1, <3>1
    <3>2. CASE u # t
      <4>1. u \in tasks[g]
        BY <1>5, <2>1, <3>2
      <4>2. u \in live /\ of[u] = g
        BY <1>t, <4>1 DEF FileInv
      <4> QED
        BY <1>0, <1>4, <1>w, <3>2, <4>2
    <3> QED
      BY <3>1, <3>2
  <2>2. ASSUME NEW g \in File, closing'[g] # None
        PROVE  /\ closing'[g] \notin fresh' /\ of'[closing'[g]] = g
               /\ closing'[g] \in tasks'[g] => tasks'[g] = {closing'[g]}
               /\ closing'[g] \notin tasks'[g] =>
                    (tasks'[g] # {} <=> closing'[g] \in live' /\ ~InHand(closing[g])')
    <3>1. closing' = closing /\ g # f /\ tasks'[g] = tasks[g]
      BY <1>1, <1>5, <2>2
    <3>2. closing[g] \in Task /\ closing[g] # t
      BY <1>2, <1>w, <2>2, <3>1
    <3>3. /\ closing[g] \notin fresh /\ of[closing[g]] = g
          /\ closing[g] \in tasks[g] => tasks[g] = {closing[g]}
          /\ closing[g] \notin tasks[g] =>
               (tasks[g] # {} <=> closing[g] \in live /\ ~InHand(closing[g]))
      BY <1>t, <2>2, <3>1 DEF FileInv
    <3>4. (\E d \in Thread : held'[d] = closing[g]) <=> InHand(closing[g])
      BY <1>9, <3>2 DEF InHand
    <3>5. InHand(closing[g])' <=> InHand(closing[g])
      BY <3>1, <3>4 DEF InHand
    <3>6. closing[g] \in live' <=> closing[g] \in live
      BY <1>0, <3>2
    <3>7. closing[g] \notin fresh' /\ of'[closing[g]] = g
      BY <1>0, <1>4, <3>2, <3>3
    <3> QED
      BY <3>1, <3>3, <3>5, <3>6, <3>7
  <2> QED
    BY <2>1, <2>2 DEF FileInv
<1>15. BusyInv'
  <2>1. ASSUME NEW u \in Task, Busy(u) PROVE Listed(u)' /\ ~InHand(u)'
    <3>1. u \in live /\ Listed(u) /\ ~InHand(u) /\ u # t
      BY <1>2, <1>t, <2>1 DEF BusyInv, Listed
    <3> QED
      BY <1>9, <1>11, <3>1
  <2> QED
    BY <1>10, <2>1 DEF BusyInv
<1>16. CountInv'
  <2>1. t \notin Counts(q)
    BY <1>2 DEF Counts
  <2>2. ASSUME NEW p \in Queue
        PROVE  Counts(p)' = IF p = q THEN Counts(p) \cup {t} ELSE Counts(p)
    <3>1. \A u \in live : to'[u] = to[u]
      BY <1>2, <1>4, <1>w
    <3> QED
      BY <1>0, <1>4, <1>11, <3>1 DEF Counts
  <2>3. Cardinality(Counts(q) \cup {t}) = Cardinality(Counts(q)) + 1
    BY <1>t, <2>1, CountFacts
  <2> QED
    BY <1>7, <1>t, <2>2, <2>3 DEF CountInv
<1>17. ASSUME NEW d \in Thread PROVE CallInv(d)'
  <2>1. CASE d = c
    BY <1>0, <1>1, <1>2, <1>3, <1>4, <1>5, <1>6, <2>1 DEF CallInv, Holding
  <2>2. CASE d # c
    <3>1. CallInv(d) /\ held'[d] = held[d] /\ using'[d] = using[d] /\ at'[d] = at[d]
      BY <1>6, <1>t, <2>2 DEF ThreadInv
    <3>2. /\ held[d] # None => held[d] \in live
          /\ at[d] \in {"read", "close", "queue"} => queue[using[d].queue] = "open"
          /\ at[d] = "drain" => queue[using[d].queue] \in {"dying", "freed"}
      BY <3>1 DEF CallInv
    <3>3. held[d] # None => /\ held[d] \in live'
                            /\ to'[held[d]] = to[held[d]] /\ of'[held[d]] = of[held[d]]
                            /\ held[d] \in tasks'[of[held[d]]] <=> held[d] \in tasks[of[held[d]]]
      <4>1. ASSUME held[d] # None
            PROVE  held[d] \in Task /\ held[d] # t /\ of[held[d]] \in File
        BY <1>2, <1>t, <1>w, <3>2, <4>1 DEF LiveInv
      <4> QED
        BY <1>0, <1>4, <1>5, <3>2, <4>1
    <3> QED
      BY <1>1, <3>1, <3>2, <3>3, CallKept
  <2> QED
    BY <2>1, <2>2
<1> QED
  BY <1>8, <1>10, <1>12, <1>13, <1>14, <1>15, <1>16, <1>17 DEF CoreInv, ThreadInv

(* The task that was started is handed to the pool.                         *)
LEMMA QueueStep ==
  ASSUME IInv, NEW c \in Thread, QueueTask(c)
  PROVE  CoreInv'
<1>t. TypeOK /\ CoreInv /\ PlaceInv /\ ThreadInv /\ HandInv /\ LiveInv /\ FileInv /\ BusyInv /\ CountInv
  BY DEF IInv, CoreInv
<1>w. /\ at \in [Thread -> Place] /\ held \in [Thread -> Task \cup {None}]
      /\ using \in [Thread -> [file : File \cup {None}, queue : Queue \cup {None}]]
      /\ closing \in [File -> Task \cup {None}] /\ live \subseteq Task
  BY <1>t DEF TypeOK, Place
<1> DEFINE t == held[c]
           q == using[c].queue
<1>1. at[c] = "queue" /\ CallInv(c)
  BY <1>t DEF QueueTask, ThreadInv
<1>2. /\ t \in Task /\ t # None /\ t \in live /\ q = to[t] /\ q \in Queue
      /\ t \in tasks[of[t]] /\ closing[of[t]] # t /\ queue[q] = "open" /\ InHand(t)
      /\ of[t] \in File
  BY <1>1, <1>t, <1>w DEF CallInv, Holding, InHand, LiveInv
<1>3. PICK next \in {"close", "idle"} :
        /\ QueueAsyncIOTask(t, q, [at EXCEPT ![c] = next])
        /\ using' = IF next = "close" THEN using ELSE [using EXCEPT ![c] = NoUse]
  BY DEF QueueTask
<1>4. /\ held' = [held EXCEPT ![c] = None]
      /\ UNCHANGED <<fileVars, queue, inflight, taskVars, init, stop, working, quits>>
  BY DEF QueueTask
<1> HIDE DEF t, q
<1> DEFINE a == [at EXCEPT ![c] = next]
<1>5. a \in [Thread -> Place] /\ a[c] = next /\ \A d \in Thread : d # c => a[d] = at[d]
  BY <1>w DEF Place
<1> HIDE DEF a
<1>6. ~Busy(t)
  BY <1>2, <1>t DEF BusyInv
<1>7. UNCHANGED <<tasks, closing, live, fresh, of, to, inflight, queue, working>>
  BY <1>4 DEF fileVars, taskVars
<1>8. /\ completed' \in [Queue -> Seq(Task)] /\ pool' \in Seq(Task)
      /\ worker' \in [Worker -> Post] /\ at' \in [Thread -> Place]
      /\ PlaceInv'
      /\ \A u \in Task : Busy(u)' <=> Busy(u) \/ u = t
      /\ \A d \in Thread : at'[d] = a[d] \/ (d \in Asleep(q) /\ at'[d] = "woken")
  <2>1. QueueAsyncIOTask(t, q, a) /\ to'[t] = q /\ \A u \in Task : Busy(u) => to'[u] = to[u]
    BY <1>2, <1>3, <1>7 DEF a
  <2>2. working' = working
    BY <1>7
  <2> QED
    BY <1>2, <1>5, <1>6, <1>t, <2>1, <2>2, QueueFacts
<1>9. /\ at'[c] = next
      /\ \A d \in Thread : d # c => at'[d] = at[d] \/ (at[d] = "asleep" /\ at'[d] = "woken")
  BY <1>1, <1>5, <1>8 DEF Asleep
<1>10. /\ held' \in [Thread -> Task \cup {None}] /\ held'[c] = None
       /\ using' \in [Thread -> [file : File \cup {None}, queue : Queue \cup {None}]]
       /\ next = "close" => using'[c] = using[c]
       /\ \A d \in Thread : d # c => held'[d] = held[d] /\ using'[d] = using[d]
  BY <1>3, <1>4, <1>w DEF NoUse
<1>11. TypeOK'
  BY <1>4, <1>8, <1>10, <1>t DEF TypeOK, fileVars, taskVars, Post, Place
<1>12. \A u \in Task : InHand(u)' <=> InHand(u) /\ u # t
  <2>1. \A d \in Thread : held[d] = t => d = c
    BY <1>2, <1>t DEF HandInv, t
  <2>2. held[c] = t
    BY DEF t
  <2> QED
    BY <1>10, <2>1, <2>2, NoneIsNothing DEF InHand
<1>13. \A u \in Task : /\ Started(u)' <=> Started(u)
                       /\ Listed(u)' <=> Listed(u)
  BY <1>2, <1>7, <1>12 DEF Started, Listed
<1>14. HandInv'
  BY <1>10, <1>t DEF HandInv
<1>15. LiveInv'
  BY <1>7, <1>13, <1>t, <1>w DEF LiveInv
<1>16. FileInv'
  <2>1. ASSUME NEW f \in File, closing[f] # None
        PROVE  (\E d \in Thread : held'[d] = closing[f]) <=> InHand(closing[f])
    <3>1. closing[f] \in Task /\ of[closing[f]] = f
      BY <1>t, <1>w, <2>1 DEF FileInv
    <3>2. closing[f] # t
      BY <1>2, <3>1
    <3> QED
      BY <1>12, <3>1, <3>2 DEF InHand
  <2>2. \A f \in File : closing[f] # None => (InHand(closing[f])' <=> InHand(closing[f]))
    BY <1>7, <2>1 DEF InHand
  <2> QED
    BY <1>7, <1>t, <2>2 DEF FileInv
<1>17. BusyInv'
  <2>1. Listed(t)
    BY <1>2 DEF Listed
  <2> QED
    BY <1>8, <1>12, <1>13, <1>t, <2>1 DEF BusyInv
<1>18. CountInv'
  <2>1. \A p \in Queue : Counts(p)' = Counts(p)
    BY <1>7, <1>13, <1>w DEF Counts
  <2> QED
    BY <1>7, <1>t, <2>1 DEF CountInv
<1>19. ASSUME NEW d \in Thread PROVE CallInv(d)'
  <2>1. CASE d = c
    <3>1. next = "close" => using'[c].queue = q
      BY <1>10 DEF q
    <3> QED
      BY <1>2, <1>7, <1>9, <1>10, <2>1, <3>1 DEF CallInv, Holding
  <2>2. CASE d # c
    <3>1. /\ CallInv(d) /\ held'[d] = held[d] /\ using'[d] = using[d]
          /\ at'[d] = at[d] \/ (at[d] = "asleep" /\ at'[d] = "woken")
      BY <1>9, <1>10, <1>t, <2>2 DEF ThreadInv
    <3>2. /\ held[d] # None => held[d] \in live
          /\ at[d] \in {"read", "close", "queue"} => queue[using[d].queue] = "open"
          /\ at[d] = "drain" => queue[using[d].queue] \in {"dying", "freed"}
      BY <3>1 DEF CallInv
    <3> QED
      BY <1>7, <3>1, <3>2, CallKept
  <2> QED
    BY <2>1, <2>2
<1> QED
  BY <1>8, <1>11, <1>14, <1>15, <1>16, <1>17, <1>18, <1>19 DEF CoreInv, ThreadInv

(* A close is asked for: it starts at once, or waits for the other tasks.   *)
LEMMA CloseStep ==
  ASSUME IInv, NEW c \in Thread, NEW f \in File, NEW q \in Queue,
         CloseAsyncIO(c, f, q)
  PROVE  CoreInv'
<1>t. TypeOK /\ CoreInv /\ PlaceInv /\ ThreadInv /\ HandInv /\ LiveInv /\ FileInv /\ BusyInv /\ CountInv
  BY DEF IInv, CoreInv
<1>w. /\ at \in [Thread -> Place] /\ held \in [Thread -> Task \cup {None}]
      /\ using \in [Thread -> [file : File \cup {None}, queue : Queue \cup {None}]]
      /\ of \in [Task -> File \cup {None}] /\ to \in [Task -> Queue \cup {None}]
      /\ tasks \in [File -> SUBSET Task] /\ inflight \in [Queue -> Nat]
      /\ live \subseteq Task /\ fresh \subseteq Task
      /\ closing \in [File -> Task \cup {None}]
      /\ completed \in [Queue -> Seq(Task)] /\ pool \in Seq(Task) /\ worker \in [Worker -> Post]
  BY <1>t DEF TypeOK, Place, Post
<1> DEFINE a == [at EXCEPT ![c] = "idle"]
<1>0. PICK t \in fresh :
        /\ fresh' = fresh \ {t} /\ live' = live \cup {t}
        /\ of' = [of EXCEPT ![t] = f] /\ to' = [to EXCEPT ![t] = q]
        /\ closing' = [closing EXCEPT ![f] = t]
        /\ \/ /\ NoTasks(f)
              /\ tasks' = [tasks EXCEPT ![f] = @ \cup {t}]
              /\ inflight' = Counted(q)
              /\ QueueAsyncIOTask(t, q, a)
           \/ /\ ~NoTasks(f)
              /\ at' = a
              /\ UNCHANGED <<tasks, inflight, completed, pool, worker>>
  BY DEF CloseAsyncIO
<1>1. /\ Closes(c, f, q) /\ closing[f] = None
      /\ using' = [using EXCEPT ![c] = NoUse]
      /\ UNCHANGED <<file, oneshot, queue, init, stop, working, held, quits>>
  BY DEF CloseAsyncIO
<1>2. /\ t \in Task /\ t # None /\ t \notin live /\ ~Busy(t) /\ ~InHand(t)
      /\ \A g \in File : t \notin tasks[g] /\ closing[g] # t
  BY <1>t, FreshFacts
<1>3. held[c] = None /\ at[c] \in {"idle", "close"}
  BY <1>1, <1>t DEF Closes, ThreadInv, CallInv, Holding
<1>a. a \in [Thread -> Place] /\ a[c] = "idle" /\ \A d \in Thread : d # c => a[d] = at[d]
  BY <1>w DEF Place
<1> HIDE DEF a
<1>4. /\ of' \in [Task -> File \cup {None}] /\ to' \in [Task -> Queue \cup {None}]
      /\ of'[t] = f /\ to'[t] = q
      /\ \A u \in Task : u # t => of'[u] = of[u] /\ to'[u] = to[u]
  BY <1>0, <1>2, <1>w
<1>5. /\ closing' \in [File -> Task \cup {None}] /\ closing'[f] = t
      /\ \A g \in File : g # f => closing'[g] = closing[g]
  BY <1>0, <1>2, <1>w
<1>6. /\ using' \in [Thread -> [file : File \cup {None}, queue : Queue \cup {None}]]
      /\ \A d \in Thread : d # c => using'[d] = using[d]
  BY <1>1, <1>w DEF NoUse
<1>7. \A u \in Task : Busy(u) => to'[u] = to[u]
  BY <1>2, <1>4
<1>8. /\ completed' \in [Queue -> Seq(Task)] /\ pool' \in Seq(Task)
      /\ worker' \in [Worker -> Post] /\ at' \in [Thread -> Place]
      /\ tasks' \in [File -> SUBSET Task] /\ inflight' \in [Queue -> Nat]
      /\ PlaceInv'
      /\ at'[c] = "idle"
      /\ \A d \in Thread : d # c => at'[d] = at[d] \/ (at[d] = "asleep" /\ at'[d] = "woken")
      /\ \A g \in File : g # f => tasks'[g] = tasks[g]
      /\ \A p \in Queue : p # q => inflight'[p] = inflight[p]
      /\ \/ /\ tasks[f] = {} /\ tasks'[f] = {t} /\ inflight'[q] = inflight[q] + 1
            /\ \A u \in Task : Busy(u)' <=> Busy(u) \/ u = t
         \/ /\ tasks[f] # {} /\ tasks'[f] = tasks[f] /\ inflight'[q] = inflight[q]
            /\ \A u \in Task : Busy(u)' <=> Busy(u)
  <2>1. ASSUME NoTasks(f), tasks' = [tasks EXCEPT ![f] = @ \cup {t}],
               inflight' = Counted(q), QueueAsyncIOTask(t, q, a)
        PROVE  /\ completed' \in [Queue -> Seq(Task)] /\ pool' \in Seq(Task)
               /\ worker' \in [Worker -> Post] /\ at' \in [Thread -> Place]
               /\ tasks' \in [File -> SUBSET Task] /\ inflight' \in [Queue -> Nat]
               /\ PlaceInv'
               /\ at'[c] = "idle"
               /\ \A d \in Thread : d # c => at'[d] = at[d] \/ (at[d] = "asleep" /\ at'[d] = "woken")
               /\ \A g \in File : g # f => tasks'[g] = tasks[g]
               /\ \A p \in Queue : p # q => inflight'[p] = inflight[p]
               /\ tasks[f] = {} /\ tasks'[f] = {t} /\ inflight'[q] = inflight[q] + 1
               /\ \A u \in Task : Busy(u)' <=> Busy(u) \/ u = t
    <3>1. /\ completed' \in [Queue -> Seq(Task)] /\ pool' \in Seq(Task)
          /\ worker' \in [Worker -> Post] /\ at' \in [Thread -> Place]
          /\ PlaceInv'
          /\ \A u \in Task : Busy(u)' <=> Busy(u) \/ u = t
          /\ \A d \in Thread : at'[d] = a[d] \/ (d \in Asleep(q) /\ at'[d] = "woken")
      <4>1. working' = working
        BY <1>1
      <4> QED
        BY <1>2, <1>4, <1>7, <1>a, <1>t, <2>1, <4>1, QueueFacts
    <3>2. /\ at'[c] = "idle"
          /\ \A d \in Thread : d # c => at'[d] = at[d] \/ (at[d] = "asleep" /\ at'[d] = "woken")
      BY <1>3, <1>a, <3>1 DEF Asleep
    <3>3. /\ tasks' \in [File -> SUBSET Task] /\ tasks'[f] = {t} /\ tasks[f] = {}
          /\ \A g \in File : g # f => tasks'[g] = tasks[g]
      BY <1>2, <1>w, <2>1 DEF NoTasks
    <3>4. /\ inflight' \in [Queue -> Nat] /\ inflight'[q] = inflight[q] + 1
          /\ \A p \in Queue : p # q => inflight'[p] = inflight[p]
      BY <1>w, <2>1 DEF Counted
    <3> QED
      BY <3>1, <3>2, <3>3, <3>4
  <2>2. ASSUME ~NoTasks(f), at' = a, UNCHANGED <<tasks, inflight, completed, pool, worker>>
        PROVE  /\ completed' \in [Queue -> Seq(Task)] /\ pool' \in Seq(Task)
               /\ worker' \in [Worker -> Post] /\ at' \in [Thread -> Place]
               /\ tasks' \in [File -> SUBSET Task] /\ inflight' \in [Queue -> Nat]
               /\ PlaceInv'
               /\ at'[c] = "idle"
               /\ \A d \in Thread : d # c => at'[d] = at[d] \/ (at[d] = "asleep" /\ at'[d] = "woken")
               /\ \A g \in File : g # f => tasks'[g] = tasks[g]
               /\ \A p \in Queue : p # q => inflight'[p] = inflight[p]
               /\ tasks[f] # {} /\ tasks'[f] = tasks[f] /\ inflight'[q] = inflight[q]
               /\ \A u \in Task : Busy(u)' <=> Busy(u)
    <3>1. /\ PlaceInv'
          /\ \A u \in Task : Busy(u)' <=> Busy(u)
      <4>1. UNCHANGED <<pool, completed, working, worker>>
        BY <1>1, <2>2
      <4> QED
        BY <1>7, <1>t, <4>1, PlaceKept
    <3> QED
      BY <1>a, <1>w, <2>2, <3>1 DEF NoTasks
  <2> QED
    BY <1>0, <2>1, <2>2
<1>9. TypeOK'
  BY <1>0, <1>1, <1>2, <1>4, <1>5, <1>6, <1>8, <1>t DEF TypeOK, Post, Place
<1>10. \A u : InHand(u)' <=> InHand(u)
  BY <1>1 DEF InHand
<1>11. /\ \A u \in live : /\ Started(u)' <=> Started(u)
                          /\ Listed(u)' <=> Listed(u)
       /\ Started(t)' <=> tasks[f] = {}
       /\ Listed(t)' <=> tasks[f] = {}
  <2>1. ASSUME NEW u \in live
        PROVE  u \in tasks'[of'[u]] <=> u \in tasks[of[u]]
    <3>1. u \in Task /\ u # t /\ of[u] \in File /\ of'[u] = of[u]
      BY <1>2, <1>4, <1>t, <1>w DEF LiveInv
    <3> QED
      BY <1>8, <3>1
  <2>2. t \in tasks'[of'[t]] <=> tasks[f] = {}
    BY <1>2, <1>4, <1>8
  <2>3. \A u \in live : u \in live'
    BY <1>0
  <2>4. t \in live' /\ ~InHand(t)'
    BY <1>0, <1>2, <1>10
  <2> QED
    BY <1>10, <2>1, <2>2, <2>3, <2>4 DEF Started, Listed
<1>12. HandInv'
  BY <1>1, <1>t DEF HandInv
<1>13. LiveInv'
  <2>1. live' \cap fresh' = {}
    BY <1>0, <1>t DEF LiveInv
  <2>2. ASSUME NEW u \in live
        PROVE  /\ of'[u] \in File /\ to'[u] \in Queue
               /\ Started(u)' \/ closing'[of'[u]] = u
    <3>1. of'[u] = of[u] /\ to'[u] = to[u] /\ of[u] \in File /\ to[u] \in Queue
      BY <1>2, <1>4, <1>t, <1>w DEF LiveInv
    <3>2. Started(u) \/ closing[of[u]] = u
      BY <1>t DEF LiveInv
    <3>3. closing[of[u]] = u => of[u] # f
      BY <1>1, <1>w, NoneIsNothing
    <3> QED
      BY <1>5, <1>11, <3>1, <3>2, <3>3
  <2>3. of'[t] \in File /\ to'[t] \in Queue /\ closing'[of'[t]] = t
    BY <1>4, <1>5
  <2>4. \A u \in fresh' : of'[u] = None
    BY <1>0, <1>4, <1>t, <1>w DEF LiveInv
  <2>5. \A u \in live' : u \in live \/ u = t
    BY <1>0
  <2> QED
    BY <2>1, <2>2, <2>3, <2>4, <2>5 DEF LiveInv
<1>14. FileInv'
  <2>1. ASSUME NEW g \in File, NEW u \in tasks'[g] PROVE u \in live' /\ of'[u] = g
    <3>1. CASE u = t
      BY <1>0, <1>2, <1>4, <1>8, <2>1, <3>1
    <3>2. CASE u # t
      <4>1. u \in tasks[g]
        BY <1>8, <2>1, <3>2
      <4>2. u \in live /\ of[u] = g
        BY <1>t, <4>1 DEF FileInv
      <4> QED
        BY <1>0, <1>4, <1>w, <3>2, <4>2
    <3> QED
      BY <3>1, <3>2
  <2>2. ASSUME NEW g \in File, closing'[g] # None
        PROVE  /\ closing'[g] \notin fresh' /\ of'[closing'[g]] = g
               /\ closing'[g] \in tasks'[g] => tasks'[g] = {closing'[g]}
               /\ closing'[g] \notin tasks'[g] =>
                    (tasks'[g] # {} <=> closing'[g] \in live' /\ ~InHand(closing[g])')
    <3>1. CASE g = f
      <4>1. closing'[g] = t /\ t \notin fresh' /\ of'[t] = g /\ t \in live'
        BY <1>0, <1>4, <1>5, <3>1
      <4>2. t \in tasks'[g] => tasks'[g] = {t}
        BY <1>2, <1>8, <3>1
      <4>3. t \notin tasks'[g] => tasks'[g] # {}
        BY <1>8, <3>1
      <4>4. ~InHand(closing[g])'
        <5>1. \A d \in Thread : held'[d] # t
          BY <1>2, <1>1 DEF InHand
        <5> QED
          BY <4>1, <5>1 DEF InHand
      <4> QED
        BY <4>1, <4>2, <4>3, <4>4
    <3>2. CASE g # f
      <4>1. closing'[g] = closing[g] /\ tasks'[g] = tasks[g]
        BY <1>5, <1>8, <3>2
      <4>2. closing[g] \in Task /\ closing[g] # t
        BY <1>2, <1>w, <2>2, <4>1
      <4>3. /\ closing[g] \notin fresh /\ of[closing[g]] = g
            /\ closing[g] \in tasks[g] => tasks[g] = {closing[g]}
            /\ closing[g] \notin tasks[g] =>
                 (tasks[g] # {} <=> closing[g] \in live /\ ~InHand(closing[g]))
        BY <1>t, <2>2, <4>1 DEF FileInv
      <4>4. InHand(closing[g])' <=> InHand(closing[g])
        BY <1>1, <4>1 DEF InHand
      <4>5. /\ closing[g] \in live' <=> closing[g] \in live
            /\ closing[g] \notin fresh' /\ of'[closing[g]] = g
        BY <1>0, <1>4, <4>2, <4>3
      <4> QED
        BY <4>1, <4>3, <4>4, <4>5
    <3> QED
      BY <3>1, <3>2
  <2> QED
    BY <2>1, <2>2 DEF FileInv
<1>15. BusyInv'
  <2>1. ASSUME NEW u \in Task, Busy(u) PROVE Listed(u)' /\ ~InHand(u)'
    <3>1. u \in live /\ Listed(u) /\ ~InHand(u)
      BY <1>t, <2>1 DEF BusyInv, Listed
    <3> QED
      BY <1>10, <1>11, <3>1
  <2>2. ~InHand(t)'
    BY <1>2, <1>10
  <2> QED
    BY <1>8, <1>11, <2>1, <2>2 DEF BusyInv
<1>16. CountInv'
  <2>1. t \notin Counts(q)
    BY <1>2 DEF Counts
  <2>2. ASSUME NEW p \in Queue
        PROVE  Counts(p)' = IF p = q /\ tasks[f] = {} THEN Counts(p) \cup {t} ELSE Counts(p)
    <3>1. \A u \in live : to'[u] = to[u]
      BY <1>2, <1>4, <1>w
    <3> QED
      BY <1>0, <1>2, <1>4, <1>11, <3>1 DEF Counts
  <2>3. Cardinality(Counts(q) \cup {t}) = Cardinality(Counts(q)) + 1
    BY <1>t, <2>1, CountFacts
  <2>4. /\ tasks[f] = {} => inflight'[q] = inflight[q] + 1
        /\ tasks[f] # {} => inflight'[q] = inflight[q]
    BY <1>8
  <2>5. \A p \in Queue : inflight[p] = Cardinality(Counts(p))
    BY <1>t DEF CountInv
  <2>6. \A p \in Queue : inflight'[p] = Cardinality(Counts(p)')
    BY <1>8, <2>2, <2>3, <2>4, <2>5
  <2> QED
    BY <2>6 DEF CountInv
<1>17. ASSUME NEW d \in Thread PROVE CallInv(d)'
  <2>1. CASE d = c
    BY <1>1, <1>3, <1>8, <2>1 DEF CallInv, Holding
  <2>2. CASE d # c
    <3>1. /\ CallInv(d) /\ held'[d] = held[d] /\ using'[d] = using[d]
          /\ at'[d] = at[d] \/ (at[d] = "asleep" /\ at'[d] = "woken")
          /\ queue' = queue
      BY <1>1, <1>6, <1>8, <1>t, <2>2 DEF ThreadInv
    <3>2. /\ held[d] # None => held[d] \in live
          /\ at[d] \in {"read", "close", "queue"} => queue[using[d].queue] = "open"
          /\ at[d] = "drain" => queue[using[d].queue] \in {"dying", "freed"}
      BY <3>1 DEF CallInv
    <3>3. held[d] # None => /\ held[d] \in live'
                            /\ to'[held[d]] = to[held[d]] /\ of'[held[d]] = of[held[d]]
                            /\ held[d] \in tasks'[of[held[d]]] <=> held[d] \in tasks[of[held[d]]]
                            /\ closing'[of[held[d]]] = held[d] <=> closing[of[held[d]]] = held[d]
      <4>1. ASSUME held[d] # None
            PROVE  held[d] \in Task /\ held[d] # t /\ of[held[d]] \in File
        BY <1>2, <1>t, <1>w, <3>2, <4>1 DEF LiveInv
      <4>2. ASSUME held[d] # None
            PROVE  closing'[of[held[d]]] = held[d] <=> closing[of[held[d]]] = held[d]
        BY <1>1, <1>5, <4>1, <4>2
      <4> QED
        BY <1>0, <1>4, <1>8, <3>2, <4>1, <4>2
    <3> QED
      BY <3>1, <3>2, <3>3, CallKept
  <2> QED
    BY <2>1, <2>2
<1> QED
  BY <1>8, <1>9, <1>12, <1>13, <1>14, <1>15, <1>16, <1>17 DEF CoreInv, ThreadInv

(* The result of a task leaves the list of its file; a close that waited    *)
(* for it starts.                                                           *)
LEMMA OutcomeStep ==
  ASSUME IInv, NEW c \in Thread, GetOutcome(c)
  PROVE  CoreInv'
<1>t. TypeOK /\ CoreInv /\ PlaceInv /\ ThreadInv /\ HandInv /\ LiveInv /\ FileInv /\ BusyInv /\ CountInv
  BY DEF IInv, CoreInv
<1>w. /\ at \in [Thread -> Place] /\ held \in [Thread -> Task \cup {None}]
      /\ of \in [Task -> File \cup {None}] /\ to \in [Task -> Queue \cup {None}]
      /\ tasks \in [File -> SUBSET Task] /\ inflight \in [Queue -> Nat]
      /\ live \subseteq Task
      /\ closing \in [File -> Task \cup {None}]
      /\ completed \in [Queue -> Seq(Task)] /\ pool \in Seq(Task) /\ worker \in [Worker -> Post]
  BY <1>t DEF TypeOK, Place, Post
<1>d. PICK t, f, u, q : t = held[c] /\ f = of[t] /\ u = closing[f] /\ q = to[u]
  OBVIOUS
<1> DEFINE a == [at EXCEPT ![c] = IF u = t THEN "destroy" ELSE "release"]
<1>0. \/ /\ StartsClose(f, t)
         /\ tasks' = [tasks EXCEPT ![f] = {u}]
         /\ inflight' = Counted(q)
         /\ QueueAsyncIOTask(u, q, a)
      \/ /\ ~StartsClose(f, t)
         /\ tasks' = [tasks EXCEPT ![f] = @ \ {t}]
         /\ at' = a
         /\ UNCHANGED <<inflight, completed, pool, worker>>
  BY <1>d DEF GetOutcome
<1>1. /\ at[c] = "outcome"
      /\ UNCHANGED <<file, oneshot, closing, queue, live, fresh, of, to, init, stop, working,
                     held, using, quits>>
  BY DEF GetOutcome, taskVars
<1>2. /\ t # None /\ t \in live /\ t \in tasks[f] /\ using[c].queue = to[t]
      /\ using[c].queue \in Queue /\ InHand(t)
  BY <1>1, <1>d, <1>t DEF ThreadInv, CallInv, Holding, InHand
<1>3. t \in Task /\ f \in File /\ u \in Task \cup {None}
  BY <1>2, <1>d, <1>t, <1>w DEF LiveInv
<1>s. StartsClose(f, t) <=> u # None /\ u # t /\ tasks[f] = {t}
  BY <1>d DEF StartsClose
<1>a. /\ a \in [Thread -> Place] /\ a[c] = (IF u = t THEN "destroy" ELSE "release")
      /\ \A d \in Thread : d # c => a[d] = at[d]
  BY <1>w DEF Place
<1>u. /\ u # None => /\ u \notin fresh /\ of[u] = f
                     /\ u \in tasks[f] => tasks[f] = {u}
                     /\ u \notin tasks[f] => (tasks[f] # {} <=> u \in live /\ ~InHand(u))
      /\ \A x \in tasks[f] : x \in live /\ of[x] = f
  BY <1>3, <1>d, <1>t DEF FileInv
<1>f. \A x \in live : x \in Task /\ of[x] \in File /\ to[x] \in Queue
  BY <1>t, <1>w DEF LiveInv
<1> HIDE DEF a
<1>4. /\ completed' \in [Queue -> Seq(Task)] /\ pool' \in Seq(Task)
      /\ worker' \in [Worker -> Post] /\ at' \in [Thread -> Place]
      /\ tasks' \in [File -> SUBSET Task] /\ inflight' \in [Queue -> Nat]
      /\ PlaceInv'
      /\ at'[c] = a[c]
      /\ \A d \in Thread : d # c => at'[d] = at[d] \/ (at[d] = "asleep" /\ at'[d] = "woken")
      /\ \A g \in File : g # f => tasks'[g] = tasks[g]
      /\ \/ /\ u \in live /\ q \in Queue /\ u # None /\ u # t /\ ~InHand(u)
            /\ u \notin tasks[f] /\ tasks[f] = {t} /\ tasks'[f] = {u}
            /\ inflight'[q] = inflight[q] + 1
            /\ \A p \in Queue : p # q => inflight'[p] = inflight[p]
            /\ \A x \in Task : Busy(x)' <=> Busy(x) \/ x = u
         \/ /\ u # None /\ u # t => tasks[f] \ {t} # {} /\ u \notin tasks[f]
            /\ tasks'[f] = tasks[f] \ {t}
            /\ inflight' = inflight
            /\ \A x \in Task : Busy(x)' <=> Busy(x)
  <2>1. ASSUME StartsClose(f, t), tasks' = [tasks EXCEPT ![f] = {u}],
               inflight' = Counted(q), QueueAsyncIOTask(u, q, a)
        PROVE  /\ completed' \in [Queue -> Seq(Task)] /\ pool' \in Seq(Task)
               /\ worker' \in [Worker -> Post] /\ at' \in [Thread -> Place]
               /\ tasks' \in [File -> SUBSET Task] /\ inflight' \in [Queue -> Nat]
               /\ PlaceInv'
               /\ at'[c] = a[c]
               /\ \A d \in Thread : d # c => at'[d] = at[d] \/ (at[d] = "asleep" /\ at'[d] = "woken")
               /\ \A g \in File : g # f => tasks'[g] = tasks[g]
               /\ u \in live /\ q \in Queue /\ u # None /\ u # t /\ ~InHand(u)
               /\ u \notin tasks[f] /\ tasks[f] = {t} /\ tasks'[f] = {u}
               /\ inflight'[q] = inflight[q] + 1
               /\ \A p \in Queue : p # q => inflight'[p] = inflight[p]
               /\ \A x \in Task : Busy(x)' <=> Busy(x) \/ x = u
    <3>1. u # None /\ u # t /\ tasks[f] = {t} /\ u \in Task /\ u \notin tasks[f]
      BY <1>3, <1>s, <2>1
    <3>2. u \in live /\ ~InHand(u) /\ of[u] = f
      BY <1>u, <3>1
    <3>3. q \in Queue
      BY <1>d, <1>f, <3>2
    <3>4. ~Busy(u)
      <4>1. ~Listed(u)
        BY <3>1, <3>2 DEF Listed
      <4> QED
        BY <1>t, <3>1, <4>1 DEF BusyInv
    <3>5. /\ completed' \in [Queue -> Seq(Task)] /\ pool' \in Seq(Task)
          /\ worker' \in [Worker -> Post] /\ at' \in [Thread -> Place]
          /\ PlaceInv'
          /\ \A x \in Task : Busy(x)' <=> Busy(x) \/ x = u
          /\ \A d \in Thread : at'[d] = a[d] \/ (d \in Asleep(q) /\ at'[d] = "woken")
      <4>1. working' = working /\ to'[u] = q /\ \A x \in Task : Busy(x) => to'[x] = to[x]
        BY <1>1, <1>d
      <4>2. u \in Task
        BY <3>1
      <4> QED
        BY <1>a, <1>t, <2>1, <3>3, <3>4, <4>1, <4>2, QueueFacts
    <3>6. /\ at'[c] = a[c]
          /\ \A d \in Thread : d # c => at'[d] = at[d] \/ (at[d] = "asleep" /\ at'[d] = "woken")
      BY <1>1, <1>a, <3>5 DEF Asleep
    <3>7. /\ tasks' \in [File -> SUBSET Task] /\ tasks'[f] = {u}
          /\ \A g \in File : g # f => tasks'[g] = tasks[g]
      BY <1>3, <1>w, <2>1, <3>1
    <3>8. /\ inflight' \in [Queue -> Nat] /\ inflight'[q] = inflight[q] + 1
          /\ \A p \in Queue : p # q => inflight'[p] = inflight[p]
      BY <1>w, <2>1, <3>3 DEF Counted
    <3> QED
      BY <3>1, <3>2, <3>3, <3>5, <3>6, <3>7, <3>8
  <2>2. ASSUME ~StartsClose(f, t), tasks' = [tasks EXCEPT ![f] = @ \ {t}],
               at' = a, UNCHANGED <<inflight, completed, pool, worker>>
        PROVE  /\ completed' \in [Queue -> Seq(Task)] /\ pool' \in Seq(Task)
               /\ worker' \in [Worker -> Post] /\ at' \in [Thread -> Place]
               /\ tasks' \in [File -> SUBSET Task] /\ inflight' \in [Queue -> Nat]
               /\ PlaceInv'
               /\ at'[c] = a[c]
               /\ \A d \in Thread : d # c => at'[d] = at[d] \/ (at[d] = "asleep" /\ at'[d] = "woken")
               /\ \A g \in File : g # f => tasks'[g] = tasks[g]
               /\ u # None /\ u # t => tasks[f] \ {t} # {} /\ u \notin tasks[f]
               /\ tasks'[f] = tasks[f] \ {t}
               /\ inflight' = inflight
               /\ \A x \in Task : Busy(x)' <=> Busy(x)
    <3>1. PlaceInv' /\ \A x \in Task : Busy(x)' <=> Busy(x)
      <4>1. UNCHANGED <<pool, completed, working, worker>>
        BY <1>1, <2>2
      <4>2. \A x \in Task : Busy(x) => to'[x] = to[x]
        BY <1>1
      <4> QED
        BY <1>t, <4>1, <4>2, PlaceKept
    <3>2. /\ tasks' \in [File -> SUBSET Task] /\ tasks'[f] = tasks[f] \ {t}
          /\ \A g \in File : g # f => tasks'[g] = tasks[g]
      BY <1>3, <1>w, <2>2
    <3>3. u # None /\ u # t => tasks[f] \ {t} # {} /\ u \notin tasks[f]
      BY <1>2, <1>s, <1>u, <2>2
    <3> QED
      BY <1>a, <1>w, <2>2, <3>1, <3>2, <3>3
  <2> QED
    BY <1>0, <2>1, <2>2
<1>5. TypeOK'
  BY <1>1, <1>4, <1>t DEF TypeOK, Post, Place
<1>6. \A x : InHand(x)' <=> InHand(x)
  BY <1>1 DEF InHand
<1>7. \A x \in live : x # u => /\ Started(x)' <=> Started(x)
                               /\ x # t => (Listed(x)' <=> Listed(x))
  <2>1. ASSUME NEW x \in live, x # u, x # t PROVE x \in tasks'[of[x]] <=> x \in tasks[of[x]]
    <3>1. of[x] \in File
      BY <1>f
    <3> QED
      BY <1>4, <2>1, <3>1
  <2>2. Started(t) /\ Started(t)'
    BY <1>2, <1>6 DEF Started
  <2> QED
    BY <1>1, <1>6, <2>1, <2>2 DEF Started, Listed
<1>8. ASSUME tasks'[f] # {u}
      PROVE  u \in live => (Started(u)' <=> Started(u))
  <2>1. CASE u = t
    BY <1>2, <1>6, <2>1 DEF Started
  <2>2. CASE u # t
    <3>1. ASSUME u \in live PROVE u # None /\ of[u] = f
      BY <1>f, <1>u, <3>1, NoneIsNothing
    <3>2. u # None => (u \in tasks'[f] <=> u \in tasks[f])
      BY <1>4, <1>8, <2>2
    <3> QED
      BY <1>1, <1>6, <3>1, <3>2 DEF Started
  <2> QED
    BY <2>1, <2>2
<1>9. HandInv'
  BY <1>1, <1>t DEF HandInv
<1>10. LiveInv'
  <2>1. \A x \in live : Started(x)' \/ closing[of[x]] = x
    <3>1. ASSUME NEW x \in live, x # u PROVE Started(x)' \/ closing[of[x]] = x
      BY <1>7, <1>t, <3>1 DEF LiveInv
    <3>2. ASSUME u \in live PROVE closing[of[u]] = u
      <4>1. u # None
        BY <1>f, <3>2, NoneIsNothing
      <4> QED
        BY <1>d, <1>u, <4>1
    <3> QED
      BY <3>1, <3>2
  <2> QED
    BY <1>1, <1>t, <2>1 DEF LiveInv
<1>11. FileInv'
  <2>1. ASSUME NEW g \in File, NEW x \in tasks'[g] PROVE x \in live /\ of[x] = g
    <3>1. CASE g = f
      BY <1>4, <1>u, <2>1, <3>1
    <3>2. CASE g # f
      BY <1>4, <1>t, <2>1, <3>2 DEF FileInv
    <3> QED
      BY <3>1, <3>2
  <2>2. ASSUME NEW g \in File, closing[g] # None
        PROVE  /\ closing[g] \notin fresh /\ of[closing[g]] = g
               /\ closing[g] \in tasks'[g] => tasks'[g] = {closing[g]}
               /\ closing[g] \notin tasks'[g] =>
                    (tasks'[g] # {} <=> closing[g] \in live /\ ~InHand(closing[g]))
    <3>1. CASE g = f
      <4>1. closing[g] = u /\ u # None
        BY <1>d, <2>2, <3>1
      <4>2. CASE u = t
        <5>1. tasks[f] = {t}
          BY <1>2, <1>u, <4>1, <4>2
        <5>2. tasks'[f] = {}
          BY <1>4, <4>2, <5>1
        <5> QED
          BY <1>2, <1>u, <3>1, <4>1, <4>2, <5>2
      <4>3. CASE u # t
        <5>1. u \notin tasks[f] /\ u \in live /\ ~InHand(u)
          BY <1>2, <1>u, <4>1, <4>3
        <5>2. tasks'[f] = {u} \/ (tasks'[f] # {} /\ u \notin tasks'[f])
          BY <1>4, <4>1, <4>3, <5>1
        <5> QED
          BY <1>u, <3>1, <4>1, <5>1, <5>2
      <4> QED
        BY <4>2, <4>3
    <3>2. CASE g # f
      BY <1>4, <1>t, <2>2, <3>2 DEF FileInv
    <3> QED
      BY <3>1, <3>2
  <2>3. \A g \in File : InHand(closing[g])' <=> InHand(closing[g])
    BY <1>1 DEF InHand
  <2> QED
    BY <1>1, <2>1, <2>2, <2>3 DEF FileInv
<1>12. BusyInv'
  <2>1. ASSUME NEW x \in Task, Busy(x) PROVE Listed(x)' /\ ~InHand(x)'
    <3>1. Listed(x) /\ x \in live /\ ~InHand(x) /\ x # t
      BY <1>2, <1>t, <2>1 DEF BusyInv, Listed
    <3>2. CASE x # u
      BY <1>6, <1>7, <3>1, <3>2
    <3>3. CASE x = u
      <4>1. u # None /\ u # t /\ u \in tasks[f]
        BY <1>f, <1>u, <3>1, <3>3, NoneIsNothing DEF Listed
      <4> QED
        BY <1>2, <1>u, <4>1
    <3> QED
      BY <3>2, <3>3
  <2>2. ASSUME \A x \in Task : Busy(x)' <=> Busy(x) \/ x = u,
               u \in live, u # None, ~InHand(u), tasks'[f] = {u}
        PROVE  Listed(u)' /\ ~InHand(u)'
    BY <1>1, <1>6, <1>u, <2>2 DEF Listed
  <2> QED
    BY <1>4, <2>1, <2>2 DEF BusyInv
<1>13. CountInv'
  <2>0. \A p \in Queue : inflight[p] = Cardinality(Counts(p))
    BY <1>t DEF CountInv
  <2>1. CASE /\ u \in live /\ q \in Queue /\ u # None /\ u # t /\ ~InHand(u)
             /\ u \notin tasks[f] /\ tasks'[f] = {u}
             /\ inflight'[q] = inflight[q] + 1
             /\ \A p \in Queue : p # q => inflight'[p] = inflight[p]
    <3>1. of[u] = f /\ to[u] = q
      BY <1>d, <1>u, <2>1
    <3>2. ~Started(u) /\ Started(u)'
      BY <1>1, <2>1, <3>1 DEF Started
    <3>3. u \notin Counts(q)
      BY <3>2 DEF Counts
    <3>4. ASSUME NEW p \in Queue
          PROVE  Counts(p)' = IF p = q THEN Counts(p) \cup {u} ELSE Counts(p)
      BY <1>1, <1>7, <2>1, <3>1, <3>2 DEF Counts
    <3>5. Cardinality(Counts(q) \cup {u}) = Cardinality(Counts(q)) + 1
      BY <1>t, <3>3, CountFacts
    <3>6. \A p \in Queue : inflight'[p] = Cardinality(Counts(p)')
      BY <2>0, <2>1, <3>4, <3>5
    <3> QED
      BY <3>6 DEF CountInv
  <2>2. CASE tasks'[f] # {u} /\ inflight' = inflight
    <3>1. \A p \in Queue : Counts(p)' = Counts(p)
      BY <1>1, <1>7, <1>8, <2>2 DEF Counts
    <3> QED
      BY <2>0, <2>2, <3>1 DEF CountInv
  <2>3. CASE tasks'[f] = {u} /\ inflight' = inflight /\ tasks'[f] = tasks[f] \ {t}
    <3>1. u # t /\ u # None
      BY <1>3, <1>4, <1>w, <2>3, NoneIsNothing
    <3> QED
      BY <1>2, <1>u, <2>3, <3>1
  <2> QED
    BY <1>4, <2>1, <2>2, <2>3
<1>14. ASSUME NEW d \in Thread PROVE CallInv(d)'
  <2>1. CASE d = c
    <3>1. /\ t \notin tasks'[f] /\ at'[d] \in {"destroy", "release"}
          /\ at'[d] = "destroy" => u = t
      BY <1>4, <1>a, <2>1
    <3> QED
      BY <1>1, <1>2, <1>d, <2>1, <3>1 DEF CallInv, Holding
  <2>2. CASE d # c
    <3>1. /\ CallInv(d) /\ held'[d] = held[d] /\ using'[d] = using[d]
          /\ at'[d] = at[d] \/ (at[d] = "asleep" /\ at'[d] = "woken")
          /\ queue' = queue
      BY <1>1, <1>4, <1>t, <2>2 DEF ThreadInv
    <3>2. /\ held[d] # None => held[d] \in live
          /\ at[d] \in {"read", "close", "queue"} => queue[using[d].queue] = "open"
          /\ at[d] = "drain" => queue[using[d].queue] \in {"dying", "freed"}
      BY <3>1 DEF CallInv
    <3>3. held[d] # None => held[d] # t
      BY <1>d, <1>t, <2>2 DEF HandInv
    <3>4. held[d] # None => (held[d] \in tasks'[of[held[d]]] <=> held[d] \in tasks[of[held[d]]])
      <4>1. ASSUME held[d] # None
            PROVE  of[held[d]] \in File /\ InHand(held[d])
        BY <1>f, <3>2, <4>1 DEF InHand
      <4>2. CASE held[d] # u
        BY <1>4, <3>3, <4>1, <4>2
      <4>3. CASE held[d] = u /\ held[d] # None
        <5>1. of[u] = f /\ InHand(u) /\ u # t
          BY <1>u, <3>3, <4>1, <4>3
        <5>2. tasks'[f] = tasks[f] \ {t}
          BY <1>4, <5>1
        <5> QED
          BY <4>3, <5>1, <5>2
      <4> QED
        BY <4>2, <4>3
    <3> QED
      BY <1>1, <3>1, <3>2, <3>4, CallKept
  <2> QED
    BY <2>1, <2>2
<1> QED
  BY <1>4, <1>5, <1>9, <1>10, <1>11, <1>12, <1>13, <1>14 DEF CoreInv, ThreadInv

(* The file goes away with the result of its close.                         *)
LEMMA DestroyStep ==
  ASSUME IInv, NEW c \in Thread, DestroyFile(c)
  PROVE  CoreInv'
<1>t. TypeOK /\ CoreInv /\ ThreadInv
  BY DEF IInv, CoreInv
<1>w. at \in [Thread -> Place] /\ file \in [File -> {"none", "open", "freed"}]
  BY <1>t DEF TypeOK, Place
<1>1. /\ at[c] = "destroy" /\ at' = [at EXCEPT ![c] = "release"]
      /\ file' = [file EXCEPT ![of[held[c]]] = "freed"]
      /\ UNCHANGED <<oneshot, tasks, closing, queueVars, taskVars, poolVars, held, using, quits>>
  BY DEF DestroyFile
<1>2. /\ UNCHANGED taskState /\ \A w \in Worker : worker'[w] = "io" <=> worker[w] = "io"
      /\ UNCHANGED <<tasks, closing, queue, live, of, to, held, using>>
  BY <1>1 DEF taskState, handState, queueVars, taskVars, poolVars
<1>3. /\ at' \in [Thread -> Place] /\ at'[c] = "release"
      /\ \A d \in Thread : d # c => at'[d] = at[d]
  BY <1>1, <1>w DEF Place
<1>4. file' \in [File -> {"none", "open", "freed"}]
  BY <1>1, <1>w
<1>5. TypeOK'
  BY <1>1, <1>3, <1>4, <1>t DEF TypeOK, Place, queueVars, taskVars, poolVars
<1>6. ASSUME NEW d \in Thread PROVE CallInv(d)'
  <2>1. CASE d = c
    BY <1>1, <1>2, <1>3, <1>t, <2>1 DEF ThreadInv, CallInv, Holding
  <2>2. CASE d # c
    <3>1. CallInv(d) /\ at'[d] = at[d]
      BY <1>3, <1>t, <2>2 DEF ThreadInv
    <3>2. /\ held[d] # None => held[d] \in live
          /\ at[d] \in {"read", "close", "queue"} => queue[using[d].queue] = "open"
          /\ at[d] = "drain" => queue[using[d].queue] \in {"dying", "freed"}
      BY <3>1 DEF CallInv
    <3> QED
      BY <1>2, <3>1, <3>2, CallKept
  <2> QED
    BY <2>1, <2>2
<1> QED
  BY <1>2, <1>5, <1>6, <1>t, QuietStep DEF CoreInv, ThreadInv

(* The task goes away.                                                      *)
LEMMA ReleaseStep ==
  ASSUME IInv, NEW c \in Thread, ReleaseTask(c)
  PROVE  CoreInv'
<1>t. TypeOK /\ CoreInv /\ PlaceInv /\ ThreadInv /\ HandInv /\ LiveInv /\ FileInv /\ BusyInv /\ CountInv
  BY DEF IInv, CoreInv
<1>w. /\ at \in [Thread -> Place] /\ held \in [Thread -> Task \cup {None}]
      /\ using \in [Thread -> [file : File \cup {None}, queue : Queue \cup {None}]]
      /\ inflight \in [Queue -> Nat] /\ live \subseteq Task
      /\ closing \in [File -> Task \cup {None}]
  BY <1>t DEF TypeOK, Place
<1>d. PICK t, q : t = held[c] /\ q = to[t]
  OBVIOUS
<1>1. /\ at[c] = "release"
      /\ inflight' = [inflight EXCEPT ![q] = @ - 1]
      /\ live' = live \ {t}
      /\ held' = [held EXCEPT ![c] = None]
      /\ \/ /\ queue[using[c].queue] = "dying" /\ at' = [at EXCEPT ![c] = "drain"]
            /\ using' = using
         \/ /\ at' = [at EXCEPT ![c] = "idle"]
            /\ using' = [using EXCEPT ![c] = NoUse]
      /\ UNCHANGED <<file, oneshot, tasks, closing, queue, completed, fresh, of, to,
                     pool, init, stop, worker, working, quits>>
  BY <1>d DEF ReleaseTask, Returns, fileVars, poolVars
<1>2. /\ t # None /\ t \in live /\ t \notin tasks[of[t]] /\ using[c].queue = q /\ InHand(t)
      /\ q \in Queue /\ t \in Task /\ t \notin fresh /\ of[t] \in File
  BY <1>1, <1>d, <1>t, <1>w DEF ThreadInv, CallInv, Holding, InHand, LiveInv
<1>3. \A f \in File : t \notin tasks[f]
  BY <1>2, <1>t DEF FileInv
<1>4. /\ held' \in [Thread -> Task \cup {None}] /\ held'[c] = None
      /\ \A d \in Thread : d # c => held'[d] = held[d] /\ held[d] # t
  BY <1>1, <1>2, <1>d, <1>t, <1>w DEF HandInv
<1>5. \A u \in Task : InHand(u)' <=> InHand(u) /\ u # t
  BY <1>4, <1>d, NoneIsNothing DEF InHand
<1>6. /\ at' \in [Thread -> Place]
      /\ using' \in [Thread -> [file : File \cup {None}, queue : Queue \cup {None}]]
      /\ \/ at'[c] = "drain" /\ using'[c] = using[c] /\ queue[using[c].queue] = "dying"
         \/ at'[c] = "idle"
      /\ \A d \in Thread : d # c => at'[d] = at[d] /\ using'[d] = using[d]
  BY <1>1, <1>w DEF Place, NoUse
<1>7. t \in Counts(q)
  BY <1>2, <1>d DEF Counts, Started
<1>8. inflight[q] = Cardinality(Counts(q)) /\ Cardinality(Counts(q)) > 0
      /\ Cardinality(Counts(q)) \in Nat
      /\ Cardinality(Counts(q) \ {t}) = Cardinality(Counts(q)) - 1
  BY <1>2, <1>7, <1>t, CountFacts DEF CountInv
<1>9. /\ inflight' \in [Queue -> Nat] /\ inflight'[q] = inflight[q] - 1
      /\ \A p \in Queue : p # q => inflight'[p] = inflight[p]
  <2>1. inflight[q] - 1 \in Nat
    BY <1>8
  <2> QED
    BY <1>1, <1>2, <1>w, <2>1
<1>10. TypeOK'
  BY <1>1, <1>4, <1>6, <1>9, <1>t DEF TypeOK, Place
<1>11. \A u \in live' : /\ u \in live /\ u # t /\ u \in Task
                        /\ Started(u)' <=> Started(u)
  BY <1>1, <1>5, <1>w DEF Started
<1>12. HandInv'
  BY <1>4, <1>t DEF HandInv
<1>13. LiveInv'
  BY <1>1, <1>11, <1>t DEF LiveInv
<1>14. FileInv'
  <2>1. ASSUME NEW f \in File, NEW u \in tasks[f] PROVE u \in live' /\ of[u] = f
    <3>1. u # t
      BY <1>3, <2>1
    <3> QED
      BY <1>1, <1>t, <2>1, <3>1 DEF FileInv
  <2>2. ASSUME NEW f \in File, closing[f] # None, closing[f] \notin tasks[f]
        PROVE  tasks[f] # {} <=>
                 closing[f] \in live' /\ ~(\E d \in Thread : held'[d] = closing[f])
    <3>1. /\ closing[f] \in Task
          /\ tasks[f] # {} <=> closing[f] \in live /\ ~InHand(closing[f])
      BY <1>t, <1>w, <2>2 DEF FileInv
    <3>2. (\E d \in Thread : held'[d] = closing[f]) <=> InHand(closing[f]) /\ closing[f] # t
      BY <1>5, <3>1 DEF InHand
    <3> QED
      BY <1>1, <1>2, <3>1, <3>2
  <2>3. \A f \in File : closing[f] # None /\ closing[f] \notin tasks[f] =>
          (tasks[f] # {} <=> closing[f] \in live' /\ ~InHand(closing[f])')
    BY <1>1, <2>2 DEF InHand
  <2> QED
    BY <1>1, <1>t, <2>1, <2>3 DEF FileInv
<1>15. \A u : Busy(u)' <=> Busy(u)
  BY <1>1 DEF Busy, InWork, InDone
<1>16. PlaceInv'
  BY <1>1, <1>t, PlaceKept
<1>17. BusyInv'
  <2>1. ASSUME NEW u \in Task, Busy(u) PROVE Listed(u)' /\ ~InHand(u)'
    <3>1. u \in live /\ u \in tasks[of[u]] /\ ~InHand(u) /\ u # t
      BY <1>2, <1>t, <2>1 DEF BusyInv, Listed
    <3> QED
      BY <1>1, <1>5, <3>1 DEF Listed
  <2> QED
    BY <1>15, <2>1 DEF BusyInv
<1>18. CountInv'
  <2>1. ASSUME NEW p \in Queue
        PROVE  Counts(p)' = IF p = q THEN Counts(p) \ {t} ELSE Counts(p)
    <3>1. \A u \in live : u # t => u \in live' /\ (Started(u)' <=> Started(u))
      BY <1>1, <1>11
    <3> QED
      BY <1>1, <1>11, <1>d, <3>1 DEF Counts
  <2>2. \A p \in Queue : inflight[p] = Cardinality(Counts(p))
    BY <1>t DEF CountInv
  <2>3. \A p \in Queue : inflight'[p] = Cardinality(Counts(p)')
    BY <1>8, <1>9, <2>1, <2>2
  <2> QED
    BY <2>3 DEF CountInv
<1>19. ASSUME NEW d \in Thread PROVE CallInv(d)'
  <2>1. CASE d = c
    BY <1>1, <1>2, <1>4, <1>6, <2>1 DEF CallInv, Holding
  <2>2. CASE d # c
    <3>1. /\ CallInv(d) /\ held'[d] = held[d] /\ using'[d] = using[d] /\ at'[d] = at[d]
          /\ held[d] # t
      BY <1>4, <1>6, <1>t, <2>2 DEF ThreadInv
    <3>2. /\ held[d] # None => held[d] \in live'
          /\ at[d] \in {"read", "close", "queue"} => queue[using[d].queue] = "open"
          /\ at[d] = "drain" => queue[using[d].queue] \in {"dying", "freed"}
      BY <1>1, <3>1 DEF CallInv
    <3> QED
      BY <1>1, <3>1, <3>2, CallKept
  <2> QED
    BY <2>1, <2>2
<1> QED
  BY <1>10, <1>12, <1>13, <1>14, <1>16, <1>17, <1>18, <1>19 DEF CoreInv, ThreadInv

-----------------------------------------------------------------------------
(* The pool's threads and flags, on a step that may start one.              *)
LEMMA SpinKeeps ==
  ASSUME TypeOK, PoolInv, UNCHANGED <<init, stop>>,
         UNCHANGED <<pool, worker>> \/ Spin
  PROVE  PoolInv'
<1>1. CASE UNCHANGED <<pool, worker>>
  BY <1>1 DEF PoolInv, Running
<1>2. CASE Spin
  <2>1. worker \in [Worker -> Post]
    BY DEF TypeOK, Post
  <2> QED
    BY <1>2, <2>1, SpinFacts DEF PoolInv, Running
<1> QED
  BY <1>1, <1>2

(* The start of the pool, on the first task, leaves one worker running.     *)
LEMMA PrepareKeeps ==
  ASSUME TypeOK, PoolInv, PrepareThreadpool, UNCHANGED <<pool, stop>>
  PROVE  PoolInv'
<1>1. worker \in [Worker -> Post]
  BY DEF TypeOK, Post
<1> QED
  BY <1>1, PrepareFacts DEF PoolInv, Running

(* Every step keeps them: a worker leaves only when another one waits, and  *)
(* sleeps only when there is no task.                                       *)
LEMMA PoolStep ==
  ASSUME IInv, Next
  PROVE  PoolInv'
<1>t. TypeOK /\ PoolInv /\ worker \in [Worker -> Post]
  BY DEF IInv, CoreInv, TypeOK, Post
<1>1. ASSUME UNCHANGED <<pool, init, stop, worker>> PROVE PoolInv'
  BY <1>1, <1>t DEF PoolInv, Running
<1>2. ASSUME \/ \E q \in Queue : CreateAsyncIOQueue(q) \/ SignalAsyncIOQueue(q)
             \/ \E f \in File : AsyncIOFromFile(f)
             \/ \E c \in Thread, f \in File, q \in Queue : LoadFileAsync(c, f, q)
      PROVE  PoolInv'
  <2>1. \/ UNCHANGED <<pool, init, stop, worker>>
        \/ PrepareThreadpool /\ UNCHANGED <<pool, stop>>
    BY <1>2 DEF CreateAsyncIOQueue, SignalAsyncIOQueue, AsyncIOFromFile, LoadFileAsync, poolVars
  <2> QED
    BY <1>1, <1>t, <2>1, PrepareKeeps
<1>3. ASSUME NEW c \in Thread, NEW f \in File, NEW q \in Queue,
             RequestAsyncIO(c, f, q) \/ CloseAsyncIO(c, f, q)
      PROVE  PoolInv'
  <2>1. UNCHANGED <<init, stop>> /\ (UNCHANGED <<pool, worker>> \/ Spin)
    BY <1>3 DEF RequestAsyncIO, CloseAsyncIO, QueueAsyncIOTask, poolVars
  <2> QED
    BY <1>t, <2>1, SpinKeeps
<1>4. ASSUME NEW c \in Thread, QueueTask(c) \/ GetOutcome(c) PROVE PoolInv'
  <2>1. UNCHANGED <<init, stop>> /\ (UNCHANGED <<pool, worker>> \/ Spin)
    BY <1>4 DEF QueueTask, GetOutcome, QueueAsyncIOTask
  <2> QED
    BY <1>t, <2>1, SpinKeeps
<1>5. ASSUME NEW c \in Thread,
             \/ \E q \in Queue : GetResult(c, q) \/ WaitResult(c, q) \/ DestroyAsyncIOQueue(c, q)
             \/ WaitTimeout(c) \/ WaitReturn(c) \/ DestroyFile(c) \/ ReleaseTask(c) \/ Drain(c)
      PROVE  PoolInv'
  <2>1. UNCHANGED poolVars
    BY <1>5 DEF GetResult, WaitResult, DestroyAsyncIOQueue, WaitTimeout, WaitReturn, DestroyFile,
                ReleaseTask, Drain
  <2> QED
    BY <1>1, <2>1 DEF poolVars
<1>6. ASSUME NEW c \in Thread, Shutdown(c) PROVE PoolInv'
  <2>1. init' = "quitting" /\ stop' = TRUE /\ pool' = <<>>
    BY <1>6 DEF Shutdown
  <2> QED
    BY <2>1 DEF PoolInv
<1>7. ASSUME NEW c \in Thread, ShutdownWait(c) PROVE PoolInv'
  <2>1. /\ UNCHANGED <<pool, worker>>
        /\ \/ UNCHANGED <<init, stop>>
           \/ init' = "no" /\ stop' = FALSE /\ \A w \in Worker : ~Running(w)
    BY <1>7 DEF ShutdownWait
  <2> QED
    BY <1>t, <2>1 DEF PoolInv, Running
<1>8. ASSUME NEW w \in Worker, WorkerTake(w) \/ WorkerIO(w) PROVE PoolInv'
  <2>1. /\ worker[w] # "off" /\ UNCHANGED <<init, stop>>
        /\ \E p \in {"io", "loop"} : worker' = [worker EXCEPT ![w] = p]
        /\ pool' = pool \/ pool # <<>>
    BY <1>8 DEF WorkerTake, WorkerIO
  <2> QED
    BY <1>t, <2>1 DEF PoolInv, Running
<1>9. ASSUME NEW w \in Worker, WorkerSleep(w) \/ WorkerTimeout(w) \/ WorkerBack(w)
      PROVE  PoolInv'
  <2>1. /\ worker[w] # "off" /\ UNCHANGED <<pool, init, stop>>
        /\ \/ worker' = [worker EXCEPT ![w] = "asleep"] /\ pool = <<>>
           \/ \E p \in {"late", "loop"} : worker' = [worker EXCEPT ![w] = p]
    BY <1>9 DEF WorkerSleep, WorkerTimeout, WorkerBack
  <2> QED
    BY <1>t, <2>1 DEF PoolInv, Running
<1>10. ASSUME NEW w \in Worker, WorkerExit(w) PROVE PoolInv'
  <2>1. /\ UNCHANGED <<pool, init, stop>> /\ worker' = [worker EXCEPT ![w] = "off"]
        /\ stop \/ \E v \in Worker \ {w} : worker[v] # "off"
    BY <1>10 DEF WorkerExit, TooManyIdle, Idle
  <2> QED
    BY <1>t, <2>1 DEF PoolInv, Running
<1> QED
  BY <1>2, <1>3, <1>4, <1>5, <1>6, <1>7, <1>8, <1>9, <1>10 DEF Next

(* Every step of the program keeps CoreInv: one step here for each disjunct *)
(* of Next.                                                                 *)
LEMMA CoreStep ==
  ASSUME IInv, Next
  PROVE  CoreInv'
<1>1. CASE \/ \E q \in Queue : CreateAsyncIOQueue(q) \/ SignalAsyncIOQueue(q)
           \/ \E f \in File : AsyncIOFromFile(f)
  BY <1>1, OpenStep
<1>2. ASSUME NEW c \in Thread, NEW f \in File, NEW q \in Queue,
             LoadFileAsync(c, f, q) \/ RequestAsyncIO(c, f, q) \/ CloseAsyncIO(c, f, q)
      PROVE  CoreInv'
  <2>1. CASE LoadFileAsync(c, f, q)
    BY <2>1, MoveStep
  <2>2. CASE RequestAsyncIO(c, f, q)
    BY <2>2, RequestStep
  <2>3. CASE CloseAsyncIO(c, f, q)
    BY <2>3, CloseStep
  <2> QED
    BY <1>2, <2>1, <2>2, <2>3
<1>3. ASSUME NEW c \in Thread, NEW q \in Queue,
             GetResult(c, q) \/ WaitResult(c, q) \/ DestroyAsyncIOQueue(c, q)
      PROVE  CoreInv'
  BY <1>3, MoveStep, ResultStep
<1>4. ASSUME NEW c \in Thread, QueueTask(c) \/ WaitTimeout(c) \/ WaitReturn(c) PROVE CoreInv'
  BY <1>4, QueueStep, MoveStep, ResultStep
<1>5. ASSUME NEW c \in Thread, GetOutcome(c) \/ DestroyFile(c) \/ ReleaseTask(c) PROVE CoreInv'
  BY <1>5, OutcomeStep, DestroyStep, ReleaseStep
<1>6. ASSUME NEW c \in Thread, Drain(c) \/ Shutdown(c) \/ ShutdownWait(c) PROVE CoreInv'
  BY <1>6, ResultStep, WorkStep, MoveStep
<1>7. ASSUME NEW w \in Worker,
             \/ WorkerTake(w) \/ WorkerSleep(w) \/ WorkerTimeout(w)
             \/ WorkerIO(w) \/ WorkerBack(w) \/ WorkerExit(w)
      PROVE  CoreInv'
  BY <1>7, WorkStep, WaitStep
<1> QED
  BY <1>1, <1>2, <1>3, <1>4, <1>5, <1>6, <1>7 DEF Next

(* The invariant holds before the first call.                               *)
LEMMA InitInv == Init => IInv
<1> SUFFICES ASSUME Init PROVE IInv
  OBVIOUS
<1>1. TypeOK
  <2>1. NoUse \in [file : File \cup {None}, queue : Queue \cup {None}]
    BY DEF NoUse
  <2>2. <<>> \in Seq(Task) /\ 0 \in 0..MaxQuits
    BY MaxQuitsIsNat
  <2> QED
    BY <2>1, <2>2 DEF Init, TypeOK
<1>2. Elements(<<>>) = {} /\ Distinct(<<>>)
  BY DEF Elements, Distinct
<1>3. \A t \in Task : ~InWork(t) /\ ~InDone(t) /\ ~InHand(t) /\ ~Busy(t)
  BY <1>2, NoneIsNothing DEF Init, InWork, InDone, InHand, Busy
<1>4. ThreadInv /\ HandInv
  BY DEF Init, ThreadInv, CallInv, HandInv, Holding
<1>5. LiveInv /\ FileInv /\ BusyInv
  BY <1>3 DEF Init, LiveInv, FileInv, BusyInv
<1>6. PlaceInv
  BY <1>2 DEF Init, PlaceInv
<1>7. CountInv
  <2>1. \A q \in Queue : Counts(q) = {}
    BY DEF Init, Counts
  <2> QED
    BY <2>1, FS_EmptySet DEF Init, CountInv
<1>8. PoolInv
  BY DEF Init, PoolInv, Running
<1> QED
  BY <1>1, <1>4, <1>5, <1>6, <1>7, <1>8 DEF IInv, CoreInv

(* A step that changes nothing keeps the invariant.                         *)
LEMMA StutterInv ==
  ASSUME IInv, UNCHANGED vars
  PROVE  IInv'
<1>1. /\ UNCHANGED taskState /\ UNCHANGED <<at, using, queue, init, stop, worker>>
      /\ \A w \in Worker : worker'[w] = "io" <=> worker[w] = "io"
  BY DEF vars, fileVars, queueVars, taskVars, poolVars, threadVars, taskState, handState
<1>2. TypeOK'
  BY DEF IInv, CoreInv, TypeOK, vars, fileVars, queueVars, taskVars, poolVars, threadVars
<1>3. ThreadInv'
  BY <1>1 DEF IInv, CoreInv, ThreadInv, CallInv, taskState, handState
<1>4. PoolInv'
  BY <1>1 DEF IInv, PoolInv, Running, taskState
<1> QED
  BY <1>1, <1>2, <1>3, <1>4, QuietStep DEF IInv, CoreInv

(* The inductive invariant: where each task is, who counts it in            *)
(* tasks_inflight, and what the pool's flags say of its workers             *)
(* (SDL_asyncio.c, 119-256; SDL_asyncio_generic.c, 108-320).                *)
THEOREM Inductive == Spec => []IInv
<1>1. Init => IInv
  BY InitInv
<1>2. IInv /\ [Next]_vars => IInv'
  BY CoreStep, PoolStep, StutterInv DEF IInv
<1> QED
  BY <1>1, <1>2, PTL DEF Spec

(* Type correctness; in particular tasks_inflight, which                    *)
(* GetAsyncIOTaskOutcome decrements (SDL_asyncio.c, 254), never goes below  *)
(* zero.                                                                    *)
THEOREM TypeCorrect == Spec => []TypeOK
<1>1. IInv => TypeOK
  BY DEF IInv, CoreInv
<1> QED
  BY <1>1, Inductive, PTL

(* No task waits in the pool with every worker asleep or gone, although     *)
(* workers leave after 30 seconds and are woken by a signal that a busy     *)
(* worker does not hear (SDL_asyncio_generic.c, 123-149, 166 and 197).      *)
THEOREM Stranded == Spec => []NoTaskStranded
<1>1. IInv => NoTaskStranded
  BY DEF IInv, PoolInv, NoTaskStranded
<1> QED
  BY <1>1, Inductive, PTL

-----------------------------------------------------------------------------
(* What a step does to the tasks.  A quiet one leaves them, and their files,*)
(* where they are.                                                          *)
Quiet ==
  /\ UNCHANGED <<tasks, closing, live, fresh, of, to, held>>
  /\ \A u \in Task : InDone(u)' <=> InDone(u)
  /\ \A d \in Thread : at[d] \in Holding \/ at'[d] \in Holding => at'[d] = at[d]
  /\ \A f \in File : file'[f] = file[f] \/ (file[f] # "freed" /\ file'[f] # "freed")

(* A thread takes the result of a task. *)
Takes(c, q) ==
  /\ at[c] \in {"idle", "woken", "drain"} /\ completed[q] # <<>>
  /\ held' = [held EXCEPT ![c] = Head(completed[q])]
  /\ completed' = [completed EXCEPT ![q] = Tail(@)]
  /\ at' = [at EXCEPT ![c] = "outcome"]
  /\ UNCHANGED <<fileVars, queue, inflight, taskVars, poolVars, quits>>

(* A step is quiet when it changes no task and no thread that holds one.    *)
LEMMA QuietKept ==
  ASSUME UNCHANGED <<file, tasks, closing, live, fresh, of, to, held, completed>>,
         \A d \in Thread : at'[d] = at[d] \/ (at[d] \notin Holding /\ at'[d] \notin Holding)
  PROVE  Quiet
BY DEF Quiet, InDone

(* Opening a queue, a file or the file of LoadFileAsync is quiet.           *)
LEMMA EffectOfOpening ==
  ASSUME TypeOK,
         \/ \E q \in Queue : CreateAsyncIOQueue(q) \/ SignalAsyncIOQueue(q)
         \/ \E f \in File : AsyncIOFromFile(f)
         \/ \E c \in Thread, f \in File, q \in Queue : LoadFileAsync(c, f, q)
  PROVE  Quiet
<1>w. at \in [Thread -> Place] /\ file \in [File -> {"none", "open", "freed"}]
  BY DEF TypeOK, Place
<1>1. ASSUME NEW q \in Queue, CreateAsyncIOQueue(q) \/ SignalAsyncIOQueue(q) PROVE Quiet
  <2>1. /\ UNCHANGED <<file, tasks, closing, live, fresh, of, to, held, completed>>
        /\ at' = at \/ at' = [c \in Thread |-> IF c \in Asleep(q) THEN "woken" ELSE at[c]]
    BY <1>1 DEF CreateAsyncIOQueue, SignalAsyncIOQueue, fileVars, queueVars, taskVars, threadVars
  <2> QED
    BY <2>1, QuietKept DEF Asleep, Holding
<1>2. ASSUME NEW f \in File, file[f] = "none", file' = [file EXCEPT ![f] = "open"],
             UNCHANGED <<tasks, closing, queueVars, taskVars, held>>,
             \A d \in Thread : at'[d] = at[d] \/ (at[d] \notin Holding /\ at'[d] \notin Holding)
      PROVE  Quiet
  <2>1. \A u \in Task : InDone(u)' <=> InDone(u)
    BY <1>2 DEF InDone, queueVars
  <2>2. \A g \in File : file'[g] = file[g] \/ (file[g] # "freed" /\ file'[g] # "freed")
    BY <1>2, <1>w
  <2> QED
    BY <1>2, <2>1, <2>2 DEF Quiet, taskVars
<1>3. ASSUME NEW f \in File, AsyncIOFromFile(f) PROVE Quiet
  BY <1>2, <1>3 DEF AsyncIOFromFile, threadVars
<1>4. ASSUME NEW c \in Thread, NEW f \in File, NEW q \in Queue, LoadFileAsync(c, f, q)
      PROVE  Quiet
  <2>1. \A d \in Thread : at'[d] = at[d] \/ (at[d] \notin Holding /\ at'[d] \notin Holding)
    BY <1>4, <1>w DEF LoadFileAsync, Holding
  <2> QED
    BY <1>2, <1>4, <2>1 DEF LoadFileAsync
<1> QED
  BY <1>1, <1>3, <1>4

(* Going to sleep, timing out, and waiting for the workers to leave are     *)
(* quiet.                                                                   *)
LEMMA EffectOfWaiting ==
  ASSUME TypeOK, NEW c \in Thread,
         \/ \E q \in Queue : WaitResult(c, q) \/ DestroyAsyncIOQueue(c, q)
         \/ WaitTimeout(c)
         \/ ShutdownWait(c)
  PROVE  Quiet
<1>1. UNCHANGED <<file, tasks, closing, live, fresh, of, to, held, completed>>
  BY DEF WaitResult, DestroyAsyncIOQueue, WaitTimeout, ShutdownWait, fileVars, queueVars, taskVars
<1>2. \E p \in {"asleep", "woken", "drain", "join", "idle"} :
        at' = [at EXCEPT ![c] = p] /\ at[c] \notin Holding
  BY DEF WaitResult, DestroyAsyncIOQueue, WaitTimeout, ShutdownWait, Holding
<1>3. at \in [Thread -> Place]
  BY DEF TypeOK, Place
<1> QED
  BY <1>1, <1>2, <1>3, QuietKept DEF Holding

(* A call that looks for a result takes one or is quiet.                    *)
LEMMA EffectOfResult ==
  ASSUME IInv, NEW c \in Thread,
         \/ \E q \in Queue : GetResult(c, q)
         \/ WaitReturn(c)
         \/ Drain(c)
  PROVE  Quiet \/ \E q \in Queue : Takes(c, q)
<1>t. TypeOK /\ CallInv(c) /\ at \in [Thread -> Place]
  BY DEF IInv, CoreInv, ThreadInv, TypeOK, Place
<1>1. ASSUME NEW q \in Queue, GetResult(c, q) PROVE Takes(c, q)
  BY <1>1 DEF GetResult, Takes
<1>2. ASSUME WaitReturn(c) \/ Drain(c)
      PROVE  Quiet \/ Takes(c, using[c].queue)
  <2>1. /\ UNCHANGED <<fileVars, inflight, taskVars, poolVars, quits>>
        /\ at[c] \in {"woken", "drain"}
    BY <1>2 DEF WaitReturn, Drain
  <2>2. \/ Takes(c, using[c].queue)
        \/ /\ UNCHANGED <<held, completed>>
           /\ \E p \in {"asleep", "drain", "idle"} : at' = [at EXCEPT ![c] = p]
    BY <1>2 DEF WaitReturn, Drain, Returns, Takes
  <2> QED
    BY <1>t, <2>1, <2>2, QuietKept DEF Holding, fileVars, taskVars
<1>3. WaitReturn(c) \/ Drain(c) => using[c].queue \in Queue
  BY <1>t DEF WaitReturn, Drain, CallInv
<1> QED
  BY <1>1, <1>2, <1>3

(* The steps of a worker other than the end of its I/O are quiet: a task    *)
(* that is in the pool and one that is run are both just pending.           *)
LEMMA EffectOfWorker ==
  ASSUME IInv, NEW w \in Worker,
         WorkerTake(w) \/ WorkerSleep(w) \/ WorkerTimeout(w) \/ WorkerBack(w) \/ WorkerExit(w)
  PROVE  Quiet
<1>1. UNCHANGED <<file, tasks, closing, live, fresh, of, to, held, completed>>
  BY DEF WorkerTake, WorkerSleep, WorkerTimeout, WorkerBack, WorkerExit, fileVars, queueVars,
         taskVars, threadVars
<1>2. at' = at \/ at' = [c \in Thread |-> IF stop /\ at[c] = "join" THEN "quit" ELSE at[c]]
  BY DEF WorkerTake, WorkerSleep, WorkerTimeout, WorkerBack, WorkerExit, threadVars
<1> QED
  BY <1>1, <1>2, QuietKept DEF Holding

(* The steps that concern tasks.                                            *)
LEMMA EffectOfStep ==
  ASSUME IInv, Next
  PROVE  \/ Quiet
         \/ \E c \in Thread, q \in Queue : Takes(c, q)
         \/ \E c \in Thread, f \in File, q \in Queue : RequestAsyncIO(c, f, q)
         \/ \E c \in Thread, f \in File, q \in Queue : CloseAsyncIO(c, f, q)
         \/ \E c \in Thread : QueueTask(c)
         \/ \E c \in Thread : GetOutcome(c)
         \/ \E c \in Thread : DestroyFile(c)
         \/ \E c \in Thread : ReleaseTask(c)
         \/ \E c \in Thread : Shutdown(c)
         \/ \E w \in Worker : WorkerIO(w)
<1>t. TypeOK
  BY DEF IInv, CoreInv
<1>1. CASE \/ \E q \in Queue : CreateAsyncIOQueue(q) \/ SignalAsyncIOQueue(q)
           \/ \E f \in File : AsyncIOFromFile(f)
           \/ \E c \in Thread, f \in File, q \in Queue : LoadFileAsync(c, f, q)
  BY <1>1, <1>t, EffectOfOpening
<1>2. ASSUME NEW c \in Thread,
             \/ \E q \in Queue : WaitResult(c, q) \/ DestroyAsyncIOQueue(c, q)
             \/ WaitTimeout(c)
             \/ ShutdownWait(c)
      PROVE  Quiet
  BY <1>2, <1>t, EffectOfWaiting
<1>3. ASSUME NEW c \in Thread, (\E q \in Queue : GetResult(c, q)) \/ WaitReturn(c) \/ Drain(c)
      PROVE  Quiet \/ \E q \in Queue : Takes(c, q)
  BY <1>3, EffectOfResult
<1>4. ASSUME NEW w \in Worker,
             WorkerTake(w) \/ WorkerSleep(w) \/ WorkerTimeout(w) \/ WorkerBack(w) \/ WorkerExit(w)
      PROVE  Quiet
  BY <1>4, EffectOfWorker
<1> QED
  BY <1>1, <1>2, <1>3, <1>4, Zenon DEF Next

-----------------------------------------------------------------------------
(* A file outlives its tasks.                                               *)
LEMMA FilesKept ==
  ASSUME LiveInv, FileOutlivesTasks,
         \A u \in live' : \/ u \in live /\ of'[u] = of[u]
                          \/ of'[u] \in File /\ file'[of'[u]] # "freed",
         \A f \in File : file[f] # "freed" => file'[f] # "freed",
         \A d \in Thread : at[d] = "release" =>
           held[d] \notin live' \/ (at'[d] = "release" /\ held'[d] = held[d])
  PROVE  FileOutlivesTasks'
<1> SUFFICES ASSUME NEW u \in live', u \in live, of'[u] = of[u]
             PROVE  \/ file'[of'[u]] # "freed"
                    \/ \E d \in Thread : at'[d] = "release" /\ held'[d] = u
  BY DEF FileOutlivesTasks
<1>1. CASE file[of[u]] # "freed"
  BY <1>1 DEF LiveInv
<1>2. CASE \E d \in Thread : at[d] = "release" /\ held[d] = u
  BY <1>2
<1> QED
  BY <1>1, <1>2 DEF FileOutlivesTasks

(* When the close of a file comes to its end, no other task of the file     *)
(* has more to do than to be freed.                                         *)
LEMMA LastTask ==
  ASSUME CoreInv, NEW c \in Thread, at[c] = "destroy"
  PROVE  /\ held[c] \in live /\ of[held[c]] \in File
         /\ closing[of[held[c]]] = held[c] /\ tasks[of[held[c]]] = {}
<1>1. /\ held[c] \in live /\ held[c] \notin tasks[of[held[c]]]
      /\ closing[of[held[c]]] = held[c] /\ held[c] # None /\ InHand(held[c])
  BY DEF CoreInv, ThreadInv, CallInv, Holding, InHand
<1>2. of[held[c]] \in File
  BY <1>1 DEF CoreInv, LiveInv
<1> QED
  BY <1>1, <1>2 DEF CoreInv, FileInv

(* The result of a close frees the file when no other task needs it.        *)
LEMMA DestroyKeeps ==
  ASSUME IInv, FileOutlivesTasks, NEW c \in Thread, DestroyFile(c)
  PROVE  FileOutlivesTasks'
<1>t. CoreInv /\ LiveInv /\ at \in [Thread -> Place]
  BY DEF IInv, CoreInv, TypeOK, Place
<1>1. /\ at[c] = "destroy" /\ at' = [at EXCEPT ![c] = "release"]
      /\ file' = [file EXCEPT ![of[held[c]]] = "freed"]
      /\ UNCHANGED <<live, of, held>>
  BY DEF DestroyFile, taskVars
<1>2. /\ held[c] \in live /\ of[held[c]] \in File
      /\ closing[of[held[c]]] = held[c] /\ tasks[of[held[c]]] = {}
  BY <1>1, <1>t, LastTask
<1>3. at'[c] = "release" /\ \A d \in Thread : d # c => at'[d] = at[d]
  BY <1>1, <1>t DEF Place
<1>4. ASSUME NEW u \in live
      PROVE  \/ file'[of[u]] # "freed"
             \/ \E d \in Thread : at'[d] = "release" /\ held[d] = u
  <2>1. CASE of[u] # of[held[c]]
    <3>1. \/ file[of[u]] # "freed"
          \/ \E d \in Thread : at[d] = "release" /\ held[d] = u
      BY DEF FileOutlivesTasks
    <3>2. CASE file[of[u]] # "freed"
      <4>1. of[u] \in File
        BY <1>t DEF LiveInv
      <4> QED
        BY <1>1, <1>t, <2>1, <3>2, <4>1 DEF CoreInv, TypeOK
    <3>3. CASE \E d \in Thread : at[d] = "release" /\ held[d] = u
      BY <1>1, <1>3, <3>3
    <3> QED
      BY <3>1, <3>2, <3>3
  <2>2. CASE of[u] = of[held[c]] /\ u # held[c]
    <3>1. Started(u) /\ u \notin tasks[of[u]]
      BY <1>2, <1>t, <2>2 DEF LiveInv
    <3>2. PICK d \in Thread : held[d] = u
      BY <3>1 DEF Started, InHand
    <3>3. at[d] = "release"
      <4>1. CallInv(d) /\ u # None
        BY <1>t, NoneIsNothing DEF CoreInv, ThreadInv, TypeOK
      <4> QED
        BY <1>2, <2>2, <3>1, <3>2, <4>1 DEF CallInv, Holding
    <3> QED
      BY <1>1, <1>3, <3>2, <3>3
  <2>3. CASE u = held[c]
    BY <1>3, <2>3
  <2> QED
    BY <2>1, <2>2, <2>3
<1> QED
  BY <1>1, <1>4 DEF FileOutlivesTasks

(* Every step keeps the files that tasks need.                              *)
LEMMA FileStep ==
  ASSUME IInv, FileOutlivesTasks, Next
  PROVE  FileOutlivesTasks'
<1>t. CoreInv /\ TypeOK /\ LiveInv /\ ThreadInv /\ at \in [Thread -> Place]
  BY DEF IInv, CoreInv, TypeOK, Place
<1>w. /\ live \subseteq Task /\ held \in [Thread -> Task \cup {None}]
      /\ of \in [Task -> File \cup {None}]
  BY <1>t DEF TypeOK
<1>h. \A d \in Thread : at[d] = "release" => held[d] \in Task
  BY <1>t, <1>w DEF ThreadInv, CallInv, Holding
<1>1. CASE Quiet
  BY <1>1, <1>t, FilesKept DEF Quiet, Holding
<1>2. ASSUME NEW c \in Thread, NEW q \in Queue, Takes(c, q) PROVE FileOutlivesTasks'
  <2>1. UNCHANGED <<file, live, of>> /\ at[c] # "release"
        /\ \A d \in Thread : d # c => at'[d] = at[d] /\ held'[d] = held[d]
    BY <1>2, <1>t, <1>w DEF Takes, fileVars, taskVars
  <2> QED
    BY <1>t, <2>1, FilesKept
<1>3. ASSUME NEW c \in Thread, NEW f \in File, NEW q \in Queue, RequestAsyncIO(c, f, q)
      PROVE  FileOutlivesTasks'
  <2>1. PICK t \in fresh : live' = live \cup {t} /\ of' = [of EXCEPT ![t] = f]
                           /\ held' = [held EXCEPT ![c] = t]
    BY <1>3 DEF RequestAsyncIO
  <2>2. /\ file' = file /\ file[f] = "open" /\ at[c] # "release"
        /\ at' = [at EXCEPT ![c] = "queue"]
    BY <1>3 DEF RequestAsyncIO, Requests
  <2>3. t \in Task /\ t \notin live
    BY <1>t, <2>1, FreshFacts
  <2>4. \A u \in live' : (u \in live /\ of'[u] = of[u]) \/ of'[u] = f
    BY <1>w, <2>1, <2>3
  <2>5. \A d \in Thread : d # c => at'[d] = at[d] /\ held'[d] = held[d]
    BY <1>t, <1>w, <2>1, <2>2, <2>3
  <2> QED
    BY <1>t, <2>2, <2>4, <2>5, FilesKept
<1>4. ASSUME NEW c \in Thread, NEW f \in File, NEW q \in Queue, CloseAsyncIO(c, f, q)
      PROVE  FileOutlivesTasks'
  <2> DEFINE a == [at EXCEPT ![c] = "idle"]
  <2>1. PICK t \in fresh : live' = live \cup {t} /\ of' = [of EXCEPT ![t] = f]
    BY <1>4 DEF CloseAsyncIO
  <2>2. /\ file' = file /\ file[f] = "open" /\ at[c] # "release" /\ held' = held
        /\ at' = a \/ at' \in Wakes(q, a)
    BY <1>4 DEF CloseAsyncIO, Closes, QueueAsyncIOTask
  <2>3. t \in Task /\ t \notin live
    BY <1>t, <2>1, FreshFacts
  <2>4. \A u \in live' : (u \in live /\ of'[u] = of[u]) \/ of'[u] = f
    BY <1>w, <2>1, <2>3
  <2>5. a \in [Thread -> Place] /\ \A d \in Thread : d # c => a[d] = at[d]
    BY <1>t DEF Place
  <2> HIDE DEF a
  <2>6. \A d \in Thread : at'[d] = a[d] \/ d \in Asleep(q)
    BY <2>2, <2>5, WakesFacts
  <2>7. \A d \in Thread : at[d] = "release" => at'[d] = "release"
    BY <2>2, <2>5, <2>6 DEF Asleep
  <2> QED
    BY <1>t, <2>2, <2>4, <2>7, FilesKept
<1>5. ASSUME NEW c \in Thread, QueueTask(c) PROVE FileOutlivesTasks'
  <2> DEFINE q == using[c].queue
             a == [at EXCEPT ![c] = IF using[c].file \in oneshot THEN "close" ELSE "idle"]
  <2>1. /\ UNCHANGED <<file, live, of>> /\ at[c] = "queue"
        /\ held' = [held EXCEPT ![c] = None]
        /\ at' = a \/ at' \in Wakes(q, a)
    BY <1>5 DEF QueueTask, QueueAsyncIOTask, fileVars, taskVars
  <2>2. a \in [Thread -> Place] /\ \A d \in Thread : d # c => a[d] = at[d]
    BY <1>t DEF Place
  <2> HIDE DEF a, q
  <2>3. \A d \in Thread : at'[d] = a[d] \/ d \in Asleep(q)
    BY <2>1, <2>2, WakesFacts
  <2>4. \A d \in Thread : at[d] = "release" => at'[d] = "release" /\ held'[d] = held[d]
    BY <1>w, <2>1, <2>2, <2>3 DEF Asleep
  <2> QED
    BY <1>t, <2>1, <2>4, FilesKept
<1>6. ASSUME NEW c \in Thread, GetOutcome(c) PROVE FileOutlivesTasks'
  <2>d. PICK t, f, q : t = held[c] /\ f = of[t] /\ q = to[closing[f]]
    OBVIOUS
  <2> DEFINE a == [at EXCEPT ![c] = IF closing[f] = t THEN "destroy" ELSE "release"]
  <2>1. /\ UNCHANGED <<file, live, of, held>> /\ at[c] = "outcome"
        /\ at' = a \/ at' \in Wakes(q, a)
    BY <1>6, <2>d DEF GetOutcome, QueueAsyncIOTask, taskVars
  <2>2. a \in [Thread -> Place] /\ \A d \in Thread : d # c => a[d] = at[d]
    BY <1>t DEF Place
  <2> HIDE DEF a
  <2>3. \A d \in Thread : at'[d] = a[d] \/ d \in Asleep(q)
    BY <2>1, <2>2, WakesFacts
  <2>4. \A d \in Thread : at[d] = "release" => at'[d] = "release" /\ held'[d] = held[d]
    BY <2>1, <2>2, <2>3 DEF Asleep
  <2> QED
    BY <1>t, <2>1, <2>4, FilesKept
<1>7. ASSUME NEW c \in Thread, DestroyFile(c) PROVE FileOutlivesTasks'
  BY <1>7, DestroyKeeps
<1>8. ASSUME NEW c \in Thread, ReleaseTask(c) PROVE FileOutlivesTasks'
  <2>1. /\ UNCHANGED <<file, of>> /\ live' = live \ {held[c]}
        /\ held' = [held EXCEPT ![c] = None]
        /\ \E p \in {"drain", "idle"} : at' = [at EXCEPT ![c] = p]
    BY <1>8 DEF ReleaseTask, Returns, fileVars
  <2>2. /\ \A d \in Thread : d # c => at'[d] = at[d] /\ held'[d] = held[d]
        /\ held[c] \notin live'
    BY <1>t, <1>w, <2>1
  <2> QED
    BY <1>t, <2>1, <2>2, FilesKept
<1>9. ASSUME NEW c \in Thread, Shutdown(c) PROVE FileOutlivesTasks'
  <2>1. UNCHANGED <<file, live, of, held>>
    BY <1>9 DEF Shutdown, fileVars, taskVars
  <2>2. \A d \in Thread : at[d] = "release" => at'[d] = "release"
    BY <1>9, <1>t, ShutdownFacts
  <2> QED
    BY <1>t, <2>1, <2>2, FilesKept
<1>10. ASSUME NEW w \in Worker, WorkerIO(w) PROVE FileOutlivesTasks'
  <2>1. UNCHANGED <<file, live, of, held>>
    BY <1>10 DEF WorkerIO, fileVars, taskVars
  <2>2. \A d \in Thread : at[d] = "release" => at'[d] = "release"
    BY <1>10, <1>t, WorkerIOFacts DEF Asleep
  <2> QED
    BY <1>t, <2>1, <2>2, FilesKept
<1> QED
  BY <1>1, <1>2, <1>3, <1>4, <1>5, <1>6, <1>7, <1>8, <1>9, <1>10, EffectOfStep

(* A file outlives its tasks: it is freed by the thread that takes the      *)
(* result of its close, which was queued only when the list of its other    *)
(* tasks was empty (SDL_asyncio.c, 229-256).                                *)
THEOREM FilesLast == Spec => []FileOutlivesTasks
<1>1. Init => FileOutlivesTasks
  BY DEF Init, FileOutlivesTasks
<1>2. IInv /\ FileOutlivesTasks /\ [Next]_vars => FileOutlivesTasks'
  <2>1. ASSUME FileOutlivesTasks, UNCHANGED vars PROVE FileOutlivesTasks'
    BY <2>1 DEF FileOutlivesTasks, vars, fileVars, taskVars, threadVars
  <2> QED
    BY <2>1, FileStep
<1> QED
  BY <1>1, <1>2, Inductive, PTL DEF Spec

-----------------------------------------------------------------------------
(* A queue outlives its tasks, when the application is careful: a close     *)
(* that waits does not count in tasks_inflight, but the tasks it waits for  *)
(* do, and go to the same queue.                                            *)
CareInv ==
  \A f \in File :
    Deferred(f) /\ queue[to[closing[f]]] = "dying" =>
      \A u \in tasks[f] : to[u] = to[closing[f]]

(* Queues are opened, but none is about to go away. *)
Mild == \A p \in Queue : queue'[p] = queue[p] \/ (queue[p] = "none" /\ queue'[p] = "open")

(* The end of DestroyAsyncIOQueue. *)
Frees(c) ==
  /\ at[c] = "drain" /\ ~HasInflight(using[c].queue) /\ using[c].queue \in Queue
  /\ queue' = [queue EXCEPT ![using[c].queue] = "freed"]
  /\ UNCHANGED <<fileVars, taskVars>>

(* Only two steps make a queue go away: the begin and the end of its        *)
(* destruction.                                                             *)
LEMMA QueueEffect ==
  ASSUME IInv, Next
  PROVE  \/ Mild
         \/ \E c \in Thread, q \in Queue : DestroyAsyncIOQueue(c, q)
         \/ \E c \in Thread : Frees(c)
<1>t. TypeOK /\ ThreadInv
  BY DEF IInv, CoreInv
<1>1. ASSUME queue' = queue PROVE Mild
  BY <1>1 DEF Mild
<1>2. CASE \/ \E q \in Queue : CreateAsyncIOQueue(q) \/ SignalAsyncIOQueue(q)
           \/ \E f \in File : AsyncIOFromFile(f)
           \/ \E c \in Thread, f \in File, q \in Queue : LoadFileAsync(c, f, q)
  <2>1. ASSUME NEW q \in Queue, CreateAsyncIOQueue(q) PROVE Mild
    BY <1>t, <2>1 DEF CreateAsyncIOQueue, Mild, TypeOK
  <2>2. \/ queue' = queue
        \/ \E q \in Queue : CreateAsyncIOQueue(q)
    BY <1>2 DEF SignalAsyncIOQueue, AsyncIOFromFile, LoadFileAsync, queueVars
  <2> QED
    BY <1>1, <2>1, <2>2
<1>3. ASSUME NEW c \in Thread, NEW f \in File, NEW q \in Queue,
             RequestAsyncIO(c, f, q) \/ CloseAsyncIO(c, f, q)
      PROVE  queue' = queue
  BY <1>3 DEF RequestAsyncIO, CloseAsyncIO
<1>4. ASSUME NEW c \in Thread,
             \/ \E q \in Queue : GetResult(c, q) \/ WaitResult(c, q)
             \/ QueueTask(c) \/ WaitTimeout(c) \/ WaitReturn(c) \/ GetOutcome(c)
             \/ DestroyFile(c) \/ ReleaseTask(c) \/ Shutdown(c) \/ ShutdownWait(c)
      PROVE  queue' = queue
  BY <1>4 DEF GetResult, WaitResult, QueueTask, WaitTimeout, WaitReturn, GetOutcome, DestroyFile,
              ReleaseTask, Shutdown, ShutdownWait, queueVars
<1>5. ASSUME NEW c \in Thread, Drain(c) PROVE queue' = queue \/ Frees(c)
  <2>1. using[c].queue \in Queue
    BY <1>5, <1>t DEF ThreadInv, CallInv, Drain
  <2> QED
    BY <1>5, <2>1 DEF Drain, Frees
<1>6. ASSUME NEW w \in Worker,
             \/ WorkerTake(w) \/ WorkerSleep(w) \/ WorkerTimeout(w)
             \/ WorkerIO(w) \/ WorkerBack(w) \/ WorkerExit(w)
      PROVE  queue' = queue
  BY <1>6 DEF WorkerTake, WorkerSleep, WorkerTimeout, WorkerIO, WorkerBack, WorkerExit, queueVars
<1> QED
  BY <1>1, <1>2, <1>3, <1>4, <1>5, <1>6 DEF Next

(* A step that opens queues at most, and no task is new, keeps CareInv and  *)
(* the queues that tasks need.                                              *)
LEMMA QueuesKept ==
  ASSUME LiveInv, QueueOutlivesTasks, CareInv, Mild, UNCHANGED <<closing, to>>,
         live' \subseteq live,
         \A f \in File : closing[f] # None /\ closing[f] \notin tasks'[f] =>
           \/ closing[f] \notin tasks[f] /\ tasks'[f] \subseteq tasks[f]
           \/ tasks'[f] = {}
  PROVE  QueueOutlivesTasks' /\ CareInv'
<1>1. \A u \in live' : u \in live /\ to[u] \in Queue
  BY DEF LiveInv
<1>2. QueueOutlivesTasks'
  BY <1>1 DEF QueueOutlivesTasks, Mild
<1>3. ASSUME NEW f \in File, closing[f] # None, closing[f] \in live', closing[f] \notin tasks'[f],
             queue'[to[closing[f]]] = "dying", NEW u \in tasks'[f]
      PROVE  to[u] = to[closing[f]]
  <2>1. closing[f] \notin tasks[f] /\ u \in tasks[f]
    BY <1>3
  <2>2. queue[to[closing[f]]] = "dying"
    BY <1>1, <1>3 DEF Mild
  <2> QED
    BY <1>1, <1>3, <2>1, <2>2 DEF CareInv, Deferred
<1>4. CareInv'
  BY <1>3 DEF CareInv, Deferred
<1> QED
  BY <1>2, <1>4

(* A new task goes to a queue that is open.                                 *)
LEMMA NewTaskKeeps ==
  ASSUME IInv, QueueOutlivesTasks, CareInv,
         NEW c \in Thread, NEW f \in File, NEW q \in Queue,
         RequestAsyncIO(c, f, q) \/ CloseAsyncIO(c, f, q)
  PROVE  QueueOutlivesTasks' /\ CareInv'
<1>t. TypeOK /\ CoreInv /\ LiveInv /\ ThreadInv /\ FileInv
  BY DEF IInv, CoreInv
<1>w. /\ to \in [Task -> Queue \cup {None}] /\ live \subseteq Task
      /\ tasks \in [File -> SUBSET Task] /\ closing \in [File -> Task \cup {None}]
  BY <1>t DEF TypeOK
<1>1. PICK t \in fresh :
        /\ live' = live \cup {t} /\ to' = [to EXCEPT ![t] = q]
        /\ tasks' = [tasks EXCEPT ![f] = @ \cup {t}] \/ tasks' = tasks
        /\ \/ closing' = closing /\ closing[f] = None
           \/ closing' = [closing EXCEPT ![f] = t]
  BY DEF RequestAsyncIO, CloseAsyncIO, TakesTasks
<1>2. queue' = queue /\ queue[q] = "open"
  BY <1>t DEF RequestAsyncIO, CloseAsyncIO, Requests, Closes, ThreadInv, CallInv
<1>3. t \in Task /\ t \notin live /\ t # None /\ \A g \in File : t \notin tasks[g] /\ closing[g] # t
  BY <1>t, FreshFacts
<1>4. to'[t] = q /\ \A u \in live : to'[u] = to[u] /\ u # t
  BY <1>1, <1>3, <1>w
<1>5. QueueOutlivesTasks'
  BY <1>1, <1>2, <1>4 DEF QueueOutlivesTasks
<1>6. ASSUME NEW g \in File, closing'[g] # None, closing'[g] \in live', closing'[g] \notin tasks'[g],
             queue[to'[closing'[g]]] = "dying", NEW u \in tasks'[g]
      PROVE  to'[u] = to'[closing'[g]]
  <2>1. closing'[g] # t
    BY <1>2, <1>4, <1>6
  <2>2. g # f /\ closing'[g] = closing[g] /\ tasks'[g] = tasks[g]
    BY <1>1, <1>3, <1>6, <1>w, <2>1
  <2>3. closing[g] \in live /\ u \in live
    BY <1>1, <1>6, <1>t, <2>1, <2>2 DEF FileInv
  <2> QED
    BY <1>4, <1>6, <2>2, <2>3 DEF CareInv, Deferred
<1>7. CareInv'
  BY <1>2, <1>6 DEF CareInv, Deferred
<1> QED
  BY <1>5, <1>7

(* When the destruction of a queue comes to its end no task goes to it.     *)
LEMMA FreesKeeps ==
  ASSUME IInv, QueueOutlivesTasks, CareInv, NEW c \in Thread, Frees(c)
  PROVE  QueueOutlivesTasks' /\ CareInv'
<1>t. TypeOK /\ CoreInv /\ LiveInv /\ ThreadInv /\ FileInv /\ CountInv
  BY DEF IInv, CoreInv
<1>w. queue \in [Queue -> {"none", "open", "dying", "freed"}] /\ inflight \in [Queue -> Nat]
  BY <1>t DEF TypeOK
<1>d. PICK q \in Queue : q = using[c].queue
  BY DEF Frees
<1>1. /\ at[c] = "drain" /\ inflight[q] = 0 /\ queue[q] \in {"dying", "freed"}
      /\ queue' = [queue EXCEPT ![q] = "freed"]
      /\ UNCHANGED <<live, to, tasks, closing>>
  BY <1>d, <1>t, <1>w DEF Frees, HasInflight, ThreadInv, CallInv, fileVars, taskVars
<1>2. Counts(q) = {}
  BY <1>1, <1>t, CountFacts DEF CountInv
<1>3. ASSUME NEW t \in live, to[t] = q PROVE FALSE
  <2>1. ~Started(t) /\ closing[of[t]] = t /\ of[t] \in File /\ queue[q] = "dying"
    BY <1>1, <1>2, <1>3, <1>t DEF Counts, LiveInv, QueueOutlivesTasks
  <2>2. t \notin tasks[of[t]] /\ ~InHand(t) /\ t # None
    BY <1>t, <2>1, NoneIsNothing DEF Started, TypeOK
  <2>3. tasks[of[t]] # {}
    BY <1>3, <1>t, <2>1, <2>2 DEF FileInv
  <2>4. PICK u \in tasks[of[t]] : TRUE
    BY <2>3
  <2>5. to[u] = q
    BY <1>3, <2>1, <2>2, <2>4 DEF CareInv, Deferred
  <2>6. u \in live /\ of[u] = of[t]
    BY <1>t, <2>1, <2>4 DEF FileInv
  <2>7. u \in Counts(q)
    BY <2>4, <2>5, <2>6 DEF Counts, Started
  <2> QED
    BY <1>2, <2>7
<1>4. \A p \in Queue : p # q => queue'[p] = queue[p]
  BY <1>1, <1>w
<1>5. QueueOutlivesTasks'
  BY <1>1, <1>3, <1>4, <1>t DEF QueueOutlivesTasks, LiveInv
<1>6. \A f \in File : closing[f] \in live => queue'[to[closing[f]]] = queue[to[closing[f]]]
  BY <1>3, <1>4, <1>t DEF LiveInv
<1>7. ASSUME NEW f \in File, closing[f] # None, closing[f] \in live, closing[f] \notin tasks[f],
             queue'[to[closing[f]]] = "dying", NEW u \in tasks[f]
      PROVE  to[u] = to[closing[f]]
  BY <1>6, <1>7 DEF CareInv, Deferred
<1>8. CareInv'
  BY <1>1, <1>7 DEF CareInv, Deferred
<1> QED
  BY <1>5, <1>8

(* The destruction of a queue starts only when the application is careful:  *)
(* no close waits in it for a task of another queue.                        *)
LEMMA DestroyQueueKeeps ==
  ASSUME IInv, QueueOutlivesTasks, CareInv, Careful,
         NEW c \in Thread, NEW q \in Queue, DestroyAsyncIOQueue(c, q)
  PROVE  QueueOutlivesTasks' /\ CareInv'
<1>t. TypeOK /\ LiveInv
  BY DEF IInv, CoreInv
<1>1. /\ queue[q] = "open" /\ queue' = [queue EXCEPT ![q] = "dying"]
      /\ UNCHANGED <<live, to, tasks, closing>>
  BY DEF DestroyAsyncIOQueue, fileVars, taskVars
<1>2. \A f \in File : Deferred(f) /\ to[closing[f]] = q => \A t \in tasks[f] : to[t] = q
  BY DEF DestroyAsyncIOQueue, MayDestroy
<1>3. queue'[q] = "dying" /\ \A p \in Queue : p # q => queue'[p] = queue[p]
  BY <1>1, <1>t DEF TypeOK
<1>4. QueueOutlivesTasks'
  BY <1>1, <1>3, <1>t DEF QueueOutlivesTasks, LiveInv
<1>5. ASSUME NEW f \in File, closing[f] # None, closing[f] \in live, closing[f] \notin tasks[f],
             queue'[to[closing[f]]] = "dying", NEW u \in tasks[f]
      PROVE  to[u] = to[closing[f]]
  <2>1. CASE to[closing[f]] = q
    BY <1>2, <1>5, <2>1 DEF Deferred
  <2>2. CASE to[closing[f]] # q
    BY <1>3, <1>5, <1>t, <2>2 DEF CareInv, Deferred, LiveInv
  <2> QED
    BY <2>1, <2>2
<1>6. CareInv'
  BY <1>1, <1>5 DEF CareInv, Deferred
<1> QED
  BY <1>4, <1>6

(* The list of a file gets shorter, or its close enters the empty list.     *)
LEMMA OutcomeKeeps ==
  ASSUME IInv, QueueOutlivesTasks, CareInv, Mild, NEW c \in Thread, GetOutcome(c)
  PROVE  QueueOutlivesTasks' /\ CareInv'
<1>t. TypeOK /\ LiveInv /\ ThreadInv /\ FileInv
  BY DEF IInv, CoreInv
<1>d. PICK t, f : t = held[c] /\ f = of[t]
  OBVIOUS
<1>1. /\ at[c] = "outcome" /\ UNCHANGED <<closing, to, live>>
      /\ \/ tasks' = [tasks EXCEPT ![f] = {closing[f]}]
         \/ tasks' = [tasks EXCEPT ![f] = @ \ {t}]
  BY <1>d DEF GetOutcome, taskVars
<1>2. t \in tasks[f] /\ f \in File
  BY <1>1, <1>d, <1>t DEF ThreadInv, CallInv, Holding, LiveInv
<1>3. /\ \A g \in File : g # f => tasks'[g] = tasks[g]
      /\ tasks'[f] = {closing[f]} \/ tasks'[f] = tasks[f] \ {t}
  BY <1>1, <1>2, <1>t DEF TypeOK
<1>4. closing[f] # None /\ closing[f] \in tasks[f] => tasks[f] = {closing[f]}
  BY <1>2, <1>t DEF FileInv
<1>5. \A g \in File : closing[g] # None /\ closing[g] \notin tasks'[g] =>
        \/ closing[g] \notin tasks[g] /\ tasks'[g] \subseteq tasks[g]
        \/ tasks'[g] = {}
  BY <1>2, <1>3, <1>4
<1> QED
  BY <1>1, <1>5, <1>t, QueuesKept

(* Every step keeps CareInv and the queues that tasks need.                 *)
LEMMA QueueOutlivesStep ==
  ASSUME IInv, QueueOutlivesTasks, CareInv, Careful, Next
  PROVE  QueueOutlivesTasks' /\ CareInv'
<1>t. LiveInv
  BY DEF IInv, CoreInv
<1>1. ASSUME NEW c \in Thread, NEW q \in Queue, DestroyAsyncIOQueue(c, q)
      PROVE  QueueOutlivesTasks' /\ CareInv'
  BY <1>1, DestroyQueueKeeps
<1>2. ASSUME NEW c \in Thread, Frees(c) PROVE QueueOutlivesTasks' /\ CareInv'
  BY <1>2, FreesKeeps
<1>3. ASSUME Mild, UNCHANGED <<closing, to, tasks>>, live' \subseteq live
      PROVE  QueueOutlivesTasks' /\ CareInv'
  BY <1>3, <1>t, QueuesKept
<1>4. ASSUME Mild PROVE QueueOutlivesTasks' /\ CareInv'
  <2>1. ASSUME NEW c \in Thread, NEW f \in File, NEW q \in Queue,
               RequestAsyncIO(c, f, q) \/ CloseAsyncIO(c, f, q)
        PROVE  QueueOutlivesTasks' /\ CareInv'
    BY <2>1, NewTaskKeeps
  <2>2. ASSUME NEW c \in Thread, GetOutcome(c) PROVE QueueOutlivesTasks' /\ CareInv'
    BY <1>4, <2>2, OutcomeKeeps
  <2>3. ASSUME \/ Quiet
               \/ \E c \in Thread, q \in Queue : Takes(c, q)
               \/ \E c \in Thread : \/ QueueTask(c) \/ DestroyFile(c) \/ ReleaseTask(c)
                                    \/ Shutdown(c)
               \/ \E w \in Worker : WorkerIO(w)
        PROVE  UNCHANGED <<closing, to, tasks>> /\ live' \subseteq live
    BY <2>3 DEF Quiet, Takes, QueueTask, DestroyFile, ReleaseTask, Shutdown, WorkerIO, fileVars,
                taskVars
  <2> QED
    BY <1>3, <1>4, <2>1, <2>2, <2>3, EffectOfStep
<1> QED
  BY <1>1, <1>2, <1>4, QueueEffect

(* Nothing that a task, a worker or a call still uses is freed, as long as  *)
(* no queue is destroyed while the close of a file waits in it for tasks of *)
(* another queue (SDL_asyncio.c, 284-302).  Without that care it is false,  *)
(* which run asyncio_destroy shows.                                         *)
THEOREM NothingFreed ==
  ASSUME Careful
  PROVE  Spec => []NothingFreedInUse
<1>1. Init => QueueOutlivesTasks /\ CareInv
  BY DEF Init, QueueOutlivesTasks, CareInv
<1>2. IInv /\ QueueOutlivesTasks /\ CareInv /\ [Next]_vars => QueueOutlivesTasks' /\ CareInv'
  <2>1. ASSUME QueueOutlivesTasks, CareInv, UNCHANGED vars PROVE QueueOutlivesTasks' /\ CareInv'
    BY <2>1 DEF QueueOutlivesTasks, CareInv, Deferred, vars, fileVars, queueVars, taskVars
  <2> QED
    BY <2>1, QueueOutlivesStep
<1>3. QueueOutlivesTasks /\ FileOutlivesTasks => NothingFreedInUse
  BY DEF NothingFreedInUse
<1> QED
  BY <1>1, <1>2, <1>3, Inductive, FilesLast, PTL DEF Spec

-----------------------------------------------------------------------------
(* Enough waiters are woken for what is completed.                          *)
Woken(q) == {c \in Thread : at[c] = "woken" /\ using[c].queue = q}

(* A move of threads that do not wait. *)
Waits == {"asleep", "woken"}
Neutral(a, u) ==
  \A d \in Thread : \/ a[d] = at[d] /\ u[d] = using[d]
                    \/ at[d] \notin Waits /\ a[d] \notin Waits

(* The invariant, for one queue. *)
Enough(q) == Asleep(q) # {} => Cardinality(Woken(q)) >= Len(completed[q])

(* WaitersWoken speaks of each queue on its own.                            *)
LEMMA WaitersByQueue == WaitersWoken <=> \A q \in Queue : Enough(q)
BY DEF WaitersWoken, Enough, Woken

(* The same for the next state.                                             *)
LEMMA WaitersByQueuePrime == WaitersWoken' <=> \A q \in Queue : Enough(q)'
BY DEF WaitersWoken, Enough, Woken

(* The woken threads of a queue can be counted, now and after the step.     *)
LEMMA WokenFinite ==
  ASSUME NEW q
  PROVE  /\ IsFiniteSet(Woken(q)) /\ IsFiniteSet(Woken(q)')
         /\ Cardinality(Woken(q)) \in Nat /\ Cardinality(Woken(q)') \in Nat
<1>1. Woken(q) \in SUBSET Thread /\ Woken(q)' \in SUBSET Thread
  BY DEF Woken
<1>2. IsFiniteSet(Woken(q)) /\ IsFiniteSet(Woken(q)')
  BY <1>1, Bounded, FS_Subset
<1> QED
  BY <1>2, FS_CardinalityType

(* Fewer results and more woken threads are enough when they were.          *)
LEMMA EnoughKept ==
  ASSUME NEW q, Enough(q), completed[q] \in Seq(Task), completed'[q] \in Seq(Task),
         Len(completed'[q]) <= Len(completed[q]),
         Woken(q) \subseteq Woken(q)', Asleep(q)' \subseteq Asleep(q)
  PROVE  Enough(q)'
<1>1. Cardinality(Woken(q)) <= Cardinality(Woken(q)')
  BY WokenFinite, FS_Subset
<1>2. /\ Cardinality(Woken(q)) \in Nat /\ Cardinality(Woken(q)') \in Nat
      /\ Len(completed[q]) \in Nat /\ Len(completed'[q]) \in Nat
  BY WokenFinite
<1> QED
  BY <1>1, <1>2 DEF Enough

(* No thread need be awake for an empty queue.                              *)
LEMMA EnoughEmpty ==
  ASSUME NEW q, completed'[q] = <<>>
  PROVE  Enough(q)'
<1>1. Cardinality(Woken(q)') \in Nat
  BY WokenFinite
<1>2. Len(completed'[q]) = 0
  OBVIOUS
<1> QED
  BY <1>1, <1>2 DEF Enough

(* A neutral move leaves those who sleep and those who are woken.           *)
LEMMA NeutralSets ==
  ASSUME Neutral(at', using')
  PROVE  \A q : Woken(q)' = Woken(q) /\ Asleep(q)' = Asleep(q)
BY DEF Neutral, Woken, Asleep, Waits

(* A neutral move that completes nothing keeps WaitersWoken.                *)
LEMMA NeutralKeeps ==
  ASSUME TypeOK, WaitersWoken, Neutral(at', using'), completed' = completed
  PROVE  WaitersWoken'
<1>1. ASSUME NEW q \in Queue PROVE Enough(q)'
  <2>1. completed[q] \in Seq(Task) /\ Len(completed[q]) <= Len(completed[q])
    BY DEF TypeOK
  <2> QED
    BY <1>1, <2>1, NeutralSets, EnoughKept, WaitersByQueue
<1> QED
  BY <1>1, WaitersByQueuePrime

(* A task is completed, which wakes a waiter if there is one.               *)
LEMMA WakeKeeps ==
  ASSUME TypeOK, WaitersWoken, NEW t \in Task, NEW q \in Queue,
         NEW a \in [Thread -> Place], Neutral(a, using'),
         completed' = Completed(t, q), at' \in Wakes(q, a)
  PROVE  WaitersWoken'
<1>t. completed \in [Queue -> Seq(Task)]
  BY DEF TypeOK
<1>s. completed[q] \in Seq(Task)
  BY <1>t
<1>1. /\ completed'[q] = <<t>> \o completed[q]
      /\ \A p \in Queue : p # q => completed'[p] = completed[p]
  BY <1>t DEF Completed
<1>2. completed'[q] \in Seq(Task) /\ Len(completed'[q]) = Len(completed[q]) + 1
  BY <1>1, <1>s, ConsSet
<1>3. CASE Asleep(q) = {}
  <2>1. at' = a
    BY <1>3 DEF Wakes
  <2>2. \A p : Woken(p)' = Woken(p) /\ Asleep(p)' = Asleep(p)
    BY <2>1, NeutralSets
  <2>3. Enough(q)'
    BY <1>3, <2>2 DEF Enough
  <2>4. ASSUME NEW p \in Queue, p # q PROVE Enough(p)'
    <3>1. /\ completed[p] \in Seq(Task) /\ completed'[p] = completed[p]
          /\ Len(completed[p]) <= Len(completed[p])
      BY <1>1, <1>t, <2>4
    <3> QED
      BY <2>2, <3>1, EnoughKept, WaitersByQueue
  <2> QED
    BY <2>3, <2>4, WaitersByQueuePrime
<1>4. CASE Asleep(q) # {}
  <2>1. PICK c \in Asleep(q) : at' = [a EXCEPT ![c] = "woken"]
    BY <1>4 DEF Wakes
  <2>2. /\ c \in Thread /\ at[c] = "asleep" /\ using[c].queue = q
        /\ using'[c].queue = q /\ at'[c] = "woken"
        /\ \A d \in Thread : d # c => at'[d] = a[d]
    BY <2>1 DEF Asleep, Neutral, Waits
  <2>3. /\ \A p : p # q => Woken(p)' = Woken(p) /\ Asleep(p)' = Asleep(p)
        /\ Woken(q)' = Woken(q) \cup {c} /\ c \notin Woken(q)
    BY <2>2 DEF Neutral, Woken, Asleep, Waits
  <2>4. Cardinality(Woken(q)') = Cardinality(Woken(q)) + 1
    BY <2>3, WokenFinite, FS_AddElement
  <2>5. Enough(q)'
    <3>1. Cardinality(Woken(q)) >= Len(completed[q])
      BY <1>4, WaitersByQueue DEF Enough
    <3>2. Cardinality(Woken(q)) \in Nat /\ Len(completed[q]) \in Nat
      BY <1>s, WokenFinite
    <3>3. Cardinality(Woken(q)') >= Len(completed'[q])
      BY <1>2, <2>4, <3>1, <3>2
    <3> QED
      BY <3>3 DEF Enough
  <2>6. ASSUME NEW p \in Queue, p # q PROVE Enough(p)'
    <3>1. /\ completed[p] \in Seq(Task) /\ completed'[p] = completed[p]
          /\ Len(completed[p]) <= Len(completed[p])
      BY <1>1, <1>t, <2>6
    <3> QED
      BY <2>3, <2>6, <3>1, EnoughKept, WaitersByQueue
  <2> QED
    BY <2>5, <2>6, WaitersByQueuePrime
<1> QED
  BY <1>3, <1>4

(* A thread goes to sleep on a queue where nothing is completed.            *)
LEMMA SleepKeeps ==
  ASSUME TypeOK, WaitersWoken, NEW c \in Thread, NEW q \in Queue, at[c] \notin Waits,
         at' = [at EXCEPT ![c] = "asleep"], using'[c].queue = q,
         \A d \in Thread : d # c => using'[d] = using[d],
         completed[q] = <<>>, completed' = completed
  PROVE  WaitersWoken'
<1>t. at \in [Thread -> Place] /\ completed \in [Queue -> Seq(Task)]
  BY DEF TypeOK, Place
<1>1. at'[c] = "asleep" /\ \A d \in Thread : d # c => at'[d] = at[d]
  BY <1>t
<1>2. ASSUME NEW p \in Queue, p # q PROVE Enough(p)'
  <2>1. Woken(p)' = Woken(p) /\ Asleep(p)' = Asleep(p)
    BY <1>1, <1>2 DEF Woken, Asleep, Waits
  <2>2. completed[p] \in Seq(Task) /\ Len(completed[p]) <= Len(completed[p])
    BY <1>t
  <2> QED
    BY <2>1, <2>2, EnoughKept, WaitersByQueue
<1>3. Enough(q)'
  BY EnoughEmpty
<1> QED
  BY <1>2, <1>3, WaitersByQueuePrime

(* Threads are woken for another reason. *)
LEMMA MoreKeeps ==
  ASSUME TypeOK, WaitersWoken, using' = using, completed' = completed,
         \A d \in Thread : at'[d] = at[d] \/ (at[d] = "asleep" /\ at'[d] = "woken")
  PROVE  WaitersWoken'
<1>1. \A q : Woken(q) \subseteq Woken(q)' /\ Asleep(q)' \subseteq Asleep(q)
  BY DEF Woken, Asleep
<1>2. ASSUME NEW q \in Queue PROVE Enough(q)'
  <2>1. completed[q] \in Seq(Task) /\ Len(completed[q]) <= Len(completed[q])
    BY DEF TypeOK
  <2> QED
    BY <1>1, <2>1, EnoughKept, WaitersByQueue
<1> QED
  BY <1>2, WaitersByQueuePrime

(* A thread takes a result without having waited. *)
LEMMA TakeKeeps ==
  ASSUME TypeOK, WaitersWoken, Neutral(at', using'), NEW q \in Queue, completed[q] # <<>>,
         completed' = [completed EXCEPT ![q] = Tail(@)]
  PROVE  WaitersWoken'
<1>t. completed \in [Queue -> Seq(Task)] /\ completed[q] \in Seq(Task)
  BY DEF TypeOK
<1>1. Tail(completed[q]) \in Seq(Task) /\ Len(Tail(completed[q])) = Len(completed[q]) - 1
  BY <1>t, TailSet
<1>2. /\ completed'[q] = Tail(completed[q])
      /\ \A p \in Queue : p # q => completed'[p] = completed[p]
  BY <1>t
<1>3. ASSUME NEW p \in Queue PROVE Enough(p)'
  <2>1. /\ completed[p] \in Seq(Task) /\ completed'[p] \in Seq(Task)
        /\ Len(completed'[p]) <= Len(completed[p])
    <3>1. completed[p] \in Seq(Task) /\ Len(completed[p]) \in Nat
      BY <1>t
    <3>2. CASE p = q
      BY <1>1, <1>2, <3>1, <3>2
    <3>3. CASE p # q
      BY <1>2, <3>1, <3>3
    <3> QED
      BY <3>2, <3>3
  <2> QED
    BY <2>1, NeutralSets, EnoughKept, WaitersByQueue
<1> QED
  BY <1>3, WaitersByQueuePrime

(* A waiter that was woken takes a result, or finds nothing. *)
LEMMA WaitReturnKeeps ==
  ASSUME IInv, WaitersWoken, NEW c \in Thread, WaitReturn(c)
  PROVE  WaitersWoken'
<1>t. /\ TypeOK /\ at \in [Thread -> Place] /\ CallInv(c)
      /\ using \in [Thread -> [file : File \cup {None}, queue : Queue \cup {None}]]
      /\ completed \in [Queue -> Seq(Task)]
  BY DEF IInv, CoreInv, ThreadInv, TypeOK, Place
<1>d. PICK q : q = using[c].queue
  OBVIOUS
<1>1. /\ at[c] = "woken"
      /\ \E p \in {"outcome", "drain", "idle"} : at' = [at EXCEPT ![c] = p]
      /\ using' = using \/ using' = [using EXCEPT ![c] = NoUse]
      /\ \/ completed[q] # <<>> /\ completed' = [completed EXCEPT ![q] = Tail(@)]
         \/ completed[q] = <<>> /\ completed' = completed
  BY <1>d DEF WaitReturn, Returns
<1>q. q \in Queue /\ completed[q] \in Seq(Task)
  BY <1>1, <1>d, <1>t DEF CallInv
<1>2. /\ at'[c] \notin Waits
      /\ \A d \in Thread : d # c => at'[d] = at[d] /\ using'[d] = using[d]
  BY <1>1, <1>t DEF Waits
<1>3. /\ \A p : Asleep(p)' = Asleep(p)
      /\ \A p : p # q => Woken(p)' = Woken(p)
      /\ Woken(q)' = Woken(q) \ {c} /\ c \in Woken(q)
  BY <1>1, <1>2, <1>d DEF Woken, Asleep, Waits
<1>4. \A p \in Queue : p # q => completed'[p] = completed[p]
  BY <1>1, <1>t
<1>5. ASSUME NEW p \in Queue, p # q PROVE Enough(p)'
  <2>1. completed[p] \in Seq(Task) /\ Len(completed[p]) <= Len(completed[p])
    BY <1>t
  <2> QED
    BY <1>3, <1>4, <1>5, <2>1, EnoughKept, WaitersByQueue
<1>6. Enough(q)'
  <2>1. CASE completed[q] = <<>> /\ completed' = completed
    BY <2>1, EnoughEmpty
  <2>2. CASE completed[q] # <<>> /\ completed' = [completed EXCEPT ![q] = Tail(@)]
    <3>1. completed'[q] = Tail(completed[q])
      BY <1>q, <1>t, <2>2
    <3>2. Len(completed'[q]) = Len(completed[q]) - 1
      BY <1>q, <2>2, <3>1, TailSet
    <3>3. Cardinality(Woken(q)') = Cardinality(Woken(q)) - 1
      BY <1>3, WokenFinite, FS_RemoveElement
    <3>4. Asleep(q) # {} => Cardinality(Woken(q)) >= Len(completed[q])
      BY <1>q, WaitersByQueue DEF Enough
    <3>5. Cardinality(Woken(q)) \in Nat /\ Len(completed[q]) \in Nat
      BY <1>q, WokenFinite
    <3>6. Asleep(q)' # {} => Cardinality(Woken(q)') >= Len(completed'[q])
      BY <1>3, <3>2, <3>3, <3>4, <3>5
    <3> QED
      BY <3>6 DEF Enough
  <2> QED
    BY <1>1, <2>1, <2>2
<1> QED
  BY <1>5, <1>6, WaitersByQueuePrime

(* The shutdown wakes a waiter for each task it cancels.                    *)
LEMMA ShutdownKeeps ==
  ASSUME IInv, WaitersWoken, NEW c \in Thread, Shutdown(c)
  PROVE  WaitersWoken'
<1>t. /\ TypeOK /\ at \in [Thread -> Place] /\ completed \in [Queue -> Seq(Task)]
      /\ pool \in Seq(Task)
  BY DEF IInv, CoreInv, TypeOK, Place
<1>1. PICK S \in SUBSET {d \in Thread : at[d] = "asleep"} :
        /\ WokenByCancel(S)
        /\ at' = [d \in Thread |-> IF d = c THEN "quit"
                                   ELSE IF d \in S THEN "woken" ELSE at[d]]
  BY DEF Shutdown
<1>2. /\ at[c] = "idle" /\ using' = using
      /\ completed' = [q \in Queue |-> Cancelled(q) \o completed[q]]
  BY DEF Shutdown
<1>3. ASSUME NEW q \in Queue PROVE Enough(q)'
  <2> DEFINE R == S \cap Asleep(q)
  <2>1. /\ Woken(q)' = Woken(q) \cup R /\ Woken(q) \cap R = {}
        /\ Asleep(q)' = Asleep(q) \ S
        /\ R \subseteq Thread
    BY <1>1, <1>2 DEF Woken, Asleep
  <2>2. \/ Cardinality(R) = Len(Cancelled(q))
        \/ Asleep(q) \subseteq S
    BY <1>1 DEF WokenByCancel
  <2> HIDE DEF R
  <2>3. IsFiniteSet(R)
    BY <2>1, Bounded, FS_Subset
  <2>4. Cardinality(Woken(q)') = Cardinality(Woken(q)) + Cardinality(R)
    <3>1. Cardinality(Woken(q) \cap R) = 0
      BY <2>1, FS_EmptySet
    <3>2. Cardinality(Woken(q) \cup R) =
            Cardinality(Woken(q)) + Cardinality(R) - Cardinality(Woken(q) \cap R)
      BY <2>3, WokenFinite, FS_Union
    <3>3. Cardinality(R) \in Nat /\ Cardinality(Woken(q)) \in Nat
      BY <2>3, WokenFinite, FS_CardinalityType
    <3>4. Cardinality(Woken(q)') = Cardinality(Woken(q) \cup R)
      BY <2>1
    <3> QED
      BY <3>1, <3>2, <3>3, <3>4
  <2>5. Len(completed'[q]) = Len(Cancelled(q)) + Len(completed[q])
    <3>1. completed[q] \in Seq(Task) /\ completed'[q] = Cancelled(q) \o completed[q]
      BY <1>2, <1>t
    <3>2. Cancelled(q) \in Seq(Task)
      BY <1>t, CancelledFacts
    <3> QED
      BY <3>1, <3>2, ConcatSet
  <2>6. CASE Cardinality(R) = Len(Cancelled(q))
    <3>1. Asleep(q) # {} => Cardinality(Woken(q)) >= Len(completed[q])
      BY WaitersByQueue DEF Enough
    <3>2. /\ Cardinality(Woken(q)) \in Nat /\ Len(completed[q]) \in Nat
          /\ Len(Cancelled(q)) \in Nat
      <4>1. completed[q] \in Seq(Task)
        BY <1>t
      <4>2. Cancelled(q) \in Seq(Task)
        BY <1>t, CancelledFacts
      <4> QED
        BY <4>1, <4>2, WokenFinite
    <3>3. Asleep(q)' # {} => Cardinality(Woken(q)') >= Len(completed'[q])
      BY <2>1, <2>4, <2>5, <2>6, <3>1, <3>2
    <3> QED
      BY <3>3 DEF Enough
  <2>7. CASE Asleep(q) \subseteq S
    BY <2>1, <2>7 DEF Enough
  <2> QED
    BY <2>2, <2>6, <2>7
<1> QED
  BY <1>3, WaitersByQueuePrime

(* A move of one thread that does not wait.                                 *)
LEMMA NeutralMove ==
  ASSUME NEW a \in [Thread -> Place], NEW c \in Thread, at \in [Thread -> Place],
         at[c] \notin Waits, a[c] \notin Waits,
         \A d \in Thread : d # c => a[d] = at[d] /\ using'[d] = using[d]
  PROVE  Neutral(a, using')
BY DEF Neutral

(* A task is handed to the pool, or completed at once.                      *)
LEMMA HandOverKeeps ==
  ASSUME TypeOK, WaitersWoken, NEW t \in Task, NEW q \in Queue,
         NEW a \in [Thread -> Place], Neutral(a, using'), QueueAsyncIOTask(t, q, a)
  PROVE  WaitersWoken'
<1>1. CASE completed' = Completed(t, q) /\ at' \in Wakes(q, a)
  BY <1>1, WakeKeeps
<1>2. CASE at' = a /\ completed' = completed
  BY <1>2, NeutralKeeps
<1> QED
  BY <1>1, <1>2 DEF QueueAsyncIOTask

(* Every step keeps WaitersWoken.                                           *)
LEMMA WaitersStep ==
  ASSUME IInv, WaitersWoken, Next
  PROVE  WaitersWoken'
<1>t. /\ TypeOK /\ CoreInv /\ ThreadInv /\ LiveInv /\ FileInv /\ at \in [Thread -> Place]
      /\ using \in [Thread -> [file : File \cup {None}, queue : Queue \cup {None}]]
  BY DEF IInv, CoreInv, TypeOK, Place
<1>m. ASSUME NEW c \in Thread, NEW p \in Place \ Waits, at[c] \notin Waits,
             at' = [at EXCEPT ![c] = p], \A d \in Thread : d # c => using'[d] = using[d]
      PROVE  Neutral(at', using')
  <2>1. /\ at' \in [Thread -> Place] /\ at'[c] = p
        /\ \A d \in Thread : d # c => at'[d] = at[d]
    BY <1>m, <1>t
  <2> QED
    BY <1>m, <2>1 DEF Neutral
<1>1. ASSUME \/ \E q \in Queue : CreateAsyncIOQueue(q)
             \/ \E f \in File : AsyncIOFromFile(f)
      PROVE  WaitersWoken'
  <2>1. UNCHANGED <<at, using, completed>>
    BY <1>1 DEF CreateAsyncIOQueue, AsyncIOFromFile, threadVars, queueVars
  <2> QED
    BY <1>t, <2>1, MoreKeeps
<1>2. ASSUME NEW q \in Queue, SignalAsyncIOQueue(q) PROVE WaitersWoken'
  <2>1. /\ UNCHANGED <<using, completed>>
        /\ \A d \in Thread : at'[d] = at[d] \/ (at[d] = "asleep" /\ at'[d] = "woken")
    BY <1>2 DEF SignalAsyncIOQueue, queueVars, Asleep
  <2> QED
    BY <1>t, <2>1, MoreKeeps
<1>3. ASSUME NEW c \in Thread, NEW f \in File, NEW q \in Queue,
             LoadFileAsync(c, f, q) \/ RequestAsyncIO(c, f, q)
      PROVE  WaitersWoken'
  <2>1. /\ at[c] \notin Waits /\ completed' = completed
        /\ \E p \in {"read", "close", "queue"} : at' = [at EXCEPT ![c] = p]
        /\ using' = [using EXCEPT ![c] = [file |-> f, queue |-> q]]
    BY <1>3 DEF LoadFileAsync, RequestAsyncIO, Requests, Waits, queueVars
  <2>2. \A d \in Thread : d # c => using'[d] = using[d]
    BY <1>t, <2>1
  <2>3. {"read", "close", "queue"} \subseteq Place \ Waits
    BY DEF Place, Waits
  <2>4. Neutral(at', using')
    BY <1>m, <2>1, <2>2, <2>3
  <2> QED
    BY <1>t, <2>1, <2>4, NeutralKeeps
<1>4. ASSUME NEW c \in Thread, NEW f \in File, NEW q \in Queue, CloseAsyncIO(c, f, q)
      PROVE  WaitersWoken'
  <2> DEFINE a == [at EXCEPT ![c] = "idle"]
  <2>1. /\ at[c] \notin Waits
        /\ using' = [using EXCEPT ![c] = NoUse]
        /\ \/ \E t \in Task : QueueAsyncIOTask(t, q, a)
           \/ at' = a /\ completed' = completed
    <3>1. fresh \subseteq Task
      BY <1>t DEF TypeOK
    <3> QED
      BY <1>4, <3>1 DEF CloseAsyncIO, Closes, Waits
  <2>2. a \in [Thread -> Place] /\ a[c] \notin Waits /\ \A d \in Thread : d # c => a[d] = at[d]
    BY <1>t DEF Place, Waits
  <2>3. \A d \in Thread : d # c => using'[d] = using[d]
    BY <1>t, <2>1
  <2> HIDE DEF a
  <2>4. Neutral(a, using')
    BY <1>t, <2>1, <2>2, <2>3, NeutralMove
  <2> QED
    BY <1>t, <2>1, <2>2, <2>4, HandOverKeeps, NeutralKeeps
<1>5. ASSUME NEW c \in Thread, QueueTask(c) PROVE WaitersWoken'
  <2> DEFINE a == [at EXCEPT ![c] = IF using[c].file \in oneshot THEN "close" ELSE "idle"]
  <2>1. /\ at[c] = "queue" /\ QueueAsyncIOTask(held[c], using[c].queue, a)
        /\ using' = using \/ using' = [using EXCEPT ![c] = NoUse]
    BY <1>5 DEF QueueTask
  <2>2. a \in [Thread -> Place] /\ a[c] \notin Waits /\ \A d \in Thread : d # c => a[d] = at[d]
    BY <1>t DEF Place, Waits
  <2>3. \A d \in Thread : d # c => using'[d] = using[d]
    BY <1>t, <2>1
  <2> HIDE DEF a
  <2>4. Neutral(a, using')
    <3>1. at[c] \notin Waits
      BY <2>1 DEF Waits
    <3> QED
      BY <1>t, <2>2, <2>3, <3>1, NeutralMove
  <2>5. held[c] \in Task /\ using[c].queue \in Queue
    BY <1>t, <2>1 DEF ThreadInv, CallInv, Holding, TypeOK
  <2> QED
    BY <1>t, <2>1, <2>2, <2>4, <2>5, HandOverKeeps
<1>6. ASSUME NEW c \in Thread, GetOutcome(c) PROVE WaitersWoken'
  <2>d. PICK t, f, u, q : t = held[c] /\ f = of[t] /\ u = closing[f] /\ q = to[u]
    OBVIOUS
  <2> DEFINE a == [at EXCEPT ![c] = IF u = t THEN "destroy" ELSE "release"]
  <2>1. /\ at[c] = "outcome" /\ using' = using
        /\ \/ StartsClose(f, t) /\ QueueAsyncIOTask(u, q, a)
           \/ at' = a /\ completed' = completed
    BY <1>6, <2>d DEF GetOutcome
  <2>2. a \in [Thread -> Place] /\ a[c] \notin Waits /\ \A d \in Thread : d # c => a[d] = at[d]
    BY <1>t DEF Place, Waits
  <2> HIDE DEF a
  <2>3. Neutral(a, using')
    BY <1>t, <2>1, <2>2, NeutralMove DEF Waits
  <2>4. ASSUME StartsClose(f, t) PROVE u \in Task /\ q \in Queue
    <3>1. u # None /\ u # t /\ tasks[f] = {t} /\ f \in File
      BY <1>t, <2>1, <2>4, <2>d DEF StartsClose, ThreadInv, CallInv, Holding, LiveInv
    <3>2. u \in Task /\ u \in live
      BY <1>t, <2>d, <3>1 DEF FileInv, TypeOK
    <3> QED
      BY <1>t, <2>d, <3>2 DEF LiveInv
  <2>5. CASE StartsClose(f, t) /\ QueueAsyncIOTask(u, q, a)
    BY <1>t, <2>2, <2>3, <2>4, <2>5, HandOverKeeps
  <2>6. CASE at' = a /\ completed' = completed
    BY <1>t, <2>3, <2>6, NeutralKeeps
  <2> QED
    BY <2>1, <2>5, <2>6
<1>7. ASSUME NEW c \in Thread,
             \/ DestroyFile(c) \/ ReleaseTask(c) \/ ShutdownWait(c)
             \/ \E q \in Queue : DestroyAsyncIOQueue(c, q)
      PROVE  WaitersWoken'
  <2>1. /\ at[c] \notin Waits /\ completed' = completed
        /\ \E p \in {"release", "drain", "idle", "join"} : at' = [at EXCEPT ![c] = p]
        /\ \A d \in Thread : d # c => using'[d] = using[d]
    BY <1>7, <1>t DEF DestroyFile, ReleaseTask, Returns, ShutdownWait, DestroyAsyncIOQueue, Waits,
                      queueVars
  <2>2. {"release", "drain", "idle", "join"} \subseteq Place \ Waits
    BY DEF Place, Waits
  <2>3. Neutral(at', using')
    BY <1>m, <2>1, <2>2
  <2> QED
    BY <1>t, <2>1, <2>3, NeutralKeeps
<1>8. ASSUME NEW c \in Thread, NEW q \in Queue, GetResult(c, q) PROVE WaitersWoken'
  <2>1. /\ at[c] \notin Waits /\ at' = [at EXCEPT ![c] = "outcome"]
        /\ using' = [using EXCEPT ![c].queue = q] /\ completed[q] # <<>>
        /\ completed' = [completed EXCEPT ![q] = Tail(@)]
    BY <1>8 DEF GetResult, Waits
  <2>2. "outcome" \in Place \ Waits /\ \A d \in Thread : d # c => using'[d] = using[d]
    BY <1>t, <2>1 DEF Place, Waits
  <2>3. Neutral(at', using')
    BY <1>m, <2>1, <2>2
  <2> QED
    BY <1>t, <2>1, <2>3, TakeKeeps
<1>9. ASSUME NEW c \in Thread, NEW q \in Queue, WaitResult(c, q) PROVE WaitersWoken'
  <2>1. /\ at[c] \notin Waits /\ at' = [at EXCEPT ![c] = "asleep"]
        /\ using' = [using EXCEPT ![c].queue = q] /\ completed[q] = <<>>
        /\ completed' = completed
    BY <1>9 DEF WaitResult, Waits, queueVars
  <2>2. using'[c].queue = q /\ \A d \in Thread : d # c => using'[d] = using[d]
    BY <1>t, <2>1
  <2> QED
    BY <1>t, <2>1, <2>2, SleepKeeps
<1>10. ASSUME NEW c \in Thread, WaitTimeout(c) PROVE WaitersWoken'
  <2>1. /\ UNCHANGED <<using, completed>>
        /\ \A d \in Thread : at'[d] = at[d] \/ (at[d] = "asleep" /\ at'[d] = "woken")
    BY <1>10, <1>t DEF WaitTimeout, queueVars
  <2> QED
    BY <1>t, <2>1, MoreKeeps
<1>11. ASSUME NEW c \in Thread, Drain(c) PROVE WaitersWoken'
  <2>d. PICK q : q = using[c].queue
    OBVIOUS
  <2>1. /\ at[c] \notin Waits
        /\ \/ /\ at' = [at EXCEPT ![c] = "outcome"] /\ using' = using /\ completed[q] # <<>>
              /\ completed' = [completed EXCEPT ![q] = Tail(@)]
           \/ /\ at' = [at EXCEPT ![c] = "asleep"] /\ using' = using /\ completed[q] = <<>>
              /\ completed' = completed
           \/ /\ at' = [at EXCEPT ![c] = "idle"] /\ using' = [using EXCEPT ![c] = NoUse]
              /\ completed' = completed
    BY <1>11, <2>d DEF Drain, Waits
  <2>2. q \in Queue
    BY <1>11, <1>t, <2>d DEF Drain, ThreadInv, CallInv
  <2>3. \A d \in Thread : d # c => using'[d] = using[d]
    BY <1>t, <2>1
  <2>4. "outcome" \in Place \ Waits /\ "idle" \in Place \ Waits
    BY DEF Place, Waits
  <2>5. CASE /\ at' = [at EXCEPT ![c] = "outcome"] /\ completed[q] # <<>>
             /\ completed' = [completed EXCEPT ![q] = Tail(@)]
    BY <1>m, <1>t, <2>1, <2>2, <2>3, <2>4, <2>5, TakeKeeps
  <2>6. CASE /\ at' = [at EXCEPT ![c] = "asleep"] /\ using' = using /\ completed[q] = <<>>
             /\ completed' = completed
    BY <1>t, <2>1, <2>2, <2>6, <2>d, SleepKeeps
  <2>7. CASE at' = [at EXCEPT ![c] = "idle"] /\ completed' = completed
    BY <1>m, <1>t, <2>1, <2>3, <2>4, <2>7, NeutralKeeps
  <2> QED
    BY <2>1, <2>5, <2>6, <2>7
<1>12. ASSUME NEW w \in Worker, WorkerIO(w) PROVE WaitersWoken'
  <2>1. working[w] \in Task /\ Busy(working[w])
    BY <1>12, <1>t, WorkerIOFacts
  <2>2. to[working[w]] \in Queue
    BY <1>t, <2>1, BusyFacts DEF CoreInv
  <2>3. /\ completed' = Completed(working[w], to[working[w]])
        /\ at' \in Wakes(to[working[w]], at) /\ using' = using
    BY <1>12 DEF WorkerIO
  <2>4. Neutral(at, using')
    BY <2>3 DEF Neutral
  <2> QED
    BY <1>t, <2>1, <2>2, <2>3, <2>4, WakeKeeps
<1>13. ASSUME NEW w \in Worker,
              \/ WorkerTake(w) \/ WorkerSleep(w) \/ WorkerTimeout(w)
              \/ WorkerBack(w) \/ WorkerExit(w)
       PROVE  WaitersWoken'
  <2>1. /\ UNCHANGED <<using, completed>>
        /\ at' = at \/ at' = [c \in Thread |-> IF stop /\ at[c] = "join" THEN "quit" ELSE at[c]]
    BY <1>13 DEF WorkerTake, WorkerSleep, WorkerTimeout, WorkerBack, WorkerExit, queueVars,
                 threadVars
  <2>2. Neutral(at', using')
    BY <2>1 DEF Neutral, Waits
  <2> QED
    BY <1>t, <2>1, <2>2, NeutralKeeps
<1>14. ASSUME NEW c \in Thread, WaitReturn(c) \/ Shutdown(c) PROVE WaitersWoken'
  BY <1>14, WaitReturnKeeps, ShutdownKeeps
<1> QED
  BY <1>1, <1>2, <1>3, <1>4, <1>5, <1>6, <1>7, <1>8, <1>9, <1>10, <1>11, <1>12, <1>13, <1>14
     DEF Next

(* A thread sleeps in SDL_WaitAsyncIOResult or SDL_DestroyAsyncIOQueue only *)
(* if others, already woken, are enough to take what is completed: one      *)
(* signal for each completed task is enough, whichever waiter it wakes      *)
(* (SDL_asyncio_generic.c, 53).                                             *)
THEOREM EnoughWoken == Spec => []WaitersWoken
<1>1. Init => WaitersWoken
  BY DEF Init, WaitersWoken, Asleep
<1>2. IInv /\ WaitersWoken /\ [Next]_vars => WaitersWoken'
  <2>1. ASSUME IInv, WaitersWoken, UNCHANGED vars PROVE WaitersWoken'
    <3>1. TypeOK /\ UNCHANGED <<at, using, completed>>
      BY <2>1 DEF IInv, CoreInv, vars, queueVars, threadVars
    <3> QED
      BY <2>1, <3>1, MoreKeeps
  <2> QED
    BY <2>1, WaitersStep
<1> QED
  BY <1>1, <1>2, Inductive, PTL DEF Spec

-----------------------------------------------------------------------------
(* The status of a task, in terms of where it is.                           *)
Taken(t) == t \notin live \cup fresh \/ \E c \in Thread : held[c] = t /\ at[c] # "queue"

(* Status as a decision: the guards of its CASE exclude each other.         *)
LEMMA StatusIs ==
  ASSUME IInv, NEW t \in Task
  PROVE  Status[t] = IF t \in fresh THEN "new" ELSE IF InDone(t) THEN "done"
                     ELSE IF Taken(t) THEN "taken" ELSE "pending"
<1>1. live \cap fresh = {}
  BY DEF IInv, CoreInv, LiveInv
<1>2. InDone(t) => t \notin fresh /\ ~Taken(t)
  BY <1>1 DEF IInv, CoreInv, BusyInv, Busy, Listed, InHand, Taken
<1>3. Taken(t) => t \notin fresh
  <2>1. \A c \in Thread : held[c] = t => t \in live
    BY NoneIsNothing DEF IInv, CoreInv, ThreadInv, CallInv
  <2> QED
    BY <1>1, <2>1 DEF Taken
<1> QED
  BY <1>2, <1>3 DEF Status, InDone, Taken

(* The same for the next state.                                             *)
LEMMA StatusIsPrime ==
  ASSUME IInv', NEW t \in Task
  PROVE  Status'[t] = IF t \in fresh' THEN "new" ELSE IF InDone(t)' THEN "done"
                      ELSE IF Taken(t)' THEN "taken" ELSE "pending"
<1>1. live' \cap fresh' = {}
  BY DEF IInv, CoreInv, LiveInv
<1>2. InDone(t)' => t \notin fresh' /\ ~Taken(t)'
  BY <1>1 DEF IInv, CoreInv, BusyInv, Busy, Listed, InHand, Taken
<1>3. Taken(t)' => t \notin fresh'
  <2>1. \A c \in Thread : held'[c] = t => t \in live'
    BY NoneIsNothing DEF IInv, CoreInv, ThreadInv, CallInv
  <2> QED
    BY <1>1, <2>1 DEF Taken
<1> QED
  BY <1>2, <1>3 DEF Status, InDone, Taken

(* The tasks of S change their status to s.                                 *)
LEMMA StatusMoves ==
  ASSUME NEW S, NEW s,
         \A x \in Task : Status'[x] = IF x \in S THEN s ELSE Status[x]
  PROVE  /\ Status' = [x \in Task |-> IF x \in S THEN s ELSE Status[x]]
         /\ \A t \in Task : S = {t} => Status' = [Status EXCEPT ![t] = s]
         /\ S = {} => Status' = Status
<1>1. /\ Status = [x \in Task |-> Status[x]]
      /\ Status' = [x \in Task |-> Status'[x]]
  BY DEF Status
<1> QED
  BY <1>1

(* A step that hands over no task leaves those that are taken.              *)
LEMMA TakenKept ==
  ASSUME IInv, UNCHANGED <<live, fresh, held>>,
         \A d \in Thread : at[d] \in Holding => (at'[d] = "queue" <=> at[d] = "queue")
  PROVE  \A u \in Task : Taken(u)' <=> Taken(u)
<1>1. \A d \in Thread : held[d] # None => at[d] \in Holding
  BY DEF IInv, CoreInv, ThreadInv, CallInv
<1>2. \A d \in Thread : held[d] \in Task => at[d] \in Holding
  BY <1>1, NoneIsNothing
<1> QED
  BY <1>2 DEF Taken

(* A step after which the same tasks are done and taken is a stutter of     *)
(* AsyncFiles.                                                              *)
LEMMA StatusKept ==
  ASSUME IInv, IInv', UNCHANGED <<fresh, of, closing>>,
         \A u \in Task : (InDone(u)' <=> InDone(u)) /\ (Taken(u)' <=> Taken(u)),
         \A f \in File : file'[f] = "freed" <=> file[f] = "freed"
  PROVE  UNCHANGED Files!fvars
<1>1. \A x \in Task : Status'[x] = IF x \in {} THEN "new" ELSE Status[x]
  BY StatusIs, StatusIsPrime
<1>2. Status' = Status
  BY <1>1, StatusMoves
<1> QED
  BY <1>2 DEF Files!fvars

(* A task of f that is out of the list, other than a close that waits, is   *)
(* taken.                                                                   *)
LEMMA OthersTaken ==
  ASSUME IInv, NEW f \in File, NEW u \in Task, u \notin fresh, of[u] = f,
         u \notin tasks[f], closing[f] # u
  PROVE  Status[u] = "taken"
<1>t. ThreadInv /\ LiveInv /\ BusyInv
  BY DEF IInv, CoreInv
<1>1. ~InDone(u)
  BY <1>t DEF BusyInv, Busy, Listed
<1>2. Taken(u)
  <2>1. CASE u \notin live
    BY <2>1 DEF Taken
  <2>2. CASE u \in live
    <3>1. Started(u)
      BY <1>t, <2>2 DEF LiveInv
    <3>2. PICK d \in Thread : held[d] = u
      BY <3>1 DEF Started, InHand
    <3>3. at[d] # "queue"
      BY <1>t, <3>2, NoneIsNothing DEF ThreadInv, CallInv
    <3> QED
      BY <3>2, <3>3 DEF Taken
  <2> QED
    BY <2>1, <2>2
<1> QED
  BY <1>1, <1>2, StatusIs

(* The tasks of S are done; a close only when all others are taken.         *)
LEMMA Finishes ==
  ASSUME IInv, IInv', NEW S \in SUBSET Task,
         UNCHANGED <<fresh, of, closing, file>>,
         \A u \in Task : (InDone(u)' <=> InDone(u) \/ u \in S) /\ (Taken(u)' <=> Taken(u)),
         \A t \in S :
           /\ t \notin fresh /\ ~InDone(t) /\ ~Taken(t)
           /\ closing[of[t]] = t =>
                \A u \in Task \ {t} : of[u] = of[t] /\ u \notin fresh => Status[u] = "taken"
  PROVE  Files!Finish(S)
<1>1. \A x \in Task : Status'[x] = IF x \in S THEN "done" ELSE Status[x]
  BY StatusIs, StatusIsPrime
<1>2. Status' = [x \in Task |-> IF x \in S THEN "done" ELSE Status[x]]
  BY <1>1, StatusMoves
<1>3. \A t \in S : Status[t] = "pending"
  BY StatusIs
<1>4. \A u \in Task : Status[u] # "new" => u \notin fresh
  BY StatusIs
<1> QED
  BY <1>2, <1>3, <1>4 DEF Files!Finish, Files!Others

(* A listed task that is not taken may be done.                             *)
LEMMA ListedFinishes ==
  ASSUME IInv, NEW t \in Task, t \in live, t \in tasks[of[t]], closing[of[t]] = t
  PROVE  \A u \in Task \ {t} : of[u] = of[t] /\ u \notin fresh => Status[u] = "taken"
<1>1. of[t] \in File /\ t # None
  BY NoneIsNothing DEF IInv, CoreInv, LiveInv
<1>2. tasks[of[t]] = {t}
  BY <1>1 DEF IInv, CoreInv, FileInv
<1> QED
  BY <1>1, <1>2, OthersTaken

-----------------------------------------------------------------------------
(* The steps of AsyncFiles.                                                 *)
LEMMA RequestAsks ==
  ASSUME IInv, IInv', NEW c \in Thread, NEW f \in File, NEW q \in Queue,
         RequestAsyncIO(c, f, q)
  PROVE  \E t \in Task : Files!Ask(t, f)
<1>t. CoreInv /\ ThreadInv /\ at \in [Thread -> Place] /\ held \in [Thread -> Task \cup {None}]
  BY DEF IInv, CoreInv, TypeOK, Place
<1>1. PICK t \in fresh :
        /\ fresh' = fresh \ {t} /\ live' = live \cup {t}
        /\ of' = [of EXCEPT ![t] = f] /\ held' = [held EXCEPT ![c] = t]
  BY DEF RequestAsyncIO
<1>2. /\ at[c] \in {"idle", "read"} /\ at' = [at EXCEPT ![c] = "queue"] /\ closing[f] = None
      /\ UNCHANGED <<file, closing, completed>>
  BY DEF RequestAsyncIO, Requests, TakesTasks
<1>3. t \in Task /\ t # None /\ ~InDone(t) /\ ~InHand(t)
  BY <1>1, <1>t, FreshFacts DEF Busy
<1>4. held[c] = None
  BY <1>2, <1>t DEF ThreadInv, CallInv, Holding
<1>5. /\ held'[c] = t /\ at'[c] = "queue"
      /\ \A d \in Thread : d # c => held'[d] = held[d] /\ at'[d] = at[d]
  BY <1>1, <1>2, <1>3, <1>t
<1>6. \A u \in Task : InDone(u)' <=> InDone(u)
  BY <1>2 DEF InDone
<1>7. ~Taken(t)'
  BY <1>1, <1>3, <1>5 DEF Taken, InHand
<1>8. \A u \in Task : u # t => (Taken(u)' <=> Taken(u))
  BY <1>1, <1>4, <1>5, NoneIsNothing DEF Taken
<1>9. \A x \in Task : Status'[x] = IF x \in {t} THEN "pending" ELSE Status[x]
  BY <1>1, <1>3, <1>6, <1>7, <1>8, StatusIs, StatusIsPrime
<1>10. Status' = [Status EXCEPT ![t] = "pending"]
  BY <1>3, <1>9, StatusMoves
<1>11. Status[t] = "new"
  BY <1>1, <1>3, StatusIs
<1> QED
  BY <1>1, <1>2, <1>3, <1>10, <1>11 DEF Files!Ask

(* SDL_CloseAsyncIO closes the file in AsyncFiles, and does the task at once*)
(* when no other is left and the pool stops.                                *)
LEMMA CloseCloses ==
  ASSUME IInv, IInv', NEW c \in Thread, NEW f \in File, NEW q \in Queue,
         CloseAsyncIO(c, f, q)
  PROVE  \E t \in Task : Files!Close(t, f)
<1>t. /\ CoreInv /\ TypeOK /\ PlaceInv /\ ThreadInv /\ at \in [Thread -> Place]
      /\ to \in [Task -> Queue \cup {None}]
  BY DEF IInv, CoreInv, TypeOK, Place
<1> DEFINE a == [at EXCEPT ![c] = "idle"]
<1>1. PICK t \in fresh :
        /\ fresh' = fresh \ {t} /\ live' = live \cup {t}
        /\ of' = [of EXCEPT ![t] = f] /\ to' = [to EXCEPT ![t] = q]
        /\ closing' = [closing EXCEPT ![f] = t]
        /\ \/ NoTasks(f) /\ QueueAsyncIOTask(t, q, a)
           \/ at' = a /\ UNCHANGED completed
  BY DEF CloseAsyncIO
<1>2. /\ at[c] \in {"idle", "close"} /\ closing[f] = None
      /\ UNCHANGED <<file, held, working>>
  BY DEF CloseAsyncIO, Closes
<1>3. t \in Task /\ t # None /\ ~InDone(t) /\ ~InHand(t) /\ ~Busy(t)
  BY <1>1, <1>t, FreshFacts DEF Busy
<1>4. a \in [Thread -> Place] /\ \A d \in Thread : d # c => a[d] = at[d]
  BY <1>t DEF Place
<1>5. held[c] = None
  BY <1>2, <1>t DEF ThreadInv, CallInv, Holding
<1> HIDE DEF a
<1>6. /\ \A d \in Thread : d # c => at'[d] = at[d] \/ at[d] = "asleep"
      /\ \/ NoTasks(f) /\ \A u \in Task : u # t => (InDone(u)' <=> InDone(u))
         \/ \A u \in Task : InDone(u)' <=> InDone(u)
  <2>1. CASE NoTasks(f) /\ QueueAsyncIOTask(t, q, a)
    <3>1. to'[t] = q /\ \A u \in Task : Busy(u) => to'[u] = to[u]
      BY <1>1, <1>3, <1>t
    <3>2. /\ \A u \in Task : InDone(u)' <=> InDone(u) \/ (stop /\ u = t)
          /\ \A d \in Thread : at'[d] = a[d] \/ (d \in Asleep(q) /\ at'[d] = "woken")
      BY <1>2, <1>3, <1>4, <1>t, <2>1, <3>1, QueueFacts
    <3> QED
      BY <1>4, <2>1, <3>2 DEF Asleep
  <2>2. CASE at' = a /\ UNCHANGED completed
    BY <1>4, <2>2 DEF InDone
  <2> QED
    BY <1>1, <2>1, <2>2
<1>7. \A d \in Thread : held[d] # None => at'[d] = at[d]
  BY <1>5, <1>6, <1>t DEF ThreadInv, CallInv, Holding
<1>8. \A u \in Task : u # t => (Taken(u)' <=> Taken(u))
  BY <1>1, <1>2, <1>7, NoneIsNothing DEF Taken
<1>9. ~Taken(t)'
  BY <1>1, <1>2, <1>3 DEF Taken, InHand
<1>10. Status[t] = "new"
  BY <1>1, <1>3, StatusIs
<1>11. \/ Status' = [Status EXCEPT ![t] = "pending"]
       \/ NoTasks(f) /\ Status' = [Status EXCEPT ![t] = "done"]
  <2>1. PICK s \in {"pending", "done"} : s = IF InDone(t)' THEN "done" ELSE "pending"
    OBVIOUS
  <2>2. \A x \in Task : Status'[x] = IF x \in {t} THEN s ELSE Status[x]
    BY <1>1, <1>3, <1>6, <1>8, <1>9, <2>1, StatusIs, StatusIsPrime
  <2>3. Status' = [Status EXCEPT ![t] = s]
    BY <1>3, <2>2, StatusMoves
  <2>4. s = "done" => NoTasks(f)
    BY <1>3, <1>6, <2>1
  <2> QED
    BY <2>1, <2>3, <2>4
<1>12. ASSUME NoTasks(f), NEW u \in Task, of[u] = f PROVE Status[u] = "taken"
  <2>1. u \notin fresh
    BY <1>12, NoneIsNothing DEF IInv, CoreInv, LiveInv
  <2>2. u \notin tasks[f] /\ closing[f] # u
    BY <1>2, <1>12, NoneIsNothing DEF NoTasks
  <2> QED
    BY <1>12, <2>1, <2>2, OthersTaken
<1> QED
  BY <1>1, <1>2, <1>3, <1>10, <1>11, <1>12 DEF Files!Close

(* A task handed to the pool stays pending, or is done at once when the pool*)
(* stops.                                                                   *)
LEMMA QueueFinishes ==
  ASSUME IInv, IInv', NEW c \in Thread, QueueTask(c)
  PROVE  Files!Next \/ UNCHANGED Files!fvars
<1>t. /\ CoreInv /\ TypeOK /\ PlaceInv /\ ThreadInv /\ HandInv /\ BusyInv
      /\ at \in [Thread -> Place]
      /\ held \in [Thread -> Task \cup {None}]
  BY DEF IInv, CoreInv, TypeOK, Place
<1>d. PICK t, q : t = held[c] /\ q = using[c].queue
  OBVIOUS
<1> DEFINE a == [at EXCEPT ![c] = IF using[c].file \in oneshot THEN "close" ELSE "idle"]
<1>1. /\ at[c] = "queue" /\ QueueAsyncIOTask(t, q, a)
      /\ held' = [held EXCEPT ![c] = None]
      /\ UNCHANGED <<file, tasks, closing, live, fresh, of, to, stop, working>>
  BY <1>d DEF QueueTask, fileVars, taskVars
<1>2. /\ t \in Task /\ t # None /\ t \in live /\ t \in tasks[of[t]] /\ closing[of[t]] # t
      /\ q = to[t] /\ q \in Queue /\ t \notin fresh
  BY <1>1, <1>d, <1>t DEF ThreadInv, CallInv, Holding, CoreInv, LiveInv
<1>3. ~Busy(t)
  BY <1>2, <1>d, <1>t DEF BusyInv, InHand
<1>4. a \in [Thread -> Place] /\ \A d \in Thread : d # c => a[d] = at[d]
  BY <1>t DEF Place
<1> HIDE DEF a
<1>5. /\ \A u \in Task : InDone(u)' <=> InDone(u) \/ (stop /\ u = t)
      /\ \A d \in Thread : at'[d] = a[d] \/ (d \in Asleep(q) /\ at'[d] = "woken")
  <2>1. to'[t] = q /\ \A u \in Task : Busy(u) => to'[u] = to[u]
    BY <1>1, <1>2
  <2> QED
    BY <1>1, <1>2, <1>3, <1>4, <1>t, <2>1, QueueFacts
<1>6. /\ held'[c] = None
      /\ \A d \in Thread : d # c => held'[d] = held[d] /\ held[d] # t
  BY <1>1, <1>2, <1>d, <1>t DEF HandInv
<1>7. \A d \in Thread : d # c /\ held[d] # None => at'[d] = at[d]
  BY <1>4, <1>5, <1>t DEF Asleep, ThreadInv, CallInv, Holding
<1>8. \A u \in Task : Taken(u)' <=> Taken(u)
  <2>1. \A u \in Task : (\E d \in Thread : held'[d] = u /\ at'[d] # "queue")
                        <=> (\E d \in Thread : held[d] = u /\ at[d] # "queue")
    BY <1>1, <1>6, <1>7, NoneIsNothing
  <2> QED
    BY <1>1, <2>1 DEF Taken
<1>9. ~Taken(t) /\ ~InDone(t)
  BY <1>1, <1>2, <1>3, <1>6 DEF Taken, Busy
<1>10. CASE ~stop
  BY <1>1, <1>5, <1>8, <1>10, StatusKept
<1>11. CASE stop
  <2>1. {t} \in SUBSET Task
    BY <1>2
  <2>2. \A u \in Task : InDone(u)' <=> InDone(u) \/ u \in {t}
    BY <1>5, <1>11
  <2>3. Files!Finish({t})
    BY <1>1, <1>2, <1>8, <1>9, <2>1, <2>2, Finishes
  <2> QED
    BY <2>1, <2>3 DEF Files!Next
<1> QED
  BY <1>10, <1>11

(* The step that takes a task from the list of its file may start the close *)
(* that waited for it; when the pool stops that close is done at once.      *)
LEMMA OutcomeFinishes ==
  ASSUME IInv, IInv', NEW c \in Thread, GetOutcome(c)
  PROVE  Files!Next \/ UNCHANGED Files!fvars
<1>t. /\ CoreInv /\ TypeOK /\ PlaceInv /\ ThreadInv /\ HandInv /\ BusyInv /\ LiveInv /\ FileInv
      /\ at \in [Thread -> Place]
      /\ held \in [Thread -> Task \cup {None}]
  BY DEF IInv, CoreInv, TypeOK, Place
<1>d. PICK t, f, u, q : t = held[c] /\ f = of[t] /\ u = closing[f] /\ q = to[u]
  OBVIOUS
<1> DEFINE a == [at EXCEPT ![c] = IF u = t THEN "destroy" ELSE "release"]
<1>1. /\ at[c] = "outcome"
      /\ \/ StartsClose(f, t) /\ QueueAsyncIOTask(u, q, a)
         \/ at' = a /\ UNCHANGED completed
      /\ UNCHANGED <<file, closing, live, fresh, of, to, held, stop, working>>
  BY <1>d DEF GetOutcome, taskVars
<1>2. a \in [Thread -> Place] /\ a[c] # "queue" /\ \A d \in Thread : d # c => a[d] = at[d]
  BY <1>t DEF Place
<1> HIDE DEF a
<1>3. ASSUME \A d \in Thread : at'[d] = a[d] \/ at[d] = "asleep"
      PROVE  \A x \in Task : Taken(x)' <=> Taken(x)
  <2>1. \A d \in Thread : at[d] \in Holding => (at'[d] = "queue" <=> at[d] = "queue")
    BY <1>1, <1>2, <1>3 DEF Holding
  <2> QED
    BY <1>1, <2>1, TakenKept
<1>4. CASE at' = a /\ UNCHANGED completed
  <2>1. \A x \in Task : InDone(x)' <=> InDone(x)
    BY <1>4 DEF InDone
  <2> QED
    BY <1>1, <1>3, <1>4, <2>1, StatusKept
<1>5. CASE StartsClose(f, t) /\ QueueAsyncIOTask(u, q, a)
  <2>1. /\ t \in Task /\ t # None /\ t \in live /\ t \in tasks[f] /\ f \in File /\ InHand(t)
    BY <1>1, <1>d, <1>t DEF ThreadInv, CallInv, Holding, LiveInv, InHand
  <2>2. u # None /\ u # t /\ tasks[f] = {t} /\ u \notin tasks[f]
    BY <1>5, <1>d DEF StartsClose
  <2>3. u \in Task /\ u \in live /\ ~InHand(u) /\ of[u] = f /\ u \notin fresh
    BY <1>d, <1>t, <2>1, <2>2 DEF FileInv, TypeOK
  <2>4. ~Busy(u)
    BY <1>t, <2>2, <2>3 DEF BusyInv, Listed
  <2>5. q \in Queue
    BY <1>d, <1>t, <2>3 DEF LiveInv
  <2>6. /\ \A x \in Task : InDone(x)' <=> InDone(x) \/ (stop /\ x = u)
        /\ \A d \in Thread : at'[d] = a[d] \/ (d \in Asleep(q) /\ at'[d] = "woken")
    <3>1. to'[u] = q /\ \A x \in Task : Busy(x) => to'[x] = to[x]
      BY <1>1, <1>d
    <3> QED
      BY <1>1, <1>2, <1>5, <1>t, <2>3, <2>4, <2>5, <3>1, QueueFacts
  <2>7. \A x \in Task : Taken(x)' <=> Taken(x)
    BY <1>3, <2>6 DEF Asleep
  <2>8. CASE ~stop
    BY <1>1, <2>6, <2>7, <2>8, StatusKept
  <2>9. CASE stop
    <3>1. {u} \in SUBSET Task
      BY <2>3
    <3>2. ~Taken(u) /\ ~InDone(u)
      BY <2>3, <2>4 DEF Taken, InHand, Busy
    <3>3. ASSUME NEW x \in Task \ {u}, of[x] = of[u], x \notin fresh
          PROVE  Status[x] = "taken"
      <4>1. CASE x = t
        <5>1. ~InDone(t)
          BY <1>t, <2>1 DEF BusyInv, Busy
        <5>2. Taken(t)
          BY <1>1, <1>d DEF Taken
        <5> QED
          BY <2>1, <3>3, <4>1, <5>1, <5>2, StatusIs
      <4>2. CASE x # t
        BY <1>d, <2>1, <2>2, <2>3, <3>3, <4>2, OthersTaken
      <4> QED
        BY <4>1, <4>2
    <3>4. \A x \in Task : InDone(x)' <=> InDone(x) \/ x \in {u}
      BY <2>6, <2>9
    <3>5. Files!Finish({u})
      BY <1>1, <2>3, <2>7, <3>1, <3>2, <3>3, <3>4, Finishes
    <3> QED
      BY <3>1, <3>5 DEF Files!Next
  <2> QED
    BY <2>8, <2>9
<1> QED
  BY <1>1, <1>4, <1>5

(* A busy task that is not done yet may be done.                            *)
LEMMA BusyFinishes ==
  ASSUME IInv, NEW t \in Task, Busy(t), ~InDone(t)
  PROVE  /\ t \notin fresh /\ ~Taken(t)
         /\ closing[of[t]] = t =>
              \A u \in Task \ {t} : of[u] = of[t] /\ u \notin fresh => Status[u] = "taken"
<1>1. t \in live /\ t \in tasks[of[t]] /\ ~InHand(t) /\ t \notin fresh
  BY DEF IInv, CoreInv, BusyInv, Listed, LiveInv
<1>2. ~Taken(t)
  BY <1>1 DEF Taken, InHand
<1> QED
  BY <1>1, <1>2, ListedFinishes

(* The end of the I/O of a worker finishes its task.                        *)
LEMMA WorkerFinishes ==
  ASSUME IInv, IInv', NEW w \in Worker, WorkerIO(w)
  PROVE  \E S \in SUBSET Task : Files!Finish(S)
<1>t. CoreInv
  BY DEF IInv
<1>d. PICK t : t = working[w]
  OBVIOUS
<1>1. UNCHANGED <<file, closing, live, fresh, of, held>>
  BY DEF WorkerIO, fileVars, taskVars
<1>2. /\ t \in Task /\ Busy(t) /\ ~InDone(t)
      /\ \A u \in Task : InDone(u)' <=> InDone(u) \/ u \in {t}
      /\ \A d \in Thread : at'[d] = at[d] \/ at[d] = "asleep"
  BY <1>d, <1>t, WorkerIOFacts DEF Asleep
<1>3. \A u \in Task : Taken(u)' <=> Taken(u)
  BY <1>1, <1>2, TakenKept DEF Holding
<1>4. {t} \in SUBSET Task
  BY <1>2
<1>5. /\ t \notin fresh /\ ~Taken(t)
      /\ closing[of[t]] = t =>
           \A u \in Task \ {t} : of[u] = of[t] /\ u \notin fresh => Status[u] = "taken"
  BY <1>2, BusyFinishes
<1>6. Files!Finish({t})
  BY <1>1, <1>2, <1>3, <1>4, <1>5, Finishes
<1> QED
  BY <1>4, <1>6

(* The shutdown finishes, as cancelled, every task of the pool at once.     *)
LEMMA ShutdownFinishes ==
  ASSUME IInv, IInv', NEW c \in Thread, Shutdown(c)
  PROVE  \E S \in SUBSET Task : Files!Finish(S)
<1>t. CoreInv /\ PlaceInv /\ pool \in Seq(Task)
  BY DEF IInv, CoreInv, TypeOK
<1>1. UNCHANGED <<file, closing, live, fresh, of, held>>
  BY DEF Shutdown, fileVars, taskVars
<1>2. /\ \A u \in Task : InDone(u)' <=> InDone(u) \/ u \in Elements(pool)
      /\ at[c] = "idle" /\ \A d \in Thread \ {c} : at'[d] = at[d] \/ at[d] = "asleep"
  BY <1>t, ShutdownFacts
<1>3. \A u \in Task : Taken(u)' <=> Taken(u)
  BY <1>1, <1>2, TakenKept DEF Holding
<1>4. Elements(pool) \in SUBSET Task
  BY <1>t, ElementsTyped
<1>5. ASSUME NEW t \in Elements(pool)
      PROVE  /\ t \notin fresh /\ ~InDone(t) /\ ~Taken(t)
             /\ closing[of[t]] = t =>
                  \A u \in Task \ {t} : of[u] = of[t] /\ u \notin fresh => Status[u] = "taken"
  <2>1. t \in Task /\ Busy(t) /\ ~InDone(t)
    BY <1>4, <1>t DEF Busy, InDone, PlaceInv
  <2> QED
    BY <2>1, BusyFinishes
<1>6. Files!Finish(Elements(pool))
  BY <1>1, <1>2, <1>3, <1>4, <1>5, Finishes
<1> QED
  BY <1>4, <1>6

(* A thread that removes a task from the completed list takes its result.   *)
LEMMA ResultTakes ==
  ASSUME IInv, IInv', NEW c \in Thread, NEW q \in Queue, Takes(c, q)
  PROVE  \E t \in Task : Files!Take(t)
<1>t. /\ TypeOK /\ PlaceInv /\ ThreadInv /\ BusyInv /\ LiveInv
      /\ at \in [Thread -> Place] /\ held \in [Thread -> Task \cup {None}]
  BY DEF IInv, CoreInv, TypeOK, Place
<1>d. PICK t : t = Head(completed[q])
  OBVIOUS
<1>1. /\ at[c] \notin Holding /\ held' = [held EXCEPT ![c] = t]
      /\ at' = [at EXCEPT ![c] = "outcome"]
      /\ UNCHANGED <<file, closing, live, fresh, of, to, pool, worker, working>>
  BY <1>d DEF Takes, Holding, fileVars, taskVars, poolVars
<1>2. /\ t \in Task /\ InDone(t)
      /\ \A u \in Task : InDone(u)' <=> InDone(u) /\ u # t
  BY <1>1, <1>d, <1>t, TakeFacts DEF Takes
<1>3. /\ t \in live /\ t \notin fresh
  BY <1>2, <1>t, BusyFacts DEF Busy
<1>4. held[c] = None
  BY <1>1, <1>t DEF ThreadInv, CallInv
<1>5. /\ held'[c] = t /\ at'[c] = "outcome"
      /\ \A d \in Thread : d # c => held'[d] = held[d] /\ at'[d] = at[d]
  BY <1>1, <1>2, <1>t
<1>6. Taken(t)'
  BY <1>5 DEF Taken
<1>7. \A u \in Task : u # t => (Taken(u)' <=> Taken(u))
  <2>1. \A u \in Task : u # t =>
          ((\E d \in Thread : held'[d] = u /\ at'[d] # "queue")
            <=> (\E d \in Thread : held[d] = u /\ at[d] # "queue"))
    BY <1>4, <1>5, NoneIsNothing
  <2> QED
    BY <1>1, <2>1 DEF Taken
<1>8. \A x \in Task : Status'[x] = IF x \in {t} THEN "taken" ELSE Status[x]
  BY <1>1, <1>2, <1>3, <1>6, <1>7, StatusIs, StatusIsPrime
<1>9. Status' = [Status EXCEPT ![t] = "taken"]
  BY <1>2, <1>8, StatusMoves
<1>10. Status[t] = "done"
  BY <1>2, <1>3, StatusIs
<1> QED
  BY <1>1, <1>2, <1>9, <1>10 DEF Files!Take

(* The end of a close frees the file: every task of it is taken.            *)
LEMMA DestroyFrees ==
  ASSUME IInv, IInv', FileOutlivesTasks, NEW c \in Thread, DestroyFile(c)
  PROVE  \E f \in File : Files!Free(f)
<1>t. /\ CoreInv /\ ThreadInv /\ HandInv /\ LiveInv /\ BusyInv /\ at \in [Thread -> Place]
      /\ file \in [File -> {"none", "open", "freed"}]
  BY DEF IInv, CoreInv, TypeOK, Place
<1>d. PICK t, f : t = held[c] /\ f = of[t]
  OBVIOUS
<1>1. /\ at[c] = "destroy" /\ file' = [file EXCEPT ![f] = "freed"]
      /\ at' = [at EXCEPT ![c] = "release"]
      /\ UNCHANGED <<closing, live, fresh, of, held, completed>>
  BY <1>d DEF DestroyFile, queueVars, taskVars
<1>2. t \in live /\ f \in File /\ closing[f] = t /\ tasks[f] = {}
  BY <1>1, <1>d, <1>t, LastTask
<1>3. t # None /\ t \in Task /\ t \notin fresh /\ InHand(t)
  BY <1>2, <1>d, <1>t, NoneIsNothing DEF CoreInv, TypeOK, LiveInv, InHand
<1>4. file[f] # "freed"
  <2>1. ASSUME NEW d \in Thread, at[d] = "release", held[d] = t PROVE FALSE
    BY <1>1, <1>3, <1>d, <1>t, <2>1 DEF HandInv
  <2> QED
    BY <1>2, <1>d, <2>1 DEF FileOutlivesTasks
<1>5. ASSUME NEW u \in Task, of[u] = f PROVE Status[u] = "taken"
  <2>1. CASE u = t
    <3>1. ~InDone(t) /\ Taken(t)
      BY <1>1, <1>3, <1>d, <1>t DEF BusyInv, Busy, Taken
    <3> QED
      BY <1>3, <2>1, <3>1, StatusIs
  <2>2. CASE u # t
    <3>1. u \notin fresh
      BY <1>2, <1>5, <1>t, NoneIsNothing DEF LiveInv
    <3> QED
      BY <1>2, <1>5, <2>2, <3>1, OthersTaken
  <2> QED
    BY <2>1, <2>2
<1>6. Status' = Status
  <2>1. \A u \in Task : InDone(u)' <=> InDone(u)
    BY <1>1 DEF InDone
  <2>2. \A d \in Thread : at[d] \in Holding => (at'[d] = "queue" <=> at[d] = "queue")
    BY <1>1, <1>t
  <2>3. \A u \in Task : Taken(u)' <=> Taken(u)
    BY <1>1, <2>2, TakenKept
  <2>4. \A x \in Task : Status'[x] = IF x \in {} THEN "new" ELSE Status[x]
    BY <1>1, <2>1, <2>3, StatusIs, StatusIsPrime
  <2> QED
    BY <2>4, StatusMoves
<1>7. {g \in File : file'[g] = "freed"} = {g \in File : file[g] = "freed"} \cup {f}
  BY <1>1, <1>2, <1>t
<1>8. Files!Free(f)
  BY <1>1, <1>2, <1>3, <1>4, <1>5, <1>6, <1>7 DEF Files!Free
<1> QED
  BY <1>2, <1>8

(* To free a task whose result is taken changes nothing that AsyncFiles     *)
(* speaks of.                                                               *)
LEMMA ReleaseStutters ==
  ASSUME IInv, IInv', NEW c \in Thread, ReleaseTask(c)
  PROVE  UNCHANGED Files!fvars
<1>t. /\ ThreadInv /\ HandInv /\ LiveInv /\ at \in [Thread -> Place]
      /\ held \in [Thread -> Task \cup {None}]
  BY DEF IInv, CoreInv, TypeOK, Place
<1>d. PICK t : t = held[c]
  OBVIOUS
<1>1. /\ at[c] = "release" /\ held' = [held EXCEPT ![c] = None] /\ live' = live \ {t}
      /\ \E p \in {"drain", "idle"} : at' = [at EXCEPT ![c] = p]
      /\ UNCHANGED <<file, closing, fresh, of, completed>>
  BY <1>d DEF ReleaseTask, Returns, fileVars
<1>2. t # None /\ t \in live /\ t \notin fresh
  BY <1>1, <1>d, <1>t DEF ThreadInv, CallInv, Holding, LiveInv
<1>3. held'[c] = None /\ \A d \in Thread : d # c => held'[d] = held[d] /\ at'[d] = at[d]
  BY <1>1, <1>t
<1>4. \A u \in Task : InDone(u)' <=> InDone(u)
  BY <1>1 DEF InDone
<1>5. Taken(t) /\ Taken(t)'
  BY <1>1, <1>2, <1>d DEF Taken
<1>6. \A u \in Task : u # t => (Taken(u)' <=> Taken(u))
  <2>1. \A u \in Task : u # t =>
          ((\E d \in Thread : held'[d] = u /\ at'[d] # "queue")
            <=> (\E d \in Thread : held[d] = u /\ at[d] # "queue"))
    BY <1>3, <1>d, NoneIsNothing
  <2> QED
    BY <1>1, <2>1 DEF Taken
<1> QED
  BY <1>1, <1>4, <1>5, <1>6, StatusKept

(* A quiet step is a stutter of AsyncFiles.                                 *)
LEMMA QuietStutters ==
  ASSUME IInv, IInv', Quiet
  PROVE  UNCHANGED Files!fvars
<1>1. \A d \in Thread : at[d] \in Holding => (at'[d] = "queue" <=> at[d] = "queue")
  BY DEF Quiet
<1>2. \A u \in Task : Taken(u)' <=> Taken(u)
  BY <1>1, TakenKept DEF Quiet
<1> QED
  BY <1>2, StatusKept DEF Quiet

(* The implementation keeps the promise of AsyncFiles (SDL_asyncio.h,       *)
(* 200-360 and 462-480): each task is done once and its result taken once, a*)
(* close comes after all other tasks of its file, and the file goes away    *)
(* after that, whatever threads start tasks and take results, and whenever  *)
(* the application shuts SDL down.                                          *)
THEOREM ImplementsFiles == Spec => FilesSpec
<1>1. ASSUME Init PROVE Files!Init
  <2>1. \A t \in Task : Status[t] = "new"
    BY <1>1, InitInv, StatusIs DEF Init
  <2>2. Status = [t \in Task |-> Status[t]]
    BY DEF Status
  <2>3. Status = [t \in Task |-> "new"]
    BY <2>1, <2>2
  <2>4. {f \in File : file[f] = "freed"} = {}
    BY <1>1 DEF Init
  <2> QED
    BY <1>1, <2>3, <2>4 DEF Init, Files!Init
<1>2. IInv /\ IInv' /\ FileOutlivesTasks /\ [Next]_vars => [Files!Next]_Files!fvars
  <2> SUFFICES ASSUME IInv, IInv', FileOutlivesTasks, [Next]_vars
               PROVE  Files!Next \/ UNCHANGED Files!fvars
    OBVIOUS
  <2>1. ASSUME UNCHANGED vars PROVE UNCHANGED Files!fvars
    BY <2>1 DEF vars, fileVars, queueVars, taskVars, threadVars, Files!fvars, Status
  <2>2. CASE Quiet
    BY <2>2, QuietStutters
  <2>3. ASSUME NEW c \in Thread, NEW q \in Queue, Takes(c, q) PROVE Files!Next
    BY <2>3, ResultTakes DEF Files!Next
  <2>4. ASSUME NEW c \in Thread, NEW f \in File, NEW q \in Queue,
               RequestAsyncIO(c, f, q) \/ CloseAsyncIO(c, f, q)
        PROVE  Files!Next
    BY <2>4, RequestAsks, CloseCloses DEF Files!Next
  <2>5. ASSUME NEW c \in Thread, QueueTask(c) \/ GetOutcome(c)
        PROVE  Files!Next \/ UNCHANGED Files!fvars
    BY <2>5, QueueFinishes, OutcomeFinishes
  <2>6. ASSUME NEW c \in Thread, DestroyFile(c) PROVE Files!Next
    BY <2>6, DestroyFrees DEF Files!Next
  <2>7. ASSUME NEW c \in Thread, ReleaseTask(c) PROVE UNCHANGED Files!fvars
    BY <2>7, ReleaseStutters
  <2>8. ASSUME NEW c \in Thread, Shutdown(c) PROVE Files!Next
    BY <2>8, ShutdownFinishes DEF Files!Next
  <2>9. ASSUME NEW w \in Worker, WorkerIO(w) PROVE Files!Next
    BY <2>9, WorkerFinishes DEF Files!Next
  <2> QED
    BY <2>1, <2>2, <2>3, <2>4, <2>5, <2>6, <2>7, <2>8, <2>9, EffectOfStep
<1> QED
  BY <1>1, <1>2, Inductive, FilesLast, PTL DEF Spec, FilesSpec, Files!Spec
=============================================================================
