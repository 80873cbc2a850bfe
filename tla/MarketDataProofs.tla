-------------------------- MODULE MarketDataProofs ---------------------------
(***************************************************************************)
(* Proofs about the providers of market data and news, for every value of  *)
(* their constants: PagedQuery and the routed provider under it, and then  *)
(* AkshareProvider, whose state and specification are its own.             *)
(***************************************************************************)
EXTENDS PagedQuery, AkshareProvider, TLAPS, FiniteSetTheorems, SequenceTheorems

-----------------------------------------------------------------------------
(* The locks.                                                              *)

States == {"idle", "done", "answered", "unavailable", "cancelled"} \cup Awaiting

RoutingTyped ==
  /\ state \in [Task -> States]
  /\ key \in [Task -> Key]
  /\ answer \in [Task -> {NoAnswer, Primary, Backup, Cached}]
  /\ expires \in [Key -> Nat]
  /\ holder \in [Key -> Task \cup {NoTask}]
  /\ waiters \in [Key -> Seq(Task)]
  /\ now \in Nat

\* A lock is held by a task that will give it back, and has a queue only while it is.
LockHeld ==
  /\ \A t \in Task : state[t] \in InCriticalSection => holder[key[t]] = t
  /\ \A k \in Key : holder[k] # NoTask =>
       key[holder[k]] = k /\ state[holder[k]] \in InCriticalSection
  /\ \A k \in Key : holder[k] = NoTask => waiters[k] = <<>>

\* Who is queued waits, and who waits is queued once.
Queued ==
  /\ \A k \in Key : \A n \in 1..Len(waiters[k]) :
       state[waiters[k][n]] = "waiting" /\ key[waiters[k][n]] = k
  /\ \A k \in Key : \A m, n \in 1..Len(waiters[k]) : waiters[k][m] = waiters[k][n] => m = n
  /\ \A t \in Task : state[t] = "waiting" =>
       \E n \in 1..Len(waiters[key[t]]) : waiters[key[t]][n] = t

\* The backup server is asked where the cache has nothing.
NothingCached == \A t \in Task : state[t] = "backup" => ~ Live(key[t])

LockInv == LockHeld /\ Queued

-----------------------------------------------------------------------------
(* What steps do to the locks.                                             *)

Outside == States \ (InCriticalSection \cup {"waiting"})

\* Task t moves outside the locks, perhaps to another key.
LEMMA MovesOutside ==
  ASSUME RoutingTyped, LockInv, NEW t \in Task, NEW s \in Outside, NEW k \in Key,
         state[t] \in Outside, Goto(t, s), key' = [key EXCEPT ![t] = k],
         UNCHANGED <<holder, waiters>>
  PROVE  LockInv'
<1>1. /\ state'[t] = s /\ \A u \in Task \ {t} : state'[u] = state[u] /\ key'[u] = key[u]
      /\ s \notin InCriticalSection /\ s # "waiting"
      /\ state[t] \notin InCriticalSection /\ state[t] # "waiting"
  BY DEF RoutingTyped, Goto, Outside
<1>2. LockHeld'
  BY <1>1 DEF LockInv, LockHeld, RoutingTyped
<1>3. Queued'
  <2>1. \A j \in Key : \A n \in 1..Len(waiters[j]) : waiters[j][n] \in Task
    BY DEF RoutingTyped
  <2>2. \A j \in Key : \A n \in 1..Len(waiters[j]) : waiters[j][n] # t
    BY <1>1 DEF LockInv, Queued
  <2>3. \A j \in Key : \A n \in 1..Len(waiters[j]) :
          state'[waiters[j][n]] = "waiting" /\ key'[waiters[j][n]] = j
    BY <1>1, <2>1, <2>2 DEF LockInv, Queued
  <2>4. \A u \in Task : state'[u] = "waiting" =>
          \E n \in 1..Len(waiters[key'[u]]) : waiters[key'[u]][n] = u
    BY <1>1 DEF LockInv, Queued
  <2> QED
    BY <2>3, <2>4 DEF LockInv, Queued
<1> QED
  BY <1>2, <1>3 DEF LockInv

\* The holder of a lock goes on with what it does.
LEMMA MovesInside ==
  ASSUME RoutingTyped, LockInv, NEW t \in Task, NEW s \in InCriticalSection,
         state[t] \in InCriticalSection, Goto(t, s), UNCHANGED <<key, holder, waiters>>
  PROVE  LockInv'
<1>1. /\ state'[t] = s /\ \A u \in Task \ {t} : state'[u] = state[u]
      /\ s # "waiting" /\ state[t] # "waiting"
  BY DEF RoutingTyped, Goto, InCriticalSection
<1>2. LockHeld'
  <2>1. \A u \in Task : state'[u] \in InCriticalSection <=> state[u] \in InCriticalSection
    BY <1>1
  <2>2. \A k \in Key : holder[k] # NoTask => holder[k] \in Task
    BY DEF RoutingTyped
  <2> QED
    BY <2>1, <2>2 DEF LockInv, LockHeld
<1>3. Queued'
  <2>1. \A j \in Key : \A n \in 1..Len(waiters[j]) : waiters[j][n] \in Task
    BY DEF RoutingTyped
  <2>2. \A j \in Key : \A n \in 1..Len(waiters[j]) : waiters[j][n] # t
    BY <1>1 DEF LockInv, Queued
  <2>3. \A j \in Key : \A n \in 1..Len(waiters[j]) : state'[waiters[j][n]] = "waiting"
    BY <1>1, <2>1, <2>2 DEF LockInv, Queued
  <2>4. \A u \in Task : state'[u] = "waiting" =>
          \E n \in 1..Len(waiters[key[u]]) : waiters[key[u]][n] = u
    BY <1>1 DEF LockInv, Queued
  <2> QED
    BY <2>3, <2>4 DEF LockInv, Queued
<1> QED
  BY <1>2, <1>3 DEF LockInv

\* A free lock is taken.
LEMMA TakesLock ==
  ASSUME RoutingTyped, LockInv, NEW t \in Task, state[t] = "acquire",
         holder[key[t]] = NoTask, holder' = [holder EXCEPT ![key[t]] = t],
         Goto(t, "recheck"), UNCHANGED <<key, waiters>>
  PROVE  LockInv'
<1>1. /\ state'[t] = "recheck" /\ \A u \in Task \ {t} : state'[u] = state[u]
      /\ "recheck" \in InCriticalSection /\ state[t] \notin InCriticalSection
      /\ key[t] \in Key
  BY DEF RoutingTyped, Goto, InCriticalSection
<1>2. holder'[key[t]] = t /\ \A k \in Key \ {key[t]} : holder'[k] = holder[k]
  BY <1>1 DEF RoutingTyped
<1>3. \A u \in Task : u # NoTask
  BY RoutingAssumption
<1>4. LockHeld'
  <2>1. ASSUME NEW u \in Task, state'[u] \in InCriticalSection PROVE holder'[key[u]] = u
    <3>1. CASE u = t
      BY <1>2, <3>1
    <3>2. CASE u # t
      <4>1. holder[key[u]] = u /\ key[u] \in Key
        BY <1>1, <2>1, <3>2 DEF LockInv, LockHeld, RoutingTyped
      <4> QED
        BY <1>2, <1>3, <4>1
    <3> QED
      BY <3>1, <3>2
  <2>2. ASSUME NEW k \in Key, holder'[k] # NoTask
        PROVE  key[holder'[k]] = k /\ state'[holder'[k]] \in InCriticalSection
    <3>1. CASE k = key[t]
      BY <1>1, <1>2, <3>1
    <3>2. CASE k # key[t]
      <4>1. holder'[k] = holder[k] /\ holder[k] \in Task
        BY <1>2, <2>2, <3>2 DEF RoutingTyped
      <4>2. key[holder[k]] = k /\ state[holder[k]] \in InCriticalSection
        BY <2>2, <4>1 DEF LockInv, LockHeld
      <4> QED
        BY <1>1, <4>1, <4>2
    <3> QED
      BY <3>1, <3>2
  <2>3. \A k \in Key : holder'[k] = NoTask => waiters[k] = <<>>
    BY <1>2, <1>3 DEF LockInv, LockHeld
  <2> QED
    BY <2>1, <2>2, <2>3 DEF LockHeld
<1>5. Queued'
  <2>1. \A j \in Key : \A n \in 1..Len(waiters[j]) : waiters[j][n] \in Task
    BY DEF RoutingTyped
  <2>2. \A j \in Key : \A n \in 1..Len(waiters[j]) : waiters[j][n] # t
    BY DEF LockInv, Queued
  <2>3. \A j \in Key : \A n \in 1..Len(waiters[j]) : state'[waiters[j][n]] = "waiting"
    BY <1>1, <2>1, <2>2 DEF LockInv, Queued
  <2>4. \A u \in Task : state'[u] = "waiting" =>
          \E n \in 1..Len(waiters[key[u]]) : waiters[key[u]][n] = u
    BY <1>1 DEF LockInv, Queued
  <2> QED
    BY <2>3, <2>4 DEF LockInv, Queued
<1> QED
  BY <1>4, <1>5 DEF LockInv

\* A lock that is held is waited for.
LEMMA Enqueues ==
  ASSUME RoutingTyped, LockInv, NEW t \in Task, state[t] = "acquire",
         holder[key[t]] # NoTask,
         waiters' = [waiters EXCEPT ![key[t]] = Append(waiters[key[t]], t)],
         Goto(t, "waiting"), UNCHANGED <<key, holder>>
  PROVE  LockInv'
<1> DEFINE k == key[t]
           w == waiters[k]
<1>1. /\ state'[t] = "waiting" /\ \A u \in Task \ {t} : state'[u] = state[u]
      /\ "waiting" \notin InCriticalSection /\ state[t] \notin InCriticalSection
      /\ k \in Key /\ w \in Seq(Task)
  BY DEF RoutingTyped, Goto, InCriticalSection
<1>2. waiters'[k] = Append(w, t) /\ \A j \in Key \ {k} : waiters'[j] = waiters[j]
  BY <1>1 DEF RoutingTyped
<1>3. /\ Len(Append(w, t)) = Len(w) + 1 /\ Len(w) \in Nat
      /\ Append(w, t)[Len(w) + 1] = t
      /\ \A n \in 1..Len(w) : Append(w, t)[n] = w[n]
  BY <1>1
<1>4. LockHeld'
  <2>1. \A u \in Task : state'[u] \in InCriticalSection <=> state[u] \in InCriticalSection
    BY <1>1
  <2>2. \A j \in Key : holder[j] # NoTask => holder[j] \in Task
    BY DEF RoutingTyped
  <2>3. \A j \in Key : holder[j] = NoTask => waiters'[j] = <<>>
    BY <1>2 DEF LockInv, LockHeld
  <2> QED
    BY <2>1, <2>2, <2>3 DEF LockInv, LockHeld
<1>5. /\ \A j \in Key : \A n \in 1..Len(waiters[j]) :
           waiters[j][n] \in Task /\ waiters[j][n] # t
  BY DEF LockInv, Queued, RoutingTyped
<1>6. Queued'
  <2>1. ASSUME NEW j \in Key, NEW n \in 1..Len(waiters'[j])
        PROVE  state'[waiters'[j][n]] = "waiting" /\ key[waiters'[j][n]] = j
    <3>1. CASE j = k /\ n = Len(w) + 1
      BY <1>1, <1>2, <1>3, <3>1
    <3>2. CASE j # k
      BY <1>1, <1>2, <1>5, <2>1, <3>2 DEF LockInv, Queued
    <3>3. CASE j = k /\ n # Len(w) + 1
      <4>1. n \in 1..Len(w) /\ waiters'[j][n] = w[n]
        BY <1>2, <1>3, <2>1, <3>3
      <4>2. state[w[n]] = "waiting" /\ key[w[n]] = k /\ w[n] \in Task /\ w[n] # t
        BY <1>1, <1>5, <4>1 DEF LockInv, Queued
      <4> QED
        BY <1>1, <3>3, <4>1, <4>2
    <3> QED
      BY <3>1, <3>2, <3>3
  <2>2. ASSUME NEW j \in Key, NEW m \in 1..Len(waiters'[j]), NEW n \in 1..Len(waiters'[j]),
               waiters'[j][m] = waiters'[j][n]
        PROVE  m = n
    <3>1. CASE j # k
      BY <1>2, <2>2, <3>1 DEF LockInv, Queued
    <3>2. CASE j = k
      <4>1. m \in 1..Len(w) => waiters'[j][m] = w[m] /\ w[m] # t
        BY <1>1, <1>2, <1>3, <1>5, <3>2
      <4>2. n \in 1..Len(w) => waiters'[j][n] = w[n] /\ w[n] # t
        BY <1>1, <1>2, <1>3, <1>5, <3>2
      <4>3. m \notin 1..Len(w) => m = Len(w) + 1 /\ waiters'[j][m] = t
        BY <1>2, <1>3, <3>2
      <4>4. n \notin 1..Len(w) => n = Len(w) + 1 /\ waiters'[j][n] = t
        BY <1>2, <1>3, <3>2
      <4>5. \A a, b \in 1..Len(w) : w[a] = w[b] => a = b
        BY <1>1 DEF LockInv, Queued
      <4> HIDE DEF w
      <4> QED
        BY <2>2, <4>1, <4>2, <4>3, <4>4, <4>5
    <3> QED
      BY <3>1, <3>2
  <2>3. ASSUME NEW u \in Task, state'[u] = "waiting"
        PROVE  \E n \in 1..Len(waiters'[key[u]]) : waiters'[key[u]][n] = u
    <3>1. CASE u = t
      <4>1. Len(w) + 1 \in 1..Len(waiters'[k]) /\ waiters'[k][Len(w) + 1] = t
        BY <1>2, <1>3
      <4> QED
        BY <3>1, <4>1
    <3>2. CASE u # t
      <4>1. PICK n \in 1..Len(waiters[key[u]]) : waiters[key[u]][n] = u
        BY <1>1, <2>3, <3>2 DEF LockInv, Queued
      <4>2. CASE key[u] = k
        BY <1>2, <1>3, <4>1, <4>2
      <4>3. CASE key[u] # k
        BY <1>2, <4>1, <4>3 DEF RoutingTyped
      <4> QED
        BY <4>2, <4>3
    <3> QED
      BY <3>1, <3>2
  <2> QED
    BY <2>1, <2>2, <2>3 DEF Queued
<1> QED
  BY <1>4, <1>6 DEF LockInv

\* r is w without its n-th element.
Shrinks(w, n, r) ==
  /\ r \in Seq(Task) /\ Len(r) = Len(w) - 1
  /\ \A j \in 1..Len(r) : r[j] = IF j < n THEN w[j] ELSE w[j + 1]

LEMMA RemoveShrinks ==
  ASSUME NEW w \in Seq(Task), NEW n \in 1..Len(w)
  PROVE  Shrinks(w, n, RemoveAt(w, n))
<1> DEFINE a == SubSeq(w, 1, n - 1)
           b == SubSeq(w, n + 1, Len(w))
<1>1. /\ a \in Seq(Task) /\ Len(a) = n - 1 /\ \A j \in 1..(n - 1) : a[j] = w[j]
  <2>1. n - 1 \in 0..Len(w)
    OBVIOUS
  <2> QED
    BY <2>1, SubSeqProperties
<1>2. /\ b \in Seq(Task) /\ Len(b) = Len(w) - n /\ \A j \in 1..(Len(w) - n) : b[j] = w[n + j]
  OBVIOUS
<1> HIDE DEF a, b
<1>3. /\ a \o b \in Seq(Task) /\ Len(a \o b) = Len(a) + Len(b)
      /\ \A j \in 1..(Len(a) + Len(b)) : (a \o b)[j] = IF j <= Len(a) THEN a[j] ELSE b[j - Len(a)]
  BY <1>1, <1>2, ConcatProperties
<1>4. RemoveAt(w, n) = a \o b
  BY DEF RemoveAt, a, b
<1>5. Len(w) \in Nat /\ n \in Nat
  OBVIOUS
<1>6. Len(a \o b) = Len(w) - 1
  BY <1>1, <1>2, <1>3, <1>5
<1>7. ASSUME NEW j \in 1..(Len(w) - 1) PROVE (a \o b)[j] = IF j < n THEN w[j] ELSE w[j + 1]
  <2>1. CASE j < n
    BY <1>1, <1>2, <1>3, <1>5, <2>1
  <2>2. CASE ~ (j < n)
    <3>1. (a \o b)[j] = b[j - (n - 1)]
      BY <1>1, <1>2, <1>3, <1>5, <2>2
    <3>2. j - (n - 1) \in 1..(Len(w) - n) /\ n + (j - (n - 1)) = j + 1
      BY <1>5, <2>2
    <3> QED
      BY <1>2, <2>2, <3>1, <3>2
  <2> QED
    BY <2>1, <2>2
<1> QED
  BY <1>3, <1>4, <1>6, <1>7 DEF Shrinks

LEMMA TailShrinks ==
  ASSUME NEW w \in Seq(Task), w # <<>>
  PROVE  Shrinks(w, 1, Tail(w)) /\ 1 \in 1..Len(w) /\ Head(w) = w[1]
BY HeadTailProperties DEF Shrinks

\* One task leaves a queue.
LEMMA QueueShrinks ==
  ASSUME RoutingTyped, Queued, NEW k \in Key, NEW n \in 1..Len(waiters[k]), NEW r,
         Shrinks(waiters[k], n, r), waiters' = [waiters EXCEPT ![k] = r], key' = key,
         state'[waiters[k][n]] # "waiting",
         \A u \in Task : u # waiters[k][n] => (state'[u] = "waiting" <=> state[u] = "waiting")
  PROVE  Queued'
<1> DEFINE w == waiters[k]
           place(j) == IF j < n THEN j ELSE j + 1
<1>1. w \in Seq(Task) /\ Len(w) \in Nat /\ n \in 1..Len(w) /\ w[n] \in Task
  BY DEF RoutingTyped
<1>2. waiters'[k] = r /\ \A j \in Key \ {k} : waiters'[j] = waiters[j]
  BY DEF RoutingTyped
<1>3. /\ Len(r) = Len(w) - 1
      /\ \A j \in 1..Len(r) : place(j) \in 1..Len(w) /\ place(j) # n /\ r[j] = w[place(j)]
  BY <1>1 DEF Shrinks
<1>4. /\ \A j \in 1..Len(w) : w[j] \in Task /\ state[w[j]] = "waiting" /\ key[w[j]] = k
      /\ \A i, j \in 1..Len(w) : w[i] = w[j] => i = j
  BY <1>1 DEF Queued
<1>5. ASSUME NEW j \in Key \ {k}, NEW i \in 1..Len(waiters[j])
      PROVE  /\ waiters[j][i] \in Task /\ waiters[j][i] # w[n]
             /\ state[waiters[j][i]] = "waiting" /\ key[waiters[j][i]] = j
  <2>1. waiters[j] \in Seq(Task)
    BY DEF RoutingTyped
  <2>2. state[waiters[j][i]] = "waiting" /\ key[waiters[j][i]] = j /\ key[w[n]] = k
    BY <1>4 DEF Queued
  <2> QED
    BY <2>1, <2>2
<1>6. state'[w[n]] # "waiting" /\ \A u \in Task : u # w[n] => (state'[u] = "waiting" <=> state[u] = "waiting")
  OBVIOUS
<1>7. ASSUME NEW j \in Key, NEW i \in 1..Len(waiters'[j])
      PROVE  state'[waiters'[j][i]] = "waiting" /\ key[waiters'[j][i]] = j
  <2>1. CASE j # k
    BY <1>2, <1>5, <1>6, <2>1
  <2>2. CASE j = k
    <3>1. place(i) \in 1..Len(w) /\ place(i) # n /\ r[i] = w[place(i)]
      BY <1>2, <1>3, <2>2
    <3> HIDE DEF w, place
    <3>2. r[i] \in Task /\ r[i] # w[n] /\ state[r[i]] = "waiting" /\ key[r[i]] = k
      BY <1>1, <1>4, <3>1
    <3> QED
      BY <1>2, <1>6, <2>2, <3>2
  <2> QED
    BY <2>1, <2>2
<1>8. ASSUME NEW j \in Key, NEW a \in 1..Len(waiters'[j]), NEW b \in 1..Len(waiters'[j]),
             waiters'[j][a] = waiters'[j][b]
      PROVE  a = b
  <2>1. CASE j # k
    BY <1>2, <1>8, <2>1 DEF Queued
  <2>2. CASE j = k
    <3>1. place(a) \in 1..Len(w) /\ place(b) \in 1..Len(w) /\ w[place(a)] = w[place(b)]
      BY <1>2, <1>3, <1>8, <2>2
    <3>2. place(a) = place(b)
      BY <1>4, <3>1
    <3>3. a \in Int /\ b \in Int
      OBVIOUS
    <3> QED
      BY <1>1, <3>2, <3>3
  <2> QED
    BY <2>1, <2>2
<1>9. ASSUME NEW u \in Task, state'[u] = "waiting"
      PROVE  \E i \in 1..Len(waiters'[key[u]]) : waiters'[key[u]][i] = u
  <2>1. u # w[n] /\ state[u] = "waiting" /\ key[u] \in Key
    BY <1>6, <1>9 DEF RoutingTyped
  <2>2. PICK i \in 1..Len(waiters[key[u]]) : waiters[key[u]][i] = u
    BY <2>1 DEF Queued
  <2>3. CASE key[u] # k
    BY <1>2, <2>1, <2>2, <2>3
  <2>4. CASE key[u] = k
    <3>1. i \in 1..Len(w) /\ i # n /\ w[i] = u
      BY <2>1, <2>2, <2>4
    <3>2. CASE i < n
      <4>1. i \in 1..Len(r) /\ place(i) = i
        BY <1>1, <1>3, <3>1, <3>2
      <4>2. r[i] = u
        BY <1>3, <3>1, <4>1
      <4> QED
        BY <1>2, <2>4, <4>1, <4>2
    <3>3. CASE i > n
      <4>1. i - 1 \in 1..Len(r) /\ place(i - 1) = i
        BY <1>1, <1>3, <3>1, <3>3
      <4>2. r[i - 1] = u
        BY <1>3, <3>1, <4>1
      <4> QED
        BY <1>2, <2>4, <4>1, <4>2
    <3> QED
      BY <1>1, <3>1, <3>2, <3>3
  <2> QED
    BY <2>3, <2>4
<1> QED
  BY <1>7, <1>8, <1>9 DEF Queued

\* A lock is given back, to the first who waits for it if there is one.
LEMMA Releases ==
  ASSUME RoutingTyped, LockInv, NEW t \in Task, NEW s \in Outside,
         state[t] \in InCriticalSection, Release(t, s), key' = key
  PROVE  LockInv'
<1> DEFINE k == key[t]
           w == waiters[k]
<1>1. /\ k \in Key /\ w \in Seq(Task) /\ holder[k] = t
      /\ s \notin InCriticalSection /\ s # "waiting" /\ state[t] # "waiting"
      /\ "waiting" \notin InCriticalSection /\ "recheck" \in InCriticalSection
  BY DEF RoutingTyped, LockInv, LockHeld, Outside, InCriticalSection
<1>2. \A j \in Key : holder[j] # NoTask => holder[j] \in Task
  BY DEF RoutingTyped
<1>3. \A u \in Task \ {t} : state[u] \in InCriticalSection => key[u] # k
  BY <1>1 DEF LockInv, LockHeld
<1>4. CASE w = <<>>
  <2>1. /\ state'[t] = s /\ \A u \in Task \ {t} : state'[u] = state[u]
        /\ holder'[k] = NoTask /\ \A j \in Key \ {k} : holder'[j] = holder[j]
        /\ waiters' = waiters
    BY <1>1, <1>4 DEF Release, Goto, RoutingTyped
  <2>2. LockHeld'
    <3>1. \A u \in Task : state'[u] \in InCriticalSection => holder'[key[u]] = u
      BY <1>1, <1>3, <2>1 DEF LockInv, LockHeld, RoutingTyped
    <3>2. ASSUME NEW j \in Key, holder'[j] # NoTask
          PROVE  key[holder'[j]] = j /\ state'[holder'[j]] \in InCriticalSection
      <4>1. j # k /\ holder'[j] = holder[j] /\ holder[j] \in Task
        BY <1>2, <2>1, <3>2
      <4>2. key[holder[j]] = j /\ state[holder[j]] \in InCriticalSection
        BY <3>2, <4>1 DEF LockInv, LockHeld
      <4> QED
        BY <2>1, <4>1, <4>2
    <3>3. \A j \in Key : holder'[j] = NoTask => waiters'[j] = <<>>
      BY <1>4, <2>1 DEF LockInv, LockHeld
    <3> QED
      BY <3>1, <3>2, <3>3 DEF LockHeld
  <2>3. Queued'
    <3>1. \A j \in Key : \A n \in 1..Len(waiters[j]) :
            waiters[j][n] \in Task /\ waiters[j][n] # t
      BY <1>1 DEF LockInv, Queued, RoutingTyped
    <3>2. \A j \in Key : \A n \in 1..Len(waiters[j]) :
            state'[waiters[j][n]] = "waiting" /\ key[waiters[j][n]] = j
      BY <2>1, <3>1 DEF LockInv, Queued
    <3>3. \A u \in Task : state'[u] = "waiting" =>
            \E n \in 1..Len(waiters[key[u]]) : waiters[key[u]][n] = u
      BY <1>1, <2>1 DEF LockInv, Queued
    <3> QED
      BY <2>1, <3>2, <3>3 DEF LockInv, Queued
  <2> QED
    BY <2>2, <2>3 DEF LockInv
<1>5. CASE w # <<>>
  <2> DEFINE h == w[1]
  <2>1. Shrinks(w, 1, Tail(w)) /\ 1 \in 1..Len(w) /\ Head(w) = h
    BY <1>1, <1>5, TailShrinks
  <2>2. h \in Task /\ state[h] = "waiting" /\ key[h] = k /\ h # t
    BY <1>1, <2>1 DEF LockInv, Queued
  <2>3. /\ state'[t] = s /\ state'[h] = "recheck"
        /\ \A u \in Task \ {t, h} : state'[u] = state[u]
        /\ holder'[k] = h /\ \A j \in Key \ {k} : holder'[j] = holder[j]
        /\ waiters' = [waiters EXCEPT ![k] = Tail(w)]
    BY <1>1, <1>5, <2>1, <2>2 DEF Release, RoutingTyped
  <2>4. Queued'
    <3>1. \A u \in Task : u # h => (state'[u] = "waiting" <=> state[u] = "waiting")
      BY <1>1, <2>3
    <3>2. state'[h] # "waiting"
      BY <2>3
    <3> QED
      BY <1>1, <2>1, <2>3, <3>1, <3>2, QueueShrinks DEF LockInv
  <2> HIDE DEF h
  <2>5. LockHeld'
    <3>1. ASSUME NEW u \in Task, state'[u] \in InCriticalSection PROVE holder'[key[u]] = u
      <4>1. CASE u = h
        BY <2>2, <2>3, <4>1
      <4>2. CASE u # h
        <5>1. u # t /\ state[u] \in InCriticalSection
          BY <1>1, <2>3, <3>1, <4>2
        <5>2. holder[key[u]] = u /\ key[u] \in Key \ {k}
          BY <1>3, <5>1 DEF LockInv, LockHeld, RoutingTyped
        <5> QED
          BY <2>3, <5>2
      <4> QED
        BY <4>1, <4>2
    <3>2. ASSUME NEW j \in Key, holder'[j] # NoTask
          PROVE  key[holder'[j]] = j /\ state'[holder'[j]] \in InCriticalSection
      <4>1. CASE j = k
        BY <1>1, <2>2, <2>3, <4>1
      <4>2. CASE j # k
        <5>1. holder'[j] = holder[j] /\ holder[j] \in Task
          BY <1>2, <2>3, <3>2, <4>2
        <5>2. key[holder[j]] = j /\ state[holder[j]] \in InCriticalSection
          BY <3>2, <5>1 DEF LockInv, LockHeld
        <5>3. holder[j] # t /\ holder[j] # h
          BY <1>1, <2>2, <4>2, <5>2
        <5> QED
          BY <2>3, <5>1, <5>2, <5>3
      <4> QED
        BY <4>1, <4>2
    <3>3. ASSUME NEW j \in Key, holder'[j] = NoTask PROVE waiters'[j] = <<>>
      <4>1. h # NoTask
        BY <2>2, RoutingAssumption
      <4>2. j # k
        BY <2>3, <3>3, <4>1
      <4> QED
        BY <2>3, <3>3, <4>2 DEF LockInv, LockHeld, RoutingTyped
    <3> QED
      BY <3>1, <3>2, <3>3 DEF LockHeld
  <2> QED
    BY <2>4, <2>5 DEF LockInv
<1> QED
  BY <1>4, <1>5

\* A waiter is cancelled.
LEMMA LeavesQueue ==
  ASSUME RoutingTyped, LockInv, NEW t \in Task, NEW s \in Outside, state[t] = "waiting",
         Goto(t, s), LeaveQueue(t), UNCHANGED <<key, holder>>
  PROVE  LockInv'
<1> DEFINE k == key[t]
           w == waiters[k]
<1>1. /\ state'[t] = s /\ \A u \in Task \ {t} : state'[u] = state[u]
      /\ k \in Key /\ w \in Seq(Task)
      /\ s \notin InCriticalSection /\ s # "waiting" /\ "waiting" \notin InCriticalSection
  BY DEF RoutingTyped, Goto, Outside, InCriticalSection
<1>2. PICK n \in DOMAIN w : w[n] = t /\ waiters' = [waiters EXCEPT ![k] = RemoveAt(w, n)]
  BY DEF LeaveQueue
<1>3. Queued'
  <2>1. n \in 1..Len(w)
    BY <1>1
  <2>2. Shrinks(w, n, RemoveAt(w, n))
    BY <1>1, <2>1, RemoveShrinks
  <2>3. \A u \in Task : u # w[n] => (state'[u] = "waiting" <=> state[u] = "waiting")
    BY <1>1, <1>2
  <2>4. state'[w[n]] # "waiting"
    BY <1>1, <1>2
  <2> QED
    BY <1>1, <1>2, <2>1, <2>2, <2>3, <2>4, QueueShrinks DEF LockInv
<1>4. LockHeld'
  <2>1. \A u \in Task : state'[u] \in InCriticalSection <=> state[u] \in InCriticalSection
    BY <1>1
  <2>2. \A j \in Key : holder[j] # NoTask => holder[j] \in Task
    BY DEF RoutingTyped
  <2>3. holder[k] # NoTask
    BY <1>1, <1>2 DEF LockInv, LockHeld
  <2>4. \A j \in Key : holder[j] = NoTask => waiters'[j] = <<>>
    BY <1>2, <2>3 DEF LockInv, LockHeld, RoutingTyped
  <2> QED
    BY <2>1, <2>2, <2>4 DEF LockInv, LockHeld
<1> QED
  BY <1>3, <1>4 DEF LockInv

-----------------------------------------------------------------------------
(* The router's steps.                                                     *)

RouteInv == RoutingTyped /\ LockInv /\ NothingCached

LEMMA KeysAreNumbers == Key \subseteq Nat /\ 0 \in Key
BY PagingAssumption

\* No task turns to the backup server, and the cache learns nothing.
LEMMA StillNothing ==
  ASSUME RoutingTyped, NothingCached, now' \in Nat, now' >= now,
         \A k \in Key : expires'[k] \in Nat /\ expires'[k] <= expires[k],
         \A u \in Task : state'[u] = "backup" => state[u] = "backup" /\ key'[u] = key[u]
  PROVE  NothingCached'
<1> SUFFICES ASSUME NEW u \in Task, state'[u] = "backup" PROVE ~ (expires'[key'[u]] > now')
  BY DEF NothingCached, Live
<1>1. ~ (expires[key[u]] > now) /\ key'[u] = key[u] /\ key[u] \in Key
  BY DEF NothingCached, Live, RoutingTyped
<1>2. expires[key[u]] \in Nat /\ now \in Nat
  BY <1>1 DEF RoutingTyped
<1> QED
  BY <1>1, <1>2

\* An expired entry is dropped.
LEMMA DropForgets ==
  ASSUME RoutingTyped, NEW t \in Task
  PROVE  /\ Dropped(key[t]) \in [Key -> Nat]
         /\ \A k \in Key : Dropped(key[t])[k] <= expires[k]
<1>1. key[t] \in Key /\ expires \in [Key -> Nat]
  BY DEF RoutingTyped
<1>2. CASE Live(key[t])
  BY <1>1, <1>2 DEF Dropped
<1>3. CASE ~ Live(key[t])
  BY <1>1, <1>3 DEF Dropped, Never
<1> QED
  BY <1>2, <1>3

LEMMA ReleaseTyped ==
  ASSUME RoutingTyped, LockInv, NEW t \in Task, NEW s \in Outside, Release(t, s)
  PROVE  /\ state' \in [Task -> States] /\ holder' \in [Key -> Task \cup {NoTask}]
         /\ waiters' \in [Key -> Seq(Task)]
         /\ \A u \in Task : state'[u] = "backup" => state[u] = "backup" /\ u # t
<1> DEFINE k == key[t]
           w == waiters[k]
<1>1. /\ k \in Key /\ w \in Seq(Task) /\ s \in States /\ "recheck" \in States /\ s # "backup"
      /\ state \in [Task -> States] /\ holder \in [Key -> Task \cup {NoTask}]
      /\ waiters \in [Key -> Seq(Task)]
  BY DEF RoutingTyped, Outside, States, Awaiting, InCriticalSection
<1>2. CASE w = <<>>
  BY <1>1, <1>2 DEF Release, Goto
<1>3. CASE w # <<>>
  <2>1. Shrinks(w, 1, Tail(w)) /\ Head(w) = w[1] /\ 1 \in 1..Len(w)
    BY <1>1, <1>3, TailShrinks
  <2>2. Head(w) \in Task /\ Tail(w) \in Seq(Task)
    BY <1>1, <2>1 DEF Shrinks
  <2>3. /\ holder' = [holder EXCEPT ![k] = Head(w)]
        /\ waiters' = [waiters EXCEPT ![k] = Tail(w)]
        /\ state' = [state EXCEPT ![t] = s, ![Head(w)] = "recheck"]
    BY <1>3 DEF Release
  <2> HIDE DEF w
  <2> QED
    BY <1>1, <2>2, <2>3
<1> QED
  BY <1>2, <1>3

\* A task stays outside the locks, and knows what it knew or has an answer.
LEMMA PlainStep ==
  ASSUME RouteInv, NEW t \in Task, NEW s \in Outside, state[t] \in Outside, Goto(t, s),
         answer' \in [Task -> {NoAnswer, Primary, Backup, Cached}],
         NEW k \in Key, key' = [key EXCEPT ![t] = k],
         expires' \in [Key -> Nat], \A j \in Key : expires'[j] <= expires[j],
         UNCHANGED <<holder, waiters, now>>
  PROVE  RouteInv'
<1>1. RoutingTyped'
  BY DEF RouteInv, RoutingTyped, Goto, Outside
<1>2. LockInv'
  BY MovesOutside DEF RouteInv
<1>3. NothingCached'
  <2>1. /\ state'[t] # "backup"
        /\ \A u \in Task \ {t} : state'[u] = state[u] /\ key'[u] = key[u]
    BY DEF RouteInv, RoutingTyped, Goto, Outside, InCriticalSection
  <2>2. \A u \in Task : state'[u] = "backup" => state[u] = "backup" /\ key'[u] = key[u]
    BY <2>1
  <2>3. now' \in Nat /\ now' >= now /\ \A j \in Key : expires'[j] \in Nat
    BY DEF RouteInv, RoutingTyped
  <2> QED
    BY <2>2, <2>3, StillNothing DEF RouteInv
<1> QED
  BY <1>1, <1>2, <1>3 DEF RouteInv

LEMMA PrimaryInv ==
  ASSUME RouteInv, NEW t \in Task, PrimaryAnswers(t) \/ PrimaryFails(t)
  PROVE  RouteInv'
<1>1. /\ state[t] = "primary" /\ UNCHANGED <<key, expires, holder, waiters, now>>
      /\ \/ Goto(t, "answered") /\ answer' = [answer EXCEPT ![t] = Primary]
         \/ Goto(t, "lookup") /\ answer' = answer
  BY DEF PrimaryAnswers, PrimaryFails, Reply
<1>2. {"primary", "answered", "lookup"} \subseteq Outside
  BY DEF Outside, States, Awaiting, InCriticalSection
<1>3. answer' \in [Task -> {NoAnswer, Primary, Backup, Cached}]
  BY <1>1 DEF RouteInv, RoutingTyped
<1>4. key[t] \in Key /\ key' = [key EXCEPT ![t] = key[t]]
  BY <1>1 DEF RouteInv, RoutingTyped
<1>5. expires' \in [Key -> Nat] /\ \A j \in Key : expires'[j] <= expires[j]
  BY <1>1 DEF RouteInv, RoutingTyped
<1> QED
  BY <1>1, <1>2, <1>3, <1>4, <1>5, PlainStep

LEMMA LookupInv == ASSUME RouteInv, NEW t \in Task, Lookup(t) PROVE RouteInv'
<1>1. /\ state[t] = "lookup" /\ UNCHANGED <<key, holder, waiters, now>>
      /\ expires' = Dropped(key[t])
      /\ \/ Goto(t, "answered") /\ answer' = [answer EXCEPT ![t] = Cached]
         \/ Goto(t, "acquire") /\ answer' = answer
  BY DEF Lookup, Reply
<1>2. {"lookup", "answered", "acquire"} \subseteq Outside
  BY DEF Outside, States, Awaiting, InCriticalSection
<1>3. /\ answer' \in [Task -> {NoAnswer, Primary, Backup, Cached}]
      /\ key[t] \in Key /\ key' = [key EXCEPT ![t] = key[t]]
  BY <1>1 DEF RouteInv, RoutingTyped
<1>4. expires' \in [Key -> Nat] /\ \A j \in Key : expires'[j] <= expires[j]
  BY <1>1, DropForgets DEF RouteInv
<1> QED
  BY <1>1, <1>2, <1>3, <1>4, PlainStep

LEMMA AcquireInv == ASSUME RouteInv, NEW t \in Task, Acquire(t) PROVE RouteInv'
<1>1. /\ state[t] = "acquire" /\ key[t] \in Key /\ UNCHANGED <<key, answer, expires, now>>
      /\ "recheck" \in States /\ "waiting" \in States
  BY DEF Acquire, RouteInv, RoutingTyped, States, Awaiting, InCriticalSection
<1>2. LockInv'
  BY <1>1, TakesLock, Enqueues DEF Acquire, RouteInv
<1>3. RoutingTyped'
  <2>1. state' \in [Task -> States]
    BY <1>1 DEF Acquire, RouteInv, RoutingTyped, Goto
  <2>2. holder' \in [Key -> Task \cup {NoTask}]
    BY <1>1 DEF Acquire, RouteInv, RoutingTyped
  <2>3. waiters' \in [Key -> Seq(Task)]
    <3>1. Append(waiters[key[t]], t) \in Seq(Task)
      BY <1>1 DEF RouteInv, RoutingTyped
    <3> QED
      BY <1>1, <3>1 DEF Acquire, RouteInv, RoutingTyped
  <2> QED
    BY <1>1, <2>1, <2>2, <2>3 DEF RouteInv, RoutingTyped
<1>4. \A u \in Task : state'[u] = "backup" => state[u] = "backup" /\ key'[u] = key[u]
  BY <1>1 DEF Acquire, RouteInv, RoutingTyped, Goto
<1>5. NothingCached'
  BY <1>1, <1>4, StillNothing DEF RouteInv, RoutingTyped
<1> QED
  BY <1>2, <1>3, <1>5 DEF RouteInv

\* A task gives the lock back; it may have put an answer into the cache.
LEMMA ReleaseStep ==
  ASSUME RouteInv, NEW t \in Task, NEW s \in Outside, state[t] \in InCriticalSection,
         Release(t, s), answer' \in [Task -> {NoAnswer, Primary, Backup, Cached}],
         expires' \in [Key -> Nat],
         \A k \in Key \ {key[t]} : expires'[k] <= expires[k],
         UNCHANGED <<key, now>>
  PROVE  RouteInv'
<1>1. /\ state' \in [Task -> States] /\ holder' \in [Key -> Task \cup {NoTask}]
      /\ waiters' \in [Key -> Seq(Task)]
      /\ \A u \in Task : state'[u] = "backup" => state[u] = "backup" /\ u # t
  BY ReleaseTyped DEF RouteInv
<1>2. RoutingTyped'
  BY <1>1 DEF RouteInv, RoutingTyped
<1>3. LockInv'
  BY Releases DEF RouteInv
<1>4. NothingCached'
  <2> SUFFICES ASSUME NEW u \in Task, state'[u] = "backup" PROVE ~ (expires'[key[u]] > now)
    BY DEF NothingCached, Live
  <2>1. state[u] = "backup" /\ u # t
    BY <1>1
  <2>2. ~ (expires[key[u]] > now) /\ key[u] \in Key
    BY <2>1 DEF RouteInv, NothingCached, Live, RoutingTyped
  <2>3. key[u] # key[t]
    BY <2>1 DEF RouteInv, LockInv, LockHeld, InCriticalSection
  <2>4. expires'[key[u]] \in Nat /\ expires[key[u]] \in Nat /\ now \in Nat
    BY <2>2 DEF RouteInv, RoutingTyped
  <2> QED
    BY <2>2, <2>3, <2>4
<1> QED
  BY <1>2, <1>3, <1>4 DEF RouteInv

\* The holder of a lock goes on; it turns to the backup server if the cache has nothing.
LEMMA InsideStep ==
  ASSUME RouteInv, NEW t \in Task, NEW s \in InCriticalSection,
         state[t] \in InCriticalSection, Goto(t, s), s = "backup" => ~ Live(key[t]),
         expires' \in [Key -> Nat], \A k \in Key : expires'[k] <= expires[k],
         UNCHANGED <<key, answer, holder, waiters, now>>
  PROVE  RouteInv'
<1>1. RoutingTyped'
  <2>1. state' \in [Task -> States]
    BY DEF RouteInv, RoutingTyped, Goto, States, Awaiting
  <2> QED
    BY <2>1 DEF RouteInv, RoutingTyped
<1>2. LockInv'
  BY MovesInside DEF RouteInv
<1>3. NothingCached'
  <2> SUFFICES ASSUME NEW u \in Task, state'[u] = "backup" PROVE ~ (expires'[key[u]] > now)
    BY DEF NothingCached, Live
  <2>1. state'[t] = s /\ \A v \in Task \ {t} : state'[v] = state[v]
    BY DEF RouteInv, RoutingTyped, Goto
  <2>2. ~ (expires[key[u]] > now) /\ key[u] \in Key
    BY <2>1 DEF RouteInv, NothingCached, Live, RoutingTyped
  <2>3. expires'[key[u]] \in Nat /\ expires[key[u]] \in Nat /\ now \in Nat
    BY <2>2 DEF RouteInv, RoutingTyped
  <2> QED
    BY <2>2, <2>3
<1> QED
  BY <1>1, <1>2, <1>3 DEF RouteInv

LEMMA RecheckInv == ASSUME RouteInv, NEW t \in Task, Recheck(t) PROVE RouteInv'
<1>1. /\ state[t] = "recheck" /\ expires' = Dropped(key[t]) /\ UNCHANGED <<key, now>>
      /\ state[t] \in InCriticalSection /\ "backup" \in InCriticalSection
      /\ "answered" \in Outside
  BY DEF Recheck, Outside, States, Awaiting, InCriticalSection
<1>2. expires' \in [Key -> Nat] /\ \A k \in Key : expires'[k] <= expires[k]
  BY <1>1, DropForgets DEF RouteInv
<1>3. CASE Live(key[t])
  <2>1. Release(t, "answered") /\ answer' = [answer EXCEPT ![t] = Cached]
    BY <1>3 DEF Recheck
  <2>2. answer' \in [Task -> {NoAnswer, Primary, Backup, Cached}]
    BY <2>1 DEF RouteInv, RoutingTyped
  <2> QED
    BY <1>1, <1>2, <2>1, <2>2, ReleaseStep
<1>4. CASE ~ Live(key[t])
  <2>1. Goto(t, "backup") /\ UNCHANGED <<answer, holder, waiters>>
    BY <1>4 DEF Recheck
  <2> QED
    BY <1>1, <1>2, <1>4, <2>1, InsideStep
<1> QED
  BY <1>3, <1>4

LEMMA BackupInv ==
  ASSUME RouteInv, NEW t \in Task, BackupAnswers(t) \/ BackupFails(t) \/ Put(t)
  PROVE  RouteInv'
<1>1. /\ state[t] \in InCriticalSection /\ "put" \in InCriticalSection
      /\ {"answered", "unavailable"} \subseteq Outside
      /\ UNCHANGED <<key, now>>
  BY DEF BackupAnswers, BackupFails, Put, Outside, States, Awaiting, InCriticalSection
<1>2. /\ key[t] \in Key /\ expires \in [Key -> Nat] /\ now \in Nat
      /\ answer \in [Task -> {NoAnswer, Primary, Backup, Cached}]
      /\ \A k \in Key : expires[k] <= expires[k]
  BY DEF RouteInv, RoutingTyped
<1>3. CASE BackupAnswers(t)
  BY <1>1, <1>2, <1>3, InsideStep DEF BackupAnswers
<1>4. CASE BackupFails(t)
  BY <1>1, <1>2, <1>4, ReleaseStep DEF BackupFails
<1>5. CASE Put(t)
  <2>1. /\ expires' = [expires EXCEPT ![key[t]] = now + TTL]
        /\ Release(t, "answered") /\ answer' = [answer EXCEPT ![t] = Backup]
    BY <1>5 DEF Put
  <2>2. expires' \in [Key -> Nat] /\ \A k \in Key \ {key[t]} : expires'[k] <= expires[k]
    BY <1>2, <2>1, RoutingAssumption
  <2>3. answer' \in [Task -> {NoAnswer, Primary, Backup, Cached}]
    BY <1>2, <2>1
  <2> QED
    BY <1>1, <2>1, <2>2, <2>3, ReleaseStep
<1> QED
  BY <1>3, <1>4, <1>5

LEMMA CancelInv == ASSUME RouteInv, NEW t \in Task, Cancel(t) PROVE RouteInv'
<1>1. /\ "cancelled" \in Outside /\ UNCHANGED <<key, answer, expires, now>>
      /\ Awaiting \ (InCriticalSection \cup {"waiting"}) \subseteq Outside
      /\ "waiting" \notin InCriticalSection
  BY DEF Cancel, Outside, States, Awaiting, InCriticalSection
<1>2. /\ key[t] \in Key /\ expires \in [Key -> Nat] /\ now \in Nat
      /\ answer \in [Task -> {NoAnswer, Primary, Backup, Cached}]
      /\ key' = [key EXCEPT ![t] = key[t]]
      /\ \A k \in Key : expires[k] <= expires[k]
  BY <1>1 DEF RouteInv, RoutingTyped
<1>3. CASE state[t] \in InCriticalSection /\ Release(t, "cancelled")
  BY <1>1, <1>2, <1>3, ReleaseStep
<1>4. CASE /\ state[t] \in Awaiting \ (InCriticalSection \cup {"waiting"})
           /\ Goto(t, "cancelled")
           /\ UNCHANGED <<holder, waiters>>
  BY <1>1, <1>2, <1>4, PlainStep
<1>5. CASE state[t] = "waiting" /\ Goto(t, "cancelled") /\ LeaveQueue(t) /\ UNCHANGED holder
  <2>1. LockInv'
    BY <1>1, <1>5, LeavesQueue DEF RouteInv
  <2>2. state' \in [Task -> States] /\ \A u \in Task : state'[u] = "backup" => state[u] = "backup"
    BY <1>1, <1>5 DEF RouteInv, RoutingTyped, Goto, Outside
  <2>3. waiters' \in [Key -> Seq(Task)]
    <3>1. PICK n \in DOMAIN waiters[key[t]] :
            waiters' = [waiters EXCEPT ![key[t]] = RemoveAt(waiters[key[t]], n)]
      BY <1>5 DEF LeaveQueue
    <3>2. waiters[key[t]] \in Seq(Task) /\ n \in 1..Len(waiters[key[t]])
      BY <1>2 DEF RouteInv, RoutingTyped
    <3>3. RemoveAt(waiters[key[t]], n) \in Seq(Task)
      BY <3>2, RemoveShrinks DEF Shrinks
    <3> QED
      BY <3>1, <3>3 DEF RouteInv, RoutingTyped
  <2>4. RoutingTyped'
    BY <1>1, <1>5, <2>2, <2>3 DEF RouteInv, RoutingTyped
  <2>5. NothingCached'
    BY <1>1, <1>2, <2>2, StillNothing DEF RouteInv
  <2> QED
    BY <2>1, <2>4, <2>5 DEF RouteInv
<1> QED
  BY <1>3, <1>4, <1>5 DEF Cancel

LEMMA TickInv == ASSUME RouteInv, Tick PROVE RouteInv'
<1>1. now \in Nat /\ now' = now + 1 /\ UNCHANGED <<state, key, answer, expires, holder, waiters>>
  BY DEF Tick, RouteInv, RoutingTyped
<1>2. RoutingTyped'
  BY <1>1 DEF RouteInv, RoutingTyped
<1>3. LockInv'
  BY <1>1 DEF RouteInv, LockInv, LockHeld, Queued
<1>4. NothingCached'
  <2>1. \A k \in Key : expires'[k] \in Nat /\ expires'[k] <= expires[k]
    BY <1>1 DEF RouteInv, RoutingTyped
  <2> QED
    BY <1>1, <2>1, StillNothing DEF RouteInv
<1> QED
  BY <1>2, <1>3, <1>4 DEF RouteInv

LEMMA RouteSteps == ASSUME RouteInv, NEW t \in Task, Route(t) PROVE RouteInv'
BY PrimaryInv, LookupInv, AcquireInv, RecheckInv, BackupInv DEF Route

-----------------------------------------------------------------------------
(* Pages.                                                                  *)

Row      == {"PRIMARY", "BACKUP"} \X Nat
Answers  == {NoAnswer, Primary, Backup, Cached}
Outcomes == {"none", "switched", "repeated", "limit", "declared", "complete", "empty"}

LEMMA SnapshotRows ==
  ASSUME upstream \in Upstreams, NEW s \in {"PRIMARY", "BACKUP"}
  PROVE  /\ upstream.total[s] \in Nat
         /\ Snapshot(s) \in Seq(Row) /\ Len(Snapshot(s)) = upstream.total[s]
         /\ Snapshot(s) = SubSeq(Snapshot(s), 1, upstream.total[s])
<1>1. upstream.total[s] \in Nat
  BY PagingAssumption DEF Upstreams
<1>2. Snapshot(s) \in Seq(Row) /\ Len(Snapshot(s)) = upstream.total[s]
  <2>1. \A i \in 1..upstream.total[s] : <<s, i>> \in Row
    BY <1>1 DEF Row
  <2>2. Snapshot(s) \in [1..upstream.total[s] -> Row]
    BY <2>1 DEF Snapshot
  <2> QED
    BY <1>1, <2>2
<1>3. Snapshot(s) = SubSeq(Snapshot(s), 1, upstream.total[s])
  BY <1>2
<1> QED
  BY <1>1, <1>2, <1>3

\* What one page of the primary is, asked for at offset k of a snapshot of n rows.
PageAt(k, n, items) ==
  LET to == Least(k + upstream.cap, n)
  IN /\ items \in Seq(Row) /\ Len(items) = to - k /\ to \in k..n
     /\ SubSeq(Snapshot("PRIMARY"), 1, k) \o items = SubSeq(Snapshot("PRIMARY"), 1, to)

LEMMA PrimaryPages ==
  ASSUME upstream \in Upstreams, upstream.paged,
         NEW k \in 0..upstream.total["PRIMARY"], First(k) = k
  PROVE  PageAt(k, upstream.total["PRIMARY"], Items("PRIMARY", k))
<1> DEFINE n == upstream.total["PRIMARY"]
           s == Snapshot("PRIMARY")
           to == Least(k + upstream.cap, n)
           items == SubSeq(s, k + 1, to)
<1>1. n \in Nat /\ s \in Seq(Row) /\ Len(s) = n
  BY SnapshotRows
<1>2. upstream.cap \in Nat \ {0}
  BY PagingAssumption DEF Upstreams
<1>3. Items("PRIMARY", k) = items
  BY DEF Items
<1>4. k \in 0..n /\ to \in k..n
  BY <1>1, <1>2 DEF Least
<1> HIDE DEF n, s, to
<1>5. items \in Seq(Row) /\ Len(items) = to - k
  BY <1>1, <1>4
<1>6. SubSeq(s, 1, k) \o items = SubSeq(s, 1, to)
  <2>1. 1 \in 1..(Len(s) + 1) /\ k \in (1 - 1)..Len(s) /\ to \in k..Len(s)
    BY <1>1, <1>4
  <2> QED
    BY <1>1, <2>1, ConcatAdjacentSubSeq
<1> QED
  BY <1>3, <1>4, <1>5, <1>6 DEF PageAt, n, s, to

-----------------------------------------------------------------------------
(* One pass of the loop over pages.                                        *)

Fresh(t) == rows[t] = <<>> /\ pages[t] = <<>> /\ source[t] = NoAnswer

\* What a call has after some pages: the beginning of the primary's snapshot, taken
\* in full pages as long as there is enough.
Underway(t) ==
  /\ source[t] = Primary /\ upstream.paged
  /\ key[t] \in 1..upstream.total["PRIMARY"]
  /\ key[t] = Least(Len(pages[t]) * upstream.cap, upstream.total["PRIMARY"])
  /\ rows[t] = SubSeq(Snapshot("PRIMARY"), 1, key[t])
  /\ upstream.ignores => \E n \in DOMAIN pages[t] : pages[t][n] = Items("PRIMARY", 0)

\* The reasons for which a dataset of server s is refused for its size.
TooLarge(s) ==
  LET total == upstream.total[s]
  IN \/ total > MaxRows
     \/ /\ s = "PRIMARY"
        /\ \/ total > MaxPages * upstream.cap
           \/ upstream.has_more # "exact" /\ total \in {MaxRows, MaxPages * upstream.cap}
           \/ upstream.has_more = "always" /\ total > (MaxPages - 1) * upstream.cap

\* What a page means for the call, by its verdict.
PageDone(t, s, items, verdict) ==
  /\ items \in Seq(Row)
  /\ verdict \in Outcomes \cup {"next"}
  /\ verdict = "complete" => /\ rows[t] \o items = Snapshot(s)
                             /\ Len(rows[t] \o items) <= MaxRows
  /\ verdict = "limit" => TooLarge(s)
  /\ verdict = "next" =>
       LET k == key[t] + Len(items)
       IN /\ s = "PRIMARY" /\ upstream.paged
          /\ k \in 1..upstream.total["PRIMARY"] /\ k < MaxRows
          /\ k = Least((Len(pages[t]) + 1) * upstream.cap, upstream.total["PRIMARY"])
          /\ rows[t] \o items = SubSeq(Snapshot("PRIMARY"), 1, k)
          /\ upstream.ignores => items = Items("PRIMARY", 0)

\* The whole snapshot in one answer.
LEMMA WholeAnswer ==
  ASSUME upstream \in Upstreams, NEW t \in Task, NEW s \in {"PRIMARY", "BACKUP"}, Fresh(t),
         s = "BACKUP" \/ ~ upstream.paged
  PROVE  PageDone(t, s, Items(s, key[t]),
                  Verdict(t, Items(s, key[t]), HasMore(s, key[t]),
                          Len(rows[t]) + Len(Items(s, key[t]))))
<1> DEFINE items == Items(s, key[t])
           more == HasMore(s, key[t])
           n == upstream.total[s]
           verdict == Verdict(t, items, more, Len(rows[t]) + Len(items))
<1>1. items = Snapshot(s)
  BY DEF Items
<1>2. n \in Nat /\ items \in Seq(Row) /\ Len(items) = n
  BY <1>1, SnapshotRows
<1>3. more => s = "PRIMARY"
  BY DEF HasMore
<1>4. Len(rows[t]) + Len(items) = n /\ rows[t] \o items = items
  BY <1>2 DEF Fresh
<1>5. MaxRows \in Nat
  BY PagingAssumption
<1> HIDE DEF items, more, n
<1>6. /\ verdict \in {"repeated", "limit", "declared", "complete"}
      /\ verdict = "limit" => n > MaxRows
      /\ verdict = "complete" => ~ (n > MaxRows)
  BY <1>3, <1>4 DEF Verdict
<1> HIDE DEF verdict
<1>7. verdict = "limit" => TooLarge(s)
  BY <1>6 DEF TooLarge, n
<1>8. PageDone(t, s, items, verdict)
  BY <1>1, <1>2, <1>4, <1>5, <1>6, <1>7 DEF PageDone, Outcomes
<1> QED
  BY <1>8 DEF items, more, verdict

\* A page the call has seen before.
LEMMA SamePage ==
  ASSUME upstream \in Upstreams, NEW t \in Task, Underway(t), upstream.ignores,
         pages[t] \in Seq(Seq(Row)), NEW more, NEW received
  PROVE  /\ Items("PRIMARY", key[t]) \in Seq(Row)
         /\ Verdict(t, Items("PRIMARY", key[t]), more, received) = "repeated"
<1>1. upstream.total["PRIMARY"] \in Nat
  BY SnapshotRows
<1>2. Items("PRIMARY", key[t]) = Items("PRIMARY", 0)
  BY DEF Items, First, Underway
<1>3. PageAt(0, upstream.total["PRIMARY"], Items("PRIMARY", 0))
  <2>1. 0 \in 0..upstream.total["PRIMARY"] /\ First(0) = 0
    BY <1>1 DEF First
  <2> QED
    BY <2>1, PrimaryPages DEF Underway
<1>4. Items("PRIMARY", 0) # <<>>
  <2>1. upstream.cap \in Nat \ {0} /\ upstream.total["PRIMARY"] >= 1
    BY <1>1, PagingAssumption DEF Upstreams, Underway
  <2>2. Len(Items("PRIMARY", 0)) >= 1
    BY <1>1, <1>3, <2>1 DEF PageAt, Least
  <2> QED
    BY <2>2
<1>5. Repeated(t, Items("PRIMARY", key[t]))
  BY <1>2, <1>4 DEF Underway, Repeated
<1> QED
  BY <1>2, <1>3, <1>5 DEF PageAt, Verdict

LEMMA LeastProperties ==
  ASSUME NEW a \in Int, NEW b \in Int
  PROVE  /\ Least(a, b) \in Int /\ Least(a, b) <= a /\ Least(a, b) <= b
         /\ Least(a, b) = a \/ Least(a, b) = b
BY DEF Least

LEMMA OneMore == ASSUME NEW p \in Nat, NEW c \in Nat PROVE (p + 1) * c = p * c + c
OBVIOUS

\* The next page of the primary's snapshot.
LEMMA NewPage ==
  ASSUME upstream \in Upstreams, NEW t \in Task, upstream.paged, First(key[t]) = key[t],
         pages[t] \in Seq(Seq(Row)),
         \/ Fresh(t) /\ key[t] = 0
         \/ Underway(t) /\ ~ upstream.ignores
  PROVE  PageDone(t, "PRIMARY", Items("PRIMARY", key[t]),
                  Verdict(t, Items("PRIMARY", key[t]), HasMore("PRIMARY", key[t]),
                          Len(rows[t]) + Len(Items("PRIMARY", key[t]))))
<1> DEFINE k == key[t]
           n == upstream.total["PRIMARY"]
           cap == upstream.cap
           s == Snapshot("PRIMARY")
           items == Items("PRIMARY", k)
           more == HasMore("PRIMARY", k)
           taken == Len(pages[t]) * cap
           to == Least(k + cap, n)
           verdict == Verdict(t, items, more, Len(rows[t]) + Len(items))
<1>1. n \in Nat /\ s \in Seq(Row) /\ Len(s) = n /\ s = SubSeq(s, 1, n)
  BY SnapshotRows
<1>2. /\ cap \in Nat \ {0} /\ MaxRows \in Nat /\ MaxPages \in Nat \ {0} /\ PageSize \in Nat \ {0}
      /\ upstream.has_more \in {"exact", "absent", "always"}
      /\ upstream.has_more = "absent" => cap = PageSize
  BY PagingAssumption DEF Upstreams
<1>3. Len(pages[t]) \in Nat /\ taken \in Nat
  BY <1>2
<1>4. k \in 0..n /\ k = Least(taken, n) /\ rows[t] = SubSeq(s, 1, k)
  <2>1. CASE Fresh(t) /\ k = 0
    <3>1. taken = 0
      BY <1>2, <2>1 DEF Fresh
    <3>2. SubSeq(s, 1, 0) = <<>>
      BY <1>1
    <3> QED
      BY <1>1, <2>1, <3>1, <3>2 DEF Fresh, Least
  <2>2. CASE Underway(t)
    BY <1>1, <2>2 DEF Underway
  <2> QED
    BY <2>1, <2>2
<1>5. PageAt(k, n, items)
  BY <1>1, <1>4, PrimaryPages
<1>6. Len(rows[t]) = k
  <2> HIDE DEF s, n, k
  <2> QED
    BY <1>1, <1>4
<1>7. /\ items \in Seq(Row) /\ Len(items) = to - k /\ to \in k..n
      /\ rows[t] \o items = SubSeq(s, 1, to)
      /\ Len(rows[t]) + Len(items) = to /\ k + Len(items) = to
  BY <1>1, <1>4, <1>5, <1>6 DEF PageAt
<1>8. /\ ~ more => to = n
      /\ more => \/ upstream.has_more = "exact" /\ to < n
                 \/ upstream.has_more = "absent" /\ to = k + cap
                 \/ upstream.has_more = "always"
  <2>1. more <=> \/ upstream.has_more = "always"
                 \/ upstream.has_more = "exact" /\ to < n
                 \/ upstream.has_more = "absent" /\ to - k >= PageSize
    BY <1>7 DEF HasMore
  <2> HIDE DEF more, n, k, cap
  <2>2. k + cap \in Int /\ n \in Int
    BY <1>1, <1>2, <1>4
  <2>3. to <= k + cap /\ (to = k + cap \/ to = n)
    BY <2>2, LeastProperties
  <2>4. n \in Int /\ k \in Int /\ to \in Int /\ to <= n /\ cap \in Int
    BY <1>1, <1>2, <1>4, <1>7
  <2> HIDE DEF to
  <2>5. ~ more => to = n
    BY <1>2, <2>1, <2>3, <2>4
  <2>6. more => \/ upstream.has_more = "exact" /\ to < n
                \/ upstream.has_more = "absent" /\ to = k + cap
                \/ upstream.has_more = "always"
    BY <1>2, <2>1, <2>3, <2>4
  <2> QED
    BY <2>5, <2>6
<1>9. (Len(pages[t]) + 1) * cap = taken + cap
  <2> HIDE DEF cap
  <2> QED
    BY <1>2, <1>3, OneMore
<1>10. items = <<>> <=> to = k
  BY <1>1, <1>4, <1>7
<1>11. k < n => k = taken
  BY <1>1, <1>3, <1>4 DEF Least
<1>12. to <= k + cap /\ (to = k + cap \/ to = n)
  <2>1. k + cap \in Int /\ n \in Int
    BY <1>1, <1>2, <1>4
  <2> HIDE DEF k, cap, n
  <2> QED
    BY <2>1, LeastProperties
<1> HIDE DEF items, more, n, k, cap, s, to, taken
<1>13. /\ k \in Int /\ to \in Int /\ n \in Int /\ taken \in Int /\ cap \in Int /\ MaxRows \in Int
       /\ 0 <= k /\ k <= to /\ to <= n
  BY <1>1, <1>2, <1>3, <1>4, <1>7
<1>14. /\ verdict \in {"repeated", "limit", "complete", "empty", "next"}
       /\ verdict = "complete" => ~ more /\ ~ (to > MaxRows)
       /\ verdict = "next" => more /\ ~ (to >= MaxRows) /\ items # <<>>
       /\ verdict = "limit" => \/ to > MaxRows
                               \/ more /\ to >= MaxRows
                               \/ more /\ items # <<>> /\ Len(pages[t]) + 1 = MaxPages
  BY <1>7 DEF Verdict
<1> HIDE DEF verdict
<1>15. verdict = "complete" => /\ rows[t] \o items = s
                               /\ Len(rows[t] \o items) <= MaxRows
  BY <1>1, <1>2, <1>7, <1>8, <1>14
<1>16. ASSUME verdict = "next"
       PROVE  to \in 1..n /\ to < MaxRows /\ to = Least(taken + cap, n)
  <2>1. k < n /\ to > k
    BY <1>10, <1>14, <1>16, <1>13
  <2>2. to < MaxRows /\ to >= 1
    BY <1>14, <1>16, <1>13, <2>1
  <2> QED
    BY <1>7, <1>11, <2>1, <2>2 DEF to
<1>17. ASSUME verdict = "limit" PROVE TooLarge("PRIMARY")
  <2>1. CASE to > MaxRows
    <3>1. n > MaxRows
      BY <1>13, <2>1
    <3> QED
      BY <3>1 DEF TooLarge, n
  <2>2. CASE more /\ to >= MaxRows
    <3>1. n > MaxRows \/ (n = MaxRows /\ to = n)
      BY <1>13, <2>2
    <3>2. n = MaxRows /\ to = n => upstream.has_more # "exact"
      BY <1>8, <1>13, <2>2
    <3> QED
      BY <3>1, <3>2 DEF TooLarge, n
  <2>3. CASE more /\ items # <<>> /\ Len(pages[t]) + 1 = MaxPages
    <3>1. k < n /\ k = taken
      BY <1>10, <1>11, <1>13, <2>3
    <3>2. MaxPages * cap = taken + cap /\ (MaxPages - 1) * cap = taken
      <4>1. MaxPages - 1 = Len(pages[t])
        BY <1>3, <2>3
      <4> QED
        BY <1>9, <2>3, <4>1 DEF taken
    <3>3. CASE upstream.has_more = "always"
      BY <3>1, <3>2, <3>3 DEF TooLarge, n, cap
    <3>4. CASE upstream.has_more = "absent"
      <4>1. n >= taken + cap
        BY <1>8, <1>13, <2>3, <3>1, <3>4
      <4>2. n > taken + cap \/ n = taken + cap
        BY <1>13, <4>1
      <4> QED
        BY <3>2, <3>4, <4>2 DEF TooLarge, n, cap
    <3>5. CASE upstream.has_more = "exact"
      <4>1. n > taken + cap
        BY <1>8, <1>12, <1>13, <2>3, <3>1, <3>5
      <4> QED
        BY <3>2, <4>1 DEF TooLarge, n, cap
    <3> QED
      BY <1>2, <3>3, <3>4, <3>5
  <2> QED
    BY <1>14, <1>17, <2>1, <2>2, <2>3
<1>18. upstream.ignores => items = Items("PRIMARY", 0)
  BY DEF Underway, First, items, k
<1>19. PageDone(t, "PRIMARY", items, verdict)
  <2>1. verdict \in Outcomes \cup {"next"}
    BY <1>14 DEF Outcomes
  <2>2. verdict = "next" => k + Len(items) = to
    BY <1>7
  <2>3. verdict = "next" =>
          /\ to \in 1..upstream.total["PRIMARY"] /\ to < MaxRows
          /\ to = Least((Len(pages[t]) + 1) * upstream.cap, upstream.total["PRIMARY"])
          /\ rows[t] \o items = SubSeq(Snapshot("PRIMARY"), 1, to)
    BY <1>7, <1>9, <1>16 DEF n, cap, s
  <2>4. verdict = "complete" => /\ rows[t] \o items = Snapshot("PRIMARY")
                                /\ Len(rows[t] \o items) <= MaxRows
    BY <1>15 DEF s
  <2> QED
    BY <1>7, <1>17, <1>18, <2>1, <2>2, <2>3, <2>4 DEF PageDone, k
<1> QED
  BY <1>19 DEF items, more, verdict, k

-----------------------------------------------------------------------------
(* The calls.                                                              *)

PagingTyped ==
  /\ upstream \in Upstreams
  /\ rows \in [Task -> Seq(Row)]
  /\ pages \in [Task -> Seq(Seq(Row))]
  /\ source \in [Task -> Answers]
  /\ outcome \in [Task -> Outcomes]

\* A call has nothing yet or the beginning of the primary's snapshot, and ends with
\* all of a snapshot or with a reason.
CallInv(t) ==
  /\ state[t] = "answered" => answer[t] # NoAnswer
  /\ state[t] = "idle" => Fresh(t)
  /\ state[t] \in Awaiting \cup {"answered"} => (Fresh(t) /\ key[t] = 0) \/ Underway(t)
  /\ outcome[t] # "none" => state[t] = "done"
  /\ outcome[t] = "complete" => /\ rows[t] = Snapshot(source[t].provider)
                                /\ Len(rows[t]) <= MaxRows
  /\ outcome[t] = "limit" => TooLarge(source[t].provider)

PagingInv == PagingTyped /\ \A t \in Task : CallInv(t)

\* What the router's steps do to a call: it goes on, has an answer or gives up.
Moves(u) ==
  \/ state'[u] = state[u] /\ answer'[u] = answer[u]
  \/ /\ state[u] \in Awaiting
     /\ state'[u] \in Awaiting \cup {"answered", "unavailable", "cancelled"}
     /\ state'[u] = "answered" => answer'[u] # NoAnswer

LEMMA ReleaseMoves ==
  ASSUME RouteInv, NEW t \in Task, NEW s \in {"answered", "unavailable", "cancelled"},
         state[t] \in InCriticalSection, Release(t, s),
         \/ answer' = answer /\ s # "answered"
         \/ \E a \in {Cached, Backup} : answer' = [answer EXCEPT ![t] = a]
  PROVE  \A u \in Task : Moves(u)
<1> DEFINE w == waiters[key[t]]
<1>1. /\ key[t] \in Key /\ w \in Seq(Task) /\ state \in [Task -> States]
      /\ answer \in [Task -> {NoAnswer, Primary, Backup, Cached}]
      /\ state[t] \in Awaiting /\ {"waiting", "recheck"} \subseteq Awaiting
      /\ "recheck" # "answered"
  BY DEF RouteInv, RoutingTyped, Awaiting, InCriticalSection
<1>2. /\ \A u \in Task \ {t} : answer'[u] = answer[u]
      /\ s = "answered" => answer'[t] # NoAnswer
  BY <1>1 DEF Cached, Backup, NoAnswer
<1>3. CASE w = <<>>
  <2>1. state' = [state EXCEPT ![t] = s]
    BY <1>3 DEF Release, Goto
  <2> QED
    BY <1>1, <1>2, <2>1 DEF Moves
<1>4. CASE w # <<>>
  <2> DEFINE h == Head(w)
  <2>1. h \in Task /\ state[h] = "waiting"
    <3>1. 1 \in 1..Len(w) /\ h = w[1]
      BY <1>1, <1>4, TailShrinks
    <3> QED
      BY <1>1, <3>1 DEF RouteInv, LockInv, Queued
  <2>2. state' = [state EXCEPT ![t] = s, ![h] = "recheck"]
    BY <1>4 DEF Release
  <2>3. h # t
    BY <2>1 DEF InCriticalSection
  <2> HIDE DEF h
  <2>4. /\ state'[t] = s /\ state'[h] = "recheck"
        /\ \A u \in Task \ {t, h} : state'[u] = state[u]
    BY <1>1, <2>1, <2>2, <2>3
  <2>5. Moves(t)
    BY <1>1, <1>2, <2>4 DEF Moves
  <2>6. Moves(h)
    BY <1>1, <2>1, <2>4 DEF Moves
  <2>7. \A u \in Task \ {t, h} : Moves(u)
    BY <1>2, <2>4 DEF Moves
  <2> QED
    BY <2>5, <2>6, <2>7
<1> QED
  BY <1>3, <1>4

\* A step that gives no lock back moves one task.
LEMMA GotoMoves ==
  ASSUME RouteInv, NEW t \in Task, NEW s, state[t] \in Awaiting, Goto(t, s),
         s \in Awaiting \cup {"answered", "unavailable", "cancelled"},
         \/ answer' = answer /\ s # "answered"
         \/ \E a \in {Primary, Cached} : answer' = [answer EXCEPT ![t] = a]
  PROVE  \A u \in Task : Moves(u)
<1>1. /\ state'[t] = s /\ \A u \in Task \ {t} : state'[u] = state[u]
      /\ \A u \in Task \ {t} : answer'[u] = answer[u]
      /\ s = "answered" => answer'[t] # NoAnswer
  BY DEF RouteInv, RoutingTyped, Goto, Cached, Primary, NoAnswer
<1> QED
  BY <1>1 DEF Moves

LEMMA RouteMoves ==
  ASSUME RouteInv, NEW t \in Task, Route(t) \/ Cancel(t)
  PROVE  key' = key /\ \A u \in Task : Moves(u)
<1>1. /\ InCriticalSection \subseteq Awaiting
      /\ {"primary", "lookup", "acquire", "waiting"} \subseteq Awaiting
      /\ {"recheck", "backup", "put"} \subseteq InCriticalSection
      /\ "answered" \notin Awaiting
  BY DEF Awaiting, InCriticalSection
<1>2. key' = key
  BY DEF Route, PrimaryAnswers, PrimaryFails, Lookup, Acquire, Recheck, BackupAnswers,
         BackupFails, Put, Cancel
<1>3. CASE PrimaryAnswers(t) \/ PrimaryFails(t)
  BY <1>1, <1>3, GotoMoves DEF PrimaryAnswers, PrimaryFails, Reply
<1>4. CASE Lookup(t)
  BY <1>1, <1>4, GotoMoves DEF Lookup, Reply
<1>5. CASE Acquire(t)
  BY <1>1, <1>5, GotoMoves DEF Acquire
<1>6. CASE Recheck(t)
  <2>1. CASE Live(key[t])
    BY <1>1, <1>6, <2>1, ReleaseMoves DEF Recheck
  <2>2. CASE ~ Live(key[t])
    BY <1>1, <1>6, <2>2, GotoMoves DEF Recheck
  <2> QED
    BY <2>1, <2>2
<1>7. CASE BackupAnswers(t)
  BY <1>1, <1>7, GotoMoves DEF BackupAnswers
<1>8. CASE BackupFails(t) \/ Put(t)
  BY <1>1, <1>8, ReleaseMoves DEF BackupFails, Put
<1>9. CASE Cancel(t)
  BY <1>1, <1>9, ReleaseMoves, GotoMoves DEF Cancel
<1> QED
  BY <1>2, <1>3, <1>4, <1>5, <1>6, <1>7, <1>8, <1>9 DEF Route

\* The router's steps leave what a call has.
LEMMA MovesKeepCalls ==
  ASSUME PagingInv, key' = key, UNCHANGED <<upstream, callVars>>, \A u \in Task : Moves(u)
  PROVE  PagingInv'
<1>1. PagingTyped'
  BY DEF PagingInv, PagingTyped, callVars
<1>2. ASSUME NEW u \in Task PROVE CallInv(u)'
  <2>1. CallInv(u) /\ Moves(u) /\ {"answered", "idle", "done"} \cap Awaiting = {}
    BY DEF PagingInv, Awaiting, InCriticalSection
  <2>2. Fresh(u)' <=> Fresh(u)
    BY DEF Fresh, callVars
  <2>3. Underway(u)' <=> Underway(u)
    BY DEF Underway, Snapshot, Items, First, Least, callVars
  <2>4. TooLarge(source[u].provider)' <=> TooLarge(source[u].provider)
    BY DEF TooLarge, callVars
  <2>5. /\ state'[u] = "answered" => answer'[u] # NoAnswer
        /\ state'[u] = "idle" => state[u] = "idle"
        /\ state'[u] \in Awaiting \cup {"answered"} => state[u] \in Awaiting \cup {"answered"}
        /\ state[u] = "done" => state'[u] = "done"
    BY <2>1 DEF CallInv, Moves
  <2>6. outcome'[u] = "complete" => /\ rows'[u] = Snapshot(source[u].provider)'
                                    /\ Len(rows'[u]) <= MaxRows
    BY <2>1 DEF CallInv, Snapshot, callVars
  <2> QED
    BY <2>1, <2>2, <2>3, <2>4, <2>5, <2>6 DEF CallInv, callVars
<1> QED
  BY <1>1, <1>2 DEF PagingInv

\* An answer of the primary server is told by its provider.
LEMMA Providers ==
  ASSUME NEW a \in {Primary, Backup, Cached}
  PROVE  a.provider \in {"PRIMARY", "BACKUP"} /\ (a.provider = "PRIMARY" => a = Primary)
<1>1. CASE a = Primary
  BY <1>1 DEF Primary
<1>2. CASE a = Backup
  BY <1>2 DEF Backup
<1>3. CASE a = Cached
  BY <1>3 DEF Cached
<1> QED
  BY <1>1, <1>2, <1>3

\* The page a call has got, whoever sent it.
LEMMA AnyPage ==
  ASSUME RouteInv, PagingInv, NEW t \in Task, state[t] = "answered", ~ Switched(t)
  PROVE  /\ answer[t] \in {Primary, Backup, Cached}
         /\ PageDone(t, answer[t].provider, Items(answer[t].provider, key[t]),
                     Verdict(t, Items(answer[t].provider, key[t]),
                             HasMore(answer[t].provider, key[t]),
                             Len(rows[t]) + Len(Items(answer[t].provider, key[t]))))
<1>1. /\ answer[t] \in {Primary, Backup, Cached} /\ upstream \in Upstreams
      /\ pages[t] \in Seq(Seq(Row))
      /\ (Fresh(t) /\ key[t] = 0) \/ Underway(t)
  BY DEF RouteInv, RoutingTyped, PagingInv, PagingTyped, CallInv
<1>2. /\ answer[t].provider \in {"PRIMARY", "BACKUP"}
      /\ answer[t].provider = "PRIMARY" => answer[t] = Primary
  BY <1>1, Providers
<1>3. CASE Fresh(t) /\ key[t] = 0
  <2>1. CASE answer[t].provider = "BACKUP" \/ ~ upstream.paged
    BY <1>1, <1>2, <1>3, <2>1, WholeAnswer
  <2>2. CASE answer[t].provider = "PRIMARY" /\ upstream.paged
    <3>1. First(key[t]) = key[t]
      BY <1>3 DEF First
    <3> QED
      BY <1>1, <1>3, <2>2, <3>1, NewPage
  <2> QED
    BY <1>1, <1>2, <2>1, <2>2
<1>4. CASE Underway(t)
  <2>1. upstream.paged /\ answer[t] = Primary /\ answer[t].provider = "PRIMARY"
    BY <1>4 DEF Underway, Switched, Primary, NoAnswer
  <2>2. CASE upstream.ignores
    <3>1. PageDone(t, "PRIMARY", Items("PRIMARY", key[t]),
                   Verdict(t, Items("PRIMARY", key[t]), HasMore("PRIMARY", key[t]),
                           Len(rows[t]) + Len(Items("PRIMARY", key[t]))))
      BY <1>1, <1>4, <2>2, SamePage DEF PageDone, Outcomes
    <3> QED
      BY <1>1, <2>1, <3>1
  <2>3. CASE ~ upstream.ignores
    <3>1. First(key[t]) = key[t]
      BY <2>3 DEF First
    <3>2. PageDone(t, "PRIMARY", Items("PRIMARY", key[t]),
                   Verdict(t, Items("PRIMARY", key[t]), HasMore("PRIMARY", key[t]),
                           Len(rows[t]) + Len(Items("PRIMARY", key[t]))))
      BY <1>1, <1>4, <2>1, <2>3, <3>1, NewPage
    <3> QED
      BY <1>1, <2>1, <3>2
  <2> QED
    BY <2>2, <2>3
<1> QED
  BY <1>1, <1>3, <1>4

\* Nothing happens to a call.
LEMMA OthersKeep ==
  ASSUME NEW u \in Task, CallInv(u), upstream' = upstream, state'[u] = state[u],
         key'[u] = key[u], answer'[u] = answer[u], rows'[u] = rows[u], pages'[u] = pages[u],
         source'[u] = source[u], outcome'[u] = outcome[u]
  PROVE  CallInv(u)'
<1>1. Fresh(u)' <=> Fresh(u)
  BY DEF Fresh
<1>2. Underway(u)' <=> Underway(u)
  BY DEF Underway, Snapshot, Items, First, Least
<1>3. TooLarge(source[u].provider)' <=> TooLarge(source[u].provider)
  BY DEF TooLarge
<1>4. Snapshot(source[u].provider)' = Snapshot(source[u].provider)
  BY DEF Snapshot
<1> QED
  BY <1>1, <1>2, <1>3, <1>4 DEF CallInv

LEMMA StartInv ==
  ASSUME RouteInv, PagingInv, NEW t \in Task, Start(t)
  PROVE  RouteInv' /\ PagingInv'
<1>1. /\ state[t] = "idle" /\ Goto(t, "primary") /\ key' = [key EXCEPT ![t] = 0]
      /\ answer' = [answer EXCEPT ![t] = NoAnswer]
      /\ UNCHANGED <<expires, holder, waiters, now, upstream, rows, pages, source, outcome>>
      /\ "idle" \in Outside /\ "primary" \in Outside
  BY DEF Start, Ask, callVars, Outside, States, Awaiting, InCriticalSection
<1>2. RouteInv'
  <2>1. /\ answer' \in [Task -> {NoAnswer, Primary, Backup, Cached}] /\ 0 \in Key
        /\ expires' \in [Key -> Nat] /\ \A j \in Key : expires'[j] <= expires[j]
    BY <1>1, KeysAreNumbers DEF RouteInv, RoutingTyped
  <2> QED
    BY <1>1, <2>1, PlainStep
<1>3. PagingInv'
  <2>1. PagingTyped'
    BY <1>1 DEF PagingInv, PagingTyped
  <2>2. /\ state'[t] = "primary" /\ key'[t] = 0
        /\ \A u \in Task \ {t} : state'[u] = state[u] /\ key'[u] = key[u] /\ answer'[u] = answer[u]
    BY <1>1 DEF RouteInv, RoutingTyped, Goto
  <2>3. \A u \in Task \ {t} : CallInv(u)'
    BY <1>1, <2>2, OthersKeep DEF PagingInv
  <2>4. Fresh(t)'
    BY <1>1 DEF PagingInv, CallInv, Fresh
  <2>5. outcome'[t] = "none"
    BY <1>1 DEF PagingInv, CallInv
  <2>6. CallInv(t)'
    BY <2>2, <2>4, <2>5 DEF CallInv
  <2> QED
    BY <2>1, <2>3, <2>6 DEF PagingInv
<1> QED
  BY <1>2, <1>3

LEMMA NextPageInv ==
  ASSUME RouteInv, PagingInv, NEW t \in Task, NextPage(t)
  PROVE  RouteInv' /\ PagingInv'
<1> DEFINE s == answer[t].provider
           items == Items(s, key[t])
           verdict == Verdict(t, items, HasMore(s, key[t]), Len(rows[t]) + Len(items))
           k == key[t] + Len(items)
<1>1. /\ state[t] = "answered" /\ upstream' = upstream
      /\ "answered" \in Outside /\ "done" \in Outside /\ "primary" \in Outside
      /\ "done" \notin Awaiting \cup {"answered"}
  BY DEF NextPage, Outside, States, Awaiting, InCriticalSection
<1>2. /\ upstream \in Upstreams /\ rows \in [Task -> Seq(Row)] /\ outcome[t] = "none"
      /\ pages \in [Task -> Seq(Seq(Row))] /\ source \in [Task -> Answers]
      /\ outcome \in [Task -> Outcomes]
  BY <1>1 DEF PagingInv, PagingTyped, CallInv
<1>3. /\ state \in [Task -> States] /\ key \in [Task -> Key] /\ expires \in [Key -> Nat]
      /\ answer \in [Task -> {NoAnswer, Primary, Backup, Cached}]
      /\ \A j \in Key : expires[j] <= expires[j]
  BY DEF RouteInv, RoutingTyped
<1>4. ASSUME NEW how \in Outcomes, Finish(t, how) PROVE RouteInv'
  <2>1. key' = [key EXCEPT ![t] = key[t]] /\ key[t] \in Key
    BY <1>3, <1>4 DEF Finish
  <2> QED
    BY <1>1, <1>3, <1>4, <2>1, PlainStep DEF Finish
<1>5. CASE Switched(t)
  <2>1. Finish(t, "switched") /\ UNCHANGED <<rows, pages, source>> /\ "switched" \in Outcomes
    BY <1>5 DEF NextPage, Outcomes
  <2>2. /\ outcome' = [outcome EXCEPT ![t] = "switched"] /\ UNCHANGED <<key, answer>>
        /\ state' = [state EXCEPT ![t] = "done"]
    BY <2>1 DEF Finish, Goto
  <2>3. PagingTyped'
    BY <1>1, <1>2, <2>1, <2>2 DEF PagingTyped
  <2>4. CallInv(t)'
    <3>1. state'[t] = "done" /\ outcome'[t] = "switched"
      BY <1>2, <1>3, <2>2
    <3> QED
      BY <1>1, <3>1 DEF CallInv
  <2>5. \A u \in Task \ {t} : CallInv(u)'
    <3>1. \A u \in Task \ {t} : state'[u] = state[u] /\ outcome'[u] = outcome[u]
      BY <1>2, <1>3, <2>2
    <3> QED
      BY <1>1, <2>1, <2>2, <3>1, OthersKeep DEF PagingInv
  <2> QED
    BY <1>4, <2>1, <2>3, <2>4, <2>5 DEF PagingInv
<1>6. CASE ~ Switched(t)
  <2>1. answer[t] \in {Primary, Backup, Cached} /\ PageDone(t, s, items, verdict)
    BY <1>1, <1>6, AnyPage
  <2>2. /\ rows' = [rows EXCEPT ![t] = rows[t] \o items]
        /\ pages' = [pages EXCEPT ![t] = Append(pages[t], items)]
        /\ source' = [source EXCEPT ![t] = answer[t]]
        /\ IF verdict = "next" THEN Ask(t, k) /\ UNCHANGED outcome ELSE Finish(t, verdict)
    BY <1>6 DEF NextPage
  <2> HIDE DEF verdict, items
  <2>3. /\ items \in Seq(Row) /\ verdict \in Outcomes \cup {"next"}
        /\ answer[t] \in Answers
    BY <1>3, <2>1 DEF PageDone, Answers
  <2>4. /\ rows[t] \o items \in Seq(Row) /\ Append(pages[t], items) \in Seq(Seq(Row))
        /\ Len(pages[t]) \in Nat /\ Len(Append(pages[t], items)) = Len(pages[t]) + 1
        /\ Append(pages[t], items)[Len(pages[t]) + 1] = items
        /\ Len(pages[t]) + 1 \in DOMAIN Append(pages[t], items)
    BY <1>2, <2>3
  <2>5. /\ rows' \in [Task -> Seq(Row)] /\ pages' \in [Task -> Seq(Seq(Row))]
        /\ source' \in [Task -> Answers]
        /\ rows'[t] = rows[t] \o items /\ pages'[t] = Append(pages[t], items)
        /\ source'[t] = answer[t]
        /\ \A u \in Task \ {t} : rows'[u] = rows[u] /\ pages'[u] = pages[u] /\ source'[u] = source[u]
    BY <1>2, <2>2, <2>3, <2>4
  <2>6. Snapshot("PRIMARY")' = Snapshot("PRIMARY")
    BY <1>1 DEF Snapshot
  <2>7. CASE verdict # "next"
    <3>1. Finish(t, verdict) /\ verdict \in Outcomes
      BY <2>2, <2>3, <2>7
    <3>2. /\ outcome' = [outcome EXCEPT ![t] = verdict] /\ UNCHANGED <<key, answer>>
          /\ state' = [state EXCEPT ![t] = "done"]
      BY <3>1 DEF Finish, Goto
    <3>3. PagingTyped'
      BY <1>1, <1>2, <2>5, <3>1, <3>2 DEF PagingTyped
    <3>4. CallInv(t)'
      <4>1. state'[t] = "done" /\ outcome'[t] = verdict /\ source'[t].provider = s
        BY <1>2, <1>3, <2>5, <3>2
      <4>2. verdict = "complete" => rows'[t] = Snapshot(s) /\ Len(rows'[t]) <= MaxRows
        BY <2>1, <2>5 DEF PageDone
      <4>3. verdict = "limit" => TooLarge(s)
        BY <2>1 DEF PageDone
      <4>4. verdict = "complete" => rows'[t] = Snapshot(source[t].provider)'
        BY <1>1, <4>1, <4>2 DEF Snapshot
      <4>5. verdict = "limit" => TooLarge(source[t].provider)'
        BY <1>1, <4>1, <4>3 DEF TooLarge
      <4> QED
        BY <1>1, <4>1, <4>2, <4>4, <4>5 DEF CallInv
    <3>5. \A u \in Task \ {t} : CallInv(u)'
      <4>1. \A u \in Task \ {t} : state'[u] = state[u] /\ outcome'[u] = outcome[u]
        BY <1>2, <1>3, <3>2
      <4> QED
        BY <1>1, <2>5, <3>2, <4>1, OthersKeep DEF PagingInv
    <3> QED
      BY <1>4, <3>1, <3>3, <3>4, <3>5 DEF PagingInv
  <2>8. CASE verdict = "next"
    <3>1. Ask(t, k) /\ outcome' = outcome
      BY <2>2, <2>8
    <3>2. /\ s = "PRIMARY" /\ upstream.paged
          /\ k \in 1..upstream.total["PRIMARY"] /\ k < MaxRows
          /\ k = Least((Len(pages[t]) + 1) * upstream.cap, upstream.total["PRIMARY"])
          /\ rows[t] \o items = SubSeq(Snapshot("PRIMARY"), 1, k)
          /\ upstream.ignores => items = Items("PRIMARY", 0)
      BY <2>1, <2>8 DEF PageDone
    <3>3. answer[t] = Primary
      BY <2>1, <3>2, Providers
    <3>4. k \in Key
      <4>1. upstream.total["PRIMARY"] \in Nat
        BY <1>2, SnapshotRows
      <4> HIDE DEF k
      <4> QED
        BY <3>2, <4>1, PagingAssumption
    <3> HIDE DEF k
    <3>5. /\ Goto(t, "primary") /\ key' = [key EXCEPT ![t] = k]
          /\ answer' = [answer EXCEPT ![t] = NoAnswer]
          /\ UNCHANGED <<expires, holder, waiters, now>>
      BY <3>1 DEF Ask
    <3>6. RouteInv'
      <4>1. answer' \in [Task -> {NoAnswer, Primary, Backup, Cached}]
        BY <1>3, <3>5
      <4> QED
        BY <1>1, <1>3, <3>4, <3>5, <4>1, PlainStep
    <3>7. PagingTyped'
      BY <1>1, <1>2, <2>5, <3>1 DEF PagingTyped
    <3>8. /\ state'[t] = "primary" /\ key'[t] = k
          /\ \A u \in Task \ {t} : state'[u] = state[u] /\ key'[u] = key[u] /\ answer'[u] = answer[u]
      BY <1>3, <3>5 DEF Goto
    <3>9. Underway(t)'
      <4>1. /\ source'[t] = Primary /\ upstream'.paged
            /\ key'[t] \in 1..upstream'.total["PRIMARY"]
        BY <1>1, <2>5, <3>2, <3>3, <3>8
      <4>2. key'[t] = Least(Len(pages'[t]) * upstream'.cap, upstream'.total["PRIMARY"])
        BY <1>1, <2>4, <2>5, <3>2, <3>8
      <4>3. rows'[t] = SubSeq(Snapshot("PRIMARY")', 1, key'[t])
        BY <2>5, <2>6, <3>2, <3>8
      <4>4. upstream'.ignores => \E n \in DOMAIN pages'[t] : pages'[t][n] = Items("PRIMARY", 0)'
        <5>1. Items("PRIMARY", 0)' = Items("PRIMARY", 0)
          BY <1>1 DEF Items, Snapshot, First, Least
        <5> QED
          BY <1>1, <2>4, <2>5, <3>2, <5>1
      <4> QED
        BY <4>1, <4>2, <4>3, <4>4 DEF Underway, Least
    <3>10. CallInv(t)'
      BY <1>2, <3>1, <3>8, <3>9 DEF CallInv
    <3>11. \A u \in Task \ {t} : CallInv(u)'
      BY <1>1, <2>5, <3>1, <3>8, OthersKeep DEF PagingInv
    <3> QED
      BY <3>6, <3>7, <3>10, <3>11 DEF PagingInv
  <2> QED
    BY <2>7, <2>8
<1> QED
  BY <1>5, <1>6

-----------------------------------------------------------------------------
(* The invariant of the specification.                                     *)

Inv == RouteInv /\ PagingInv

LEMMA InvInit == Init => Inv
<1> SUFFICES ASSUME Init PROVE Inv
  OBVIOUS
<1>1. /\ state \in [Task -> {"idle", "done"}] /\ key \in [Task -> Key]
      /\ answer = [t \in Task |-> NoAnswer] /\ expires = [k \in Key |-> 0]
      /\ holder = [k \in Key |-> NoTask] /\ waiters = [k \in Key |-> <<>>] /\ now = 0
      /\ {"idle", "done"} \subseteq States
      /\ {"idle", "done"} \cap (Awaiting \cup {"answered"}) = {}
  BY DEF Init, RoutingInit, Never, States, Awaiting, InCriticalSection
<1>2. RoutingTyped
  BY <1>1 DEF RoutingTyped
<1>3. \A t \in Task : state[t] \notin Awaiting \cup {"answered"} /\ state[t] # "waiting"
  BY <1>1
<1>4. LockInv
  BY <1>1, <1>3 DEF LockInv, LockHeld, Queued, Awaiting
<1>5. NothingCached
  BY <1>1, <1>3 DEF NothingCached, Awaiting, InCriticalSection
<1>6. PagingTyped
  BY DEF Init, PagingTyped, Answers, Outcomes
<1>7. ASSUME NEW t \in Task PROVE CallInv(t)
  BY <1>3 DEF Init, CallInv, Fresh
<1> QED
  BY <1>2, <1>4, <1>5, <1>6, <1>7 DEF Inv, RouteInv, PagingInv

LEMMA InvStutters == ASSUME Inv, UNCHANGED vars PROVE Inv'
<1>1. /\ UNCHANGED <<state, key, answer, expires, holder, waiters, now>>
      /\ UNCHANGED <<upstream, callVars>> /\ UNCHANGED <<rows, pages, source, outcome>>
  BY DEF vars, routingVars, callVars
<1>2. RoutingTyped' /\ LockInv' /\ NothingCached'
  BY <1>1 DEF Inv, RouteInv, RoutingTyped, LockInv, LockHeld, Queued, NothingCached, Live
<1>3. PagingInv'
  BY <1>1, MovesKeepCalls DEF Inv, Moves
<1> QED
  BY <1>2, <1>3 DEF Inv, RouteInv

LEMMA InvNext == Inv /\ [Next]_vars => Inv'
<1> SUFFICES ASSUME Inv, [Next]_vars PROVE Inv'
  OBVIOUS
<1> USE DEF Inv
<1>1. ASSUME NEW t \in Task, Start(t) PROVE Inv'
  BY <1>1, StartInv
<1>2. ASSUME NEW t \in Task, NextPage(t) PROVE Inv'
  BY <1>2, NextPageInv
<1>3. ASSUME NEW t \in Task, RouteStep(t) PROVE Inv'
  BY <1>3, RouteSteps, RouteMoves, MovesKeepCalls DEF RouteStep
<1>4. ASSUME NEW t \in Task, CancelStep(t) PROVE Inv'
  BY <1>4, CancelInv, RouteMoves, MovesKeepCalls DEF CancelStep
<1>5. CASE TickStep
  <2>1. key' = key /\ \A u \in Task : Moves(u)
    BY <1>5 DEF TickStep, Tick, Moves
  <2> QED
    BY <1>5, <2>1, TickInv, MovesKeepCalls DEF TickStep
<1>6. CASE UNCHANGED vars
  BY <1>6, InvStutters
<1> QED
  BY <1>1, <1>2, <1>3, <1>4, <1>5, <1>6 DEF Next, Ended

LEMMA Invariant == Spec => []Inv
BY InvInit, InvNext, PTL DEF Spec

-----------------------------------------------------------------------------

\* Backup traffic is paid for once: whoever asks the backup server holds the lock of
\* the key, the cache has nothing, and no one else is past the lock, however many
\* callers there are and whoever of them fails or is cancelled.
THEOREM BackupIsPaidOnce == Spec => []BackupPaidOnce
<1>1. Inv => BackupPaidOnce
  <2> SUFFICES ASSUME Inv, NEW t \in Task, state[t] = "backup"
               PROVE  /\ holder[key[t]] = t
                      /\ ~ Live(key[t])
                      /\ \A u \in Task \ {t} : state[u] \in InCriticalSection => key[u] # key[t]
    BY DEF BackupPaidOnce
  <2> QED
    BY DEF Inv, RouteInv, LockInv, LockHeld, NothingCached, InCriticalSection
<1> QED
  BY <1>1, Invariant, PTL

\* No wake-up is lost: a task waits exactly if it is queued, once, at the lock of its
\* key, and behind a task that will give the lock back.
THEOREM NoWakeupIsLost == Spec => []NoLostWakeup
<1>1. Inv => NoLostWakeup
  <2> SUFFICES ASSUME Inv, NEW k \in Key
               PROVE  /\ \A t \in Task :
                           Cardinality({n \in DOMAIN waiters[k] : waiters[k][n] = t})
                             = IF state[t] = "waiting" /\ key[t] = k THEN 1 ELSE 0
                      /\ holder[k] = NoTask => waiters[k] = <<>>
                      /\ holder[k] # NoTask => /\ key[holder[k]] = k
                                               /\ state[holder[k]] \in InCriticalSection
    BY DEF NoLostWakeup
  <2>1. waiters[k] \in Seq(Task) /\ DOMAIN waiters[k] = 1..Len(waiters[k])
    BY DEF Inv, RouteInv, RoutingTyped
  <2>2. ASSUME NEW t \in Task
        PROVE  Cardinality({n \in DOMAIN waiters[k] : waiters[k][n] = t})
                 = IF state[t] = "waiting" /\ key[t] = k THEN 1 ELSE 0
    <3>1. CASE state[t] = "waiting" /\ key[t] = k
      <4>1. PICK n \in 1..Len(waiters[k]) : waiters[k][n] = t
        BY <3>1 DEF Inv, RouteInv, LockInv, Queued
      <4>2. {m \in DOMAIN waiters[k] : waiters[k][m] = t} = {n}
        BY <2>1, <4>1 DEF Inv, RouteInv, LockInv, Queued
      <4> QED
        BY <3>1, <4>2, FS_Singleton
    <3>2. CASE ~ (state[t] = "waiting" /\ key[t] = k)
      <4>1. {m \in DOMAIN waiters[k] : waiters[k][m] = t} = {}
        BY <2>1, <3>2 DEF Inv, RouteInv, LockInv, Queued
      <4> QED
        BY <3>2, <4>1, FS_EmptySet
    <3> QED
      BY <3>1, <3>2
  <2> QED
    BY <2>2 DEF Inv, RouteInv, LockInv, LockHeld
<1> QED
  BY <1>1, Invariant, PTL

\* A dataset is all of one snapshot or there is none, for every size of the dataset,
\* every limit of the service and every way in which the primary pages.
THEOREM AllOrNothing == Spec => []CompleteOrRefused
<1>1. Inv => CompleteOrRefused
  BY DEF Inv, PagingInv, CallInv, CompleteOrRefused
<1> QED
  BY <1>1, Invariant, PTL

\* A dataset is refused for its size only where it is too large or the service cannot
\* know that it is not.
THEOREM RefusedForSize == Spec => []LimitIsExact
<1>1. Inv => LimitIsExact
  <2> SUFFICES ASSUME Inv, NEW t \in Task, outcome[t] = "limit"
               PROVE  LET total == upstream.total[source[t].provider]
                      IN \/ total > MaxRows
                         \/ /\ source[t] = Primary
                            /\ \/ total > MaxPages * upstream.cap
                               \/ upstream.has_more # "exact" /\ total \in {MaxRows, MaxPages * upstream.cap}
                               \/ upstream.has_more = "always" /\ total > (MaxPages - 1) * upstream.cap
    BY DEF LimitIsExact
  <2>1. TooLarge(source[t].provider) /\ source[t] \in Answers
    BY DEF Inv, PagingInv, PagingTyped, CallInv
  <2>2. source[t].provider = "PRIMARY" => source[t] = Primary
    BY <2>1, Providers DEF Answers, NoAnswer
  <2> QED
    BY <2>1, <2>2 DEF TooLarge
<1> QED
  BY <1>1, Invariant, PTL
-----------------------------------------------------------------------------
(* Lines of queries.                                                       *)

\* A line of queries without repetition.
Line(w) ==
  /\ w \in Seq(Query)
  /\ \A m, n \in 1..Len(w) : w[m] = w[n] => m = n

Members(w) == {w[n] : n \in 1..Len(w)}

LEMMA RemovedAt ==
  ASSUME NEW w \in Seq(Query), NEW n \in 1..Len(w)
  PROVE  /\ RemoveAt(w, n) \in Seq(Query) /\ Len(RemoveAt(w, n)) = Len(w) - 1
         /\ \A j \in 1..(Len(w) - 1) : RemoveAt(w, n)[j] = IF j < n THEN w[j] ELSE w[j + 1]
<1> DEFINE a == SubSeq(w, 1, n - 1)
           b == SubSeq(w, n + 1, Len(w))
<1>1. /\ a \in Seq(Query) /\ Len(a) = n - 1 /\ \A j \in 1..(n - 1) : a[j] = w[j]
  <2>1. n - 1 \in 0..Len(w)
    OBVIOUS
  <2> QED
    BY <2>1, SubSeqProperties
<1>2. /\ b \in Seq(Query) /\ Len(b) = Len(w) - n /\ \A j \in 1..(Len(w) - n) : b[j] = w[n + j]
  OBVIOUS
<1> HIDE DEF a, b
<1>3. /\ a \o b \in Seq(Query) /\ Len(a \o b) = Len(a) + Len(b)
      /\ \A j \in 1..(Len(a) + Len(b)) : (a \o b)[j] = IF j <= Len(a) THEN a[j] ELSE b[j - Len(a)]
  BY <1>1, <1>2, ConcatProperties
<1>4. RemoveAt(w, n) = a \o b
  BY DEF RemoveAt, a, b
<1>5. Len(w) \in Nat /\ n \in Nat
  OBVIOUS
<1>6. Len(a \o b) = Len(w) - 1
  BY <1>1, <1>2, <1>3, <1>5
<1>7. ASSUME NEW j \in 1..(Len(w) - 1) PROVE (a \o b)[j] = IF j < n THEN w[j] ELSE w[j + 1]
  <2>1. CASE j < n
    BY <1>1, <1>2, <1>3, <1>5, <2>1
  <2>2. CASE ~ (j < n)
    <3>1. (a \o b)[j] = b[j - (n - 1)]
      BY <1>1, <1>2, <1>3, <1>5, <2>2
    <3>2. j - (n - 1) \in 1..(Len(w) - n) /\ n + (j - (n - 1)) = j + 1
      BY <1>5, <2>2
    <3> QED
      BY <1>2, <2>2, <3>1, <3>2
  <2> QED
    BY <2>1, <2>2
<1> QED
  BY <1>3, <1>4, <1>6, <1>7

\* A query leaves the line.
LEMMA RemovedFromLine ==
  ASSUME NEW w, Line(w), NEW q \in Query
  PROVE  /\ Line(RemoveFirst(w, q))
         /\ Members(RemoveFirst(w, q)) = Members(w) \ {q}
<1>1. CASE ~ \E i \in 1..Len(w) : w[i] = q
  <2>1. RemoveFirst(w, q) = w
    BY <1>1 DEF RemoveFirst
  <2> QED
    BY <1>1, <2>1 DEF Members
<1>2. CASE \E i \in 1..Len(w) : w[i] = q
  <2>1. PICK i \in 1..Len(w) : w[i] = q
    BY <1>2
  <2> DEFINE r == RemoveAt(w, i)
             place(j) == IF j < i THEN j ELSE j + 1
  <2>2. RemoveFirst(w, q) = r
    <3>1. {j \in 1..Len(w) : w[j] = q} = {i}
      BY <2>1 DEF Line
    <3>2. Min({i}) = i
      <4>1. i <= i
        OBVIOUS
      <4> QED
        BY <4>1 DEF Min
    <3>3. SelectInSeq(w, LAMBDA v : v = q) = i
      BY <3>1, <3>2 DEF SelectInSeq
    <3> QED
      BY <1>2, <3>3 DEF RemoveFirst
  <2>3. Len(w) \in Nat /\ i \in 1..Len(w) /\ w \in Seq(Query)
    BY DEF Line
  <2>4. /\ r \in Seq(Query) /\ Len(r) = Len(w) - 1
        /\ \A j \in 1..Len(r) : r[j] = w[place(j)]
    BY <2>3, RemovedAt
  <2> HIDE DEF r
  <2>5. \A j \in 1..Len(r) : place(j) \in 1..Len(w) /\ place(j) # i
    BY <2>3, <2>4
  <2>6. \A n \in 1..Len(w) : n # i => \E j \in 1..Len(r) : place(j) = n
    <3> SUFFICES ASSUME NEW n \in 1..Len(w), n # i PROVE \E j \in 1..Len(r) : place(j) = n
      OBVIOUS
    <3>1. CASE n < i
      <4>1. n \in 1..Len(r) /\ place(n) = n
        BY <2>3, <2>4, <3>1
      <4> QED
        BY <4>1
    <3>2. CASE n > i
      <4>1. n - 1 \in 1..Len(r) /\ place(n - 1) = n
        BY <2>3, <2>4, <3>2
      <4> QED
        BY <4>1
    <3> QED
      BY <2>3, <3>1, <3>2
  <2>7. \A m, n \in 1..Len(r) : place(m) = place(n) => m = n
    BY <2>3, <2>4
  <2> HIDE DEF place
  <2>8. Line(r)
    <3> SUFFICES ASSUME NEW m \in 1..Len(r), NEW n \in 1..Len(r), r[m] = r[n] PROVE m = n
      BY <2>4 DEF Line
    <3>1. w[place(m)] = w[place(n)]
      BY <2>4
    <3>2. place(m) = place(n)
      BY <2>5, <3>1 DEF Line
    <3> QED
      BY <2>7, <3>2
  <2>9. Members(r) \subseteq Members(w) \ {q}
    <3> SUFFICES ASSUME NEW j \in 1..Len(r) PROVE r[j] \in Members(w) /\ r[j] # q
      BY DEF Members
    <3>1. r[j] = w[place(j)] /\ place(j) \in 1..Len(w) /\ place(j) # i
      BY <2>4, <2>5
    <3> QED
      BY <2>1, <3>1 DEF Members, Line
  <2>10. Members(w) \ {q} \subseteq Members(r)
    <3> SUFFICES ASSUME NEW n \in 1..Len(w), w[n] # q PROVE w[n] \in Members(r)
      BY DEF Members
    <3>1. PICK j \in 1..Len(r) : place(j) = n
      BY <2>1, <2>6
    <3> QED
      BY <2>4, <3>1 DEF Members
  <2> QED
    BY <2>2, <2>8, <2>9, <2>10
<1> QED
  BY <1>1, <1>2

\* A line is cut after its first k queries.
LEMMA CutLine ==
  ASSUME NEW w, Line(w), NEW k \in 0..Len(w)
  PROVE  LET head == {w[i] : i \in 1..k}
             rest == SubSeq(w, k + 1, Len(w))
         IN /\ Line(rest) /\ Members(rest) = Members(w) \ head
            /\ IsFiniteSet(head) /\ Cardinality(head) = k /\ head \subseteq Members(w)
            /\ rest # <<>> => k < Len(w)
<1> DEFINE head == {w[i] : i \in 1..k}
           rest == SubSeq(w, k + 1, Len(w))
<1>1. w \in Seq(Query) /\ Len(w) \in Nat /\ k \in Nat /\ k <= Len(w)
  BY DEF Line
<1>2. /\ rest \in Seq(Query) /\ Len(rest) = Len(w) - k
      /\ \A j \in 1..(Len(w) - k) : rest[j] = w[k + j]
  BY <1>1
<1> HIDE DEF rest
<1>3. Line(rest)
  <2> SUFFICES ASSUME NEW m \in 1..(Len(w) - k), NEW n \in 1..(Len(w) - k), rest[m] = rest[n]
               PROVE  m = n
    BY <1>2 DEF Line
  <2>1. w[k + m] = w[k + n] /\ k + m \in 1..Len(w) /\ k + n \in 1..Len(w)
    BY <1>1, <1>2
  <2>2. k + m = k + n
    BY <2>1 DEF Line
  <2> QED
    BY <1>1, <2>2
<1>4. Members(rest) \subseteq Members(w) \ head
  <2> SUFFICES ASSUME NEW j \in 1..(Len(w) - k) PROVE rest[j] \in Members(w) /\ rest[j] \notin head
    BY <1>2 DEF Members
  <2>1. rest[j] = w[k + j] /\ k + j \in 1..Len(w) /\ k + j \notin 1..k
    BY <1>1, <1>2
  <2>2. \A i \in 1..k : i \in 1..Len(w) /\ i # k + j
    BY <1>1
  <2>3. \A i \in 1..k : w[i] # w[k + j]
    BY <2>1, <2>2 DEF Line
  <2> QED
    BY <2>1, <2>3 DEF Members
<1>5. Members(w) \ head \subseteq Members(rest)
  <2> SUFFICES ASSUME NEW n \in 1..Len(w), w[n] \notin head PROVE w[n] \in Members(rest)
    BY DEF Members
  <2>1. n \notin 1..k
    OBVIOUS
  <2>2. n - k \in 1..(Len(w) - k) /\ k + (n - k) = n
    BY <1>1, <2>1
  <2> QED
    BY <1>2, <2>2 DEF Members
<1>6. IsFiniteSet(head) /\ Cardinality(head) = k
  <2> DEFINE f == [i \in 1..k |-> w[i]]
  <2>1. f \in Bijection(1..k, head)
    <3>1. \A i, j \in 1..k : f[i] = f[j] => i = j
      <4>1. \A i \in 1..k : i \in 1..Len(w)
        BY <1>1
      <4> QED
        BY <4>1 DEF Line
    <3>2. f \in [1..k -> head]
      OBVIOUS
    <3>3. \A x \in head : \E i \in 1..k : f[i] = x
      OBVIOUS
    <3> QED
      BY <3>1, <3>2, <3>3 DEF Bijection, Injection, Surjection, IsInjective
  <2>2. ExistsBijection(1..k, head)
    BY <2>1 DEF ExistsBijection
  <2> QED
    BY <1>1, <2>2, FS_CountingElements, FS_NatBijection
<1>7. head \subseteq Members(w)
  BY <1>1 DEF Members
<1>8. rest # <<>> => k < Len(w)
  BY <1>1, <1>2
<1> QED
  BY <1>3, <1>4, <1>5, <1>6, <1>7, <1>8 DEF rest

-----------------------------------------------------------------------------
(* The invariant.                                                          *)

QueryStates == {"idle", "waiting", "woken", "awaiting"} \cup Settled
JobStates   == {"none", "delivered", "withdrawn"} \cup HoldsSlot

Typed ==
  /\ closed \in BOOLEAN /\ free \in Nat
  /\ query \in [Query -> QueryStates] /\ job \in [Query -> JobStates]

\* The line is of those who wait.
InLine == Line(queue) /\ Members(queue) = In({"waiting"})

\* Every slot is somewhere.
Counted == free + Cardinality(In({"woken"})) + Cardinality(Jobs(HoldsSlot)) = MaxWorkers

\* A query that has no slot yet has submitted nothing.
NotSubmitted == \A q \in Query : query[q] \in {"idle", "waiting", "woken"} => job[q] = "none"

\* No one waits for a free slot, unless a woken query will wake it.
NoneForgotten == free > 0 /\ queue # <<>> => In({"woken"}) # {}

ClosedQuiet == closed => Jobs({"queued"}) = {}

NewsInv == Typed /\ InLine /\ Counted /\ NotSubmitted /\ NoneForgotten /\ ClosedQuiet

LEMMA SubsetsFinite ==
  \A A \in SUBSET Query : IsFiniteSet(A) /\ Cardinality(A) \in Nat
BY WorkersAssumption, FS_Subset, FS_CardinalityType

\* q moves to s, and k others are woken with slots of the f that are free; if all
\* that can be are woken, or one at least, no one is forgotten.
WakesUp(n, f, q, s, k) ==
  /\ query' \in [Query -> QueryStates] /\ query'[q] = s
  /\ \A p \in Query \ {q} : \/ query'[p] = query[p]
                            \/ query[p] = "waiting" /\ query'[p] = "woken"
  /\ InLine'
  /\ k \in Nat /\ free' \in Nat /\ free' = f - k
  /\ Cardinality(In({"woken"}))' = Cardinality(In({"woken"}) \ {q}) + k
  /\ n = f \/ n > 0 => NoneForgotten'

LEMMA Wakes ==
  ASSUME NEW line, Line(line), NEW n \in Nat, NEW f \in Nat, n <= f,
         NEW q \in Query, NEW s \in QueryStates \ {"waiting", "woken"},
         query \in [Query -> QueryStates],
         Members(line) = In({"waiting"}) \ {q}, Wake(line, n, f, q, s)
  PROVE  WakesUp(n, f, q, s, Fewest(n, Len(line)))
<1> DEFINE k == Fewest(n, Len(line))
           head == {line[i] : i \in 1..k}
           rest == SubSeq(line, k + 1, Len(line))
<1>1. Len(line) \in Nat /\ line \in Seq(Query)
  BY DEF Line
<1>2. k \in 0..Len(line) /\ k <= n /\ (k < Len(line) => k = n)
  BY <1>1 DEF Fewest
<1>3. /\ queue' = rest /\ free' = f - k
      /\ query' = [p \in Query |-> IF p = q THEN s
                                   ELSE IF \E i \in 1..k : line[i] = p THEN "woken" ELSE query[p]]
  BY DEF Wake
<1>4. /\ Line(rest) /\ Members(rest) = Members(line) \ head
      /\ IsFiniteSet(head) /\ Cardinality(head) = k /\ head \subseteq Members(line)
      /\ rest # <<>> => k < Len(line)
  BY <1>2, CutLine
<1>5. \A p \in Query : p \in head <=> \E i \in 1..k : line[i] = p
  OBVIOUS
<1> HIDE DEF k, head, rest
<1>6. /\ query'[q] = s
      /\ \A p \in head : p \in Query /\ p # q /\ query[p] = "waiting" /\ query'[p] = "woken"
      /\ \A p \in Query \ ({q} \cup head) : query'[p] = query[p]
  <2>1. \A p \in head : p \in Query /\ p # q /\ query[p] = "waiting"
    BY <1>4 DEF In
  <2> QED
    BY <1>3, <1>5, <2>1
<1>7. query' \in [Query -> QueryStates]
  BY <1>3 DEF QueryStates
<1>8. InLine'
  <2>1. In({"waiting"})' = (In({"waiting"}) \ {q}) \ head
    BY <1>6 DEF In
  <2>2. queue' = rest
    BY <1>3
  <2> QED
    BY <1>4, <2>1, <2>2 DEF InLine
<1>9. In({"woken"})' = (In({"woken"}) \ {q}) \cup head
  BY <1>6 DEF In
<1>10. Cardinality(In({"woken"}))' = Cardinality(In({"woken"}) \ {q}) + k
  <2>1. (In({"woken"}) \ {q}) \cap head = {}
    BY <1>6 DEF In
  <2>2. IsFiniteSet(In({"woken"}) \ {q}) /\ Cardinality(In({"woken"}) \ {q}) \in Nat
    BY SubsetsFinite DEF In
  <2>3. Cardinality((In({"woken"}) \ {q}) \cup head)
          = Cardinality(In({"woken"}) \ {q}) + Cardinality(head) - Cardinality({})
    BY <1>4, <2>1, <2>2, FS_Union
  <2>4. k \in Nat
    BY <1>2
  <2> QED
    <3>1. Cardinality(In({"woken"}))' = Cardinality((In({"woken"}) \ {q}) \cup head)
      BY <1>9
    <3>2. Cardinality(head) = k /\ Cardinality({}) = 0
      BY <1>4, FS_EmptySet
    <3> QED
      BY <2>2, <2>3, <2>4, <3>1, <3>2
<1>11. free' \in Nat
  BY <1>1, <1>2, <1>3
<1>12. ASSUME n = f \/ n > 0 PROVE NoneForgotten'
  <2> SUFFICES ASSUME free' > 0, queue' # <<>> PROVE In({"woken"})' # {}
    BY DEF NoneForgotten
  <2>1. k = n
    BY <1>2, <1>3, <1>4, <1>12
  <2>2. k > 0
    BY <1>3, <1>12, <2>1
  <2>3. head # {}
    <3>1. k \in Nat
      BY <1>2
    <3> QED
      BY <1>4, <2>2, <3>1, FS_EmptySet
  <2> QED
    BY <1>9, <2>3
<1>13. \A p \in Query \ {q} : \/ query'[p] = query[p]
                              \/ query[p] = "waiting" /\ query'[p] = "woken"
  BY <1>6
<1>14. k \in Nat
  BY <1>2
<1>15. WakesUp(n, f, q, s, k)
  BY <1>3, <1>6, <1>7, <1>8, <1>10, <1>11, <1>12, <1>13, <1>14 DEF WakesUp
<1> QED
  BY <1>15 DEF k

-----------------------------------------------------------------------------
(* The steps.                                                              *)

LEMMA NewsInvInit == NewsInit => NewsInv
<1> SUFFICES ASSUME NewsInit PROVE NewsInv
  OBVIOUS
<1>1. Line(queue) /\ Members(queue) = {}
  BY DEF NewsInit, Line, Members
<1>2. In({"waiting"}) = {} /\ In({"woken"}) = {} /\ Jobs(HoldsSlot) = {}
  BY DEF NewsInit, In, Jobs, HoldsSlot
<1>3. Counted
  <2>1. free = MaxWorkers /\ Cardinality({}) = 0
    BY FS_EmptySet DEF NewsInit
  <2> QED
    BY <1>2, <2>1, WorkersAssumption DEF Counted
<1>4. Typed
  BY WorkersAssumption DEF NewsInit, Typed, QueryStates, JobStates
<1> QED
  BY <1>1, <1>2, <1>3, <1>4 DEF NewsInit, NewsInv, InLine, NotSubmitted, NoneForgotten, ClosedQuiet

\* The counts, when one query stops to be woken and one submission holds a slot or not.
LEMMA Counts ==
  ASSUME NEW q \in Query
  PROVE  /\ Cardinality(In({"woken"})) \in Nat /\ Cardinality(Jobs(HoldsSlot)) \in Nat
         /\ Cardinality(In({"woken"}) \ {q})
              = IF query[q] = "woken" THEN Cardinality(In({"woken"})) - 1
                ELSE Cardinality(In({"woken"}))
         /\ Cardinality(Jobs(HoldsSlot) \ {q})
              = IF job[q] \in HoldsSlot THEN Cardinality(Jobs(HoldsSlot)) - 1
                ELSE Cardinality(Jobs(HoldsSlot))
         /\ Cardinality(Jobs(HoldsSlot) \cup {q})
              = IF job[q] \in HoldsSlot THEN Cardinality(Jobs(HoldsSlot))
                ELSE Cardinality(Jobs(HoldsSlot)) + 1
<1>1. In({"woken"}) \in SUBSET Query /\ Jobs(HoldsSlot) \in SUBSET Query
  BY DEF In, Jobs
<1>2. IsFiniteSet(In({"woken"})) /\ IsFiniteSet(Jobs(HoldsSlot))
  BY <1>1, SubsetsFinite
<1>3. q \in In({"woken"}) <=> query[q] = "woken"
  BY DEF In
<1>4. q \in Jobs(HoldsSlot) <=> job[q] \in HoldsSlot
  BY DEF Jobs
<1> QED
  BY <1>1, <1>2, <1>3, <1>4, SubsetsFinite, FS_RemoveElement, FS_AddElement

\* Semaphore.acquire ends for q, which submits its work or gives the slots back.
LEMMA AcquireEndsInv ==
  ASSUME NewsInv, NEW q \in Query, query[q] \in {"waiting", "woken"}, closed' = closed,
         NEW s \in QueryStates \ {"idle", "waiting", "woken"}, NEW slots \in {0, 1},
         AcquireEnds(q, s, slots),
         \/ job' = job /\ (slots = 1 <=> query[q] = "woken")
         \/ /\ job' = [job EXCEPT ![q] = "queued"] /\ ~ closed
            /\ query[q] = "woken" /\ slots = 0
  PROVE  NewsInv'
<1> DEFINE line == RemoveFirst(queue, q)
           f == free + slots
           k == Fewest(f, Len(line))
<1>1. /\ closed \in BOOLEAN /\ free \in Nat /\ query \in [Query -> QueryStates]
      /\ job \in [Query -> JobStates] /\ job[q] = "none"
  BY DEF NewsInv, Typed, NotSubmitted
<1>2. Line(line) /\ Members(line) = In({"waiting"}) \ {q}
  BY RemovedFromLine DEF NewsInv, InLine
<1>3. f \in Nat /\ f <= f /\ Wake(line, f, f, q, s)
  BY <1>1 DEF AcquireEnds
<1> HIDE DEF line, f
<1>4. WakesUp(f, f, q, s, k)
  BY <1>1, <1>2, <1>3, Wakes
<1>5. k \in Nat /\ free' \in Nat /\ NoneForgotten'
  BY <1>4 DEF WakesUp
<1> HIDE DEF k
<1>6. job' \in [Query -> JobStates] /\ \A p \in Query \ {q} : job'[p] = job[p]
  BY <1>1 DEF JobStates, HoldsSlot
<1>7. NotSubmitted'
  BY <1>4, <1>6 DEF NewsInv, NotSubmitted, WakesUp
<1>8. ClosedQuiet'
  BY DEF NewsInv, ClosedQuiet, Jobs
<1>9. Counted'
  <2>1. free + Cardinality(In({"woken"})) + Cardinality(Jobs(HoldsSlot)) = MaxWorkers
    BY DEF NewsInv, Counted
  <2>2. /\ Cardinality(In({"woken"})) \in Nat /\ Cardinality(Jobs(HoldsSlot)) \in Nat
        /\ Cardinality(In({"woken"}) \ {q})
             = IF query[q] = "woken" THEN Cardinality(In({"woken"})) - 1
               ELSE Cardinality(In({"woken"}))
        /\ Cardinality(Jobs(HoldsSlot) \cup {q}) = Cardinality(Jobs(HoldsSlot)) + 1
    BY <1>1, Counts DEF HoldsSlot
  <2>3. free' = f - k /\ Cardinality(In({"woken"}))' = Cardinality(In({"woken"}) \ {q}) + k
    BY <1>4 DEF WakesUp
  <2>4. CASE job' = job /\ (slots = 1 <=> query[q] = "woken")
    <3>1. Jobs(HoldsSlot)' = Jobs(HoldsSlot)
      BY <2>4 DEF Jobs
    <3>2. free' + Cardinality(In({"woken"}))' + Cardinality(Jobs(HoldsSlot)) = MaxWorkers
      BY <1>1, <1>5, <2>1, <2>2, <2>4, <2>3 DEF f
    <3> QED
      BY <3>1, <3>2 DEF Counted
  <2>5. CASE job' = [job EXCEPT ![q] = "queued"] /\ query[q] = "woken" /\ slots = 0
    <3>1. Jobs(HoldsSlot)' = Jobs(HoldsSlot) \cup {q}
      BY <1>1, <2>5 DEF Jobs, HoldsSlot
    <3>2. Cardinality(Jobs(HoldsSlot))' = Cardinality(Jobs(HoldsSlot)) + 1
      BY <2>2, <3>1
    <3>3. free' + Cardinality(In({"woken"}))' + Cardinality(Jobs(HoldsSlot)) + 1 = MaxWorkers
      BY <1>1, <1>5, <2>1, <2>2, <2>5, <2>3 DEF f
    <3>4. Cardinality(In({"woken"}))' \in Int /\ Cardinality(Jobs(HoldsSlot))' \in Int
      BY <1>5, <2>2, <2>5, <2>3, <3>2
    <3> QED
      BY <1>5, <2>2, <3>2, <3>3, <3>4 DEF Counted
  <2> QED
    BY <2>4, <2>5
<1> QED
  BY <1>1, <1>4, <1>5, <1>6, <1>7, <1>8, <1>9 DEF NewsInv, Typed, WakesUp

\* What a query does without touching the line or the slots.
LEMMA QuietStep ==
  ASSUME NewsInv, NEW q \in Query, NEW s \in QueryStates \ {"idle", "waiting", "woken"},
         query[q] \notin {"waiting", "woken"}, query' = [query EXCEPT ![q] = s],
         UNCHANGED <<closed, free, queue, job>>
  PROVE  NewsInv'
<1>1. /\ query' \in [Query -> QueryStates] /\ query'[q] = s
      /\ \A p \in Query \ {q} : query'[p] = query[p]
  BY DEF NewsInv, Typed
<1>2. In({"waiting"})' = In({"waiting"}) /\ In({"woken"})' = In({"woken"})
  BY <1>1 DEF In
<1>3. Jobs(HoldsSlot)' = Jobs(HoldsSlot) /\ Jobs({"queued"})' = Jobs({"queued"})
  BY DEF Jobs
<1>4. NotSubmitted'
  BY <1>1 DEF NewsInv, NotSubmitted
<1> QED
  BY <1>1, <1>2, <1>3, <1>4 DEF NewsInv, Typed, InLine, Counted, NoneForgotten, ClosedQuiet

\* What a thread does without giving a slot back.
LEMMA JobStep ==
  ASSUME NewsInv, job' \in [Query -> JobStates], Jobs(HoldsSlot)' = Jobs(HoldsSlot),
         Jobs({"queued"})' \subseteq Jobs({"queued"}), closed' \in BOOLEAN,
         closed' => closed \/ Jobs({"queued"})' = {},
         \A p \in Query : job[p] = "none" => job'[p] = "none",
         UNCHANGED <<free, queue, query>>
  PROVE  NewsInv'
<1>1. In({"waiting"})' = In({"waiting"}) /\ In({"woken"})' = In({"woken"})
  BY DEF In
<1>2. NotSubmitted'
  BY DEF NewsInv, NotSubmitted
<1>3. ClosedQuiet'
  BY DEF NewsInv, ClosedQuiet
<1> QED
  BY <1>1, <1>2, <1>3 DEF NewsInv, Typed, InLine, Counted, NoneForgotten

LEMMA BeginInv == ASSUME NewsInv, NEW q \in Query, Begin(q) PROVE NewsInv'
<1>1. /\ query[q] = "idle" /\ closed' = closed /\ free \in Nat /\ job[q] = "none"
      /\ query \in [Query -> QueryStates] /\ job \in [Query -> JobStates]
      /\ closed \in BOOLEAN
  BY DEF Begin, NewsInv, Typed, NotSubmitted
<1>2. CASE closed
  <2>1. query' = [query EXCEPT ![q] = "failed"] /\ UNCHANGED <<closed, free, queue, job>>
    BY <1>1, <1>2 DEF Begin
  <2>2. "failed" \in QueryStates \ {"idle", "waiting", "woken"}
    BY DEF QueryStates, Settled
  <2> QED
    BY <1>1, <2>1, <2>2, QuietStep
<1>3. CASE ~ closed /\ free > 0 /\ In({"waiting", "woken"}) = {}
  <2>1. /\ free' = free - 1 /\ query' = [query EXCEPT ![q] = "awaiting"]
        /\ job' = [job EXCEPT ![q] = "queued"] /\ queue' = queue
    BY <1>3 DEF Begin
  <2>2. /\ query' \in [Query -> QueryStates] /\ job' \in [Query -> JobStates] /\ free' \in Nat
    BY <1>1, <1>3, <2>1 DEF QueryStates, JobStates, HoldsSlot
  <2>3. /\ query'[q] = "awaiting" /\ \A p \in Query \ {q} : query'[p] = query[p] /\ job'[p] = job[p]
    BY <1>1, <2>1
  <2>4. In({"waiting"})' = In({"waiting"}) /\ In({"woken"})' = In({"woken"})
    BY <1>1, <2>3 DEF In
  <2>5. Jobs(HoldsSlot)' = Jobs(HoldsSlot) \cup {q}
    BY <1>1, <2>1 DEF Jobs, HoldsSlot
  <2>6. Counted'
    <3>1. free + Cardinality(In({"woken"})) + Cardinality(Jobs(HoldsSlot)) = MaxWorkers
      BY DEF NewsInv, Counted
    <3>2. /\ Cardinality(In({"woken"})) \in Nat /\ Cardinality(Jobs(HoldsSlot)) \in Nat
          /\ Cardinality(Jobs(HoldsSlot) \cup {q}) = Cardinality(Jobs(HoldsSlot)) + 1
      BY <1>1, Counts DEF HoldsSlot
    <3>3. /\ Cardinality(Jobs(HoldsSlot))' = Cardinality(Jobs(HoldsSlot)) + 1
          /\ Cardinality(In({"woken"}))' = Cardinality(In({"woken"}))
      BY <2>4, <2>5, <3>2
    <3> QED
      BY <1>1, <2>1, <3>1, <3>2, <3>3 DEF Counted
  <2>7. In({"waiting"}) = {}
    BY <1>3 DEF In
  <2>8. queue = <<>>
    <3>1. Members(queue) = {} /\ queue \in Seq(Query)
      BY <2>7 DEF NewsInv, InLine, Line
    <3>2. 1 \notin 1..Len(queue) /\ Len(queue) \in Nat
      BY <3>1 DEF Members
    <3> QED
      BY <3>1, <3>2
  <2>9. InLine' /\ NoneForgotten' /\ ClosedQuiet'
    BY <1>1, <1>3, <2>1, <2>4, <2>8 DEF NewsInv, InLine, NoneForgotten, ClosedQuiet
  <2>10. NotSubmitted'
    BY <2>3 DEF NewsInv, NotSubmitted
  <2> QED
    BY <1>1, <2>2, <2>6, <2>9, <2>10 DEF NewsInv, Typed
<1>4. CASE ~ closed /\ ~ (free > 0 /\ In({"waiting", "woken"}) = {})
  <2>1. /\ queue' = Append(queue, q) /\ query' = [query EXCEPT ![q] = "waiting"]
        /\ UNCHANGED <<free, job>>
    BY <1>4 DEF Begin
  <2>2. /\ query' \in [Query -> QueryStates] /\ query'[q] = "waiting"
        /\ \A p \in Query \ {q} : query'[p] = query[p]
    BY <1>1, <2>1 DEF QueryStates
  <2>3. In({"waiting"})' = In({"waiting"}) \cup {q} /\ In({"woken"})' = In({"woken"})
    BY <1>1, <2>2 DEF In
  <2>4. Line(queue) /\ Members(queue) = In({"waiting"}) /\ q \notin In({"waiting"})
    BY <1>1 DEF NewsInv, InLine, In
  <2>5. InLine'
    <3> DEFINE w == queue
               v == Append(queue, q)
    <3>1. /\ w \in Seq(Query) /\ Len(w) \in Nat /\ v \in Seq(Query) /\ Len(v) = Len(w) + 1
          /\ v[Len(w) + 1] = q /\ \A n \in 1..Len(w) : v[n] = w[n]
      BY <2>4 DEF Line
    <3>2. \A n \in 1..Len(w) : w[n] # q
      BY <2>4 DEF Members
    <3>3. \A m, n \in 1..Len(w) : w[m] = w[n] => m = n
      BY <2>4 DEF Line
    <3> HIDE DEF v
    <3>4. Line(v)
      <4> SUFFICES ASSUME NEW m \in 1..(Len(w) + 1), NEW n \in 1..(Len(w) + 1), v[m] = v[n]
                   PROVE  m = n
        BY <3>1 DEF Line
      <4>1. m \in 1..Len(w) \/ m = Len(w) + 1
        BY <3>1
      <4>2. n \in 1..Len(w) \/ n = Len(w) + 1
        BY <3>1
      <4> HIDE DEF w
      <4> QED
        BY <3>1, <3>2, <3>3, <4>1, <4>2
    <3>5. Members(v) = Members(w) \cup {q}
      <4>1. \A n \in 1..Len(v) : v[n] \in Members(w) \cup {q}
        <5> SUFFICES ASSUME NEW n \in 1..(Len(w) + 1) PROVE v[n] \in Members(w) \cup {q}
          BY <3>1
        <5>1. n \in 1..Len(w) \/ n = Len(w) + 1
          BY <3>1
        <5> QED
          BY <3>1, <5>1 DEF Members
      <4>2. q \in Members(v) /\ \A n \in 1..Len(w) : w[n] \in Members(v)
        <5>1. 1..Len(w) \subseteq 1..Len(v) /\ Len(w) + 1 \in 1..Len(v)
          BY <3>1
        <5> QED
          BY <3>1, <5>1 DEF Members
      <4> QED
        BY <4>1, <4>2 DEF Members
    <3> QED
      BY <2>1, <2>3, <2>4, <3>4, <3>5 DEF InLine, v
  <2>6. Jobs(HoldsSlot)' = Jobs(HoldsSlot) /\ Jobs({"queued"})' = Jobs({"queued"})
    BY <2>1 DEF Jobs
  <2>7. Counted' /\ ClosedQuiet'
    BY <1>1, <2>1, <2>3, <2>6 DEF NewsInv, Counted, ClosedQuiet
  <2>8. NoneForgotten'
    <3>1. CASE free > 0
      <4>1. PICK p \in Query : query[p] \in {"waiting", "woken"}
        BY <1>4, <3>1 DEF In
      <4>2. In({"woken"}) # {}
        <5>1. CASE query[p] = "woken"
          BY <5>1 DEF In
        <5>2. CASE query[p] = "waiting"
          <6>1. p \in Members(queue)
            BY <2>4, <5>2 DEF In
          <6>2. queue # <<>>
            BY <6>1 DEF Members
          <6> QED
            BY <3>1, <6>2 DEF NewsInv, NoneForgotten
        <5> QED
          BY <4>1, <5>1, <5>2
      <4> QED
        BY <2>3, <4>2 DEF NoneForgotten
    <3>2. CASE ~ (free > 0)
      BY <2>1, <3>2 DEF NoneForgotten
    <3> QED
      BY <3>1, <3>2
  <2>9. NotSubmitted'
    BY <1>1, <2>1, <2>2 DEF NewsInv, NotSubmitted
  <2> QED
    BY <1>1, <2>1, <2>2, <2>5, <2>7, <2>8, <2>9 DEF NewsInv, Typed
<1> QED
  BY <1>1, <1>2, <1>3, <1>4

LEMMA ResumeInv == ASSUME NewsInv, NEW q \in Query, Resume(q) PROVE NewsInv'
<1>1. /\ query[q] = "woken" /\ closed' = closed
      /\ {"awaiting", "crashed"} \subseteq QueryStates \ {"idle", "waiting", "woken"}
  BY DEF Resume, QueryStates, Settled
<1>2. CASE closed
  BY <1>1, <1>2, AcquireEndsInv DEF Resume, Refused
<1>3. CASE ~ closed
  BY <1>1, <1>3, AcquireEndsInv DEF Resume
<1> QED
  BY <1>2, <1>3

LEMMA GiveUpInv ==
  ASSUME NewsInv, NEW q \in Query, Timeout(q) \/ CancelQuery(q)
  PROVE  NewsInv'
<1>1. /\ UNCHANGED <<closed, job>> /\ query[q] \in {"waiting", "woken", "awaiting"}
      /\ {"failed", "cancelled"} \subseteq QueryStates \ {"idle", "waiting", "woken"}
  BY DEF Timeout, CancelQuery, QueryStates, Settled
<1>2. PICK s \in {"failed", "cancelled"} : GiveUp(q, s)
  BY DEF Timeout, CancelQuery
<1>3. CASE query[q] = "awaiting"
  BY <1>1, <1>2, <1>3, QuietStep DEF GiveUp
<1>4. CASE query[q] = "woken"
  BY <1>1, <1>2, <1>4, AcquireEndsInv DEF GiveUp
<1>5. CASE query[q] = "waiting"
  BY <1>1, <1>2, <1>5, AcquireEndsInv DEF GiveUp
<1> QED
  BY <1>1, <1>3, <1>4, <1>5

LEMMA AnswerInv == ASSUME NewsInv, NEW q \in Query, Answer(q) PROVE NewsInv'
<1>1. /\ query[q] = "awaiting" /\ UNCHANGED <<closed, free, queue, job>>
      /\ {"answered", "failed", "cancelled"} \subseteq QueryStates \ {"idle", "waiting", "woken"}
  BY DEF Answer, QueryStates, Settled
<1>2. PICK s \in {"answered", "failed", "cancelled"} : query' = [query EXCEPT ![q] = s]
  BY DEF Answer
<1> QED
  BY <1>1, <1>2, QuietStep

LEMMA ThreadInv ==
  ASSUME NewsInv, NEW q \in Query, Work(q) \/ EndWork(q)
  PROVE  NewsInv'
<1>1. /\ job \in [Query -> JobStates] /\ closed \in BOOLEAN
      /\ UNCHANGED <<closed, free, queue, query>>
  BY DEF NewsInv, Typed, Work, EndWork
<1>2. PICK s \in {"running", "finished"} : job' = [job EXCEPT ![q] = s]
  BY DEF Work, EndWork
<1>3. job[q] \in HoldsSlot /\ {"running", "finished"} \subseteq HoldsSlot /\ "none" \notin HoldsSlot
  BY DEF Work, EndWork, HoldsSlot
<1>4. job' \in [Query -> JobStates]
  BY <1>1, <1>2, <1>3 DEF JobStates
<1>5. Jobs(HoldsSlot)' = Jobs(HoldsSlot)
  BY <1>1, <1>2, <1>3 DEF Jobs
<1>6. Jobs({"queued"})' \subseteq Jobs({"queued"})
  BY <1>1, <1>2 DEF Jobs
<1>7. \A p \in Query : job[p] = "none" => job'[p] = "none"
  BY <1>1, <1>2, <1>3
<1> QED
  BY <1>1, <1>4, <1>5, <1>6, <1>7, JobStep

LEMMA CloseInv == ASSUME NewsInv, Close PROVE NewsInv'
<1>1. /\ closed' = TRUE /\ UNCHANGED <<free, queue, query>> /\ job \in [Query -> JobStates]
      /\ job' = [p \in Query |-> IF job[p] = "queued" THEN "dropped" ELSE job[p]]
  BY DEF Close, NewsInv, Typed
<1>2. job' \in [Query -> JobStates]
  BY <1>1 DEF JobStates, HoldsSlot
<1>3. Jobs(HoldsSlot)' = Jobs(HoldsSlot) /\ Jobs({"queued"})' = {}
  BY <1>1 DEF Jobs, HoldsSlot
<1>4. \A p \in Query : job[p] = "none" => job'[p] = "none"
  BY <1>1
<1> QED
  BY <1>1, <1>2, <1>3, <1>4, JobStep

LEMMA ReleaseSlotInv == ASSUME NewsInv, NEW q \in Query, ReleaseSlot(q) PROVE NewsInv'
<1> DEFINE k == Fewest(1, Len(queue))
<1>1. /\ closed' = closed /\ free \in Nat /\ closed \in BOOLEAN
      /\ query \in [Query -> QueryStates] /\ job \in [Query -> JobStates]
  BY DEF ReleaseSlot, NewsInv, Typed
<1>2. PICK s \in {"delivered", "withdrawn"} : job' = [job EXCEPT ![q] = s]
  BY DEF ReleaseSlot
<1>3. job[q] \in HoldsSlot /\ "none" \notin HoldsSlot
  BY DEF ReleaseSlot, HoldsSlot
<1>4. query[q] \in QueryStates \ {"idle", "waiting", "woken"}
  BY <1>1, <1>3 DEF NewsInv, NotSubmitted
<1>5. WakesUp(1, free + 1, q, query[q], k)
  <2>1. Line(queue) /\ Members(queue) = In({"waiting"}) \ {q}
    BY <1>4 DEF NewsInv, InLine, In
  <2>2. Wake(queue, 1, free + 1, q, query[q]) /\ free + 1 \in Nat /\ 1 <= free + 1
    BY <1>1 DEF ReleaseSlot, ReleaseTo
  <2> QED
    BY <1>1, <1>4, <2>1, <2>2, Wakes
<1> HIDE DEF k
<1>6. /\ k \in Nat /\ free' \in Nat /\ free' = (free + 1) - k /\ NoneForgotten' /\ InLine'
      /\ query' \in [Query -> QueryStates]
      /\ Cardinality(In({"woken"}))' = Cardinality(In({"woken"}) \ {q}) + k
  <2>1. 1 > 0
    OBVIOUS
  <2>2. NoneForgotten'
    BY <1>5, <2>1 DEF WakesUp
  <2>3. k \in Nat /\ free' \in Nat /\ free' = (free + 1) - k
    BY <1>5 DEF WakesUp
  <2>4. /\ InLine' /\ query' \in [Query -> QueryStates]
        /\ Cardinality(In({"woken"}))' = Cardinality(In({"woken"}) \ {q}) + k
    BY <1>5 DEF WakesUp
  <2> QED
    BY <2>2, <2>3, <2>4
<1>7. job' \in [Query -> JobStates] /\ \A p \in Query \ {q} : job'[p] = job[p]
  BY <1>1, <1>2 DEF JobStates
<1>8. NotSubmitted'
  BY <1>4, <1>5, <1>7 DEF NewsInv, NotSubmitted, WakesUp
<1>9. ClosedQuiet'
  <2>1. Jobs({"queued"})' \subseteq Jobs({"queued"})
    BY <1>1, <1>2 DEF Jobs
  <2> QED
    BY <1>1, <2>1 DEF NewsInv, ClosedQuiet
<1>10. Counted'
  <2>1. free + Cardinality(In({"woken"})) + Cardinality(Jobs(HoldsSlot)) = MaxWorkers
    BY DEF NewsInv, Counted
  <2>2. /\ Cardinality(In({"woken"})) \in Nat /\ Cardinality(Jobs(HoldsSlot)) \in Nat
        /\ Cardinality(In({"woken"}) \ {q}) = Cardinality(In({"woken"}))
        /\ Cardinality(Jobs(HoldsSlot) \ {q}) = Cardinality(Jobs(HoldsSlot)) - 1
    BY <1>3, <1>4, Counts
  <2>3. Jobs(HoldsSlot)' = Jobs(HoldsSlot) \ {q}
    BY <1>1, <1>2 DEF Jobs, HoldsSlot
  <2>4. Cardinality(Jobs(HoldsSlot))' = Cardinality(Jobs(HoldsSlot)) - 1
    BY <2>2, <2>3
  <2>5. Cardinality(In({"woken"}))' = Cardinality(In({"woken"})) + k
    BY <1>6, <2>2
  <2> QED
    BY <1>1, <1>6, <2>1, <2>2, <2>4, <2>5 DEF Counted
<1> QED
  BY <1>1, <1>6, <1>7, <1>8, <1>9, <1>10 DEF NewsInv, Typed

LEMMA NewsInvNext == NewsInv /\ [NewsNext]_newsVars => NewsInv'
<1> SUFFICES ASSUME NewsInv, [NewsNext]_newsVars PROVE NewsInv'
  OBVIOUS
<1>1. CASE UNCHANGED newsVars
  <2>1. UNCHANGED <<closed, free, queue, query, job>>
    BY <1>1 DEF newsVars
  <2>2. /\ \A s : In(s)' = In(s)
        /\ \A s : Jobs(s)' = Jobs(s)
    BY <2>1 DEF In, Jobs
  <2> QED
    BY <2>1, <2>2 DEF NewsInv, Typed, InLine, Line, Members, Counted, NotSubmitted, NoneForgotten,
                      ClosedQuiet
<1> QED
  BY <1>1, BeginInv, ResumeInv, GiveUpInv, AnswerInv, ThreadInv, ReleaseSlotInv, CloseInv
  DEF NewsNext, Finished

LEMMA NewsInvariant == NewsSpec => []NewsInv
BY NewsInvInit, NewsInvNext, PTL DEF NewsSpec

-----------------------------------------------------------------------------

\* No slot is lost or made up, and no query waits for a free one unless a woken query
\* will wake it, for any number of queries and threads and wherever queries give up.
THEOREM SlotsStay == NewsSpec => []SlotsConserved
<1>1. NewsInv => SlotsConserved
  <2> SUFFICES ASSUME NewsInv PROVE SlotsConserved
    OBVIOUS
  <2>1. ASSUME NEW q \in Query
        PROVE  query[q] = "waiting" <=> \E n \in DOMAIN queue : queue[n] = q
    <3>1. query[q] = "waiting" <=> q \in Members(queue)
      BY DEF NewsInv, InLine, In
    <3>2. DOMAIN queue = 1..Len(queue)
      BY DEF NewsInv, InLine, Line
    <3> QED
      BY <3>1, <3>2 DEF Members
  <2> QED
    BY <2>1 DEF NewsInv, Counted, NoneForgotten, SlotsConserved
<1> QED
  BY <1>1, NewsInvariant, PTL

\* aclose is final: what is queued is dropped, and a query that was past the check of
\* closed submits nothing.
THEOREM CloseIsFinal == NewsSpec => ClosedStartsNothing
<1>1. NewsInv /\ [NewsNext]_newsVars => [closed => Jobs({"running"})' \subseteq Jobs({"running"})]_newsVars
  <2> SUFFICES ASSUME NewsInv, NewsNext, closed PROVE Jobs({"running"})' \subseteq Jobs({"running"})
    OBVIOUS
  <2>1. job \in [Query -> JobStates] /\ Jobs({"queued"}) = {}
    BY DEF NewsInv, Typed, ClosedQuiet
  <2>2. ASSUME NEW q \in Query, Work(q) PROVE FALSE
    BY <2>1, <2>2 DEF Work, Jobs
  <2>3. ASSUME NEW q \in Query, EndWork(q) \/ ReleaseSlot(q)
        PROVE  Jobs({"running"})' \subseteq Jobs({"running"})
    BY <2>1, <2>3 DEF EndWork, ReleaseSlot, Jobs
  <2>4. ASSUME NEW q \in Query, Begin(q) \/ Resume(q) \/ Timeout(q) \/ CancelQuery(q) \/ Answer(q)
        PROVE  Jobs({"running"})' \subseteq Jobs({"running"})
    <3>1. job' = job
      BY <2>4 DEF Begin, Resume, Timeout, CancelQuery, Answer
    <3> QED
      BY <3>1 DEF Jobs
  <2>5. CASE Close
    BY <2>5 DEF Close
  <2>6. CASE Finished
    BY <2>6 DEF Finished, newsVars, Jobs
  <2> QED
    BY <2>2, <2>3, <2>4, <2>5, <2>6 DEF NewsNext
<1> QED
  BY <1>1, NewsInvariant, PTL DEF NewsSpec, ClosedStartsNothing
=============================================================================
