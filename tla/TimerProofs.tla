------------------------------ MODULE TimerProofs ------------------------------
(***************************************************************************)
(* Proofs about the event queue and the timer/counter device: for every    *)
(* pool size, wrap-around time, tick length and word size.                 *)
(***************************************************************************)
EXTENDS Timer, FiniteSetTheorems, SequenceTheorems, TLAPS

Entry == [alarm : Int, callback : Callback]
Stamp == [age : Nat, left : Int]

\* The order of TiesFireInStartOrder, of two entries.
Precedes(s, t) == s.left < t.left \/ (s.left = t.left /\ s.age >= t.age)

\* The queue invariant, of given values of the queue's variables.
Parallel(now, queue, times) ==
  /\ queue \in Seq(Entry)
  /\ times \in Seq(Stamp)
  /\ Len(times) = Len(queue)
  /\ \A k \in 1 .. Len(queue) : queue[k].alarm - now = times[k].left

Sorted(times) ==
  \A k, m \in 1 .. Len(times) : k < m => Precedes(times[k], times[m])

NotOverdue(times) ==
  \A k \in 1 .. Len(times) : times[k].left > -CC_PER_INSTR

QInv ==
  /\ currentTime \in 0 .. TIME_WRAP - 1
  /\ mode \in {"running", "expiring", "exited"}
  /\ Parallel(currentTime, active, truth)
  /\ Sorted(truth)
  /\ NotOverdue(truth)
  /\ mode = "running" => \A k \in 1 .. Len(truth) : truth[k].left > 0
  /\ free \in Nat /\ PoolConserved

-------------------------------------------------------------------------------
(* Lemmas about the operators *)

\* r is s, a sequence over S, with e inserted behind the first k elements.
Insertion(r, s, S, k, e) ==
  /\ r \in Seq(S)
  /\ Len(r) = Len(s) + 1
  /\ \A i \in 1 .. k : r[i] = s[i]
  /\ r[k + 1] = e
  /\ \A i \in k + 2 .. Len(s) + 1 : r[i] = s[i - 1]

LEMMA InsertAtElements ==
  ASSUME NEW S, NEW s \in Seq(S), NEW k \in 0 .. Len(s), NEW e \in S
  PROVE  Insertion(InsertAt(s, k, e), s, S, k, e)
<1>. DEFINE front == SubSeq(s, 1, k)
            rest == SubSeq(s, k + 1, Len(s))
            upto == front \o <<e>>
<1>1. /\ front \in Seq(S) /\ Len(front) = k
      /\ \A i \in 1 .. k : front[i] = s[i]
  <2>1. \A i \in 1 .. k : s[i] \in S
    BY ElementOfSeq, LenProperties
  <2>. QED
    BY <2>1, SubSeqProperties, LenProperties
<1>2. /\ rest \in Seq(S) /\ Len(rest) = Len(s) - k
      /\ \A i \in 1 .. Len(s) - k : rest[i] = s[k + i]
  <2>1. \A i \in k + 1 .. Len(s) : s[i] \in S
    BY ElementOfSeq, LenProperties
  <2>2. Len(s) \in Nat
    BY LenProperties
  <2>. QED
    BY <2>1, <2>2, SubSeqProperties
<1>3. <<e>> \in Seq(S) /\ Len(<<e>>) = 1 /\ <<e>>[1] = e
  OBVIOUS
<1>. HIDE DEF front, rest
<1>4. /\ upto \in Seq(S) /\ Len(upto) = k + 1
      /\ \A i \in 1 .. k + 1 : upto[i] = IF i <= k THEN front[i] ELSE <<e>>[i - k]
  BY <1>1, <1>3, ConcatProperties
<1>. HIDE DEF upto
<1>5. Len(s) \in Nat
  BY LenProperties
<1>6. /\ upto \o rest \in Seq(S) /\ Len(upto \o rest) = Len(s) + 1
      /\ \A i \in 1 .. Len(s) + 1 :
           (upto \o rest)[i] = IF i <= k + 1 THEN upto[i] ELSE rest[i - (k + 1)]
  <2>1. Len(upto) + Len(rest) = Len(s) + 1
    BY <1>2, <1>4, <1>5
  <2>2. /\ upto \o rest \in Seq(S) /\ Len(upto \o rest) = Len(upto) + Len(rest)
        /\ \A i \in 1 .. Len(upto) + Len(rest) :
             (upto \o rest)[i] = IF i <= Len(upto) THEN upto[i] ELSE rest[i - Len(upto)]
    BY <1>2, <1>4, ConcatProperties
  <2>. QED
    BY <1>4, <2>1, <2>2
<1>7. InsertAt(s, k, e) = upto \o rest
  BY DEF InsertAt, upto, front, rest
<1>. DEFINE t == upto \o rest
<1>8. \A i \in 1 .. k : t[i] = s[i]
  BY <1>1, <1>4, <1>5, <1>6
<1>9. t[k + 1] = e
  BY <1>3, <1>4, <1>5, <1>6
<1>10. ASSUME NEW i \in k + 2 .. Len(s) + 1
       PROVE  t[i] = s[i - 1]
  <2>1. t[i] = rest[i - (k + 1)] /\ i - (k + 1) \in 1 .. Len(s) - k
    BY <1>5, <1>6
  <2>2. rest[i - (k + 1)] = s[k + (i - (k + 1))]
    BY <1>2, <2>1
  <2>. QED
    BY <1>5, <2>1, <2>2
<1>. QED
  BY <1>6, <1>7, <1>8, <1>9, <1>10 DEF Insertion

\* A set of positions that holds all positions before each of its own is an
\* initial segment.
LEMMA InitialSegment ==
  ASSUME NEW n \in Nat, NEW P \in SUBSET (1 .. n),
         \A k \in P : 1 .. k \subseteq P
  PROVE  Cardinality(P) \in 0 .. n /\ P = 1 .. Cardinality(P)
<1>1. IsFiniteSet(1 .. n) /\ Cardinality(1 .. n) = n
  BY FS_Interval
<1>2. IsFiniteSet(P) /\ Cardinality(P) <= n
  BY <1>1, FS_Subset
<1>3. Cardinality(P) \in Nat
  BY <1>2, FS_CardinalityType
<1>. DEFINE c == Cardinality(P)
<1>4. IsFiniteSet(1 .. c) /\ Cardinality(1 .. c) = c
  BY <1>3, FS_Interval
<1>5. ASSUME NEW k \in P
      PROVE  k \in 1 .. c
  <2>1. 1 .. k \in SUBSET P /\ k \in 1 .. n
    BY <1>5
  <2>2. Cardinality(1 .. k) <= c
    BY <1>2, <2>1, FS_Subset
  <2>3. Cardinality(1 .. k) = k
    BY <2>1, FS_Interval
  <2>. QED
    BY <1>3, <2>1, <2>2, <2>3
<1>6. P \in SUBSET (1 .. c)
  BY <1>5
<1>7. P = 1 .. c
  BY <1>4, <1>6, FS_Subset
<1>. QED
  BY <1>2, <1>3, <1>7

\* timerStart puts the timer behind those that expire no later than it and
\* before the first that expires later.
LEMMA RankPosition ==
  ASSUME NEW queue \in Seq(Entry), NEW alarm \in Int
  PROVE  /\ Rank(alarm, queue) \in 0 .. Len(queue)
         /\ \A j \in 1 .. Rank(alarm, queue) : queue[j].alarm <= alarm
         /\ Rank(alarm, queue) < Len(queue)
              => queue[Rank(alarm, queue) + 1].alarm > alarm
<1>. DEFINE P == {k \in DOMAIN queue : \A j \in 1 .. k : queue[j].alarm <= alarm}
<1>1. Len(queue) \in Nat /\ DOMAIN queue = 1 .. Len(queue)
  BY LenProperties
<1>2. P \in SUBSET (1 .. Len(queue)) /\ \A k \in P : 1 .. k \subseteq P
  BY <1>1
<1>3. Rank(alarm, queue) = Cardinality(P)
  BY DEF Rank
<1>4. Cardinality(P) \in 0 .. Len(queue) /\ P = 1 .. Cardinality(P)
  <2>. HIDE DEF P
  <2>. QED
    BY <1>1, <1>2, InitialSegment
<1>. DEFINE r == Cardinality(P)
<1>5. \A j \in 1 .. r : j \in P
  BY <1>4
<1>6. \A j \in 1 .. r : queue[j].alarm <= alarm
  BY <1>4, <1>5
<1>7. ASSUME r < Len(queue)
      PROVE  queue[r + 1].alarm > alarm
  <2>1. r + 1 \notin P /\ r + 1 \in 1 .. Len(queue)
    <3>. HIDE DEF P
    <3>. QED
      BY <1>1, <1>4, <1>7
  <2>2. PICK j \in 1 .. r + 1 : ~(queue[j].alarm <= alarm)
    BY <1>1, <2>1
  <2>3. j = r + 1
    BY <1>4, <1>6, <2>2
  <2>4. queue[r + 1] \in Entry
    BY <2>1, ElementOfSeq
  <2>. QED
    BY <2>2, <2>3, <2>4 DEF Entry
<1>. QED
  BY <1>3, <1>4, <1>6, <1>7

-------------------------------------------------------------------------------
(* Steps of the event queue *)

\* What timerStart and timerTick's loop keep, of given values.
QueueOK(now, queue, times, pool) ==
  /\ Parallel(now, queue, times)
  /\ Sorted(times)
  /\ NotOverdue(times)
  /\ pool \in Nat /\ pool + Len(queue) = NUMBER_TIMERS

AllLater(times) == \A k \in 1 .. Len(times) : times[k].left > 0

LEMMA StartKeeps ==
  ASSUME NEW now \in Int, currentTime = now,
         NEW queue, NEW times, NEW pool, QueueOK(now, queue, times, pool),
         NEW d \in Delay, NEW cb \in Callback,
         StartFrom(d, cb, queue, pool, times)
  PROVE  /\ QueueOK(now, active', truth', free')
         /\ AllLater(times) => AllLater(truth')
         /\ mode' \in {mode, "exited"}
<1>1. CASE pool = 0
  BY <1>1 DEF StartFrom
<1>2. CASE pool # 0
  <2>. DEFINE a == AlarmFor(d)
              k == Rank(a, queue)
              e == [alarm |-> a, callback |-> cb]
              t == [age |-> 0, left |-> d]
              n == Len(queue)
  <2>1. d \in Nat \ {0} /\ a = now + d /\ a \in Int
    BY TimerAssumption DEF AlarmFor
  <2>2. /\ queue \in Seq(Entry) /\ times \in Seq(Stamp)
        /\ n \in Nat /\ Len(times) = n
        /\ \A i \in 1 .. n : /\ queue[i] \in Entry /\ times[i] \in Stamp
                             /\ queue[i].alarm - now = times[i].left
    BY LenProperties, ElementOfSeq DEF QueueOK, Parallel
  <2>3. /\ active' = InsertAt(queue, k, e)
        /\ truth' = InsertAt(times, k, t)
        /\ free' = pool - 1 /\ mode' = mode
    BY <1>2 DEF StartFrom
  <2>4. /\ k \in 0 .. n
        /\ \A j \in 1 .. k : queue[j].alarm <= a
        /\ k < n => queue[k + 1].alarm > a
    <3>. HIDE DEF a
    <3>. QED
      BY <2>1, <2>2, RankPosition
  <2>5. e \in Entry /\ t \in Stamp /\ t.left = d /\ t.age = 0 /\ e.alarm = a
    BY <2>1 DEF Entry, Stamp
  <2>. HIDE DEF a, k, e, t, n
  <2>6. /\ active' \in Seq(Entry) /\ Len(active') = n + 1
        /\ \A i \in 1 .. k : active'[i] = queue[i]
        /\ active'[k + 1] = e
        /\ \A i \in k + 2 .. n + 1 : active'[i] = queue[i - 1]
    <3>1. Insertion(InsertAt(queue, k, e), queue, Entry, k, e)
      BY <2>2, <2>4, <2>5, InsertAtElements DEF n
    <3>. QED
      BY <2>3, <3>1 DEF Insertion, n
  <2>7. /\ truth' \in Seq(Stamp) /\ Len(truth') = n + 1
        /\ \A i \in 1 .. k : truth'[i] = times[i]
        /\ truth'[k + 1] = t
        /\ \A i \in k + 2 .. n + 1 : truth'[i] = times[i - 1]
    <3>1. Insertion(InsertAt(times, k, t), times, Stamp, k, t)
      BY <2>2, <2>4, <2>5, InsertAtElements
    <3>. QED
      BY <2>2, <2>3, <3>1 DEF Insertion
  <2>8. Parallel(now, active', truth')
    <3>1. ASSUME NEW i \in 1 .. n + 1
          PROVE  active'[i].alarm - now = truth'[i].left
      <4>1. CASE i \in 1 .. k
        BY <2>2, <2>4, <2>6, <2>7, <4>1
      <4>2. CASE i = k + 1
        BY <2>1, <2>5, <2>6, <2>7, <4>2
      <4>3. CASE i \in k + 2 .. n + 1
        BY <2>2, <2>4, <2>6, <2>7, <4>3
      <4>. QED
        BY <2>2, <2>4, <4>1, <4>2, <4>3
    <3>. QED
      BY <2>6, <2>7, <3>1 DEF Parallel
  <2>9. ASSUME NEW i \in 1 .. k
        PROVE  Precedes(times[i], t)
    <3>1. i \in 1 .. n /\ queue[i].alarm <= a
      BY <2>2, <2>4
    <3>2. /\ queue[i].alarm \in Int /\ times[i].left \in Int /\ times[i].age \in Nat
          /\ queue[i].alarm - now = times[i].left
      BY <2>2, <3>1 DEF Stamp, Entry
    <3>3. times[i].left <= d
      BY <2>1, <3>1, <3>2
    <3>. QED
      BY <2>1, <2>5, <3>2, <3>3 DEF Precedes
  <2>10. \A i \in k + 1 .. n : Precedes(t, times[i])
    <3>1. ASSUME NEW i \in k + 1 .. n
          PROVE  times[i].left > d
      <4>1. k + 1 \in 1 .. n /\ i \in 1 .. n
        BY <2>2, <2>4
      <4>2. times[k + 1].left > d
        <5>1. queue[k + 1].alarm > a
          BY <2>2, <2>4, <4>1
        <5>2. /\ queue[k + 1].alarm \in Int /\ times[k + 1].left \in Int
              /\ queue[k + 1].alarm - now = times[k + 1].left
          BY <2>2, <4>1 DEF Stamp, Entry
        <5>. QED
          BY <2>1, <5>1, <5>2
      <4>3. i = k + 1 \/ Precedes(times[k + 1], times[i])
        BY <2>2, <2>4, <4>1 DEF QueueOK, Sorted
      <4>. QED
        BY <2>1, <2>2, <4>1, <4>2, <4>3 DEF Precedes, Stamp
    <3>. QED
      BY <3>1, <2>5 DEF Precedes
  <2>11. Sorted(truth')
    <3>1. SUFFICES ASSUME NEW i \in 1 .. n + 1, NEW j \in 1 .. n + 1, i < j
                   PROVE  Precedes(truth'[i], truth'[j])
      BY <2>7 DEF Sorted
    <3>2. \A x, y \in 1 .. n : x < y => Precedes(times[x], times[y])
      BY <2>2 DEF QueueOK, Sorted
    <3>3. CASE j \in 1 .. k
      BY <2>2, <2>4, <2>7, <3>1, <3>2, <3>3
    <3>4. CASE j = k + 1
      BY <2>2, <2>4, <2>7, <2>9, <3>1, <3>4
    <3>5. CASE j \in k + 2 .. n + 1
      <4>1. truth'[j] = times[j - 1] /\ j - 1 \in k + 1 .. n /\ j - 1 \in 1 .. n
        BY <2>2, <2>4, <2>7, <3>5
      <4>2. CASE i \in 1 .. k
        BY <2>2, <2>4, <2>7, <3>2, <4>1, <4>2
      <4>3. CASE i = k + 1
        BY <2>7, <2>10, <4>1, <4>3
      <4>4. CASE i \in k + 2 .. n + 1
        BY <2>2, <2>4, <2>7, <3>1, <3>2, <4>1, <4>4
      <4>. QED
        BY <2>2, <2>4, <4>2, <4>3, <4>4
    <3>. QED
      BY <2>2, <2>4, <3>3, <3>4, <3>5
  <2>12. NotOverdue(truth') /\ (AllLater(times) => AllLater(truth'))
    <3>1. -CC_PER_INSTR \in Int /\ -CC_PER_INSTR < 0
      BY TimerAssumption
    <3>2. \A i \in 1 .. n + 1 :
            \/ truth'[i].left = d
            \/ \E j \in 1 .. n : truth'[i] = times[j]
      <4>1. ASSUME NEW i \in 1 .. n + 1
            PROVE  truth'[i].left = d \/ \E j \in 1 .. n : truth'[i] = times[j]
        <5>1. CASE i \in 1 .. k
          BY <2>2, <2>4, <2>7, <5>1
        <5>2. CASE i = k + 1
          BY <2>5, <2>7, <5>2
        <5>3. CASE i \in k + 2 .. n + 1
          <6>1. i - 1 \in 1 .. n /\ truth'[i] = times[i - 1]
            BY <2>2, <2>4, <2>7, <5>3
          <6>. QED
            BY <6>1
        <5>. QED
          BY <2>2, <2>4, <5>1, <5>2, <5>3
      <4>. QED
        BY <4>1
    <3>3. NotOverdue(times)
      BY DEF QueueOK
    <3>4. \A i \in 1 .. n : times[i].left > -CC_PER_INSTR
      BY <2>2, <3>3 DEF NotOverdue
    <3>5. d > -CC_PER_INSTR /\ d > 0
      BY <2>1, <3>1
    <3>6. NotOverdue(truth')
      BY <2>7, <3>2, <3>4, <3>5 DEF NotOverdue
    <3>7. ASSUME AllLater(times)
          PROVE  AllLater(truth')
      <4>1. \A i \in 1 .. n : times[i].left > 0
        BY <2>2, <3>7 DEF AllLater
      <4>. QED
        BY <2>7, <3>2, <3>5, <4>1 DEF AllLater
    <3>. QED
      BY <3>6, <3>7
  <2>13. free' \in Nat /\ free' + Len(active') = NUMBER_TIMERS
    BY <1>2, <2>2, <2>3, <2>6 DEF QueueOK, n
  <2>. QED
    BY <2>3, <2>8, <2>11, <2>12, <2>13 DEF QueueOK
<1>. QED
  BY <1>1, <1>2

\* Taking the first timer off the queue.
LEMMA TailKeeps ==
  ASSUME NEW now \in Int, NEW queue, NEW times, NEW pool,
         QueueOK(now, queue, times, pool), queue # <<>>
  PROVE  /\ times # <<>>
         /\ QueueOK(now, Tail(queue), Tail(times), pool + 1)
<1>. DEFINE n == Len(queue)
<1>1. /\ queue \in Seq(Entry) /\ times \in Seq(Stamp)
      /\ n \in Nat \ {0} /\ Len(times) = n
  BY LenProperties, EmptySeq DEF QueueOK, Parallel
<1>2. times # <<>>
  BY <1>1, EmptySeq
<1>3. /\ Tail(queue) \in Seq(Entry) /\ Len(Tail(queue)) = n - 1
      /\ \A i \in 1 .. n - 1 : Tail(queue)[i] = queue[i + 1]
  BY <1>1, HeadTailProperties
<1>4. /\ Tail(times) \in Seq(Stamp) /\ Len(Tail(times)) = n - 1
      /\ \A i \in 1 .. n - 1 : Tail(times)[i] = times[i + 1]
  BY <1>1, <1>2, HeadTailProperties
<1>5. \A i \in 1 .. n - 1 : i + 1 \in 1 .. n
  BY <1>1
<1>6. Parallel(now, Tail(queue), Tail(times))
  BY <1>1, <1>3, <1>4, <1>5 DEF Parallel, QueueOK
<1>7. Sorted(Tail(times))
  <2>1. SUFFICES ASSUME NEW i \in 1 .. n - 1, NEW j \in 1 .. n - 1, i < j
                 PROVE  Precedes(Tail(times)[i], Tail(times)[j])
    BY <1>4 DEF Sorted
  <2>2. i + 1 \in 1 .. n /\ j + 1 \in 1 .. n /\ i + 1 < j + 1
    BY <1>1, <2>1
  <2>3. Precedes(times[i + 1], times[j + 1])
    BY <1>1, <2>2 DEF QueueOK, Sorted
  <2>. QED
    BY <1>4, <2>3
<1>8. NotOverdue(Tail(times))
  BY <1>1, <1>4, <1>5 DEF QueueOK, NotOverdue
<1>9. pool + 1 \in Nat /\ (pool + 1) + Len(Tail(queue)) = NUMBER_TIMERS
  BY <1>1, <1>3 DEF QueueOK
<1>. QED
  BY <1>2, <1>6, <1>7, <1>8, <1>9 DEF QueueOK

LEMMA QInvIsQueueOK ==
  QInv <=> /\ currentTime \in 0 .. TIME_WRAP - 1
           /\ mode \in {"running", "expiring", "exited"}
           /\ QueueOK(currentTime, active, truth, free)
           /\ mode = "running" => AllLater(truth)
BY DEF QInv, QueueOK, AllLater, PoolConserved

\* The same of the next state.
LEMMA NextQInv ==
  ASSUME currentTime' \in 0 .. TIME_WRAP - 1,
         mode' \in {"running", "expiring", "exited"},
         QueueOK(currentTime', active', truth', free'),
         mode' = "running" => AllLater(truth')
  PROVE  QInv'
BY DEF QInv, QueueOK, AllLater, PoolConserved

LEMMA EmptyQueue ==
  ASSUME NEW now \in Int
  PROVE  QueueOK(now, <<>>, <<>>, NUMBER_TIMERS) /\ AllLater(<<>>)
<1>1. <<>> \in Seq(Entry) /\ <<>> \in Seq(Stamp) /\ Len(<<>>) = 0
  BY EmptySeq
<1>. QED
  BY <1>1, TimerAssumption DEF QueueOK, Parallel, Sorted, NotOverdue, AllLater

LEMMA InitQInv == Init => QInv
<1>1. SUFFICES ASSUME Init PROVE QInv
  OBVIOUS
<1>2. currentTime = 0 /\ 0 \in 0 .. TIME_WRAP - 1
  BY <1>1, TimerAssumption DEF Init
<1>. QED
  BY <1>1, <1>2, EmptyQueue, QInvIsQueueOK DEF Init

LEMMA StartQInv ==
  ASSUME QInv, NEW d \in Delay, NEW cb \in Callback, Start(d, cb)
  PROVE  QInv'
<1>1. /\ currentTime \in 0 .. TIME_WRAP - 1 /\ currentTime \in Int
      /\ QueueOK(currentTime, active, truth, free) /\ AllLater(truth)
      /\ mode = "running"
  BY QInvIsQueueOK, TimerAssumption DEF Start
<1>2. /\ StartFrom(d, cb, active, free, truth)
      /\ currentTime' = currentTime
  BY DEF Start
<1>3. /\ QueueOK(currentTime, active', truth', free')
      /\ AllLater(truth')
      /\ mode' \in {mode, "exited"}
  BY <1>1, <1>2, StartKeeps
<1>. QED
  BY <1>1, <1>2, <1>3, NextQInv

LEMMA ExpireQInv ==
  ASSUME QInv, Expire
  PROVE  QInv'
<1>1. /\ currentTime \in 0 .. TIME_WRAP - 1 /\ currentTime \in Int
      /\ QueueOK(currentTime, active, truth, free)
      /\ mode = "expiring" /\ currentTime' = currentTime
      /\ Released(free) = free + 1
  BY QInvIsQueueOK, TimerAssumption DEF Expire, Released
<1>2. QueueOK(currentTime, Tail(active), Tail(truth), Released(free))
  BY <1>1, TailKeeps DEF Expire
<1>3. CASE /\ active' = Tail(active) /\ free' = Released(free)
           /\ truth' = Tail(truth) /\ UNCHANGED mode
  BY <1>1, <1>2, <1>3, NextQInv
<1>4. CASE \E d \in Delay, cb \in Callback :
             StartFrom(d, cb, Tail(active), Released(free), Tail(truth))
  <2>1. PICK d \in Delay, cb \in Callback :
               StartFrom(d, cb, Tail(active), Released(free), Tail(truth))
    BY <1>4
  <2>2. /\ QueueOK(currentTime, active', truth', free')
        /\ mode' \in {mode, "exited"}
    BY <1>1, <1>2, <2>1, StartKeeps
  <2>. QED
    BY <1>1, <2>2, NextQInv
<1>. QED
  BY <1>3, <1>4 DEF Expire

LEMMA TickBeginQInv ==
  ASSUME QInv, TickBegin
  PROVE  QInv'
<1>. DEFINE now == currentTime + CC_PER_INSTR
            wrap == now >= TIME_WRAP
            n == Len(active)
<1>1. /\ currentTime \in 0 .. TIME_WRAP - 1
      /\ QueueOK(currentTime, active, truth, free) /\ AllLater(truth)
      /\ mode = "running" /\ mode' = "expiring" /\ free' = free
  BY QInvIsQueueOK DEF TickBegin
<1>2. /\ currentTime' = IF wrap THEN now - TIME_WRAP ELSE now
      /\ active' = [k \in DOMAIN active |-> Wrapped(wrap, active[k])]
      /\ truth' = [k \in DOMAIN truth |-> [age |-> truth[k].age + CC_PER_INSTR,
                                           left |-> truth[k].left - CC_PER_INSTR]]
  BY DEF TickBegin
<1>3. /\ CC_PER_INSTR \in Nat \ {0} /\ TIME_WRAP \in Nat
      /\ TIME_WRAP >= CC_PER_INSTR /\ now \in Int
  BY <1>1, TimerAssumption
<1>4. currentTime' \in 0 .. TIME_WRAP - 1
  BY <1>1, <1>2, <1>3
<1>5. /\ active \in Seq(Entry) /\ truth \in Seq(Stamp)
      /\ n \in Nat /\ Len(truth) = n
      /\ DOMAIN active = 1 .. n /\ DOMAIN truth = 1 .. n
      /\ \A k \in 1 .. n : /\ active[k] \in Entry /\ truth[k] \in Stamp
                           /\ active[k].alarm - currentTime = truth[k].left
  BY <1>1, LenProperties, ElementOfSeq DEF QueueOK, Parallel
<1>6. ASSUME NEW k \in 1 .. n
      PROVE  /\ active'[k] \in Entry
             /\ active'[k].alarm = IF wrap THEN active[k].alarm - TIME_WRAP
                                           ELSE active[k].alarm
             /\ truth'[k] \in Stamp
             /\ truth'[k].age = truth[k].age + CC_PER_INSTR
             /\ truth'[k].left = truth[k].left - CC_PER_INSTR
  <2>1. active[k] \in Entry /\ truth[k] \in Stamp
    BY <1>5
  <2>2. active'[k] = Wrapped(wrap, active[k])
    BY <1>2, <1>5
  <2>3. truth'[k] = [age |-> truth[k].age + CC_PER_INSTR,
                     left |-> truth[k].left - CC_PER_INSTR]
    BY <1>2, <1>5
  <2>. HIDE DEF wrap
  <2>4. /\ active'[k] \in Entry
        /\ active'[k].alarm = IF wrap THEN active[k].alarm - TIME_WRAP
                                      ELSE active[k].alarm
    BY <1>3, <2>1, <2>2 DEF Wrapped, Entry
  <2>5. /\ truth'[k] \in Stamp
        /\ truth'[k].age = truth[k].age + CC_PER_INSTR
        /\ truth'[k].left = truth[k].left - CC_PER_INSTR
    BY <1>3, <2>1, <2>3 DEF Stamp
  <2>. QED
    BY <2>4, <2>5
<1>7. /\ active' \in Seq(Entry) /\ Len(active') = n
      /\ truth' \in Seq(Stamp) /\ Len(truth') = n
  <2>1. active' = [k \in 1 .. n |-> active'[k]] /\ truth' = [k \in 1 .. n |-> truth'[k]]
    BY <1>2, <1>5
  <2>2. active' \in [1 .. n -> Entry] /\ truth' \in [1 .. n -> Stamp]
    BY <1>6, <2>1
  <2>. QED
    BY <1>5, <2>2, LenProperties
<1>8. Parallel(currentTime', active', truth')
  <2>1. ASSUME NEW k \in 1 .. n
        PROVE  active'[k].alarm - currentTime' = truth'[k].left
    <3>1. /\ active[k].alarm \in Int /\ truth[k].left \in Int
          /\ active[k].alarm - currentTime = truth[k].left
      BY <1>5 DEF Entry, Stamp
    <3>2. /\ active'[k].alarm = IF wrap THEN active[k].alarm - TIME_WRAP
                                        ELSE active[k].alarm
          /\ truth'[k].left = truth[k].left - CC_PER_INSTR
      BY <1>6
    <3>3. currentTime \in Int
      BY <1>1, <1>3
    <3>4. CASE wrap
      BY <1>2, <1>3, <3>1, <3>2, <3>3, <3>4
    <3>5. CASE ~wrap
      BY <1>2, <1>3, <3>1, <3>2, <3>3, <3>5
    <3>. QED
      BY <3>4, <3>5
  <2>. QED
    BY <1>7, <2>1 DEF Parallel
<1>9. Sorted(truth')
  <2>1. SUFFICES ASSUME NEW k \in 1 .. n, NEW m \in 1 .. n, k < m
                 PROVE  Precedes(truth'[k], truth'[m])
    BY <1>7 DEF Sorted
  <2>2. Precedes(truth[k], truth[m])
    BY <1>1, <1>5, <2>1 DEF QueueOK, Sorted
  <2>3. /\ truth[k].left \in Int /\ truth[m].left \in Int
        /\ truth[k].age \in Nat /\ truth[m].age \in Nat
    BY <1>5 DEF Stamp
  <2>4. /\ truth'[k].left = truth[k].left - CC_PER_INSTR
        /\ truth'[m].left = truth[m].left - CC_PER_INSTR
        /\ truth'[k].age = truth[k].age + CC_PER_INSTR
        /\ truth'[m].age = truth[m].age + CC_PER_INSTR
    BY <1>6
  <2>5. CASE truth[k].left < truth[m].left
    <3>1. truth'[k].left < truth'[m].left
      BY <1>3, <2>3, <2>4, <2>5
    <3>. QED
      BY <3>1 DEF Precedes
  <2>6. CASE truth[k].left = truth[m].left /\ truth[k].age >= truth[m].age
    <3>1. truth'[k].left = truth'[m].left /\ truth'[k].age >= truth'[m].age
      BY <1>3, <2>3, <2>4, <2>6
    <3>. QED
      BY <3>1 DEF Precedes
  <2>. QED
    BY <2>2, <2>5, <2>6 DEF Precedes
<1>10. NotOverdue(truth')
  <2>1. ASSUME NEW k \in 1 .. n
        PROVE  truth'[k].left > -CC_PER_INSTR
    <3>1. truth[k].left \in Int /\ truth[k].left > 0
      BY <1>1, <1>5 DEF AllLater, Stamp
    <3>. QED
      BY <1>3, <1>6, <3>1
  <2>. QED
    BY <1>7, <2>1 DEF NotOverdue
<1>11. QueueOK(currentTime', active', truth', free')
  BY <1>1, <1>5, <1>7, <1>8, <1>9, <1>10 DEF QueueOK
<1>. QED
  BY <1>1, <1>4, <1>11, NextQInv

\* The tick is over: the first timer, and so every timer, expires later.
LEMMA TickEndQInv ==
  ASSUME QInv, TickEnd
  PROVE  QInv'
<1>. DEFINE n == Len(active)
<1>1. /\ currentTime \in 0 .. TIME_WRAP - 1 /\ currentTime \in Int
      /\ QueueOK(currentTime, active, truth, free)
      /\ mode' = "running" /\ UNCHANGED qvars
  BY QInvIsQueueOK, TimerAssumption DEF TickEnd
<1>2. /\ active \in Seq(Entry) /\ n \in Nat /\ Len(truth) = n
      /\ \A k \in 1 .. n : /\ active[k] \in Entry /\ truth[k] \in Stamp
                           /\ active[k].alarm - currentTime = truth[k].left
  BY <1>1, LenProperties, ElementOfSeq DEF QueueOK, Parallel
<1>3. ASSUME NEW k \in 1 .. n
      PROVE  truth[k].left > 0
  <2>1. active # <<>> /\ 1 \in 1 .. n
    BY <1>2, <1>3, EmptySeq
  <2>2. ~(currentTime >= active[1].alarm)
    BY <1>2, <2>1 DEF TickEnd, Expired
  <2>3. /\ active[1].alarm \in Int /\ truth[1].left \in Int /\ truth[k].left \in Int
        /\ active[1].alarm - currentTime = truth[1].left
    BY <1>2, <2>1 DEF Entry, Stamp
  <2>4. truth[1].left > 0
    BY <1>1, <2>2, <2>3
  <2>5. k = 1 \/ Precedes(truth[1], truth[k])
    BY <1>1, <1>2, <2>1 DEF QueueOK, Sorted
  <2>. QED
    BY <2>3, <2>4, <2>5 DEF Precedes
<1>4. AllLater(truth)
  BY <1>2, <1>3 DEF AllLater
<1>. QED
  BY <1>1, <1>4, NextQInv DEF qvars, QueueOK, AllLater

LEMMA ResetQInv ==
  ASSUME QInv, Reset
  PROVE  QInv'
<1>1. /\ active' = <<>> /\ truth' = <<>> /\ free' = free + Len(active)
      /\ currentTime' = currentTime /\ mode' = mode
  BY DEF Reset
<1>2. free' = NUMBER_TIMERS
  BY <1>1 DEF QInv, PoolConserved
<1>3. currentTime \in 0 .. TIME_WRAP - 1 /\ currentTime \in Int
  BY TimerAssumption DEF QInv
<1>4. QueueOK(currentTime, <<>>, <<>>, NUMBER_TIMERS) /\ AllLater(<<>>)
  BY <1>3, EmptyQueue
<1>. QED
  BY <1>1, <1>2, <1>3, <1>4, NextQInv DEF QInv

LEMMA StepQInv == QInv /\ [Next]_tvars => QInv'
<1>. SUFFICES ASSUME QInv, [Next]_tvars
              PROVE  QInv'
  OBVIOUS
<1>1. CASE \E d \in Delay, cb \in Callback : Start(d, cb)
  BY <1>1, StartQInv
<1>2. CASE TickBegin
  BY <1>2, TickBeginQInv
<1>3. CASE Expire
  BY <1>3, ExpireQInv
<1>4. CASE TickEnd
  BY <1>4, TickEndQInv
<1>5. CASE Reset
  BY <1>5, ResetQInv
<1>6. ASSUME UNCHANGED <<qvars, mode>>
      PROVE  QInv'
  BY <1>6 DEF qvars, QInv, Parallel, Sorted, NotOverdue, PoolConserved
<1>7. CASE \E i \in Counter :
             \/ ReadCtrl(i)
             \/ \E ien \in BOOLEAN : WriteCtrl(i, ien)
             \/ \E d \in Divisor : WriteDivisor(i, d)
  BY <1>6, <1>7 DEF ReadCtrl, WriteCtrl, WriteDivisor
<1>8. CASE UNCHANGED tvars
  BY <1>6, <1>8 DEF tvars
<1>. QED
  BY <1>1, <1>2, <1>3, <1>4, <1>5, <1>7, <1>8 DEF Next

LEMMA QueueInvariant == Spec => []QInv
BY InitQInv, StepQInv, PTL DEF Spec

-------------------------------------------------------------------------------
(* The timer/counter device *)

CounterType == [exp : BOOLEAN, ien : BOOLEAN, divisor : Word, counter : Word]

CInv ==
  /\ counters \in [Counter -> CounterType]
  /\ phase \in [Counter -> Nat]
  /\ irqPending \subseteq Counter
  /\ IrqIsExpAndIen
  /\ CounterKeepsPeriod

\* A counter that expires keeps its phase: the machine word does not wrap.
LEMMA SmallMod ==
  ASSUME NEW x \in Word
  PROVE  x % WordSize = x
BY TimerAssumption DEF Word

LEMMA WordMod ==
  ASSUME NEW x \in Int
  PROVE  x % WordSize \in Word
BY TimerAssumption DEF Word

LEMMA CountedType ==
  ASSUME NEW c \in CounterType
  PROVE  /\ Counted(c) \in CounterType
         /\ Counted(c).ien = c.ien /\ Counted(c).divisor = c.divisor
         /\ Counted(c).exp = (c.exp \/ c.counter <= CC_PER_INSTR)
         /\ Counted(c).counter =
              IF c.counter <= CC_PER_INSTR
                THEN (c.counter + c.divisor - CC_PER_INSTR) % WordSize
                ELSE c.counter - CC_PER_INSTR
<1>1. /\ c.counter \in Nat /\ c.divisor \in Nat /\ c.counter \in Word
      /\ CC_PER_INSTR \in Nat
  BY TimerAssumption DEF CounterType, Word
<1>2. CASE c.counter <= CC_PER_INSTR
  <2>1. (c.counter + c.divisor - CC_PER_INSTR) % WordSize \in Word
    BY <1>1, WordMod
  <2>. QED
    BY <1>2, <2>1 DEF Counted, CounterType
<1>3. CASE ~(c.counter <= CC_PER_INSTR)
  <2>1. c.counter - CC_PER_INSTR \in Word
    BY <1>1, <1>3, TimerAssumption DEF Word
  <2>. QED
    BY <1>3, <2>1 DEF Counted, CounterType
<1>. QED
  BY <1>2, <1>3

LEMMA InitCInv == Init => CInv
<1>1. WordSize - 1 \in Word /\ 0 \in Nat
  BY TimerAssumption DEF Word
<1>2. SUFFICES ASSUME Init PROVE CInv
  OBVIOUS
<1>3. ASSUME NEW i \in Counter
      PROVE  /\ counters[i] \in CounterType /\ ~counters[i].exp
             /\ counters[i].divisor = WordSize - 1
             /\ counters[i].counter = WordSize - 1 /\ phase[i] = 0
  BY <1>1, <1>2 DEF Init, CounterType
<1>4. /\ counters \in [Counter -> CounterType] /\ phase \in [Counter -> Nat]
      /\ irqPending = {}
  BY <1>2, <1>3 DEF Init
<1>5. CounterKeepsPeriod
  BY <1>3, TimerAssumption DEF CounterKeepsPeriod
<1>. QED
  BY <1>3, <1>4, <1>5 DEF CInv, IrqIsExpAndIen

LEMMA TickEndCInv ==
  ASSUME CInv, TickEnd
  PROVE  CInv'
<1>1. CC_PER_INSTR \in Nat \ {0}
  BY TimerAssumption
<1>2. ASSUME NEW i \in Counter
      PROVE  /\ counters[i] \in CounterType
             /\ counters'[i] = Counted(counters[i])
             /\ phase[i] \in Nat
             /\ phase'[i] = IF counters[i].divisor < CC_PER_INSTR THEN 0
                            ELSE IF phase[i] + CC_PER_INSTR >= counters[i].divisor
                              THEN phase[i] + CC_PER_INSTR - counters[i].divisor
                              ELSE phase[i] + CC_PER_INSTR
             /\ i \in irqPending' <=>
                  \/ i \in irqPending
                  \/ counters[i].counter <= CC_PER_INSTR /\ counters[i].ien
  BY DEF CInv, TickEnd
<1>3. counters' \in [Counter -> CounterType] /\ irqPending' \subseteq Counter
  BY <1>2, CountedType DEF CInv, TickEnd
<1>4. ASSUME NEW i \in Counter
      PROVE  phase'[i] \in Nat
  <2>1. counters[i].divisor \in Nat
    BY <1>2, TimerAssumption DEF CounterType, Word
  <2>. QED
    BY <1>1, <1>2, <2>1
<1>5. phase' \in [Counter -> Nat]
  BY <1>4 DEF TickEnd
<1>6. IrqIsExpAndIen'
  <2>1. ASSUME NEW i \in Counter
        PROVE  i \in irqPending' <=> counters'[i].exp /\ counters'[i].ien
    <3>1. /\ counters'[i].ien = counters[i].ien
          /\ counters'[i].exp = (counters[i].exp \/ counters[i].counter <= CC_PER_INSTR)
      BY <1>2, CountedType
    <3>. QED
      BY <1>2, <3>1 DEF CInv, IrqIsExpAndIen
  <2>. QED
    BY <2>1 DEF IrqIsExpAndIen
<1>7. CounterKeepsPeriod'
  <2>1. SUFFICES ASSUME NEW i \in Counter, counters'[i].divisor >= CC_PER_INSTR
                 PROVE  /\ phase'[i] < counters'[i].divisor
                        /\ counters'[i].counter = counters'[i].divisor - phase'[i]
    BY DEF CounterKeepsPeriod
  <2>. DEFINE c == counters[i]
              x == c.counter + c.divisor - CC_PER_INSTR
  <2>2. /\ c.counter \in Nat /\ c.divisor \in Nat /\ phase[i] \in Nat
        /\ c.divisor \in Word /\ c.counter \in Word
    BY <1>2, TimerAssumption DEF CounterType, Word
  <2>3. /\ counters'[i].divisor = c.divisor
        /\ counters'[i].counter = IF c.counter <= CC_PER_INSTR
                                    THEN x % WordSize
                                    ELSE c.counter - CC_PER_INSTR
    BY <1>2, CountedType
  <2>4. c.divisor >= CC_PER_INSTR
    BY <2>1, <2>3
  <2>5. phase[i] < c.divisor /\ c.counter = c.divisor - phase[i]
    BY <2>4 DEF CInv, CounterKeepsPeriod
  <2>6. CASE c.counter <= CC_PER_INSTR
    <3>1. x \in 0 .. c.divisor
      BY <1>1, <2>2, <2>4, <2>5, <2>6
    <3>2. x % WordSize = x
      <4>1. x \in Word
        BY <2>2, <3>1, TimerAssumption DEF Word
      <4>. HIDE DEF x
      <4>. QED
        BY <4>1, SmallMod
    <3>3. phase'[i] = phase[i] + CC_PER_INSTR - c.divisor
      BY <1>1, <1>2, <2>2, <2>4, <2>5, <2>6
    <3>. QED
      BY <1>1, <2>2, <2>3, <2>4, <2>5, <2>6, <3>2, <3>3
  <2>7. CASE ~(c.counter <= CC_PER_INSTR)
    <3>1. phase'[i] = phase[i] + CC_PER_INSTR
      BY <1>1, <1>2, <2>2, <2>4, <2>5, <2>7
    <3>. QED
      BY <1>1, <2>2, <2>3, <2>4, <2>5, <2>7, <3>1
  <2>. QED
    BY <2>6, <2>7
<1>. QED
  BY <1>3, <1>5, <1>6, <1>7 DEF CInv

\* Accesses to the registers of counter i.
LEMMA AccessCInv ==
  ASSUME CInv, NEW i \in Counter,
         \/ ReadCtrl(i)
         \/ \E ien \in BOOLEAN : WriteCtrl(i, ien)
         \/ \E d \in Divisor : WriteDivisor(i, d)
  PROVE  CInv'
<1>1. counters[i] \in CounterType
  BY DEF CInv
<1>2. CASE ReadCtrl(i)
  <2>1. counters' = [counters EXCEPT ![i] = counters'[i]]
    BY <1>2 DEF CInv, ReadCtrl
  <2>2. /\ counters'[i] \in CounterType
        /\ ~counters'[i].exp
        /\ counters'[i].divisor = counters[i].divisor
        /\ counters'[i].counter = counters[i].counter
        /\ \A j \in Counter : j # i => counters'[j] = counters[j]
    BY <1>1, <1>2 DEF CInv, ReadCtrl, CounterType
  <2>3. i \notin irqPending' /\ irqPending' \in {irqPending, irqPending \ {i}}
    BY <1>2 DEF CInv, ReadCtrl, ReadLowers, IrqIsExpAndIen
  <2>4. counters' \in [Counter -> CounterType] /\ irqPending' \subseteq Counter
    BY <2>2, <2>3, <1>2 DEF CInv, ReadCtrl
  <2>5. IrqIsExpAndIen'
    BY <2>2, <2>3 DEF CInv, IrqIsExpAndIen
  <2>6. CounterKeepsPeriod'
    BY <1>2, <2>2 DEF CInv, ReadCtrl, CounterKeepsPeriod
  <2>. QED
    BY <1>2, <2>4, <2>5, <2>6 DEF CInv, ReadCtrl
<1>3. CASE \E ien \in BOOLEAN : WriteCtrl(i, ien)
  <2>1. PICK ien \in BOOLEAN : WriteCtrl(i, ien)
    BY <1>3
  <2>2. /\ counters'[i] \in CounterType
        /\ counters'[i].exp = counters[i].exp
        /\ counters'[i].ien = ien
        /\ counters'[i].divisor = counters[i].divisor
        /\ counters'[i].counter = counters[i].counter
        /\ \A j \in Counter : j # i => counters'[j] = counters[j]
    BY <1>1, <2>1 DEF CInv, WriteCtrl, CounterType
  <2>3. irqPending' = IF ien /\ counters[i].exp
                        THEN irqPending \cup {i} ELSE irqPending \ {i}
    BY <2>1 DEF WriteCtrl
  <2>4. counters' \in [Counter -> CounterType] /\ irqPending' \subseteq Counter
    BY <2>1, <2>2, <2>3 DEF CInv, WriteCtrl
  <2>5. IrqIsExpAndIen'
    BY <2>2, <2>3 DEF CInv, IrqIsExpAndIen
  <2>6. CounterKeepsPeriod'
    BY <2>1, <2>2 DEF CInv, WriteCtrl, CounterKeepsPeriod
  <2>. QED
    BY <2>1, <2>4, <2>5, <2>6 DEF CInv, WriteCtrl
<1>4. CASE \E d \in Divisor : WriteDivisor(i, d)
  <2>1. PICK d \in Divisor : WriteDivisor(i, d)
    BY <1>4
  <2>2. d \in Word /\ d \in Nat /\ CC_PER_INSTR \in Nat \ {0}
    BY TimerAssumption DEF Word
  <2>3. /\ counters'[i] \in CounterType
        /\ counters'[i].exp = counters[i].exp
        /\ counters'[i].ien = counters[i].ien
        /\ counters'[i].divisor = d
        /\ counters'[i].counter = d
        /\ phase'[i] = 0
        /\ \A j \in Counter : j # i => counters'[j] = counters[j] /\ phase'[j] = phase[j]
    BY <1>1, <2>1, <2>2 DEF CInv, WriteDivisor, CounterType
  <2>4. counters' \in [Counter -> CounterType] /\ phase' \in [Counter -> Nat]
    BY <2>1, <2>3 DEF CInv, WriteDivisor
  <2>5. IrqIsExpAndIen'
    BY <2>1, <2>3 DEF CInv, WriteDivisor, IrqIsExpAndIen
  <2>6. CounterKeepsPeriod'
    BY <2>2, <2>3 DEF CInv, CounterKeepsPeriod
  <2>. QED
    BY <2>1, <2>4, <2>5, <2>6 DEF CInv, WriteDivisor
<1>. QED
  BY <1>2, <1>3, <1>4

LEMMA ResetCInv ==
  ASSUME Reset
  PROVE  CInv'
<1>1. WordSize - 1 \in Word /\ 0 \in Nat
  BY TimerAssumption DEF Word
<1>2. ASSUME NEW i \in Counter
      PROVE  /\ counters'[i] \in CounterType /\ ~counters'[i].exp
             /\ counters'[i].divisor = WordSize - 1
             /\ counters'[i].counter = WordSize - 1 /\ phase'[i] = 0
  BY <1>1 DEF Reset, ResetCounters, CounterType
<1>3. /\ counters' \in [Counter -> CounterType] /\ phase' \in [Counter -> Nat]
      /\ irqPending' = {}
  BY <1>2 DEF Reset, ResetCounters
<1>4. CounterKeepsPeriod'
  BY <1>2, TimerAssumption DEF CounterKeepsPeriod
<1>. QED
  BY <1>2, <1>3, <1>4 DEF CInv, IrqIsExpAndIen

LEMMA StepCInv == CInv /\ [Next]_tvars => CInv'
<1>. SUFFICES ASSUME CInv, [Next]_tvars
              PROVE  CInv'
  OBVIOUS
<1>1. ASSUME UNCHANGED cvars
      PROVE  CInv'
  BY <1>1 DEF cvars, CInv, IrqIsExpAndIen, CounterKeepsPeriod
<1>2. CASE \E d \in Delay, cb \in Callback : Start(d, cb)
  BY <1>1, <1>2 DEF Start
<1>3. CASE TickBegin \/ Expire
  BY <1>1, <1>3 DEF TickBegin, Expire
<1>4. CASE TickEnd
  BY <1>4, TickEndCInv
<1>5. CASE \E i \in Counter :
             \/ ReadCtrl(i)
             \/ \E ien \in BOOLEAN : WriteCtrl(i, ien)
             \/ \E d \in Divisor : WriteDivisor(i, d)
  BY <1>5, AccessCInv
<1>6. CASE Reset
  BY <1>6, ResetCInv
<1>7. CASE UNCHANGED tvars
  BY <1>1, <1>7 DEF tvars
<1>. QED
  BY <1>2, <1>3, <1>4, <1>5, <1>6, <1>7 DEF Next

LEMMA CounterInvariant == Spec => []CInv
BY InitCInv, StepCInv, PTL DEF Spec

-------------------------------------------------------------------------------
\* Wrapping the current time around never changes a pending delay, for any
\* wrap-around time that is at least one tick.
THEOREM DelaysSurviveWrap == Spec => []WrapKeepsDelays
<1>1. QInv => WrapKeepsDelays
  BY LenProperties DEF QInv, Parallel, WrapKeepsDelays
<1>. QED
  BY <1>1, QueueInvariant, PTL

\* Every timer runs in the first tick at or after its time, whatever delays and
\* callbacks the devices use.
THEOREM TimersRunInTime == Spec => []NoneOverdue
<1>1. QInv => NoneOverdue
  BY LenProperties DEF QInv, Parallel, NotOverdue, NoneOverdue
<1>. QED
  BY <1>1, QueueInvariant, PTL

\* Timers with equal alarm times run in the order in which they were started.
THEOREM TiesAreFair == Spec => []TiesFireInStartOrder
<1>1. QInv => TiesFireInStartOrder
  BY LenProperties DEF QInv, Parallel, Sorted, Precedes, TiesFireInStartOrder
<1>. QED
  BY <1>1, QueueInvariant, PTL

\* No timer of the pool is ever lost or in use twice.
THEOREM PoolIsConserved == Spec => []PoolConserved
<1>1. QInv => PoolConserved
  BY DEF QInv
<1>. QED
  BY <1>1, QueueInvariant, PTL

\* The interrupt line of a counter always equals expired and enabled.
THEOREM TimerIrqIsExact == Spec => []IrqIsExpAndIen
<1>1. CInv => IrqIsExpAndIen
  BY DEF CInv
<1>. QED
  BY <1>1, CounterInvariant, PTL

\* A counter with a divisor of at least one tick never drifts and its arithmetic
\* never overflows, for every word size above two ticks.
THEOREM CounterNeverDrifts == Spec => []CounterKeepsPeriod
<1>1. CInv => CounterKeepsPeriod
  BY DEF CInv
<1>. QED
  BY <1>1, CounterInvariant, PTL

\* Every reachable state of the timer module is well typed.
THEOREM TimerTypeCorrect == Spec => []TTypeOK
<1>1. QInv /\ CInv => TTypeOK
  <2>1. SUFFICES ASSUME QInv, CInv PROVE TTypeOK
    OBVIOUS
  <2>2. free \in 0 .. NUMBER_TIMERS
    <3>1. Len(active) \in Nat
      BY <2>1, LenProperties DEF QInv, Parallel
    <3>. QED
      BY <2>1, <3>1, TimerAssumption DEF QInv, PoolConserved
  <2>. QED
    BY <2>1, <2>2 DEF QInv, CInv, Parallel, Entry, Stamp, CounterType, TTypeOK
<1>. QED
  BY <1>1, QueueInvariant, CounterInvariant, PTL
=============================================================================
