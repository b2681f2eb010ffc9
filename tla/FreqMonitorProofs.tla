------------------------- MODULE FreqMonitorProofs --------------------------
(***************************************************************************)
(* Proofs about FreqMonitor for any configurations, periods, counts, sleep *)
(* and lag.                                                                *)
(***************************************************************************)
EXTENDS FreqMonitor, SequenceTheorems, FiniteSetTheorems, NaturalsInduction,
        WellFoundedInduction, TLAPS

-----------------------------------------------------------------------------
(* The inductive invariant                                                 *)

Sorted(h) == \A j, k \in DOMAIN h : j <= k => h[j] <= h[k]

\* q holds the last Len(q) elements of h.
Remains(q, h) ==
  Len(q) <= Len(h) /\ \A j \in DOMAIN q : q[j] = h[Len(h) - Len(q) + j]

\* The indices of h that q, which remains of it, has lost.
Lost(q, h) == 1 .. (Len(h) - Len(q))

\* An item without usecrc has one up-bound queue, that of CRC 0.
OneQueue ==
  \A i \in Items : ~conf[i].usecrc =>
    /\ DOMAIN m_upfreq[i] \subseteq {0}
    /\ main.item = i => main.crc = 0

\* Only the queue of the match whose excess is being handled may be over the
\* bound: the count that UpExcess compares is at least that queue's length.
UpBounded ==
  \A i \in Items, c \in Crcs :
    Len(QueueOf(m_upfreq[i], c)) <=
      conf[i].upCount + (IF main.pc # "next" /\ main.item = i /\ main.crc = c THEN 1 ELSE 0)

DownBounded ==
  \A i \in Items : Len(QueueOf(m_downfreq[i], 0)) <= conf[i].downCount + HardSlack + 1

\* time(NULL) does not go back: time stamps are recorded in order.
InOrder ==
  \A i \in Items :
    /\ \A c \in Crcs : Sorted(upHistory[i][c]) /\ \A j \in DOMAIN upHistory[i][c] : upHistory[i][c][j] <= now
    /\ Sorted(downHistory[i]) /\ \A j \in DOMAIN downHistory[i] : downHistory[i][j] <= now
    /\ lastFire[i] <= now

\* An up-bound queue has lost nothing but matches older than the period.
UpWindow ==
  \A i \in Items, c \in Crcs :
    LET q == QueueOf(m_upfreq[i], c)
        h == upHistory[i][c]
    IN Remains(q, h) /\ \A j \in Lost(q, h) : h[j] < now - conf[i].upTime

\* The down-bound queue has lost old matches, matches up to the last action
\* and, while it is at its hard limit, any other.
DownWindow ==
  \A i \in Items :
    LET q == QueueOf(m_downfreq[i], 0)
        h == downHistory[i]
    IN /\ Remains(q, h)
       /\ \A j \in Lost(q, h) :
            \/ h[j] < now - conf[i].downTime
            \/ h[j] <= lastFire[i]
            \/ Len(q) > conf[i].downCount + HardSlack

\* The clock of the down-bound thread: how late it may be, and what a pass
\* knows of the time.
Clock ==
  /\ alive => now <= Lag + (IF down.pc = "sleep" THEN down.wake ELSE down.tnow)
  /\ down.start_time <= now
  /\ down.pc = "sleep" => down.item = 1 /\ down.wake <= now + SleepSecs
  /\ down.pc # "sleep" =>
       /\ down.tnow <= now
       /\ down.uptime <= down.tnow
       /\ down.start_time \in {down.tnow - down.uptime, down.tnow}

\* The pass has pruned item i.
Pruned(i) == i < down.item \/ (i = down.item /\ down.pc \in {"check", "fire"})

\* What can be in an up-bound queue that is pruned as a whole, by the last pass
\* that got to the item.
UpFresh ==
  \A i \in Items : ~conf[i].usecrc =>
    LET q == QueueOf(m_upfreq[i], 0)
        from == IF down.pc = "sleep" THEN down.wake - SleepSecs - Lag
                ELSE IF Pruned(i) THEN down.tnow
                ELSE down.tnow - 2 * Lag - SleepSecs
    IN \A j \in DOMAIN q : q[j] >= from - conf[i].upTime

\* What is in the down-bound queue of an item this pass has pruned.
DownFresh ==
  \A i \in Items : down.pc # "sleep" /\ Pruned(i) =>
    LET q == QueueOf(m_downfreq[i], 0)
    IN \A j \in DOMAIN q : q[j] >= down.tnow - conf[i].downTime

\* start_time trails an item's last action by no more than the pass of that
\* action took; so does the start of uptime while the item is not decided.
FiresApart ==
  \A i \in Items :
    /\ lastFire[i] <= down.start_time + Lag
    /\ down.pc # "sleep" /\ down.item <= i => lastFire[i] <= down.tnow - down.uptime + Lag

\* The condition of DownCheck is evaluated on its way to DownFire.
FireDecided ==
  down.pc = "fire" =>
    conf[down.item].downCount > 0 /\ down.uptime > conf[down.item].downTime

ShortestPeriod(i) ==
  \A k \in Items : conf[k].downCount > 0 => conf[i].downTime <= conf[k].downTime

\* How far a quiet item i of the shortest period D can be behind.  Before the
\* pass decides on it, start_time has been set to tnow only if uptime is over
\* D; after a pass decided against it, either uptime was not over D or there
\* was a match in the last D seconds.
ReportDue ==
  \A i \in Items : conf[i].downCount > 0 /\ ShortestPeriod(i) =>
    LET Q == QuietSince(i)
        D == conf[i].downTime
    IN /\ down.pc = "sleep" =>
            /\ down.start_time <= Q + D
            /\ down.wake - SleepSecs - Lag <= Q + 2 * D
       /\ down.pc # "sleep" /\ down.item <= i =>
            /\ down.tnow - down.uptime <= Q + D
            /\ down.tnow <= Q + 2 * D + 2 * Lag + SleepSecs
            /\ down.uptime > D \/ down.start_time = down.tnow - down.uptime
       /\ down.pc # "sleep" /\ down.item > i =>
            /\ down.start_time <= Q + D
            /\ down.tnow <= Q + 2 * D
            /\ down.uptime > D => down.tnow <= Q + D

\* Every part that the proof of a step needs.
FreqInv ==
  /\ TypeOK
  /\ OneQueue /\ UpBounded /\ DownBounded
  /\ InOrder /\ UpWindow /\ DownWindow
  /\ Clock /\ UpFresh /\ DownFresh
  /\ FiresApart /\ FireDecided /\ ReportDue

-----------------------------------------------------------------------------
(* Queues of time stamps                                                   *)

\* A loop over the numbers that can end has a first place to end.
LEMMA FirstOf ==
  ASSUME NEW S \in SUBSET Nat, S # {}
  PROVE  \E x \in S : \A y \in S : x <= y
<1>1. \E x \in S : \A y \in S : ~(<<y, x>> \in OpToRel(<, Nat))
  BY NatLessThanWellFounded, WFMin
<1>2. ASSUME NEW x \in Nat, NEW y \in Nat, y < x
      PROVE  <<y, x>> \in OpToRel(<, Nat)
  BY <1>2, Zenon DEF OpToRel
<1>3. \E x \in S : \A y \in S : ~(y < x)
  BY <1>1, <1>2
<1> QED BY <1>3

\* What is left of a queue without its first n elements.
LEMMA Suffix ==
  ASSUME NEW q \in Seq(Nat), NEW n \in 0..Len(q)
  PROVE  LET r == SubSeq(q, n + 1, Len(q))
         IN /\ r \in Seq(Nat) /\ Len(r) = Len(q) - n
            /\ Remains(r, q)
<1>1. \A i \in (n + 1)..Len(q) : q[i] \in Nat
  BY ElementOfSeq
<1> DEFINE r == SubSeq(q, n + 1, Len(q))
<1>2. /\ r \in Seq(Nat)
      /\ Len(r) = IF n + 1 <= Len(q) THEN Len(q) - (n + 1) + 1 ELSE 0
      /\ \A i \in 1 .. Len(q) - (n + 1) + 1 : r[i] = q[(n + 1) + i - 1]
  BY <1>1, SubSeqProperties
<1>3. Len(r) = Len(q) - n /\ DOMAIN r = 1..(Len(q) - n)
  BY <1>2
<1> HIDE DEF r
<1>4. \A j \in 1..(Len(q) - n) : r[j] = q[n + j]
  BY <1>2
<1>5. Len(q) - Len(r) = n /\ Len(r) <= Len(q)
  BY <1>3
<1>6. Remains(r, q)
  BY <1>3, <1>4, <1>5, Zenon DEF Remains
<1> QED BY <1>2, <1>3, <1>6 DEF r

\* The loop of removeDeprecated stops at the first event that is not stale.
LEMMA FreshStops ==
  ASSUME NEW q \in Seq(Nat), NEW depr \in Int
  PROVE  \E n \in 0..Len(q) :
           /\ Fresh(q, depr) = SubSeq(q, n + 1, Len(q))
           /\ \A j \in 1..n : q[j] < depr
           /\ n < Len(q) => q[n + 1] >= depr
<1> DEFINE Ends == {n \in 0..Len(q) : n < Len(q) => q[n + 1] >= depr}
<1>1. Len(q) \in Ends /\ Ends \in SUBSET Nat
  OBVIOUS
<1>2. PICK n \in Ends : \A m \in Ends : n <= m
  BY <1>1, FirstOf
<1>3. \A j \in 1..n : q[j] < depr
  <2> SUFFICES ASSUME NEW j \in 1..n, ~(q[j] < depr) PROVE FALSE
    OBVIOUS
  <2>1. q[j] \in Nat
    BY ElementOfSeq
  <2>2. j - 1 \in Ends
    BY <2>1, q[(j - 1) + 1] >= depr
  <2> HIDE DEF Ends
  <2>3. n <= j - 1
    BY <1>2, <2>2
  <2> QED BY <2>3, <1>1
<1>4. \E m \in 0..Len(q) : (\A j \in 1..m : q[j] < depr) /\ (m < Len(q) => q[m + 1] >= depr)
  BY <1>2, <1>3
<1> QED BY <1>4 DEF Fresh

\* It keeps the end of the queue, drops only stale events and, because time
\* stamps are in order, keeps none that is stale.
LEMMA FreshProperties ==
  ASSUME NEW q \in Seq(Nat), NEW depr \in Int
  PROVE  LET r == Fresh(q, depr)
         IN /\ r \in Seq(Nat)
            /\ Remains(r, q)
            /\ \A j \in Lost(r, q) : q[j] < depr
            /\ Sorted(q) => \A j \in DOMAIN r : r[j] >= depr
<1>1. PICK n \in 0..Len(q) : /\ Fresh(q, depr) = SubSeq(q, n + 1, Len(q))
                             /\ \A j \in 1..n : q[j] < depr
                             /\ n < Len(q) => q[n + 1] >= depr
  BY FreshStops
<1> DEFINE r == Fresh(q, depr)
<1>2. r \in Seq(Nat) /\ Len(r) = Len(q) - n /\ Remains(r, q)
  BY <1>1, Suffix
<1> HIDE DEF r
<1>3. \A j \in Lost(r, q) : q[j] < depr
  BY <1>1, <1>2 DEF Lost
<1>4. ASSUME Sorted(q), NEW j \in DOMAIN r PROVE r[j] >= depr
  <2>1. j \in 1..(Len(q) - n) /\ r[j] = q[n + j]
    BY <1>2 DEF Remains
  <2>2. n + 1 \in DOMAIN q /\ n + j \in DOMAIN q /\ n + 1 <= n + j
    BY <2>1
  <2>3. q[n + 1] <= q[n + j] /\ q[n + 1] \in Nat /\ q[n + j] \in Nat
    BY <1>4, <2>2, ElementOfSeq DEF Sorted
  <2> QED BY <1>1, <2>1, <2>3
<1> QED BY <1>2, <1>3, <1>4 DEF r

\* What remains of what remains.
LEMMA RemainsOf ==
  ASSUME NEW r \in Seq(Nat), NEW q \in Seq(Nat), NEW h \in Seq(Nat),
         Remains(r, q), Remains(q, h)
  PROVE  /\ Remains(r, h)
         /\ \A j \in Lost(r, h) : j \in Lost(q, h) \/ (\E k \in Lost(r, q) : h[j] = q[k])
<1>1. Len(r) \in Nat /\ Len(q) \in Nat /\ Len(h) \in Nat /\ Len(r) <= Len(q) /\ Len(q) <= Len(h)
  BY DEF Remains
<1>2. ASSUME NEW j \in DOMAIN r PROVE r[j] = h[Len(h) - Len(r) + j]
  <2>1. j \in 1..Len(r)
    OBVIOUS
  <2>2. r[j] = q[Len(q) - Len(r) + j] /\ Len(q) - Len(r) + j \in DOMAIN q
    <3>1. Len(q) - Len(r) + j \in 1..Len(q)
      <4>1. \A a, b \in Nat : \A k \in 1..a : a <= b => b - a + k \in 1..b
        OBVIOUS
      <4> QED BY <1>1, <2>1, <4>1, Zenon
    <3>2. DOMAIN q = 1..Len(q)
      OBVIOUS
    <3> QED BY <3>1, <3>2, Zenon DEF Remains
  <2>3. q[Len(q) - Len(r) + j] = h[Len(h) - Len(q) + (Len(q) - Len(r) + j)]
    BY <2>2 DEF Remains
  <2>4. Len(h) - Len(q) + (Len(q) - Len(r) + j) = Len(h) - Len(r) + j
    BY <1>1, <2>1
  <2> QED BY <2>2, <2>3, <2>4
<1>3. ASSUME NEW j \in Lost(r, h), ~(j \in Lost(q, h)) PROVE \E k \in Lost(r, q) : h[j] = q[k]
  <2> DEFINE k == j - (Len(h) - Len(q))
  <2>1. k \in Lost(r, q) /\ k \in DOMAIN q /\ Len(h) - Len(q) + k = j
    BY <1>1, <1>3 DEF Lost
  <2>2. q[k] = h[Len(h) - Len(q) + k]
    BY <2>1 DEF Remains
  <2> QED BY <2>1, <2>2
<1> QED BY <1>1, <1>2, <1>3 DEF Remains

\* A queue whose newest event is recorded in the history as well.
LEMMA RemainsAppend ==
  ASSUME NEW q \in Seq(Nat), NEW h \in Seq(Nat), NEW t \in Nat, Remains(q, h)
  PROVE  /\ Remains(Append(q, t), Append(h, t))
         /\ \A j \in Lost(Append(q, t), Append(h, t)) : j \in Lost(q, h) /\ Append(h, t)[j] = h[j]
<1> DEFINE r == Append(q, t)
           g == Append(h, t)
<1>1. /\ r \in Seq(Nat) /\ Len(r) = Len(q) + 1 /\ (\A i \in 1..Len(q) : r[i] = q[i]) /\ r[Len(q) + 1] = t
      /\ g \in Seq(Nat) /\ Len(g) = Len(h) + 1 /\ (\A i \in 1..Len(h) : g[i] = h[i]) /\ g[Len(h) + 1] = t
  BY AppendProperties
<1>2. DOMAIN q = 1..Len(q) /\ DOMAIN r = 1..(Len(q) + 1) /\ Len(q) \in Nat /\ Len(h) \in Nat
  BY <1>1
<1> HIDE DEF r, g
<1>3. Len(q) <= Len(h) /\ \A j \in 1..Len(q) : q[j] = h[Len(h) - Len(q) + j]
  BY <1>2 DEF Remains
<1>4. ASSUME NEW j \in 1..(Len(q) + 1) PROVE r[j] = g[Len(g) - Len(r) + j]
  <2>1. CASE j = Len(q) + 1
    BY <1>1, <1>2, <1>3, <2>1
  <2>2. CASE j \in 1..Len(q)
    <3>1. Len(h) - Len(q) + j \in 1..Len(h) /\ Len(g) - Len(r) + j = Len(h) - Len(q) + j
      BY <1>1, <1>2, <1>3, <2>2
    <3> QED BY <1>1, <1>3, <2>2, <3>1
  <2> QED BY <1>2, <2>1, <2>2
<1>5. Remains(r, g)
  <2>1. Len(r) <= Len(g)
    BY <1>1, <1>2, <1>3
  <2> QED BY <1>2, <1>4, <2>1 DEF Remains
<1>6. ASSUME NEW j \in Lost(r, g) PROVE j \in Lost(q, h) /\ g[j] = h[j]
  <2>1. j \in 1..(Len(h) - Len(q)) /\ j \in 1..Len(h)
    BY <1>1, <1>2, <1>3, <1>6 DEF Lost
  <2> QED BY <1>1, <2>1 DEF Lost
<1> QED BY <1>5, <1>6 DEF r, g

-----------------------------------------------------------------------------
(* LNFreq                                                                  *)

\* pushEvent makes room from the front.
LEMMA DropProperties ==
  ASSUME NEW q \in Seq(Nat), NEW limit \in Nat
  PROVE  LET r == DropOldest(q, limit)
         IN /\ r \in Seq(Nat)
            /\ Len(r) <= limit
            /\ Remains(r, q)
            /\ Len(q) <= limit => r = q
            /\ Len(q) > limit => Len(r) = limit
<1>1. CASE Len(q) > limit
  <2>1. Len(q) - limit \in 0..Len(q) /\ Len(q) - limit + 1 = (Len(q) - limit) + 1
    BY <1>1
  <2>2. DropOldest(q, limit) = SubSeq(q, (Len(q) - limit) + 1, Len(q))
    BY <1>1 DEF DropOldest
  <2> DEFINE r == DropOldest(q, limit)
  <2>3. r \in Seq(Nat) /\ Len(r) = Len(q) - (Len(q) - limit) /\ Remains(r, q)
    BY <2>1, <2>2, Suffix
  <2> HIDE DEF r
  <2>4. Len(r) = limit
    BY <2>3
  <2> QED BY <1>1, <2>3, <2>4 DEF r
<1>2. CASE ~(Len(q) > limit)
  <2>1. DropOldest(q, limit) = q
    BY <1>2 DEF DropOldest
  <2>2. Remains(q, q)
    BY DEF Remains
  <2> QED BY <1>2, <2>1, <2>2
<1> QED BY <1>1, <1>2

\* A frequency without a queue for a CRC measures nothing of it.
LEMMA QueueType ==
  ASSUME NEW K, NEW ev, IsEvents(ev, K), NEW k
  PROVE  QueueOf(ev, k) \in Seq(Nat)
BY DEF IsEvents, QueueOf

\* pushEvent adds the key of the CRC if it is new.
LEMMA PushProperties ==
  ASSUME NEW K, NEW ev, IsEvents(ev, K), NEW count \in Nat, NEW crc \in K, NEW t \in Nat
  PROVE  /\ IsEvents(PushEvent(ev, count, crc, t), K)
         /\ DOMAIN PushEvent(ev, count, crc, t) = DOMAIN ev \cup {crc}
<1> DEFINE a == Append(DropOldest(QueueOf(ev, crc), count + HardSlack), t)
           e == PushEvent(ev, count, crc, t)
<1>1. a \in Seq(Nat)
  BY QueueType, DropProperties, AppendProperties, TimingAssumption
<1> HIDE DEF a
<1>2. e = [k \in DOMAIN ev \cup {crc} |-> IF k = crc THEN a ELSE ev[k]]
  BY DEF PushEvent, a
<1>3. \A k \in DOMAIN ev : ev[k] \in Seq(Nat)
  BY DEF IsEvents
<1> HIDE DEF e
<1>4. IsEvents(e, K)
  BY <1>1, <1>2, <1>3 DEF IsEvents
<1> QED BY <1>2, <1>4 DEF e

\* removeDeprecated treats each queue it visits and no other.
LEMMA PruneProperties ==
  ASSUME NEW K, NEW ev, IsEvents(ev, K), NEW depr \in Int, NEW v \in SUBSET DOMAIN ev
  PROVE  LET e == RemoveDeprecated(ev, depr, v)
         IN /\ IsEvents(e, K)
            /\ DOMAIN e \subseteq DOMAIN ev
            /\ \A k : QueueOf(e, k) = IF k \in v THEN Fresh(QueueOf(ev, k), depr) ELSE QueueOf(ev, k)
<1> DEFINE e == RemoveDeprecated(ev, depr, v)
           X == Erased(ev, depr) \cap v
<1>1. e = [k \in DOMAIN ev \ X |-> IF k \in v THEN Fresh(ev[k], depr) ELSE ev[k]]
  BY DEF RemoveDeprecated
<1>2. \A k \in X : k \in v /\ Fresh(ev[k], depr) = <<>>
  BY DEF Erased
<1> HIDE DEF e, X
<1>3. \A k \in DOMAIN ev : ev[k] \in Seq(Nat) /\ Fresh(ev[k], depr) \in Seq(Nat)
  <2>1. \A k \in DOMAIN ev : ev[k] \in Seq(Nat)
    BY DEF IsEvents
  <2> QED BY <2>1, FreshProperties
<1>4. IsEvents(e, K)
  BY <1>1, <1>3 DEF IsEvents
<1>5. ASSUME NEW k
      PROVE  QueueOf(e, k) = IF k \in v THEN Fresh(QueueOf(ev, k), depr) ELSE QueueOf(ev, k)
  <2>1. CASE k \in v
    BY <1>1, <1>2, <2>1 DEF QueueOf
  <2>2. CASE k \notin v
    BY <1>1, <1>2, <2>2 DEF QueueOf
  <2> QED BY <2>1, <2>2
<1> QED BY <1>1, <1>4, <1>5 DEF e

\* A map whose only key can be 0 is pruned as a whole, the erased iterator
\* notwithstanding.
LEMMA OneKeyVisited ==
  ASSUME NEW ev, IsEvents(ev, {0}), NEW depr \in Int, NEW v \in VisitedKeys(ev, depr)
  PROVE  v = DOMAIN ev
BY DEF VisitedKeys, LosesIterator, IsEvents

\* getMessuringCount counts at least the events of the CRC it is asked about,
\* and those alone if there is no other queue.
LEMMA CountProperties ==
  ASSUME NEW K, IsFiniteSet(K), NEW ev, IsEvents(ev, K), NEW crc \in K
  PROVE  /\ MeasuringCount(ev, crc) \in Nat
         /\ MeasuringCount(ev, crc) >= Len(QueueOf(ev, crc))
         /\ crc = 0 /\ DOMAIN ev \subseteq {0} => MeasuringCount(ev, 0) = Len(QueueOf(ev, 0))
<1>1. \A k \in DOMAIN ev : ev[k] \in Seq(Nat) /\ Len(ev[k]) \in Nat
  BY DEF IsEvents
<1>2. CASE crc # 0
  <2>1. MeasuringCount(ev, crc) = Len(QueueOf(ev, crc))
    BY <1>2 DEF MeasuringCount
  <2> QED BY <1>2, <2>1, QueueType
<1>3. CASE crc = 0
  <2> DEFINE Part(k) == {k} \X (1..Len(ev[k]))
             U == UNION {Part(k) : k \in DOMAIN ev}
  <2>1. MeasuringCount(ev, crc) = Cardinality(U) /\ MeasuringCount(ev, 0) = Cardinality(U)
    BY <1>3 DEF MeasuringCount
  <2>2. ASSUME NEW k \in DOMAIN ev
        PROVE  IsFiniteSet(Part(k)) /\ Cardinality(Part(k)) = Len(ev[k])
    <3>1. IsFiniteSet(1..Len(ev[k])) /\ Cardinality(1..Len(ev[k])) = Len(ev[k])
      <4> DEFINE n == Len(ev[k])
      <4>1. n \in Nat /\ n \in Int /\ 1 \in Int
        BY <1>1
      <4> HIDE DEF n
      <4>2. IsFiniteSet(1..n) /\ Cardinality(1..n) = IF 1 > n THEN 0 ELSE n - 1 + 1
        BY <4>1, FS_Interval
      <4>3. IsFiniteSet(1..n) /\ Cardinality(1..n) = n
        BY <4>1, <4>2
      <4> QED BY <4>3 DEF n
    <3>2. IsFiniteSet({k}) /\ Cardinality({k}) = 1
      BY FS_Singleton
    <3>3. IsFiniteSet(Part(k)) /\ Cardinality(Part(k)) = Cardinality({k}) * Cardinality(1..Len(ev[k]))
      BY <3>1, <3>2, FS_Product
    <3> QED BY <1>1, <3>1, <3>2, <3>3
  <2>3. IsFiniteSet(DOMAIN ev)
    BY FS_Subset DEF IsEvents
  <2>4. IsFiniteSet(U)
    <3> DEFINE Parts == {Part(k) : k \in DOMAIN ev}
               f == [k \in DOMAIN ev |-> Part(k)]
    <3>1. f \in Surjection(DOMAIN ev, Parts)
      BY DEF Surjection
    <3>2. IsFiniteSet(Parts)
      BY <2>3, <3>1, FS_Surjection
    <3>3. \A T \in Parts : IsFiniteSet(T)
      BY <2>2
    <3> QED BY <3>2, <3>3, FS_UNION
  <2>5. Cardinality(U) \in Nat
    BY <2>4, FS_CardinalityType
  <2>6. CASE 0 \in DOMAIN ev
    <3>1. Part(0) \subseteq U
      BY <2>6
    <3>2. Cardinality(Part(0)) <= Cardinality(U)
      BY <2>4, <3>1, FS_Subset
    <3>3. DOMAIN ev \subseteq {0} => U = Part(0)
      BY <2>6
    <3>4. QueueOf(ev, 0) = ev[0]
      BY <2>6 DEF QueueOf
    <3> HIDE DEF U, Part
    <3> QED BY <1>1, <1>3, <2>1, <2>2, <2>5, <2>6, <3>2, <3>3, <3>4
  <2>7. CASE 0 \notin DOMAIN ev
    <3>1. QueueOf(ev, 0) = <<>> /\ Len(<<>>) = 0
      BY <2>7 DEF QueueOf
    <3>2. DOMAIN ev \subseteq {0} => U = {}
      BY <2>7
    <3>3. Cardinality({}) = 0
      BY FS_EmptySet
    <3> HIDE DEF U
    <3> QED BY <1>3, <2>1, <2>5, <3>1, <3>2, <3>3
  <2> QED BY <2>6, <2>7
<1> QED BY <1>2, <1>3

\* resetMessuring empties every queue.
LEMMA ResetProperties ==
  ASSUME NEW K, NEW ev, IsEvents(ev, K)
  PROVE  /\ IsEvents(ResetMeasuring(ev), K)
         /\ DOMAIN ResetMeasuring(ev) = DOMAIN ev
         /\ \A k : QueueOf(ResetMeasuring(ev), k) = <<>>
BY DEF IsEvents, ResetMeasuring, QueueOf

-----------------------------------------------------------------------------
(* Types and the steps seen by one queue                                   *)

\* A configuration in force and the settings of its items.
LEMMA ConfFacts ==
  ASSUME conf \in Configs
  PROVE  /\ Len(conf) \in Nat /\ Len(conf) >= 1 /\ Items = 1..Len(conf)
         /\ \A i \in Items : /\ conf[i].usecrc \in BOOLEAN
                             /\ conf[i].upCount \in Nat /\ conf[i].upTime \in Nat
                             /\ conf[i].downCount \in Nat /\ conf[i].downTime \in Nat
<1>1. conf \in Seq(ItemSettings) /\ conf # <<>>
  BY ConfigsAssumption
<1>2. Len(conf) \in Nat /\ Len(conf) # 0 /\ Items = 1..Len(conf)
  BY <1>1, EmptySeq DEF Items
<1>3. \A i \in 1..Len(conf) : conf[i] \in ItemSettings
  BY <1>1, ElementOfSeq
<1> QED BY <1>2, <1>3 DEF ItemSettings

\* The main loop goes on with an item of the configuration.
LEMMA ItemDoneType ==
  ASSUME conf \in Configs, NEW i \in Items
  PROVE  ItemDone(i) \in [pc : {"next", "excess", "notify"}, item : Items, crc : Crcs]
<1>1. NextItem(i) \in Items
  BY ConfFacts DEF NextItem
<1> QED BY <1>1, CrcsAssumption DEF ItemDone

\* The fields of a record that is one of the down-bound thread's.
DownType == [pc : {"sleep", "prune", "check", "fire"}, item : Items, tnow : Nat,
             uptime : Nat, start_time : Nat, wake : Nat]

\* What the loop over the items does after one of them.
LEMMA AfterItemType ==
  ASSUME conf \in Configs, now \in Nat, NEW d \in DownType
  PROVE  /\ AfterItem(d) \in DownType
         /\ AfterItem(d).start_time = d.start_time
         /\ d.item = Len(conf) =>
              /\ AfterItem(d).pc = "sleep" /\ AfterItem(d).item = 1
              /\ AfterItem(d).wake = now + SleepSecs
         /\ d.item # Len(conf) =>
              /\ AfterItem(d).pc = "prune" /\ AfterItem(d).item = d.item + 1
              /\ AfterItem(d).tnow = d.tnow /\ AfterItem(d).uptime = d.uptime
<1>1. now + SleepSecs \in Nat
  BY TimingAssumption
<1>2. d.item \in Items /\ 1 \in Items /\ (d.item # Len(conf) => d.item + 1 \in Items)
  BY ConfFacts DEF DownType
<1> QED BY <1>1, <1>2 DEF AfterItem, DownType

\* What a match does to the item it is about.
LEMMA MatchTypes ==
  ASSUME TypeOK, NEW crc \in Crcs, Match(crc)
  PROVE  TypeOK'
<1> DEFINE i == main.item
<1>1. /\ conf' = conf /\ now' = now /\ alive' = alive /\ down' = down /\ lastFire' = lastFire
      /\ i \in Items
      /\ main' = [main EXCEPT !.pc = "excess", !.crc = crc]
      /\ m_upfreq' = [m_upfreq EXCEPT ![i] = PushEvent(m_upfreq[i], conf[i].upCount, crc, now)]
      /\ m_downfreq' = [m_downfreq EXCEPT ![i] = PushEvent(m_downfreq[i], conf[i].downCount, 0, now)]
      /\ upHistory' = [upHistory EXCEPT ![i][crc] = Append(upHistory[i][crc], now)]
      /\ downHistory' = [downHistory EXCEPT ![i] = Append(downHistory[i], now)]
  BY DEF Match, TypeOK
<1>2. Items' = Items
  BY <1>1 DEF Items
<1> HIDE DEF i
<1>3. IsEvents(PushEvent(m_upfreq[i], conf[i].upCount, crc, now), Crcs)
  BY <1>1, ConfFacts, PushProperties DEF TypeOK
<1>4. IsEvents(PushEvent(m_downfreq[i], conf[i].downCount, 0, now), {0})
  BY <1>1, ConfFacts, PushProperties DEF TypeOK
<1>5. DOMAIN m_upfreq' = Items /\ \A k \in Items : IsEvents(m_upfreq'[k], Crcs)
  BY <1>1, <1>3 DEF TypeOK
<1>6. DOMAIN m_downfreq' = Items /\ \A k \in Items : IsEvents(m_downfreq'[k], {0})
  BY <1>1, <1>4 DEF TypeOK
<1>7. main' \in [pc : {"next", "excess", "notify"}, item : Items, crc : Crcs]
  BY <1>1 DEF TypeOK
<1>8. upHistory' \in [Items -> [Crcs -> Seq(Nat)]] /\ downHistory' \in [Items -> Seq(Nat)]
  <2>1. upHistory[i] \in [Crcs -> Seq(Nat)] /\ now \in Nat /\ downHistory[i] \in Seq(Nat)
    BY <1>1 DEF TypeOK
  <2>2. Append(upHistory[i][crc], now) \in Seq(Nat) /\ Append(downHistory[i], now) \in Seq(Nat)
    BY <2>1
  <2>3. [upHistory[i] EXCEPT ![crc] = Append(upHistory[i][crc], now)] \in [Crcs -> Seq(Nat)]
    BY <2>1, <2>2
  <2> QED BY <1>1, <2>2, <2>3 DEF TypeOK
<1> QED BY <1>1, <1>2, <1>5, <1>6, <1>7, <1>8 DEF TypeOK

\* What a pruning does to its item, uv being the up-bound queues it visits,
\* unless it ends the process.
PrunedBy(uv) ==
  LET i == down.item IN
  \/ UNCHANGED <<m_upfreq, m_downfreq, down>> /\ alive' = FALSE
  \/ /\ uv \in VisitedKeys(m_upfreq[i], now - conf[i].upTime)
     /\ m_upfreq' = [m_upfreq EXCEPT ![i] = RemoveDeprecated(m_upfreq[i], now - conf[i].upTime, uv)]
     /\ m_downfreq' = [m_downfreq EXCEPT ![i] =
          RemoveDeprecated(m_downfreq[i], now - conf[i].downTime, DOMAIN m_downfreq[i])]
     /\ down' = [down EXCEPT !.pc = "check"]
     /\ alive' = alive

\* The down-bound frequency's one queue is always visited.
LEMMA PruneStep ==
  ASSUME TypeOK, DownPrune
  PROVE  \E uv : PrunedBy(uv)
<1> DEFINE i == down.item
<1>1. i \in Items /\ now - conf[i].downTime \in Int /\ IsEvents(m_downfreq[i], {0})
  BY ConfFacts DEF TypeOK
<1>2. CASE UNCHANGED <<m_upfreq, m_downfreq, down>> /\ alive' = FALSE
  BY <1>2 DEF PrunedBy
<1>3. CASE ~(UNCHANGED <<m_upfreq, m_downfreq, down>> /\ alive' = FALSE)
  <2>1. PICK dv \in VisitedKeys(m_downfreq[i], now - conf[i].downTime),
             uv \in VisitedKeys(m_upfreq[i], now - conf[i].upTime) :
          /\ m_downfreq' = [m_downfreq EXCEPT ![i] = RemoveDeprecated(m_downfreq[i], now - conf[i].downTime, dv)]
          /\ m_upfreq' = [m_upfreq EXCEPT ![i] = RemoveDeprecated(m_upfreq[i], now - conf[i].upTime, uv)]
          /\ down' = [down EXCEPT !.pc = "check"]
          /\ alive' = alive
    BY <1>3 DEF DownPrune
  <2>2. dv = DOMAIN m_downfreq[i]
    BY <1>1, OneKeyVisited
  <2> QED BY <2>1, <2>2 DEF PrunedBy
<1> QED BY <1>2, <1>3

\* The variables stay in their types.
LEMMA NextTypes ==
  ASSUME TypeOK, Clock, [Next]_vars
  PROVE  TypeOK' /\ conf' = conf /\ Items' = Items
<1>1. CASE NoMatch
  BY <1>1, ItemDoneType DEF NoMatch, TypeOK, Items
<1>2. CASE \E crc \in Crcs : Match(crc)
  BY <1>2, MatchTypes DEF Match, Items
<1>3. CASE UpExcess
  BY <1>3, ItemDoneType DEF UpExcess, TypeOK, Items
<1>4. CASE UpNotify
  <2>1. DOMAIN m_upfreq' = Items /\ \A k \in Items : IsEvents(m_upfreq'[k], Crcs)
    BY <1>4, ResetProperties DEF UpNotify, TypeOK
  <2>2. [c \in Crcs |-> <<>>] \in [Crcs -> Seq(Nat)]
    OBVIOUS
  <2>3. upHistory' \in [Items -> [Crcs -> Seq(Nat)]]
    BY <1>4, <2>2 DEF UpNotify, TypeOK
  <2>4. main' \in [pc : {"next", "excess", "notify"}, item : Items, crc : Crcs]
    BY <1>4, ItemDoneType DEF UpNotify, TypeOK
  <2> QED BY <1>4, <2>1, <2>3, <2>4 DEF UpNotify, TypeOK, Items
<1>5. CASE DownWake
  <2>1. now - down.start_time \in Nat
    BY <1>5 DEF Clock, TypeOK
  <2> QED BY <1>5, <2>1 DEF DownWake, TypeOK, Items
<1>6. CASE DownPrune
  <2>1. PICK uv : PrunedBy(uv)
    BY <1>6, PruneStep
  <2>2. /\ conf' = conf /\ now' = now /\ main' = main /\ alive' \in BOOLEAN
        /\ upHistory' = upHistory /\ downHistory' = downHistory /\ lastFire' = lastFire
    BY <1>6 DEF DownPrune, TypeOK
  <2>3. CASE UNCHANGED <<m_upfreq, m_downfreq, down>>
    BY <2>2, <2>3 DEF TypeOK, Items
  <2>4. CASE ~UNCHANGED <<m_upfreq, m_downfreq, down>>
    <3> DEFINE i == down.item
    <3>1. /\ i \in Items /\ now \in Nat /\ now - conf[i].upTime \in Int /\ now - conf[i].downTime \in Int
      <4>1. i \in Items /\ now \in Nat /\ conf \in Configs
        BY DEF TypeOK
      <4>2. conf[i].upTime \in Nat /\ conf[i].downTime \in Nat
        BY <4>1, ConfFacts
      <4> QED BY <4>1, <4>2
    <3>2. IsEvents(RemoveDeprecated(m_upfreq[i], now - conf[i].upTime, uv), Crcs)
      BY <2>1, <2>4, <3>1, PruneProperties DEF PrunedBy, VisitedKeys, TypeOK
    <3>3. IsEvents(RemoveDeprecated(m_downfreq[i], now - conf[i].downTime, DOMAIN m_downfreq[i]), {0})
      BY <3>1, PruneProperties DEF TypeOK
    <3>4. DOMAIN m_upfreq' = Items /\ \A k \in Items : IsEvents(m_upfreq'[k], Crcs)
      BY <2>1, <2>4, <3>2 DEF PrunedBy, TypeOK
    <3>5. DOMAIN m_downfreq' = Items /\ \A k \in Items : IsEvents(m_downfreq'[k], {0})
      BY <2>1, <2>4, <3>3 DEF PrunedBy, TypeOK
    <3>6. down' = [down EXCEPT !.pc = "check"]
      BY <2>1, <2>4 DEF PrunedBy
    <3> QED BY <2>2, <3>4, <3>5, <3>6 DEF TypeOK, Items
  <2> QED BY <2>3, <2>4
<1>7. CASE DownCheck
  <2>1. down' \in DownType
    BY <1>7, AfterItemType DEF DownCheck, TypeOK, DownType
  <2> QED BY <1>7, <2>1 DEF DownCheck, TypeOK, DownType, Items
<1>8. CASE DownFire
  <2> DEFINE d == [down EXCEPT !.start_time = down.tnow]
  <2>1. d \in DownType /\ down' = AfterItem(d)
    BY <1>8 DEF DownFire, TypeOK, DownType
  <2> HIDE DEF d
  <2>2. down' \in DownType
    BY <2>1, AfterItemType DEF TypeOK
  <2>3. DOMAIN m_downfreq' = Items /\ \A k \in Items : IsEvents(m_downfreq'[k], {0})
    BY <1>8, ResetProperties DEF DownFire, TypeOK
  <2> QED BY <1>8, <2>2, <2>3 DEF DownFire, TypeOK, DownType, Items
<1>9. CASE Tick
  BY <1>9 DEF Tick, TypeOK, Items
<1>10. CASE UNCHANGED vars
  BY <1>10 DEF vars, TypeOK, Items
<1> QED BY <1>1, <1>2, <1>3, <1>4, <1>5, <1>6, <1>7, <1>8, <1>9, <1>10 DEF Next

\* What a step may do to the up-bound queue and history of item i and CRC c.
UpChange(i, c) ==
  LET q  == QueueOf(m_upfreq[i], c)
      q1 == QueueOf(m_upfreq'[i], c)
      h  == upHistory[i][c]
      h1 == upHistory'[i][c]
  IN \/ q1 = q /\ h1 = h
     \/ /\ main.pc = "next" /\ main.item = i /\ main'.pc = "excess" /\ main'.item = i /\ main'.crc = c
        /\ q1 = Append(q, now) /\ h1 = Append(h, now) /\ now' = now /\ down' = down
     \/ q1 = <<>> /\ h1 = <<>>
     \/ q1 = Fresh(q, now - conf[i].upTime) /\ h1 = h /\ now' = now

\* The hard limit of pushEvent never drops an up-bound event.
LEMMA UpStep ==
  ASSUME TypeOK, UpBounded, [Next]_vars, NEW i \in Items, NEW c \in Crcs
  PROVE  UpChange(i, c)
<1>0. /\ conf \in Configs /\ IsEvents(m_upfreq[i], Crcs) /\ DOMAIN m_upfreq = Items /\ now \in Nat
      /\ upHistory \in [Items -> [Crcs -> Seq(Nat)]] /\ down.item \in Items /\ main.item \in Items
      /\ main \in [pc : {"next", "excess", "notify"}, item : Items, crc : Crcs]
  BY DEF TypeOK
<1>1. conf[i].upCount \in Nat /\ conf[i].upTime \in Nat /\ HardSlack \in Nat /\ now - conf[i].upTime \in Int
  BY <1>0, ConfFacts, TimingAssumption
<1>2. CASE m_upfreq' = m_upfreq /\ upHistory' = upHistory
  BY <1>2 DEF UpChange
<1>3. ASSUME NEW crc \in Crcs, Match(crc) PROVE UpChange(i, c)
  <2>1. CASE i = main.item /\ c = crc
    <3> DEFINE q == QueueOf(m_upfreq[i], c)
               L == conf[i].upCount + HardSlack
    <3>1. q \in Seq(Nat) /\ L \in Nat
      <4>1. q \in Seq(Nat)
        BY <1>0, QueueType
      <4> QED BY <1>1, <4>1
    <3>2. Len(q) <= conf[i].upCount
      <4>1. Len(QueueOf(m_upfreq[i], c)) <= conf[i].upCount + 0
        BY <1>3, <2>1 DEF UpBounded, Match
      <4> QED BY <1>1, <4>1
    <3>3. Len(q) <= L
      BY <1>1, <3>1, <3>2
    <3> HIDE DEF L, q
    <3>4. DropOldest(q, L) = q
      BY <3>1, <3>3, DropProperties
    <3>5. m_upfreq'[i] = PushEvent(m_upfreq[i], conf[i].upCount, crc, now)
      BY <1>0, <1>3, <2>1 DEF Match
    <3>6. QueueOf(m_upfreq'[i], c) = Append(DropOldest(q, L), now)
      BY <2>1, <3>5 DEF PushEvent, QueueOf, q, L
    <3>7. upHistory'[i][c] = Append(upHistory[i][c], now)
      BY <1>0, <1>3, <2>1 DEF Match
    <3>8. /\ main.pc = "next" /\ main.item = i /\ main'.pc = "excess" /\ main'.item = i /\ main'.crc = c
          /\ now' = now /\ down' = down
      BY <1>0, <1>3, <2>1 DEF Match
    <3> QED BY <3>4, <3>6, <3>7, <3>8 DEF UpChange, q
  <2>2. CASE i = main.item /\ c # crc
    <3>1. m_upfreq'[i] = PushEvent(m_upfreq[i], conf[i].upCount, crc, now)
      BY <1>0, <1>3, <2>2 DEF Match
    <3>2. QueueOf(m_upfreq'[i], c) = QueueOf(m_upfreq[i], c)
      BY <2>2, <3>1 DEF PushEvent, QueueOf
    <3>3. upHistory'[i][c] = upHistory[i][c]
      BY <1>0, <1>3, <2>2 DEF Match
    <3> QED BY <3>2, <3>3 DEF UpChange
  <2>3. CASE i # main.item
    BY <1>0, <1>3, <2>3 DEF Match, UpChange
  <2> QED BY <2>1, <2>2, <2>3
<1>4. CASE UpNotify
  <2>1. CASE i = main.item
    <3>1. m_upfreq'[i] = ResetMeasuring(m_upfreq[i]) /\ upHistory'[i][c] = <<>>
      BY <1>0, <1>4, <2>1 DEF UpNotify
    <3>2. QueueOf(m_upfreq'[i], c) = <<>>
      BY <1>0, <3>1, ResetProperties
    <3> QED BY <3>1, <3>2 DEF UpChange
  <2>2. CASE i # main.item
    BY <1>0, <1>4, <2>2 DEF UpNotify, UpChange
  <2> QED BY <2>1, <2>2
<1>5. CASE DownPrune
  <2>1. PICK uv : PrunedBy(uv)
    BY <1>5, PruneStep
  <2>2. upHistory' = upHistory /\ now' = now
    BY <1>5 DEF DownPrune
  <2>3. CASE i = down.item /\ m_upfreq' # m_upfreq
    <3>1. /\ m_upfreq'[i] = RemoveDeprecated(m_upfreq[i], now - conf[i].upTime, uv)
          /\ uv \in SUBSET DOMAIN m_upfreq[i]
      BY <1>0, <2>1, <2>3 DEF PrunedBy, VisitedKeys
    <3>2. \/ QueueOf(m_upfreq'[i], c) = Fresh(QueueOf(m_upfreq[i], c), now - conf[i].upTime)
          \/ QueueOf(m_upfreq'[i], c) = QueueOf(m_upfreq[i], c)
      <4>1. now - conf[i].upTime \in Int /\ IsEvents(m_upfreq[i], Crcs) /\ uv \in SUBSET DOMAIN m_upfreq[i]
        BY <1>0, <1>1, <3>1
      <4> DEFINE e == RemoveDeprecated(m_upfreq[i], now - conf[i].upTime, uv)
      <4>2. QueueOf(e, c) = IF c \in uv THEN Fresh(QueueOf(m_upfreq[i], c), now - conf[i].upTime)
                                        ELSE QueueOf(m_upfreq[i], c)
        BY <4>1, PruneProperties
      <4> QED BY <3>1, <4>2
    <3> QED BY <2>2, <3>2 DEF UpChange
  <2>4. CASE ~(i = down.item /\ m_upfreq' # m_upfreq)
    <3>1. m_upfreq'[i] = m_upfreq[i]
      BY <1>0, <2>1, <2>4 DEF PrunedBy
    <3> QED BY <2>2, <3>1 DEF UpChange
  <2> QED BY <2>3, <2>4
<1>6. CASE NoMatch \/ UpExcess \/ DownWake \/ DownCheck \/ DownFire \/ Tick \/ UNCHANGED vars
  BY <1>2, <1>6 DEF NoMatch, UpExcess, DownWake, DownCheck, DownFire, Tick, vars
<1> QED BY <1>3, <1>4, <1>5, <1>6 DEF Next

\* What a step may do to the down-bound queue and history of item i.
DownChange(i) ==
  LET q  == QueueOf(m_downfreq[i], 0)
      q1 == QueueOf(m_downfreq'[i], 0)
      h  == downHistory[i]
      h1 == downHistory'[i]
  IN \/ q1 = q /\ h1 = h /\ lastFire'[i] = lastFire[i]
     \/ /\ q1 = Append(DropOldest(q, conf[i].downCount + HardSlack), now) /\ h1 = Append(h, now)
        /\ lastFire'[i] = lastFire[i] /\ now' = now /\ down' = down
     \/ q1 = Fresh(q, now - conf[i].downTime) /\ h1 = h /\ lastFire'[i] = lastFire[i] /\ now' = now
     \/ q1 = <<>> /\ h1 = h /\ lastFire'[i] = now /\ now' = now

\* No step but these reaches the down-bound queue of an item.
LEMMA DownStep ==
  ASSUME TypeOK, [Next]_vars, NEW i \in Items
  PROVE  DownChange(i)
<1>0. /\ conf \in Configs /\ IsEvents(m_downfreq[i], {0}) /\ DOMAIN m_downfreq = Items /\ now \in Nat
      /\ downHistory \in [Items -> Seq(Nat)] /\ lastFire \in [Items -> Nat]
      /\ down.item \in Items /\ main.item \in Items
  BY DEF TypeOK
<1>1. conf[i].downCount \in Nat /\ conf[i].downTime \in Nat /\ now - conf[i].downTime \in Int
  BY <1>0, ConfFacts
<1>2. CASE m_downfreq' = m_downfreq /\ downHistory' = downHistory /\ lastFire' = lastFire
  BY <1>2 DEF DownChange
<1>3. ASSUME NEW crc \in Crcs, Match(crc) PROVE DownChange(i)
  <2>1. CASE i = main.item
    <3>1. m_downfreq'[i] = PushEvent(m_downfreq[i], conf[i].downCount, 0, now)
      BY <1>0, <1>3, <2>1 DEF Match
    <3>2. QueueOf(m_downfreq'[i], 0) =
            Append(DropOldest(QueueOf(m_downfreq[i], 0), conf[i].downCount + HardSlack), now)
      BY <3>1 DEF PushEvent, QueueOf
    <3>3. downHistory'[i] = Append(downHistory[i], now) /\ lastFire' = lastFire /\ now' = now /\ down' = down
      BY <1>0, <1>3, <2>1 DEF Match
    <3> QED BY <3>2, <3>3 DEF DownChange
  <2>2. CASE i # main.item
    BY <1>0, <1>3, <2>2 DEF Match, DownChange
  <2> QED BY <2>1, <2>2
<1>4. CASE DownPrune
  <2>1. PICK uv : PrunedBy(uv)
    BY <1>4, PruneStep
  <2>2. downHistory' = downHistory /\ lastFire' = lastFire /\ now' = now
    BY <1>4 DEF DownPrune
  <2>3. CASE i = down.item /\ m_downfreq' # m_downfreq
    <3>1. m_downfreq'[i] = RemoveDeprecated(m_downfreq[i], now - conf[i].downTime, DOMAIN m_downfreq[i])
      BY <1>0, <2>1, <2>3 DEF PrunedBy
    <3>2. \/ QueueOf(m_downfreq'[i], 0) = Fresh(QueueOf(m_downfreq[i], 0), now - conf[i].downTime)
          \/ QueueOf(m_downfreq'[i], 0) = QueueOf(m_downfreq[i], 0)
      BY <1>0, <1>1, <3>1, PruneProperties
    <3> QED BY <2>2, <3>2 DEF DownChange
  <2>4. CASE ~(i = down.item /\ m_downfreq' # m_downfreq)
    <3>1. m_downfreq'[i] = m_downfreq[i]
      BY <1>0, <2>1, <2>4 DEF PrunedBy
    <3> QED BY <2>2, <3>1 DEF DownChange
  <2> QED BY <2>3, <2>4
<1>5. CASE DownFire
  <2>1. CASE i = down.item
    <3>1. m_downfreq'[i] = ResetMeasuring(m_downfreq[i]) /\ lastFire'[i] = now
      BY <1>0, <1>5, <2>1 DEF DownFire
    <3>2. QueueOf(m_downfreq'[i], 0) = <<>>
      BY <1>0, <3>1, ResetProperties
    <3> QED BY <1>5, <3>1, <3>2 DEF DownChange, DownFire
  <2>2. CASE i # down.item
    BY <1>0, <1>5, <2>2 DEF DownFire, DownChange
  <2> QED BY <2>1, <2>2
<1>6. CASE NoMatch \/ UpExcess \/ UpNotify \/ DownWake \/ DownCheck \/ Tick \/ UNCHANGED vars
  BY <1>2, <1>6 DEF NoMatch, UpExcess, UpNotify, DownWake, DownCheck, Tick, vars
<1> QED BY <1>3, <1>4, <1>5, <1>6 DEF Next

-----------------------------------------------------------------------------
(* Bounds and windows                                                      *)

\* Without usecrc every event is pushed with CRC 0.
LEMMA NextOneQueue ==
  ASSUME TypeOK, OneQueue, [Next]_vars, conf' = conf, Items' = Items
  PROVE  OneQueue'
<1> SUFFICES ASSUME NEW i \in Items, ~conf[i].usecrc
             PROVE  DOMAIN m_upfreq'[i] \subseteq {0} /\ (main'.item = i => main'.crc = 0)
  BY DEF OneQueue
<1>0. /\ DOMAIN m_upfreq[i] \subseteq {0} /\ (main.item = i => main.crc = 0)
      /\ DOMAIN m_upfreq = Items /\ IsEvents(m_upfreq[i], Crcs)
      /\ main \in [pc : {"next", "excess", "notify"}, item : Items, crc : Crcs]
      /\ conf \in Configs /\ now \in Nat /\ down.item \in Items
  BY DEF OneQueue, TypeOK
<1>1. CASE NoMatch
  BY <1>0, <1>1 DEF NoMatch, ItemDone
<1>2. ASSUME NEW crc \in Crcs, Match(crc)
      PROVE  DOMAIN m_upfreq'[i] \subseteq {0} /\ (main'.item = i => main'.crc = 0)
  <2>1. main.item = i => crc = 0
    BY <1>2 DEF Match
  <2>2. DOMAIN m_upfreq'[i] \subseteq DOMAIN m_upfreq[i] \cup (IF main.item = i THEN {crc} ELSE {})
    BY <1>0, <1>2 DEF Match, PushEvent
  <2>3. main'.item = main.item /\ main'.crc = crc
    BY <1>0, <1>2 DEF Match
  <2> QED BY <1>0, <2>1, <2>2, <2>3
<1>3. CASE UpExcess
  <2>1. (main'.item = main.item /\ main'.crc = main.crc) \/ main'.crc = 0
    BY <1>0, <1>3 DEF UpExcess, ItemDone
  <2> QED BY <1>0, <1>3, <2>1 DEF UpExcess
<1>4. CASE UpNotify
  BY <1>0, <1>4 DEF UpNotify, ItemDone, ResetMeasuring
<1>5. CASE DownPrune
  <2>1. PICK uv : PrunedBy(uv)
    BY <1>5, PruneStep
  <2>2. DOMAIN m_upfreq'[i] \subseteq DOMAIN m_upfreq[i]
    BY <1>0, <2>1 DEF PrunedBy, RemoveDeprecated
  <2> QED BY <1>0, <1>5, <2>2 DEF DownPrune
<1>6. CASE DownWake \/ DownCheck \/ DownFire \/ Tick \/ UNCHANGED vars
  BY <1>0, <1>6 DEF DownWake, DownCheck, DownFire, Tick, vars
<1> QED BY <1>1, <1>2, <1>3, <1>4, <1>5, <1>6 DEF Next

\* The up-bound queues are bounded by the reset that follows an excess.
LEMMA NextUpBounded ==
  ASSUME TypeOK, UpBounded, [Next]_vars, conf' = conf, Items' = Items
  PROVE  UpBounded'
<1> SUFFICES ASSUME NEW i \in Items, NEW c \in Crcs
             PROVE  Len(QueueOf(m_upfreq'[i], c)) <=
                      conf[i].upCount + (IF main'.pc # "next" /\ main'.item = i /\ main'.crc = c THEN 1 ELSE 0)
  BY DEF UpBounded
<1> DEFINE q  == QueueOf(m_upfreq[i], c)
           q1 == QueueOf(m_upfreq'[i], c)
           N  == conf[i].upCount
<1>0. /\ conf \in Configs /\ IsEvents(m_upfreq[i], Crcs) /\ DOMAIN m_upfreq = Items /\ now \in Nat
      /\ main \in [pc : {"next", "excess", "notify"}, item : Items, crc : Crcs]
  BY DEF TypeOK
<1>1. N \in Nat /\ conf[i].upTime \in Nat /\ now - conf[i].upTime \in Int
  BY <1>0, ConfFacts
<1>2. q \in Seq(Nat) /\ Len(q) \in Nat
  BY <1>0, QueueType
<1>3. Len(q) <= N + (IF main.pc # "next" /\ main.item = i /\ main.crc = c THEN 1 ELSE 0)
  BY DEF UpBounded
<1>4. UpChange(i, c)
  BY UpStep
<1>5. Len(Append(q, now)) = Len(q) + 1 /\ Len(<<>>) = 0
  BY <1>0, <1>2
<1>6. Len(Fresh(q, now - conf[i].upTime)) \in Nat /\ Len(Fresh(q, now - conf[i].upTime)) <= Len(q)
  BY <1>1, <1>2, FreshProperties DEF Remains
<1>7. /\ \/ q1 = q \/ Len(q1) = 0 \/ (Len(q1) \in Nat /\ Len(q1) <= Len(q))
         \/ Len(q1) = Len(q) + 1 /\ main.pc = "next" /\ main'.pc = "excess" /\ main'.item = i /\ main'.crc = c
      /\ Len(q1) \in Nat
  BY <1>2, <1>4, <1>5, <1>6 DEF UpChange
<1> HIDE DEF q, q1, N
<1>8. CASE main' = main
  BY <1>1, <1>2, <1>3, <1>7, <1>8 DEF q1, N
<1>9. CASE NoMatch
  <2>1. q1 = q /\ main.pc = "next"
    BY <1>9 DEF NoMatch, q, q1
  <2> QED BY <1>1, <1>2, <1>3, <2>1 DEF q1, N
<1>10. CASE \E crc \in Crcs : Match(crc)
  <2>1. main.pc = "next" /\ main'.pc = "excess"
    BY <1>0, <1>10 DEF Match
  <2> QED BY <1>1, <1>2, <1>3, <1>7, <2>1 DEF q1, N
<1>11. CASE UpExcess
  <2>1. q1 = q
    BY <1>11 DEF UpExcess, q, q1
  <2>2. CASE MeasuringCount(m_upfreq[main.item], main.crc) > conf[main.item].upCount
    <3>1. main'.pc # "next" /\ main.pc # "next" /\ main'.item = main.item /\ main'.crc = main.crc
      BY <1>0, <1>11, <2>2 DEF UpExcess
    <3> QED BY <1>3, <2>1, <3>1 DEF q1, N
  <2>3. CASE ~(MeasuringCount(m_upfreq[main.item], main.crc) > conf[main.item].upCount)
    <3>1. main'.pc = "next"
      BY <1>11, <2>3 DEF UpExcess, ItemDone
    <3>2. Len(q) <= N
      <4>1. CASE main.item = i /\ main.crc = c
        <5>1. MeasuringCount(m_upfreq[i], c) \in Nat /\ MeasuringCount(m_upfreq[i], c) >= Len(q)
          BY <1>0, CountProperties, CrcsAssumption DEF q
        <5> QED BY <1>1, <1>2, <2>3, <4>1, <5>1 DEF N
      <4>2. CASE ~(main.item = i /\ main.crc = c)
        BY <1>1, <1>2, <1>3, <4>2
      <4> QED BY <4>1, <4>2
    <3> QED BY <1>1, <1>2, <2>1, <3>1, <3>2 DEF q1, N
  <2> QED BY <2>2, <2>3
<1>12. CASE UpNotify
  <2>1. main'.pc = "next"
    BY <1>12 DEF UpNotify, ItemDone
  <2>2. CASE main.item = i
    <3>1. q1 = <<>>
      BY <1>0, <1>12, <2>2, ResetProperties DEF UpNotify, q1
    <3> QED BY <1>1, <2>1, <3>1, <1>5 DEF q1, N
  <2>3. CASE main.item # i
    <3>1. q1 = q
      BY <1>0, <1>12, <2>3 DEF UpNotify, q, q1
    <3> QED BY <1>1, <1>2, <1>3, <2>1, <2>3, <3>1 DEF q1, N
  <2> QED BY <2>2, <2>3
<1>13. CASE DownWake \/ DownPrune \/ DownCheck \/ DownFire \/ Tick \/ UNCHANGED vars
  BY <1>8, <1>13 DEF DownWake, DownPrune, DownCheck, DownFire, Tick, vars
<1> QED BY <1>9, <1>10, <1>11, <1>12, <1>13 DEF Next

\* The down-bound queue is bounded by the hard limit of pushEvent.
LEMMA NextDownBounded ==
  ASSUME TypeOK, DownBounded, [Next]_vars, conf' = conf, Items' = Items
  PROVE  DownBounded'
<1> SUFFICES ASSUME NEW i \in Items
             PROVE  Len(QueueOf(m_downfreq'[i], 0)) <= conf[i].downCount + HardSlack + 1
  BY DEF DownBounded
<1> DEFINE q == QueueOf(m_downfreq[i], 0)
           L == conf[i].downCount + HardSlack
           r == DropOldest(q, L)
           f == Fresh(q, now - conf[i].downTime)
<1>0. now \in Nat /\ IsEvents(m_downfreq[i], {0}) /\ conf \in Configs
  BY DEF TypeOK
<1>1. L \in Nat /\ now - conf[i].downTime \in Int
  BY <1>0, ConfFacts, TimingAssumption
<1>2. q \in Seq(Nat) /\ Len(q) <= L + 1 /\ Len(q) \in Nat
  BY <1>0, QueueType DEF DownBounded
<1> HIDE DEF q, L
<1>3. r \in Seq(Nat) /\ Len(r) <= L /\ Len(r) \in Nat
  <2>1. r \in Seq(Nat) /\ Len(r) <= L
    BY <1>1, <1>2, DropProperties
  <2> HIDE DEF r
  <2> QED BY <2>1
<1>4. f \in Seq(Nat) /\ Len(f) <= Len(q) /\ Len(f) \in Nat
  BY <1>1, <1>2, FreshProperties DEF Remains
<1> HIDE DEF r, f
<1>5. Len(Append(r, now)) = Len(r) + 1 /\ Len(<<>>) = 0
  BY <1>0, <1>3
<1>6. QueueOf(m_downfreq'[i], 0) \in {q, Append(r, now), f, <<>>}
  BY DownStep DEF DownChange, q, r, f, L
<1> QED BY <1>1, <1>2, <1>3, <1>4, <1>5, <1>6 DEF L

\* time(NULL) does not go back.
LEMMA NowGrows ==
  ASSUME TypeOK, [Next]_vars
  PROVE  now \in Nat /\ now' \in Nat /\ now <= now'
<1>1. now \in Nat /\ (now' = now \/ now' = now + 1)
  BY DEF TypeOK, Next, NoMatch, Match, UpExcess, UpNotify, DownWake, DownPrune, DownCheck, DownFire, Tick, vars
<1> QED BY <1>1

\* A time stamp not older than the recorded ones keeps them in order.
LEMMA SortedAppend ==
  ASSUME NEW h \in Seq(Nat), NEW t \in Nat, Sorted(h), \A j \in DOMAIN h : h[j] <= t
  PROVE  Sorted(Append(h, t)) /\ \A j \in DOMAIN Append(h, t) : Append(h, t)[j] <= t
<1> DEFINE g == Append(h, t)
<1>1. /\ g \in Seq(Nat) /\ Len(g) = Len(h) + 1
      /\ (\A i \in 1..Len(h) : g[i] = h[i]) /\ g[Len(h) + 1] = t
  BY AppendProperties
<1>2. DOMAIN g = 1..(Len(h) + 1) /\ DOMAIN h = 1..Len(h) /\ Len(h) \in Nat
  BY <1>1
<1> HIDE DEF g
<1>3. \A j \in DOMAIN g : g[j] <= t
  BY <1>1, <1>2
<1>4. ASSUME NEW j \in DOMAIN g, NEW k \in DOMAIN g, j <= k PROVE g[j] <= g[k]
  <2>1. CASE k = Len(h) + 1
    BY <1>1, <1>3, <2>1
  <2>2. CASE k # Len(h) + 1
    <3>1. j \in 1..Len(h) /\ k \in 1..Len(h)
      BY <1>2, <1>4, <2>2
    <3> QED BY <1>1, <1>2, <1>4, <3>1 DEF Sorted
  <2> QED BY <2>1, <2>2
<1>5. Sorted(g)
  BY <1>4 DEF Sorted
<1> QED BY <1>3, <1>5 DEF g

\* The histories record the clock, which does not go back.
LEMMA NextInOrder ==
  ASSUME TypeOK, UpBounded, InOrder, [Next]_vars, conf' = conf, Items' = Items
  PROVE  InOrder'
<1>0. now \in Nat /\ now' \in Nat /\ now <= now'
  BY NowGrows
<1>1. ASSUME NEW i \in Items, NEW c \in Crcs
      PROVE  Sorted(upHistory'[i][c]) /\ \A j \in DOMAIN upHistory'[i][c] : upHistory'[i][c][j] <= now'
  <2> DEFINE h  == upHistory[i][c]
             h1 == upHistory'[i][c]
  <2>1. h \in Seq(Nat) /\ Sorted(h) /\ \A j \in DOMAIN h : h[j] <= now
    BY DEF TypeOK, InOrder
  <2>2. h1 = h \/ h1 = <<>> \/ (h1 = Append(h, now) /\ now' = now)
    BY UpStep DEF UpChange
  <2> HIDE DEF h, h1
  <2>3. CASE h1 = h
    <3>1. \A j \in DOMAIN h : h[j] <= now'
      BY <1>0, <2>1
    <3> QED BY <2>1, <2>3, <3>1 DEF h1
  <2>4. CASE h1 = <<>>
    BY <2>4 DEF h1, Sorted
  <2>5. CASE h1 = Append(h, now) /\ now' = now
    <3>1. Sorted(Append(h, now)) /\ \A j \in DOMAIN Append(h, now) : Append(h, now)[j] <= now
      BY <1>0, <2>1, SortedAppend
    <3> QED BY <2>5, <3>1 DEF h1
  <2> QED BY <2>2, <2>3, <2>4, <2>5
<1>2. ASSUME NEW i \in Items
      PROVE  /\ Sorted(downHistory'[i]) /\ \A j \in DOMAIN downHistory'[i] : downHistory'[i][j] <= now'
             /\ lastFire'[i] <= now'
  <2> DEFINE h  == downHistory[i]
             h1 == downHistory'[i]
  <2>1. h \in Seq(Nat) /\ Sorted(h) /\ (\A j \in DOMAIN h : h[j] <= now) /\ lastFire[i] <= now /\ lastFire[i] \in Nat
    BY DEF TypeOK, InOrder
  <2>2. DownChange(i)
    BY DownStep
  <2>3. h1 = h \/ (h1 = Append(h, now) /\ now' = now)
    BY <2>2 DEF DownChange
  <2>4. lastFire'[i] \in {lastFire[i], now}
    BY <2>2 DEF DownChange
  <2> HIDE DEF h, h1
  <2>5. CASE h1 = h
    <3>1. \A j \in DOMAIN h : h[j] <= now'
      BY <1>0, <2>1
    <3> QED BY <1>0, <2>1, <2>4, <2>5, <3>1 DEF h1
  <2>6. CASE h1 = Append(h, now) /\ now' = now
    <3>1. Sorted(Append(h, now)) /\ \A j \in DOMAIN Append(h, now) : Append(h, now)[j] <= now
      BY <1>0, <2>1, SortedAppend
    <3> QED BY <1>0, <2>1, <2>4, <2>6, <3>1 DEF h1
  <2> QED BY <2>3, <2>5, <2>6
<1> QED BY <1>1, <1>2 DEF InOrder

\* The up-bound queue loses what removeDeprecated pops and nothing else.
LEMMA NextUpWindow ==
  ASSUME TypeOK, UpBounded, UpWindow, [Next]_vars, conf' = conf, Items' = Items
  PROVE  UpWindow'
<1> SUFFICES ASSUME NEW i \in Items, NEW c \in Crcs
             PROVE  LET q1 == QueueOf(m_upfreq'[i], c)
                        h1 == upHistory'[i][c]
                    IN Remains(q1, h1) /\ \A j \in Lost(q1, h1) : h1[j] < now' - conf[i].upTime
  BY DEF UpWindow
<1> DEFINE q  == QueueOf(m_upfreq[i], c)
           q1 == QueueOf(m_upfreq'[i], c)
           h  == upHistory[i][c]
           h1 == upHistory'[i][c]
           P  == conf[i].upTime
           f  == Fresh(q, now - P)
<1>0. now \in Nat /\ now' \in Nat /\ now <= now'
  BY NowGrows
<1>1. conf \in Configs /\ IsEvents(m_upfreq[i], Crcs) /\ h \in Seq(Nat)
  BY DEF TypeOK
<1>2. P \in Nat /\ q \in Seq(Nat) /\ now - P \in Int
  BY <1>0, <1>1, ConfFacts, QueueType
<1>3. Remains(q, h) /\ \A j \in Lost(q, h) : h[j] < now - P
  BY DEF UpWindow
<1>4. \/ q1 = q /\ h1 = h
      \/ q1 = Append(q, now) /\ h1 = Append(h, now) /\ now' = now
      \/ q1 = <<>> /\ h1 = <<>>
      \/ q1 = f /\ h1 = h /\ now' = now
  BY UpStep DEF UpChange
<1> HIDE DEF q, q1, h, h1, P, f
<1>5. \A j \in Lost(q, h) : h[j] \in Nat
  <2>1. \A j \in Lost(q, h) : j \in 1..Len(h)
    BY <1>1, <1>2 DEF Lost
  <2> QED BY <1>1, <2>1, ElementOfSeq
<1>6. CASE q1 = q /\ h1 = h
  <2>1. \A j \in Lost(q, h) : h[j] < now' - P
    BY <1>0, <1>2, <1>3, <1>5
  <2> QED BY <1>3, <1>6, <2>1 DEF q1, h1, P
<1>7. CASE q1 = Append(q, now) /\ h1 = Append(h, now) /\ now' = now
  <2>1. Remains(q1, h1) /\ \A j \in Lost(q1, h1) : j \in Lost(q, h) /\ h1[j] = h[j]
    BY <1>0, <1>1, <1>2, <1>3, <1>7, RemainsAppend
  <2> QED BY <1>3, <1>7, <2>1 DEF q1, h1, P
<1>8. CASE q1 = <<>> /\ h1 = <<>>
  <2>1. Remains(<<>>, <<>>) /\ Lost(<<>>, <<>>) = {}
    BY DEF Remains, Lost
  <2> QED BY <1>8, <2>1 DEF q1, h1, P
<1>9. CASE q1 = f /\ h1 = h /\ now' = now
  <2>1. f \in Seq(Nat) /\ Remains(f, q) /\ \A j \in Lost(f, q) : q[j] < now - P
    BY <1>2, FreshProperties DEF f
  <2>2. /\ Remains(f, h)
        /\ \A j \in Lost(f, h) : j \in Lost(q, h) \/ (\E k \in Lost(f, q) : h[j] = q[k])
    BY <1>1, <1>2, <1>3, <2>1, RemainsOf
  <2>3. \A j \in Lost(f, h) : h[j] < now - P
    BY <1>3, <2>1, <2>2
  <2> QED BY <1>9, <2>2, <2>3 DEF q1, h1, P
<1> QED BY <1>4, <1>6, <1>7, <1>8, <1>9

\* The down-bound queue loses old matches, those up to an action and, at its
\* hard limit, the oldest.
LEMMA NextDownWindow ==
  ASSUME TypeOK, InOrder, DownWindow, [Next]_vars, conf' = conf, Items' = Items
  PROVE  DownWindow'
<1> SUFFICES ASSUME NEW i \in Items
             PROVE  LET q1 == QueueOf(m_downfreq'[i], 0)
                        h1 == downHistory'[i]
                    IN /\ Remains(q1, h1)
                       /\ \A j \in Lost(q1, h1) :
                            \/ h1[j] < now' - conf[i].downTime
                            \/ h1[j] <= lastFire'[i]
                            \/ Len(q1) > conf[i].downCount + HardSlack
  BY DEF DownWindow
<1> DEFINE q  == QueueOf(m_downfreq[i], 0)
           q1 == QueueOf(m_downfreq'[i], 0)
           h  == downHistory[i]
           h1 == downHistory'[i]
           P  == conf[i].downTime
           L  == conf[i].downCount + HardSlack
           f  == Fresh(q, now - P)
           r  == DropOldest(q, L)
<1>0. now \in Nat /\ now' \in Nat /\ now <= now'
  BY NowGrows
<1>1. conf \in Configs /\ IsEvents(m_downfreq[i], {0}) /\ h \in Seq(Nat) /\ lastFire[i] \in Nat
  BY DEF TypeOK
<1>2. P \in Nat /\ now - P \in Int /\ L \in Nat
  BY <1>0, <1>1, ConfFacts, TimingAssumption
<1>3. q \in Seq(Nat) /\ Len(q) \in Nat /\ Len(h) \in Nat
  BY <1>1, QueueType
<1>4. /\ Remains(q, h)
      /\ \A j \in Lost(q, h) : h[j] < now - P \/ h[j] <= lastFire[i] \/ Len(q) > L
  BY DEF DownWindow
<1>5. \/ q1 = q /\ h1 = h /\ lastFire'[i] = lastFire[i]
      \/ q1 = Append(r, now) /\ h1 = Append(h, now) /\ lastFire'[i] = lastFire[i] /\ now' = now
      \/ q1 = f /\ h1 = h /\ lastFire'[i] = lastFire[i] /\ now' = now
      \/ q1 = <<>> /\ h1 = h /\ lastFire'[i] = now /\ now' = now
  BY DownStep DEF DownChange
<1>6. Sorted(h) /\ \A j \in DOMAIN h : h[j] <= now
  BY DEF InOrder
<1> HIDE DEF q, q1, h, h1, P, L, f, r
<1>7. \A j \in 1..Len(h) : h[j] \in Nat
  BY <1>1, ElementOfSeq
<1>8. CASE q1 = q /\ h1 = h /\ lastFire'[i] = lastFire[i]
  <2>1. \A j \in Lost(q, h) : h[j] \in Nat
    BY <1>3, <1>7 DEF Lost
  <2>2. \A j \in Lost(q, h) : h[j] < now' - P \/ h[j] <= lastFire[i] \/ Len(q) > L
    BY <1>0, <1>2, <1>4, <2>1
  <2> QED BY <1>4, <1>8, <2>2 DEF q1, h1, P, L
<1>9. CASE q1 = Append(r, now) /\ h1 = Append(h, now) /\ lastFire'[i] = lastFire[i] /\ now' = now
  <2>1. r \in Seq(Nat) /\ Remains(r, q) /\ (Len(q) <= L => r = q) /\ (Len(q) > L => Len(r) = L)
    BY <1>2, <1>3, DropProperties DEF r
  <2>2. Remains(r, h)
    BY <1>1, <1>3, <1>4, <2>1, RemainsOf
  <2>3. Remains(q1, h1) /\ \A j \in Lost(q1, h1) : j \in Lost(r, h) /\ h1[j] = h[j]
    BY <1>0, <1>1, <1>9, <2>1, <2>2, RemainsAppend
  <2>4. CASE Len(q) > L
    <3>1. Len(Append(r, now)) = Len(r) + 1
      BY <1>0, <2>1
    <3>2. Len(q1) > L
      BY <1>2, <1>9, <2>1, <2>4, <3>1
    <3> QED BY <2>3, <3>2 DEF q1, h1, P, L
  <2>5. CASE ~(Len(q) > L)
    <3>1. r = q
      BY <1>2, <1>3, <2>1, <2>5
    <3>2. \A j \in Lost(q1, h1) : h1[j] < now - P \/ h1[j] <= lastFire[i]
      BY <1>4, <2>3, <2>5, <3>1
    <3> QED BY <1>9, <2>3, <3>2 DEF q1, h1, P, L
  <2> QED BY <2>4, <2>5
<1>10. CASE q1 = f /\ h1 = h /\ lastFire'[i] = lastFire[i] /\ now' = now
  <2>1. f \in Seq(Nat) /\ Remains(f, q) /\ \A j \in Lost(f, q) : q[j] < now - P
    BY <1>2, <1>3, FreshProperties DEF f
  <2>2. /\ Remains(f, h)
        /\ \A j \in Lost(f, h) : j \in Lost(q, h) \/ (\E k \in Lost(f, q) : h[j] = q[k])
    BY <1>1, <1>3, <1>4, <2>1, RemainsOf
  <2>3. CASE Len(f) = Len(q)
    <3>1. Lost(f, h) = Lost(q, h)
      BY <2>3 DEF Lost
    <3> QED BY <1>4, <1>10, <2>2, <2>3, <3>1 DEF q1, h1, P, L
  <2>4. CASE Len(f) # Len(q)
    <3>1. Len(f) \in Nat /\ Len(f) <= Len(q) /\ Len(q) <= Len(h)
      BY <1>4, <2>1 DEF Remains
    <3>2. 1 \in Lost(f, q) /\ 1 \in DOMAIN q /\ DOMAIN q = 1..Len(q)
      BY <1>3, <2>4, <3>1 DEF Lost
    <3>3. q[1] < now - P /\ q[1] = h[Len(h) - Len(q) + 1]
      BY <1>4, <2>1, <3>2 DEF Remains
    <3>4. ASSUME NEW j \in Lost(q, h) PROVE h[j] < now - P
      <4>1. j \in DOMAIN h /\ Len(h) - Len(q) + 1 \in DOMAIN h /\ j <= Len(h) - Len(q) + 1
        BY <1>1, <1>3, <3>1, <3>2 DEF Lost
      <4>2. h[j] <= h[Len(h) - Len(q) + 1]
        BY <1>6, <4>1 DEF Sorted
      <4>3. h[j] \in Nat /\ h[Len(h) - Len(q) + 1] \in Nat
        BY <1>1, <4>1, ElementOfSeq
      <4> QED BY <1>2, <3>3, <4>2, <4>3
    <3>5. \A j \in Lost(f, h) : h[j] < now - P
      BY <2>1, <2>2, <3>4
    <3> QED BY <1>10, <2>2, <3>5 DEF q1, h1, P, L
  <2> QED BY <2>3, <2>4
<1>11. CASE q1 = <<>> /\ h1 = h /\ lastFire'[i] = now /\ now' = now
  <2>1. Remains(<<>>, h)
    BY <1>3 DEF Remains
  <2>2. \A j \in Lost(<<>>, h) : h[j] <= now
    BY <1>1, <1>6 DEF Lost
  <2> QED BY <1>11, <2>1, <2>2 DEF q1, h1, P, L
<1> QED BY <1>5, <1>8, <1>9, <1>10, <1>11

-----------------------------------------------------------------------------
(* The down-bound thread                                                   *)

\* The five things a step can mean for the down-bound thread: nothing, the
\* end of its sleep, a pruning, the decision to fire, the end of an item.
Still == down' = down /\ lastFire' = lastFire /\ (alive' => alive)

Wakes ==
  /\ alive /\ alive' /\ down.pc = "sleep" /\ down.wake <= now /\ now' = now
  /\ down'.pc = "prune" /\ down'.item = down.item /\ down'.tnow = now
  /\ down'.uptime = now - down.start_time /\ down'.start_time = down.start_time
  /\ m_upfreq' = m_upfreq /\ m_downfreq' = m_downfreq
  /\ downHistory' = downHistory /\ lastFire' = lastFire

SamePass ==
  /\ down'.item = down.item /\ down'.tnow = down.tnow
  /\ down'.uptime = down.uptime /\ down'.start_time = down.start_time

Prunes ==
  LET i == down.item IN
  /\ alive /\ alive' /\ down.pc = "prune" /\ now' = now
  /\ down'.pc = "check" /\ SamePass
  /\ \A k \in Items \ {i} : m_upfreq'[k] = m_upfreq[k] /\ m_downfreq'[k] = m_downfreq[k]
  /\ QueueOf(m_downfreq'[i], 0) \in {<<>>, Fresh(QueueOf(m_downfreq[i], 0), now - conf[i].downTime)}
  /\ ~conf[i].usecrc =>
       QueueOf(m_upfreq'[i], 0) \in {<<>>, Fresh(QueueOf(m_upfreq[i], 0), now - conf[i].upTime)}
  /\ downHistory' = downHistory /\ lastFire' = lastFire

WillFire ==
  LET i == down.item IN
  /\ conf[i].downCount > 0
  /\ down.uptime > conf[i].downTime
  /\ MeasuringCount(m_downfreq[i], 0) < conf[i].downCount

Decides ==
  /\ alive /\ alive' /\ down.pc = "check" /\ now' = now
  /\ down'.pc = "fire" /\ SamePass /\ WillFire
  /\ m_upfreq' = m_upfreq /\ m_downfreq' = m_downfreq
  /\ downHistory' = downHistory /\ lastFire' = lastFire

\* start is the start_time that the item leaves behind.
Leaves(start) ==
  /\ alive /\ alive' /\ now' = now /\ down.pc \in {"check", "fire"}
  /\ m_upfreq' = m_upfreq /\ downHistory' = downHistory
  /\ down'.start_time = start
  /\ \/ /\ down.item = Len(conf) /\ down'.pc = "sleep" /\ down'.item = 1
        /\ down'.wake = now + SleepSecs
     \/ /\ down.item # Len(conf) /\ down'.pc = "prune" /\ down'.item = down.item + 1
        /\ down'.tnow = down.tnow /\ down'.uptime = down.uptime

Spares ==
  /\ Leaves(down.start_time) /\ down.pc = "check" /\ ~WillFire
  /\ m_downfreq' = m_downfreq /\ lastFire' = lastFire

Fires ==
  /\ Leaves(down.tnow) /\ down.pc = "fire"
  /\ lastFire'[down.item] = now
  /\ QueueOf(m_downfreq'[down.item], 0) = <<>>
  /\ \A k \in Items \ {down.item} : lastFire'[k] = lastFire[k] /\ m_downfreq'[k] = m_downfreq[k]

\* Every step of the specification means one of them.
LEMMA DownThread ==
  ASSUME TypeOK, OneQueue, [Next]_vars
  PROVE  Still \/ Wakes \/ Prunes \/ Decides \/ Spares \/ Fires
<1>0. /\ down \in DownType /\ alive \in BOOLEAN /\ conf \in Configs /\ now \in Nat
      /\ DOMAIN m_upfreq = Items /\ (\A i \in Items : IsEvents(m_upfreq[i], Crcs))
      /\ DOMAIN m_downfreq = Items /\ (\A i \in Items : IsEvents(m_downfreq[i], {0}))
      /\ lastFire \in [Items -> Nat] /\ down.item \in Items
  BY DEF TypeOK, DownType
<1>1. CASE NoMatch \/ (\E crc \in Crcs : Match(crc)) \/ UpExcess \/ UpNotify \/ Tick \/ UNCHANGED vars
  BY <1>1 DEF NoMatch, Match, UpExcess, UpNotify, Tick, vars, Still
<1>2. CASE DownWake
  BY <1>0, <1>2 DEF DownWake, Wakes, DownType
<1>3. CASE DownPrune
  <2> DEFINE i == down.item
  <2>1. PICK uv : PrunedBy(uv)
    BY <1>3, PruneStep
  <2>2. CASE down' = down /\ alive' = FALSE
    BY <1>3, <2>2 DEF Still, DownPrune
  <2>3. CASE ~(down' = down /\ alive' = FALSE)
    <3>1. /\ uv \in VisitedKeys(m_upfreq[i], now - conf[i].upTime)
          /\ m_upfreq' = [m_upfreq EXCEPT ![i] = RemoveDeprecated(m_upfreq[i], now - conf[i].upTime, uv)]
          /\ m_downfreq' = [m_downfreq EXCEPT ![i] =
               RemoveDeprecated(m_downfreq[i], now - conf[i].downTime, DOMAIN m_downfreq[i])]
          /\ down' = [down EXCEPT !.pc = "check"]
          /\ alive' = alive
      BY <2>1, <2>3 DEF PrunedBy
    <3>2. i \in Items /\ now - conf[i].upTime \in Int /\ now - conf[i].downTime \in Int
      BY <1>0, ConfFacts
    <3>3. QueueOf(m_downfreq'[i], 0) \in {<<>>, Fresh(QueueOf(m_downfreq[i], 0), now - conf[i].downTime)}
      <4> DEFINE ev == m_downfreq[i]
                 e  == RemoveDeprecated(ev, now - conf[i].downTime, DOMAIN ev)
      <4>1. QueueOf(e, 0) = IF 0 \in DOMAIN ev THEN Fresh(QueueOf(ev, 0), now - conf[i].downTime) ELSE QueueOf(ev, 0)
        BY <1>0, <3>2, PruneProperties
      <4>2. 0 \notin DOMAIN ev => QueueOf(ev, 0) = <<>>
        BY DEF QueueOf
      <4>3. m_downfreq'[i] = e
        BY <1>0, <3>1
      <4> HIDE DEF e, ev
      <4> QED BY <4>1, <4>2, <4>3 DEF ev
    <3>4. ASSUME ~conf[i].usecrc
          PROVE  QueueOf(m_upfreq'[i], 0) \in {<<>>, Fresh(QueueOf(m_upfreq[i], 0), now - conf[i].upTime)}
      <4> DEFINE ev == m_upfreq[i]
                 e  == RemoveDeprecated(ev, now - conf[i].upTime, uv)
      <4>1. IsEvents(ev, {0}) /\ IsEvents(ev, Crcs)
        BY <1>0, <3>4 DEF OneQueue, IsEvents
      <4>2. uv = DOMAIN ev
        BY <3>1, <3>2, <4>1, OneKeyVisited
      <4>3. QueueOf(e, 0) = IF 0 \in uv THEN Fresh(QueueOf(ev, 0), now - conf[i].upTime) ELSE QueueOf(ev, 0)
        BY <3>2, <4>1, <4>2, PruneProperties
      <4>4. 0 \notin DOMAIN ev => QueueOf(ev, 0) = <<>>
        BY DEF QueueOf
      <4>5. m_upfreq'[i] = e
        BY <1>0, <3>1
      <4> HIDE DEF e, ev
      <4> QED BY <4>2, <4>3, <4>4, <4>5 DEF ev
    <3>5. \A k \in Items \ {i} : m_upfreq'[k] = m_upfreq[k] /\ m_downfreq'[k] = m_downfreq[k]
      BY <1>0, <3>1
    <3>6. down'.pc = "check" /\ SamePass
      BY <1>0, <3>1 DEF SamePass, DownType
    <3>7. /\ alive /\ alive' /\ down.pc = "prune" /\ now' = now
          /\ downHistory' = downHistory /\ lastFire' = lastFire
      BY <1>3, <3>1 DEF DownPrune
    <3> QED BY <3>3, <3>4, <3>5, <3>6, <3>7 DEF Prunes
  <2> QED BY <2>2, <2>3
<1>4. CASE DownCheck
  <2>1. CASE WillFire
    <3>1. down' = [down EXCEPT !.pc = "fire"]
      BY <1>4, <2>1 DEF DownCheck, WillFire
    <3>2. down'.pc = "fire" /\ SamePass
      BY <1>0, <3>1 DEF SamePass, DownType
    <3> QED BY <1>4, <2>1, <3>2 DEF DownCheck, Decides
  <2>2. CASE ~WillFire
    <3>1. down' = AfterItem(down)
      BY <1>4, <2>2 DEF DownCheck, WillFire
    <3>2. /\ down'.start_time = down.start_time
          /\ \/ /\ down.item = Len(conf) /\ down'.pc = "sleep" /\ down'.item = 1
                /\ down'.wake = now + SleepSecs
             \/ /\ down.item # Len(conf) /\ down'.pc = "prune" /\ down'.item = down.item + 1
                /\ down'.tnow = down.tnow /\ down'.uptime = down.uptime
      BY <1>0, <3>1, AfterItemType
    <3>3. Leaves(down.start_time)
      BY <1>4, <3>2 DEF Leaves, DownCheck
    <3> QED BY <1>4, <2>2, <3>3 DEF DownCheck, Spares
  <2> QED BY <2>1, <2>2
<1>5. CASE DownFire
  <2> DEFINE d == [down EXCEPT !.start_time = down.tnow]
             i == down.item
  <2>1. /\ d \in DownType /\ d.start_time = down.tnow /\ d.item = down.item
        /\ d.tnow = down.tnow /\ d.uptime = down.uptime /\ down' = AfterItem(d)
    BY <1>0, <1>5 DEF DownFire, DownType
  <2> HIDE DEF d
  <2>2. Leaves(down.tnow)
    BY <1>0, <1>5, <2>1, AfterItemType DEF Leaves, DownFire
  <2>3. lastFire'[i] = now /\ m_downfreq'[i] = ResetMeasuring(m_downfreq[i])
    BY <1>0, <1>5 DEF DownFire
  <2>4. QueueOf(m_downfreq'[i], 0) = <<>>
    BY <1>0, <2>3, ResetProperties
  <2>5. \A k \in Items \ {i} : lastFire'[k] = lastFire[k] /\ m_downfreq'[k] = m_downfreq[k]
    BY <1>0, <1>5 DEF DownFire
  <2> QED BY <1>5, <2>2, <2>3, <2>4, <2>5 DEF Fires, DownFire
<1> QED BY <1>1, <1>2, <1>3, <1>4, <1>5 DEF Next

\* The down-bound thread is never later than Lag.
LEMMA NextClock ==
  ASSUME TypeOK, TypeOK', OneQueue, Clock, [Next]_vars
  PROVE  Clock'
<1>0. now \in Nat /\ now' \in Nat /\ now <= now'
  BY NowGrows
<1>1. /\ down.tnow \in Nat /\ down.uptime \in Nat /\ down.start_time \in Nat /\ down.wake \in Nat
      /\ down'.tnow \in Nat /\ down'.uptime \in Nat /\ down'.start_time \in Nat /\ down'.wake \in Nat
      /\ SleepSecs \in Nat /\ Lag \in Nat /\ alive \in BOOLEAN /\ alive' \in BOOLEAN
  BY TimingAssumption DEF TypeOK
<1>2. CASE Still
  <2>1. alive' => now' <= Lag + (IF down'.pc = "sleep" THEN down'.wake ELSE down'.tnow)
    <3>1. CASE Tick
      BY <1>0, <1>1, <3>1 DEF Tick
    <3>2. CASE now' = now
      BY <1>2, <3>2 DEF Still, Clock
    <3>3. now' = now \/ Tick
      BY DEF Next, NoMatch, Match, UpExcess, UpNotify, DownWake, DownPrune, DownCheck, DownFire, vars
    <3> QED BY <3>1, <3>2, <3>3
  <2> QED BY <1>0, <1>1, <1>2, <2>1 DEF Still, Clock
<1>3. CASE Wakes
  BY <1>0, <1>1, <1>3 DEF Wakes, Clock
<1>4. CASE Prunes \/ Decides
  <2>1. now' = now /\ down.pc # "sleep" /\ down'.pc # "sleep" /\ SamePass /\ alive
    BY <1>4 DEF Prunes, Decides
  <2> QED BY <2>1 DEF SamePass, Clock
<1>5. CASE Spares \/ Fires
  <2>1. PICK start \in {down.start_time, down.tnow} : Leaves(start)
    BY <1>5 DEF Spares, Fires
  <2> QED BY <1>0, <1>1, <2>1 DEF Leaves, Clock
<1> QED BY <1>2, <1>3, <1>4, <1>5, DownThread

\* What the check decided still holds when the action is enqueued.
LEMMA NextFireDecided ==
  ASSUME TypeOK, OneQueue, FireDecided, [Next]_vars, conf' = conf
  PROVE  FireDecided'
<1>1. CASE Still
  BY <1>1 DEF Still, FireDecided
<1>2. CASE Decides
  BY <1>2 DEF Decides, SamePass, WillFire, FireDecided
<1>3. CASE Wakes \/ Prunes \/ Spares \/ Fires
  BY <1>3 DEF Wakes, Prunes, Spares, Fires, Leaves, FireDecided
<1> QED BY <1>1, <1>2, <1>3, DownThread

\* start_time, shared by all items, never trails an action by more than Lag.
LEMMA NextFiresApart ==
  ASSUME TypeOK, TypeOK', OneQueue, Clock, FiresApart, [Next]_vars, conf' = conf, Items' = Items
  PROVE  FiresApart'
<1> SUFFICES ASSUME NEW i \in Items
             PROVE  /\ lastFire'[i] <= down'.start_time + Lag
                    /\ down'.pc # "sleep" /\ down'.item <= i => lastFire'[i] <= down'.tnow - down'.uptime + Lag
  BY DEF FiresApart
<1>1. /\ down.tnow \in Nat /\ down.uptime \in Nat /\ down.start_time \in Nat
      /\ down'.tnow \in Nat /\ down'.uptime \in Nat /\ down'.start_time \in Nat
      /\ Lag \in Nat /\ now \in Nat /\ lastFire[i] \in Nat /\ lastFire'[i] \in Nat
  BY TimingAssumption DEF TypeOK
<1>2. Items = 1..Len(conf) /\ Len(conf) \in Nat /\ down.item \in Items /\ down'.item \in Items
  BY ConfFacts DEF TypeOK
<1>3. /\ lastFire[i] <= down.start_time + Lag
      /\ down.pc # "sleep" /\ down.item <= i => lastFire[i] <= down.tnow - down.uptime + Lag
  BY DEF FiresApart
<1>4. CASE Still
  BY <1>3, <1>4 DEF Still
<1>5. CASE Wakes
  BY <1>1, <1>3, <1>5 DEF Wakes
<1>6. CASE Prunes \/ Decides
  BY <1>3, <1>6 DEF Prunes, Decides, SamePass
<1>7. CASE Spares
  BY <1>1, <1>2, <1>3, <1>7 DEF Spares, Leaves
<1>8. CASE Fires
  <2>1. now <= Lag + down.tnow /\ down.start_time <= down.tnow
    BY <1>1, <1>8 DEF Fires, Leaves, Clock
  <2>2. CASE i = down.item
    BY <1>1, <1>2, <1>8, <2>1, <2>2 DEF Fires, Leaves
  <2>3. CASE i # down.item
    <3>1. /\ lastFire'[i] = lastFire[i] /\ down'.start_time = down.tnow
          /\ down'.pc # "sleep" => /\ down'.item = down.item + 1 /\ down.pc # "sleep"
                                   /\ down'.tnow = down.tnow /\ down'.uptime = down.uptime
      BY <1>8, <2>3 DEF Fires, Leaves
    <3>2. lastFire[i] <= down.tnow + Lag
      BY <1>1, <1>3, <2>1
    <3> QED BY <1>2, <1>3, <3>1, <3>2
  <2> QED BY <2>2, <2>3
<1> QED BY <1>4, <1>5, <1>6, <1>7, <1>8, DownThread

\* What remains of a sequence has its elements, in its order.
LEMMA RemainsElements ==
  ASSUME NEW r \in Seq(Nat), NEW q \in Seq(Nat), Remains(r, q)
  PROVE  /\ \A j \in DOMAIN r : \E k \in DOMAIN q : r[j] = q[k]
         /\ Sorted(q) => Sorted(r)
<1>1. Len(r) \in Nat /\ Len(q) \in Nat /\ Len(r) <= Len(q) /\ DOMAIN r = 1..Len(r) /\ DOMAIN q = 1..Len(q)
  BY DEF Remains
<1>2. \A a, b \in Nat : \A k \in 1..a : a <= b => b - a + k \in 1..b
  OBVIOUS
<1>3. \A j \in DOMAIN r : Len(q) - Len(r) + j \in DOMAIN q
  BY <1>1, <1>2, Zenon
<1>4. \A j \in DOMAIN r : r[j] = q[Len(q) - Len(r) + j]
  BY DEF Remains
<1>5. ASSUME Sorted(q), NEW j \in DOMAIN r, NEW k \in DOMAIN r, j <= k PROVE r[j] <= r[k]
  <2>1. j \in Nat /\ k \in Nat
    BY <1>1
  <2>2. Len(q) - Len(r) + j <= Len(q) - Len(r) + k
    BY <1>1, <1>5, <2>1
  <2> QED BY <1>3, <1>4, <1>5, <2>2 DEF Sorted
<1> QED BY <1>3, <1>4, <1>5 DEF Sorted

\* No element of a queue is below a time.
NoneBefore(q, t) == \A j \in DOMAIN q : q[j] >= t

\* What remains of a queue starts no earlier than the queue.
LEMMA RemainsNoneBefore ==
  ASSUME NEW r \in Seq(Nat), NEW q \in Seq(Nat), Remains(r, q), NEW t \in Int, NoneBefore(q, t)
  PROVE  NoneBefore(r, t)
BY RemainsElements DEF NoneBefore

\* A new event is no earlier than a time that has passed.
LEMMA AppendNoneBefore ==
  ASSUME NEW q \in Seq(Nat), NEW t \in Int, NoneBefore(q, t), NEW n \in Nat, n >= t
  PROVE  NoneBefore(Append(q, n), t)
<1> DEFINE g == Append(q, n)
<1>1. /\ g \in Seq(Nat) /\ Len(g) = Len(q) + 1
      /\ (\A i \in 1..Len(q) : g[i] = q[i]) /\ g[Len(q) + 1] = n
  BY AppendProperties
<1>2. DOMAIN g = 1..(Len(q) + 1) /\ DOMAIN q = 1..Len(q) /\ Len(q) \in Nat
  BY <1>1
<1> HIDE DEF g
<1>3. NoneBefore(g, t)
  BY <1>1, <1>2 DEF NoneBefore
<1> QED BY <1>3 DEF g

\* What is not before a time is not before an earlier one.
LEMMA EarlierNoneBefore ==
  ASSUME NEW q \in Seq(Nat), NEW t \in Int, NEW u \in Int, u <= t, NoneBefore(q, t)
  PROVE  NoneBefore(q, u)
<1>1. \A j \in DOMAIN q : q[j] \in Nat
  BY ElementOfSeq
<1> QED BY <1>1 DEF NoneBefore

\* From when on the up-bound queue of an item without usecrc is filled.
UpFrom(i) ==
  (IF down.pc = "sleep" THEN down.wake - SleepSecs - Lag
   ELSE IF Pruned(i) THEN down.tnow
   ELSE down.tnow - 2 * Lag - SleepSecs) - conf[i].upTime

\* Every pass prunes every item without usecrc as a whole.
LEMMA NextUpFresh ==
  ASSUME TypeOK, TypeOK', OneQueue, UpBounded, InOrder, UpWindow, Clock, UpFresh, [Next]_vars,
         conf' = conf, Items' = Items
  PROVE  UpFresh'
<1> SUFFICES ASSUME NEW i \in Items, ~conf[i].usecrc
             PROVE  NoneBefore(QueueOf(m_upfreq'[i], 0), UpFrom(i)')
  BY DEF UpFresh, UpFrom, NoneBefore
<1> DEFINE q  == QueueOf(m_upfreq[i], 0)
           q1 == QueueOf(m_upfreq'[i], 0)
           P  == conf[i].upTime
           f  == Fresh(q, now - P)
<1>0. /\ down.tnow \in Nat /\ down.wake \in Nat /\ down'.tnow \in Nat /\ down'.wake \in Nat
      /\ SleepSecs \in Nat /\ Lag \in Nat /\ now \in Nat /\ conf \in Configs /\ 0 \in Crcs
      /\ IsEvents(m_upfreq[i], Crcs) /\ IsEvents(m_upfreq'[i], Crcs) /\ upHistory[i][0] \in Seq(Nat)
      /\ down.item \in Items /\ down'.item \in Items
      /\ down.pc \in {"sleep", "prune", "check", "fire"}
  BY TimingAssumption, CrcsAssumption DEF TypeOK
<1>1. P \in Nat /\ now - P \in Int /\ Items = 1..Len(conf) /\ Len(conf) \in Nat
  BY <1>0, ConfFacts
<1>2. q \in Seq(Nat) /\ q1 \in Seq(Nat)
  BY <1>0, QueueType
<1>3. NoneBefore(q, UpFrom(i))
  BY DEF UpFresh, UpFrom, NoneBefore
<1>4. UpFrom(i) \in Int /\ UpFrom(i)' \in Int
  <2>1. /\ UpFrom(i) = down.wake - SleepSecs - Lag - P
           \/ UpFrom(i) = down.tnow - P
           \/ UpFrom(i) = down.tnow - 2 * Lag - SleepSecs - P
        /\ UpFrom(i)' = down'.wake - SleepSecs - Lag - P
           \/ UpFrom(i)' = down'.tnow - P
           \/ UpFrom(i)' = down'.tnow - 2 * Lag - SleepSecs - P
    BY DEF UpFrom
  <2> HIDE DEF P
  <2>2. \A a, p \in Nat : /\ a - SleepSecs - Lag - p \in Int /\ a - p \in Int
                          /\ a - 2 * Lag - SleepSecs - p \in Int
    BY TimingAssumption
  <2>3. /\ down.wake - SleepSecs - Lag - P \in Int /\ down.tnow - P \in Int
        /\ down.tnow - 2 * Lag - SleepSecs - P \in Int
    BY <1>0, <1>1, <2>2, Zenon
  <2>4. /\ down'.wake - SleepSecs - Lag - P \in Int /\ down'.tnow - P \in Int
        /\ down'.tnow - 2 * Lag - SleepSecs - P \in Int
    BY <1>0, <1>1, <2>2, Zenon
  <2> QED BY <2>1, <2>3, <2>4, Zenon
<1>5. UpChange(i, 0)
  BY <1>0, UpStep
<1>6. Sorted(q)
  <2>1. Remains(q, upHistory[i][0]) /\ Sorted(upHistory[i][0])
    BY <1>0 DEF UpWindow, InOrder
  <2> QED BY <1>0, <1>2, <2>1, RemainsElements
<1>7. f \in Seq(Nat) /\ Remains(f, q) /\ \A j \in DOMAIN f : f[j] >= now - P
  BY <1>1, <1>2, <1>6, FreshProperties
<1>8. NoneBefore(<<>>, UpFrom(i)')
  BY DEF NoneBefore
<1> HIDE DEF q, q1, P, f
<1>9. CASE q1 = q /\ UpFrom(i)' <= UpFrom(i)
  BY <1>2, <1>3, <1>4, <1>9, EarlierNoneBefore DEF q1
<1>10. CASE Still
  <2>1. UpFrom(i)' = UpFrom(i)
    BY <1>10 DEF Still, UpFrom, Pruned
  <2>2. q1 = q \/ q1 = Append(q, now) \/ q1 = <<>> \/ q1 = f
    BY <1>5 DEF UpChange, q, q1, f, P
  <2>3. now >= UpFrom(i)
    <3>1. down.pc = "sleep" => down.wake <= now + SleepSecs
      BY DEF Clock
    <3>2. down.pc # "sleep" => down.tnow <= now
      BY DEF Clock
    <3>3. \/ down.pc = "sleep" /\ UpFrom(i) = down.wake - SleepSecs - Lag - P
          \/ down.pc # "sleep" /\ UpFrom(i) = down.tnow - P
          \/ down.pc # "sleep" /\ UpFrom(i) = down.tnow - 2 * Lag - SleepSecs - P
      BY DEF UpFrom, P
    <3> QED BY <1>0, <1>1, <3>1, <3>2, <3>3
  <2>4. NoneBefore(Append(q, now), UpFrom(i))
    BY <1>0, <1>2, <1>3, <1>4, <2>3, AppendNoneBefore
  <2>5. NoneBefore(f, UpFrom(i))
    BY <1>2, <1>3, <1>4, <1>7, RemainsNoneBefore
  <2>6. NoneBefore(q1, UpFrom(i)')
    BY <1>3, <1>8, <2>1, <2>2, <2>4, <2>5
  <2> QED BY <2>6 DEF q1
<1>11. CASE Wakes
  <2>1. q1 = q
    BY <1>11 DEF Wakes, q, q1
  <2>2. down.pc = "sleep" /\ down'.pc = "prune" /\ down'.tnow = now /\ now <= Lag + down.wake /\ down'.item = 1
    BY <1>11 DEF Wakes, Clock
  <2>3. ~Pruned(i)'
    BY <1>1, <2>2 DEF Pruned
  <2>4. UpFrom(i)' <= UpFrom(i)
    BY <1>0, <1>1, <2>2, <2>3 DEF UpFrom, P
  <2> QED BY <1>9, <2>1, <2>4
<1>12. CASE Prunes
  <2>1. down.pc = "prune" /\ down'.pc = "check" /\ down'.item = down.item /\ down'.tnow = down.tnow /\ down.tnow <= now
    BY <1>12 DEF Prunes, SamePass, Clock
  <2>2. CASE i = down.item
    <3>1. q1 = <<>> \/ q1 = f
      BY <1>12, <2>2 DEF Prunes, q, q1, f, P
    <3>2. UpFrom(i)' = down.tnow - P
      BY <2>1, <2>2 DEF UpFrom, Pruned, P
    <3>3. UpFrom(i)' <= now - P
      BY <1>0, <1>1, <2>1, <3>2
    <3>4. NoneBefore(f, now - P)
      BY <1>7 DEF NoneBefore
    <3>5. NoneBefore(f, UpFrom(i)')
      BY <1>1, <1>4, <1>7, <3>3, <3>4, EarlierNoneBefore
    <3> QED BY <1>8, <3>1, <3>5 DEF q1
  <2>3. CASE i # down.item
    <3>1. q1 = q
      BY <1>12, <2>3 DEF Prunes, q, q1
    <3>2. UpFrom(i)' = UpFrom(i)
      BY <2>1, <2>3 DEF UpFrom, Pruned
    <3> QED BY <1>4, <1>9, <3>1, <3>2
  <2> QED BY <2>2, <2>3
<1>13. CASE Decides
  <2>1. q1 = q /\ UpFrom(i)' = UpFrom(i)
    BY <1>13 DEF Decides, SamePass, q, q1, UpFrom, Pruned
  <2> QED BY <1>4, <1>9, <2>1
<1>14. CASE Spares \/ Fires
  <2>1. PICK start : Leaves(start)
    BY <1>14 DEF Spares, Fires
  <2>2. q1 = q
    BY <2>1 DEF Leaves, q, q1
  <2>3. down.pc \in {"check", "fire"} /\ now <= Lag + down.tnow
    BY <2>1 DEF Leaves, Clock
  <2>4. CASE down.item = Len(conf)
    <3>1. down'.pc = "sleep" /\ down'.wake = now + SleepSecs
      BY <2>1, <2>4 DEF Leaves
    <3>2. Pruned(i)
      BY <1>1, <2>3, <2>4 DEF Pruned
    <3>3. UpFrom(i) = down.tnow - P /\ UpFrom(i)' = (now + SleepSecs) - SleepSecs - Lag - P
      <4>1. UpFrom(i) = down.tnow - P
        BY <2>3, <3>2 DEF UpFrom, P
      <4>2. UpFrom(i)' = down'.wake - SleepSecs - Lag - P
        BY <3>1 DEF UpFrom, P
      <4> QED BY <3>1, <4>1, <4>2
    <3> QED BY <1>0, <1>1, <1>9, <2>2, <2>3, <3>3
  <2>5. CASE down.item # Len(conf)
    <3>1. down'.pc = "prune" /\ down'.item = down.item + 1 /\ down'.tnow = down.tnow
      BY <2>1, <2>5 DEF Leaves
    <3>2. Pruned(i)' <=> Pruned(i)
      BY <1>0, <1>1, <2>3, <3>1 DEF Pruned
    <3>3. UpFrom(i)' = UpFrom(i)
      BY <2>3, <3>1, <3>2 DEF UpFrom
    <3> QED BY <1>4, <1>9, <2>2, <3>3
  <2> QED BY <2>4, <2>5
<1> QED BY <1>10, <1>11, <1>12, <1>13, <1>14, DownThread

\* An item that the pass has pruned has no stale match when it is checked.
LEMMA NextDownFresh ==
  ASSUME TypeOK, TypeOK', OneQueue, InOrder, DownWindow, Clock, DownFresh, [Next]_vars,
         conf' = conf, Items' = Items
  PROVE  DownFresh'
<1> SUFFICES ASSUME NEW i \in Items, down'.pc # "sleep", Pruned(i)'
             PROVE  NoneBefore(QueueOf(m_downfreq'[i], 0), down'.tnow - conf[i].downTime)
  BY DEF DownFresh, NoneBefore
<1> DEFINE q  == QueueOf(m_downfreq[i], 0)
           q1 == QueueOf(m_downfreq'[i], 0)
           P  == conf[i].downTime
           f  == Fresh(q, now - P)
           r  == DropOldest(q, conf[i].downCount + HardSlack)
           t  == down.tnow - P
           t1 == down'.tnow - P
<1>0. /\ down.tnow \in Nat /\ down'.tnow \in Nat /\ now \in Nat /\ conf \in Configs
      /\ IsEvents(m_downfreq[i], {0}) /\ downHistory[i] \in Seq(Nat)
      /\ down.item \in Items /\ down'.item \in Items
  BY DEF TypeOK
<1>1. /\ P \in Nat /\ now - P \in Int /\ t \in Int /\ t1 \in Int /\ conf[i].downCount + HardSlack \in Nat
      /\ Items = 1..Len(conf) /\ Len(conf) \in Nat
  BY <1>0, ConfFacts, TimingAssumption
<1>2. q \in Seq(Nat)
  BY <1>0, QueueType
<1>3. down.pc # "sleep" /\ Pruned(i) => NoneBefore(q, t)
  BY DEF DownFresh, NoneBefore
<1>4. DownChange(i)
  BY DownStep
<1>5. Sorted(q)
  <2>1. Remains(q, downHistory[i]) /\ Sorted(downHistory[i])
    BY DEF DownWindow, InOrder
  <2> QED BY <1>0, <1>2, <2>1, RemainsElements
<1>6. f \in Seq(Nat) /\ Remains(f, q) /\ \A j \in DOMAIN f : f[j] >= now - P
  BY <1>1, <1>2, <1>5, FreshProperties
<1>7. r \in Seq(Nat) /\ Remains(r, q)
  BY <1>1, <1>2, DropProperties
<1>8. NoneBefore(<<>>, t1)
  BY DEF NoneBefore
<1> HIDE DEF q, q1, P, f, r, t, t1
<1>9. CASE q1 = q /\ t1 = t /\ down.pc # "sleep" /\ Pruned(i)
  BY <1>3, <1>9 DEF q1, t1, P
<1>10. CASE Still
  <2>1. t1 = t /\ down.pc # "sleep" /\ Pruned(i)
    BY <1>10 DEF Still, Pruned, t, t1
  <2>2. q1 = q \/ q1 = Append(r, now) \/ q1 = <<>> \/ q1 = f
    BY <1>4 DEF DownChange, q, q1, f, P, r
  <2>3. now >= t
    <3>1. down.tnow <= now
      BY <2>1 DEF Clock
    <3> QED BY <1>0, <1>1, <3>1 DEF t
  <2>4. NoneBefore(q, t) /\ NoneBefore(r, t) /\ NoneBefore(f, t)
    BY <1>1, <1>2, <1>3, <1>6, <1>7, <2>1, RemainsNoneBefore
  <2>5. NoneBefore(Append(r, now), t)
    BY <1>0, <1>1, <1>7, <2>3, <2>4, AppendNoneBefore
  <2>6. NoneBefore(q1, t1)
    BY <1>8, <2>1, <2>2, <2>4, <2>5
  <2> QED BY <2>6 DEF q1, t1, P
<1>11. CASE Wakes
  <2>1. down'.item = 1 /\ down'.pc = "prune"
    BY <1>11 DEF Wakes, Clock
  <2>2. ~Pruned(i)'
    BY <1>1, <2>1 DEF Pruned
  <2> QED BY <2>2
<1>12. CASE Prunes
  <2>1. down.pc = "prune" /\ down'.pc = "check" /\ down'.item = down.item /\ down'.tnow = down.tnow /\ down.tnow <= now
    BY <1>12 DEF Prunes, SamePass, Clock
  <2>2. CASE i = down.item
    <3>1. q1 = <<>> \/ q1 = f
      BY <1>12, <2>2 DEF Prunes, q, q1, f, P
    <3>2. t1 <= now - P
      BY <1>0, <1>1, <2>1 DEF t1
    <3>3. NoneBefore(f, now - P)
      BY <1>6 DEF NoneBefore
    <3>4. NoneBefore(f, t1)
      BY <1>1, <1>6, <3>2, <3>3, EarlierNoneBefore
    <3> QED BY <1>8, <3>1, <3>4 DEF q1, t1, P
  <2>3. CASE i # down.item
    <3>1. q1 = q /\ t1 = t /\ Pruned(i)
      BY <1>12, <2>1, <2>3 DEF Prunes, q, q1, t, t1, Pruned
    <3> QED BY <1>9, <2>1, <3>1
  <2> QED BY <2>2, <2>3
<1>13. CASE Decides
  BY <1>9, <1>13 DEF Decides, SamePass, q, q1, t, t1, Pruned
<1>14. CASE Spares \/ Fires
  <2>1. PICK start : Leaves(start)
    BY <1>14 DEF Spares, Fires
  <2>2. /\ down.pc \in {"check", "fire"} /\ down'.pc = "prune"
        /\ down'.item = down.item + 1 /\ down'.tnow = down.tnow
    BY <2>1 DEF Leaves
  <2>3. Pruned(i) /\ t1 = t
    BY <1>0, <1>1, <2>2 DEF Pruned, t, t1
  <2>4. q1 = q \/ q1 = <<>>
    BY <1>14 DEF Spares, Fires, q, q1
  <2> QED BY <1>8, <1>9, <2>2, <2>3, <2>4 DEF q1, t1, P
<1> QED BY <1>10, <1>11, <1>12, <1>13, <1>14, DownThread

-----------------------------------------------------------------------------
(* Silence                                                                 *)

\* The latest of a time and of time stamps recorded in order exists.
LEMMA Latest ==
  ASSUME NEW h \in Seq(Nat), Sorted(h), NEW f \in Nat
  PROVE  LET S == {f, 0} \cup {h[j] : j \in DOMAIN h}
         IN LatestOf(S) \in S /\ \A u \in S : u <= LatestOf(S)
<1> DEFINE S == {f, 0} \cup {h[j] : j \in DOMAIN h}
<1>1. Len(h) \in Nat /\ DOMAIN h = 1..Len(h) /\ \A j \in DOMAIN h : h[j] \in Nat
  BY ElementOfSeq
<1>2. \E t \in S : \A u \in S : u <= t
  <2>1. CASE Len(h) = 0
    <3>1. \A u \in S : u = f \/ u = 0
      BY <1>1, <2>1
    <3>2. f \in S /\ \A u \in S : u <= f
      BY <3>1
    <3> QED BY <3>2, Zenon
  <2>2. CASE Len(h) # 0
    <3> DEFINE m == h[Len(h)]
    <3>1. m \in S /\ f \in S /\ m \in Nat /\ Len(h) \in DOMAIN h
      BY <1>1, <2>2
    <3>2. \A j \in DOMAIN h : h[j] <= m
      BY <1>1, <3>1 DEF Sorted
    <3> HIDE DEF m
    <3>3. \A u \in S : u = f \/ u = 0 \/ \E j \in DOMAIN h : u = h[j]
      OBVIOUS
    <3>4. CASE f <= m
      <4>1. \A u \in S : u <= m
        BY <3>1, <3>2, <3>3, <3>4
      <4> QED BY <3>1, <4>1
    <3>5. CASE m <= f
      <4>1. \A u \in S : u <= f
        BY <1>1, <3>1, <3>2, <3>3, <3>5
      <4> QED BY <3>1, <4>1
    <3> QED BY <3>1, <3>4, <3>5
  <2> QED BY <2>1, <2>2
<1> HIDE DEF S
<1>3. LatestOf(S) \in S /\ \A u \in S : u <= LatestOf(S)
  BY <1>2 DEF LatestOf
<1> QED BY <1>3 DEF S

\* The last match or action of an item.
LEMMA QuietFacts ==
  ASSUME TypeOK, InOrder, NEW i \in Items
  PROVE  /\ QuietSince(i) \in Nat /\ lastFire[i] <= QuietSince(i)
         /\ \A j \in DOMAIN downHistory[i] : downHistory[i][j] <= QuietSince(i)
         /\ \/ QuietSince(i) = lastFire[i] \/ QuietSince(i) = 0
            \/ \E j \in DOMAIN downHistory[i] : QuietSince(i) = downHistory[i][j]
<1> DEFINE h == downHistory[i]
           f == lastFire[i]
           S == {f, 0} \cup {h[j] : j \in DOMAIN h}
<1>1. h \in Seq(Nat) /\ Sorted(h) /\ f \in Nat
  BY DEF TypeOK, InOrder
<1>2. QuietSince(i) = LatestOf(S)
  BY DEF QuietSince
<1>3. LatestOf(S) \in S /\ \A u \in S : u <= LatestOf(S)
  BY <1>1, Latest
<1>4. \A j \in DOMAIN h : h[j] \in Nat
  BY <1>1, ElementOfSeq
<1>5. f \in S /\ \A j \in DOMAIN h : h[j] \in S
  OBVIOUS
<1>6. LatestOf(S) = f \/ LatestOf(S) = 0 \/ \E j \in DOMAIN h : LatestOf(S) = h[j]
  BY <1>3
<1> HIDE DEF S
<1>7. LatestOf(S) \in Nat
  BY <1>1, <1>4, <1>6
<1> QED BY <1>2, <1>3, <1>5, <1>6, <1>7

\* It does not go back, and an action moves it to the present.
LEMMA QuietGrows ==
  ASSUME TypeOK, TypeOK', InOrder, InOrder', [Next]_vars, Items' = Items, NEW i \in Items
  PROVE  /\ QuietSince(i) \in Nat /\ QuietSince(i)' \in Nat
         /\ QuietSince(i) <= QuietSince(i)'
         /\ lastFire'[i] <= QuietSince(i)'
<1>1. /\ QuietSince(i) \in Nat
      /\ \/ QuietSince(i) = lastFire[i] \/ QuietSince(i) = 0
         \/ \E j \in DOMAIN downHistory[i] : QuietSince(i) = downHistory[i][j]
  BY QuietFacts
<1> DEFINE h1 == downHistory'[i]
           f1 == lastFire'[i]
           S1 == {f1, 0} \cup {h1[j] : j \in DOMAIN h1}
<1>2. h1 \in Seq(Nat) /\ Sorted(h1) /\ f1 \in Nat
  BY DEF TypeOK, InOrder
<1>3. QuietSince(i)' = LatestOf(S1)
  BY DEF QuietSince
<1>4. LatestOf(S1) \in S1 /\ \A u \in S1 : u <= LatestOf(S1)
  BY <1>2, Latest
<1>5. \A j \in DOMAIN h1 : h1[j] \in Nat
  BY <1>2, ElementOfSeq
<1>6. LatestOf(S1) \in Nat
  BY <1>2, <1>4, <1>5
<1>7. f1 \in S1 /\ 0 \in S1 /\ \A j \in DOMAIN h1 : h1[j] \in S1
  OBVIOUS
<1>8. DownChange(i) /\ downHistory[i] \in Seq(Nat) /\ lastFire[i] \in Nat /\ lastFire[i] <= now /\ now \in Nat
  BY DownStep DEF TypeOK, InOrder
<1>9. lastFire[i] <= f1
  BY <1>8 DEF DownChange
<1>10. \A j \in DOMAIN downHistory[i] : downHistory[i][j] \in S1
  <2>1. h1 = downHistory[i] \/ h1 = Append(downHistory[i], now)
    BY <1>8 DEF DownChange
  <2>2. CASE h1 = downHistory[i]
    BY <1>7, <2>2
  <2>3. CASE h1 = Append(downHistory[i], now)
    <3>1. \A j \in DOMAIN downHistory[i] : j \in DOMAIN h1 /\ h1[j] = downHistory[i][j]
      BY <1>8, <2>3
    <3> QED BY <1>7, <3>1
  <2> QED BY <2>1, <2>2, <2>3
<1> HIDE DEF S1, h1, f1
<1>11. f1 <= LatestOf(S1) /\ 0 <= LatestOf(S1)
  BY <1>4, <1>7
<1>12. QuietSince(i) <= LatestOf(S1)
  <2>1. CASE QuietSince(i) = lastFire[i]
    BY <1>2, <1>6, <1>8, <1>9, <1>11, <2>1
  <2>2. CASE QuietSince(i) = 0
    BY <1>11, <2>2
  <2>3. CASE \E j \in DOMAIN downHistory[i] : QuietSince(i) = downHistory[i][j]
    BY <1>4, <1>10, <2>3
  <2> QED BY <1>1, <2>1, <2>2, <2>3
<1> QED BY <1>1, <1>3, <1>6, <1>11, <1>12 DEF f1

\* The three parts of ReportDue for an item that was quiet since Q.
DueAsleep(Q, D) ==
  /\ down.start_time <= Q + D
  /\ down.wake - SleepSecs - Lag <= Q + 2 * D

DueUndecided(Q, D) ==
  /\ down.tnow - down.uptime <= Q + D
  /\ down.tnow <= Q + 2 * D + 2 * Lag + SleepSecs
  /\ down.uptime > D \/ down.start_time = down.tnow - down.uptime

DueDecided(Q, D) ==
  /\ down.start_time <= Q + D
  /\ down.tnow <= Q + 2 * D
  /\ down.uptime > D => down.tnow <= Q + D

Due(i, Q, D) ==
  /\ down.pc = "sleep" => DueAsleep(Q, D)
  /\ down.pc # "sleep" /\ down.item <= i => DueUndecided(Q, D)
  /\ down.pc # "sleep" /\ down.item > i => DueDecided(Q, D)

\* A later match or action only leaves more time.
LEMMA DueLater ==
  ASSUME TypeOK, NEW i, NEW D \in Nat, NEW Q \in Nat, NEW R \in Nat, Q <= R, Due(i, Q, D)
  PROVE  Due(i, R, D)
<1>0. /\ down.tnow \in Nat /\ down.uptime \in Nat /\ down.start_time \in Nat /\ down.wake \in Nat
      /\ SleepSecs \in Nat /\ Lag \in Nat
  BY TimingAssumption DEF TypeOK
<1>1. DueAsleep(Q, D) => DueAsleep(R, D)
  BY <1>0 DEF DueAsleep
<1>2. DueUndecided(Q, D) => DueUndecided(R, D)
  BY <1>0 DEF DueUndecided
<1>3. DueDecided(Q, D) => DueDecided(R, D)
  BY <1>0 DEF DueDecided
<1> QED BY <1>1, <1>2, <1>3 DEF Due

\* An item that leaves the pass with these bounds is not overdue.
LEMMA LeavesDue ==
  ASSUME TypeOK, TypeOK', Clock, NEW start \in Nat, Leaves(start),
         NEW i \in Items, i <= down.item, NEW D \in Nat, NEW R \in Nat,
         start <= R + D, down.tnow <= R + 2 * D, down.uptime > D => down.tnow <= R + D
  PROVE  Due(i, R, D)'
<1>0. /\ down.tnow \in Nat /\ SleepSecs \in Nat /\ Lag \in Nat /\ now \in Nat
      /\ Items = 1..Len(conf) /\ Len(conf) \in Nat /\ down.item \in Items
  BY TimingAssumption, ConfFacts DEF TypeOK
<1>1. CASE down.item = Len(conf)
  <2>1. down'.pc = "sleep" /\ down'.wake = now + SleepSecs /\ down'.start_time = start
    BY <1>1 DEF Leaves
  <2>2. now <= Lag + down.tnow
    BY DEF Leaves, Clock
  <2>3. DueAsleep(R, D)'
    BY <1>0, <2>1, <2>2 DEF DueAsleep
  <2> QED BY <2>1, <2>3 DEF Due
<1>2. CASE down.item # Len(conf)
  <2>1. /\ down'.pc # "sleep" /\ down'.item = down.item + 1 /\ down'.start_time = start
        /\ down'.tnow = down.tnow /\ down'.uptime = down.uptime
    BY <1>2 DEF Leaves
  <2>2. ~(down'.item <= i)
    BY <1>0, <2>1
  <2>3. DueDecided(R, D)'
    BY <2>1 DEF DueDecided
  <2> QED BY <2>1, <2>2, <2>3 DEF Due
<1> QED BY <1>1, <1>2

\* An item of the shortest period is not forgotten, whatever the others do.
LEMMA NextReportDue ==
  ASSUME TypeOK, TypeOK', OneQueue, InOrder, InOrder', DownWindow, Clock, DownFresh, FireDecided,
         ReportDue, [Next]_vars, conf' = conf, Items' = Items
  PROVE  ReportDue'
<1> SUFFICES ASSUME NEW i \in Items, conf[i].downCount > 0, ShortestPeriod(i),
                    NEW D \in Nat, D = conf[i].downTime,
                    NEW R \in Nat, R = QuietSince(i)'
             PROVE  Due(i, R, D)'
  <2>1. \A i \in Items : conf[i].downTime \in Nat
    BY ConfFacts DEF TypeOK
  <2>2. \A i \in Items : QuietSince(i)' \in Nat
    BY QuietGrows
  <2> QED BY <2>1, <2>2 DEF ReportDue, ShortestPeriod, Due, DueAsleep, DueUndecided, DueDecided
<1>0. /\ down.tnow \in Nat /\ down.uptime \in Nat /\ down.start_time \in Nat /\ down.wake \in Nat
      /\ SleepSecs \in Nat /\ Lag \in Nat /\ now \in Nat /\ conf \in Configs
      /\ down.item \in Items /\ Items = 1..Len(conf) /\ Len(conf) \in Nat
      /\ conf[i].downCount \in Nat
  BY TimingAssumption, ConfFacts DEF TypeOK
<1>1. QuietSince(i) \in Nat /\ QuietSince(i) <= R /\ lastFire'[i] <= R
  BY QuietGrows
<1>2. Due(i, QuietSince(i), D)
  BY DEF ReportDue, Due, DueAsleep, DueUndecided, DueDecided
<1>3. Due(i, R, D)
  BY <1>1, <1>2, DueLater
<1>4. CASE Still
  BY <1>3, <1>4 DEF Still, Due, DueAsleep, DueUndecided, DueDecided
<1>5. CASE Wakes
  <2>1. /\ down.pc = "sleep" /\ down'.pc # "sleep" /\ down'.item = 1 /\ down'.tnow = now
        /\ down'.uptime = now - down.start_time /\ down'.start_time = down.start_time
        /\ now <= Lag + down.wake
    BY <1>5 DEF Wakes, Clock
  <2>2. DueAsleep(R, D)
    BY <1>3, <2>1 DEF Due
  <2>3. DueUndecided(R, D)'
    <3>1. down.start_time <= R + D /\ down.wake - SleepSecs - Lag <= R + 2 * D
      BY <2>2 DEF DueAsleep
    <3>2. down'.tnow - down'.uptime = down.start_time
      BY <1>0, <2>1
    <3>3. down'.tnow <= R + 2 * D + 2 * Lag + SleepSecs
      <4>1. \A n, w, l, s \in Nat : n <= l + w /\ w - s - l <= R + 2 * D => n <= R + 2 * D + 2 * l + s
        OBVIOUS
      <4>2. now <= R + 2 * D + 2 * Lag + SleepSecs
        BY <1>0, <2>1, <3>1, <4>1, Zenon
      <4> QED BY <2>1, <4>2
    <3> QED BY <2>1, <3>1, <3>2, <3>3 DEF DueUndecided
  <2>4. ~(down'.item > i)
    BY <1>0, <2>1
  <2> QED BY <2>1, <2>3, <2>4 DEF Due
<1>6. CASE Prunes \/ Decides
  <2>1. down.pc # "sleep" /\ down'.pc # "sleep" /\ SamePass
    BY <1>6 DEF Prunes, Decides
  <2> QED BY <1>3, <2>1 DEF SamePass, Due, DueUndecided, DueDecided
<1>7. ASSUME NEW start, Leaves(start), down.item < i,
             DueUndecided(R, D) => down.uptime > D \/ start = down.tnow - down.uptime
      PROVE  Due(i, R, D)'
  <2>1. /\ down'.pc # "sleep" /\ down'.item = down.item + 1 /\ down'.start_time = start
        /\ down'.tnow = down.tnow /\ down'.uptime = down.uptime /\ down.pc # "sleep"
    BY <1>0, <1>7 DEF Leaves
  <2>2. DueUndecided(R, D)
    BY <1>0, <1>3, <1>7, <2>1 DEF Due
  <2>3. DueUndecided(R, D)'
    BY <1>7, <2>1, <2>2 DEF DueUndecided
  <2>4. ~(down'.item > i)
    BY <1>0, <1>7, <2>1
  <2> QED BY <2>1, <2>3, <2>4 DEF Due
<1>8. CASE Spares
  <2>1. Leaves(down.start_time) /\ down.pc = "check" /\ ~WillFire
    BY <1>8 DEF Spares
  <2>2. CASE down.item < i
    BY <1>7, <2>1, <2>2 DEF DueUndecided
  <2>3. CASE i < down.item
    <3>1. DueDecided(R, D)
      BY <1>0, <1>3, <2>1, <2>3 DEF Due
    <3>2. /\ down.start_time <= R + D /\ down.tnow <= R + 2 * D
          /\ down.uptime > D => down.tnow <= R + D
      BY <3>1 DEF DueDecided
    <3>3. i <= down.item
      BY <1>0, <2>3
    <3> QED BY <1>0, <2>1, <3>2, <3>3, LeavesDue
  <2>4. CASE i = down.item
    <3>1. DueUndecided(R, D)
      BY <1>0, <1>3, <2>1, <2>4 DEF Due
    <3>2. ASSUME down.uptime > D PROVE down.tnow <= R + D
      <4> DEFINE q == QueueOf(m_downfreq[i], 0)
                 h == downHistory[i]
      <4>1. IsEvents(m_downfreq[i], {0}) /\ IsFiniteSet({0}) /\ h \in Seq(Nat)
        BY FS_Singleton DEF TypeOK
      <4>2. q \in Seq(Nat) /\ Len(q) \in Nat
        BY <4>1, QueueType
      <4>3. MeasuringCount(m_downfreq[i], 0) = Len(q)
        BY <4>1, CountProperties DEF IsEvents
      <4>4. Len(q) > 0
        BY <1>0, <2>1, <2>4, <3>2, <4>2, <4>3 DEF WillFire
      <4>5. Remains(q, h) /\ NoneBefore(q, down.tnow - D)
        BY <2>1, <2>4 DEF DownWindow, DownFresh, Pruned, NoneBefore
      <4>6. \A j \in DOMAIN h : h[j] <= QuietSince(i) /\ h[j] \in Nat
        BY <4>1, QuietFacts, ElementOfSeq
      <4> HIDE DEF q, h
      <4>7. 1 \in DOMAIN q
        BY <4>2, <4>4
      <4>8. PICK k \in DOMAIN h : q[1] = h[k]
        BY <4>1, <4>2, <4>5, <4>7, RemainsElements
      <4>9. h[k] \in Nat /\ h[k] <= QuietSince(i) /\ h[k] >= down.tnow - D
        BY <4>5, <4>6, <4>7, <4>8 DEF NoneBefore
      <4> QED BY <1>0, <1>1, <4>9
    <3>3. down.tnow <= R + 2 * D /\ down.start_time <= R + D
      <4>1. CASE down.uptime > D
        <5>1. down.start_time <= down.tnow
          BY <1>0, <2>1 DEF Clock
        <5> QED BY <1>0, <3>2, <4>1, <5>1
      <4>2. CASE ~(down.uptime > D)
        <5>1. down.start_time = down.tnow - down.uptime /\ down.tnow - down.uptime <= R + D
          BY <3>1, <4>2 DEF DueUndecided
        <5>2. down.uptime <= D
          BY <1>0, <4>2
        <5> QED BY <1>0, <5>1, <5>2
      <4> QED BY <4>1, <4>2
    <3>4. i <= down.item
      BY <1>0, <2>4
    <3> QED BY <1>0, <2>1, <3>2, <3>3, <3>4, LeavesDue
  <2> QED BY <1>0, <2>2, <2>3, <2>4
<1>9. CASE Fires
  <2>1. /\ Leaves(down.tnow) /\ down.pc = "fire" /\ lastFire'[down.item] = now
        /\ down.tnow <= now
    BY <1>9 DEF Fires, Clock
  <2>2. down.uptime > D
    <3>1. /\ conf[down.item].downCount > 0 /\ down.uptime > conf[down.item].downTime
          /\ conf[down.item].downTime \in Nat
      BY <1>0, <2>1, ConfFacts DEF FireDecided
    <3>2. D <= conf[down.item].downTime
      BY <1>0, <3>1 DEF ShortestPeriod
    <3> QED BY <1>0, <3>1, <3>2
  <2>3. CASE down.item < i
    BY <1>7, <2>1, <2>2, <2>3
  <2>4. CASE i <= down.item
    <3>1. down.tnow <= R + D
      <4>1. CASE i = down.item
        BY <1>0, <1>1, <2>1, <4>1
      <4>2. CASE i # down.item
        <5>1. DueDecided(R, D)
          BY <1>0, <1>3, <2>1, <2>4, <4>2 DEF Due
        <5> QED BY <2>2, <5>1 DEF DueDecided
      <4> QED BY <4>1, <4>2
    <3>2. down.tnow <= R + 2 * D
      BY <1>0, <3>1
    <3> QED BY <1>0, <2>1, <2>4, <3>1, <3>2, LeavesDue
  <2> QED BY <1>0, <2>3, <2>4
<1> QED BY <1>4, <1>5, <1>6, <1>8, <1>9, DownThread

-----------------------------------------------------------------------------
(* The invariant and its consequences                                      *)

\* Before the first line and the first pass.
LEMMA InitFreqInv == Init => FreqInv
<1> SUFFICES ASSUME Init PROVE FreqInv
  OBVIOUS
<1>1. /\ conf \in Configs /\ Len(conf) \in Nat /\ Len(conf) >= 1 /\ Items = 1..Len(conf)
      /\ \A i \in Items : /\ conf[i].upCount \in Nat /\ conf[i].upTime \in Nat
                          /\ conf[i].downCount \in Nat /\ conf[i].downTime \in Nat
  BY ConfFacts DEF Init
<1>2. /\ now = 0 /\ alive = TRUE
      /\ main = [pc |-> "next", item |-> 1, crc |-> 0]
      /\ down = [pc |-> "sleep", item |-> 1, tnow |-> 0, uptime |-> 0, start_time |-> 0, wake |-> SleepSecs]
      /\ m_upfreq = [i \in Items |-> NoEvents] /\ m_downfreq = [i \in Items |-> NoEvents]
      /\ upHistory = [i \in Items |-> [c \in Crcs |-> <<>>]]
      /\ downHistory = [i \in Items |-> <<>>] /\ lastFire = [i \in Items |-> 0]
  BY DEF Init
<1>3. SleepSecs \in Nat /\ Lag \in Nat /\ HardSlack \in Nat /\ 0 \in Crcs
  BY TimingAssumption, CrcsAssumption
<1>4. /\ \A K : IsEvents(NoEvents, K)
      /\ DOMAIN NoEvents = {} /\ \A c : QueueOf(NoEvents, c) = <<>>
  BY DEF IsEvents, NoEvents, QueueOf
<1>5. TypeOK
  <2>1. [c \in Crcs |-> <<>>] \in [Crcs -> Seq(Nat)]
    OBVIOUS
  <2>2. main \in [pc : {"next", "excess", "notify"}, item : Items, crc : Crcs]
    BY <1>1, <1>2, <1>3
  <2>3. down \in [pc : {"sleep", "prune", "check", "fire"}, item : Items, tnow : Nat,
                  uptime : Nat, start_time : Nat, wake : Nat]
    BY <1>1, <1>2, <1>3
  <2> QED BY <1>1, <1>2, <1>4, <2>1, <2>2, <2>3 DEF TypeOK
<1>6. /\ \A i \in Items, c \in Crcs : QueueOf(m_upfreq[i], c) = <<>> /\ upHistory[i][c] = <<>>
      /\ \A i \in Items : /\ QueueOf(m_downfreq[i], 0) = <<>> /\ downHistory[i] = <<>> /\ lastFire[i] = 0
                          /\ DOMAIN m_upfreq[i] = {}
  BY <1>2, <1>4
<1>7. Len(<<>>) = 0 /\ Remains(<<>>, <<>>) /\ Lost(<<>>, <<>>) = {} /\ DOMAIN <<>> = {}
  BY DEF Remains, Lost
<1>8. OneQueue
  BY <1>2, <1>6 DEF OneQueue
<1>9. UpBounded /\ DownBounded
  <2>1. \A i \in Items, c \in Crcs : Len(QueueOf(m_upfreq[i], c)) <= conf[i].upCount + 0
    BY <1>1, <1>6, <1>7
  <2>2. \A i \in Items : Len(QueueOf(m_downfreq[i], 0)) <= conf[i].downCount + HardSlack + 1
    BY <1>1, <1>3, <1>6, <1>7
  <2> QED BY <1>2, <2>1, <2>2 DEF UpBounded, DownBounded
<1>10. InOrder
  BY <1>2, <1>6, <1>7 DEF InOrder, Sorted
<1>11. UpWindow
  BY <1>6, <1>7 DEF UpWindow
<1>12. DownWindow
  BY <1>6, <1>7 DEF DownWindow
<1>13. Clock
  BY <1>2, <1>3 DEF Clock
<1>14. UpFresh
  BY <1>3, <1>6, <1>7 DEF UpFresh
<1>15. DownFresh /\ FireDecided
  BY <1>2 DEF DownFresh, FireDecided
<1>16. FiresApart
  BY <1>2, <1>3, <1>6 DEF FiresApart
<1>17. ReportDue
  <2>1. \A i \in Items : QuietSince(i) \in Nat
    BY <1>5, <1>10, QuietFacts
  <2> QED BY <1>1, <1>2, <1>3, <2>1 DEF ReportDue
<1> QED BY <1>5, <1>8, <1>9, <1>10, <1>11, <1>12, <1>13, <1>14, <1>15, <1>16, <1>17 DEF FreqInv

\* Every step of either thread keeps the parts of the invariant.
LEMMA NextFreqInv == FreqInv /\ [Next]_vars => FreqInv'
<1> SUFFICES ASSUME FreqInv, [Next]_vars PROVE FreqInv'
  OBVIOUS
<1>1. /\ TypeOK /\ OneQueue /\ UpBounded /\ DownBounded /\ InOrder /\ UpWindow /\ DownWindow
      /\ Clock /\ UpFresh /\ DownFresh /\ FiresApart /\ FireDecided /\ ReportDue
  BY DEF FreqInv
<1>2. TypeOK' /\ conf' = conf /\ Items' = Items
  BY <1>1, NextTypes
<1>3. OneQueue' /\ UpBounded' /\ DownBounded'
  BY <1>1, <1>2, NextOneQueue, NextUpBounded, NextDownBounded
<1>4. InOrder' /\ UpWindow' /\ DownWindow'
  BY <1>1, <1>2, NextInOrder, NextUpWindow, NextDownWindow
<1>5. Clock' /\ UpFresh' /\ DownFresh'
  BY <1>1, <1>2, NextClock, NextUpFresh, NextDownFresh
<1>6. FiresApart' /\ FireDecided'
  BY <1>1, <1>2, NextFiresApart, NextFireDecided
<1>7. ReportDue'
  BY <1>1, <1>2, <1>4, NextReportDue
<1> QED BY <1>2, <1>3, <1>4, <1>5, <1>6, <1>7 DEF FreqInv

\* The inductive invariant of the two threads: what the queues still hold of
\* the matches, and how far the down-bound thread's clock is behind.
THEOREM FreqInvariant == Spec => []FreqInv
BY InitFreqInv, NextFreqInv, PTL DEF Spec

\* Every variable of the frequency measuring stays in its type; in particular
\* uptime, tnow - start_time in monitor.cpp, is never negative.
THEOREM FreqTypes == Spec => []TypeOK
<1>1. FreqInv => TypeOK
  BY DEF FreqInv
<1> QED BY <1>1, FreqInvariant, PTL

\* LNFreq's queues are bounded: the up-bound ones by the reset after an
\* excess, the down-bound one by the hard limit of pushEvent.
THEOREM QueuesBounded == Spec => []QueueBounded
<1>1. FreqInv => QueueBounded
  <2> SUFFICES ASSUME FreqInv, NEW i \in Items
               PROVE  /\ \A k \in DOMAIN m_upfreq[i] : Len(m_upfreq[i][k]) <= conf[i].upCount + 1
                      /\ \A k \in DOMAIN m_downfreq[i] : Len(m_downfreq[i][k]) <= conf[i].downCount + HardSlack + 1
    BY DEF QueueBounded
  <2>1. /\ TypeOK /\ UpBounded /\ DownBounded /\ conf \in Configs
        /\ IsEvents(m_upfreq[i], Crcs) /\ IsEvents(m_downfreq[i], {0})
    BY DEF FreqInv, TypeOK
  <2>2. conf[i].upCount \in Nat
    BY <2>1, ConfFacts
  <2>3. ASSUME NEW k \in DOMAIN m_upfreq[i] PROVE Len(m_upfreq[i][k]) <= conf[i].upCount + 1
    <3>1. k \in Crcs /\ QueueOf(m_upfreq[i], k) = m_upfreq[i][k] /\ m_upfreq[i][k] \in Seq(Nat)
      BY <2>1 DEF IsEvents, QueueOf
    <3>2. \/ Len(m_upfreq[i][k]) <= conf[i].upCount + 1
          \/ Len(m_upfreq[i][k]) <= conf[i].upCount + 0
      BY <2>1, <3>1 DEF UpBounded
    <3> QED BY <2>2, <3>1, <3>2
  <2>4. ASSUME NEW k \in DOMAIN m_downfreq[i]
        PROVE  Len(m_downfreq[i][k]) <= conf[i].downCount + HardSlack + 1
    <3>1. k = 0 /\ QueueOf(m_downfreq[i], 0) = m_downfreq[i][k]
      BY <2>1 DEF IsEvents, QueueOf
    <3> QED BY <2>1, <3>1 DEF DownBounded
  <2> QED BY <2>3, <2>4
<1> QED BY <1>1, FreqInvariant, PTL

\* A set of places among the last n of m.
LEMMA AmongLast ==
  ASSUME NEW m \in Nat, NEW n \in Nat, n <= m, NEW T, T \subseteq (m - n + 1)..m
  PROVE  IsFiniteSet(T) /\ Cardinality(T) \in Nat /\ Cardinality(T) <= n
<1>1. m - n + 1 \in Int /\ m \in Int
  OBVIOUS
<1>2. /\ IsFiniteSet((m - n + 1)..m)
      /\ Cardinality((m - n + 1)..m) = IF m - n + 1 > m THEN 0 ELSE m - (m - n + 1) + 1
  BY <1>1, FS_Interval
<1>3. Cardinality((m - n + 1)..m) = n
  BY <1>2
<1>4. IsFiniteSet(T) /\ Cardinality(T) <= Cardinality((m - n + 1)..m)
  BY <1>2, FS_Subset
<1>5. Cardinality(T) \in Nat
  BY <1>4, FS_CardinalityType
<1> QED BY <1>3, <1>4, <1>5

\* A set of places that contains the last n of m.
LEMMA AllLast ==
  ASSUME NEW m \in Nat, NEW n \in Nat, n <= m, NEW T, T \subseteq 1..m, (m - n + 1)..m \subseteq T
  PROVE  Cardinality(T) \in Nat /\ Cardinality(T) >= n
<1>1. m - n + 1 \in Int /\ m \in Int
  OBVIOUS
<1>2. Cardinality((m - n + 1)..m) = IF m - n + 1 > m THEN 0 ELSE m - (m - n + 1) + 1
  BY <1>1, FS_Interval
<1>3. Cardinality((m - n + 1)..m) = n
  BY <1>2
<1>4. IsFiniteSet(1..m)
  BY FS_Interval
<1>5. IsFiniteSet(T)
  BY <1>4, FS_Subset
<1>6. Cardinality((m - n + 1)..m) <= Cardinality(T) /\ Cardinality(T) \in Nat
  BY <1>5, FS_Subset, FS_CardinalityType
<1> QED BY <1>3, <1>6

\* The pruning of the down-bound thread, wherever it falls between Match and
\* upBoundFreqExcess, and pushEvent's hard limit never hide an excess.
THEOREM ExcessSeen == Spec => []ExcessNotHidden
<1>1. FreqInv => ExcessNotHidden
  <2> SUFFICES ASSUME FreqInv, NEW i \in Items, NEW c \in Crcs,
                      Cardinality(Since(upHistory[i][c], now - conf[i].upTime)) > conf[i].upCount
               PROVE  Len(QueueOf(m_upfreq[i], c)) > conf[i].upCount
    BY DEF ExcessNotHidden
  <2> DEFINE q == QueueOf(m_upfreq[i], c)
             h == upHistory[i][c]
             T == Since(h, now - conf[i].upTime)
  <2>1. /\ TypeOK /\ UpWindow /\ conf \in Configs /\ IsEvents(m_upfreq[i], Crcs) /\ h \in Seq(Nat) /\ now \in Nat
    BY DEF FreqInv, TypeOK
  <2>2. conf[i].upCount \in Nat /\ conf[i].upTime \in Nat
    BY <2>1, ConfFacts
  <2>3. q \in Seq(Nat) /\ Len(q) \in Nat /\ Len(h) \in Nat
    BY <2>1, QueueType
  <2>4. Remains(q, h) /\ \A j \in Lost(q, h) : h[j] < now - conf[i].upTime
    BY <2>1 DEF UpWindow
  <2>5. \A j \in DOMAIN h : h[j] \in Nat /\ j \in 1..Len(h)
    BY <2>1, ElementOfSeq
  <2>6. \A j \in T : j \in DOMAIN h /\ h[j] >= now - conf[i].upTime
    BY DEF Since
  <2> HIDE DEF q, h, T
  <2>7. Len(q) <= Len(h)
    BY <2>4 DEF Remains
  <2>8. T \subseteq (Len(h) - Len(q) + 1)..Len(h)
    <3> SUFFICES ASSUME NEW j \in T PROVE j \in (Len(h) - Len(q) + 1)..Len(h)
      OBVIOUS
    <3>1. j \in 1..Len(h) /\ h[j] \in Nat /\ ~(h[j] < now - conf[i].upTime)
      BY <2>1, <2>2, <2>5, <2>6
    <3>2. j \notin Lost(q, h)
      BY <2>4, <3>1
    <3> QED BY <2>3, <2>7, <3>1, <3>2 DEF Lost
  <2>9. Cardinality(T) \in Nat /\ Cardinality(T) <= Len(q)
    BY <2>3, <2>7, <2>8, AmongLast
  <2>10. Cardinality(T) > conf[i].upCount
    BY DEF T, h
  <2>11. Len(q) > conf[i].upCount
    BY <2>2, <2>3, <2>9, <2>10
  <2> QED BY <2>11 DEF q
<1> QED BY <1>1, FreqInvariant, PTL

\* The items with the shortest down-bound period are reported in time although
\* all items share start_time in the down-bound thread.
THEOREM ShortestReported == Spec => []ShortestDownboundTimely
<1>1. FreqInv => ShortestDownboundTimely
  <2> SUFFICES ASSUME FreqInv, alive, NEW i \in Items, ShortestPeriod(i), conf[i].downCount > 0
               PROVE  now - QuietSince(i) <= NotifyWithin(i)
    BY DEF ShortestDownboundTimely, Timely, ShortestPeriod
  <2>1. TypeOK /\ InOrder /\ Clock /\ ReportDue /\ conf \in Configs
    BY DEF FreqInv, TypeOK
  <2> DEFINE Q == QuietSince(i)
             D == conf[i].downTime
  <2>2. D \in Nat /\ Q \in Nat
    BY <2>1, ConfFacts, QuietFacts
  <2>3. /\ now \in Nat /\ SleepSecs \in Nat /\ Lag \in Nat
        /\ down.tnow \in Nat /\ down.wake \in Nat /\ down.item \in Items /\ down.item \in Nat /\ i \in Nat
    BY <2>1, ConfFacts, TimingAssumption DEF TypeOK
  <2>4. now <= Lag + (IF down.pc = "sleep" THEN down.wake ELSE down.tnow)
    BY <2>1 DEF Clock
  <2>5. Due(i, Q, D)
    BY <2>1 DEF ReportDue, Due, DueAsleep, DueUndecided, DueDecided
  <2> HIDE DEF Q, D
  <2>6. now <= Q + 2 * D + 3 * Lag + SleepSecs
    <3>1. CASE down.pc = "sleep"
      BY <2>2, <2>3, <2>4, <2>5, <3>1 DEF Due, DueAsleep
    <3>2. CASE down.pc # "sleep" /\ down.item <= i
      BY <2>2, <2>3, <2>4, <2>5, <3>2 DEF Due, DueUndecided
    <3>3. CASE down.pc # "sleep" /\ down.item > i
      BY <2>2, <2>3, <2>4, <2>5, <3>3 DEF Due, DueDecided
    <3> QED BY <2>3, <3>1, <3>2, <3>3
  <2>7. now - Q <= 2 * D + 1 + (SleepSecs + 3 * Lag)
    BY <2>2, <2>3, <2>6
  <2> QED BY <2>7 DEF NotifyWithin, PruneGap, Q, D
<1> QED BY <1>1, FreqInvariant, PTL

\* A down-bound action is decided only on a real silence since the item's
\* previous action, and a full period after it.
THEOREM FiresWhenQuiet == Spec => FireOnlyWhenQuiet
<1> DEFINE Quiet ==
      down.pc = "check" /\ down'.pc = "fire"
        => LET i == down.item
               recent == Since(downHistory[i], now - conf[i].downTime)
           IN /\ Cardinality({j \in recent : downHistory[i][j] > lastFire[i]}) < conf[i].downCount
              /\ now - lastFire[i] > conf[i].downTime - Lag
<1>1. FreqInv /\ [Next]_vars => [Quiet]_vars
  <2> SUFFICES ASSUME FreqInv, [Next]_vars, down.pc = "check", down'.pc = "fire",
                      NEW i \in Items, i = down.item
               PROVE  /\ Cardinality({j \in Since(downHistory[i], now - conf[i].downTime) :
                                        downHistory[i][j] > lastFire[i]}) < conf[i].downCount
                      /\ now - lastFire[i] > conf[i].downTime - Lag
    BY DEF FreqInv, TypeOK
  <2>1. /\ TypeOK /\ OneQueue /\ DownWindow /\ Clock /\ FiresApart /\ conf \in Configs
        /\ IsEvents(m_downfreq[i], {0}) /\ IsFiniteSet({0}) /\ downHistory[i] \in Seq(Nat) /\ now \in Nat
        /\ lastFire[i] \in Nat /\ down.tnow \in Nat /\ down.uptime \in Nat
    BY FS_Singleton DEF FreqInv, TypeOK
  <2>2. conf[i].downCount \in Nat /\ conf[i].downTime \in Nat /\ HardSlack \in Nat /\ Lag \in Nat
    BY <2>1, ConfFacts, TimingAssumption
  <2>3. WillFire
    BY <2>1, DownThread DEF Still, Wakes, Prunes, Decides, Spares, Fires, Leaves
  <2> DEFINE q == QueueOf(m_downfreq[i], 0)
             h == downHistory[i]
             T == {j \in Since(h, now - conf[i].downTime) : h[j] > lastFire[i]}
  <2>4. q \in Seq(Nat) /\ Len(q) \in Nat /\ Len(h) \in Nat
    BY <2>1, QueueType
  <2>5. MeasuringCount(m_downfreq[i], 0) = Len(q)
    BY <2>1, CountProperties DEF IsEvents
  <2>6. Len(q) < conf[i].downCount /\ down.uptime > conf[i].downTime
    BY <2>3, <2>5 DEF WillFire
  <2>7. /\ Remains(q, h)
        /\ \A j \in Lost(q, h) : \/ h[j] < now - conf[i].downTime
                                 \/ h[j] <= lastFire[i]
                                 \/ Len(q) > conf[i].downCount + HardSlack
    BY <2>1 DEF DownWindow
  <2>8. \A j \in DOMAIN h : h[j] \in Nat /\ j \in 1..Len(h)
    BY <2>1, ElementOfSeq
  <2>9. \A j \in T : j \in DOMAIN h /\ h[j] >= now - conf[i].downTime /\ h[j] > lastFire[i]
    BY DEF Since
  <2> HIDE DEF q, h, T
  <2>10. Len(q) <= Len(h)
    BY <2>7 DEF Remains
  <2>11. T \subseteq (Len(h) - Len(q) + 1)..Len(h)
    <3> SUFFICES ASSUME NEW j \in T PROVE j \in (Len(h) - Len(q) + 1)..Len(h)
      OBVIOUS
    <3>1. j \in 1..Len(h) /\ h[j] \in Nat /\ ~(h[j] < now - conf[i].downTime) /\ ~(h[j] <= lastFire[i])
      BY <2>1, <2>2, <2>8, <2>9
    <3>2. ~(Len(q) > conf[i].downCount + HardSlack)
      BY <2>2, <2>4, <2>6
    <3>3. j \notin Lost(q, h)
      BY <2>7, <3>1, <3>2
    <3> QED BY <2>4, <2>10, <3>1, <3>3 DEF Lost
  <2>12. Cardinality(T) \in Nat /\ Cardinality(T) <= Len(q)
    BY <2>4, <2>10, <2>11, AmongLast
  <2>13. Cardinality(T) < conf[i].downCount
    BY <2>2, <2>4, <2>6, <2>12
  <2>14. now - lastFire[i] > conf[i].downTime - Lag
    <3>1. lastFire[i] <= down.tnow - down.uptime + Lag
      <4>1. i \in Nat
        BY <2>1, ConfFacts
      <4> QED BY <2>1, <4>1 DEF FiresApart
    <3>2. down.tnow <= now
      BY <2>1 DEF Clock
    <3> QED BY <2>1, <2>2, <2>6, <3>1, <3>2
  <2> QED BY <2>13, <2>14 DEF T, h
<1> QED BY <1>1, FreqInvariant, PTL DEF Spec, FireOnlyWhenQuiet

\* An item without usecrc is notified only of a burst: its matches within the
\* period, stretched by the time between two prunings.
THEOREM NotifiesOnBurst == Spec => NotifyOnlyOnBurst
<1> DEFINE Burst ==
      main.pc = "excess" /\ main'.pc = "notify" /\ ~conf[main.item].usecrc
        => LET i == main.item IN
           Cardinality(Since(upHistory[i][0], now - conf[i].upTime - PruneGap)) > conf[i].upCount
<1>1. FreqInv /\ [Next]_vars => [Burst]_vars
  <2> SUFFICES ASSUME FreqInv, [Next]_vars, main.pc = "excess", main'.pc = "notify",
                      NEW i \in Items, i = main.item, ~conf[i].usecrc
               PROVE  Cardinality(Since(upHistory[i][0], now - conf[i].upTime - PruneGap)) > conf[i].upCount
    BY DEF FreqInv, TypeOK
  <2>1. /\ TypeOK /\ OneQueue /\ UpWindow /\ Clock /\ UpFresh /\ conf \in Configs
        /\ IsEvents(m_upfreq[i], Crcs) /\ now \in Nat /\ 0 \in Crcs /\ IsFiniteSet(Crcs)
    BY CrcsAssumption DEF FreqInv, TypeOK
  <2>2. /\ conf[i].upCount \in Nat /\ conf[i].upTime \in Nat /\ SleepSecs \in Nat /\ Lag \in Nat
        /\ down.tnow \in Nat /\ down.wake \in Nat
    BY <2>1, ConfFacts, TimingAssumption DEF TypeOK
  <2>3. UpExcess
    BY <2>1 DEF TypeOK, Next, NoMatch, Match, UpNotify, DownWake, DownPrune, DownCheck, DownFire, Tick, vars
  <2>4. main.crc = 0 /\ DOMAIN m_upfreq[i] \subseteq {0}
    BY <2>1 DEF OneQueue
  <2>5. alive /\ MeasuringCount(m_upfreq[i], 0) > conf[i].upCount
    BY <2>3, <2>4 DEF UpExcess, ItemDone
  <2> DEFINE q == QueueOf(m_upfreq[i], 0)
             h == upHistory[i][0]
             t == now - conf[i].upTime - PruneGap
             T == Since(h, t)
  <2>6. q \in Seq(Nat) /\ Len(q) \in Nat /\ h \in Seq(Nat) /\ Len(h) \in Nat
    BY <2>1, QueueType DEF TypeOK
  <2>7. MeasuringCount(m_upfreq[i], 0) = Len(q)
    BY <2>1, <2>4, CountProperties
  <2>8. Remains(q, h)
    BY <2>1 DEF UpWindow
  <2>9. NoneBefore(q, UpFrom(i))
    BY <2>1 DEF UpFresh, UpFrom, NoneBefore
  <2>10. t \in Int /\ UpFrom(i) \in Int /\ t <= UpFrom(i)
    <3>1. now <= Lag + (IF down.pc = "sleep" THEN down.wake ELSE down.tnow)
      BY <2>1, <2>5 DEF Clock
    <3>2. \/ down.pc = "sleep" /\ UpFrom(i) = down.wake - SleepSecs - Lag - conf[i].upTime
          \/ down.pc # "sleep" /\ UpFrom(i) = down.tnow - conf[i].upTime
          \/ down.pc # "sleep" /\ UpFrom(i) = down.tnow - 2 * Lag - SleepSecs - conf[i].upTime
      BY DEF UpFrom
    <3>3. t = now - conf[i].upTime - (SleepSecs + 3 * Lag)
      BY DEF PruneGap
    <3> HIDE DEF t
    <3> QED BY <2>1, <2>2, <3>1, <3>2, <3>3
  <2>11. T \subseteq 1..Len(h)
    BY <2>6 DEF Since
  <2> HIDE DEF q, t
  <2>12. NoneBefore(q, t)
    BY <2>6, <2>9, <2>10, EarlierNoneBefore
  <2>13. (Len(h) - Len(q) + 1)..Len(h) \subseteq T
    <3> SUFFICES ASSUME NEW j \in (Len(h) - Len(q) + 1)..Len(h) PROVE j \in T
      OBVIOUS
    <3>1. Len(q) <= Len(h)
      BY <2>8 DEF Remains
    <3> DEFINE k == j - (Len(h) - Len(q))
    <3>2. k \in DOMAIN q /\ Len(h) - Len(q) + k = j /\ j \in DOMAIN h
      <4>1. DOMAIN q = 1..Len(q) /\ DOMAIN h = 1..Len(h)
        BY <2>6
      <4>2. \A a, b \in Nat : \A x \in (b - a + 1)..b :
              a <= b => x - (b - a) \in 1..a /\ b - a + (x - (b - a)) = x /\ x \in 1..b
        OBVIOUS
      <4> QED BY <2>6, <3>1, <4>1, <4>2, Zenon
    <3>3. q[k] = h[Len(h) - Len(q) + k] /\ q[k] >= t
      BY <2>8, <2>12, <3>2 DEF Remains, NoneBefore
    <3> QED BY <3>2, <3>3 DEF Since
  <2>14. Len(q) <= Len(h)
    BY <2>8 DEF Remains
  <2> HIDE DEF T, h
  <2>15. Cardinality(T) \in Nat /\ Cardinality(T) >= Len(q)
    BY <2>6, <2>11, <2>13, <2>14, AllLast
  <2>16. Cardinality(T) > conf[i].upCount
    BY <2>2, <2>5, <2>6, <2>7, <2>15
  <2> QED BY <2>16 DEF T, h, t
<1> QED BY <1>1, FreqInvariant, PTL DEF Spec, NotifyOnlyOnBurst

=============================================================================
