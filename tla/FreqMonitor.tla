---------------------------- MODULE FreqMonitor -----------------------------
(***************************************************************************)
(* Frequency measuring: LNFreq, the frequency half of LNLogItem, the match *)
(* loop of processLogFile that feeds it and the down-bound thread          *)
(* _executeDownBoundFreqCheck that prunes it.                              *)
(*                                                                         *)
(* Two threads share every log item.  Each LNLogItem method locks the item *)
(* for its own duration only, so one step here is one such method: the     *)
(* main loop's Match, upBoundFreqExcess and resetUpBoundFreqMessuring are  *)
(* three steps, and the pass of the down-bound thread may run between any  *)
(* two of them.  Time is time(NULL), in seconds.                           *)
(*                                                                         *)
(* A frequency's m_events is a function from the CRCs that have a queue to *)
(* the time stamps in it, oldest first.                                    *)
(***************************************************************************)
EXTENDS Integers, Sequences, FiniteSets

CONSTANTS
  Configs,     \* configurations: sequences of items in their iteration order
  Crcs,        \* CRCs of a line's match, 0 among them
  HardSlack,   \* the 10 of pushEvent's hard limit
  SleepSecs,   \* the 5 of the down-bound thread's sleep(5)
  Lag,         \* bound: seconds the down-bound thread's wakeup or pass may take
  MaxTime,     \* bound: seconds in one behaviour
  MaxMatch     \* bound: matching lines in one behaviour, times the number of items

\* The frequency settings of an item: m_usecrc, m_count and m_time of m_upfreq
\* and of m_downfreq.  A downCount of 0 disables the down-bound check.
ItemSettings ==
  [usecrc : BOOLEAN, upCount : Nat, upTime : Nat, downCount : Nat, downTime : Nat]

ASSUME ConfigsAssumption == \A c \in Configs : c \in Seq(ItemSettings) /\ c # <<>>

ASSUME CrcsAssumption == Crcs \subseteq Nat /\ 0 \in Crcs /\ IsFiniteSet(Crcs)

ASSUME TimingAssumption ==
  /\ HardSlack \in Nat /\ SleepSecs \in Nat /\ Lag \in Nat
  /\ MaxTime \in Nat /\ MaxMatch \in Nat

VARIABLES
  conf,        \* the configuration in force
  now,         \* time(NULL)
  alive,       \* FALSE once undefined behaviour ended or hung the process
  m_upfreq,    \* [Items -> m_events of the up-bound frequency]
  m_downfreq,  \* [Items -> m_events of the down-bound frequency]
  main,        \* [pc, item, crc] of the main loop
  down,        \* [pc, item, tnow, uptime, start_time, wake] of the down-bound thread
  upHistory,   \* history: [Items -> [Crcs -> matches since the last up-bound reset]]
  downHistory, \* history: [Items -> all matches]
  lastFire     \* history: [Items -> time of the last down-bound action]

vars == <<conf, now, alive, m_upfreq, m_downfreq, main, down, upHistory, downHistory, lastFire>>

Items == DOMAIN conf

NoEvents == [k \in {} |-> <<>>]

Init ==
  /\ conf \in Configs
  /\ now = 0
  /\ alive = TRUE
  /\ m_upfreq = [i \in Items |-> NoEvents]
  /\ m_downfreq = [i \in Items |-> NoEvents]
  /\ main = [pc |-> "next", item |-> 1, crc |-> 0]
  /\ down = [pc |-> "sleep", item |-> 1, tnow |-> 0, uptime |-> 0,
             start_time |-> 0, wake |-> SleepSecs]
  /\ upHistory = [i \in Items |-> [c \in Crcs |-> <<>>]]
  /\ downHistory = [i \in Items |-> <<>>]
  /\ lastFire = [i \in Items |-> 0]

-----------------------------------------------------------------------------
(* LNFreq                                                                  *)

QueueOf(events, crc) == IF crc \in DOMAIN events THEN events[crc] ELSE <<>>

\* Mutant of DropOldest: no hard limit.
DropNothing(q, limit) == q

\* The events of queue q that remain when it holds more than limit of them.
DropOldest(q, limit) ==
  IF Len(q) > limit THEN SubSeq(q, Len(q) - limit + 1, Len(q)) ELSE q

\* LNFreq::pushEvent: the oldest events over m_count + 10 make room first.
PushEvent(events, count, crc, time) ==
  [k \in DOMAIN events \cup {crc} |->
     IF k = crc
       THEN Append(DropOldest(QueueOf(events, crc), count + HardSlack), time)
       ELSE events[k]]

\* Mutant of Fresh: an event exactly one period old is popped too.
FreshStrict(q, depr) ==
  LET stale == CHOOSE n \in 0..Len(q) :
                 /\ \A j \in 1..n : q[j] <= depr
                 /\ n < Len(q) => q[n + 1] > depr
  IN SubSeq(q, stale + 1, Len(q))

\* The front of the queue is popped while it is older than depr.
Fresh(q, depr) ==
  LET stale == CHOOSE n \in 0..Len(q) :
                 /\ \A j \in 1..n : q[j] < depr
                 /\ n < Len(q) => q[n + 1] >= depr
  IN SubSeq(q, stale + 1, Len(q))

\* Keys whose queue removeDeprecated leaves empty, deletes and erases.
Erased(events, depr) == {k \in DOMAIN events : Fresh(events[k], depr) = <<>>}

\* When the first key of the map is erased, the loop goes on from the erased
\* iterator.  Erasing a later key restarts it behind the first one.
LosesIterator(events, depr) ==
  \E k \in Erased(events, depr) : \A l \in DOMAIN events : k <= l

\* The keys the loop of removeDeprecated gets to see: all of them, or any set
\* with the first one if the loop lost its iterator and survived that.
VisitedKeys(events, depr) ==
  {v \in SUBSET DOMAIN events :
     IF LosesIterator(events, depr)
       THEN \E k \in v : \A l \in DOMAIN events : k <= l
       ELSE v = DOMAIN events}

\* Mutant of RemoveDeprecated: nothing is removed.
RemoveNothing(events, depr, visited) == events

\* LNFreq::removeDeprecated
RemoveDeprecated(events, depr, visited) ==
  [k \in DOMAIN events \ (Erased(events, depr) \cap visited) |->
     IF k \in visited THEN Fresh(events[k], depr) ELSE events[k]]

\* LNFreq::getMessuringCount
MeasuringCount(events, crc) ==
  IF crc = 0
    THEN Cardinality(UNION {{k} \X (1..Len(events[k])) : k \in DOMAIN events})
    ELSE Len(QueueOf(events, crc))

\* LNFreq::resetMessuring(0), the only argument it is called with: every
\* queue is emptied, its key stays.
ResetMeasuring(events) == [k \in DOMAIN events |-> <<>>]

-----------------------------------------------------------------------------
(* The main loop: processLogFile                                           *)

\* Mutant of NextItem: the iterator is not reset for the next line.
NextItemNoReset(i) == i + 1

\* A line is matched against the items in turn; after the last one the next
\* line starts with the first.
NextItem(i) == IF i = Len(conf) THEN 1 ELSE i + 1

ItemDone(i) == [pc |-> "next", item |-> NextItem(i), crc |-> 0]

\* The line does not match the item.
NoMatch ==
  /\ alive
  /\ main.pc = "next"
  /\ main' = ItemDone(main.item)
  /\ UNCHANGED <<conf, now, alive, m_upfreq, m_downfreq, down, upHistory, downHistory, lastFire>>

Matches == Cardinality(UNION {{i} \X DOMAIN downHistory[i] : i \in Items})

\* LNLogItem::Match: the event is pushed to both frequencies.
Match(crc) ==
  /\ alive
  /\ main.pc = "next"
  /\ LET i == main.item IN
     /\ (Matches + 1) * Len(conf) <= MaxMatch
     /\ conf[i].usecrc \/ crc = 0
     /\ m_upfreq' = [m_upfreq EXCEPT ![i] = PushEvent(m_upfreq[i], conf[i].upCount, crc, now)]
     /\ m_downfreq' = [m_downfreq EXCEPT ![i] = PushEvent(m_downfreq[i], conf[i].downCount, 0, now)]
     /\ upHistory' = [upHistory EXCEPT ![i][crc] = Append(upHistory[i][crc], now)]
     /\ downHistory' = [downHistory EXCEPT ![i] = Append(downHistory[i], now)]
  /\ main' = [main EXCEPT !.pc = "excess", !.crc = crc]
  /\ UNCHANGED <<conf, now, alive, down, lastFire>>

\* LNLogItem::upBoundFreqExcess.  find()->second of a key that the down-bound
\* thread erased meanwhile is undefined: a count of 0 or the end of the process.
UpExcess ==
  /\ alive
  /\ main.pc = "excess"
  /\ LET i == main.item
         missing == main.crc # 0 /\ main.crc \notin DOMAIN m_upfreq[i]
     IN /\ \/ alive' = TRUE
           \/ missing /\ alive' = FALSE
        /\ main' = IF MeasuringCount(m_upfreq[i], main.crc) > conf[i].upCount
                     THEN [main EXCEPT !.pc = "notify"]
                     ELSE ItemDone(i)
  /\ UNCHANGED <<conf, now, m_upfreq, m_downfreq, down, upHistory, downHistory, lastFire>>

\* The action is enqueued and resetUpBoundFreqMessuring(0) forgets the events
\* of every CRC of the item.
UpNotify ==
  /\ alive
  /\ main.pc = "notify"
  /\ LET i == main.item IN
     /\ m_upfreq' = [m_upfreq EXCEPT ![i] = ResetMeasuring(m_upfreq[i])]
     /\ upHistory' = [upHistory EXCEPT ![i] = [c \in Crcs |-> <<>>]]
     /\ main' = ItemDone(i)
  /\ UNCHANGED <<conf, now, alive, m_downfreq, down, downHistory, lastFire>>

-----------------------------------------------------------------------------
(* The down-bound thread: _executeDownBoundFreqCheck                       *)

\* Mutant of DownWake: start_time is set by every pass.
DownWakeRestarts ==
  /\ alive
  /\ down.pc = "sleep"
  /\ now >= down.wake
  /\ down' = [down EXCEPT !.pc = "prune", !.tnow = now, !.wake = 0,
                          !.uptime = now - down.start_time, !.start_time = now]
  /\ UNCHANGED <<conf, now, alive, m_upfreq, m_downfreq, main, upHistory, downHistory, lastFire>>

\* sleep(5) returns: a new pass, with tnow and uptime read once.
DownWake ==
  /\ alive
  /\ down.pc = "sleep"
  /\ now >= down.wake
  /\ down' = [down EXCEPT !.pc = "prune", !.tnow = now, !.wake = 0,
                          !.uptime = now - down.start_time]
  /\ UNCHANGED <<conf, now, alive, m_upfreq, m_downfreq, main, upHistory, downHistory, lastFire>>

\* LNLogItem::removeDeprecatedEvents, with its own time(NULL).  Advancing an
\* erased iterator is undefined: the loop goes on, crashes or never ends.
DownPrune ==
  /\ alive
  /\ down.pc = "prune"
  /\ LET i == down.item
         depr(period) == now - period
     IN \/ /\ \E dv \in VisitedKeys(m_downfreq[i], depr(conf[i].downTime)),
                 uv \in VisitedKeys(m_upfreq[i], depr(conf[i].upTime)) :
                /\ m_downfreq' = [m_downfreq EXCEPT ![i] = RemoveDeprecated(@, depr(conf[i].downTime), dv)]
                /\ m_upfreq' = [m_upfreq EXCEPT ![i] = RemoveDeprecated(@, depr(conf[i].upTime), uv)]
           /\ down' = [down EXCEPT !.pc = "check"]
           /\ UNCHANGED alive
        \/ /\ \/ LosesIterator(m_downfreq[i], depr(conf[i].downTime))
              \/ LosesIterator(m_upfreq[i], depr(conf[i].upTime))
           /\ alive' = FALSE
           /\ UNCHANGED <<m_upfreq, m_downfreq, down>>
  /\ UNCHANGED <<conf, now, main, upHistory, downHistory, lastFire>>

\* After the last item the pass ends and the thread sleeps again; tnow and
\* uptime are dead until the next pass.
AfterItem(d) ==
  IF d.item = Len(conf)
    THEN [d EXCEPT !.pc = "sleep", !.item = 1, !.tnow = 0, !.uptime = 0,
                   !.wake = now + SleepSecs]
    ELSE [d EXCEPT !.pc = "prune", !.item = d.item + 1]

\* The condition on count, uptime and downBoundFreqExcess.
DownCheck ==
  /\ alive
  /\ down.pc = "check"
  /\ LET i == down.item IN
     down' = IF /\ conf[i].downCount > 0
                /\ down.uptime > conf[i].downTime
                /\ MeasuringCount(m_downfreq[i], 0) < conf[i].downCount
               THEN [down EXCEPT !.pc = "fire"]
               ELSE AfterItem(down)
  /\ UNCHANGED <<conf, now, alive, m_upfreq, m_downfreq, main, upHistory, downHistory, lastFire>>

\* Mutant of DownFire: start_time is not set.
DownFireKeepsStart ==
  /\ alive
  /\ down.pc = "fire"
  /\ LET i == down.item IN
     /\ m_downfreq' = [m_downfreq EXCEPT ![i] = ResetMeasuring(m_downfreq[i])]
     /\ lastFire' = [lastFire EXCEPT ![i] = now]
  /\ down' = AfterItem(down)
  /\ UNCHANGED <<conf, now, alive, m_upfreq, main, upHistory, downHistory>>

\* enqueue, resetDownBoundFreqMessuring, start_time = tnow.
DownFire ==
  /\ alive
  /\ down.pc = "fire"
  /\ LET i == down.item IN
     /\ m_downfreq' = [m_downfreq EXCEPT ![i] = ResetMeasuring(m_downfreq[i])]
     /\ lastFire' = [lastFire EXCEPT ![i] = now]
  /\ down' = AfterItem([down EXCEPT !.start_time = down.tnow])
  /\ UNCHANGED <<conf, now, alive, m_upfreq, main, upHistory, downHistory>>

-----------------------------------------------------------------------------
\* A second passes.  The down-bound thread is at most Lag late and its pass
\* takes at most Lag; the main loop may stall for any time.  Time goes on when
\* the process is gone.
Tick ==
  /\ now < MaxTime
  /\ alive => now < Lag + (IF down.pc = "sleep" THEN down.wake ELSE down.tnow)
  /\ now' = now + 1
  /\ UNCHANGED <<conf, alive, m_upfreq, m_downfreq, main, down, upHistory, downHistory, lastFire>>

Next ==
  \/ NoMatch
  \/ \E crc \in Crcs : Match(crc)
  \/ UpExcess
  \/ UpNotify
  \/ DownWake
  \/ DownPrune
  \/ DownCheck
  \/ DownFire
  \/ Tick

Spec == Init /\ [][Next]_vars

-----------------------------------------------------------------------------
(* Properties                                                              *)

IsEvents(events, keys) ==
  DOMAIN events \subseteq keys /\ events \in [DOMAIN events -> Seq(Nat)]

\* The variables stay in their types.
TypeOK ==
  /\ conf \in Configs
  /\ now \in Nat
  /\ alive \in BOOLEAN
  /\ DOMAIN m_upfreq = Items /\ \A i \in Items : IsEvents(m_upfreq[i], Crcs)
  /\ DOMAIN m_downfreq = Items /\ \A i \in Items : IsEvents(m_downfreq[i], {0})
  /\ main \in [pc : {"next", "excess", "notify"}, item : Items, crc : Crcs]
  /\ down \in [pc : {"sleep", "prune", "check", "fire"}, item : Items, tnow : Nat,
               uptime : Nat, start_time : Nat, wake : Nat]
  /\ upHistory \in [Items -> [Crcs -> Seq(Nat)]]
  /\ downHistory \in [Items -> Seq(Nat)]
  /\ lastFire \in [Items -> Nat]

Since(q, t) == {j \in DOMAIN q : q[j] >= t}

\* A frequency's memory is bounded however fast events come in and however
\* rarely the down-bound thread prunes: the up-bound queues by the reset that
\* follows every excess, the down-bound queue by pushEvent's hard limit alone.
QueueBounded ==
  \A i \in Items :
    /\ \A k \in DOMAIN m_upfreq[i] : Len(m_upfreq[i][k]) <= conf[i].upCount + 1
    /\ \A k \in DOMAIN m_downfreq[i] : Len(m_downfreq[i][k]) <= conf[i].downCount + HardSlack + 1

\* Neither the hard limit nor the pruning of the other thread, at any point
\* between Match and upBoundFreqExcess, hides an excess: when more than
\* m_count matches of a CRC since the last reset are within the period, more
\* than m_count are in its queue.
ExcessNotHidden ==
  \A i \in Items, c \in Crcs :
    Cardinality(Since(upHistory[i][c], now - conf[i].upTime)) > conf[i].upCount
      => Len(QueueOf(m_upfreq[i], c)) > conf[i].upCount

\* Longest time between two prunings of one item.
PruneGap == SleepSecs + 3 * Lag

\* The up-bound check itself never looks at the clock; only the pruning of
\* the down-bound thread keeps old matches from adding up.  An item without
\* usecrc is notified only when more than m_count matches fell into the
\* period, stretched by the time between two prunings.
NotifyOnlyOnBurst ==
  [][main.pc = "excess" /\ main'.pc = "notify" /\ ~conf[main.item].usecrc
       => LET i == main.item IN
          Cardinality(Since(upHistory[i][0], now - conf[i].upTime - PruneGap)) > conf[i].upCount]_vars

\* A down-bound action is decided only when fewer than m_count matches, of
\* those after the item's previous action, fall into the last period, and the
\* previous action is a full period ago, less the time its pass took.  A match
\* between that pass's tnow and its reset is the only one ever forgotten.
FireOnlyWhenQuiet ==
  [][down.pc = "check" /\ down'.pc = "fire"
       => LET i == down.item
              recent == Since(downHistory[i], now - conf[i].downTime)
          IN /\ Cardinality({j \in recent : downHistory[i][j] > lastFire[i]}) < conf[i].downCount
             /\ now - lastFire[i] > conf[i].downTime - Lag]_vars

LatestOf(S) == CHOOSE t \in S : \A u \in S : u <= t

\* The last moment at which item i matched or was reported.
QuietSince(i) ==
  LatestOf({lastFire[i], 0} \cup {downHistory[i][j] : j \in DOMAIN downHistory[i]})

\* Time the check needs at most when another item's action restarts the
\* shared start_time once.
NotifyWithin(i) == 2 * conf[i].downTime + 1 + PruneGap

Timely(i) == conf[i].downCount > 0 => now - QuietSince(i) <= NotifyWithin(i)

\* Among the items with a down bound, the ones with the shortest period are
\* reported in time whatever the other items do: an action of another item
\* restarts their wait once and never twice.
ShortestDownboundTimely ==
  alive => \A i \in Items :
    (\A k \in Items : conf[k].downCount > 0 => conf[i].downTime <= conf[k].downTime) => Timely(i)

\* README: the down-bound action is executed in case the monitored item's
\* frequency drops below downbound_freq.  As long as the process lives, every
\* item is reported in time.
DownboundTimelyWhileAlive == alive => \A i \in Items : Timely(i)

=============================================================================
