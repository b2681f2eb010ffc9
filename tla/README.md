# A TLA+ model of logNOT

logNOT is a daemon that follows log files, matches their lines against the
expressions of its configuration and runs shell commands when an item's lines
come too often (up bound), too rarely (down bound), or its file grows past a
limit. The modules here model the parts of it whose correctness depends on
order: threads, system calls, signals, rotation and reload. They are translated
from the sources at one commit; `PROJECT.json` maps every definition to its lines.

## 1. The system

| Part | State | Operations | Talks to |
|---|---|---|---|
| Action queue, action threads (`action_queue.cpp`) | `m_queue`, its mutex, a condition with a second mutex | `push`, `pop`, the loop of the workers | main loop and down-bound thread enqueue |
| Frequencies (`LNFreq`, `LNLogItem`) | per item and CRC a queue of times | `Match`, `upBoundFreqExcess`, `removeDeprecated`, resets | main loop matches, down-bound thread prunes and checks |
| Down-bound thread (`_executeDownBoundFreqCheck`) | `start_time`, `uptime` | a pass over all items every 5 s | holds the mutex of `m_lItems` for a pass |
| Log file (`LNLogFile`) | descriptor, position, `m_trash_hold` | `fetchNextLog`, `reopen`, `handleIfTruncated` | main loop |
| `LNInotify`, `LNFilesListener`, `LNLogEvents` | `m_watchMap`, epoll descriptor, list of files with events | `addWatch`, `rmWatch`, `rmAll`, `readEvents`, `startListening`, `stopListening` | kernel, main loop |
| `LNConfig`, `LNIniFile` | ini sections, `m_lItems`, `m_lFiles` | `load`, `unload`, `loadLogItem` | main loop |
| `main_proc`, `loadConfiguration`, `terminationHandler` | flag `reload` | event loop, reload, signals | all of the above |
| `LNLog` (`debug.cpp`) | facility, stream, recursive mutex, previous message and its repetitions | `log`, `setupLogFacility`, `closeLog` | every thread, and the signal handlers |
| Start-up: `main`, `parse_cl_options`, `LNProcess`, uid and gid | `cl_opts`, `g_uid`, `g_gid`, `lfp`, pid file | options, log file, fork, ids, handlers, threads | log, configuration |
| `LNActionPreprocessor`, `LNUtility` | none | placeholder substitution, string and number conversion | main loop, before an action is enqueued |

The process has one main thread, two action threads (the configured
`athread_count` is ignored) and the down-bound thread. The hard behaviours are
the wait of `pop`, the shared windows and `start_time` of the frequency checks,
a file that is written, truncated, renamed, removed and created between any two
system calls of the reader, a reload that deletes and rebuilds every object
while another thread is using them, and signal handlers that log, open and close
files in the middle of whatever they interrupt. What makes each part correct:

* queue: every action is taken once and in order, enqueuing returns, nothing
  stays behind;
* frequencies: an excess is seen, an alarm stands for a real burst or a real
  silence and comes in time, memory is bounded;
* reader: no byte is skipped or repeated, a line is one item, every round ends
  and leaves nothing unread, the size action comes once per line that passes a
  multiple of the limit;
* watching: a line written to a watched file is processed once, and the daemon
  never waits with nothing to wait for;
* main loop: no deleted object is used, one whole configuration is in force, a
  reload request is answered and a bad configuration does no harm;
* log: no closed stream is used, every suppressed message is counted as a
  repetition of the right one, a rotation takes effect, and every log call and handler returns;
* start-up: monitoring begins only with the ids, the pid file and the log that
  the command line and the configuration ask for;
* substitution: each placeholder is replaced by its text and nothing else is
  changed, in finitely many steps.

`PROJECT.json` lists the hazards line by line, with the properties aimed at them.

## 2. Modules

| Module | Models |
|---|---|
| `ActionFifo` | what the queue promises: first in, first out, each action run at most once |
| `ActionQueue` | `push`, `pop`, `LNCondition` and the workers, one action per critical section |
| `ActionQueueProofs` | proofs about `ActionQueue` |
| `FreqMonitor` | `LNFreq`, `LNLogItem`, the matching part of `processLogFile`, the down-bound thread, a clock in seconds |
| `FreqMonitorProofs` | proofs about `FreqMonitor` |
| `LogReader` | `fetchNextLog`, `handleIfTruncated`, `sizeExcess` on one file of bytes, and its writer |
| `LogReaderProofs` | proofs about `LogReader` |
| `LogWatch` | `LNInotify` and `reopen` on one path, the kernel's watches and event queue, logrotate |
| `LogWatchProofs` | proofs about `LogWatch` |
| `MainLoop` | `main_proc`, `loadConfiguration`, `LNConfig`, `LNIniFile::parse`, the listener, signals, the down-bound thread's pass over `m_lItems` |
| `MainLoopProofs` | proofs about `MainLoop` |
| `Logger` | `LNLog`, `LNMutex`, calls under way on each thread |
| `Daemon` | extends `Logger`: `main` up to `main_proc`, command line, fork, pid file, uid and gid, `terminationHandler` for SIGHUP and SIGTERM |
| `DaemonProofs` | proofs about `Daemon` and the `Logger` it extends |
| `ActionText` | `LNActionPreprocessor::run` and `LNUtility::replaceString`, against what README says of placeholders |
| `ActionTextProofs` | proofs about `ActionText` |
| `MC*` | constants for TLC |

Correspondence and abstraction:

* **ActionQueue.** `owner` is the queue mutex (recursive, but never taken twice
  here). The condition's own mutex is held only inside `signal` and `wait`, so
  each of them is one step; that `wait` does not share the queue mutex is what
  separates `PopCheck` from `PopWait`. `waiting` holds the threads in
  `pthread_cond_wait`; a signal wakes any one of them and a wait may return by
  itself. A command is a model value, `Empty` the empty string, on which the
  worker goes round again.
* **FreqMonitor.** A window is a function from CRC to the sequence of times. A
  match pushes to both windows in one critical section; the excess test and the
  reset are later ones, between which the down-bound thread may prune. The
  erased iterator in `removeDeprecated` is undefined behaviour: the process may
  go on, skipping some keys, or be gone (`alive`). `Lag` bounds how late the
  down-bound thread runs. `conf`, the items, is chosen at the start and stays.
* **LogReader.** Files, reads and `m_trash_hold` are sequences of symbols:
  letters, the bytes of the separator, zero bytes. `CString` is what the C string
  functions see. Reads, appends and truncations interleave one by one, also
  between the `fstat` (`EndRound`) and the `lseek` (`Reposition`) of
  `handleIfTruncated`. `Reposition` moves the offset to the end the file has by
  then, over lines written since the truncation. The history `base` is the offset
  at which reading the present contents began, `before` what had been read of the
  old ones, and `raced` says that a write came while the offset was behind the end
  of the truncated file: with it, and only with it, may `base` be other than 0
  when the reader is caught up. `lineEnds` and `noticed` are the offsets at the
  lines fetched and the lines that enqueued a size action. The
  separator `m_sep` has one byte or two. The search looks only at what the last
  read returned, so a separator torn by two reads is not seen: the histories
  `joints` and `itemJoints` remember where reads met, and `HeadIsOneLine` and
  `CaughtUpWhenIdle` allow such separators and no others to be overlooked.
* **LogWatch.** A file is an inode with a number of lines. Kernel events carry
  the watch descriptor, kind and name; equal neighbours are merged, as inotify
  does. `CheckExists`, `Reopen` and `Rewatch` are separate because the file
  system may change between the system calls. `PathDangles` says whether the
  pointer `addWatch` takes from a destroyed string may have lost its text, which
  depends on the string implementation and on the length of the path.
* **MainLoop.** A configuration file is a sequence of (section, option, value);
  `Parse` merges sections and lets the last setting win. Objects are tagged with
  the number of the load that made them, so that a use of a deleted object can
  be seen. The history `asked` is a request that came outside a reload: the code
  clears `reload` after loadConfiguration has returned (main.cpp:368), and with it
  any request that came meanwhile. `rmAll` is modelled by what it does: with a watch in the map it never
  ends ("spin"), because `rmWatch(pFile)` calls `inotify_add_watch` with an empty
  mask, which the kernel always refuses. `exit` runs the listener's destructor
  and meets the same loop.
* **Logger, Daemon.** A thread has a stack of calls, the running one first; a
  signal pushes its handler on the stack of the thread it interrupts. The comment
  at main.cpp:35-36 wants the mutexes disabled in the handler, but
  `LNDisableMutex dm();` declares a function, so the handler locks as any other
  code does. Streams are numbered by the `fopen` calls, and a message stands for
  its own CRC. `last`, the last message written, leaves debug messages apart, as
  `prev_log_crc` does. An option set has the ids of the command line (`uid`, `gid`),
  those of the configuration (`confuid`, `confgid`) and that of the caller (`user`);
  `getUID` looks in `g_mainConfig`, which nobody fills. The handler reads the global `lfp` twice after `fopen`; whether it
  sees a later value or the one it stored depends on the optimisation level, and
  both happen (`Lfp`). The lock inside syslog(), openlog() and closelog() belongs
  to the C library and is not recursive (external). The history `tangled` records
  the interruptions the code does not guard against: a handler on the thread that
  holds the log mutex ("nested"), inside syslog() ("syslog"), or beside another
  SIGHUP handler ("overlap"). Each property exempts those of them it needs and no
  more; `RotationTakesEffect` exempts an overlap and a SIGTERM handler that is
  closing the log (`ClosingLog`), which takes a third signal to matter. A process that has called `exit` is "exiting": its
  destructors may never end, and the other threads go on meanwhile.
* **ActionText.** Texts are sequences of characters, as the subject is which
  characters are replaced. One iteration of the loop in `replaceString` is one
  step. `Pieces` says what stands for each character of the action once some
  placeholders are replaced and some dollars unescaped; `Documented`, the reference
  definition written from README:396-402, puts the pieces together with all of
  them done. `Proper` says for which actions the code follows it: they are well
  written (README's own condition), do not begin with a placeholder, no
  placeholder is the beginning of another (`NoneExtended`), and no text can lengthen
  a placeholder or an escaped dollar that stands right before it (`NoneJoined`).

Every operator named "Mutant of ..." in a comment is a wrong version of the
definition that follows it, kept to show that a property can fail.

## 3. Runs

Run them as `tlc -config <cfg> <module>`.

| Run | Shows | Result |
|---|---|---|
| `action_queue` | exactly once, in order, implements `ActionFifo`; `enqueue` returns; a worker that is awake drains the queue; a later signal rescues what an earlier one missed | holds |
| `action_queue_wakeup` | README:361-363, pending actions are executed | violated: lost wakeup in `pop` |
| `freq_monitor` | one item with CRC groups, or two that share `start_time`: windows bounded, excess not hidden by pruning, alarm only after silence, shortest period reported in time, notification only on a burst | holds |
| `freq_starvation` | README:410-412, the down-bound action is executed for every item | violated: shared `start_time` |
| `log_reader` | nothing skipped behind the offset at which reading began, which is the first byte unless a write raced with a truncation; C string of an item is one line but for torn separators; buffer bounded; offset at the end when idle; a size notice at exactly the lines that pass a multiple; rounds end | holds |
| `log_reader_item` | README:195-197, each line is an item | violated: all of `m_trash_hold` is one item |
| `log_watch` | watches known, position inside the file, no line twice, written lines processed, deaf only after a failed call | holds |
| `log_watch_deaf` | comment at monitor.cpp:1081-1083, directory or file stays watched | violated: file gone again at the reopen |
| `main_loop` | no dangling pointer, one whole configuration, load agrees with test, requests that come outside a reload seen, no mutual blocking | holds |
| `main_loop_reload` | README:449-453, a reload goes on with the old or the new configuration | violated: fatal regular expression, endless `rmAll` |
| `daemon` | no closed stream used, repetitions counted for the last message that is not a debug one, SIGHUP takes effect, started as asked (but for a uid of the configuration), log calls and handlers return | holds |
| `action_text` | proper actions come out as README says, the replacement loops end | holds |

### Bounds

* `MaxPush` = 3 calls of `enqueue`, two producers (main loop and down-bound
  thread), two workers, as in the program: one action more than workers, so that
  both may be busy, both asleep, or one racing.
* `FreqMonitor`: periods of one and two seconds, limits 1 and 2, `MaxTime` = 8
  seconds and `MaxMatch` = 4 matches (12 seconds for the violation): windows fill, expire and fill again, and at least two
  alarms fit. `HardSlack` stands for the 10 of `m_count + 10` and `SleepSecs` for
  the 5 of `sleep(5)`; the smaller values reach the boundary sooner.
* `LogReader`: `ReadMax` = 2, `MaxItem` = 3 and 6 bytes: lines shorter and longer
  than one read, a hold filled by several reads, items over the limit, and data
  left after it; separators of one byte and of two, which a full read tears in
  the middle; one truncation, with writes before and after it (306 thousand
  states). `log_reader_item` keeps reads of three bytes and 7 bytes, so that one
  read holds two ends of lines.
* `LogWatch`: two or three inodes (two rotations), two lines each, 6 steps of the
  environment.
* `MainLoop`: two sections, two paths, five configurations (one for each way of
  being accepted or rejected), 4 edits, signals or writes at any moment.
* `Daemon`: the main thread and one worker (more of them only wait for the same
  mutex), six command lines, `MaxSignals` = 2 signals, `MaxCalls` = 2 log calls of
  running threads beside those of the start-up and the handlers, `MaxMinute` = 2.
  Two signals nest in one handler or run in two threads; three, with which a
  SIGTERM handler that closes the log can meet a SIGHUP, are left to the proof of
  `DaemonInv` (section 4), which has no bound. Two equal messages in one
  minute are suppressed, and in two minutes they are not. The clock moves only at
  log calls of running threads and at signals, since start-up messages all differ.
* `ActionText`: every action of up to five characters over `$`, two digits, `@`,
  the backslash and a letter, and a letter followed by up to four tokens
  (placeholders, one that is the beginning of another, escapes, a letter), so that
  neighbours fit in whose equals stand elsewhere, escaped or not.

Deadlock is checked for the queue. Elsewhere the environment is bounded and the
program then waits for ever, has exited, or has returned (`ActionText`), so the
check is off.

### Fairness

* `ActionQueue`: threads that can run do run, and a command ends (`system`
  returns). Nothing makes a producer enqueue or a wait return by itself.
* `LogReader`, `LogWatch`: weak fairness of the main loop only.
* `MainLoop`: weak fairness of the main thread and of a pass of the down-bound
  thread; strong fairness of the two steps that need the mutex of `m_lItems`,
  which is free for the five seconds of every sleep.
* `Daemon`: weak fairness of every thread inside a call or a handler, which also
  says that a thread waiting for the log mutex gets it in the end: log calls are
  finitely many here, and in the program threads sleep or wait between them.
* `ActionText`: the function runs on in its thread.
* `FreqMonitor` states timeliness as an invariant over the clock: the down-bound
  thread is at most `Lag` late.

## 4. Proofs

`ActionQueueProofs` is checked by TLAPS for any sets of producers, workers and
commands and any bound on the pushes, from the assumptions on the constants named
in `ActionQueue` (threads disjoint and none of them `NoThread`, the empty command a command,
`NoCommand` not one).

`NothingLostOrDuplicated` (taken followed by queued is pushed) is not inductive
by itself: the step that takes an action needs the types to reason about heads
and tails. `MutexHeldByPusher` needs the program counters, and the refinement
needs to know that a worker has an action in hand exactly while it executes
(`ActionInHand`). `QueueInv` is their conjunction. `InitQueueInv`,
`NextControlInv` (types, mutex, action in hand) and `NextAccounting` (the
histories, with the sequence lemmas `MoveHead` and `AppendRight`) give

* `QueueInvariant`: `Spec => []QueueInv`;
* `TypeCorrect`, `NothingLost`, `MutexOwnership`: its parts;
* `QueueImplementsFifo`: `Spec => ImplementsFifo`; `StepImplementsFifo` maps
  `PushLock` to `Submit`, `PopTake` to `Start`, `Execute` to `Finish` and every
  other step to a stutter.

`LogWatchProofs` does the same for one watched path, any number of inodes, lines
and environment steps, and both values of `PathDangles`. That no line is processed
twice (`LinesOnce`, the action property `NoLineTwice`) rests on `DeliveredBehind`:
lines already processed lie behind the offset, and a file under the path that the
reader does not have open has given it none. To keep it, `WatchInv` adds that
inodes are never reused (`InodesFresh`), that the offset is inside the file
(`PositionInFile`, so that a reopen of the same file keeps it), and that a file
about to be closed as missing is not under the path (`GoneFileReplaced`).
`SwapWatchMapped` is the lemma behind `WatchesKnown`.

That the reader is deaf only after a failed call (`DeafAfterFailure`) is a
statement about events that are still under way. `LastingWatch` says that some
watch is on the directory, on the file the reader has open or on a file with a
name: no step of the environment takes such a watch away. When it stops lasting,
because the watched file is unlinked, its "attrib" event is queued under a mapped
descriptor (`UnlinkAlerts`), and `AlertPending` holds until that event is handled,
which swaps the watch for another one or fails. `Hears` is the disjunction. It is
kept across the handling of other events because the map loses a descriptor only
in the steps that bring a new watch, and because a reader without an open file has
its directory watched (`ClosedWatchesDirectory`). `QueueGrows` and `QueuedThere`
say that merging equal events loses none.

`MainLoopProofs` covers any configurations, paths and number of edits and signals.
`MainInv` ties the heap to the lists of `config` (`ObjectsListed`), the down-bound
thread's item to the mutex (`PassLocked`), watches and events to listed files
(`EventsOfFiles`), the progress of a load to what is monitored (`LoadProgress`)
and the tested file to the loaded one (`TestedStillGood`). From it follow
`NoDeletedObjectUsed`, `OneConfiguration` and `TestProtectsLoad`; the last needs
`FirstOfMember`, the least-number principle, to know that the section that fails
is one the test saw. Assumed of the constants: sections are numbered and a missing
file is not a text.

`LogReaderProofs` covers files of any bytes and any length, every read size, item
limit and set of separators of one or more bytes without a zero byte, and a writer
that appends and truncates between any two reads. Assumed of the constants: the
read size is positive, the other bounds are naturals. `ReaderInv` adds to the five
properties what they need of each other:

* `OffsetInFile` and `TextOnly`, so that a read takes the next bytes of the file
  and the C string of a line is the whole line. With them `NothingSkipped` is kept
  by a read (the hold grows by what was read) and by handing out a line (it moves
  from the hold to `gone`);
* `Seeking`: between `fstat` and `lseek` the round has no line and the file was
  truncated. Together with `OffsetInFile`, which ties `base` to truncations and
  races, it lets `Reposition` move `base` along with the offset;
* `QuotientOfLast`: `m_quotient` is that of the line fetched last, so that a
  greater one means a multiple between two lines (`CrossedQuotient`);
* `HoldTorn`: outside a round that has found a line, every separator in
  `m_trash_hold` was torn by two reads. The search looks only at the last read, so
  this is what makes a found separator the first one (`HeadIsOneLine`) and a round
  that finds none leave no line behind (`CaughtUpWhenIdle`);
* `RoundRead`: what a round has read while no event came in. It is the step from
  "the last read returned nothing" to "nothing is unread", truncations included.

The theorems are `ReaderInvariant`, `ReaderTypes`, `EveryByteOnce`, `OneLineItems`,
`HoldBounded`, `CaughtUp` and `SizeNotices`; the lemmas before them say what
`SubSeq`, `CString` and the search for a separator do to a sequence that grows at
its end or loses its beginning.

`FreqMonitorProofs` covers any configurations, periods, limits, number of matches
and length of time. Assumed: CRCs are finitely many naturals with 0 among them (a
CRC has 32 bits), and the timing constants are naturals. That the down-bound thread
is at most `Lag` late is built into the clock (`Tick`), as in the runs. The parts
of `FreqInv`:

* `OneQueue`, `UpBounded`, `DownBounded`: only the queue of the match in hand may be
  over its limit, by one, until `UpExcess` looks at it. Hence `QueuesBounded`, and
  the hard limit of `pushEvent` never drops an up-bound match;
* `InOrder`, `UpWindow`: time stamps are in order and an up-bound queue is the end of
  its history, all that is lost being older than the period. Hence `ExcessSeen`: the
  matches within the period are all in the queue, whenever the other thread prunes;
* `Clock`, `UpFresh`: how old a match left by the last pass may be. Hence
  `NotifiesOnBurst`, an action property;
* `DownWindow`, `DownFresh`, `FiresApart`: what the down-bound queue may have lost
  and how far `start_time` is from an item's last action. Hence `FiresWhenQuiet`,
  an action property;
* `FireDecided`, `ReportDue`: how far a quiet item with the shortest period can be
  behind, by the place of the pass. Every action restarts the shared `start_time`,
  but only with `uptime` over the shortest period, so that item is due in the same
  pass or the next. Hence `ShortestReported`, with the bound 2 `downTime` + 1 +
  `PruneGap`.

`DaemonProofs` covers any threads, command lines, messages, minutes, log calls and
signals. Assumed of the constants: the main thread is a thread, `None` is not, the
options have their types and the bounds are naturals. A step changes a stack in one
of a few ways (a call is pushed, returns or goes on; `StackCases`), and the lemmas
before it say so for every action; the proofs about the stacks then go by these
ways and not by the action. The parts of `DaemonInv`:

* `MutexHeld`, in `TypeOK`: owner and depth of the log mutex against the calls
  between lock and unlock, counted over the stack of each thread. The one step
  that breaks the count is the refusal of `setupLogFacility`, and `NewStreams`
  says that it is not met unless two SIGHUP handlers overlap. `LogMutexHeld`;
* `Progress`, `NoHandlerYet`, `Layers`: how far `main` is, and that after the
  start-up `setupLogFacility` and `closeLog` run only on top of a handler that
  waits for them. `HupAlone`, `NewStreams`: with one SIGHUP handler at a time, the
  stream it opened is in its hands, or in those of the call it makes, and nobody
  else's. `Rotates` then follows the handler to its end: `Rotation`;
* `HolderRuns`, `StreamsOpen`, `NullClosed`: while no handler got in the way, only a
  running call is inside the mutex, so a stream is closed when nobody writes to it
  and replaced before anybody can. `NoClosedStreamUsed`;
* `Repeats`: what the call inside the mutex knows of the counter, the suppressed
  messages and the last one written. `RepeatsReported`;
* `FacilityAsAsked`, `IdsAsAsked`: what the start-up has done at each place of
  `main`. `StartsAsAsked`.

`ActionTextProofs` covers texts of any length over any characters, any matches and
lines. Assumed of the constants: the characters that mean something to the code
are among them, and the actions, lines and matches are texts (`TextsAssumption`).
The loops find what they replace by searching the whole text from its start, again
after every replacement, so the question is whether a search ever finds anything but
what the action had there. `TextInv` says what the text is at every moment: the
pieces of the action, with some placeholders replaced and some dollars unescaped,
laid out one after the other (`LaidOut`). Its `Phase`s follow `pc`:

* between two replacements, all placeholders equal to a replaced one are replaced,
  and the first of each kind stood before everything that is left (`Done`);
* during one, this will hold when the occurrences of the group are used up;
* after the last one only the dollars are left to be unescaped; then nothing.

A dollar or a backslash in the text is one of the action's, since plain texts bring
none (`SpecialAt`). A placeholder that is left still ends where it ended in the
action (`GroupInText`): the character behind it is the one that was there, because a
placeholder right behind another is not replaced before it (`NextIsKept`, which
needs `NoneJoined`). So the first group found is the first that is left
(`FirstGroup`), and every occurrence of it is an equal placeholder
(`OccurrenceIsPlaceholder`, which needs `NoneExtended`). `PiecesReplaced` says what a
replacement does to the layout, `FlattenPieces` that what is laid out in the end is
`Documented`. The theorems:

* `TextInvariant`: `Spec => []TextInv`;
* `SubstitutionDocumented`: `Spec => []SubstitutesAsDocumented`;
* `SubstitutionAdvances`: for every action, proper or not, as long as the line and the
  matches hold no dollar, each step lowers a stage or, within a stage, a natural
  number (`Advances`). `FewerDollars` is its lemma: a replaced placeholder takes its
  dollar with it. This is the safety half of `SubstitutionEnds`; that a run in
  which a number only falls must end, and that the code does take its steps, is left
  to the run.

Each inductive invariant stands at the head of its proof module or, in
`ActionTextProofs`, before the steps; TLC found no state of the runs' instances
outside any of them (for `TextInv`, with `FlattenSeq` in place of a layout).
Where a search must have a first success the proofs use the least-number
principle, from the well-foundedness of the naturals, in place of induction.

Only model-checked: the liveness properties (`AwakeWorkerDrains`,
`NextSignalRescues`, `EnqueueReturns`, `RoundEnds`, `WrittenLineProcessed`,
`RequestSeen`, `LoadReturns`, `LogReturns`, `SubstitutionEnds`), as fairness is beyond
the prover. Every invariant and every action property of the passing runs is proved.

## 5. What is left out

* The undefined `delete i->second` after `erase` in `LNLogFiles::closeAll` is
  taken to find the old pointer; an erased iterator in `removeDeprecated` has
  every outcome from going on to ending the process.
* In `LogReader` the retries of a read that returns `EAGAIN` (monitor.cpp:691-698)
  and a read that fails and ends the round with data unread (monitor.cpp:703):
  neither happens on a regular file short of an I/O error.
* In `MainLoop` a SIGUSR1 between `reload = false` and the first
  `loadConfiguration(reload)` (main.cpp:358-361), which makes the first load a
  reload: no ids are set and no thread is started.
* Directories that are removed, FIFOs and sockets, a clock that is set back, a
  `sleep` cut short by a signal, failures of memory and of `epoll`, the race
  between `stat` and `open` inside one `reopen`, PCRE results of 0 (too many groups).
* In `MainLoop` signals are handled by the main thread and SIGHUP and SIGTERM in
  one step; `Daemon` takes those two apart. Left out there: `malloc` and stdio
  locks a handler may find taken, failed writes to the log, CRC collisions of
  different messages, the order of static destruction.
* `size_value`, `boolean_value`, `explodeString` and the other conversions, the
  expression tester (`--retest`) and the usage text. `LNProcess::terminate`, `wait`,
  `isRunning`, `signal` and `removePID` are never reached.
* Events that came in one batch with a reload request are deleted unprocessed
  (main.cpp:369); a reload never returns while a file is watched, so what becomes
  of them shows only with no file watched.

Disagreements with the documents that have no run of their own, read off the code
or met while modelling:

* `-u` together with `-g` is fatal for root: `setuid` comes before `setgid`
  (main.cpp:317-340). A `uid` in the configuration file never takes effect, since
  the test at configuration.cpp:142 looks in `g_mainConfig`; README:369-370 says it
  sets the user of the process. `StartedAsAsked` leaves that case out.
* After a truncation `handleIfTruncated` goes to the end of the file
  (monitor.cpp:748-750), past the lines written since then, although README:195-197
  says that all new lines are read. `CaughtUpWhenIdle` allows this when a write
  raced with the truncation. A file that is truncated and has grown past the old
  offset before the next round is not noticed at all.
* A SIGUSR1 that comes during a reload is cleared with the request being served
  (main.cpp:366-368), although the file may have been edited after it was read, or
  the reload may just have failed; README:447-449 says that the signal causes a
  reload. `RequestSeen` is about requests outside a reload.
* "Last message repeated %d times." is about the last message that is not a debug
  message, and a debug message may be the line before it (debug.cpp:65-85): of A,
  debug B, A in one minute the second A is suppressed, and the report comes after
  B. `RepeatsAccounted` says which message is counted, not where the report stands.
* README:425-428 says of `size_action` that logNOT notifies whenever the size
  reaches a multiple of `size`. A file that shrinks and grows past the same multiples
  again before the next line is fetched is not noticed (monitor.cpp:292-304 compares
  with the quotient at the last line), and `SizeNoticesMatch` counts from line to line.
* A failed fork ends with exit status 0; the pid file stays after SIGTERM.
* `usecrc` is read from `CONF_SIZE_ACTION`, and a size in `G` is multiplied by 2^40.
* README:276-277 says that `\\` in an action stands for a backslash; the code
  unescapes only `\$` (monitor.cpp:360-366) and leaves both backslashes to the shell.
  `WellWritten` leaves such actions out.
* An action that begins with a placeholder keeps it, and `\$1` beside `$1` is
  replaced too (`Proper` in `ActionText`). Equal
  placeholders are replaced together, and one that stands right behind another may
  so be replaced before it: in `a$1$2$1` the text of the last `$1`, if it begins with
  a digit, becomes part of the placeholder `$2`.
* A relative log file is reopened elsewhere after `--chdir` and SIGHUP.

## 6. Plan

Done, in this order: the queue with its abstract specification and proofs, the
frequencies, the reader, rotation, the main loop with the reload, the proofs of
section 4, the log with start-up and signals, placeholder substitution,
separators of two bytes, and the proof that proper actions come out as documented.

Next, models: a reload in `FreqMonitor`, where `start_time` survives the items;
two files of one directory in `LogWatch`; `size_value`.

Next, proofs: with those models, that their invariants still hold.
