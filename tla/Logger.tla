------------------------------- MODULE Logger -------------------------------
(***************************************************************************)
(* LNLog: where the daemon's own messages go, and the recursive mutex      *)
(* (LNMutex) that guards it.  Every thread has a stack of calls, the       *)
(* running one first, so that a signal handler can interrupt a call of its *)
(* own thread; LNDisableMutex dm() in the handler declares a function and  *)
(* leaves the mutexes enabled.                                             *)
(*                                                                         *)
(* A FILE* is a number: 0 is NULL, 1 is stdout or stderr, the others count *)
(* the fopen calls.  Equal messages have equal CRCs and different ones     *)
(* different CRCs.  syslog(), openlog() and closelog() share a lock of the *)
(* C library that is not recursive.                                        *)
(***************************************************************************)
EXTENDS Naturals, Sequences

CONSTANTS
  Threads,     \* the threads that log
  None,        \* no thread, no message
  MaxMinute    \* bound: minutes that pass

ASSUME NoneAssumption == None \notin Threads
ASSUME MaxMinuteAssumption == MaxMinute \in Nat \ {0}

VARIABLES
  minute,               \* time(NULL)/60
  log_facility,         \* "stdout", "file" or "system"
  log_to_stdout,
  log_file_descriptor,
  log_mtx,              \* [owner, depth]
  prev_log_crc,         \* stands for the message itself
  prev_log_count,
  prev_log_time,
  opened,               \* the last stream fopen returned, or 1
  closed,               \* streams passed to fclose
  stack,                \* calls under way, by thread
  status,               \* "up", "exiting" (exit() called), "gone" or "crashed"
  last,                 \* history: the last message written, debug ones apart
  held,                 \* history: messages suppressed and not reported yet
  misuse                \* history: a closed stream was written or closed again

prevVars == <<prev_log_crc, prev_log_count, prev_log_time, last, held>>
fileVars == <<log_facility, log_to_stdout, log_file_descriptor, closed>>
logVars == <<minute, opened, log_mtx, stack, status, misuse, prevVars, fileVars>>

NULL == 0
Std  == 1

LogInit ==
  /\ minute = 1 /\ status = "up"
  /\ log_facility = "stdout" /\ log_to_stdout = FALSE /\ log_file_descriptor = NULL
  /\ log_mtx = [owner |-> None, depth |-> 0]
  /\ prev_log_crc = None /\ prev_log_count = 0 /\ prev_log_time = 0
  /\ opened = Std /\ closed = {} /\ misuse = FALSE
  /\ stack = [t \in Threads |-> <<>>]
  /\ last = None /\ held = <<>>

-----------------------------------------------------------------------------
(* Calls                                                                   *)

\* A call of fn.  arg is the type of a message or a facility; fd the stream it
\* works on; at the minute, while LNLog::log needs it, or for a handler the last
\* stream opened, when the call was made.
Call(fn, pc, arg, msg, fd, at) ==
  [fn |-> fn, pc |-> pc, arg |-> arg, msg |-> msg, fd |-> fd, at |-> at]

Log(type, msg) == Call("log", "lock", type, msg, NULL, minute)
Setup(fac, fd) == Call("setup", "lock", fac, None, fd, 0)
CloseLog       == Call("setup", "lock", "close", None, NULL, 0)
Handler(fn)    == Call(fn, "begin", "none", None, NULL, opened)

Running(t, fn, pc) == stack[t] # <<>> /\ Head(stack[t]).fn = fn /\ Head(stack[t]).pc = pc

Push(t, call)   == stack' = [stack EXCEPT ![t] = <<call>> \o @]
Return(t)       == stack' = [stack EXCEPT ![t] = Tail(@)]
Continue(t, pc) == stack' = [stack EXCEPT ![t][1].pc = pc]
ContinueOn(t, pc, fd) == stack' = [stack EXCEPT ![t][1] = [@ EXCEPT !.pc = pc, !.fd = fd]]
\* A handler, the running call, goes on at pc once the call has returned.
CallThen(t, call, pc) == stack' = [stack EXCEPT ![t] = <<call, [Head(@) EXCEPT !.pc = pc]>> \o Tail(@)]

\* Mutant of CanLock: a mutex that is not recursive.
CanLockOnce(t) == log_mtx.owner = None

\* LNMutex::lock returns to t.
CanLock(t) == log_mtx.owner \in {None, t}

\* Mutant of Unlock: the mutex is free after one unlock, however deep it was.
UnlockWhole == log_mtx' = [owner |-> None, depth |-> log_mtx.depth - 1]

Lock(t) == log_mtx' = [owner |-> t, depth |-> log_mtx.depth + 1]
Unlock  == log_mtx' = IF log_mtx.depth = 1 THEN [owner |-> None, depth |-> 0]
                      ELSE [log_mtx EXCEPT !.depth = @ - 1]

\* A call of t is inside the C library's syslog functions.
InSyslog(t) ==
  \E k \in DOMAIN stack[t] :
    stack[t][k].fn = "log" /\ stack[t][k].pc \in {"reporting", "writing"} /\ stack[t][k].fd = NULL

\* get_log_file_descriptor: NULL means syslog.
get_log_file_descriptor == IF log_to_stdout THEN Std ELSE log_file_descriptor

-----------------------------------------------------------------------------
(* LNLog::log.  The minute was read by the call, before the mutex.         *)

\* The running call starts to write to the stream selected now.
Output(t, pc) ==
  stack' = [stack EXCEPT ![t][1] = [@ EXCEPT !.pc = pc, !.fd = get_log_file_descriptor, !.at = 0]]

\* LNLog::log is done; logFatal goes on to exit().
LogReturn(t) ==
  IF Head(stack[t]).arg = "fatal" THEN Continue(t, "exit") /\ status' = "exiting"
  ELSE Return(t) /\ UNCHANGED status

\* The same message in the same minute is only counted.
LogSuppress(t) ==
  /\ Running(t, "log", "lock") /\ CanLock(t)
  /\ LET c == Head(stack[t]) IN
       /\ c.arg # "debug" /\ c.msg = prev_log_crc /\ c.at = prev_log_time
       /\ held' = Append(held, c.msg)
  /\ prev_log_count' = prev_log_count + 1
  /\ LogReturn(t)
  /\ UNCHANGED <<minute, opened, log_mtx, misuse, fileVars, prev_log_crc, prev_log_time, last>>

\* A call that writes: fprintf, or syslog, of "Last message repeated %d times."
\* if there is something to report, and of the message otherwise.
LogBegin(t) ==
  /\ Running(t, "log", "lock") /\ CanLock(t)
  /\ get_log_file_descriptor = NULL => ~InSyslog(t)
  /\ LET c == Head(stack[t]) IN
       /\ ~(c.arg # "debug" /\ c.msg = prev_log_crc /\ c.at = prev_log_time)
       /\ prev_log_crc' = IF c.arg = "debug" THEN prev_log_crc ELSE c.msg
       /\ prev_log_time' = c.at
  /\ Lock(t)
  /\ IF prev_log_count > 0
     THEN prev_log_count' = prev_log_count + 1 /\ Output(t, "reporting")
     ELSE UNCHANGED prev_log_count /\ Output(t, "writing")
  /\ UNCHANGED <<minute, opened, status, misuse, fileVars, last, held>>

\* Mutant of CountAfterReport: the counter is not reset.
CountKept == prev_log_count

CountAfterReport == 0

\* The report is written; the stream for the message is selected anew.
LogReported(t) ==
  /\ Running(t, "log", "reporting")
  /\ misuse' = (misuse \/ Head(stack[t]).fd \in closed)
  /\ prev_log_count' = CountAfterReport /\ held' = <<>>
  /\ Output(t, "writing")
  /\ UNCHANGED <<minute, opened, log_mtx, status, fileVars, prev_log_crc, prev_log_time, last>>

\* The message is written and the mutex unlocked.
LogWrite(t) ==
  /\ Running(t, "log", "writing")
  /\ LET c == Head(stack[t]) IN
       /\ misuse' = (misuse \/ c.fd \in closed)
       /\ last' = IF c.arg = "debug" THEN last ELSE c.msg
  /\ LogReturn(t)
  /\ Unlock
  /\ UNCHANGED <<minute, opened, fileVars, prev_log_crc, prev_log_count, prev_log_time, held>>

-----------------------------------------------------------------------------
(* LNLog::setupLogFacility and closeLog                                    *)

\* Without a file to write, setupLogFacility returns with the mutex locked.
SetupRefused(t) ==
  /\ Running(t, "setup", "lock") /\ CanLock(t)
  /\ Head(stack[t]).arg = "file" /\ Head(stack[t]).fd = NULL
  /\ Lock(t)
  /\ Return(t)
  /\ UNCHANGED <<minute, opened, status, misuse, prevVars, fileVars>>

\* _close_log under the mutex: fclose(NULL) ends the process.
SetupClose(t) ==
  /\ Running(t, "setup", "lock") /\ CanLock(t)
  /\ ~(Head(stack[t]).arg = "file" /\ Head(stack[t]).fd = NULL)
  /\ log_facility = "system" => ~InSyslog(t)
  /\ IF log_facility = "file" /\ log_file_descriptor = NULL
     THEN /\ status' = "crashed"
          /\ UNCHANGED <<log_mtx, stack, misuse, fileVars>>
     ELSE /\ misuse' = (misuse \/ (log_facility = "file" /\ log_file_descriptor \in closed))
          /\ closed' = IF log_facility = "file" THEN closed \cup {log_file_descriptor} ELSE closed
          /\ log_to_stdout' = (log_facility # "stdout" /\ log_to_stdout)
          /\ Lock(t)
          /\ Continue(t, "assign")
          /\ UNCHANGED <<status, log_facility, log_file_descriptor>>
  /\ UNCHANGED <<minute, opened, prevVars>>

\* Mutant of DescriptorAfter: the new stream is not stored when one was in use.
DescriptorKept(c) == IF c.arg = "file" /\ log_facility # "file" THEN c.fd ELSE log_file_descriptor

\* Mutant of DescriptorAfter: _close_log does not reset it.
DescriptorDangling(c) == IF c.arg = "file" THEN c.fd ELSE log_file_descriptor

\* log_file_descriptor after _close_log and the assignment that follows it.
DescriptorAfter(c) ==
  IF c.arg = "file" THEN c.fd
  ELSE IF log_facility = "file" THEN NULL ELSE log_file_descriptor

\* What follows the fclose: the new facility, none after closeLog.
SetupAssign(t) ==
  /\ Running(t, "setup", "assign")
  /\ LET c == Head(stack[t]) IN
       /\ c.arg = "system" => ~InSyslog(t)
       /\ log_file_descriptor' = DescriptorAfter(c)
       /\ log_to_stdout' = (c.arg = "stdout" \/ log_to_stdout)
       /\ log_facility' = IF c.arg = "close" THEN log_facility ELSE c.arg
  /\ Unlock
  /\ Return(t)
  /\ UNCHANGED <<minute, opened, status, misuse, prevVars, closed>>

\* A minute may pass before the next call of time().
Tick == minute' \in {m \in {minute, minute + 1} : m <= MaxMinute}

LoggerStep(t) ==
  \/ LogSuppress(t) \/ LogBegin(t) \/ LogReported(t) \/ LogWrite(t)
  \/ SetupRefused(t) \/ SetupClose(t) \/ SetupAssign(t)

=============================================================================
