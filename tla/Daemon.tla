------------------------------- MODULE Daemon -------------------------------
(***************************************************************************)
(* The process around the event loop: main() from its command line to      *)
(* main_proc, LNProcess::fork with its pid file, the user and group ids of *)
(* loadConfiguration, and terminationHandler, which reopens or closes the  *)
(* log on whichever thread the signal finds.  What the loop itself does is *)
(* in MainLoop; here the running threads only write to the log.            *)
(*                                                                         *)
(* The kernel gives a signal to the main thread unless that thread is      *)
(* running the handler of the same signal, and then to another thread.     *)
(* exit() runs destructors that may take forever; until the process is     *)
(* gone the other threads go on.                                           *)
(***************************************************************************)
EXTENDS Logger, FiniteSets

CONSTANTS
  Main,         \* the main thread
  CommandLines, \* option sets of the command line, with the ids of the configuration
  Messages,     \* what running threads log: pairs of a type and a text
  MaxCalls,     \* bound: log calls of running threads
  MaxSignals    \* bound: signals

ASSUME MainAssumption == Main \in Threads

ASSUME CommandLinesAssumption ==
  CommandLines \subseteq
    [mode : {"print", "test", "run"}, logfile : BOOLEAN, stdout : BOOLEAN, config : BOOLEAN,
     chdir : BOOLEAN, daemon : BOOLEAN, uid : Nat, gid : Nat, confuid : Nat, confgid : Nat, user : Nat]

ASSUME BoundsAssumption == MaxCalls \in Nat /\ MaxSignals \in Nat

VARIABLES
  pc,        \* where main() is
  opts,      \* cl_opts
  lfp,       \* the stream opened last
  g_uid, g_gid,
  uid, gid,  \* ids of the process
  pidfile,   \* the pid file holds the pid of this process
  handlers,  \* initTerminationHandler has run
  started,   \* startThreads has run
  calls,     \* number of log calls of running threads
  signals,   \* number of signals
  tangled    \* history: what handlers interrupted, or shared with each other

mainVars == <<opts, lfp, g_uid, g_gid, uid, gid, pidfile, handlers, started>>
boundVars == <<calls, signals, tangled>>
vars == <<logVars, pc, mainVars, boundVars>>

Init ==
  /\ LogInit
  /\ pc = "main" /\ opts \in CommandLines
  /\ lfp = NULL /\ g_uid = 0 /\ g_gid = 0 /\ uid = opts.user /\ gid = opts.user
  /\ pidfile = FALSE /\ handlers = FALSE /\ started = FALSE
  /\ calls = 0 /\ signals = 0 /\ tangled = {}

-----------------------------------------------------------------------------
(* main() and loadConfiguration(false), one step per call that can fail.   *)
(* Of messages logged right after each other one stands for all.           *)

\* The main thread is in its own code, not in a call or a handler.
MainAt(place) == pc = place /\ stack[Main] = <<>> /\ status = "up"

unchangedLog == <<minute, log_mtx, misuse, prevVars, fileVars>>

Go(place) == pc' = place /\ UNCHANGED <<opened, stack, status>>
GoCalling(place, call) == pc' = place /\ Push(Main, call) /\ UNCHANGED <<opened, status>>
Fatal(msg) == pc' = "fatal" /\ Push(Main, Log("fatal", msg)) /\ UNCHANGED <<opened, status>>
ExitMain == pc' = "exit" /\ status' = "exiting" /\ UNCHANGED <<opened, stack>>

MainStart ==
  /\ MainAt("main") /\ GoCalling("options", Setup("system", NULL))
  /\ UNCHANGED <<unchangedLog, mainVars, boundVars>>

\* --help, --version, --retest or a wrong option: print and exit.
ParseOptions ==
  /\ MainAt("options")
  /\ IF opts.mode = "print" THEN ExitMain ELSE Go("logfile")
  /\ UNCHANGED <<unchangedLog, mainVars, boundVars>>

OpenLogFile ==
  /\ MainAt("logfile")
  /\ \/ ~opts.logfile /\ Go("stdout") /\ UNCHANGED lfp
     \/ opts.logfile /\ Fatal("logs failed") /\ lfp' = NULL
     \/ /\ opts.logfile
        /\ opened' = opened + 1 /\ lfp' = opened'
        /\ pc' = "stdout" /\ Push(Main, Setup("file", opened')) /\ UNCHANGED status
  /\ UNCHANGED <<unchangedLog, opts, g_uid, g_gid, uid, gid, pidfile, handlers, started, boundVars>>

UseStdout ==
  /\ MainAt("stdout")
  /\ IF opts.stdout THEN GoCalling("test", Setup("stdout", NULL)) ELSE Go("test")
  /\ UNCHANGED <<unchangedLog, mainVars, boundVars>>

TestOnly ==
  /\ MainAt("test")
  /\ IF opts.mode = "test" THEN GoCalling("tested", Setup("stdout", NULL)) ELSE Go("config")
  /\ UNCHANGED <<unchangedLog, mainVars, boundVars>>

TestResult ==
  /\ MainAt("tested")
  /\ \E result \in {"test ok", "test failed"} : GoCalling("end", Log("info", result))
  /\ UNCHANGED <<unchangedLog, mainVars, boundVars>>

MainEnd ==
  /\ MainAt("end") /\ ExitMain
  /\ UNCHANGED <<unchangedLog, mainVars, boundVars>>

\* Without --config the default file must exist.
FindConfig ==
  /\ MainAt("config")
  /\ \/ opts.config /\ Go("chdir")
     \/ ~opts.config /\ GoCalling("chdir", Log("info", "config located"))
     \/ ~opts.config /\ GoCalling("end", Log("info", "config required"))
  /\ g_uid' = opts.uid /\ g_gid' = opts.gid
  /\ UNCHANGED <<unchangedLog, opts, lfp, uid, gid, pidfile, handlers, started, boundVars>>

ChangeDirectory ==
  /\ MainAt("chdir")
  /\ \/ ~opts.chdir /\ Go("starting")
     \/ opts.chdir /\ GoCalling("starting", Log("info", "changing directory"))
     \/ opts.chdir /\ Fatal("chdir failed")
  /\ UNCHANGED <<unchangedLog, mainVars, boundVars>>

Starting ==
  /\ MainAt("starting")
  /\ GoCalling(IF opts.daemon THEN "fork" ELSE "handler", Log("info", "starting"))
  /\ UNCHANGED <<unchangedLog, mainVars, boundVars>>

\* LNProcess::fork: the parent returns from main, and the child is followed.
\* When there is no child the parent logs an error and returns 0 as well.
Fork ==
  /\ MainAt("fork")
  /\ \/ GoCalling("pid", Log("info", "recording pid"))
     \/ GoCalling("end", Log("info", "fork failed"))
  /\ UNCHANGED <<unchangedLog, mainVars, boundVars>>

\* recordPID, then umask and setsid, which a new child may always call.
RecordPID ==
  /\ MainAt("pid")
  /\ \/ Go("handler") /\ pidfile' = TRUE
     \/ Fatal("pid file failed") /\ UNCHANGED pidfile
  /\ UNCHANGED <<unchangedLog, opts, lfp, g_uid, g_gid, uid, gid, handlers, started, boundVars>>

\* A signal that the parent made ignored stays so: nothing more can happen.
InitTerminationHandler ==
  /\ MainAt("handler")
  /\ handlers' = TRUE
  /\ GoCalling("load", Log("info", "loading"))
  /\ UNCHANGED <<unchangedLog, opts, lfp, g_uid, g_gid, uid, gid, pidfile, started, boundVars>>

\* The parameters in g_mainConfig, which nobody fills.
g_mainConfig == {}

\* LNConfig::load takes gid from the file it loads if gid is in that file, and
\* uid if uid is in g_mainConfig.
getGID == opts.confgid
getUID == IF "uid" \in g_mainConfig THEN opts.confuid ELSE 0

LoadConfig ==
  /\ MainAt("load")
  /\ \/ Fatal("load failed") /\ UNCHANGED <<g_uid, g_gid>>
     \/ /\ Go("setuid")
        /\ g_gid' = IF g_gid = 0 THEN getGID ELSE g_gid
        /\ g_uid' = IF g_uid = 0 THEN getUID ELSE g_uid
  /\ UNCHANGED <<unchangedLog, opts, lfp, uid, gid, pidfile, handlers, started, boundVars>>

\* The message, then setuid and setgid, which a process that is not root may
\* only call with an id it has.
Announce ==
  /\ \/ MainAt("setuid") /\ IF g_uid = 0 THEN Go("setgid") ELSE GoCalling("setuid now", Log("info", "setting uid"))
     \/ MainAt("setgid") /\ IF g_gid = 0 THEN Go("threads") ELSE GoCalling("setgid now", Log("info", "setting gid"))
  /\ UNCHANGED <<unchangedLog, mainVars, boundVars>>

SetUid ==
  /\ MainAt("setuid now")
  /\ IF uid \in {0, g_uid} THEN Go("setgid") /\ uid' = g_uid
     ELSE Fatal("setuid failed") /\ UNCHANGED uid
  /\ UNCHANGED <<unchangedLog, opts, lfp, g_uid, g_gid, gid, pidfile, handlers, started, boundVars>>

\* Mutant of SetGid: a failure is not noticed.
SetGidIgnored ==
  /\ MainAt("setgid now")
  /\ Go("threads") /\ gid' = IF uid = 0 THEN g_gid ELSE gid
  /\ UNCHANGED <<unchangedLog, opts, lfp, g_uid, g_gid, uid, pidfile, handlers, started, boundVars>>

SetGid ==
  /\ MainAt("setgid now")
  /\ IF uid = 0 \/ gid = g_gid THEN Go("threads") /\ gid' = g_gid
     ELSE Fatal("setgid failed") /\ UNCHANGED gid
  /\ UNCHANGED <<unchangedLog, opts, lfp, g_uid, g_gid, uid, pidfile, handlers, started, boundVars>>

\* "Configuration loaded." and "started." follow each other.
StartThreads ==
  /\ MainAt("threads")
  /\ started' = TRUE
  /\ GoCalling("loop", Log("info", "started"))
  /\ UNCHANGED <<unchangedLog, opts, lfp, g_uid, g_gid, uid, gid, pidfile, handlers, boundVars>>

MainStep ==
  \/ MainStart \/ ParseOptions \/ OpenLogFile \/ UseStdout \/ TestOnly \/ TestResult \/ MainEnd
  \/ FindConfig \/ ChangeDirectory \/ Starting \/ Fork \/ RecordPID \/ InitTerminationHandler
  \/ LoadConfig \/ Announce \/ SetUid \/ SetGid \/ StartThreads

\* A thread at work logs something.  Time passes between such calls and between
\* signals; the messages of the start-up all differ, whatever their minute.
LogSomething(t) ==
  /\ status \in {"up", "exiting"} /\ started /\ stack[t] = <<>> /\ (t = Main => pc = "loop" /\ status = "up")
  /\ calls < MaxCalls /\ calls' = calls + 1
  /\ \E m \in Messages : Push(t, Log(m[1], m[2]))
  /\ Tick
  /\ UNCHANGED <<opened, log_mtx, status, misuse, prevVars, fileVars, pc, mainVars, signals, tangled>>

-----------------------------------------------------------------------------
(* Signals and terminationHandler.  SIGUSR1 and SIGUSR2 are in MainLoop.   *)

Alive == status \in {"up", "exiting"}

Handles(t, fn) == \E k \in DOMAIN stack[t] : stack[t][k].fn = fn

\* What a handler of fn that starts on t finds half done.
Tangles(t, fn) ==
  (IF log_mtx.owner = t THEN {"nested"} ELSE {})
    \cup (IF InSyslog(t) THEN {"syslog"} ELSE {})
    \cup (IF fn = "hup" /\ \E u \in Threads : Handles(u, "hup") THEN {"overlap"} ELSE {})

Signal(fn) ==
  /\ Alive /\ signals < MaxSignals /\ signals' = signals + 1
  /\ IF ~handlers
     THEN status' = "gone" /\ UNCHANGED <<stack, tangled>>
     ELSE /\ UNCHANGED status
          /\ \E t \in Threads :
               /\ IF Handles(Main, fn) THEN t # Main /\ started /\ ~Handles(t, fn) ELSE t = Main
               /\ Push(t, Handler(fn))
               /\ tangled' = tangled \cup Tangles(t, fn)
  /\ Tick
  /\ UNCHANGED <<opened, log_mtx, misuse, prevVars, fileVars, pc, mainVars, calls>>

\* Handler steps that only make a call, or only return.
HandlerCalls(t) ==
  /\ \/ Running(t, "hup", "error") /\ CallThen(t, Log("info", "open failed"), "reopened")
     \/ Running(t, "hup", "reopened") /\ CallThen(t, Log("info", "re-opened"), "return")
     \/ Running(t, "hup", "return") /\ Return(t)
     \/ Running(t, "term", "begin") /\ CallThen(t, Log("info", "received SIGTERM"), "goodbye")
     \/ Running(t, "term", "goodbye") /\ CallThen(t, Log("info", "exit"), "close")
     \/ Running(t, "term", "close") /\ CallThen(t, CloseLog, "exit")
  /\ UNCHANGED <<minute, opened, log_mtx, status, misuse, prevVars, fileVars, pc, mainVars, boundVars>>

\* SIGHUP: the log file is opened again, if there is one.
Reopen(t) ==
  /\ Running(t, "hup", "begin")
  /\ \/ /\ log_facility # "file" /\ Return(t)
        /\ UNCHANGED <<opened, lfp>>
     \/ /\ log_facility = "file"
        /\ \/ opened' = opened + 1 /\ lfp' = opened'
           \/ opened' = opened /\ lfp' = NULL
        /\ ContinueOn(t, "check", lfp')
  /\ UNCHANGED <<minute, log_mtx, status, misuse, prevVars, fileVars, pc, opts, g_uid, g_gid,
                 uid, gid, pidfile, handlers, started, boundVars>>

\* What a use of the global lfp gives: its value now, or the one fopen returned
\* if the compiler kept that in a register.
Lfp(t) == {lfp, Head(stack[t]).fd}

CheckLfp(t) ==
  /\ Running(t, "hup", "check")
  /\ \E fp \in Lfp(t) :
       IF fp = NULL THEN CallThen(t, Setup("system", NULL), "error") ELSE Continue(t, "use")
  /\ UNCHANGED <<minute, opened, log_mtx, status, misuse, prevVars, fileVars, pc, mainVars, boundVars>>

UseLfp(t) ==
  /\ Running(t, "hup", "use")
  /\ \E fp \in Lfp(t) : CallThen(t, Setup("file", fp), "reopened")
  /\ UNCHANGED <<minute, opened, log_mtx, status, misuse, prevVars, fileVars, pc, mainVars, boundVars>>

\* SIGTERM ends in exit().
Exit(t) ==
  /\ Running(t, "term", "exit") /\ status' = "exiting" /\ Continue(t, "exited")
  /\ UNCHANGED <<minute, opened, log_mtx, misuse, prevVars, fileVars, pc, mainVars, boundVars>>

\* exit() is done with the destructors, if ever.
Gone ==
  /\ status = "exiting" /\ status' = "gone"
  /\ UNCHANGED <<minute, opened, log_mtx, stack, misuse, prevVars, fileVars, pc, mainVars, boundVars>>

Logging(t) == LoggerStep(t) /\ UNCHANGED <<pc, mainVars, boundVars>>

ThreadStep(t) ==
  Alive /\ (Logging(t) \/ HandlerCalls(t) \/ Reopen(t) \/ CheckLfp(t) \/ UseLfp(t) \/ Exit(t))

Next ==
  \/ MainStep
  \/ \E t \in Threads : ThreadStep(t) \/ LogSomething(t)
  \/ \E fn \in {"hup", "term"} : Signal(fn)
  \/ Gone

\* Threads run: the mutex goes to a thread that waits for it, sooner or later.
Fairness == \A t \in Threads : WF_vars(ThreadStep(t))

Spec == Init /\ [][Next]_vars /\ Fairness

-----------------------------------------------------------------------------
(* Properties                                                              *)

\* What main(), loadConfiguration and the handlers log.
OwnTexts ==
  {"logs failed", "test ok", "test failed", "config located", "config required", "changing directory",
   "chdir failed", "starting", "recording pid", "fork failed", "pid file failed", "loading", "load failed",
   "setting uid", "setuid failed", "setting gid", "setgid failed", "started", "open failed", "re-opened",
   "received SIGTERM", "exit"}

Texts == OwnTexts \cup {None} \cup {m[2] : m \in Messages}
Args  == {"info", "fatal", "stdout", "file", "system", "close", "none"} \cup {m[1] : m \in Messages}

CallPlaces == {"lock", "reporting", "writing", "assign", "begin", "check", "use", "error", "reopened", "return",
               "goodbye", "close", "exit", "exited"}

Frames == [fn : {"log", "setup", "hup", "term"}, pc : CallPlaces, arg : Args, msg : Texts, fd : Nat, at : Nat]

\* What a call of each function can look like.
FrameOK(c) ==
  /\ c.fd <= opened
  /\ c.fn = "log" => /\ c.pc \in {"lock", "reporting", "writing", "exit"}
                     /\ c.pc = "lock" => c.at <= minute
  /\ c.fn = "setup" => /\ c.pc \in {"lock", "assign"} /\ c.fd # Std
                       /\ c.arg \in {"stdout", "file", "system", "close"}
                       /\ c.pc = "assign" /\ c.arg = "file" => c.fd # NULL
  /\ c.fn = "hup" => /\ c.pc \in {"begin", "check", "use", "error", "reopened", "return"}
                     /\ c.fd # Std /\ c.at <= opened
  /\ c.fn = "term" => c.pc \in {"begin", "goodbye", "close", "exit", "exited"}

CallsOK ==
  /\ stack \in [Threads -> Seq(Frames)]
  /\ \A t \in Threads : \A k \in 1..Len(stack[t]) : FrameOK(stack[t][k])

Places == {"main", "options", "logfile", "stdout", "test", "tested", "end", "config", "chdir", "starting",
           "fork", "pid", "handler", "load", "setuid", "setuid now", "setgid", "setgid now", "threads",
           "loop", "fatal", "exit"}

LogOK ==
  /\ minute \in 1..MaxMinute /\ status \in {"up", "exiting", "gone", "crashed"}
  /\ log_facility \in {"stdout", "file", "system"} /\ log_to_stdout \in BOOLEAN
  /\ opened \in Nat \ {0} /\ log_file_descriptor \in {NULL} \cup 2..opened /\ closed \subseteq 2..opened
  /\ log_mtx \in [owner : Threads \cup {None}, depth : Nat] /\ (log_mtx.owner = None <=> log_mtx.depth = 0)
  /\ prev_log_count \in Nat /\ prev_log_time \in 0..minute /\ held \in Seq(Texts) /\ misuse \in BOOLEAN

MainOK ==
  /\ pc \in Places /\ opts \in CommandLines /\ lfp \in {NULL} \cup 2..opened
  /\ uid \in Nat /\ gid \in Nat /\ g_uid \in Nat /\ g_gid \in Nat
  /\ pidfile \in BOOLEAN /\ handlers \in BOOLEAN /\ started \in BOOLEAN
  /\ calls \in 0..MaxCalls /\ signals \in 0..MaxSignals /\ tangled \subseteq {"nested", "syslog", "overlap"}

\* The call is between LOCK_LOG and UNLOCK_LOG.
Holding(c) ==
  \/ c.fn = "log" /\ c.pc \in {"reporting", "writing"}
  \/ c.fn = "setup" /\ c.pc = "assign"

Inside(t) == {k \in 1..Len(stack[t]) : Holding(stack[t][k])}

Alone == "overlap" \notin tangled

\* The log mutex is held by the one thread with calls inside it, to their
\* number, unless setupLogFacility was given no file and returned with it.
MutexHeld ==
  \A t \in Threads :
    LET depth == IF log_mtx.owner = t THEN log_mtx.depth ELSE 0
    IN /\ Cardinality(Inside(t)) <= depth
       /\ Alone => Cardinality(Inside(t)) = depth

\* Every variable has its type, a stream in use was opened, every call is at one
\* of its own places, and the log mutex is held as MutexHeld says.
TypeOK == LogOK /\ MainOK /\ CallsOK /\ MutexHeld

\* A SIGTERM handler has called closeLog, its last act before exit().
ClosingLog ==
  \E t \in Threads : \E k \in 1..Len(stack[t]) :
    stack[t][k].fn = "term" /\ stack[t][k].pc \in {"exit", "exited"}

\* debug.cpp:247-298, main.cpp:46-56: threads log while SIGHUP replaces the log
\* file and SIGTERM closes it, yet no stream is written or closed once it is
\* closed, unless a handler interrupted the logger on its own thread or two
\* SIGHUP handlers shared lfp.  Only after closeLog was called is NULL closed.
StreamsUsedOpen ==
  /\ misuse => tangled # {}
  /\ status = "crashed" => ClosingLog

Reporting == \E t \in Threads : \E k \in DOMAIN stack[t] : stack[t][k].pc = "reporting"

\* debug.cpp:65-93: a message suppressed by any thread repeats the last message
\* written that was not a debug message, and prev_log_count is their number, so
\* that none is lost and none counted twice before "Last message repeated" (which
\* prints one more).  It need not be the line right above that report: a debug
\* message is written in between without touching prev_log_crc.  A message still
\* being written by the call that holds the mutex counts as written.
RepeatsAccounted ==
  (tangled = {} /\ ~Reporting) =>
    /\ prev_log_count = Len(held)
    /\ \A k \in DOMAIN held : held[k] = last

\* The log is syslog, or a file opened after the first at ones.
Rotated(at) ==
  \/ log_facility = "system"
  \/ log_facility = "file" /\ log_file_descriptor > at /\ log_file_descriptor \notin closed

\* main.cpp:43-57: when the SIGHUP handler comes to its last message, the log
\* is a file opened since the signal came, or syslog if that failed, unless two
\* SIGHUP handlers shared lfp or a SIGTERM handler is closing the log.
RotationTakesEffect ==
  Alone /\ ~ClosingLog =>
    \A t \in Threads :
      Running(t, "hup", "reopened") \/ Running(t, "hup", "return") => Rotated(Head(stack[t]).at)

\* main.cpp:317-340, core.cpp:118-146: when monitoring starts, the process has
\* the ids of the command line, else the group of the configuration, and has kept
\* the ids it had where neither asks for others; the pid file of a daemon is
\* written, and the log is where the command line wants it.  Of a process whose
\* configuration alone asks for a uid it says nothing: README:369-370 promises
\* that uid, and the code keeps the one it had (LoadConfig).
StartedAsAsked ==
  started =>
    /\ opts.uid # 0 => uid = opts.uid
    /\ opts.uid = 0 /\ opts.confuid = 0 => uid = opts.user
    /\ gid = IF opts.gid # 0 THEN opts.gid ELSE IF opts.confgid # 0 THEN opts.confgid ELSE opts.user
    /\ opts.daemon => pidfile
    /\ signals = 0 => log_facility = IF opts.stdout THEN "stdout" ELSE IF opts.logfile THEN "file" ELSE "system"

\* main.cpp:35-37, core.cpp:254: the handler takes the log mutex although a call
\* it interrupted may hold it; every log call and every handler still returns,
\* unless the process is ending, the interrupted call was inside syslog(), or
\* two SIGHUP handlers shared lfp.
LogReturns ==
  \A t \in Threads :
    stack[t] # <<>> ~>
      (stack[t] = <<>> \/ status # "up" \/ tangled \cap {"syslog", "overlap"} # {})

=============================================================================
