---------------------------- MODULE DaemonProofs ----------------------------
(***************************************************************************)
(* Proofs about Daemon and the Logger it extends, for any threads, command *)
(* lines, messages, minutes, log calls and signals.                        *)
(***************************************************************************)
EXTENDS Daemon, SequenceTheorems, FiniteSetTheorems, TLAPS

-----------------------------------------------------------------------------
(* The inductive invariant                                                 *)

\* Call c runs on top of call d.
Atop(c, d) ==
  c.fn = "setup" => \/ c.arg = "close" /\ d.fn = "term" /\ d.pc = "exit"
                    \/ c.arg = "file" /\ d.fn = "hup" /\ d.pc = "reopened" /\ (Alone => c.fd > d.at)
                    \/ c.arg = "system" /\ d.fn = "hup" /\ d.pc = "error"

\* After the start-up only handlers call setupLogFacility and closeLog.
Layers ==
  \A t \in Threads : \A k \in 1..Len(stack[t]) :
    IF k < Len(stack[t])
      THEN Atop(stack[t][k], stack[t][k + 1])
      ELSE stack[t][k].fn = "setup" => ~handlers /\ stack[t][k].arg # "close"

\* Before there are handlers, or signals, a thread has one call at most.
NoHandlerYet ==
  (~handlers \/ signals = 0) =>
    \A t \in Threads : /\ Len(stack[t]) <= 1
                       /\ \A k \in 1..Len(stack[t]) : stack[t][k].fn \in {"log", "setup"}

\* Places of main(): before it installs the handlers, and from where on it has
\* set the uid, knows the gid and has taken the ids from the options.
BeforeHandlers == {"main", "options", "logfile", "stdout", "test", "tested", "config", "chdir", "starting",
                   "fork", "pid", "handler"}
UidSet    == {"setgid", "setgid now", "threads", "loop"}
GidKnown  == {"setuid", "setuid now"} \cup UidSet
OptsTaken == {"chdir", "starting", "fork", "pid", "handler", "load"} \cup GidKnown

Progress ==
  /\ pc \in BeforeHandlers => ~handlers
  /\ pc \in {"load"} \cup GidKnown => handlers
  /\ started => handlers /\ pc = "loop"
  /\ ~started => \A t \in Threads \ {Main} : stack[t] = <<>>

\* There is one SIGHUP handler at most.
HupAlone ==
  Alone =>
    \A t, u \in Threads : \A k \in 1..Len(stack[t]), l \in 1..Len(stack[u]) :
      stack[t][k].fn = "hup" /\ stack[u][l].fn = "hup" => t = u /\ k = l

HasOpened(c) == c.fn = "hup" /\ c.pc \in {"check", "use"}

Carries(c) == (HasOpened(c) /\ c.fd # NULL) \/ (c.fn = "setup" /\ c.arg = "file")

\* The stream in the hands of the handler, or of the setupLogFacility it calls,
\* is lfp, newer than the signal, and nobody's log file yet.
NewStream(c) ==
  /\ HasOpened(c) => lfp = c.fd /\ (c.pc = "use" => c.fd # NULL) /\ (c.fd # NULL => c.fd > c.at)
  /\ c.fn = "setup" /\ c.arg = "file" => c.fd # NULL
  /\ Carries(c) => c.fd \notin closed /\ c.fd # log_file_descriptor

NewStreams == Alone => \A t \in Threads : \A k \in 1..Len(stack[t]) : NewStream(stack[t][k])

\* The log file is NULL only after closeLog, and only then fclose(NULL) is near.
NullClosed ==
  /\ log_facility = "file" /\ log_file_descriptor = NULL => ClosingLog
  /\ status = "crashed" => ClosingLog

\* While no handler got in the way, a call that holds the mutex is the running
\* one of its thread.
HolderRuns == tangled = {} => \A t \in Threads : \A k \in Inside(t) : k = 1

Outputs(c) == c.fn = "log" /\ c.pc \in {"reporting", "writing"}

\* The log file is a closed stream only between the two steps of a setup.
StreamsOpen ==
  tangled = {} =>
    /\ ~misuse
    /\ \A t \in Threads : \A k \in 1..Len(stack[t]) :
         Outputs(stack[t][k]) => stack[t][k].fd \notin closed
    /\ log_file_descriptor \in closed =>
         log_facility = "file" /\ \E t \in Threads : Running(t, "setup", "assign")

\* What a call that writes knows of the repetitions.
OutputKnows(c) ==
  Outputs(c) => /\ c.pc = "writing" => held = <<>>
                /\ c.arg # "debug" => c.msg = prev_log_crc

Repeats ==
  tangled = {} =>
    /\ \A k \in 1..Len(held) : held[k] = last
    /\ ~Reporting => prev_log_count = Len(held)
    /\ \A t \in Threads : \A k \in 1..Len(stack[t]) : OutputKnows(stack[t][k])
    /\ \/ prev_log_crc = last
       \/ \E t \in Threads : \E k \in 1..Len(stack[t]) :
            Outputs(stack[t][k]) /\ stack[t][k].arg # "debug"

\* How far a SIGHUP handler is whose setupLogFacility has returned.
Rotates ==
  Alone /\ ~ClosingLog =>
    \A t \in Threads : \A k \in 1..Len(stack[t]) :
      LET c == stack[t][k] IN
      c.fn = "hup" /\ (k > 1 => stack[t][k - 1].fn # "setup") =>
        /\ c.pc = "error" => log_facility = "system"
        /\ c.pc \in {"reopened", "return"} => Rotated(c.at)

\* The facility that the start-up has chosen so far.
Wanted ==
  IF pc = "main" THEN "stdout"
  ELSE IF pc \in {"options", "logfile"} THEN "system"
  ELSE IF pc # "stdout" /\ opts.stdout THEN "stdout"
  ELSE IF opts.logfile THEN "file" ELSE "system"

FacilityAsAsked ==
  signals = 0 /\ pc \notin {"tested", "end", "fatal", "exit"} =>
    IF stack[Main] # <<>> /\ stack[Main][1].fn = "setup"
      THEN stack[Main][1].arg = Wanted /\ (Wanted = "file" => stack[Main][1].fd # NULL)
      ELSE log_facility = Wanted

\* What the start-up has done so far about the ids and the pid file.
IdsAsAsked ==
  /\ pc \notin UidSet \cup {"fatal"} => uid = opts.user
  /\ pc \notin {"threads", "loop"} => gid = opts.user
  /\ pc = "setuid now" => g_uid # 0
  /\ pc = "setgid now" => g_gid # 0
  /\ pc \in OptsTaken => g_uid = opts.uid
  /\ pc \in OptsTaken \ GidKnown => g_gid = opts.gid
  /\ pc \in GidKnown => g_gid = IF opts.gid = 0 THEN opts.confgid ELSE opts.gid
  /\ pc \in UidSet => uid = IF g_uid = 0 THEN opts.user ELSE g_uid
  /\ pc \in {"threads", "loop"} => gid = IF g_gid = 0 THEN opts.user ELSE g_gid
  /\ pc \in {"handler", "load"} \cup GidKnown /\ opts.daemon => pidfile

DaemonInv ==
  /\ TypeOK
  /\ Layers /\ NoHandlerYet /\ Progress
  /\ HupAlone /\ NewStreams /\ NullClosed
  /\ HolderRuns /\ StreamsOpen /\ Repeats /\ Rotates
  /\ FacilityAsAsked /\ IdsAsAsked

-----------------------------------------------------------------------------
(* What the steps do to a stack of calls                                   *)

Stacks == [Threads -> Seq(Frames)]

Others(t) == \A u \in Threads \ {t} : stack'[u] = stack[u]

\* c is put on top; d is what the call below it is then.
Pushed(t, c, d) ==
  /\ Others(t)
  /\ Len(stack'[t]) = Len(stack[t]) + 1
  /\ stack'[t][1] = c
  /\ \A k \in 2..Len(stack'[t]) : stack'[t][k] = IF k = 2 THEN d ELSE stack[t][k - 1]

\* The running call returns.
Popped(t) ==
  /\ Others(t)
  /\ stack[t] # <<>>
  /\ Len(stack'[t]) = Len(stack[t]) - 1
  /\ \A k \in 1..Len(stack'[t]) : stack'[t][k] = stack[t][k + 1]

\* The running call becomes d.
Turned(t, d) ==
  /\ Others(t)
  /\ stack[t] # <<>>
  /\ Len(stack'[t]) = Len(stack[t])
  /\ stack'[t][1] = d
  /\ \A k \in 2..Len(stack[t]) : stack'[t][k] = stack[t][k]

\* The running call of a thread is the first of its stack.
LEMMA Running1 ==
  ASSUME stack \in Stacks, NEW t \in Threads, stack[t] # <<>>
  PROVE  /\ Len(stack[t]) \in Nat /\ Len(stack[t]) >= 1
         /\ Head(stack[t]) = stack[t][1] /\ stack[t][1] \in Frames
  BY DEF Stacks

\* A call or a handler starts.
LEMMA PushShape ==
  ASSUME stack \in Stacks, NEW t \in Threads, NEW c \in Frames, Push(t, c)
  PROVE  stack' \in Stacks /\ Pushed(t, c, stack[t][1])
<1> DEFINE s == stack[t]
           n == <<c>> \o s
<1>1. s \in Seq(Frames) /\ <<c>> \in Seq(Frames)
  BY DEF Stacks
<1>2. stack' = [stack EXCEPT ![t] = n]
  BY DEF Push
<1>3. /\ n \in Seq(Frames) /\ Len(n) = Len(s) + 1 /\ n[1] = c
      /\ \A k \in 2..Len(n) : n[k] = s[k - 1]
  BY <1>1
<1> HIDE DEF n
<1>4. stack'[t] = n /\ stack' \in Stacks /\ Others(t)
  BY <1>2, <1>3 DEF Stacks, Others
<1> QED BY <1>3, <1>4 DEF Pushed

\* A handler makes a call.
LEMMA CallShape ==
  ASSUME stack \in Stacks, NEW t \in Threads, stack[t] # <<>>, NEW c \in Frames, NEW p \in CallPlaces,
         CallThen(t, c, p)
  PROVE  stack' \in Stacks /\ Pushed(t, c, [stack[t][1] EXCEPT !.pc = p])
<1> DEFINE s == stack[t]
           d == [stack[t][1] EXCEPT !.pc = p]
           n == <<c, d>> \o Tail(s)
<1>1. s \in Seq(Frames) /\ s # <<>> /\ s[1] = Head(s) /\ s[1] \in Frames
  BY DEF Stacks
<1>2. d \in Frames
  BY <1>1 DEF Frames
<1>3. stack' = [stack EXCEPT ![t] = n]
  BY <1>1 DEF CallThen
<1> HIDE DEF d
<1>4. Tail(s) \in Seq(Frames) /\ Len(Tail(s)) = Len(s) - 1 /\ \A k \in 1..Len(s) - 1 : Tail(s)[k] = s[k + 1]
  BY <1>1
<1>5. <<c, d>> \in Seq(Frames)
  BY <1>2
<1>6. /\ n \in Seq(Frames) /\ Len(n) = Len(s) + 1 /\ n[1] = c
      /\ \A k \in 2..Len(n) : n[k] = IF k = 2 THEN d ELSE s[k - 1]
  BY <1>1, <1>4, <1>5
<1> HIDE DEF n
<1>7. stack'[t] = n /\ stack' \in Stacks /\ Others(t)
  BY <1>3, <1>6 DEF Stacks, Others
<1> QED BY <1>6, <1>7 DEF Pushed, d

\* A call returns.
LEMMA PopShape ==
  ASSUME stack \in Stacks, NEW t \in Threads, stack[t] # <<>>, Return(t)
  PROVE  stack' \in Stacks /\ Popped(t)
<1> DEFINE s == stack[t]
           n == Tail(s)
<1>1. s \in Seq(Frames) /\ s # <<>>
  BY DEF Stacks
<1>2. n \in Seq(Frames) /\ Len(n) = Len(s) - 1 /\ \A k \in 1..Len(n) : n[k] = s[k + 1]
  BY <1>1
<1>3. stack' = [stack EXCEPT ![t] = n]
  BY DEF Return
<1> HIDE DEF n
<1>4. stack'[t] = n /\ stack' \in Stacks /\ Others(t)
  BY <1>2, <1>3 DEF Stacks, Others
<1> QED BY <1>1, <1>2, <1>4 DEF Popped

\* The running call is replaced by another state of it.
LEMMA TurnShape ==
  ASSUME stack \in Stacks, NEW t \in Threads, stack[t] # <<>>, NEW d \in Frames,
         stack' = [stack EXCEPT ![t] = [stack[t] EXCEPT ![1] = d]]
  PROVE  stack' \in Stacks /\ Turned(t, d)
<1> DEFINE s == stack[t]
           n == [s EXCEPT ![1] = d]
<1>1. s \in Seq(Frames) /\ s # <<>> /\ 1 \in 1..Len(s)
  BY DEF Stacks
<1>2. n \in Seq(Frames) /\ Len(n) = Len(s) /\ \A k \in 1..Len(s) : n[k] = IF k = 1 THEN d ELSE s[k]
  BY <1>1, ExceptSeq
<1>3. stack' = [stack EXCEPT ![t] = n]
  OBVIOUS
<1> HIDE DEF n
<1>4. stack'[t] = n /\ stack' \in Stacks /\ Others(t)
  BY <1>2, <1>3 DEF Stacks, Others
<1> QED BY <1>1, <1>2, <1>4 DEF Turned

\* The running call goes on at another place.
LEMMA ContinueShape ==
  ASSUME stack \in Stacks, NEW t \in Threads, stack[t] # <<>>, NEW p \in CallPlaces, Continue(t, p)
  PROVE  stack' \in Stacks /\ Turned(t, [stack[t][1] EXCEPT !.pc = p])
<1> DEFINE d == [stack[t][1] EXCEPT !.pc = p]
<1>1. d \in Frames
  BY Running1 DEF Frames
<1>2. stack' = [stack EXCEPT ![t] = [stack[t] EXCEPT ![1] = d]]
  BY DEF Continue, Stacks
<1> HIDE DEF d
<1>3. stack' \in Stacks /\ Turned(t, d)
  BY <1>1, <1>2, TurnShape
<1> QED BY <1>3 DEF d

\* The running call goes on with a stream.
LEMMA ContinueOnShape ==
  ASSUME stack \in Stacks, NEW t \in Threads, stack[t] # <<>>, NEW p \in CallPlaces, NEW f \in Nat,
         ContinueOn(t, p, f)
  PROVE  stack' \in Stacks /\ Turned(t, [stack[t][1] EXCEPT !.pc = p, !.fd = f])
<1> DEFINE d == [stack[t][1] EXCEPT !.pc = p, !.fd = f]
<1>1. d \in Frames
  BY Running1 DEF Frames
<1>2. stack' = [stack EXCEPT ![t] = [stack[t] EXCEPT ![1] = d]]
  BY DEF ContinueOn, Stacks
<1> HIDE DEF d
<1>3. stack' \in Stacks /\ Turned(t, d)
  BY <1>1, <1>2, TurnShape
<1> QED BY <1>3 DEF d

\* The running call starts to write to the stream selected now.
LEMMA OutputShape ==
  ASSUME stack \in Stacks, NEW t \in Threads, stack[t] # <<>>, NEW p \in CallPlaces,
         get_log_file_descriptor \in Nat, Output(t, p)
  PROVE  /\ stack' \in Stacks
         /\ Turned(t, [stack[t][1] EXCEPT !.pc = p, !.fd = get_log_file_descriptor, !.at = 0])
<1> DEFINE d == [stack[t][1] EXCEPT !.pc = p, !.fd = get_log_file_descriptor, !.at = 0]
<1>1. d \in Frames
  BY Running1 DEF Frames
<1>2. stack' = [stack EXCEPT ![t] = [stack[t] EXCEPT ![1] = d]]
  BY DEF Output, Stacks
<1> HIDE DEF d
<1>3. stack' \in Stacks /\ Turned(t, d)
  BY <1>1, <1>2, TurnShape
<1> QED BY <1>3 DEF d

-----------------------------------------------------------------------------
(* What each step does to the calls                                        *)

LogCall(c) == c.fn = "log" /\ c.pc = "lock" /\ c.fd = NULL

\* Calls as they are made.
LEMMA NewFrames ==
  ASSUME LogOK, NEW type \in Args, NEW msg \in Texts, NEW fac \in {"stdout", "file", "system"}, NEW f \in Nat, NEW fn \in {"hup", "term"}
  PROVE  /\ Log(type, msg) \in Frames /\ LogCall(Log(type, msg)) /\ Log(type, msg).at = minute
         /\ Log(type, msg).arg = type /\ Log(type, msg).msg = msg
         /\ Setup(fac, f) \in Frames /\ Setup(fac, f).fn = "setup" /\ Setup(fac, f).pc = "lock"
         /\ Setup(fac, f).arg = fac /\ Setup(fac, f).fd = f
         /\ CloseLog \in Frames /\ CloseLog.fn = "setup" /\ CloseLog.pc = "lock"
         /\ CloseLog.arg = "close" /\ CloseLog.fd = NULL
         /\ Handler(fn) \in Frames /\ Handler(fn).fn = fn /\ Handler(fn).pc = "begin"
         /\ Handler(fn).fd = NULL /\ Handler(fn).at = opened
<1>1. minute \in Nat /\ opened \in Nat /\ None \in Texts /\ "none" \in Args /\ "close" \in Args /\ fac \in Args
  BY DEF LogOK, Texts, Args
<1>2. ASSUME NEW g \in {"log", "setup", "hup", "term"}, NEW p \in CallPlaces, NEW arg \in Args, NEW m \in Texts,
             NEW fd \in Nat, NEW at \in Nat
      PROVE  /\ Call(g, p, arg, m, fd, at) \in Frames
             /\ Call(g, p, arg, m, fd, at).fn = g /\ Call(g, p, arg, m, fd, at).pc = p
             /\ Call(g, p, arg, m, fd, at).arg = arg /\ Call(g, p, arg, m, fd, at).msg = m
             /\ Call(g, p, arg, m, fd, at).fd = fd /\ Call(g, p, arg, m, fd, at).at = at
  BY DEF Call, Frames
<1>3. "lock" \in CallPlaces /\ "begin" \in CallPlaces /\ NULL \in Nat /\ 0 \in Nat
  BY DEF NULL, CallPlaces
<1>4. /\ Log(type, msg) \in Frames /\ LogCall(Log(type, msg)) /\ Log(type, msg).at = minute
      /\ Log(type, msg).arg = type /\ Log(type, msg).msg = msg
  BY <1>1, <1>2, <1>3 DEF Log, LogCall
<1>5. /\ Setup(fac, f) \in Frames /\ Setup(fac, f).fn = "setup" /\ Setup(fac, f).pc = "lock"
      /\ Setup(fac, f).arg = fac /\ Setup(fac, f).fd = f
  BY <1>1, <1>2, <1>3 DEF Setup
<1>6. /\ CloseLog \in Frames /\ CloseLog.fn = "setup" /\ CloseLog.pc = "lock"
      /\ CloseLog.arg = "close" /\ CloseLog.fd = NULL
  BY <1>1, <1>2, <1>3 DEF CloseLog
<1>7. /\ Handler(fn) \in Frames /\ Handler(fn).fn = fn /\ Handler(fn).pc = "begin"
      /\ Handler(fn).fd = NULL /\ Handler(fn).at = opened
  <2>1. Handler(fn) = Call(fn, "begin", "none", None, NULL, opened) /\ fn \in {"log", "setup", "hup", "term"}
    BY DEF Handler
  <2> QED BY <1>1, <1>2, <1>3, <2>1
<1> QED BY <1>4, <1>5, <1>6, <1>7

\* The running call becomes d, which differs in its place, stream and time.
Moves(t, p, f, a) ==
  \E d \in Frames :
    /\ Turned(t, d)
    /\ d.fn = stack[t][1].fn /\ d.arg = stack[t][1].arg /\ d.msg = stack[t][1].msg
    /\ d.pc = p /\ d.fd = f /\ d.at = a

\* The running call makes the call c and goes on at p when that returns.
Makes(t, c, p) ==
  \E d \in Frames :
    /\ Pushed(t, c, d)
    /\ d.fn = stack[t][1].fn /\ d.arg = stack[t][1].arg /\ d.msg = stack[t][1].msg
    /\ d.pc = p /\ d.fd = stack[t][1].fd /\ d.at = stack[t][1].at

\* The running call is fn, at p.
At(t, fn, p) ==
  /\ stack[t] # <<>> /\ Len(stack[t]) >= 1 /\ Head(stack[t]) = stack[t][1] /\ stack[t][1] \in Frames
  /\ stack[t][1].fn = fn /\ stack[t][1].pc = p

\* The same as Running, with the type of the call.
LEMMA RunningAt ==
  ASSUME stack \in Stacks, NEW t \in Threads, NEW fn, NEW p, Running(t, fn, p)
  PROVE  At(t, fn, p)
  BY Running1 DEF Running, At

\* get_log_file_descriptor returns a stream that was opened, or NULL.
LEMMA Descriptor == LogOK => get_log_file_descriptor \in 0..opened
  BY DEF LogOK, get_log_file_descriptor, Std, NULL

\* A log call returns, or goes on to exit() in logFatal.
Done(t) ==
  IF stack[t][1].arg = "fatal" THEN Moves(t, "exit", stack[t][1].fd, stack[t][1].at) ELSE Popped(t)

\* LNLog::log.
LEMMA LogShapes ==
  ASSUME LogOK, CallsOK, NEW t \in Threads
  PROVE  /\ LogSuppress(t) => At(t, "log", "lock") /\ stack' \in Stacks /\ Done(t)
         /\ LogBegin(t) => /\ At(t, "log", "lock") /\ stack' \in Stacks
                           /\ Moves(t, IF prev_log_count > 0 THEN "reporting" ELSE "writing",
                                    get_log_file_descriptor, 0)
         /\ LogReported(t) => /\ At(t, "log", "reporting") /\ stack' \in Stacks
                              /\ Moves(t, "writing", get_log_file_descriptor, 0)
         /\ LogWrite(t) => At(t, "log", "writing") /\ stack' \in Stacks /\ Done(t)
<1>0. stack \in Stacks /\ get_log_file_descriptor \in Nat
  BY Descriptor DEF CallsOK, Stacks, LogOK
<1>1. ASSUME NEW at, At(t, "log", at), LogReturn(t) PROVE stack' \in Stacks /\ Done(t)
  <2>2. IF stack[t][1].arg = "fatal" THEN Continue(t, "exit") ELSE Return(t)
    BY <1>1 DEF LogReturn, At
  <2>3. CASE stack[t][1].arg = "fatal"
    <3> DEFINE d == [stack[t][1] EXCEPT !.pc = "exit"]
    <3>1. stack' \in Stacks /\ Turned(t, d)
      BY <1>0, <1>1, <2>2, <2>3, ContinueShape DEF At, CallPlaces
    <3>2. /\ d \in Frames /\ d.pc = "exit" /\ d.fn = stack[t][1].fn /\ d.arg = stack[t][1].arg
          /\ d.msg = stack[t][1].msg /\ d.fd = stack[t][1].fd /\ d.at = stack[t][1].at
      BY <1>1 DEF At, Frames, CallPlaces
    <3> HIDE DEF d
    <3> QED BY <2>3, <3>1, <3>2 DEF Moves, Done
  <2>4. CASE stack[t][1].arg # "fatal"
    BY <1>0, <1>1, <2>2, <2>4, PopShape DEF At, Done
  <2> QED BY <2>3, <2>4
<1>2. ASSUME LogSuppress(t) PROVE At(t, "log", "lock") /\ stack' \in Stacks /\ Done(t)
  <2>1. At(t, "log", "lock") /\ LogReturn(t)
    BY <1>0, <1>2, RunningAt DEF LogSuppress
  <2> QED BY <1>1, <2>1
<1>3. ASSUME NEW p \in CallPlaces, Output(t, p), stack[t] # <<>>
      PROVE  stack' \in Stacks /\ Moves(t, p, get_log_file_descriptor, 0)
  <2> DEFINE d == [stack[t][1] EXCEPT !.pc = p, !.fd = get_log_file_descriptor, !.at = 0]
  <2>1. stack' \in Stacks /\ Turned(t, d)
    BY <1>0, <1>3, OutputShape
  <2>2. stack[t][1] \in Frames
    BY <1>0, <1>3, Running1
  <2>3. /\ d \in Frames /\ d.pc = p /\ d.fn = stack[t][1].fn /\ d.arg = stack[t][1].arg
        /\ d.msg = stack[t][1].msg /\ d.fd = get_log_file_descriptor /\ d.at = 0
    BY <1>0, <2>2 DEF Frames
  <2> HIDE DEF d
  <2> QED BY <2>1, <2>3 DEF Moves
<1>4. ASSUME LogBegin(t)
      PROVE  /\ At(t, "log", "lock") /\ stack' \in Stacks
             /\ Moves(t, IF prev_log_count > 0 THEN "reporting" ELSE "writing", get_log_file_descriptor, 0)
  <2>1. At(t, "log", "lock") /\ Output(t, IF prev_log_count > 0 THEN "reporting" ELSE "writing")
    BY <1>0, <1>4, RunningAt DEF LogBegin
  <2> QED BY <1>3, <2>1 DEF At, CallPlaces
<1>5. ASSUME LogReported(t)
      PROVE  /\ At(t, "log", "reporting") /\ stack' \in Stacks
             /\ Moves(t, "writing", get_log_file_descriptor, 0)
  <2>1. At(t, "log", "reporting") /\ Output(t, "writing")
    BY <1>0, <1>5, RunningAt DEF LogReported
  <2> QED BY <1>3, <2>1 DEF At, CallPlaces
<1>6. ASSUME LogWrite(t) PROVE At(t, "log", "writing") /\ stack' \in Stacks /\ Done(t)
  <2>1. At(t, "log", "writing") /\ LogReturn(t)
    BY <1>0, <1>6, RunningAt DEF LogWrite
  <2> QED BY <1>1, <2>1
<1> QED BY <1>2, <1>4, <1>5, <1>6

\* setupLogFacility and closeLog.
LEMMA SetupShapes ==
  ASSUME LogOK, CallsOK, NEW t \in Threads
  PROVE  /\ SetupRefused(t) =>
              /\ At(t, "setup", "lock") /\ stack' \in Stacks /\ Popped(t)
              /\ stack[t][1].arg = "file" /\ stack[t][1].fd = NULL
         /\ SetupClose(t) =>
              /\ At(t, "setup", "lock") /\ stack' \in Stacks
              /\ ~(stack[t][1].arg = "file" /\ stack[t][1].fd = NULL)
              /\ IF log_facility = "file" /\ log_file_descriptor = NULL THEN UNCHANGED stack
                 ELSE Moves(t, "assign", stack[t][1].fd, stack[t][1].at)
         /\ SetupAssign(t) => At(t, "setup", "assign") /\ stack' \in Stacks /\ Popped(t)
<1>0. stack \in Stacks
  BY DEF CallsOK, Stacks
<1>1. ASSUME SetupRefused(t)
      PROVE  /\ At(t, "setup", "lock") /\ stack' \in Stacks /\ Popped(t)
             /\ stack[t][1].arg = "file" /\ stack[t][1].fd = NULL
  <2>1. At(t, "setup", "lock") /\ Return(t)
    BY <1>0, <1>1, RunningAt DEF SetupRefused
  <2>2. stack[t][1].arg = "file" /\ stack[t][1].fd = NULL
    BY <1>1, <2>1 DEF SetupRefused, At
  <2> QED BY <1>0, <2>1, <2>2, PopShape DEF At
<1>2. ASSUME SetupClose(t)
      PROVE  /\ At(t, "setup", "lock") /\ stack' \in Stacks
             /\ ~(stack[t][1].arg = "file" /\ stack[t][1].fd = NULL)
             /\ IF log_facility = "file" /\ log_file_descriptor = NULL THEN UNCHANGED stack
                ELSE Moves(t, "assign", stack[t][1].fd, stack[t][1].at)
  <2>1. At(t, "setup", "lock")
    BY <1>0, <1>2, RunningAt DEF SetupClose
  <2>2. ~(stack[t][1].arg = "file" /\ stack[t][1].fd = NULL)
    BY <1>2, <2>1 DEF SetupClose, At
  <2>3. CASE log_facility = "file" /\ log_file_descriptor = NULL
    BY <1>0, <1>2, <2>1, <2>2, <2>3 DEF SetupClose
  <2>4. CASE ~(log_facility = "file" /\ log_file_descriptor = NULL)
    <3> DEFINE d == [stack[t][1] EXCEPT !.pc = "assign"]
    <3>1. Continue(t, "assign")
      BY <1>2, <2>4 DEF SetupClose
    <3>2. stack' \in Stacks /\ Turned(t, d)
      BY <1>0, <2>1, <3>1, ContinueShape DEF At, CallPlaces
    <3>3. /\ d \in Frames /\ d.pc = "assign" /\ d.fn = stack[t][1].fn /\ d.arg = stack[t][1].arg
          /\ d.msg = stack[t][1].msg /\ d.fd = stack[t][1].fd /\ d.at = stack[t][1].at
      BY <2>1 DEF At, Frames, CallPlaces
    <3> HIDE DEF d
    <3> QED BY <2>1, <2>2, <2>4, <3>2, <3>3 DEF Moves
  <2> QED BY <2>3, <2>4
<1>3. ASSUME SetupAssign(t) PROVE At(t, "setup", "assign") /\ stack' \in Stacks /\ Popped(t)
  <2>1. At(t, "setup", "assign") /\ Return(t)
    BY <1>0, <1>3, RunningAt DEF SetupAssign
  <2> QED BY <1>0, <2>1, PopShape DEF At
<1> QED BY <1>1, <1>2, <1>3

\* The running call logs a message, or sets the log up, and goes on at p.
LogsThen(t, p) == \E c \in Frames : LogCall(c) /\ c.at = minute /\ Makes(t, c, p)

SetsThen(t, fac, f, p) ==
  \E c \in Frames : c.fn = "setup" /\ c.pc = "lock" /\ c.arg = fac /\ c.fd = f /\ Makes(t, c, p)

\* The calls that terminationHandler makes.
LEMMA CallThenMakes ==
  ASSUME LogOK, CallsOK, NEW t \in Threads, stack[t] # <<>>, NEW c \in Frames, NEW p \in CallPlaces,
         CallThen(t, c, p)
  PROVE  stack' \in Stacks /\ Makes(t, c, p)
<1> DEFINE d == [stack[t][1] EXCEPT !.pc = p]
<1>1. stack \in Stacks
  BY DEF CallsOK, Stacks
<1>2. stack' \in Stacks /\ Pushed(t, c, d)
  BY <1>1, CallShape
<1>3. stack[t][1] \in Frames
  BY <1>1, Running1
<1>4. /\ d \in Frames /\ d.pc = p /\ d.fn = stack[t][1].fn /\ d.arg = stack[t][1].arg
      /\ d.msg = stack[t][1].msg /\ d.fd = stack[t][1].fd /\ d.at = stack[t][1].at
  BY <1>3 DEF Frames
<1> HIDE DEF d
<1> QED BY <1>2, <1>4 DEF Makes

\* A handler goes on at another place.
LEMMA ContinueMoves ==
  ASSUME LogOK, CallsOK, NEW t \in Threads, stack[t] # <<>>, NEW p \in CallPlaces, NEW f \in Nat
  PROVE  /\ Continue(t, p) => stack' \in Stacks /\ Moves(t, p, stack[t][1].fd, stack[t][1].at)
         /\ ContinueOn(t, p, f) => stack' \in Stacks /\ Moves(t, p, f, stack[t][1].at)
<1>1. stack \in Stacks /\ stack[t][1] \in Frames
  BY Running1 DEF CallsOK, Stacks
<1>2. ASSUME Continue(t, p) PROVE stack' \in Stacks /\ Moves(t, p, stack[t][1].fd, stack[t][1].at)
  <2> DEFINE d == [stack[t][1] EXCEPT !.pc = p]
  <2>1. stack' \in Stacks /\ Turned(t, d)
    BY <1>1, <1>2, ContinueShape
  <2>2. /\ d \in Frames /\ d.pc = p /\ d.fn = stack[t][1].fn /\ d.arg = stack[t][1].arg
        /\ d.msg = stack[t][1].msg /\ d.fd = stack[t][1].fd /\ d.at = stack[t][1].at
    BY <1>1 DEF Frames
  <2> HIDE DEF d
  <2> QED BY <2>1, <2>2 DEF Moves
<1>3. ASSUME ContinueOn(t, p, f) PROVE stack' \in Stacks /\ Moves(t, p, f, stack[t][1].at)
  <2> DEFINE d == [stack[t][1] EXCEPT !.pc = p, !.fd = f]
  <2>1. stack' \in Stacks /\ Turned(t, d)
    BY <1>1, <1>3, ContinueOnShape
  <2>2. /\ d \in Frames /\ d.pc = p /\ d.fn = stack[t][1].fn /\ d.arg = stack[t][1].arg
        /\ d.msg = stack[t][1].msg /\ d.fd = f /\ d.at = stack[t][1].at
    BY <1>1 DEF Frames
  <2> HIDE DEF d
  <2> QED BY <2>1, <2>2 DEF Moves
<1> QED BY <1>2, <1>3

HupCalls(t) ==
  \/ At(t, "hup", "error") /\ LogsThen(t, "reopened")
  \/ At(t, "hup", "reopened") /\ LogsThen(t, "return")

TermCalls(t) ==
  \/ At(t, "term", "begin") /\ LogsThen(t, "goodbye")
  \/ At(t, "term", "goodbye") /\ LogsThen(t, "close")

\* terminationHandler, the steps that make a call or return.
LEMMA HandlerShapes ==
  ASSUME LogOK, CallsOK, NEW t \in Threads, HandlerCalls(t)
  PROVE  /\ stack' \in Stacks
         /\ \/ HupCalls(t)
            \/ TermCalls(t)
            \/ At(t, "hup", "return") /\ Popped(t)
            \/ At(t, "term", "close") /\ SetsThen(t, "close", NULL, "exit")
<1>0. stack \in Stacks
  BY DEF CallsOK, Stacks
<1>1. ASSUME NEW fn, NEW at, NEW msg \in OwnTexts, NEW p \in CallPlaces,
             Running(t, fn, at), CallThen(t, Log("info", msg), p)
      PROVE  stack' \in Stacks /\ At(t, fn, at) /\ LogsThen(t, p)
  <2>1. At(t, fn, at)
    BY <1>0, <1>1, RunningAt
  <2>2. /\ Log("info", msg) \in Frames /\ LogCall(Log("info", msg))
        /\ Log("info", msg).at = minute
    BY NewFrames DEF Args, Texts
  <2>3. stack' \in Stacks /\ Makes(t, Log("info", msg), p)
    BY <1>1, <2>1, <2>2, CallThenMakes DEF At
  <2> QED BY <2>1, <2>2, <2>3 DEF LogsThen
<1>2. ASSUME Running(t, "term", "close"), CallThen(t, CloseLog, "exit")
      PROVE  stack' \in Stacks /\ At(t, "term", "close") /\ SetsThen(t, "close", NULL, "exit")
  <2>1. At(t, "term", "close") /\ "exit" \in CallPlaces
    BY <1>0, <1>2, RunningAt DEF CallPlaces
  <2>2. /\ CloseLog \in Frames /\ CloseLog.fn = "setup" /\ CloseLog.pc = "lock"
        /\ CloseLog.arg = "close" /\ CloseLog.fd = NULL
    BY NewFrames DEF Args, Texts
  <2>3. stack' \in Stacks /\ Makes(t, CloseLog, "exit")
    BY <1>2, <2>1, <2>2, CallThenMakes DEF At
  <2> QED BY <2>1, <2>2, <2>3 DEF SetsThen
<1>3. ASSUME Running(t, "hup", "return"), Return(t)
      PROVE  stack' \in Stacks /\ At(t, "hup", "return") /\ Popped(t)
  <2>1. At(t, "hup", "return")
    BY <1>0, <1>3, RunningAt
  <2> QED BY <1>0, <1>3, <2>1, PopShape DEF At
<1>4. CASE Running(t, "hup", "error") /\ CallThen(t, Log("info", "open failed"), "reopened")
  BY <1>1, <1>4 DEF OwnTexts, CallPlaces, HupCalls
<1>5. CASE Running(t, "hup", "reopened") /\ CallThen(t, Log("info", "re-opened"), "return")
  BY <1>1, <1>5 DEF OwnTexts, CallPlaces, HupCalls
<1>6. CASE Running(t, "term", "begin") /\ CallThen(t, Log("info", "received SIGTERM"), "goodbye")
  BY <1>1, <1>6 DEF OwnTexts, CallPlaces, TermCalls
<1>7. CASE Running(t, "term", "goodbye") /\ CallThen(t, Log("info", "exit"), "close")
  BY <1>1, <1>7 DEF OwnTexts, CallPlaces, TermCalls
<1> QED BY <1>2, <1>3, <1>4, <1>5, <1>6, <1>7 DEF HandlerCalls

\* terminationHandler, the steps of SIGHUP that work on lfp, and exit().
LEMMA LfpShapes ==
  ASSUME LogOK, MainOK, CallsOK, NEW t \in Threads
  PROVE  /\ Reopen(t) =>
              /\ At(t, "hup", "begin") /\ stack' \in Stacks
              /\ \/ log_facility # "file" /\ Popped(t) /\ UNCHANGED <<opened, lfp>>
                 \/ /\ log_facility = "file" /\ Moves(t, "check", lfp', stack[t][1].at)
                    /\ \/ opened' = opened + 1 /\ lfp' = opened + 1
                       \/ opened' = opened /\ lfp' = NULL
         /\ CheckLfp(t) =>
              /\ At(t, "hup", "check") /\ stack' \in Stacks
              /\ \/ NULL \in {lfp, stack[t][1].fd} /\ SetsThen(t, "system", NULL, "error")
                 \/ {lfp, stack[t][1].fd} # {NULL} /\ Moves(t, "use", stack[t][1].fd, stack[t][1].at)
         /\ UseLfp(t) =>
              /\ At(t, "hup", "use") /\ stack' \in Stacks
              /\ \E fp \in {lfp, stack[t][1].fd} : SetsThen(t, "file", fp, "reopened")
         /\ Exit(t) =>
              /\ At(t, "term", "exit") /\ stack' \in Stacks
              /\ Moves(t, "exited", stack[t][1].fd, stack[t][1].at)
<1>0. stack \in Stacks /\ lfp \in Nat /\ opened \in Nat
  BY DEF CallsOK, Stacks, MainOK, LogOK, NULL
<1>1. ASSUME Reopen(t)
      PROVE  /\ At(t, "hup", "begin") /\ stack' \in Stacks
             /\ \/ log_facility # "file" /\ Popped(t) /\ UNCHANGED <<opened, lfp>>
                \/ /\ log_facility = "file" /\ Moves(t, "check", lfp', stack[t][1].at)
                   /\ \/ opened' = opened + 1 /\ lfp' = opened + 1
                      \/ opened' = opened /\ lfp' = NULL
  <2>1. At(t, "hup", "begin")
    BY <1>0, <1>1, RunningAt DEF Reopen
  <2>2. CASE log_facility # "file" /\ Return(t) /\ UNCHANGED <<opened, lfp>>
    BY <1>0, <2>1, <2>2, PopShape DEF At
  <2>3. CASE /\ log_facility = "file" /\ ContinueOn(t, "check", lfp')
             /\ \/ opened' = opened + 1 /\ lfp' = opened'
                \/ opened' = opened /\ lfp' = NULL
    <3>1. lfp' \in Nat /\ "check" \in CallPlaces
      BY <1>0, <2>3 DEF NULL, CallPlaces
    <3>2. stack' \in Stacks /\ Moves(t, "check", lfp', stack[t][1].at)
      BY <2>1, <2>3, <3>1, ContinueMoves DEF At
    <3> QED BY <2>1, <2>3, <3>2
  <2> QED BY <1>1, <2>2, <2>3 DEF Reopen
<1>2. ASSUME NEW fac \in {"system", "file"}, NEW f \in Nat, NEW p \in CallPlaces, stack[t] # <<>>,
             CallThen(t, Setup(fac, f), p)
      PROVE  stack' \in Stacks /\ SetsThen(t, fac, f, p)
  <2>1. /\ Setup(fac, f) \in Frames /\ Setup(fac, f).fn = "setup" /\ Setup(fac, f).pc = "lock"
        /\ Setup(fac, f).arg = fac /\ Setup(fac, f).fd = f
    BY NewFrames DEF Args, Texts
  <2>2. stack' \in Stacks /\ Makes(t, Setup(fac, f), p)
    BY <1>2, <2>1, CallThenMakes
  <2> QED BY <2>1, <2>2 DEF SetsThen
<1>3. ASSUME CheckLfp(t)
      PROVE  /\ At(t, "hup", "check") /\ stack' \in Stacks
             /\ \/ NULL \in {lfp, stack[t][1].fd} /\ SetsThen(t, "system", NULL, "error")
                \/ {lfp, stack[t][1].fd} # {NULL} /\ Moves(t, "use", stack[t][1].fd, stack[t][1].at)
  <2>1. At(t, "hup", "check")
    BY <1>0, <1>3, RunningAt DEF CheckLfp
  <2>2. PICK fp \in {lfp, stack[t][1].fd} :
          IF fp = NULL THEN CallThen(t, Setup("system", NULL), "error") ELSE Continue(t, "use")
    BY <1>3, <2>1 DEF CheckLfp, Lfp, At
  <2>3. CASE fp = NULL
    <3>1. CallThen(t, Setup("system", NULL), "error") /\ NULL \in Nat /\ "error" \in CallPlaces
      BY <2>2, <2>3 DEF NULL, CallPlaces
    <3>2. stack' \in Stacks /\ SetsThen(t, "system", NULL, "error")
      BY <1>2, <2>1, <3>1 DEF At
    <3> QED BY <2>1, <2>2, <2>3, <3>2
  <2>4. CASE fp # NULL
    <3>1. Continue(t, "use") /\ "use" \in CallPlaces
      BY <2>2, <2>4 DEF CallPlaces
    <3>2. stack' \in Stacks /\ Moves(t, "use", stack[t][1].fd, stack[t][1].at)
      BY <1>0, <2>1, <3>1, ContinueMoves DEF At
    <3> QED BY <2>1, <2>2, <2>4, <3>2
  <2> QED BY <2>3, <2>4
<1>4. ASSUME UseLfp(t)
      PROVE  /\ At(t, "hup", "use") /\ stack' \in Stacks
             /\ \E fp \in {lfp, stack[t][1].fd} : SetsThen(t, "file", fp, "reopened")
  <2>1. At(t, "hup", "use")
    BY <1>0, <1>4, RunningAt DEF UseLfp
  <2>2. PICK fp \in {lfp, stack[t][1].fd} : CallThen(t, Setup("file", fp), "reopened")
    BY <1>4, <2>1 DEF UseLfp, Lfp, At
  <2>3. fp \in Nat /\ "reopened" \in CallPlaces
    BY <1>0, <2>1, <2>2 DEF At, Frames, CallPlaces
  <2>4. stack' \in Stacks /\ SetsThen(t, "file", fp, "reopened")
    BY <1>2, <2>1, <2>2, <2>3 DEF At
  <2> QED BY <2>1, <2>2, <2>4
<1>5. ASSUME Exit(t)
      PROVE  /\ At(t, "term", "exit") /\ stack' \in Stacks
             /\ Moves(t, "exited", stack[t][1].fd, stack[t][1].at)
  <2>1. At(t, "term", "exit") /\ Continue(t, "exited") /\ "exited" \in CallPlaces
    BY <1>0, <1>5, RunningAt DEF Exit, CallPlaces
  <2> QED BY <1>0, <2>1, ContinueMoves DEF At
<1> QED BY <1>1, <1>3, <1>4, <1>5

\* A thread outside all calls logs a message, or start-up sets the log up.
StartsLog(t) ==
  /\ stack[t] = <<>>
  /\ \E c \in Frames : LogCall(c) /\ c.at = minute /\ Pushed(t, c, stack[t][1])

StartsSetup(fac, f) ==
  /\ stack[Main] = <<>>
  /\ \E c \in Frames : /\ c.fn = "setup" /\ c.pc = "lock" /\ c.arg = fac /\ c.fd = f
                       /\ Pushed(Main, c, stack[Main][1])

\* A log call of a running thread.
LEMMA SomethingShape ==
  ASSUME LogOK, CallsOK, NEW t \in Threads, LogSomething(t)
  PROVE  stack' \in Stacks /\ StartsLog(t)
<1>1. PICK m \in Messages : Push(t, Log(m[1], m[2]))
  BY DEF LogSomething
<1>2. m[1] \in Args /\ m[2] \in Texts /\ stack \in Stacks /\ stack[t] = <<>>
  BY DEF Args, Texts, CallsOK, Stacks, LogSomething
<1> DEFINE c == Log(m[1], m[2])
<1>3. c \in Frames /\ LogCall(c) /\ c.at = minute
  BY <1>2, NewFrames
<1>4. Push(t, c)
  BY <1>1
<1> HIDE DEF c
<1>5. stack' \in Stacks /\ Pushed(t, c, stack[t][1])
  BY <1>2, <1>3, <1>4, PushShape
<1> QED BY <1>2, <1>3, <1>5 DEF StartsLog

\* A handler starts, on top of whatever its thread is doing.
LEMMA SignalShape ==
  ASSUME LogOK, CallsOK, NEW fn \in {"hup", "term"}, Signal(fn)
  PROVE  /\ stack' \in Stacks
         /\ \/ ~handlers /\ UNCHANGED <<stack, tangled>>
            \/ /\ handlers
               /\ \E t \in Threads, c \in Frames :
                    /\ IF Handles(Main, fn) THEN t # Main /\ started /\ ~Handles(t, fn) ELSE t = Main
                    /\ c.fn = fn /\ c.pc = "begin" /\ c.fd = NULL /\ c.at = opened
                    /\ Pushed(t, c, stack[t][1])
                    /\ tangled' = tangled \cup Tangles(t, fn)
<1>0. stack \in Stacks
  BY DEF CallsOK, Stacks
<1>1. CASE ~handlers
  BY <1>0, <1>1 DEF Signal
<1>2. CASE handlers
  <2>1. PICK t \in Threads :
          /\ IF Handles(Main, fn) THEN t # Main /\ started /\ ~Handles(t, fn) ELSE t = Main
          /\ Push(t, Handler(fn))
          /\ tangled' = tangled \cup Tangles(t, fn)
    BY <1>2 DEF Signal
  <2> DEFINE c == Handler(fn)
  <2>2. c \in Frames /\ c.fn = fn /\ c.pc = "begin" /\ c.fd = NULL /\ c.at = opened
    BY NewFrames DEF Args, Texts
  <2>3. Push(t, c)
    BY <2>1
  <2> HIDE DEF c
  <2>4. stack' \in Stacks /\ Pushed(t, c, stack[t][1])
    BY <1>0, <2>2, <2>3, PushShape
  <2> QED BY <1>2, <2>1, <2>2, <2>4
<1> QED BY <1>1, <1>2

\* main() makes one call at a time, and sets the log up only before it
\* installs the handlers.
LEMMA MainShapes ==
  ASSUME LogOK, MainOK, CallsOK, MainStep
  PROVE  /\ stack[Main] = <<>> /\ status = "up" /\ stack' \in Stacks
         /\ UNCHANGED <<unchangedLog, boundVars, opts>>
         /\ \/ UNCHANGED <<stack, opened, lfp, handlers, started>> /\ status' \in {"up", "exiting"}
            \/ /\ StartsLog(Main) /\ UNCHANGED <<opened, status>>
               /\ lfp' = lfp \/ (pc = "logfile" /\ lfp' = NULL)
               /\ handlers' = handlers \/ (pc = "handler" /\ handlers' = TRUE)
               /\ started' = started \/ (pc = "threads" /\ started' = TRUE)
            \/ /\ pc \in {"main", "logfile", "stdout", "test"} /\ UNCHANGED <<status, handlers, started>>
               /\ \/ \E fac \in {"system", "stdout"} : StartsSetup(fac, NULL) /\ UNCHANGED <<opened, lfp>>
                  \/ opened' = opened + 1 /\ lfp' = opened + 1 /\ StartsSetup("file", opened + 1)
<1>0. stack \in Stacks /\ Main \in Threads /\ opened \in Nat
  BY MainAssumption DEF CallsOK, Stacks, LogOK
<1>1. stack[Main] = <<>> /\ status = "up" /\ UNCHANGED <<unchangedLog, boundVars, opts>>
  BY DEF MainStep, MainAt, MainStart, ParseOptions, OpenLogFile, UseStdout, TestOnly, TestResult, MainEnd,
         FindConfig, ChangeDirectory, Starting, Fork, RecordPID, InitTerminationHandler, LoadConfig,
         Announce, SetUid, SetGid, StartThreads, mainVars
<1>2. ASSUME NEW type \in {"info", "fatal"}, NEW msg \in OwnTexts, Push(Main, Log(type, msg))
      PROVE  stack' \in Stacks /\ StartsLog(Main)
  <2> DEFINE c == Log(type, msg)
  <2>1. c \in Frames /\ LogCall(c) /\ c.at = minute
    BY NewFrames DEF Args, Texts
  <2>2. Push(Main, c)
    BY <1>2
  <2> HIDE DEF c
  <2>3. stack' \in Stacks /\ Pushed(Main, c, stack[Main][1])
    BY <1>0, <2>1, <2>2, PushShape
  <2> QED BY <1>1, <2>1, <2>3 DEF StartsLog
<1>3. ASSUME NEW fac \in {"system", "stdout", "file"}, NEW f \in Nat, Push(Main, Setup(fac, f))
      PROVE  stack' \in Stacks /\ StartsSetup(fac, f)
  <2> DEFINE c == Setup(fac, f)
  <2>1. c \in Frames /\ c.fn = "setup" /\ c.pc = "lock" /\ c.arg = fac /\ c.fd = f
    BY NewFrames DEF Args, Texts
  <2>2. Push(Main, c)
    BY <1>3
  <2> HIDE DEF c
  <2>3. stack' \in Stacks /\ Pushed(Main, c, stack[Main][1])
    BY <1>0, <2>1, <2>2, PushShape
  <2> QED BY <1>1, <2>1, <2>3 DEF StartsSetup
<1> DEFINE Goal ==
      /\ stack' \in Stacks
      /\ \/ UNCHANGED <<stack, opened, lfp, handlers, started>> /\ status' \in {"up", "exiting"}
         \/ /\ StartsLog(Main) /\ UNCHANGED <<opened, status>>
            /\ lfp' = lfp \/ (pc = "logfile" /\ lfp' = NULL)
            /\ handlers' = handlers \/ (pc = "handler" /\ handlers' = TRUE)
            /\ started' = started \/ (pc = "threads" /\ started' = TRUE)
         \/ /\ pc \in {"main", "logfile", "stdout", "test"} /\ UNCHANGED <<status, handlers, started>>
            /\ \/ \E fac \in {"system", "stdout"} : StartsSetup(fac, NULL) /\ UNCHANGED <<opened, lfp>>
               \/ opened' = opened + 1 /\ lfp' = opened + 1 /\ StartsSetup("file", opened + 1)
<1>4. ASSUME UNCHANGED <<stack, opened, lfp, handlers, started>>, status' \in {"up", "exiting"} PROVE Goal
  BY <1>0, <1>4
<1>5. ASSUME NEW type \in {"info", "fatal"}, NEW msg \in OwnTexts, Push(Main, Log(type, msg)),
             UNCHANGED <<opened, status>>,
             lfp' = lfp \/ (pc = "logfile" /\ lfp' = NULL),
             handlers' = handlers \/ (pc = "handler" /\ handlers' = TRUE),
             started' = started \/ (pc = "threads" /\ started' = TRUE)
      PROVE  Goal
  BY <1>2, <1>5
<1>6. ASSUME NEW fac \in {"system", "stdout"}, Push(Main, Setup(fac, NULL)), UNCHANGED <<opened, lfp>>,
             pc \in {"main", "logfile", "stdout", "test"}, UNCHANGED <<status, handlers, started>>
      PROVE  Goal
  <2>1. NULL \in Nat
    BY DEF NULL
  <2> QED BY <1>3, <1>6, <2>1
<1>7. ASSUME opened' = opened + 1, lfp' = opened', Push(Main, Setup("file", opened')), pc = "logfile",
             UNCHANGED <<status, handlers, started>>
      PROVE  Goal
  <2>1. opened + 1 \in Nat /\ Push(Main, Setup("file", opened + 1))
    BY <1>0, <1>7
  <2>2. stack' \in Stacks /\ StartsSetup("file", opened + 1)
    BY <1>3, <2>1
  <2> QED BY <1>7, <2>2
<1> HIDE DEF Goal
<1>8. ASSUME ParseOptions \/ MainEnd \/ MainStart PROVE Goal
  <2>1. ASSUME MainStart PROVE Goal
    BY <1>6, <2>1 DEF MainStart, MainAt, GoCalling, mainVars
  <2>2. ASSUME ParseOptions \/ MainEnd PROVE Goal
    BY <1>1, <1>4, <2>2 DEF ParseOptions, MainEnd, MainAt, ExitMain, Go, mainVars
  <2> QED BY <1>8, <2>1, <2>2
<1>9. ASSUME OpenLogFile PROVE Goal
  BY <1>1, <1>4, <1>5, <1>7, <1>9 DEF OpenLogFile, MainAt, Go, Fatal, OwnTexts
<1>10. ASSUME UseStdout PROVE Goal
  BY <1>1, <1>4, <1>6, <1>10 DEF UseStdout, MainAt, Go, GoCalling, mainVars
<1>11. ASSUME TestOnly PROVE Goal
  BY <1>1, <1>4, <1>6, <1>11 DEF TestOnly, MainAt, Go, GoCalling, mainVars
<1>12. ASSUME TestResult \/ Starting \/ Fork PROVE Goal
  BY <1>5, <1>12 DEF TestResult, Starting, Fork, GoCalling, mainVars, OwnTexts
<1>13. ASSUME FindConfig PROVE Goal
  BY <1>1, <1>4, <1>5, <1>13 DEF FindConfig, Go, GoCalling, OwnTexts
<1>14. ASSUME ChangeDirectory \/ RecordPID \/ LoadConfig PROVE Goal
  BY <1>1, <1>4, <1>5, <1>14 DEF ChangeDirectory, RecordPID, LoadConfig, Go, GoCalling, Fatal, mainVars, OwnTexts
<1>15. ASSUME InitTerminationHandler \/ StartThreads PROVE Goal
  BY <1>5, <1>15 DEF InitTerminationHandler, StartThreads, MainAt, GoCalling, OwnTexts
<1>16. ASSUME Announce PROVE Goal
  BY <1>1, <1>4, <1>5, <1>16 DEF Announce, Go, GoCalling, mainVars, OwnTexts
<1>17. ASSUME SetUid \/ SetGid PROVE Goal
  BY <1>1, <1>4, <1>5, <1>17 DEF SetUid, SetGid, Go, Fatal, OwnTexts
<1>18. Goal
  BY <1>8, <1>9, <1>10, <1>11, <1>12, <1>13, <1>14, <1>15, <1>16, <1>17 DEF MainStep
<1> QED BY <1>1, <1>18 DEF Goal

-----------------------------------------------------------------------------
(* The log mutex                                                           *)

\* Moving every number of a finite set up by one keeps the size of the set.
LEMMA ShiftCardinality ==
  ASSUME NEW S \in SUBSET Nat, IsFiniteSet(S)
  PROVE  Cardinality({k + 1 : k \in S}) = Cardinality(S)
<1> DEFINE T == {k + 1 : k \in S}
           f == [k \in S |-> k + 1]
<1>1. f \in [S -> T] /\ \A a, b \in S : f[a] = f[b] => a = b
  OBVIOUS
<1>2. \A u \in T : \E k \in S : f[k] = u
  OBVIOUS
<1> HIDE DEF T, f
<1>3. f \in Injection(S, T) /\ f \in Surjection(S, T)
  BY <1>1, <1>2 DEF Injection, Surjection, IsInjective
<1>4. ExistsBijection(S, T)
  BY <1>3 DEF ExistsBijection, Bijection
<1>5. Cardinality(S) = Cardinality(T)
  BY <1>4, FS_Bijection
<1> QED BY <1>5 DEF T

\* The calls inside the mutex are finitely many, and none only if there is none.
LEMMA InsideFinite ==
  ASSUME stack \in Stacks, NEW t \in Threads
  PROVE  /\ IsFiniteSet(Inside(t)) /\ Cardinality(Inside(t)) \in Nat /\ Inside(t) \in SUBSET Nat
         /\ Cardinality(Inside(t)) = 0 <=> Inside(t) = {}
<1>1. Len(stack[t]) \in Nat
  BY DEF Stacks
<1>2. IsFiniteSet(1..Len(stack[t])) /\ Inside(t) \in SUBSET (1..Len(stack[t]))
  BY <1>1, FS_Interval DEF Inside
<1>3. IsFiniteSet(Inside(t))
  BY <1>2, FS_Subset
<1> QED BY <1>2, <1>3, FS_CardinalityType, FS_EmptySet

\* The same for the next state.
LEMMA InsideFiniteNext ==
  ASSUME stack' \in Stacks, NEW t \in Threads
  PROVE  IsFiniteSet(Inside(t)') /\ Inside(t)' \in SUBSET Nat /\ Cardinality(Inside(t)') \in Nat
<1>1. Len(stack'[t]) \in Nat
  BY DEF Stacks
<1>2. IsFiniteSet(1..Len(stack'[t])) /\ Inside(t)' \in SUBSET (1..Len(stack'[t]))
  BY <1>1, FS_Interval DEF Inside
<1>3. IsFiniteSet(Inside(t)')
  BY <1>2, FS_Subset
<1> QED BY <1>2, <1>3, FS_CardinalityType

\* A call that starts is not inside the mutex, and what it interrupts or was
\* made by stays where it is.
LEMMA InsidePushed ==
  ASSUME stack \in Stacks, stack' \in Stacks, NEW t \in Threads, NEW c, NEW d, Pushed(t, c, d),
         ~Holding(c), stack[t] # <<>> => (Holding(d) <=> Holding(stack[t][1]))
  PROVE  Cardinality(Inside(t)') = Cardinality(Inside(t))
<1>1. Len(stack[t]) \in Nat /\ Len(stack'[t]) = Len(stack[t]) + 1 /\ (stack[t] = <<>> <=> Len(stack[t]) = 0)
  BY DEF Stacks, Pushed
<1>2. /\ ~Holding(stack'[t][1])
      /\ \A k \in 2..Len(stack'[t]) : Holding(stack'[t][k]) <=> Holding(stack[t][k - 1])
  BY <1>1 DEF Pushed
<1>3. \A k \in 1..Len(stack[t]) : Holding(stack'[t][k + 1]) <=> Holding(stack[t][k])
  <2> SUFFICES ASSUME NEW k \in 1..Len(stack[t])
               PROVE  Holding(stack'[t][k + 1]) <=> Holding(stack[t][k])
    OBVIOUS
  <2>1. k + 1 \in 2..Len(stack'[t]) /\ (k + 1) - 1 = k
    BY <1>1
  <2> QED BY <1>2, <2>1
<1>4. Inside(t)' = {k + 1 : k \in Inside(t)}
  <2>1. ASSUME NEW j \in Inside(t)' PROVE j \in {k + 1 : k \in Inside(t)}
    <3>1. j \in 2..Len(stack'[t]) /\ Holding(stack'[t][j])
      BY <1>1, <1>2 DEF Inside
    <3>2. j - 1 \in Inside(t) /\ j = (j - 1) + 1
      BY <1>1, <1>2, <3>1 DEF Inside
    <3> QED BY <3>2
  <2>2. ASSUME NEW k \in Inside(t) PROVE k + 1 \in Inside(t)'
    BY <1>1, <1>3 DEF Inside
  <2> QED BY <2>1, <2>2
<1> QED BY <1>4, InsideFinite, ShiftCardinality

\* A call that returns takes itself out.
LEMMA InsidePopped ==
  ASSUME stack \in Stacks, stack' \in Stacks, NEW t \in Threads, Popped(t)
  PROVE  Cardinality(Inside(t)') = IF Holding(stack[t][1]) THEN Cardinality(Inside(t)) - 1
                                   ELSE Cardinality(Inside(t))
<1>1. Len(stack[t]) \in Nat /\ Len(stack[t]) >= 1 /\ Len(stack'[t]) = Len(stack[t]) - 1
  BY DEF Stacks, Popped
<1>2. \A k \in 1..Len(stack'[t]) : Holding(stack'[t][k]) <=> Holding(stack[t][k + 1])
  BY DEF Popped
<1>3. Inside(t) \ {1} = {k + 1 : k \in Inside(t)'}
  <2>1. ASSUME NEW j \in Inside(t) \ {1} PROVE j \in {k + 1 : k \in Inside(t)'}
    <3>1. j - 1 \in 1..Len(stack'[t]) /\ j = (j - 1) + 1 /\ Holding(stack[t][j])
      BY <1>1, <2>1 DEF Inside
    <3>2. j - 1 \in Inside(t)'
      BY <1>2, <3>1 DEF Inside
    <3> QED BY <3>1, <3>2
  <2>2. ASSUME NEW k \in Inside(t)' PROVE k + 1 \in Inside(t) \ {1}
    BY <1>1, <1>2 DEF Inside
  <2> QED BY <2>1, <2>2
<1>4. Cardinality(Inside(t) \ {1}) = Cardinality(Inside(t)')
  BY <1>3, InsideFiniteNext, ShiftCardinality
<1>5. 1 \in Inside(t) <=> Holding(stack[t][1])
  BY <1>1 DEF Inside
<1> QED BY <1>4, <1>5, InsideFinite, FS_RemoveElement

\* A call that goes on may enter or leave.
LEMMA InsideTurned ==
  ASSUME stack \in Stacks, stack' \in Stacks, NEW t \in Threads, NEW d, Turned(t, d)
  PROVE  Cardinality(Inside(t)') =
           CASE Holding(d) /\ ~Holding(stack[t][1]) -> Cardinality(Inside(t)) + 1
             [] ~Holding(d) /\ Holding(stack[t][1]) -> Cardinality(Inside(t)) - 1
             [] OTHER -> Cardinality(Inside(t))
<1>1. Len(stack[t]) \in Nat /\ Len(stack[t]) >= 1 /\ Len(stack'[t]) = Len(stack[t])
  BY DEF Stacks, Turned
<1>2. 1 \in Inside(t) <=> Holding(stack[t][1])
  BY <1>1 DEF Inside
<1>3. IsFiniteSet(Inside(t))
  BY InsideFinite
<1>4. CASE Holding(d)
  <2>1. Inside(t)' = Inside(t) \cup {1}
    BY <1>1, <1>4 DEF Inside, Turned
  <2>2. Cardinality(Inside(t) \cup {1}) = IF 1 \in Inside(t) THEN Cardinality(Inside(t)) ELSE Cardinality(Inside(t)) + 1
    BY <1>3, FS_AddElement
  <2>3. Cardinality(Inside(t)') = IF 1 \in Inside(t) THEN Cardinality(Inside(t)) ELSE Cardinality(Inside(t)) + 1
    BY <2>1, <2>2
  <2> QED BY <1>2, <1>4, <2>3
<1>5. CASE ~Holding(d)
  <2>1. Inside(t)' = Inside(t) \ {1}
    BY <1>1, <1>5 DEF Inside, Turned
  <2>2. Cardinality(Inside(t) \ {1}) = IF 1 \in Inside(t) THEN Cardinality(Inside(t)) - 1 ELSE Cardinality(Inside(t))
    BY <1>3, FS_RemoveElement
  <2>3. Cardinality(Inside(t)') = IF 1 \in Inside(t) THEN Cardinality(Inside(t)) - 1 ELSE Cardinality(Inside(t))
    BY <2>1, <2>2
  <2> QED BY <1>2, <1>5, <2>3
<1> QED BY <1>4, <1>5

\* A call inside the mutex belongs to its owner.
LEMMA HolderOwns ==
  ASSUME TypeOK, NEW t \in Threads, NEW k \in 1..Len(stack[t]), Holding(stack[t][k])
  PROVE  log_mtx.owner = t /\ log_mtx.depth \in Nat /\ log_mtx.depth >= 1
<1>1. stack \in Stacks /\ log_mtx.depth \in Nat
  BY DEF TypeOK, CallsOK, Stacks, LogOK
<1>2. Inside(t) # {}
  BY DEF Inside
<1>3. Cardinality(Inside(t)) \in Nat /\ Cardinality(Inside(t)) # 0
  BY <1>1, <1>2, InsideFinite
<1> QED BY <1>1, <1>3 DEF TypeOK, MutexHeld

\* A thread without a call inside finds the mutex free, or somebody else's, as
\* long as no setupLogFacility kept it.
LEMMA OwnerHolds ==
  ASSUME TypeOK, Alone, NEW t \in Threads, log_mtx.owner = t
  PROVE  Inside(t) # {}
<1>1. stack \in Stacks /\ log_mtx.depth \in Nat /\ log_mtx.depth # 0
  BY NoneAssumption DEF TypeOK, CallsOK, Stacks, LogOK
<1>2. Cardinality(Inside(t)) = log_mtx.depth
  BY DEF TypeOK, MutexHeld
<1> QED BY <1>1, <1>2, InsideFinite

MutexOK == log_mtx \in [owner : Threads \cup {None}, depth : Nat] /\ (log_mtx.owner = None <=> log_mtx.depth = 0)

\* The accounting of LOCK_LOG and UNLOCK_LOG.
LEMMA MutexStep ==
  ASSUME TypeOK, stack' \in Stacks, NEW t \in Threads, Others(t), Alone' => Alone,
         \/ UNCHANGED log_mtx /\ Cardinality(Inside(t)') = Cardinality(Inside(t))
         \/ CanLock(t) /\ Lock(t) /\ Cardinality(Inside(t)') = Cardinality(Inside(t)) + 1
         \/ CanLock(t) /\ Lock(t) /\ Cardinality(Inside(t)') = Cardinality(Inside(t)) /\ ~Alone
         \/ /\ Unlock /\ Holding(stack[t][1]) /\ stack[t] # <<>>
            /\ Cardinality(Inside(t)') = Cardinality(Inside(t)) - 1
  PROVE  MutexOK' /\ MutexHeld'
<1>1. /\ stack \in Stacks /\ MutexOK /\ t # None
      /\ log_mtx = [owner |-> log_mtx.owner, depth |-> log_mtx.depth]
      /\ log_mtx.depth \in Nat /\ log_mtx.owner \in Threads \cup {None}
  BY NoneAssumption DEF TypeOK, CallsOK, Stacks, LogOK, MutexOK
<1>2. \A u \in Threads \ {t} : Inside(u)' = Inside(u)
  BY DEF Others, Inside
<1>3. \A u \in Threads : Cardinality(Inside(u)) \in Nat
  BY <1>1, InsideFinite
<1>4. /\ MutexHeld
      /\ \A u \in Threads \ {t} : Cardinality(Inside(u)') = Cardinality(Inside(u))
  BY <1>2 DEF TypeOK
<1>5. CASE UNCHANGED log_mtx /\ Cardinality(Inside(t)') = Cardinality(Inside(t))
  BY <1>1, <1>3, <1>4, <1>5 DEF MutexOK, MutexHeld
<1>6. CASE /\ CanLock(t) /\ Lock(t)
           /\ \/ Cardinality(Inside(t)') = Cardinality(Inside(t)) + 1
              \/ Cardinality(Inside(t)') = Cardinality(Inside(t)) /\ ~Alone
  <2>1. log_mtx'.owner = t /\ log_mtx'.depth = log_mtx.depth + 1 /\ MutexOK'
    BY <1>1, <1>6 DEF Lock, MutexOK
  <2>2. \A u \in Threads \ {t} : Cardinality(Inside(u)) = 0
    BY <1>3, <1>4, <1>6, NoneAssumption DEF CanLock, MutexHeld
  <2>3. Cardinality(Inside(t)) <= log_mtx.depth /\ (Alone => Cardinality(Inside(t)) = log_mtx.depth)
    BY <1>1, <1>3, <1>4, <1>6 DEF CanLock, MutexHeld, MutexOK
  <2> QED BY <1>1, <1>3, <1>4, <1>6, <2>1, <2>2, <2>3 DEF MutexHeld
<1>7. CASE /\ Unlock /\ Holding(stack[t][1]) /\ stack[t] # <<>>
           /\ Cardinality(Inside(t)') = Cardinality(Inside(t)) - 1
  <2>1. log_mtx.owner = t /\ log_mtx.depth >= 1
    <3>1. 1 \in 1..Len(stack[t])
      BY <1>1, <1>7, Running1
    <3> QED BY <1>7, <3>1, HolderOwns
  <2>2. /\ MutexOK' /\ log_mtx'.depth = log_mtx.depth - 1
        /\ log_mtx'.owner = IF log_mtx.depth = 1 THEN None ELSE t
    BY <1>1, <1>7, <2>1 DEF Unlock, MutexOK
  <2>3. \A u \in Threads \ {t} : Cardinality(Inside(u)) = 0
    BY <1>3, <1>4, <2>1 DEF MutexHeld
  <2>4. Cardinality(Inside(t)) <= log_mtx.depth /\ (Alone => Cardinality(Inside(t)) = log_mtx.depth)
    BY <1>4, <2>1 DEF MutexHeld
  <2>5. Cardinality(Inside(t)) >= 1
    <3>1. 1 \in Inside(t)
      BY <1>1, <1>7, Running1 DEF Inside
    <3> QED BY <1>1, <1>3, <3>1, InsideFinite
  <2> QED BY <1>1, <1>3, <1>4, <1>7, <2>1, <2>2, <2>3, <2>4, <2>5 DEF MutexHeld
<1> QED BY <1>5, <1>6, <1>7

-----------------------------------------------------------------------------
(* Types                                                                   *)

\* Streams, minutes, signals and what handlers interrupted only grow, and
\* handlers and threads stay.
Grown ==
  /\ opened' \in Nat \ {0} /\ opened' >= opened /\ minute' \in 1..MaxMinute /\ minute' >= minute
  /\ tangled \subseteq tangled' /\ (Alone' => Alone) /\ signals' \in 0..MaxSignals /\ signals' >= signals
  /\ (handlers => handlers') /\ (started => started')

\* No step takes back a stream number, a minute, a signal or a handler.
LEMMA Grows ==
  ASSUME TypeOK, [Next]_vars
  PROVE  Grown
<1>0. /\ opened \in Nat \ {0} /\ minute \in 1..MaxMinute /\ MaxMinute \in Nat /\ signals \in 0..MaxSignals
      /\ MaxSignals \in Nat /\ tangled = tangled /\ LogOK /\ MainOK /\ CallsOK
  BY MaxMinuteAssumption, BoundsAssumption DEF TypeOK, LogOK, MainOK
<1>1. CASE MainStep
  <2>1. /\ UNCHANGED <<unchangedLog, boundVars>> /\ (opened' = opened \/ opened' = opened + 1)
        /\ (handlers' = handlers \/ handlers' = TRUE) /\ (started' = started \/ started' = TRUE)
    BY <1>0, <1>1, MainShapes, Zenon
  <2>2. UNCHANGED <<minute, signals, tangled>>
    BY <2>1 DEF unchangedLog, boundVars
  <2> QED BY <1>0, <2>1, <2>2 DEF Grown, Alone
<1>2. CASE UNCHANGED vars
  BY <1>0, <1>2 DEF Grown, vars, logVars, mainVars, boundVars, Alone
<1>3. CASE Gone
  BY <1>0, <1>3 DEF Grown, Gone, mainVars, boundVars, Alone
<1>4. ASSUME NEW t \in Threads, LogSomething(t) PROVE Grown
  BY <1>0, <1>4 DEF Grown, LogSomething, Tick, mainVars, Alone
<1>5. ASSUME NEW fn \in {"hup", "term"}, Signal(fn) PROVE Grown
  <2>1. tangled \subseteq tangled'
    BY <1>5 DEF Signal
  <2> QED BY <1>0, <1>5, <2>1 DEF Grown, Signal, Tick, mainVars, Alone
<1>6. ASSUME NEW t \in Threads, Logging(t) PROVE Grown
  <2>1. UNCHANGED <<minute, opened>>
    BY <1>6 DEF Logging, LoggerStep, LogSuppress, LogBegin, LogReported, LogWrite, SetupRefused, SetupClose, SetupAssign
  <2> QED BY <1>0, <1>6, <2>1 DEF Grown, Logging, mainVars, boundVars, Alone
<1>7. ASSUME NEW t \in Threads, HandlerCalls(t) \/ Reopen(t) \/ CheckLfp(t) \/ UseLfp(t) \/ Exit(t) PROVE Grown
  <2>1. /\ UNCHANGED <<minute, handlers, started, signals, tangled>>
        /\ opened' = opened \/ opened' = opened + 1
    BY <1>7 DEF HandlerCalls, Reopen, CheckLfp, UseLfp, Exit, mainVars, boundVars
  <2> QED BY <1>0, <2>1 DEF Grown, Alone
<1> QED BY <1>1, <1>2, <1>3, <1>4, <1>5, <1>6, <1>7 DEF Next, ThreadStep

\* Every call there is after a step of t was there before, or is in S.
Comes(t, S) ==
  \A u \in Threads : \A k \in 1..Len(stack'[u]) :
    \/ u = t /\ stack'[u][k] \in S
    \/ \E l \in 1..Len(stack[u]) : stack'[u][k] = stack[u][l]

\* Every call but the running one of t is there after the step.
Stays(t) ==
  \A u \in Threads : \A k \in 1..Len(stack[u]) :
    \/ u = t /\ k = 1
    \/ \E l \in 1..Len(stack'[u]) : stack'[u][l] = stack[u][k]

\* Even the running one.
AllStay ==
  \A u \in Threads : \A k \in 1..Len(stack[u]) : \E l \in 1..Len(stack'[u]) : stack'[u][l] = stack[u][k]

\* A call is made.
LEMMA PushedCalls ==
  ASSUME stack \in Stacks, stack' \in Stacks, NEW t \in Threads, NEW c, NEW d, Pushed(t, c, d)
  PROVE  Comes(t, {c, d}) /\ Stays(t)
<1>1. /\ Len(stack[t]) \in Nat /\ Len(stack'[t]) = Len(stack[t]) + 1
      /\ \A u \in Threads \ {t} : stack'[u] = stack[u]
      /\ stack'[t][1] = c
      /\ \A k \in 2..Len(stack'[t]) : stack'[t][k] = IF k = 2 THEN d ELSE stack[t][k - 1]
  BY DEF Stacks, Pushed, Others
<1>2. ASSUME NEW k \in 1..Len(stack'[t])
      PROVE  stack'[t][k] \in {c, d} \/ \E l \in 1..Len(stack[t]) : stack'[t][k] = stack[t][l]
  <2>1. CASE k \in {1, 2}
    BY <1>1, <2>1
  <2>2. CASE k \notin {1, 2}
    <3>1. k \in 2..Len(stack'[t]) /\ k # 2 /\ k - 1 \in 1..Len(stack[t])
      BY <1>1, <2>2
    <3> QED BY <1>1, <3>1
  <2> QED BY <2>1, <2>2
<1>3. ASSUME NEW k \in 1..Len(stack[t]), k # 1
      PROVE  \E l \in 1..Len(stack'[t]) : stack'[t][l] = stack[t][k]
  <2>1. k + 1 \in 2..Len(stack'[t]) /\ k + 1 \in 1..Len(stack'[t]) /\ k + 1 # 2 /\ (k + 1) - 1 = k
    BY <1>1, <1>3
  <2> QED BY <1>1, <2>1
<1>4. Comes(t, {c, d})
  BY <1>1, <1>2 DEF Comes
<1> QED BY <1>1, <1>3, <1>4 DEF Stays

\* A handler or a call comes on top of whatever there is.
LEMMA PushedOver ==
  ASSUME stack \in Stacks, stack' \in Stacks, NEW t \in Threads, NEW c, Pushed(t, c, stack[t][1])
  PROVE  Comes(t, {c}) /\ AllStay /\ Stays(t)
<1>1. /\ Len(stack[t]) \in Nat /\ Len(stack'[t]) = Len(stack[t]) + 1
      /\ \A u \in Threads \ {t} : stack'[u] = stack[u]
      /\ stack'[t][1] = c
      /\ \A k \in 2..Len(stack'[t]) : stack'[t][k] = stack[t][k - 1]
  <2>1. /\ Len(stack[t]) \in Nat /\ Len(stack'[t]) = Len(stack[t]) + 1
        /\ \A u \in Threads \ {t} : stack'[u] = stack[u]
        /\ stack'[t][1] = c
        /\ \A k \in 2..Len(stack'[t]) : stack'[t][k] = IF k = 2 THEN stack[t][1] ELSE stack[t][k - 1]
    BY DEF Stacks, Pushed, Others
  <2>2. \A k \in 2..Len(stack'[t]) : stack'[t][k] = stack[t][k - 1]
    BY <2>1
  <2> QED BY <2>1, <2>2
<1>2. ASSUME NEW k \in 1..Len(stack'[t])
      PROVE  stack'[t][k] \in {c} \/ \E l \in 1..Len(stack[t]) : stack'[t][k] = stack[t][l]
  <2>1. CASE k = 1
    BY <1>1, <2>1
  <2>2. CASE k # 1
    <3>1. k \in 2..Len(stack'[t]) /\ k - 1 \in 1..Len(stack[t])
      BY <1>1, <2>2
    <3> QED BY <1>1, <3>1
  <2> QED BY <2>1, <2>2
<1>3. ASSUME NEW k \in 1..Len(stack[t])
      PROVE  \E l \in 1..Len(stack'[t]) : stack'[t][l] = stack[t][k]
  <2>1. k + 1 \in 2..Len(stack'[t]) /\ k + 1 \in 1..Len(stack'[t]) /\ (k + 1) - 1 = k
    BY <1>1, <1>3
  <2> QED BY <1>1, <2>1
<1>4. Comes(t, {c})
  <2> SUFFICES ASSUME NEW u \in Threads, NEW k \in 1..Len(stack'[u])
               PROVE  \/ u = t /\ stack'[u][k] \in {c}
                      \/ \E l \in 1..Len(stack[u]) : stack'[u][k] = stack[u][l]
    BY DEF Comes
  <2>1. CASE u = t
    BY <1>2, <2>1
  <2>2. CASE u # t
    BY <1>1, <2>2
  <2> QED BY <2>1, <2>2
<1>5. AllStay
  BY <1>1, <1>3 DEF AllStay
<1> QED BY <1>4, <1>5 DEF Stays, AllStay

\* A call returns.
LEMMA PoppedCalls ==
  ASSUME stack \in Stacks, stack' \in Stacks, NEW t \in Threads, Popped(t)
  PROVE  Comes(t, {}) /\ Stays(t)
<1>1. /\ Len(stack[t]) \in Nat /\ Len(stack'[t]) = Len(stack[t]) - 1 /\ Len(stack[t]) >= 1
      /\ \A u \in Threads \ {t} : stack'[u] = stack[u]
      /\ \A k \in 1..Len(stack'[t]) : stack'[t][k] = stack[t][k + 1]
  BY DEF Stacks, Popped, Others
<1>2. ASSUME NEW k \in 1..Len(stack'[t])
      PROVE  \E l \in 1..Len(stack[t]) : stack'[t][k] = stack[t][l]
  <2>1. k + 1 \in 1..Len(stack[t])
    BY <1>1
  <2> QED BY <1>1, <2>1
<1>3. ASSUME NEW k \in 1..Len(stack[t]), k # 1
      PROVE  \E l \in 1..Len(stack'[t]) : stack'[t][l] = stack[t][k]
  <2>1. k - 1 \in 1..Len(stack'[t]) /\ (k - 1) + 1 = k
    BY <1>1, <1>3
  <2> QED BY <1>1, <2>1
<1>4. Comes(t, {})
  BY <1>1, <1>2 DEF Comes
<1> QED BY <1>1, <1>3, <1>4 DEF Stays

\* A call goes on.
LEMMA TurnedCalls ==
  ASSUME stack \in Stacks, stack' \in Stacks, NEW t \in Threads, NEW d, Turned(t, d)
  PROVE  Comes(t, {d}) /\ Stays(t)
<1>1. /\ Len(stack[t]) \in Nat /\ Len(stack'[t]) = Len(stack[t]) /\ Len(stack[t]) >= 1
      /\ \A u \in Threads \ {t} : stack'[u] = stack[u]
      /\ stack'[t][1] = d
      /\ \A k \in 2..Len(stack[t]) : stack'[t][k] = stack[t][k]
  BY DEF Stacks, Turned, Others
<1>2. ASSUME NEW k \in 1..Len(stack[t])
      PROVE  k = 1 \/ stack'[t][k] = stack[t][k]
  BY <1>1
<1> QED BY <1>1, <1>2 DEF Comes, Stays

\* A step keeps the calls well formed if the new ones are.
LEMMA CallsStep ==
  ASSUME TypeOK, Grown, stack' \in Stacks, NEW t \in Threads, NEW S, Comes(t, S), \A c \in S : FrameOK(c)'
  PROVE  CallsOK'
<1>1. /\ opened \in Nat /\ opened' \in Nat /\ opened' >= opened
      /\ minute \in Nat /\ minute' \in Nat /\ minute' >= minute /\ CallsOK /\ stack \in Stacks
  BY MaxMinuteAssumption DEF TypeOK, LogOK, Grown, CallsOK, Stacks
<1>2. ASSUME NEW c \in Frames, FrameOK(c) PROVE FrameOK(c)'
  <2>1. c.fd \in Nat /\ c.at \in Nat
    BY DEF Frames
  <2> QED BY <1>1, <1>2, <2>1 DEF FrameOK, NULL, Std
<1>3. \A u \in Threads : \A l \in 1..Len(stack[u]) : stack[u][l] \in Frames /\ FrameOK(stack[u][l])
  BY <1>1 DEF CallsOK, Stacks
<1>4. ASSUME NEW u \in Threads, NEW k \in 1..Len(stack'[u]) PROVE FrameOK(stack[u][k])'
  <2>1. PICK c : c = stack'[u][k]
    OBVIOUS
  <2>2. c \in S \/ \E l \in 1..Len(stack[u]) : c = stack[u][l]
    BY <1>4, <2>1 DEF Comes
  <2>3. FrameOK(c)'
    BY <1>2, <1>3, <2>2
  <2> QED BY <2>1, <2>3 DEF FrameOK
<1> QED BY <1>4 DEF CallsOK, Stacks

\* New calls are well formed.
LEMMA NewCallOK ==
  ASSUME TypeOK, Grown, NEW c \in Frames
  PROVE  /\ LogCall(c) /\ c.at = minute => FrameOK(c)'
         /\ c.fn \in {"hup", "term"} /\ c.pc = "begin" /\ c.fd = NULL /\ c.at = opened => FrameOK(c)'
         /\ /\ c.fn = "setup" /\ c.pc = "lock" /\ c.arg \in {"stdout", "file", "system", "close"}
            /\ c.fd <= opened' /\ c.fd # Std
            => FrameOK(c)'
  BY DEF LogCall, FrameOK, TypeOK, LogOK, Grown, NULL, Std

\* A handler goes on below a call it made.
LEMMA MakesCalls ==
  ASSUME TypeOK, Grown, stack' \in Stacks, NEW t \in Threads, NEW c \in Frames, NEW fn \in {"hup", "term"},
         NEW at, NEW p, At(t, fn, at), Makes(t, c, p), FrameOK(c)',
         IF fn = "hup" THEN p \in {"error", "reopened", "return"} ELSE p \in {"goodbye", "close", "exit"}
  PROVE  CallsOK'
<1>1. PICK d \in Frames :
        /\ Pushed(t, c, d)
        /\ d.fn = fn /\ d.pc = p /\ d.fd = stack[t][1].fd /\ d.at = stack[t][1].at
  BY DEF Makes, At
<1>2. FrameOK(stack[t][1]) /\ stack[t][1] \in Frames /\ stack[t][1].fn = fn /\ stack \in Stacks
  BY DEF TypeOK, CallsOK, Stacks, At
<1>3. FrameOK(d)'
  <2>1. d.fd \in Nat /\ d.at \in Nat /\ opened \in Nat /\ opened' \in Nat /\ opened' >= opened
    BY DEF Frames, TypeOK, LogOK, Grown
  <2> QED BY <1>1, <1>2, <2>1 DEF FrameOK, Std, NULL
<1>4. Comes(t, {c, d})
  BY <1>1, <1>2, PushedCalls
<1>5. \A e \in {c, d} : FrameOK(e)'
  BY <1>3
<1> QED BY <1>4, <1>5, CallsStep

\* The running call goes on.
LEMMA MovesCalls ==
  ASSUME TypeOK, Grown, stack' \in Stacks, NEW t \in Threads, NEW fn, NEW at, NEW p, NEW f \in Nat, NEW a \in Nat,
         At(t, fn, at), Moves(t, p, f, a), f <= opened',
         \/ fn = "log" /\ p \in {"reporting", "writing", "exit"}
         \/ fn = "setup" /\ p = "assign" /\ f = stack[t][1].fd /\ ~(stack[t][1].arg = "file" /\ f = NULL)
         \/ fn = "hup" /\ p \in {"check", "use"} /\ f # Std /\ a = stack[t][1].at
         \/ fn = "term" /\ p = "exited"
  PROVE  CallsOK'
<1>1. PICK d \in Frames :
        /\ Turned(t, d)
        /\ d.fn = fn /\ d.arg = stack[t][1].arg /\ d.pc = p /\ d.fd = f /\ d.at = a
  BY DEF Moves, At
<1>2. FrameOK(stack[t][1]) /\ stack[t][1] \in Frames /\ stack[t][1].fn = fn /\ stack \in Stacks
  BY DEF TypeOK, CallsOK, Stacks, At
<1>3. FrameOK(d)'
  <2>1. d.fd \in Nat /\ d.at \in Nat /\ opened \in Nat /\ opened' \in Nat /\ opened' >= opened
    BY DEF Frames, TypeOK, LogOK, Grown
  <2> QED BY <1>1, <1>2, <2>1 DEF FrameOK, Std, NULL
<1>4. Comes(t, {d})
  BY <1>1, <1>2, TurnedCalls
<1>5. \A e \in {d} : FrameOK(e)'
  BY <1>3
<1> QED BY <1>4, <1>5, CallsStep

\* The calls stay well formed.
LEMMA CallsKept ==
  ASSUME TypeOK, [Next]_vars
  PROVE  stack' \in Stacks /\ CallsOK'
<1>0. LogOK /\ MainOK /\ CallsOK /\ Grown /\ stack \in Stacks /\ Main \in Threads
  BY Grows, MainAssumption DEF TypeOK, CallsOK, Stacks
<1> DEFINE Goal == stack' \in Stacks /\ CallsOK'
<1>1. ASSUME UNCHANGED stack PROVE Goal
  <2>1. Comes(Main, {}) /\ stack' \in Stacks
    BY <1>0, <1>1 DEF Comes
  <2> QED BY <1>0, <2>1, CallsStep
<1>2. ASSUME NEW t \in Threads, stack' \in Stacks, Popped(t) PROVE Goal
  <2>1. Comes(t, {})
    BY <1>0, <1>2, PoppedCalls
  <2> QED BY <1>0, <1>2, <2>1, CallsStep
<1>3. ASSUME NEW t \in Threads, stack' \in Stacks, NEW c \in Frames, Pushed(t, c, stack[t][1]), FrameOK(c)' PROVE Goal
  <2>1. Comes(t, {c}) /\ \A e \in {c} : FrameOK(e)'
    BY <1>0, <1>3, PushedOver
  <2> QED BY <1>0, <1>3, <2>1, CallsStep
<1>4. ASSUME NEW t \in Threads, stack' \in Stacks, StartsLog(t) PROVE Goal
  BY <1>0, <1>3, <1>4, NewCallOK DEF StartsLog
<1>5. ASSUME stack' \in Stacks, NEW fac \in {"stdout", "file", "system"}, NEW f \in Nat, f <= opened', f # Std,
             StartsSetup(fac, f)
      PROVE  Goal
  BY <1>0, <1>3, <1>5, NewCallOK DEF StartsSetup
<1>6. ASSUME NEW t \in Threads, stack' \in Stacks, NEW fn \in {"hup", "term"}, NEW at, NEW p, At(t, fn, at),
             IF fn = "hup" THEN p \in {"error", "reopened", "return"} ELSE p \in {"goodbye", "close", "exit"},
             LogsThen(t, p)
      PROVE  Goal
  <2>1. PICK c \in Frames : LogCall(c) /\ c.at = minute /\ Makes(t, c, p)
    BY <1>6 DEF LogsThen
  <2>2. FrameOK(c)'
    BY <1>0, <2>1, NewCallOK
  <2> QED BY <1>0, <1>6, <2>1, <2>2, MakesCalls
<1>7. ASSUME NEW t \in Threads, stack' \in Stacks, NEW fn \in {"hup", "term"}, NEW at, NEW p, At(t, fn, at),
             IF fn = "hup" THEN p \in {"error", "reopened", "return"} ELSE p \in {"goodbye", "close", "exit"},
             NEW fac \in {"file", "system", "close"}, NEW f \in Nat, f <= opened', f # Std,
             SetsThen(t, fac, f, p)
      PROVE  Goal
  <2>1. PICK c \in Frames : c.fn = "setup" /\ c.pc = "lock" /\ c.arg = fac /\ c.fd = f /\ Makes(t, c, p)
    BY <1>7 DEF SetsThen
  <2>2. FrameOK(c)'
    BY <1>0, <1>7, <2>1, NewCallOK
  <2> QED BY <1>0, <1>7, <2>1, <2>2, MakesCalls
<1>8. /\ NULL \in Nat /\ NULL <= opened' /\ NULL # Std /\ opened' \in Nat /\ opened + 1 \in Nat
      /\ opened \in Nat \ {0} /\ opened + 1 # Std /\ opened' >= opened
  BY <1>0 DEF LogOK, Grown, NULL, Std
<1>9. ASSUME NEW t \in Threads, stack[t] # <<>>
      PROVE  /\ stack[t][1].fd \in Nat /\ stack[t][1].at \in Nat /\ stack[t][1].fd <= opened
             /\ stack[t][1].fn = "hup" => stack[t][1].fd # Std
  <2>1. stack[t][1] \in Frames /\ 1 \in 1..Len(stack[t])
    BY <1>0, <1>9, Running1
  <2>2. FrameOK(stack[t][1])
    BY <1>0, <1>9, <2>1 DEF CallsOK
  <2> QED BY <1>0, <1>8, <2>1, <2>2 DEF Frames, FrameOK
<1>10. ASSUME MainStep PROVE Goal
  <2>1. /\ stack' \in Stacks
        /\ \/ UNCHANGED stack
           \/ StartsLog(Main)
           \/ \E fac \in {"system", "stdout"} : StartsSetup(fac, NULL)
           \/ opened' = opened + 1 /\ StartsSetup("file", opened + 1)
    BY <1>0, <1>10, MainShapes, Zenon
  <2>2. CASE UNCHANGED stack
    BY <1>1, <2>2
  <2>3. CASE StartsLog(Main)
    BY <1>0, <1>4, <2>1, <2>3
  <2>4. ASSUME NEW fac \in {"system", "stdout"}, StartsSetup(fac, NULL) PROVE Goal
    BY <1>5, <1>8, <2>1, <2>4
  <2>5. CASE opened' = opened + 1 /\ StartsSetup("file", opened + 1)
    BY <1>5, <1>8, <2>1, <2>5
  <2> QED BY <2>1, <2>2, <2>3, <2>4, <2>5
<1>11. ASSUME NEW t \in Threads, LogSomething(t) PROVE Goal
  BY <1>0, <1>4, <1>11, SomethingShape
<1>12. ASSUME NEW fn \in {"hup", "term"}, Signal(fn) PROVE Goal
  <2>1. CASE UNCHANGED stack
    BY <1>1, <2>1
  <2>2. ASSUME NEW t \in Threads, NEW c \in Frames, c.fn = fn, c.pc = "begin", c.fd = NULL, c.at = opened,
               Pushed(t, c, stack[t][1]), stack' \in Stacks
        PROVE  Goal
    BY <1>0, <1>3, <1>12, <2>2, NewCallOK
  <2> QED BY <1>0, <1>12, <2>1, <2>2, SignalShape
<1>13. ASSUME NEW t \in Threads, LogSuppress(t) \/ LogBegin(t) \/ LogReported(t) \/ LogWrite(t) PROVE Goal
  <2>0. get_log_file_descriptor \in Nat /\ get_log_file_descriptor <= opened'
    BY <1>0, <1>8, Descriptor
  <2>1. ASSUME NEW at, NEW p \in {"reporting", "writing", "exit"}, NEW f \in Nat, f <= opened', NEW a \in Nat,
               At(t, "log", at), Moves(t, p, f, a), stack' \in Stacks
        PROVE  Goal
    BY <1>0, <2>1, MovesCalls
  <2>3. CASE LogBegin(t)
    BY <1>0, <2>0, <2>1, <2>3, LogShapes
  <2>4. CASE LogReported(t)
    BY <1>0, <2>0, <2>1, <2>4, LogShapes
  <2>5. CASE LogSuppress(t) \/ LogWrite(t)
    <3>1. PICK at \in {"lock", "writing"} :
            /\ At(t, "log", at) /\ stack' \in Stacks
            /\ Moves(t, "exit", stack[t][1].fd, stack[t][1].at) \/ Popped(t)
      BY <1>0, <2>5, LogShapes DEF Done
    <3>2. stack[t][1].fd \in Nat /\ stack[t][1].at \in Nat /\ stack[t][1].fd <= opened'
      BY <1>8, <1>9, <3>1 DEF At
    <3> QED BY <1>2, <2>1, <3>1, <3>2
  <2> QED BY <1>13, <2>3, <2>4, <2>5
<1>14. ASSUME NEW t \in Threads, SetupRefused(t) \/ SetupClose(t) \/ SetupAssign(t) PROVE Goal
  <2>1. CASE SetupRefused(t) \/ SetupAssign(t)
    BY <1>0, <1>2, <2>1, SetupShapes
  <2>2. CASE SetupClose(t)
    <3>1. /\ At(t, "setup", "lock") /\ stack' \in Stacks
          /\ ~(stack[t][1].arg = "file" /\ stack[t][1].fd = NULL)
          /\ UNCHANGED stack \/ Moves(t, "assign", stack[t][1].fd, stack[t][1].at)
      BY <1>0, <2>2, SetupShapes
    <3>2. stack[t][1].fd \in Nat /\ stack[t][1].at \in Nat /\ stack[t][1].fd <= opened'
      BY <1>8, <1>9, <3>1 DEF At
    <3> QED BY <1>0, <1>1, <3>1, <3>2, MovesCalls
  <2> QED BY <1>14, <2>1, <2>2
<1>15. ASSUME NEW t \in Threads, HandlerCalls(t) PROVE Goal
  <2>1. CASE HupCalls(t)
    BY <1>0, <1>6, <1>15, <2>1, HandlerShapes DEF HupCalls
  <2>2. CASE TermCalls(t)
    BY <1>0, <1>6, <1>15, <2>2, HandlerShapes DEF TermCalls
  <2>3. CASE At(t, "hup", "return") /\ Popped(t)
    BY <1>0, <1>2, <1>15, <2>3, HandlerShapes
  <2>4. CASE At(t, "term", "close") /\ SetsThen(t, "close", NULL, "exit")
    <3>1. stack' \in Stacks
      BY <1>0, <1>15, HandlerShapes
    <3> QED BY <1>7, <1>8, <2>4, <3>1
  <2> QED BY <1>0, <1>15, <2>1, <2>2, <2>3, <2>4, HandlerShapes
<1>16. ASSUME NEW t \in Threads, Reopen(t) PROVE Goal
  <2>1. /\ At(t, "hup", "begin") /\ stack' \in Stacks
        /\ \/ Popped(t)
           \/ /\ Moves(t, "check", lfp', stack[t][1].at)
              /\ \/ opened' = opened + 1 /\ lfp' = opened + 1
                 \/ opened' = opened /\ lfp' = NULL
    BY <1>0, <1>16, LfpShapes
  <2>2. stack[t][1].at \in Nat
    BY <1>9, <2>1 DEF At
  <2>3. ASSUME NEW f \in Nat, f <= opened', f # Std, Moves(t, "check", f, stack[t][1].at) PROVE Goal
    BY <1>0, <2>1, <2>2, <2>3, MovesCalls
  <2> QED BY <1>2, <1>8, <2>1, <2>3
<1>17. ASSUME NEW t \in Threads, CheckLfp(t) PROVE Goal
  <2>1. /\ At(t, "hup", "check") /\ stack' \in Stacks
        /\ SetsThen(t, "system", NULL, "error") \/ Moves(t, "use", stack[t][1].fd, stack[t][1].at)
    BY <1>0, <1>17, LfpShapes
  <2>2. stack[t][1].at \in Nat /\ stack[t][1].fd \in Nat /\ stack[t][1].fd <= opened' /\ stack[t][1].fd # Std
    BY <1>8, <1>9, <2>1 DEF At
  <2>3. CASE SetsThen(t, "system", NULL, "error")
    BY <1>7, <1>8, <2>1, <2>3
  <2>4. CASE Moves(t, "use", stack[t][1].fd, stack[t][1].at)
    BY <1>0, <2>1, <2>2, <2>4, MovesCalls
  <2> QED BY <2>1, <2>3, <2>4
<1>18. ASSUME NEW t \in Threads, UseLfp(t) PROVE Goal
  <2>1. /\ At(t, "hup", "use") /\ stack' \in Stacks
        /\ \E fp \in {lfp, stack[t][1].fd} : SetsThen(t, "file", fp, "reopened")
    BY <1>0, <1>18, LfpShapes
  <2>2. PICK fp \in {lfp, stack[t][1].fd} : SetsThen(t, "file", fp, "reopened")
    BY <2>1
  <2>3. fp \in Nat /\ fp <= opened' /\ fp # Std
    BY <1>0, <1>8, <1>9, <2>1, <2>2 DEF At, MainOK, Std, NULL
  <2> QED BY <1>7, <2>1, <2>2, <2>3
<1>19. ASSUME NEW t \in Threads, Exit(t) PROVE Goal
  <2>1. At(t, "term", "exit") /\ stack' \in Stacks /\ Moves(t, "exited", stack[t][1].fd, stack[t][1].at)
    BY <1>0, <1>19, LfpShapes
  <2>2. stack[t][1].at \in Nat /\ stack[t][1].fd \in Nat /\ stack[t][1].fd <= opened'
    BY <1>8, <1>9, <2>1 DEF At
  <2> QED BY <1>0, <2>1, <2>2, MovesCalls
<1>20. ASSUME UNCHANGED vars \/ Gone PROVE Goal
  BY <1>1, <1>20 DEF vars, logVars, Gone
<1> HIDE DEF Goal
<1>21. Goal
  BY <1>10, <1>11, <1>12, <1>13, <1>14, <1>15, <1>16, <1>17, <1>18, <1>19, <1>20
     DEF Next, ThreadStep, Logging, LoggerStep
<1> QED BY <1>21 DEF Goal

\* A handler that makes a call, or goes on, neither enters nor leaves the mutex.
LEMMA HandlerOutside ==
  ASSUME stack \in Stacks, stack' \in Stacks, NEW t \in Threads, NEW fn \in {"hup", "term"}, NEW at, At(t, fn, at)
  PROVE  /\ ~Holding(stack[t][1])
         /\ \A p : LogsThen(t, p) => Others(t) /\ Cardinality(Inside(t)') = Cardinality(Inside(t))
         /\ \A fac, f, p : SetsThen(t, fac, f, p) => Others(t) /\ Cardinality(Inside(t)') = Cardinality(Inside(t))
         /\ \A p, f, a : Moves(t, p, f, a) => Others(t) /\ Cardinality(Inside(t)') = Cardinality(Inside(t))
<1>1. ~Holding(stack[t][1])
  BY DEF At, Holding
<1>2. ASSUME NEW p, NEW c, ~Holding(c), Makes(t, c, p)
      PROVE  Others(t) /\ Cardinality(Inside(t)') = Cardinality(Inside(t))
  <2>1. PICK d \in Frames : Pushed(t, c, d) /\ d.fn = stack[t][1].fn
    BY <1>2 DEF Makes
  <2>2. ~Holding(d)
    BY <2>1 DEF At, Holding
  <2>3. Cardinality(Inside(t)') = Cardinality(Inside(t))
    BY <1>1, <1>2, <2>1, <2>2, InsidePushed
  <2> QED BY <2>1, <2>3 DEF Pushed
<1>3. ASSUME NEW p, LogsThen(t, p) PROVE Others(t) /\ Cardinality(Inside(t)') = Cardinality(Inside(t))
  <2>1. PICK c \in Frames : LogCall(c) /\ Makes(t, c, p)
    BY <1>3 DEF LogsThen
  <2>2. ~Holding(c)
    BY <2>1 DEF LogCall, Holding
  <2> QED BY <1>2, <2>1, <2>2
<1>4. ASSUME NEW fac, NEW f, NEW p, SetsThen(t, fac, f, p)
      PROVE  Others(t) /\ Cardinality(Inside(t)') = Cardinality(Inside(t))
  <2>1. PICK c \in Frames : c.fn = "setup" /\ c.pc = "lock" /\ Makes(t, c, p)
    BY <1>4 DEF SetsThen
  <2>2. ~Holding(c)
    BY <2>1 DEF Holding
  <2> QED BY <1>2, <2>1, <2>2
<1>5. ASSUME NEW p, NEW f, NEW a, Moves(t, p, f, a)
      PROVE  Others(t) /\ Cardinality(Inside(t)') = Cardinality(Inside(t))
  <2>1. PICK d \in Frames : Turned(t, d) /\ d.fn = stack[t][1].fn
    BY <1>5 DEF Moves
  <2>2. ~Holding(d)
    BY <2>1 DEF At, Holding
  <2>3. Cardinality(Inside(t)') = Cardinality(Inside(t))
    BY <1>1, <2>1, <2>2, InsideTurned
  <2> QED BY <2>1, <2>3 DEF Turned
<1> QED BY <1>1, <1>3, <1>4, <1>5

\* The log mutex is held to the number of calls inside it.
LEMMA MutexKept ==
  ASSUME TypeOK, NewStreams, [Next]_vars
  PROVE  MutexOK' /\ MutexHeld'
<1>0. /\ LogOK /\ MainOK /\ CallsOK /\ stack \in Stacks /\ Main \in Threads /\ (Alone' => Alone)
      /\ MutexOK /\ MutexHeld /\ stack' \in Stacks
  BY Grows, MainAssumption, CallsKept DEF TypeOK, CallsOK, Stacks, Grown, LogOK, MutexOK
<1> DEFINE Goal == MutexOK' /\ MutexHeld'
<1>1. ASSUME UNCHANGED <<stack, log_mtx>> PROVE Goal
  BY <1>0, <1>1 DEF MutexOK, MutexHeld, Inside
<1>2. ASSUME NEW t \in Threads, Others(t), UNCHANGED log_mtx, Cardinality(Inside(t)') = Cardinality(Inside(t))
      PROVE  Goal
  BY <1>0, <1>2, MutexStep
<1>3. ASSUME NEW t \in Threads, Popped(t), ~Holding(stack[t][1]), UNCHANGED log_mtx PROVE Goal
  BY <1>0, <1>2, <1>3, InsidePopped DEF Popped
<1>4. ASSUME NEW t \in Threads, NEW c, Pushed(t, c, stack[t][1]), ~Holding(c), UNCHANGED log_mtx PROVE Goal
  <2>1. Cardinality(Inside(t)') = Cardinality(Inside(t))
    BY <1>0, <1>4, InsidePushed
  <2> QED BY <1>2, <1>4, <2>1 DEF Pushed
<1>5. ASSUME NEW t \in Threads, StartsLog(t), UNCHANGED log_mtx PROVE Goal
  BY <1>4, <1>5 DEF StartsLog, LogCall, Holding
<1>6. ASSUME NEW fac, NEW f, StartsSetup(fac, f), UNCHANGED log_mtx PROVE Goal
  BY <1>0, <1>4, <1>6 DEF StartsSetup, Holding
<1>7. ASSUME MainStep PROVE Goal
  <2>1. /\ UNCHANGED log_mtx
        /\ UNCHANGED stack \/ StartsLog(Main) \/ \E fac, f : StartsSetup(fac, f)
    <3>1. UNCHANGED unchangedLog
      BY <1>0, <1>7, MainShapes
    <3>2. UNCHANGED stack \/ StartsLog(Main) \/ \E fac, f : StartsSetup(fac, f)
      BY <1>0, <1>7, MainShapes, Zenon
    <3> QED BY <3>1, <3>2 DEF unchangedLog
  <2> QED BY <1>0, <1>1, <1>5, <1>6, <2>1
<1>8. ASSUME NEW t \in Threads, LogSomething(t) PROVE Goal
  BY <1>0, <1>5, <1>8, SomethingShape DEF LogSomething
<1>9. ASSUME NEW fn \in {"hup", "term"}, Signal(fn) PROVE Goal
  <2>0. UNCHANGED log_mtx
    BY <1>9 DEF Signal
  <2>1. CASE UNCHANGED stack
    BY <1>1, <2>0, <2>1
  <2>2. ASSUME NEW t \in Threads, NEW c \in Frames, c.fn = fn, Pushed(t, c, stack[t][1]) PROVE Goal
    BY <1>4, <1>9, <2>0, <2>2 DEF Holding
  <2> QED BY <1>0, <1>9, <2>1, <2>2, SignalShape
<1>10. ASSUME NEW t \in Threads, LogSuppress(t) PROVE Goal
  <2>1. /\ At(t, "log", "lock") /\ UNCHANGED log_mtx
        /\ Moves(t, "exit", stack[t][1].fd, stack[t][1].at) \/ Popped(t)
    BY <1>0, <1>10, LogShapes DEF LogSuppress, Done
  <2>2. CASE Popped(t)
    BY <1>3, <2>1, <2>2 DEF At, Holding
  <2>3. CASE Moves(t, "exit", stack[t][1].fd, stack[t][1].at)
    <3>1. PICK d \in Frames : Turned(t, d) /\ d.fn = stack[t][1].fn /\ d.pc = "exit"
      BY <2>3 DEF Moves
    <3>2. ~Holding(d) /\ ~Holding(stack[t][1])
      BY <2>1, <3>1 DEF At, Holding
    <3>3. Cardinality(Inside(t)') = Cardinality(Inside(t))
      BY <1>0, <3>1, <3>2, InsideTurned
    <3> QED BY <1>2, <2>1, <3>1, <3>3 DEF Turned
  <2> QED BY <2>1, <2>2, <2>3
<1>11. ASSUME NEW t \in Threads, LogBegin(t) PROVE Goal
  <2>1. At(t, "log", "lock") /\ CanLock(t) /\ Lock(t)
    BY <1>0, <1>11, LogShapes DEF LogBegin
  <2>2. PICK p \in {"reporting", "writing"} : Moves(t, p, get_log_file_descriptor, 0)
    BY <1>0, <1>11, LogShapes
  <2>3. PICK d \in Frames : Turned(t, d) /\ d.fn = stack[t][1].fn /\ d.pc = p
    BY <2>2 DEF Moves
  <2>4. Holding(d) /\ ~Holding(stack[t][1])
    BY <2>1, <2>2, <2>3 DEF At, Holding
  <2>5. Cardinality(Inside(t)') = Cardinality(Inside(t)) + 1
    BY <1>0, <2>3, <2>4, InsideTurned
  <2>6. Others(t)
    BY <2>3 DEF Turned
  <2> QED BY <1>0, <2>1, <2>5, <2>6, MutexStep
<1>12. ASSUME NEW t \in Threads, LogReported(t) PROVE Goal
  <2>1. At(t, "log", "reporting") /\ UNCHANGED log_mtx /\ Moves(t, "writing", get_log_file_descriptor, 0)
    BY <1>0, <1>12, LogShapes DEF LogReported
  <2>3. PICK d \in Frames : Turned(t, d) /\ d.fn = stack[t][1].fn /\ d.pc = "writing"
    BY <2>1 DEF Moves
  <2>4. Holding(d) /\ Holding(stack[t][1])
    BY <2>1, <2>3 DEF At, Holding
  <2>5. Cardinality(Inside(t)') = Cardinality(Inside(t))
    BY <1>0, <2>3, <2>4, InsideTurned
  <2> QED BY <1>2, <2>1, <2>3, <2>5 DEF Turned
<1>13. ASSUME NEW t \in Threads, LogWrite(t) PROVE Goal
  <2>1. /\ At(t, "log", "writing") /\ Unlock
        /\ Moves(t, "exit", stack[t][1].fd, stack[t][1].at) \/ Popped(t)
    BY <1>0, <1>13, LogShapes DEF LogWrite, Done
  <2>2. Holding(stack[t][1]) /\ stack[t] # <<>>
    BY <2>1 DEF At, Holding
  <2>3. Others(t) /\ Cardinality(Inside(t)') = Cardinality(Inside(t)) - 1
    <3>1. CASE Popped(t)
      BY <1>0, <2>2, <3>1, InsidePopped DEF Popped
    <3>2. CASE Moves(t, "exit", stack[t][1].fd, stack[t][1].at)
      <4>1. PICK d \in Frames : Turned(t, d) /\ d.fn = stack[t][1].fn /\ d.pc = "exit"
        BY <3>2 DEF Moves
      <4>2. ~Holding(d)
        BY <2>1, <4>1 DEF At, Holding
      <4>3. Cardinality(Inside(t)') = Cardinality(Inside(t)) - 1
        BY <1>0, <2>2, <4>1, <4>2, InsideTurned
      <4> QED BY <4>1, <4>3 DEF Turned
    <3> QED BY <2>1, <3>1, <3>2
  <2> QED BY <1>0, <2>1, <2>2, <2>3, MutexStep
<1>14. ASSUME NEW t \in Threads, SetupRefused(t) PROVE Goal
  <2>1. /\ At(t, "setup", "lock") /\ Popped(t) /\ stack[t][1].arg = "file" /\ stack[t][1].fd = NULL
        /\ CanLock(t) /\ Lock(t)
    BY <1>0, <1>14, SetupShapes DEF SetupRefused
  <2>2. ~Alone
    <3>1. 1 \in 1..Len(stack[t])
      BY <1>0, <2>1, Running1 DEF At
    <3> QED BY <2>1, <3>1 DEF NewStreams, NewStream, At
  <2>3. Others(t) /\ Cardinality(Inside(t)') = Cardinality(Inside(t))
    BY <1>0, <2>1, InsidePopped DEF Popped, At, Holding
  <2> QED BY <1>0, <2>1, <2>2, <2>3, MutexStep
<1>15. ASSUME NEW t \in Threads, SetupClose(t) PROVE Goal
  <2>1. CASE log_facility = "file" /\ log_file_descriptor = NULL
    BY <1>1, <1>15, <2>1 DEF SetupClose
  <2>2. CASE ~(log_facility = "file" /\ log_file_descriptor = NULL)
    <3>1. /\ At(t, "setup", "lock") /\ CanLock(t) /\ Lock(t)
          /\ Moves(t, "assign", stack[t][1].fd, stack[t][1].at)
      BY <1>0, <1>15, <2>2, SetupShapes DEF SetupClose
    <3>2. PICK d \in Frames : Turned(t, d) /\ d.fn = stack[t][1].fn /\ d.pc = "assign"
      BY <3>1 DEF Moves
    <3>3. Holding(d) /\ ~Holding(stack[t][1])
      BY <3>1, <3>2 DEF At, Holding
    <3>4. Cardinality(Inside(t)') = Cardinality(Inside(t)) + 1
      BY <1>0, <3>2, <3>3, InsideTurned
    <3>5. Others(t)
      BY <3>2 DEF Turned
    <3> QED BY <1>0, <3>1, <3>4, <3>5, MutexStep
  <2> QED BY <2>1, <2>2
<1>16. ASSUME NEW t \in Threads, SetupAssign(t) PROVE Goal
  <2>1. At(t, "setup", "assign") /\ Popped(t) /\ Unlock
    BY <1>0, <1>16, SetupShapes DEF SetupAssign
  <2>2. Holding(stack[t][1]) /\ stack[t] # <<>>
    BY <2>1 DEF At, Holding
  <2>3. Others(t) /\ Cardinality(Inside(t)') = Cardinality(Inside(t)) - 1
    BY <1>0, <2>1, <2>2, InsidePopped DEF Popped
  <2> QED BY <1>0, <2>1, <2>2, <2>3, MutexStep
<1>17. ASSUME NEW t \in Threads, HandlerCalls(t) \/ Reopen(t) \/ CheckLfp(t) \/ UseLfp(t) \/ Exit(t) PROVE Goal
  <2>1. UNCHANGED log_mtx
    BY <1>17 DEF HandlerCalls, Reopen, CheckLfp, UseLfp, Exit
  <2>2. ASSUME NEW fn \in {"hup", "term"}, NEW at, At(t, fn, at),
               \/ Popped(t)
               \/ \E p : LogsThen(t, p)
               \/ \E fac, f, p : SetsThen(t, fac, f, p)
               \/ \E p, f, a : Moves(t, p, f, a)
        PROVE  Goal
    BY <1>0, <1>2, <1>3, <2>1, <2>2, HandlerOutside
  <2>3. CASE HandlerCalls(t)
    BY <1>0, <2>2, <2>3, HandlerShapes DEF HupCalls, TermCalls
  <2>4. CASE Reopen(t)
    BY <1>0, <2>2, <2>4, LfpShapes
  <2>5. CASE CheckLfp(t)
    BY <1>0, <2>2, <2>5, LfpShapes
  <2>6. CASE UseLfp(t)
    BY <1>0, <2>2, <2>6, LfpShapes
  <2>7. CASE Exit(t)
    BY <1>0, <2>2, <2>7, LfpShapes
  <2> QED BY <1>17, <2>3, <2>4, <2>5, <2>6, <2>7
<1>18. ASSUME UNCHANGED vars \/ Gone PROVE Goal
  BY <1>1, <1>18 DEF vars, logVars, Gone
<1> HIDE DEF Goal
<1>19. Goal
  BY <1>7, <1>8, <1>9, <1>10, <1>11, <1>12, <1>13, <1>14, <1>15, <1>16, <1>17, <1>18
     DEF Next, ThreadStep, Logging, LoggerStep
<1> QED BY <1>19 DEF Goal

\* The variables of LNLog keep their types.
LEMMA LogTypes ==
  ASSUME TypeOK, NewStreams, [Next]_vars
  PROVE  LogOK'
<1>0. LogOK /\ MainOK /\ CallsOK /\ stack \in Stacks /\ Grown
  BY Grows DEF TypeOK, CallsOK, Stacks
<1> DEFINE Rest ==
      /\ status' \in {"up", "exiting", "gone", "crashed"} /\ log_facility' \in {"stdout", "file", "system"}
      /\ log_to_stdout' \in BOOLEAN
      /\ log_file_descriptor' \in {NULL} \cup 2..opened' /\ closed' \subseteq 2..opened'
      /\ prev_log_count' \in Nat /\ prev_log_time' \in 0..minute' /\ held' \in Seq(Texts) /\ misuse' \in BOOLEAN
<1>1. /\ status \in {"up", "exiting", "gone", "crashed"} /\ log_facility \in {"stdout", "file", "system"}
      /\ log_to_stdout \in BOOLEAN
      /\ log_file_descriptor \in {NULL} \cup 2..opened' /\ closed \subseteq 2..opened'
      /\ prev_log_count \in Nat /\ prev_log_time \in 0..minute' /\ held \in Seq(Texts) /\ misuse \in BOOLEAN
  <2>1. \A n \in Nat : n <= opened => n <= opened'
    BY <1>0 DEF LogOK, Grown
  <2>2. \A n \in Nat : n <= minute => n <= minute'
    BY <1>0, MaxMinuteAssumption DEF LogOK, Grown
  <2> QED BY <1>0, <2>1, <2>2, MaxMinuteAssumption DEF LogOK, Grown
<1>2. ASSUME UNCHANGED <<prevVars, fileVars, misuse>>, status' \in {"up", "exiting", "gone", "crashed"} PROVE Rest
  BY <1>1, <1>2 DEF prevVars, fileVars
<1>3. ASSUME MainStep PROVE Rest
  <2>1. UNCHANGED unchangedLog /\ status = "up"
    BY <1>0, <1>3, MainShapes
  <2>2. status' = status \/ status' \in {"up", "exiting"}
    BY <1>0, <1>3, MainShapes, Zenon
  <2> QED BY <1>2, <2>1, <2>2 DEF unchangedLog, prevVars, fileVars
<1>4. ASSUME NEW t \in Threads, LogSomething(t) PROVE Rest
  BY <1>1, <1>2, <1>4 DEF LogSomething
<1>5. ASSUME NEW fn \in {"hup", "term"}, Signal(fn) PROVE Rest
  <2>1. status' = status \/ status' = "gone"
    BY <1>5 DEF Signal
  <2> QED BY <1>1, <1>2, <1>5, <2>1 DEF Signal
<1>6. ASSUME NEW t \in Threads, stack[t] # <<>>
      PROVE  /\ stack[t][1] \in Frames /\ FrameOK(stack[t][1]) /\ Head(stack[t]) = stack[t][1]
             /\ stack[t][1].msg \in Texts /\ stack[t][1].fd \in Nat /\ stack[t][1].at \in Nat
  <2>1. stack[t][1] \in Frames /\ 1 \in 1..Len(stack[t]) /\ Head(stack[t]) = stack[t][1]
    BY <1>0, <1>6, Running1
  <2>2. FrameOK(stack[t][1])
    BY <1>0, <2>1 DEF CallsOK
  <2> QED BY <2>1, <2>2 DEF Frames
<1>7. ASSUME NEW t \in Threads, LogSuppress(t) PROVE Rest
  <2>1. stack[t] # <<>>
    BY <1>7 DEF LogSuppress, Running
  <2>2. held' = Append(held, stack[t][1].msg) /\ prev_log_count' = prev_log_count + 1
    BY <1>6, <1>7, <2>1 DEF LogSuppress
  <2>3. held' \in Seq(Texts)
    BY <1>1, <1>6, <2>1, <2>2
  <2>4. status' = status \/ status' = "exiting"
    BY <1>7 DEF LogSuppress, LogReturn
  <2> QED BY <1>1, <1>7, <2>2, <2>3, <2>4 DEF LogSuppress, fileVars
<1>8. ASSUME NEW t \in Threads, LogBegin(t) PROVE Rest
  <2>1. stack[t] # <<>> /\ Head(stack[t]).fn = "log" /\ Head(stack[t]).pc = "lock"
    BY <1>8 DEF LogBegin, Running
  <2>2. prev_log_time' = stack[t][1].at /\ (prev_log_count' = prev_log_count \/ prev_log_count' = prev_log_count + 1)
    BY <1>6, <1>8, <2>1 DEF LogBegin
  <2>3. stack[t][1].at <= minute /\ stack[t][1].at \in Nat
    BY <1>6, <2>1 DEF FrameOK
  <2>4. prev_log_time' \in 0..minute' /\ prev_log_count' \in Nat
    <3>1. minute \in Nat /\ minute' \in Nat /\ minute <= minute' /\ prev_log_count \in Nat
      BY <1>0, <1>1, MaxMinuteAssumption DEF LogOK, Grown
    <3> QED BY <2>2, <2>3, <3>1
  <2> QED BY <1>1, <1>8, <2>4 DEF LogBegin, fileVars
<1>9. ASSUME NEW t \in Threads, LogReported(t) PROVE Rest
  <2>1. held' \in Seq(Texts) /\ misuse' \in BOOLEAN
    BY <1>9 DEF LogReported
  <2> QED BY <1>1, <1>9, <2>1 DEF LogReported, fileVars, CountAfterReport
<1>10. ASSUME NEW t \in Threads, LogWrite(t) PROVE Rest
  <2>1. misuse' \in BOOLEAN /\ (status' = status \/ status' = "exiting")
    BY <1>10 DEF LogWrite, LogReturn
  <2> QED BY <1>1, <1>10, <2>1 DEF LogWrite, fileVars
<1>11. ASSUME NEW t \in Threads, SetupRefused(t) PROVE Rest
  BY <1>1, <1>2, <1>11 DEF SetupRefused
<1>12. ASSUME NEW t \in Threads, SetupClose(t) PROVE Rest
  <2>1. CASE log_facility = "file" /\ log_file_descriptor = NULL
    BY <1>1, <1>2, <1>12, <2>1 DEF SetupClose
  <2>2. CASE ~(log_facility = "file" /\ log_file_descriptor = NULL)
    <3>1. misuse' \in BOOLEAN /\ log_to_stdout' \in BOOLEAN /\ closed' \subseteq 2..opened'
      BY <1>1, <1>12, <2>2 DEF SetupClose
    <3>2. UNCHANGED <<status, log_facility, log_file_descriptor, minute, opened, prevVars>>
      BY <1>12, <2>2 DEF SetupClose
    <3> QED BY <1>1, <3>1, <3>2 DEF prevVars
  <2> QED BY <2>1, <2>2
<1>13. ASSUME NEW t \in Threads, SetupAssign(t) PROVE Rest
  <2>1. stack[t] # <<>> /\ stack[t][1].fn = "setup" /\ stack[t][1].pc = "assign"
    BY <1>6, <1>13 DEF SetupAssign, Running
  <2>2. /\ stack[t][1].arg \in {"stdout", "file", "system", "close"}
        /\ stack[t][1].fd \in {NULL} \cup 2..opened'
    <3>1. /\ stack[t][1].arg \in {"stdout", "file", "system", "close"} /\ stack[t][1].fd <= opened
          /\ stack[t][1].fd # Std /\ stack[t][1].fd \in Nat
      BY <1>6, <2>1 DEF FrameOK
    <3>2. opened \in Nat /\ opened' \in Nat /\ opened <= opened'
      BY <1>0 DEF Grown, LogOK
    <3> QED BY <3>1, <3>2 DEF NULL, Std
  <2>3. /\ log_file_descriptor' = DescriptorAfter(stack[t][1])
        /\ log_to_stdout' \in BOOLEAN
        /\ log_facility' = IF stack[t][1].arg = "close" THEN log_facility ELSE stack[t][1].arg
    BY <1>6, <1>13, <2>1 DEF SetupAssign
  <2>4. log_file_descriptor' \in {NULL} \cup 2..opened' /\ log_facility' \in {"stdout", "file", "system"}
    BY <1>1, <2>2, <2>3 DEF DescriptorAfter
  <2> QED BY <1>1, <1>13, <2>3, <2>4 DEF SetupAssign, prevVars
<1>14. ASSUME NEW t \in Threads, HandlerCalls(t) \/ Reopen(t) \/ CheckLfp(t) \/ UseLfp(t) \/ Exit(t) PROVE Rest
  <2>1. UNCHANGED <<prevVars, fileVars, misuse>> /\ (status' = status \/ status' = "exiting")
    BY <1>14 DEF HandlerCalls, Reopen, CheckLfp, UseLfp, Exit
  <2> QED BY <1>1, <1>2, <2>1
<1>15. ASSUME UNCHANGED vars PROVE Rest
  BY <1>1, <1>2, <1>15 DEF vars, logVars
<1>16. ASSUME Gone PROVE Rest
  BY <1>1, <1>2, <1>16 DEF Gone
<1> HIDE DEF Rest
<1>17. Rest
  BY <1>3, <1>4, <1>5, <1>7, <1>8, <1>9, <1>10, <1>11, <1>12, <1>13, <1>14, <1>15, <1>16
     DEF Next, ThreadStep, Logging, LoggerStep
<1>18. MutexOK'
  BY MutexKept
<1> QED BY <1>0, <1>17, <1>18 DEF Rest, LogOK, MutexOK, Grown

\* The threads leave main() and its ids alone.
LEMMA ThreadsLeaveMain ==
  ASSUME [Next]_vars
  PROVE  \/ MainStep
         \/ UNCHANGED <<pc, opts, g_uid, g_gid, uid, gid, pidfile, handlers, started>>
<1>1. ASSUME NEW t \in Threads, ThreadStep(t) \/ LogSomething(t)
      PROVE  UNCHANGED <<pc, opts, g_uid, g_gid, uid, gid, pidfile, handlers, started>>
  BY <1>1 DEF ThreadStep, Logging, LogSomething, HandlerCalls, Reopen, CheckLfp, UseLfp, Exit, mainVars
<1>2. ASSUME NEW fn \in {"hup", "term"}, Signal(fn)
      PROVE  UNCHANGED <<pc, opts, g_uid, g_gid, uid, gid, pidfile, handlers, started>>
  BY <1>2 DEF Signal, mainVars
<1>3. ASSUME UNCHANGED vars \/ Gone
      PROVE  UNCHANGED <<pc, opts, g_uid, g_gid, uid, gid, pidfile, handlers, started>>
  BY <1>3 DEF Gone, vars, mainVars
<1> QED BY <1>1, <1>2, <1>3 DEF Next

\* The variables of main() keep their types.
LEMMA MainTypes ==
  ASSUME TypeOK, [Next]_vars
  PROVE  MainOK'
<1>0. /\ LogOK /\ MainOK /\ CallsOK /\ Grown /\ opts \in CommandLines
      /\ opts.uid \in Nat /\ opts.gid \in Nat /\ opts.confuid \in Nat /\ opts.confgid \in Nat
      /\ opened \in Nat \ {0} /\ opened' \in Nat /\ opened' >= opened
  BY Grows, CommandLinesAssumption DEF TypeOK, MainOK, LogOK, Grown
<1>1. lfp' \in {NULL} \cup 2..opened'
  <2>1. lfp' = lfp \/ lfp' = NULL \/ (opened' = opened + 1 /\ lfp' = opened + 1)
    <3>1. ASSUME MainStep PROVE lfp' = lfp \/ lfp' = NULL \/ (opened' = opened + 1 /\ lfp' = opened + 1)
      BY <1>0, <3>1, MainShapes, Zenon
    <3>2. ASSUME NEW t \in Threads, Reopen(t)
          PROVE  lfp' = lfp \/ lfp' = NULL \/ (opened' = opened + 1 /\ lfp' = opened + 1)
      BY <1>0, <3>2, LfpShapes
    <3>3. ASSUME NEW t \in Threads, Logging(t) \/ HandlerCalls(t) \/ CheckLfp(t) \/ UseLfp(t) \/ Exit(t) \/ LogSomething(t)
          PROVE  lfp' = lfp
      BY <3>3 DEF Logging, HandlerCalls, CheckLfp, UseLfp, Exit, LogSomething, mainVars
    <3>4. ASSUME NEW fn \in {"hup", "term"}, Signal(fn) PROVE lfp' = lfp
      BY <3>4 DEF Signal, mainVars
    <3>5. ASSUME UNCHANGED vars \/ Gone PROVE lfp' = lfp
      BY <3>5 DEF Gone, vars, mainVars
    <3> QED BY <3>1, <3>2, <3>3, <3>4, <3>5 DEF Next, ThreadStep
  <2>2. \A n \in Nat : n <= opened => n <= opened'
    BY <1>0
  <2> QED BY <1>0, <2>1, <2>2 DEF MainOK, NULL
<1>2. calls' \in 0..MaxCalls
  <2>1. UNCHANGED calls \/ \E t \in Threads : LogSomething(t)
    <3>1. ASSUME MainStep PROVE UNCHANGED calls
      BY <1>0, <3>1, MainShapes DEF boundVars
    <3>2. ASSUME NEW t \in Threads, ThreadStep(t) PROVE UNCHANGED calls
      BY <3>2 DEF ThreadStep, Logging, HandlerCalls, Reopen, CheckLfp, UseLfp, Exit, boundVars
    <3>3. ASSUME NEW fn \in {"hup", "term"}, Signal(fn) PROVE UNCHANGED calls
      BY <3>3 DEF Signal
    <3>4. ASSUME UNCHANGED vars \/ Gone PROVE UNCHANGED calls
      BY <3>4 DEF Gone, vars, boundVars
    <3> QED BY <3>1, <3>2, <3>3, <3>4 DEF Next
  <2> QED BY <1>0, <2>1, BoundsAssumption DEF MainOK, LogSomething
<1>3. tangled' \subseteq {"nested", "syslog", "overlap"}
  <2>1. UNCHANGED tangled \/ \E fn \in {"hup", "term"}, t \in Threads : tangled' = tangled \cup Tangles(t, fn)
    <3>1. ASSUME MainStep PROVE UNCHANGED tangled
      BY <1>0, <3>1, MainShapes DEF boundVars
    <3>2. ASSUME NEW t \in Threads, ThreadStep(t) \/ LogSomething(t) PROVE UNCHANGED tangled
      BY <3>2 DEF ThreadStep, Logging, HandlerCalls, Reopen, CheckLfp, UseLfp, Exit, boundVars, LogSomething
    <3>3. ASSUME NEW fn \in {"hup", "term"}, Signal(fn)
          PROVE  UNCHANGED tangled \/ \E t \in Threads : tangled' = tangled \cup Tangles(t, fn)
      BY <3>3 DEF Signal
    <3>4. ASSUME UNCHANGED vars \/ Gone PROVE UNCHANGED tangled
      BY <3>4 DEF Gone, vars, boundVars
    <3> QED BY <3>1, <3>2, <3>3, <3>4 DEF Next
  <2>2. \A fn \in {"hup", "term"}, t \in Threads : Tangles(t, fn) \subseteq {"nested", "syslog", "overlap"}
    BY DEF Tangles
  <2> QED BY <1>0, <2>1, <2>2 DEF MainOK
<1> DEFINE Rest ==
      /\ pc' \in Places /\ opts' \in CommandLines
      /\ uid' \in Nat /\ gid' \in Nat /\ g_uid' \in Nat /\ g_gid' \in Nat
      /\ pidfile' \in BOOLEAN /\ handlers' \in BOOLEAN /\ started' \in BOOLEAN
<1>4. ASSUME UNCHANGED <<pc, opts, g_uid, g_gid, uid, gid, pidfile, handlers, started>> PROVE Rest
  BY <1>0, <1>4 DEF MainOK
<1>5. ASSUME pc' \in Places, UNCHANGED <<opts, g_uid, g_gid, uid, gid, pidfile, handlers, started>> PROVE Rest
  BY <1>0, <1>5 DEF MainOK
<1>6. ASSUME MainStart \/ ParseOptions \/ UseStdout \/ TestOnly \/ TestResult \/ MainEnd PROVE Rest
  BY <1>5, <1>6 DEF MainStart, ParseOptions, UseStdout, TestOnly, TestResult, MainEnd, Go, GoCalling, ExitMain,
                    mainVars, Places
<1>7. ASSUME OpenLogFile \/ ChangeDirectory \/ Starting \/ Fork \/ Announce PROVE Rest
  BY <1>5, <1>7 DEF OpenLogFile, ChangeDirectory, Starting, Fork, Announce, Go, GoCalling, Fatal, mainVars, Places
<1>8. ASSUME FindConfig PROVE Rest
  <2>1. pc' \in Places
    BY <1>8 DEF FindConfig, Go, GoCalling, Places
  <2> QED BY <1>0, <1>8, <2>1 DEF FindConfig, MainOK
<1>9. ASSUME RecordPID \/ InitTerminationHandler \/ StartThreads PROVE Rest
  <2>1. pc' \in Places
    BY <1>9 DEF RecordPID, InitTerminationHandler, StartThreads, Go, GoCalling, Fatal, Places
  <2> QED BY <1>0, <1>9, <2>1 DEF RecordPID, InitTerminationHandler, StartThreads, MainOK
<1>10. ASSUME LoadConfig \/ SetUid \/ SetGid PROVE Rest
  <2>1. pc' \in Places
    BY <1>10 DEF LoadConfig, SetUid, SetGid, Go, Fatal, Places
  <2> QED BY <1>0, <1>10, <2>1 DEF LoadConfig, getUID, getGID, SetUid, SetGid, MainOK
<1> HIDE DEF Rest
<1>11. Rest
  BY <1>4, <1>6, <1>7, <1>8, <1>9, <1>10, ThreadsLeaveMain DEF MainStep
<1> QED BY <1>0, <1>1, <1>2, <1>3, <1>11 DEF Rest, MainOK, Grown

\* Types and the accounting of the mutex.
LEMMA TypesKept ==
  ASSUME TypeOK, NewStreams, [Next]_vars
  PROVE  TypeOK'
  BY CallsKept, MutexKept, LogTypes, MainTypes DEF TypeOK

-----------------------------------------------------------------------------
(* Every step, as the stacks see it                                        *)

Pops(t) == Popped(t) /\ stack[t][1].fn # "term"

GoesOn(t) ==
  \E d \in Frames :
    /\ Turned(t, d)
    /\ d.fn = stack[t][1].fn /\ d.arg = stack[t][1].arg /\ d.msg = stack[t][1].msg
    /\ d.fn = "setup" => d.fd = stack[t][1].fd /\ stack[t][1].pc = "lock" /\ d.pc = "assign"
    /\ d.fn = "hup" => d.pc \in {"check", "use"} /\ d.at = stack[t][1].at
    /\ d.fn = "term" => d.pc = "exited"

\* A handler makes the call c; d is what the handler is then.
NestsLog(t, c, d) ==
  /\ LogCall(c)
  /\ \/ d.fn = "hup" /\ stack[t][1].pc = "error" /\ d.pc = "reopened"
     \/ d.fn = "hup" /\ stack[t][1].pc = "reopened" /\ d.pc = "return"
     \/ d.fn = "term" /\ stack[t][1].pc = "begin" /\ d.pc = "goodbye"
     \/ d.fn = "term" /\ stack[t][1].pc = "goodbye" /\ d.pc = "close"

NestsSetup(t, c, d) ==
  /\ c.fn = "setup" /\ c.pc = "lock"
  /\ \/ d.fn = "term" /\ stack[t][1].pc = "close" /\ d.pc = "exit" /\ c.arg = "close"
     \/ d.fn = "hup" /\ stack[t][1].pc = "check" /\ d.pc = "error" /\ c.arg = "system"
     \/ /\ d.fn = "hup" /\ stack[t][1].pc = "use" /\ d.pc = "reopened" /\ c.arg = "file"
        /\ c.fd \in {lfp, stack[t][1].fd}

Nests(t, c, d) ==
  /\ stack[t] # <<>> /\ Pushed(t, c, d)
  /\ d.fn = stack[t][1].fn /\ d.fd = stack[t][1].fd /\ d.at = stack[t][1].at
  /\ NestsLog(t, c, d) \/ NestsSetup(t, c, d)

\* A signal finds t, and c is its handler.
Interrupts(t, c) ==
  /\ handlers /\ (t # Main => started) /\ signals' = signals + 1
  /\ c.fn \in {"hup", "term"} /\ c.pc = "begin" /\ c.fd = NULL /\ c.at = opened
  /\ Pushed(t, c, stack[t][1])
  /\ tangled' = tangled \cup Tangles(t, c.fn)

\* What a call to the logger does as the stacks see it.
LEMMA LoggerCases ==
  ASSUME TypeOK, NEW t \in Threads, LoggerStep(t)
  PROVE  UNCHANGED stack \/ Pops(t) \/ GoesOn(t)
<1>0. LogOK /\ CallsOK
  BY DEF TypeOK
<1>1. ASSUME NEW at, NEW p, NEW f, NEW a, At(t, "log", at), Moves(t, p, f, a) PROVE GoesOn(t)
  BY <1>1 DEF At, Moves, GoesOn
<1>2. ASSUME NEW fn, NEW at, fn # "term", At(t, fn, at), Popped(t) PROVE Pops(t)
  BY <1>2 DEF At, Pops
<1>3. CASE LogSuppress(t)
  BY <1>0, <1>1, <1>2, <1>3, LogShapes DEF Done
<1>4. CASE LogBegin(t)
  BY <1>0, <1>1, <1>4, LogShapes
<1>5. CASE LogReported(t)
  BY <1>0, <1>1, <1>5, LogShapes
<1>6. CASE LogWrite(t)
  BY <1>0, <1>1, <1>2, <1>6, LogShapes DEF Done
<1>7. CASE SetupRefused(t)
  BY <1>0, <1>2, <1>7, SetupShapes
<1>8. CASE SetupClose(t)
  <2>1. At(t, "setup", "lock") /\ (UNCHANGED stack \/ Moves(t, "assign", stack[t][1].fd, stack[t][1].at))
    BY <1>0, <1>8, SetupShapes
  <2>2. ASSUME Moves(t, "assign", stack[t][1].fd, stack[t][1].at) PROVE GoesOn(t)
    BY <2>1, <2>2 DEF At, Moves, GoesOn
  <2> QED BY <2>1, <2>2
<1>9. CASE SetupAssign(t)
  BY <1>0, <1>2, <1>9, SetupShapes
<1> QED BY <1>3, <1>4, <1>5, <1>6, <1>7, <1>8, <1>9 DEF LoggerStep

\* What a step of a handler does as the stacks see it.
LEMMA HandlerCases ==
  ASSUME TypeOK, NEW t \in Threads, HandlerCalls(t) \/ Reopen(t) \/ CheckLfp(t) \/ UseLfp(t) \/ Exit(t)
  PROVE  Pops(t) \/ GoesOn(t) \/ \E c, d \in Frames : Nests(t, c, d)
<1>0. LogOK /\ CallsOK /\ MainOK
  BY DEF TypeOK
<1>1. ASSUME NEW at, At(t, "hup", at), Popped(t) PROVE Pops(t)
  BY <1>1 DEF At, Pops
<1>2. ASSUME NEW at, NEW p \in {"check", "use"}, NEW f, At(t, "hup", at), Moves(t, p, f, stack[t][1].at) PROVE GoesOn(t)
  BY <1>2 DEF At, Moves, GoesOn
<1>3. ASSUME NEW c \in Frames, NEW fn, NEW at, NEW p, At(t, fn, at), Makes(t, c, p),
             \A d \in Frames : d.fn = fn /\ d.pc = p => NestsLog(t, c, d) \/ NestsSetup(t, c, d)
      PROVE  \E e, d \in Frames : Nests(t, e, d)
  <2>1. PICK d \in Frames :
          Pushed(t, c, d) /\ d.fn = fn /\ d.pc = p /\ d.fd = stack[t][1].fd /\ d.at = stack[t][1].at
    BY <1>3 DEF Makes, At
  <2>2. Nests(t, c, d)
    BY <1>3, <2>1 DEF Nests, At
  <2> QED BY <2>2
<1>4. ASSUME NEW fn, NEW at, NEW p, At(t, fn, at), LogsThen(t, p),
             \A c, d \in Frames : LogCall(c) /\ d.fn = fn /\ d.pc = p => NestsLog(t, c, d)
      PROVE  \E c, d \in Frames : Nests(t, c, d)
  BY <1>3, <1>4 DEF LogsThen
<1>5. ASSUME NEW fn, NEW at, NEW p, NEW fac, NEW f, At(t, fn, at), SetsThen(t, fac, f, p),
             \A c, d \in Frames :
               c.fn = "setup" /\ c.pc = "lock" /\ c.arg = fac /\ c.fd = f /\ d.fn = fn /\ d.pc = p => NestsSetup(t, c, d)
      PROVE  \E c, d \in Frames : Nests(t, c, d)
  BY <1>3, <1>5 DEF SetsThen
<1>6. CASE HandlerCalls(t)
  <2>1. CASE At(t, "hup", "error") /\ LogsThen(t, "reopened")
    <3>1. \A c, d \in Frames : LogCall(c) /\ d.fn = "hup" /\ d.pc = "reopened" => NestsLog(t, c, d)
      BY <2>1 DEF NestsLog, At
    <3> QED BY <1>4, <2>1, <3>1
  <2>2. CASE At(t, "hup", "reopened") /\ LogsThen(t, "return")
    <3>1. \A c, d \in Frames : LogCall(c) /\ d.fn = "hup" /\ d.pc = "return" => NestsLog(t, c, d)
      BY <2>2 DEF NestsLog, At
    <3> QED BY <1>4, <2>2, <3>1
  <2>3. CASE At(t, "term", "begin") /\ LogsThen(t, "goodbye")
    <3>1. \A c, d \in Frames : LogCall(c) /\ d.fn = "term" /\ d.pc = "goodbye" => NestsLog(t, c, d)
      BY <2>3 DEF NestsLog, At
    <3> QED BY <1>4, <2>3, <3>1
  <2>4. CASE At(t, "term", "goodbye") /\ LogsThen(t, "close")
    <3>1. \A c, d \in Frames : LogCall(c) /\ d.fn = "term" /\ d.pc = "close" => NestsLog(t, c, d)
      BY <2>4 DEF NestsLog, At
    <3> QED BY <1>4, <2>4, <3>1
  <2>5. CASE At(t, "hup", "return") /\ Popped(t)
    BY <1>1, <2>5
  <2>6. CASE At(t, "term", "close") /\ SetsThen(t, "close", NULL, "exit")
    <3>1. \A c, d \in Frames :
            c.fn = "setup" /\ c.pc = "lock" /\ c.arg = "close" /\ c.fd = NULL /\ d.fn = "term" /\ d.pc = "exit"
              => NestsSetup(t, c, d)
      BY <2>6 DEF NestsSetup, At
    <3> QED BY <1>5, <2>6, <3>1
  <2> QED BY <1>0, <1>6, <2>1, <2>2, <2>3, <2>4, <2>5, <2>6, HandlerShapes DEF HupCalls, TermCalls
<1>7. CASE Reopen(t)
  BY <1>0, <1>1, <1>2, <1>7, LfpShapes
<1>8. CASE CheckLfp(t)
  <2>1. /\ At(t, "hup", "check")
        /\ SetsThen(t, "system", NULL, "error") \/ Moves(t, "use", stack[t][1].fd, stack[t][1].at)
    BY <1>0, <1>8, LfpShapes
  <2>2. \A c, d \in Frames :
          c.fn = "setup" /\ c.pc = "lock" /\ c.arg = "system" /\ c.fd = NULL /\ d.fn = "hup" /\ d.pc = "error"
            => NestsSetup(t, c, d)
    BY <2>1 DEF NestsSetup, At
  <2> QED BY <1>2, <1>5, <2>1, <2>2
<1>9. CASE UseLfp(t)
  <2>1. At(t, "hup", "use")
    BY <1>0, <1>9, LfpShapes
  <2>2. PICK fp \in {lfp, stack[t][1].fd} : SetsThen(t, "file", fp, "reopened")
    BY <1>0, <1>9, LfpShapes
  <2>3. \A c, d \in Frames :
          c.fn = "setup" /\ c.pc = "lock" /\ c.arg = "file" /\ c.fd = fp /\ d.fn = "hup" /\ d.pc = "reopened"
            => NestsSetup(t, c, d)
    BY <2>1, <2>2 DEF NestsSetup, At
  <2> QED BY <1>5, <2>1, <2>2, <2>3
<1>10. CASE Exit(t)
  <2>1. At(t, "term", "exit") /\ Moves(t, "exited", stack[t][1].fd, stack[t][1].at)
    BY <1>0, <1>10, LfpShapes
  <2> QED BY <2>1 DEF GoesOn, Moves, At
<1> QED BY <1>6, <1>7, <1>8, <1>9, <1>10

StackStep ==
  \/ UNCHANGED stack
  \/ \E t \in Threads : Pops(t) \/ GoesOn(t) \/ \E c, d \in Frames : Nests(t, c, d)
  \/ \E t \in Threads, c \in Frames : Interrupts(t, c)
  \/ \E t \in Threads : StartsLog(t) /\ (t # Main => started)
  \/ ~handlers /\ ~handlers' /\ \E fac \in {"system", "stdout", "file"}, f \in Nat : StartsSetup(fac, f)

\* Every step does one of these to the stacks.
LEMMA StackCases ==
  ASSUME TypeOK, Progress, [Next]_vars
  PROVE  StackStep
<1>0. LogOK /\ CallsOK /\ MainOK /\ Main \in Threads /\ NULL \in Nat /\ opened + 1 \in Nat
  BY MainAssumption DEF TypeOK, LogOK, NULL
<1>1. ASSUME MainStep PROVE StackStep
  <2>1. \/ UNCHANGED stack
        \/ StartsLog(Main)
        \/ /\ pc \in {"main", "logfile", "stdout", "test"} /\ handlers' = handlers
           /\ (\E fac \in {"system", "stdout"} : StartsSetup(fac, NULL)) \/ StartsSetup("file", opened + 1)
    BY <1>0, <1>1, MainShapes, Zenon
  <2>2. pc \in {"main", "logfile", "stdout", "test"} => ~handlers
    BY DEF Progress, BeforeHandlers
  <2> QED BY <1>0, <2>1, <2>2 DEF StackStep
<1>2. ASSUME NEW t \in Threads, LogSomething(t) PROVE StackStep
  BY <1>0, <1>2, SomethingShape DEF StackStep, LogSomething
<1>3. ASSUME NEW fn \in {"hup", "term"}, Signal(fn) PROVE StackStep
  <2>1. ASSUME NEW t \in Threads, NEW c \in Frames, handlers,
               IF Handles(Main, fn) THEN t # Main /\ started /\ ~Handles(t, fn) ELSE t = Main,
               c.fn = fn, c.pc = "begin", c.fd = NULL, c.at = opened, Pushed(t, c, stack[t][1]),
               tangled' = tangled \cup Tangles(t, fn)
        PROVE  StackStep
    <3>1. Interrupts(t, c)
      BY <1>3, <2>1 DEF Interrupts, Signal
    <3> QED BY <3>1 DEF StackStep
  <2> QED BY <1>0, <1>3, <2>1, SignalShape DEF StackStep
<1>4. ASSUME NEW t \in Threads, ThreadStep(t) PROVE StackStep
  BY <1>4, LoggerCases, HandlerCases DEF StackStep, ThreadStep, Logging
<1>5. ASSUME UNCHANGED vars \/ Gone PROVE StackStep
  BY <1>5 DEF vars, logVars, Gone, StackStep
<1> QED BY <1>1, <1>2, <1>3, <1>4, <1>5 DEF Next

-----------------------------------------------------------------------------
(* Start-up                                                                *)

\* main() never goes back, and threads come with startThreads.
LEMMA ProgressKept ==
  ASSUME TypeOK, Progress, [Next]_vars
  PROVE  Progress'
<1>0. LogOK /\ CallsOK /\ MainOK /\ Main \in Threads /\ stack \in Stacks /\ stack' \in Stacks
  BY MainAssumption, CallsKept DEF TypeOK, CallsOK, Stacks
<1> DEFINE Places1 ==
      /\ pc \in BeforeHandlers => ~handlers
      /\ pc \in {"load"} \cup GidKnown => handlers
      /\ started => handlers /\ pc = "loop"
<1>1. Places1'
  <2>1. CASE UNCHANGED <<pc, handlers, started>>
    BY <2>1 DEF Progress
  <2>2. CASE /\ pc \in BeforeHandlers /\ UNCHANGED <<handlers, started>>
             /\ pc' \in BeforeHandlers \cup {"end", "fatal", "exit"}
    <3>1. ~handlers /\ ~started /\ ~handlers' /\ ~started'
      BY <2>2 DEF Progress
    <3>2. pc' \notin {"load"} \cup GidKnown
      BY <2>2 DEF BeforeHandlers, GidKnown, UidSet
    <3> QED BY <3>1, <3>2, Zenon
  <2>3. CASE pc = "end" /\ pc' = "exit" /\ UNCHANGED <<handlers, started>>
    BY <2>3 DEF Progress, BeforeHandlers, GidKnown, UidSet
  <2>4. CASE pc' \in GidKnown \cup {"fatal"} /\ pc \in {"load"} \cup (GidKnown \ {"loop"}) /\ UNCHANGED <<handlers, started>>
    BY <2>4 DEF Progress, BeforeHandlers, GidKnown, UidSet
  <2>5. CASE InitTerminationHandler
    BY <2>5 DEF InitTerminationHandler, MainAt, GoCalling, Progress, BeforeHandlers, GidKnown, UidSet
  <2>6. CASE StartThreads
    BY <2>6 DEF StartThreads, MainAt, GoCalling, Progress, BeforeHandlers, GidKnown, UidSet
  <2>7. CASE MainStart \/ ParseOptions \/ UseStdout \/ TestOnly \/ TestResult \/ MainEnd
    <3>1. UNCHANGED <<handlers, started>>
      BY <2>7 DEF MainStart, ParseOptions, UseStdout, TestOnly, TestResult, MainEnd, mainVars
    <3>2. \/ pc \in BeforeHandlers /\ pc' \in BeforeHandlers \cup {"end", "fatal", "exit"}
          \/ pc = "end" /\ pc' = "exit"
      BY <2>7 DEF MainStart, ParseOptions, UseStdout, TestOnly, TestResult, MainEnd, MainAt, Go, GoCalling, ExitMain,
                  BeforeHandlers
    <3> QED BY <2>2, <2>3, <3>1, <3>2
  <2>8. CASE OpenLogFile \/ ChangeDirectory \/ Starting \/ Fork \/ FindConfig \/ RecordPID
    <3>1. UNCHANGED <<handlers, started>>
      BY <2>8 DEF OpenLogFile, ChangeDirectory, Starting, Fork, FindConfig, RecordPID, mainVars
    <3>2. pc \in BeforeHandlers /\ pc' \in BeforeHandlers \cup {"end", "fatal", "exit"}
      BY <2>8 DEF OpenLogFile, ChangeDirectory, Starting, Fork, FindConfig, RecordPID, MainAt, Go, GoCalling, Fatal,
                  BeforeHandlers
    <3> QED BY <2>2, <3>1, <3>2
  <2>9. CASE LoadConfig \/ Announce \/ SetUid \/ SetGid
    <3>1. UNCHANGED <<handlers, started>>
      BY <2>9 DEF LoadConfig, Announce, SetUid, SetGid, mainVars
    <3>2. pc' \in GidKnown \cup {"fatal"} /\ pc \in {"load"} \cup (GidKnown \ {"loop"})
      BY <2>9 DEF LoadConfig, Announce, SetUid, SetGid, MainAt, Go, GoCalling, Fatal, GidKnown, UidSet
    <3> QED BY <2>4, <3>1, <3>2
  <2> QED BY <2>1, <2>5, <2>6, <2>7, <2>8, <2>9, ThreadsLeaveMain DEF MainStep
<1>2. ASSUME ~started', NEW u \in Threads \ {Main} PROVE stack'[u] = <<>>
  <2>1. ~started /\ stack[u] = <<>>
    BY <1>2, Grows DEF Grown, Progress
  <2>2. ASSUME NEW t \in Threads, Others(t), stack[t] # <<>> \/ t = Main PROVE stack'[u] = <<>>
    BY <1>2, <2>1, <2>2 DEF Others
  <2>3. ASSUME NEW t \in Threads, Pops(t) \/ GoesOn(t) \/ \E c, d \in Frames : Nests(t, c, d)
        PROVE  stack'[u] = <<>>
    BY <2>2, <2>3 DEF Pops, Popped, GoesOn, Turned, Nests, Pushed
  <2>4. ASSUME NEW t \in Threads, t = Main,
               StartsLog(t) \/ (\E c \in Frames : Interrupts(t, c)) \/ (\E fac, f : StartsSetup(fac, f))
        PROVE  stack'[u] = <<>>
    BY <2>2, <2>4 DEF StartsLog, Interrupts, StartsSetup, Pushed
  <2>5. \A t \in Threads, c \in Frames : Interrupts(t, c) => t = Main
    BY <2>1 DEF Interrupts
  <2> QED BY <1>0, <2>1, <2>3, <2>4, <2>5, StackCases DEF StackStep
<1> QED BY <1>1, <1>2 DEF Progress

\* Before the first signal, or the handlers, calls do not nest.
LEMMA NoHandlerKept ==
  ASSUME TypeOK, Progress, NoHandlerYet, [Next]_vars
  PROVE  NoHandlerYet'
<1> SUFFICES ASSUME ~handlers' \/ signals' = 0, NEW u \in Threads
             PROVE  /\ Len(stack'[u]) <= 1
                    /\ \A k \in 1..Len(stack'[u]) : stack'[u][k].fn \in {"log", "setup"}
  BY DEF NoHandlerYet
<1> DEFINE Goal == /\ Len(stack'[u]) <= 1
                   /\ \A k \in 1..Len(stack'[u]) : stack'[u][k].fn \in {"log", "setup"}
<1>0. stack \in Stacks /\ stack' \in Stacks /\ Len(stack[u]) \in Nat
  BY CallsKept DEF TypeOK, CallsOK, Stacks
<1>1. ~handlers \/ signals = 0
  BY Grows DEF Grown, TypeOK, MainOK
<1>2. \A t \in Threads : /\ Len(stack[t]) <= 1
                         /\ \A k \in 1..Len(stack[t]) : stack[t][k].fn \in {"log", "setup"}
  BY <1>1 DEF NoHandlerYet
<1>3. ASSUME NEW t \in Threads, stack[t] # <<>> PROVE Len(stack[t]) = 1 /\ stack[t][1].fn \in {"log", "setup"}
  <2>1. Len(stack[t]) >= 1 /\ Len(stack[t]) \in Nat /\ 1 \in 1..Len(stack[t])
    BY <1>0, <1>3, Running1
  <2>2. Len(stack[t]) <= 1 /\ stack[t][1].fn \in {"log", "setup"}
    BY <1>2, <2>1
  <2>3. \A n \in Nat : n >= 1 /\ n <= 1 => n = 1
    OBVIOUS
  <2> QED BY <2>1, <2>2, <2>3
<1>4. ASSUME NEW t \in Threads, Pops(t) PROVE Goal
  <2>1. CASE u = t
    BY <1>3, <1>4, <2>1 DEF Pops, Popped
  <2>2. CASE u # t
    BY <1>2, <1>4, <2>2 DEF Pops, Popped, Others
  <2> QED BY <2>1, <2>2
<1>5. ASSUME NEW t \in Threads, GoesOn(t) PROVE Goal
  <2>1. PICK d \in Frames : Turned(t, d) /\ d.fn = stack[t][1].fn
    BY <1>5 DEF GoesOn
  <2>2. CASE u = t
    <3>1. Len(stack'[u]) = 1 /\ stack'[u][1].fn \in {"log", "setup"}
      BY <1>3, <2>1, <2>2 DEF Turned
    <3> QED BY <3>1
  <2>3. CASE u # t
    BY <1>2, <2>1, <2>3 DEF Turned, Others
  <2> QED BY <2>2, <2>3
<1>6. ASSUME NEW t \in Threads, NEW c \in Frames, NEW d \in Frames, Nests(t, c, d) PROVE Goal
  BY <1>3, <1>6 DEF Nests, NestsLog, NestsSetup
<1>7. ASSUME NEW t \in Threads, stack[t] = <<>>, NEW c, c.fn \in {"log", "setup"}, Pushed(t, c, stack[t][1]) PROVE Goal
  <2>1. CASE u = t
    <3>1. Len(stack'[u]) = 1 /\ stack'[u][1].fn \in {"log", "setup"}
      BY <1>7, <2>1 DEF Pushed
    <3> QED BY <3>1
  <2>2. CASE u # t
    BY <1>2, <1>7, <2>2 DEF Pushed, Others
  <2> QED BY <2>1, <2>2
<1>8. ASSUME NEW t \in Threads, StartsLog(t) PROVE Goal
  BY <1>7, <1>8 DEF StartsLog, LogCall
<1>9. ASSUME NEW fac, NEW f, StartsSetup(fac, f) PROVE Goal
  BY <1>7, <1>9, MainAssumption DEF StartsSetup
<1>10. \A t \in Threads, c \in Frames : ~Interrupts(t, c)
  <2>1. signals \in Nat
    BY BoundsAssumption DEF TypeOK, MainOK
  <2> QED BY <2>1, Grows DEF Interrupts, Grown
<1>11. ASSUME UNCHANGED stack PROVE Goal
  BY <1>2, <1>11
<1> QED BY <1>4, <1>5, <1>6, <1>8, <1>9, <1>10, <1>11, StackCases DEF StackStep

\* The ids and the pid file, step by step.
LEMMA IdsKept ==
  ASSUME TypeOK, IdsAsAsked, [Next]_vars
  PROVE  IdsAsAsked'
<1>1. CASE UNCHANGED <<pc, opts, g_uid, g_gid, uid, gid, pidfile>>
  BY <1>1 DEF IdsAsAsked
<1>2. CASE MainStart \/ ParseOptions \/ UseStdout \/ TestOnly \/ TestResult \/ MainEnd
  BY <1>2 DEF MainStart, ParseOptions, UseStdout, TestOnly, TestResult, MainEnd, MainAt, Go, GoCalling, ExitMain,
              mainVars, IdsAsAsked, OptsTaken, GidKnown, UidSet
<1>3. CASE OpenLogFile \/ FindConfig
  BY <1>3 DEF OpenLogFile, FindConfig, MainAt, Go, GoCalling, Fatal, IdsAsAsked, OptsTaken, GidKnown, UidSet
<1>4. CASE ChangeDirectory \/ Starting \/ Fork
  BY <1>4 DEF ChangeDirectory, Starting, Fork, MainAt, Go, GoCalling, Fatal, mainVars,
              IdsAsAsked, OptsTaken, GidKnown, UidSet
<1>5. CASE RecordPID \/ InitTerminationHandler \/ StartThreads
  BY <1>5 DEF RecordPID, InitTerminationHandler, StartThreads, MainAt, Go, GoCalling, Fatal,
              IdsAsAsked, OptsTaken, GidKnown, UidSet
<1>6. CASE LoadConfig
  BY <1>6 DEF LoadConfig, getUID, getGID, g_mainConfig, MainAt, Go, Fatal, IdsAsAsked, OptsTaken, GidKnown, UidSet
<1>7. CASE Announce
  BY <1>7 DEF Announce, MainAt, Go, GoCalling, mainVars, IdsAsAsked, OptsTaken, GidKnown, UidSet
<1>8. CASE SetUid \/ SetGid
  BY <1>8 DEF SetUid, SetGid, MainAt, Go, Fatal, IdsAsAsked, OptsTaken, GidKnown, UidSet
<1> QED BY <1>1, <1>2, <1>3, <1>4, <1>5, <1>6, <1>7, <1>8, ThreadsLeaveMain DEF MainStep

-----------------------------------------------------------------------------
(* Calls on top of each other                                              *)

\* main() installs the handlers when no call is under way.
LEMMA HandlersInstalled ==
  ASSUME TypeOK, Progress, [Next]_vars, ~handlers, handlers', NEW u \in Threads
  PROVE  stack[u] = <<>>
<1>1. MainStep
  BY ThreadsLeaveMain
<1>2. stack[Main] = <<>>
  BY <1>1, MainShapes DEF TypeOK
<1> QED BY <1>2 DEF Progress

\* In the position of a call the step of t finds an old call, or a new one.
LEMMA Positions ==
  ASSUME stack \in Stacks, stack' \in Stacks, NEW t \in Threads
  PROVE  /\ Popped(t) => /\ Len(stack'[t]) = Len(stack[t]) - 1 /\ Len(stack[t]) \in Nat /\ Len(stack[t]) >= 1
                         /\ \A k \in 1..Len(stack'[t]) : k + 1 \in 1..Len(stack[t]) /\ stack'[t][k] = stack[t][k + 1]
         /\ \A d : Turned(t, d) =>
                         /\ Len(stack'[t]) = Len(stack[t]) /\ Len(stack[t]) \in Nat /\ Len(stack[t]) >= 1
                         /\ stack'[t][1] = d
                         /\ \A k \in 2..Len(stack[t]) : stack'[t][k] = stack[t][k]
         /\ \A c, d : Pushed(t, c, d) =>
                         /\ Len(stack'[t]) = Len(stack[t]) + 1 /\ Len(stack[t]) \in Nat
                         /\ stack'[t][1] = c
                         /\ Len(stack'[t]) >= 2 => stack'[t][2] = d
                         /\ \A k \in 3..Len(stack'[t]) : k - 1 \in 2..Len(stack[t]) /\ stack'[t][k] = stack[t][k - 1]
<1>1. Len(stack[t]) \in Nat
  BY DEF Stacks
<1>2. ASSUME Popped(t)
      PROVE  /\ Len(stack'[t]) = Len(stack[t]) - 1 /\ Len(stack[t]) >= 1
             /\ \A k \in 1..Len(stack'[t]) : k + 1 \in 1..Len(stack[t]) /\ stack'[t][k] = stack[t][k + 1]
  BY <1>1, <1>2, Running1 DEF Popped
<1>3. ASSUME NEW d, Turned(t, d)
      PROVE  /\ Len(stack'[t]) = Len(stack[t]) /\ Len(stack[t]) >= 1 /\ stack'[t][1] = d
             /\ \A k \in 2..Len(stack[t]) : stack'[t][k] = stack[t][k]
  BY <1>1, <1>3, Running1 DEF Turned
<1>4. ASSUME NEW c, NEW d, Pushed(t, c, d)
      PROVE  /\ Len(stack'[t]) = Len(stack[t]) + 1 /\ stack'[t][1] = c
             /\ Len(stack'[t]) >= 2 => stack'[t][2] = d
             /\ \A k \in 3..Len(stack'[t]) : k - 1 \in 2..Len(stack[t]) /\ stack'[t][k] = stack[t][k - 1]
  BY <1>1, <1>4 DEF Pushed
<1> QED BY <1>1, <1>2, <1>3, <1>4

\* Only handlers call setupLogFacility and closeLog after the start-up.
LEMMA LayersKept ==
  ASSUME TypeOK, Progress, NewStreams, Layers, [Next]_vars
  PROVE  Layers'
<1> SUFFICES ASSUME NEW u \in Threads, NEW k \in 1..Len(stack'[u]), NEW e, NEW f,
                    e = stack'[u][k], f = stack'[u][k + 1]
             PROVE  IF k < Len(stack'[u]) THEN Atop(e, f)' ELSE e.fn = "setup" => ~handlers' /\ e.arg # "close"
  BY DEF Layers, Atop
<1> DEFINE Goal == IF k < Len(stack'[u]) THEN Atop(e, f)' ELSE e.fn = "setup" => ~handlers' /\ e.arg # "close"
<1>0. stack \in Stacks /\ stack' \in Stacks /\ (Alone' => Alone) /\ Len(stack'[u]) \in Nat /\ Len(stack[u]) \in Nat
  BY CallsKept, Grows DEF TypeOK, CallsOK, Stacks, Grown
<1>1. ASSUME NEW c, NEW d, Atop(c, d) PROVE Atop(c, d)'
  BY <1>0, <1>1 DEF Atop
<1>2. ASSUME e.fn # "setup" PROVE Goal
  BY <1>2 DEF Atop
<1>3. ASSUME NEW l \in 1..Len(stack[u]), e = stack[u][l], k < Len(stack'[u]) <=> l < Len(stack[u]),
             l < Len(stack[u]) => f = stack[u][l + 1]
      PROVE  Goal
  <2>1. IF l < Len(stack[u]) THEN Atop(e, stack[u][l + 1]) ELSE e.fn = "setup" => ~handlers /\ e.arg # "close"
    BY <1>3 DEF Layers
  <2>2. handlers' => handlers
    <3>1. stack[u] # <<>>
      BY <1>3
    <3> QED BY <3>1, HandlersInstalled
  <2> QED BY <1>1, <1>3, <2>1, <2>2
<1> HIDE DEF Goal
<1>4. ASSUME NEW t \in Threads, Others(t), u # t PROVE Goal
  <2>1. stack'[u] = stack[u]
    BY <1>4 DEF Others
  <2> QED BY <1>3, <2>1
<1>5. ASSUME UNCHANGED stack PROVE Goal
  BY <1>3, <1>5
<1>6. ASSUME NEW t \in Threads, Pops(t) PROVE Goal
  <2>1. CASE u = t
    <3>1. /\ Len(stack'[u]) = Len(stack[u]) - 1 /\ k + 1 \in 1..Len(stack[u]) /\ stack'[u][k] = stack[u][k + 1]
          /\ k < Len(stack'[u]) => stack'[u][k + 1] = stack[u][(k + 1) + 1]
      <4>1. /\ Len(stack'[u]) = Len(stack[u]) - 1
            /\ \A j \in 1..Len(stack'[u]) : j + 1 \in 1..Len(stack[u]) /\ stack'[u][j] = stack[u][j + 1]
        BY <1>0, <1>6, <2>1, Positions DEF Pops
      <4>2. k < Len(stack'[u]) => k + 1 \in 1..Len(stack'[u])
        BY <1>0
      <4> QED BY <4>1, <4>2
    <3>2. k < Len(stack'[u]) <=> k + 1 < Len(stack[u])
      BY <1>0, <3>1
    <3> QED BY <1>3, <3>1, <3>2
  <2>2. CASE u # t
    BY <1>4, <1>6, <2>2 DEF Pops, Popped
  <2> QED BY <2>1, <2>2
<1>7. ASSUME NEW t \in Threads, GoesOn(t) PROVE Goal
  <2>1. PICK d \in Frames :
          /\ Turned(t, d)
          /\ d.fn = stack[t][1].fn /\ d.arg = stack[t][1].arg
          /\ d.fn = "setup" => d.fd = stack[t][1].fd
    BY <1>7 DEF GoesOn
  <2>2. CASE u = t
    <3>1. /\ Len(stack'[u]) = Len(stack[u]) /\ stack'[u][1] = d
          /\ \A j \in 2..Len(stack[u]) : stack'[u][j] = stack[u][j]
      BY <1>0, <2>1, <2>2, Positions
    <3>2. k < Len(stack'[u]) => f = stack[u][k + 1]
      BY <1>0, <3>1
    <3>3. CASE k # 1
      <4>1. e = stack[u][k] /\ k \in 1..Len(stack[u])
        BY <1>0, <3>1, <3>3
      <4> QED BY <1>3, <3>1, <3>2, <4>1
    <3>4. CASE k = 1
      <4>1. IF k < Len(stack[u]) THEN Atop(stack[u][1], stack[u][k + 1])
            ELSE stack[u][1].fn = "setup" => ~handlers /\ stack[u][1].arg # "close"
        BY <3>1, <3>4 DEF Layers
      <4>2. CASE k < Len(stack[u])
        <5>1. Atop(stack[u][1], f) /\ e = d
          BY <3>1, <3>2, <3>4, <4>1, <4>2
        <5>2. Atop(d, f)
          BY <2>1, <2>2, <5>1 DEF Atop
        <5> QED BY <1>1, <3>1, <4>2, <5>1, <5>2 DEF Goal
      <4>3. CASE ~(k < Len(stack[u]))
        <5>1. handlers' => handlers
          <6>1. stack[u] # <<>>
            BY <3>1, <3>4
          <6> QED BY <6>1, HandlersInstalled
        <5>2. e.fn = stack[u][1].fn /\ e.arg = stack[u][1].arg
          BY <2>1, <2>2, <3>1, <3>4
        <5> QED BY <3>1, <4>1, <4>3, <5>1, <5>2 DEF Goal
      <4> QED BY <4>2, <4>3
    <3> QED BY <3>3, <3>4
  <2>3. CASE u # t
    BY <1>4, <2>1, <2>3 DEF Turned
  <2> QED BY <2>2, <2>3
<1>8. ASSUME NEW t \in Threads, NEW c, NEW d, Pushed(t, c, d),
             c.fn = "setup" => IF stack[t] = <<>> THEN ~handlers' /\ c.arg # "close" ELSE Atop(c, d)',
             stack[t] # <<>> => d.fn # "setup" \/ d = stack[t][1]
      PROVE  Goal
  <2>1. CASE u = t
    <3>1. /\ Len(stack'[u]) = Len(stack[u]) + 1 /\ stack'[u][1] = c
          /\ Len(stack'[u]) >= 2 => stack'[u][2] = d
          /\ \A j \in 3..Len(stack'[u]) : j - 1 \in 2..Len(stack[u]) /\ stack'[u][j] = stack[u][j - 1]
      BY <1>0, <1>8, <2>1, Positions
    <3>2. stack[u] = <<>> <=> Len(stack[u]) = 0
      BY <1>0 DEF Stacks
    <3>3. CASE k = 1
      <4>1. e = c /\ (k < Len(stack'[u]) <=> stack[u] # <<>>) /\ (k < Len(stack'[u]) => f = d)
        BY <1>0, <3>1, <3>2, <3>3
      <4>2. c.fn # "setup" => Atop(c, d)'
        BY DEF Atop
      <4> QED BY <1>8, <2>1, <4>1, <4>2 DEF Goal
    <3>4. CASE k # 1
      <4>1. k - 1 \in 1..Len(stack[u]) /\ (k < Len(stack'[u]) <=> k - 1 < Len(stack[u])) /\ stack[u] # <<>>
        BY <1>0, <3>1, <3>2, <3>4
      <4>2. k - 1 < Len(stack[u]) => f = stack[u][(k - 1) + 1]
        <5>1. ASSUME k - 1 < Len(stack[u]) PROVE f = stack[u][k]
          <6>1. k + 1 \in 3..Len(stack'[u]) /\ (k + 1) - 1 = k
            BY <1>0, <3>1, <3>4, <5>1
          <6> QED BY <3>1, <6>1
        <5> QED BY <5>1
      <4>3. CASE e = stack[u][k - 1]
        BY <1>3, <4>1, <4>2, <4>3
      <4>4. CASE e # stack[u][k - 1]
        <5>1. k = 2 /\ e = d
          <6>1. k \notin 3..Len(stack'[u])
            BY <3>1, <4>4
          <6>2. k = 2 /\ Len(stack'[u]) >= 2
            BY <1>0, <3>4, <6>1
          <6> QED BY <3>1, <6>2
        <5>2. e.fn # "setup"
          BY <1>8, <2>1, <4>1, <4>4, <5>1
        <5> QED BY <1>2, <5>2
      <4> QED BY <4>3, <4>4
    <3> QED BY <3>3, <3>4
  <2>2. CASE u # t
    BY <1>4, <1>8, <2>2 DEF Pushed
  <2> QED BY <2>1, <2>2
<1>9. ASSUME NEW t \in Threads, NEW c \in Frames, NEW d \in Frames, Nests(t, c, d) PROVE Goal
  <2>1. stack[t] # <<>> /\ Pushed(t, c, d) /\ d.fn # "setup"
    BY <1>9 DEF Nests, NestsLog, NestsSetup
  <2>2. c.fn = "setup" => Atop(c, d)'
    <3>1. CASE c.arg = "file" /\ NestsSetup(t, c, d)
      <4>1. /\ stack[t][1].fn = "hup" /\ stack[t][1].pc = "use" /\ c.fd \in {lfp, stack[t][1].fd}
            /\ d.fn = "hup" /\ d.pc = "reopened" /\ d.at = stack[t][1].at
        BY <1>9, <3>1 DEF Nests, NestsSetup
      <4>2. Alone => lfp = stack[t][1].fd /\ stack[t][1].fd > stack[t][1].at
        <5>1. 1 \in 1..Len(stack[t])
          BY <1>0, <2>1, Running1
        <5> QED BY <4>1, <5>1 DEF NewStreams, NewStream, HasOpened
      <4>3. Alone' => c.fd > d.at
        BY <1>0, <4>1, <4>2
      <4> QED BY <3>1, <4>1, <4>3 DEF Atop
    <3>2. CASE NestsLog(t, c, d)
      BY <3>2 DEF NestsLog, LogCall
    <3>3. CASE NestsSetup(t, c, d) /\ c.arg # "file"
      BY <3>3 DEF NestsSetup, Atop
    <3> QED BY <1>9, <3>1, <3>2, <3>3 DEF Nests
  <2> QED BY <1>8, <2>1, <2>2
<1>10. ASSUME NEW t \in Threads, NEW c \in Frames, Interrupts(t, c) PROVE Goal
  BY <1>8, <1>10 DEF Interrupts
<1>11. ASSUME NEW t \in Threads, StartsLog(t) PROVE Goal
  BY <1>8, <1>11 DEF StartsLog, LogCall
<1>12. ASSUME NEW fac \in {"system", "stdout", "file"}, NEW ff \in Nat, StartsSetup(fac, ff), ~handlers' PROVE Goal
  BY <1>8, <1>12, MainAssumption DEF StartsSetup
<1>13. Goal
  BY <1>5, <1>6, <1>7, <1>9, <1>10, <1>11, <1>12, StackCases DEF StackStep
<1> QED BY <1>13 DEF Goal

\* A second SIGHUP handler is an overlap.
LEMMA HupAloneKept ==
  ASSUME TypeOK, Progress, HupAlone, [Next]_vars
  PROVE  HupAlone'
<1> DEFINE Goal ==
      \A v, u \in Threads : \A k \in 1..Len(stack'[v]), l \in 1..Len(stack'[u]) :
        stack'[v][k].fn = "hup" /\ stack'[u][l].fn = "hup" => v = u /\ k = l
<1> SUFFICES ASSUME Alone' PROVE Goal
  BY DEF HupAlone
<1>0. stack \in Stacks /\ stack' \in Stacks /\ Alone
  BY CallsKept, Grows DEF TypeOK, CallsOK, Stacks, Grown
<1>1. \A v, u \in Threads : \A k \in 1..Len(stack[v]), l \in 1..Len(stack[u]) :
        stack[v][k].fn = "hup" /\ stack[u][l].fn = "hup" => v = u /\ k = l
  BY <1>0 DEF HupAlone
<1>2. ASSUME NEW t \in Threads, Others(t), NEW s \in {-1, 0, 1},
             \A k \in 1..Len(stack'[t]) :
               stack'[t][k].fn = "hup" => k + s \in 1..Len(stack[t]) /\ stack[t][k + s].fn = "hup"
      PROVE  Goal
  <2> SUFFICES ASSUME NEW v \in Threads, NEW u \in Threads, NEW k \in 1..Len(stack'[v]), NEW l \in 1..Len(stack'[u]),
                      stack'[v][k].fn = "hup", stack'[u][l].fn = "hup"
               PROVE  v = u /\ k = l
    OBVIOUS
  <2> DEFINE kk == IF v = t THEN k + s ELSE k
             ll == IF u = t THEN l + s ELSE l
  <2>1. kk \in 1..Len(stack[v]) /\ stack[v][kk].fn = "hup"
    BY <1>2 DEF Others
  <2>2. ll \in 1..Len(stack[u]) /\ stack[u][ll].fn = "hup"
    BY <1>2 DEF Others
  <2>3. v = u /\ kk = ll
    BY <1>1, <2>1, <2>2
  <2>4. k \in Int /\ l \in Int /\ s \in Int
    OBVIOUS
  <2> QED BY <2>3, <2>4
<1>3. ASSUME NEW t \in Threads, NEW c, NEW d, Pushed(t, c, d), c.fn # "hup",
             stack[t] # <<>> => d.fn = stack[t][1].fn
      PROVE  Goal
  <2>1. /\ Len(stack'[t]) = Len(stack[t]) + 1 /\ Len(stack[t]) \in Nat
        /\ stack'[t][1] = c
        /\ Len(stack'[t]) >= 2 => stack'[t][2] = d
        /\ \A k \in 3..Len(stack'[t]) : k - 1 \in 2..Len(stack[t]) /\ stack'[t][k] = stack[t][k - 1]
    BY <1>0, <1>3, Positions
  <2>2. ASSUME NEW k \in 1..Len(stack'[t]), stack'[t][k].fn = "hup"
        PROVE  k + (-1) \in 1..Len(stack[t]) /\ stack[t][k + (-1)].fn = "hup"
    <3>1. k # 1
      BY <1>3, <2>1, <2>2
    <3>2. k - 1 \in 1..Len(stack[t]) /\ k + (-1) = k - 1
      BY <2>1, <3>1
    <3>3. stack'[t][k].fn = stack[t][k - 1].fn
      <4>1. CASE k = 2
        <5>1. Len(stack[t]) >= 1 /\ Len(stack'[t]) >= 2 /\ k - 1 = 1
          BY <2>1, <4>1
        <5>2. stack[t] # <<>>
          BY <5>1
        <5> QED BY <1>3, <2>1, <4>1, <5>1, <5>2
      <4>2. CASE k # 2
        <5>1. k \in 3..Len(stack'[t])
          BY <2>1, <3>1, <4>2
        <5> QED BY <2>1, <5>1
      <4> QED BY <4>1, <4>2
    <3> QED BY <2>2, <3>2, <3>3
  <2>3. Others(t) /\ -1 \in {-1, 0, 1}
    BY <1>3 DEF Pushed
  <2> QED BY <1>2, <2>2, <2>3
<1>4. ASSUME UNCHANGED stack PROVE Goal
  BY <1>1, <1>4
<1>5. ASSUME NEW t \in Threads, Pops(t) PROVE Goal
  <2>1. Others(t) /\ \A k \in 1..Len(stack'[t]) : k + 1 \in 1..Len(stack[t]) /\ stack'[t][k] = stack[t][k + 1]
    BY <1>0, <1>5, Positions DEF Pops, Popped
  <2> QED BY <1>2, <2>1
<1>6. ASSUME NEW t \in Threads, GoesOn(t) PROVE Goal
  <2>1. PICK d \in Frames : Turned(t, d) /\ d.fn = stack[t][1].fn
    BY <1>6 DEF GoesOn
  <2>2. /\ Len(stack'[t]) = Len(stack[t]) /\ Len(stack[t]) \in Nat
        /\ stack'[t][1] = d
        /\ \A k \in 2..Len(stack[t]) : stack'[t][k] = stack[t][k]
    BY <1>0, <2>1, Positions
  <2>3. \A k \in 1..Len(stack'[t]) : stack'[t][k].fn = stack[t][k].fn
    <3>1. \A k \in 1..Len(stack[t]) : k = 1 \/ k \in 2..Len(stack[t])
      BY <2>2
    <3> QED BY <2>1, <2>2, <3>1
  <2>4. \A k \in 1..Len(stack'[t]) : stack'[t][k].fn = "hup" => k + 0 \in 1..Len(stack[t]) /\ stack[t][k + 0].fn = "hup"
    BY <2>2, <2>3
  <2> QED BY <1>2, <2>1, <2>4 DEF Turned
<1>7. ASSUME NEW t \in Threads, NEW c \in Frames, NEW d \in Frames, Nests(t, c, d) PROVE Goal
  <2>1. Pushed(t, c, d) /\ c.fn # "hup" /\ d.fn = stack[t][1].fn
    BY <1>7 DEF Nests, NestsLog, NestsSetup, LogCall
  <2> QED BY <1>3, <2>1
<1>8. ASSUME NEW t \in Threads, NEW c \in Frames, Interrupts(t, c) PROVE Goal
  <2>1. CASE c.fn # "hup"
    BY <1>3, <1>8, <2>1 DEF Interrupts
  <2>2. CASE c.fn = "hup"
    <3>1. \A u \in Threads : ~Handles(u, "hup")
      BY <1>8, <2>2 DEF Interrupts, Tangles, Alone
    <3>2. \A u \in Threads : \A k \in 1..Len(stack[u]) : stack[u][k].fn # "hup"
      BY <1>0, <3>1 DEF Handles, Stacks
    <3>3. Comes(t, {c}) /\ Others(t)
      BY <1>0, <1>8, PushedOver DEF Interrupts, Pushed
    <3>4. \A u \in Threads : \A k \in 1..Len(stack'[u]) : stack'[u][k].fn = "hup" => u = t
      BY <3>2, <3>3 DEF Comes
    <3>5. \A k \in 1..Len(stack'[t]) : stack'[t][k].fn = "hup" => k = 1
      <4>1. /\ Len(stack'[t]) = Len(stack[t]) + 1 /\ Len(stack[t]) \in Nat
            /\ \A k \in 2..Len(stack'[t]) : stack'[t][k] = IF k = 2 THEN stack[t][1] ELSE stack[t][k - 1]
        BY <1>0, <1>8 DEF Interrupts, Pushed, Stacks
      <4>2. ASSUME NEW k \in 1..Len(stack'[t]), k # 1 PROVE stack'[t][k].fn # "hup"
        <5>1. k \in 2..Len(stack'[t]) /\ k - 1 \in 1..Len(stack[t])
          BY <4>1, <4>2
        <5>2. stack'[t][k] = stack[t][k - 1]
          BY <4>1, <5>1
        <5> QED BY <3>2, <5>1, <5>2
      <4> QED BY <4>2
    <3> QED BY <3>4, <3>5
  <2> QED BY <2>1, <2>2
<1>9. ASSUME NEW t \in Threads, StartsLog(t) PROVE Goal
  BY <1>3, <1>9 DEF StartsLog, LogCall
<1>10. ASSUME NEW fac, NEW f, StartsSetup(fac, f) PROVE Goal
  BY <1>3, <1>10, MainAssumption DEF StartsSetup
<1> HIDE DEF Goal
<1> QED BY <1>4, <1>5, <1>6, <1>7, <1>8, <1>9, <1>10, StackCases DEF StackStep

\* A SIGTERM handler that has called closeLog never returns.
LEMMA ClosingKept ==
  ASSUME TypeOK, Progress, [Next]_vars, ClosingLog
  PROVE  ClosingLog'
<1>0. stack \in Stacks /\ stack' \in Stacks
  BY CallsKept DEF TypeOK, CallsOK, Stacks
<1> PICK v \in Threads : \E j \in 1..Len(stack[v]) : stack[v][j].fn = "term" /\ stack[v][j].pc \in {"exit", "exited"}
  BY DEF ClosingLog
<1>1. PICK j \in 1..Len(stack[v]) : stack[v][j].fn = "term" /\ stack[v][j].pc \in {"exit", "exited"}
  OBVIOUS
<1>2. ASSUME NEW l \in 1..Len(stack'[v]), stack'[v][l].fn = "term", stack'[v][l].pc \in {"exit", "exited"}
      PROVE  ClosingLog'
  BY <1>2 DEF ClosingLog
<1>3. ASSUME NEW t \in Threads, Stays(t), ~(v = t /\ j = 1) PROVE ClosingLog'
  BY <1>1, <1>2, <1>3 DEF Stays
<1>4. CASE UNCHANGED stack
  BY <1>1, <1>2, <1>4
<1>5. ASSUME NEW t \in Threads, Pops(t) PROVE ClosingLog'
  BY <1>0, <1>1, <1>3, <1>5, PoppedCalls DEF Pops
<1>6. ASSUME NEW t \in Threads, GoesOn(t) PROVE ClosingLog'
  <2>1. PICK d \in Frames : Turned(t, d) /\ d.fn = stack[t][1].fn /\ (d.fn = "term" => d.pc = "exited")
    BY <1>6 DEF GoesOn
  <2>2. CASE v = t /\ j = 1
    <3>1. 1 \in 1..Len(stack'[v]) /\ stack'[v][1] = d
      BY <1>0, <2>1, <2>2, Positions
    <3> QED BY <1>1, <1>2, <2>1, <2>2, <3>1
  <2>3. CASE ~(v = t /\ j = 1)
    BY <1>0, <1>3, <2>1, <2>3, TurnedCalls
  <2> QED BY <2>2, <2>3
<1>7. ASSUME NEW t \in Threads, NEW c \in Frames, NEW d \in Frames, Nests(t, c, d) PROVE ClosingLog'
  <2>1. ~(v = t /\ j = 1)
    BY <1>1, <1>7 DEF Nests, NestsLog, NestsSetup
  <2> QED BY <1>0, <1>3, <1>7, <2>1, PushedCalls DEF Nests
<1>8. ASSUME NEW t \in Threads, NEW c, Pushed(t, c, stack[t][1]) PROVE ClosingLog'
  <2>1. AllStay
    BY <1>0, <1>8, PushedOver
  <2> QED BY <1>1, <1>2, <2>1 DEF AllStay
<1>9. ASSUME NEW t \in Threads, StartsLog(t) \/ \E c \in Frames : Interrupts(t, c) PROVE ClosingLog'
  BY <1>8, <1>9 DEF StartsLog, Interrupts
<1>10. ASSUME NEW fac, NEW f, StartsSetup(fac, f) PROVE ClosingLog'
  BY <1>8, <1>10, MainAssumption DEF StartsSetup
<1> QED BY <1>4, <1>5, <1>6, <1>7, <1>9, <1>10, StackCases DEF StackStep

\* With nothing tangled a handler never starts on the thread that holds the mutex.
LEMMA HolderRunsKept ==
  ASSUME TypeOK, Progress, HolderRuns, [Next]_vars
  PROVE  HolderRuns'
<1> SUFFICES ASSUME tangled' = {}, NEW u \in Threads, NEW k \in 1..Len(stack'[u]), Holding(stack'[u][k])
             PROVE  k = 1
  BY DEF HolderRuns, Inside, Holding
<1>0. stack \in Stacks /\ stack' \in Stacks /\ tangled = {}
  BY CallsKept, Grows DEF TypeOK, CallsOK, Stacks, Grown
<1>1. \A t \in Threads : \A j \in 1..Len(stack[t]) : Holding(stack[t][j]) => j = 1
  BY <1>0 DEF HolderRuns, Inside
<1>2. ASSUME NEW t \in Threads, Others(t), u # t PROVE k = 1
  BY <1>1, <1>2 DEF Others
<1>3. CASE UNCHANGED stack
  BY <1>1, <1>3
<1>4. ASSUME NEW t \in Threads, Pops(t) PROVE k = 1
  <2>1. CASE u = t
    <3>1. k + 1 \in 1..Len(stack[t]) /\ stack'[t][k] = stack[t][k + 1] /\ k + 1 # 1
      BY <1>0, <1>4, <2>1, Positions DEF Pops
    <3> QED BY <1>1, <2>1, <3>1
  <2> QED BY <1>2, <1>4, <2>1 DEF Pops, Popped
<1>5. ASSUME NEW t \in Threads, GoesOn(t) PROVE k = 1
  <2>1. PICK d \in Frames : Turned(t, d)
    BY <1>5 DEF GoesOn
  <2>2. CASE u = t
    BY <1>0, <1>1, <2>1, <2>2, Positions
  <2> QED BY <1>2, <2>1, <2>2 DEF Turned
<1>6. ASSUME NEW t \in Threads, NEW c, NEW d, Pushed(t, c, d), stack[t] # <<>> => ~Holding(d),
             \A j \in 1..Len(stack[t]) : ~Holding(stack[t][j])
      PROVE  k = 1
  <2>1. CASE u = t /\ k # 1
    <3>1. /\ Len(stack'[t]) = Len(stack[t]) + 1 /\ Len(stack[t]) \in Nat
          /\ Len(stack'[t]) >= 2 => stack'[t][2] = d
          /\ \A j \in 3..Len(stack'[t]) : j - 1 \in 2..Len(stack[t]) /\ stack'[t][j] = stack[t][j - 1]
      BY <1>0, <1>6, Positions
    <3>2. CASE k = 2
      <4>1. Len(stack[t]) >= 1 /\ stack'[t][2] = d
        BY <2>1, <3>1, <3>2
      <4>2. stack[t] # <<>>
        BY <4>1
      <4> QED BY <1>6, <2>1, <3>2, <4>1, <4>2
    <3>3. CASE k # 2
      <4>1. k \in 3..Len(stack'[t])
        BY <2>1, <3>1, <3>3
      <4>2. k - 1 \in 1..Len(stack[t]) /\ stack'[t][k] = stack[t][k - 1]
        BY <3>1, <4>1
      <4> QED BY <1>6, <2>1, <4>2
    <3> QED BY <3>2, <3>3
  <2> QED BY <1>2, <1>6, <2>1 DEF Pushed
<1>7. ASSUME NEW t \in Threads, NEW c \in Frames, NEW d \in Frames, Nests(t, c, d) PROVE k = 1
  <2>1. Pushed(t, c, d) /\ d.fn \in {"hup", "term"} /\ stack[t][1].fn \in {"hup", "term"}
    BY <1>7 DEF Nests, NestsLog, NestsSetup
  <2>2. ~Holding(d) /\ ~Holding(stack[t][1])
    BY <2>1 DEF Holding
  <2>3. \A j \in 1..Len(stack[t]) : ~Holding(stack[t][j])
    BY <1>1, <2>2
  <2> QED BY <1>6, <2>1, <2>2, <2>3
<1>8. ASSUME NEW t \in Threads, NEW c \in Frames, Interrupts(t, c) PROVE k = 1
  <2>1. log_mtx.owner # t
    BY <1>8 DEF Interrupts, Tangles
  <2>2. \A j \in 1..Len(stack[t]) : ~Holding(stack[t][j])
    BY <2>1, HolderOwns
  <2>3. stack[t] # <<>> => ~Holding(stack[t][1])
    <3>1. stack[t] # <<>> => 1 \in 1..Len(stack[t])
      BY <1>0, Running1
    <3> QED BY <2>2, <3>1
  <2> QED BY <1>6, <1>8, <2>2, <2>3 DEF Interrupts
<1>9. ASSUME NEW t \in Threads, stack[t] = <<>>, NEW c, Pushed(t, c, stack[t][1]) PROVE k = 1
  <2>1. \A j \in 1..Len(stack[t]) : ~Holding(stack[t][j])
    BY <1>9
  <2> QED BY <1>6, <1>9, <2>1
<1>10. ASSUME NEW t \in Threads, StartsLog(t) PROVE k = 1
  BY <1>9, <1>10 DEF StartsLog
<1>11. ASSUME NEW fac, NEW f, StartsSetup(fac, f) PROVE k = 1
  BY <1>9, <1>11, MainAssumption DEF StartsSetup
<1> QED BY <1>3, <1>4, <1>5, <1>7, <1>8, <1>10, <1>11, StackCases DEF StackStep

-----------------------------------------------------------------------------
(* Streams                                                                 *)

\* As Comes, and none of the old calls is the one that was running on t.
ComesElse(t, S) ==
  \A u \in Threads : \A k \in 1..Len(stack'[u]) :
    \/ u = t /\ stack'[u][k] \in S
    \/ \E l \in 1..Len(stack[u]) : stack'[u][k] = stack[u][l] /\ ~(u = t /\ l = 1)

\* The running call of t returns, goes on or makes a call.
LEMMA Elsewhere ==
  ASSUME stack \in Stacks, stack' \in Stacks, NEW t \in Threads
  PROVE  /\ Popped(t) => ComesElse(t, {})
         /\ \A d : Turned(t, d) => ComesElse(t, {d})
         /\ \A c, d : Pushed(t, c, d) => ComesElse(t, {c, d})
<1>1. ASSUME Popped(t), NEW u \in Threads, NEW k \in 1..Len(stack'[u])
      PROVE  \E l \in 1..Len(stack[u]) : stack'[u][k] = stack[u][l] /\ ~(u = t /\ l = 1)
  <2>1. CASE u = t
    <3>1. k + 1 \in 1..Len(stack[u]) /\ stack'[u][k] = stack[u][k + 1] /\ k + 1 # 1
      BY <1>1, <2>1, Positions
    <3> QED BY <3>1
  <2>2. CASE u # t
    BY <1>1, <2>2 DEF Popped, Others
  <2> QED BY <2>1, <2>2
<1>2. ASSUME NEW d, Turned(t, d), NEW u \in Threads, NEW k \in 1..Len(stack'[u])
      PROVE  \/ u = t /\ stack'[u][k] \in {d}
             \/ \E l \in 1..Len(stack[u]) : stack'[u][k] = stack[u][l] /\ ~(u = t /\ l = 1)
  <2>1. CASE u = t /\ k # 1
    <3>1. k \in 1..Len(stack[u]) /\ stack'[u][k] = stack[u][k]
      BY <1>2, <2>1, Positions
    <3> QED BY <2>1, <3>1
  <2>2. CASE u # t
    BY <1>2, <2>2 DEF Turned, Others
  <2>3. CASE u = t /\ k = 1
    BY <1>2, <2>3 DEF Turned
  <2> QED BY <2>1, <2>2, <2>3
<1>3. ASSUME NEW c, NEW d, Pushed(t, c, d), NEW u \in Threads, NEW k \in 1..Len(stack'[u])
      PROVE  \/ u = t /\ stack'[u][k] \in {c, d}
             \/ \E l \in 1..Len(stack[u]) : stack'[u][k] = stack[u][l] /\ ~(u = t /\ l = 1)
  <2>1. CASE u = t /\ k \notin {1, 2}
    <3>1. k - 1 \in 1..Len(stack[u]) /\ stack'[u][k] = stack[u][k - 1] /\ k - 1 # 1
      BY <1>3, <2>1, Positions
    <3> QED BY <2>1, <3>1
  <2>2. CASE u # t
    BY <1>3, <2>2 DEF Pushed, Others
  <2>3. CASE u = t /\ k \in {1, 2}
    BY <1>3, <2>3, Positions
  <2> QED BY <2>1, <2>2, <2>3
<1>4. Popped(t) => ComesElse(t, {})
  BY <1>1 DEF ComesElse
<1>5. \A d : Turned(t, d) => ComesElse(t, {d})
  BY <1>2 DEF ComesElse
<1>6. \A c, d : Pushed(t, c, d) => ComesElse(t, {c, d})
  BY <1>3 DEF ComesElse
<1> QED BY <1>4, <1>5, <1>6

NoHandlers ==
  /\ \A u \in Threads : \A l \in 1..Len(stack[u]) : stack[u][l].fn \notin {"hup", "term"}
  /\ \A u \in Threads \ {Main} : stack[u] = <<>>
  /\ Len(stack[Main]) <= 1

\* Where a setupLogFacility or closeLog is: on a handler, or alone at start-up.
LEMMA SetupOn ==
  ASSUME TypeOK, Progress, NoHandlerYet, Layers, NEW t \in Threads, NEW k \in 1..Len(stack[t]), stack[t][k].fn = "setup"
  PROVE  \/ k + 1 \in 1..Len(stack[t]) /\ Atop(stack[t][k], stack[t][k + 1])
         \/ stack[t][k].arg # "close" /\ t = Main /\ k = 1 /\ ~handlers /\ NoHandlers
<1>1. stack \in Stacks /\ Len(stack[t]) \in Nat /\ MainOK
  BY DEF TypeOK, CallsOK, Stacks
<1>2. CASE k < Len(stack[t])
  <2>1. k + 1 \in 1..Len(stack[t])
    BY <1>1, <1>2
  <2> QED BY <1>2, <2>1 DEF Layers
<1>3. CASE ~(k < Len(stack[t]))
  <2>1. ~handlers /\ stack[t][k].arg # "close"
    BY <1>3 DEF Layers
  <2>2. ~started
    BY <2>1 DEF Progress
  <2>3. \A u \in Threads \ {Main} : stack[u] = <<>>
    BY <2>2 DEF Progress
  <2>4. t = Main
    BY <2>3
  <2>5. \A u \in Threads : /\ Len(stack[u]) <= 1
                           /\ \A l \in 1..Len(stack[u]) : stack[u][l].fn \in {"log", "setup"}
    BY <2>1 DEF NoHandlerYet
  <2>6. k = 1
    BY <1>1, <2>5
  <2>7. NoHandlers
    BY <2>3, <2>5, MainAssumption DEF NoHandlers
  <2> QED BY <2>1, <2>4, <2>6, <2>7
<1> QED BY <1>2, <1>3

\* Which steps change the log file, the streams closed and lfp.
LEMMA FileSteps ==
  ASSUME TypeOK, [Next]_vars
  PROVE  /\ UNCHANGED <<log_facility, log_file_descriptor>> \/ \E t \in Threads : SetupAssign(t)
         /\ UNCHANGED closed \/ \E t \in Threads : SetupClose(t)
         /\ status' = "crashed" => \/ status = "crashed"
                                   \/ log_facility = "file" /\ log_file_descriptor = NULL
<1>0. LogOK /\ MainOK /\ CallsOK
  BY DEF TypeOK
<1>1. CASE MainStep
  <2>1. UNCHANGED unchangedLog /\ status = "up"
    BY <1>0, <1>1, MainShapes
  <2>2. status' # "crashed"
    <3>1. status' = status \/ status' \in {"up", "exiting"}
      BY <1>0, <1>1, MainShapes, Zenon
    <3> QED BY <2>1, <3>1
  <2> QED BY <2>1, <2>2 DEF unchangedLog, fileVars
<1>2. ASSUME NEW t \in Threads, LogSomething(t)
      PROVE  UNCHANGED <<log_facility, log_file_descriptor, closed, status>>
  BY <1>2 DEF LogSomething, fileVars
<1>3. ASSUME NEW fn \in {"hup", "term"}, Signal(fn)
      PROVE  UNCHANGED <<log_facility, log_file_descriptor, closed>> /\ (status' = status \/ status' = "gone")
  BY <1>3 DEF Signal, fileVars
<1>4. ASSUME NEW t \in Threads, HandlerCalls(t) \/ Reopen(t) \/ CheckLfp(t) \/ UseLfp(t) \/ Exit(t)
      PROVE  UNCHANGED <<log_facility, log_file_descriptor, closed>> /\ (status' = status \/ status' = "exiting")
  BY <1>4 DEF HandlerCalls, Reopen, CheckLfp, UseLfp, Exit, fileVars
<1>5. ASSUME NEW t \in Threads, LogSuppress(t) \/ LogBegin(t) \/ LogReported(t) \/ LogWrite(t) \/ SetupRefused(t)
      PROVE  UNCHANGED <<log_facility, log_file_descriptor, closed>> /\ (status' = status \/ status' = "exiting")
  BY <1>5 DEF LogSuppress, LogBegin, LogReported, LogWrite, LogReturn, SetupRefused, fileVars
<1>6. ASSUME NEW t \in Threads, SetupClose(t)
      PROVE  /\ UNCHANGED <<log_facility, log_file_descriptor>>
             /\ status' = status \/ (log_facility = "file" /\ log_file_descriptor = NULL)
  BY <1>6 DEF SetupClose, fileVars
<1>7. ASSUME NEW t \in Threads, SetupAssign(t) PROVE UNCHANGED <<closed, status>>
  BY <1>7 DEF SetupAssign
<1>8. ASSUME UNCHANGED vars \/ Gone
      PROVE  UNCHANGED <<log_facility, log_file_descriptor, closed>> /\ (status' = status \/ status' = "gone")
  BY <1>8 DEF vars, logVars, fileVars, Gone
<1> QED BY <1>1, <1>2, <1>3, <1>4, <1>5, <1>6, <1>7, <1>8 DEF Next, ThreadStep, Logging, LoggerStep

\* fclose(NULL) is near only after closeLog.
LEMMA NullClosedKept ==
  ASSUME TypeOK, Progress, NoHandlerYet, Layers, NullClosed, [Next]_vars
  PROVE  NullClosed'
<1>0. LogOK /\ MainOK /\ CallsOK /\ stack \in Stacks
  BY DEF TypeOK, CallsOK, Stacks
<1>1. status' = "crashed" => ClosingLog'
  BY FileSteps, ClosingKept DEF NullClosed
<1>2. ASSUME log_facility' = "file", log_file_descriptor' = NULL PROVE ClosingLog'
  <2>1. CASE UNCHANGED <<log_facility, log_file_descriptor>>
    BY <1>2, <2>1, ClosingKept DEF NullClosed
  <2>2. ASSUME NEW t \in Threads, SetupAssign(t) PROVE ClosingLog'
    <3>1. At(t, "setup", "assign") /\ 1 \in 1..Len(stack[t])
      BY <1>0, <2>2, SetupShapes, Running1 DEF At
    <3>2. /\ log_file_descriptor' = DescriptorAfter(stack[t][1])
          /\ log_facility' = IF stack[t][1].arg = "close" THEN log_facility ELSE stack[t][1].arg
      BY <2>2, <3>1 DEF SetupAssign, At
    <3>3. stack[t][1].arg = "file" => stack[t][1].fd # NULL
      BY <1>0, <3>1 DEF CallsOK, FrameOK, At
    <3>4. stack[t][1].arg # "file"
      BY <1>2, <3>2, <3>3 DEF DescriptorAfter
    <3>5. stack[t][1].arg = "close"
      BY <1>2, <3>2, <3>4
    <3>6. 2 \in 1..Len(stack[t]) /\ stack[t][2].fn = "term" /\ stack[t][2].pc = "exit"
      BY <3>1, <3>5, SetupOn DEF Atop, At
    <3>7. ClosingLog
      BY <3>6 DEF ClosingLog
    <3> QED BY <3>7, ClosingKept
  <2> QED BY <2>1, <2>2, FileSteps
<1> QED BY <1>1, <1>2 DEF NullClosed

\* The calls under way, apart from the one that runs on t.
OtherCalls(t) ==
  {c \in Frames : \E u \in Threads : \E l \in 1..Len(stack[u]) : c = stack[u][l] /\ ~(u = t /\ l = 1)}

\* A step keeps the streams new if it does so for the new calls and the others.
LEMMA NewStreamsStep ==
  ASSUME stack \in Stacks, stack' \in Stacks, NEW t \in Threads, NEW S, ComesElse(t, S), \A c \in S : NewStream(c)',
         \A c \in OtherCalls(t) : NewStream(c)'
  PROVE  NewStreams'
<1>1. ASSUME NEW u \in Threads, NEW k \in 1..Len(stack'[u]) PROVE NewStream(stack[u][k])'
  <2>1. PICK c : c = stack'[u][k]
    OBVIOUS
  <2>2. c \in S \/ \E l \in 1..Len(stack[u]) : c = stack[u][l] /\ ~(u = t /\ l = 1)
    BY <1>1, <2>1 DEF ComesElse
  <2>3. c \in S \/ c \in OtherCalls(t)
    <3>1. \A l \in 1..Len(stack[u]) : stack[u][l] \in Frames
      BY DEF Stacks
    <3> QED BY <2>2, <3>1 DEF OtherCalls
  <2>4. NewStream(c)'
    BY <2>3
  <2> QED BY <2>1, <2>4 DEF NewStream, HasOpened, Carries
<1> QED BY <1>1 DEF NewStreams

\* The other calls have nothing to do with the log file while one SIGHUP handler,
\* or a setupLogFacility with a file, is the running call of t.
LEMMA OnlyCarrier ==
  ASSUME TypeOK, Progress, NoHandlerYet, Layers, HupAlone, Alone, NEW t \in Threads, stack[t] # <<>>,
         \/ stack[t][1].fn = "hup"
         \/ stack[t][1].fn = "setup" /\ stack[t][1].arg = "file",
         NEW c \in OtherCalls(t)
  PROVE  ~HasOpened(c) /\ ~(c.fn = "setup" /\ c.arg = "file")
<1>0. stack \in Stacks /\ 1 \in 1..Len(stack[t])
  BY Running1 DEF TypeOK, CallsOK, Stacks
<1> PICK u \in Threads : \E l \in 1..Len(stack[u]) : c = stack[u][l] /\ ~(u = t /\ l = 1)
  BY DEF OtherCalls
<1>1. PICK l \in 1..Len(stack[u]) : c = stack[u][l] /\ ~(u = t /\ l = 1)
  OBVIOUS
<1>2. \A v, w \in Threads : \A j \in 1..Len(stack[v]), i \in 1..Len(stack[w]) :
        stack[v][j].fn = "hup" /\ stack[w][i].fn = "hup" => v = w /\ j = i
  BY DEF HupAlone
<1>3. CASE stack[t][1].fn = "hup"
  <2>1. c.fn # "hup"
    BY <1>0, <1>1, <1>2, <1>3
  <2>2. ASSUME c.fn = "setup", c.arg = "file" PROVE FALSE
    <3>1. CASE l + 1 \in 1..Len(stack[u]) /\ Atop(stack[u][l], stack[u][l + 1])
      <4>1. stack[u][l + 1].fn = "hup"
        BY <1>1, <2>2, <3>1 DEF Atop
      <4>2. u = t /\ l + 1 = 1
        BY <1>0, <1>2, <1>3, <3>1, <4>1
      <4> QED BY <4>2
    <3>2. CASE NoHandlers
      BY <1>0, <1>3, <3>2 DEF NoHandlers
    <3> QED BY <1>1, <2>2, <3>1, <3>2, SetupOn
  <2> QED BY <2>1, <2>2 DEF HasOpened
<1>4. CASE stack[t][1].fn = "setup" /\ stack[t][1].arg = "file"
  <2>1. CASE 2 \in 1..Len(stack[t]) /\ Atop(stack[t][1], stack[t][2])
    <3>1. stack[t][2].fn = "hup" /\ stack[t][2].pc = "reopened"
      BY <1>4, <2>1 DEF Atop
    <3>2. ~HasOpened(c)
      <4>1. ASSUME c.fn = "hup" PROVE c = stack[t][2]
        <5>1. u = t /\ l = 2
          BY <1>1, <1>2, <2>1, <3>1, <4>1
        <5> QED BY <1>1, <5>1
      <4> QED BY <3>1, <4>1 DEF HasOpened
    <3>3. ASSUME c.fn = "setup", c.arg = "file" PROVE FALSE
      <4>1. CASE l + 1 \in 1..Len(stack[u]) /\ Atop(stack[u][l], stack[u][l + 1])
        <5>1. stack[u][l + 1].fn = "hup"
          BY <1>1, <3>3, <4>1 DEF Atop
        <5>2. u = t /\ l + 1 = 2
          BY <1>2, <2>1, <3>1, <4>1, <5>1
        <5> QED BY <1>1, <5>2
      <4>2. CASE NoHandlers
        BY <2>1, <3>1, <4>2 DEF NoHandlers
      <4> QED BY <1>1, <3>3, <4>1, <4>2, SetupOn
    <3> QED BY <3>2, <3>3
  <2>2. CASE t = Main /\ NoHandlers
    <3>1. u = Main
      BY <2>2 DEF NoHandlers
    <3>2. Len(stack[u]) <= 1 /\ Len(stack[u]) \in Nat
      BY <1>0, <2>2, <3>1 DEF NoHandlers, Stacks
    <3>3. l = 1
      BY <3>2
    <3> QED BY <1>1, <2>2, <3>1, <3>3
  <2>3. 1 + 1 = 2
    OBVIOUS
  <2> QED BY <1>0, <1>4, <2>1, <2>2, <2>3, SetupOn
<1> QED BY <1>3, <1>4

\* The stream a handler has opened stays its own until it is the log file.
LEMMA NewStreamsKept ==
  ASSUME TypeOK, Progress, NoHandlerYet, Layers, HupAlone, NewStreams, [Next]_vars
  PROVE  NewStreams'
<1> SUFFICES ASSUME Alone' PROVE NewStreams'
  BY DEF NewStreams
<1>0. /\ stack \in Stacks /\ stack' \in Stacks /\ Alone /\ LogOK /\ MainOK /\ CallsOK /\ Main \in Threads
  BY CallsKept, Grows, MainAssumption DEF TypeOK, CallsOK, Stacks, Grown
<1>1. \A t \in Threads : \A k \in 1..Len(stack[t]) : NewStream(stack[t][k])
  BY <1>0 DEF NewStreams
<1>2. \A t \in Threads : \A c \in OtherCalls(t) : NewStream(c)
  BY <1>1 DEF OtherCalls
<1>3. ASSUME NEW t \in Threads, stack[t] # <<>> PROVE NewStream(stack[t][1]) /\ stack[t][1] \in Frames /\ FrameOK(stack[t][1])
  <2>1. 1 \in 1..Len(stack[t]) /\ stack[t][1] \in Frames
    BY <1>0, <1>3, Running1
  <2> QED BY <1>0, <1>1, <2>1 DEF CallsOK
<1>4. ASSUME NEW c, ~HasOpened(c), ~(c.fn = "setup" /\ c.arg = "file") PROVE NewStream(c)'
  BY <1>4 DEF NewStream, HasOpened, Carries
<1>5. ASSUME UNCHANGED <<lfp, closed, log_file_descriptor>>, NEW c, NewStream(c) PROVE NewStream(c)'
  BY <1>5 DEF NewStream, HasOpened, Carries
<1>6. ASSUME UNCHANGED <<lfp, closed, log_file_descriptor>>, NEW t \in Threads, NEW S, ComesElse(t, S),
             \A c \in S : NewStream(c)'
      PROVE  NewStreams'
  BY <1>0, <1>2, <1>5, <1>6, NewStreamsStep
<1>7. ASSUME UNCHANGED <<lfp, closed, log_file_descriptor>>, NEW t \in Threads, Popped(t) PROVE NewStreams'
  <2>1. ComesElse(t, {})
    BY <1>0, <1>7, Elsewhere
  <2> QED BY <1>6, <1>7, <2>1
<1>8. ASSUME UNCHANGED <<lfp, closed, log_file_descriptor>>, NEW t \in Threads, NEW c, Pushed(t, c, stack[t][1]),
             c.fn # "setup" \/ c.arg # "file", c.pc \notin {"check", "use"}
      PROVE  NewStreams'
  <2>1. ComesElse(t, {c, stack[t][1]}) /\ NewStream(c)'
    BY <1>0, <1>4, <1>8, Elsewhere DEF HasOpened
  <2>2. CASE stack[t] # <<>>
    <3>1. PICK d : d = stack[t][1]
      OBVIOUS
    <3>2. NewStream(d)'
      BY <1>3, <1>5, <1>8, <2>2, <3>1
    <3>3. ComesElse(t, {c, d}) /\ \A e \in {c, d} : NewStream(e)'
      BY <2>1, <3>1, <3>2
    <3> QED BY <1>6, <1>8, <3>3
  <2>3. CASE stack[t] = <<>>
    <3>1. ComesElse(t, {c})
      <4>1. Comes(t, {c})
        BY <1>0, <1>8, PushedOver
      <4> QED BY <2>3, <4>1 DEF Comes, ComesElse
    <3> QED BY <1>6, <1>8, <2>1, <3>1
  <2> QED BY <2>2, <2>3
<1>9. ASSUME UNCHANGED stack, UNCHANGED <<lfp, closed, log_file_descriptor>> PROVE NewStreams'
  BY <1>0, <1>1, <1>9 DEF NewStreams, NewStream, HasOpened, Carries
<1>10. ASSUME MainStep PROVE NewStreams'
  <2>1. UNCHANGED <<closed, log_file_descriptor>> /\ stack[Main] = <<>>
    BY <1>0, <1>10, MainShapes DEF unchangedLog, fileVars
  <2>2. \/ UNCHANGED <<stack, lfp>>
        \/ StartsLog(Main) /\ lfp' = lfp
        \/ StartsLog(Main) /\ pc = "logfile"
        \/ (\E fac \in {"system", "stdout"} : StartsSetup(fac, NULL)) /\ UNCHANGED lfp
        \/ pc = "logfile" /\ lfp' = opened + 1 /\ StartsSetup("file", opened + 1)
    <3>1. \/ UNCHANGED <<stack, lfp>>
          \/ StartsLog(Main) /\ lfp' = lfp
          \/ StartsLog(Main) /\ pc = "logfile"
          \/ (\E fac \in {"system", "stdout"} : StartsSetup(fac, NULL)) /\ UNCHANGED lfp
          \/ lfp' = opened + 1 /\ StartsSetup("file", opened + 1)
      BY <1>0, <1>10, MainShapes, Zenon
    <3>2. lfp' = lfp \/ pc = "logfile"
      BY <1>10 DEF MainStep, MainStart, ParseOptions, OpenLogFile, UseStdout, TestOnly, TestResult, MainEnd,
         FindConfig, ChangeDirectory, Starting, Fork, RecordPID, InitTerminationHandler, LoadConfig,
         Announce, SetUid, SetGid, StartThreads, mainVars, MainAt
    <3>3. lfp # opened + 1
      BY <1>0 DEF MainOK, LogOK, NULL
    <3> QED BY <3>1, <3>2, <3>3
  <2>3. pc = "logfile" => OtherCalls(Main) = {}
    <3>1. pc = "logfile" => ~started
      BY DEF Progress
    <3>2. pc = "logfile" => \A u \in Threads : stack[u] = <<>>
      BY <2>1, <3>1 DEF Progress
    <3>3. \A l \in 1..Len(<<>>) : FALSE
      OBVIOUS
    <3> QED BY <3>2, <3>3 DEF OtherCalls
  <2>4. CASE UNCHANGED <<stack, lfp>>
    BY <1>9, <2>1, <2>4
  <2>5. CASE StartsLog(Main) /\ lfp' = lfp
    BY <1>0, <1>8, <2>1, <2>5 DEF StartsLog, LogCall
  <2>6. ASSUME NEW c, c.fn \in {"log", "setup"}, NewStream(c)', Pushed(Main, c, stack[Main][1]), pc = "logfile"
        PROVE  NewStreams'
    <3>1. Comes(Main, {c})
      BY <1>0, <2>6, PushedOver
    <3>2. ComesElse(Main, {c})
      <4>1. \A l \in 1..Len(<<>>) : FALSE
        OBVIOUS
      <4> QED BY <2>1, <3>1, <4>1 DEF Comes, ComesElse
    <3>3. \A e \in {c} : NewStream(e)'
      BY <2>6
    <3> QED BY <1>0, <2>3, <2>6, <3>2, <3>3, NewStreamsStep
  <2>7. CASE pc = "logfile" /\ StartsLog(Main)
    <3>1. PICK c \in Frames : LogCall(c) /\ Pushed(Main, c, stack[Main][1])
      BY <2>7 DEF StartsLog
    <3>2. NewStream(c)' /\ c.fn = "log"
      BY <1>4, <3>1 DEF LogCall, HasOpened
    <3> QED BY <2>6, <2>7, <3>1, <3>2
  <2>8. ASSUME NEW fac \in {"system", "stdout"}, StartsSetup(fac, NULL), UNCHANGED lfp PROVE NewStreams'
    BY <1>0, <1>8, <2>1, <2>8 DEF StartsSetup
  <2>9. CASE pc = "logfile" /\ lfp' = opened + 1 /\ StartsSetup("file", opened + 1)
    <3>1. PICK c \in Frames : c.fn = "setup" /\ c.pc = "lock" /\ c.arg = "file" /\ c.fd = opened + 1
                              /\ Pushed(Main, c, stack[Main][1])
      BY <2>9 DEF StartsSetup
    <3>2. opened + 1 # NULL /\ opened + 1 \notin closed /\ opened + 1 # log_file_descriptor
      BY <1>0 DEF LogOK, NULL
    <3>3. NewStream(c)'
      BY <2>1, <3>1, <3>2 DEF NewStream, HasOpened, Carries
    <3> QED BY <2>6, <2>9, <3>1, <3>3
  <2> QED BY <2>2, <2>4, <2>5, <2>7, <2>8, <2>9
<1>11. ASSUME NEW t \in Threads, LogSomething(t) PROVE NewStreams'
  <2>1. StartsLog(t) /\ UNCHANGED <<lfp, closed, log_file_descriptor>>
    BY <1>0, <1>11, SomethingShape DEF LogSomething, fileVars, mainVars
  <2> QED BY <1>8, <2>1 DEF StartsLog, LogCall
<1>12. ASSUME NEW fn \in {"hup", "term"}, Signal(fn) PROVE NewStreams'
  <2>1. UNCHANGED <<lfp, closed, log_file_descriptor>>
    BY <1>12 DEF Signal, fileVars, mainVars
  <2>2. CASE UNCHANGED stack
    BY <1>9, <2>1, <2>2
  <2>3. ASSUME NEW t \in Threads, NEW c \in Frames, c.fn = fn, c.pc = "begin", Pushed(t, c, stack[t][1])
        PROVE  NewStreams'
    BY <1>8, <1>12, <2>1, <2>3
  <2> QED BY <1>0, <1>12, <2>2, <2>3, SignalShape
<1>13. ASSUME NEW t \in Threads, UNCHANGED lfp, LogSuppress(t) \/ LogBegin(t) \/ LogReported(t) \/ LogWrite(t)
      PROVE  NewStreams'
  <2>1. UNCHANGED <<lfp, closed, log_file_descriptor>>
    BY <1>13 DEF LogSuppress, LogBegin, LogReported, LogWrite, fileVars
  <2>2. stack[t][1].fn = "log" /\ (Pops(t) \/ GoesOn(t) \/ UNCHANGED stack)
    BY <1>0, <1>13, LoggerCases, LogShapes DEF LoggerStep, At
  <2>3. ASSUME GoesOn(t) PROVE NewStreams'
    <3>1. PICK d \in Frames : Turned(t, d) /\ d.fn = "log"
      BY <2>2, <2>3 DEF GoesOn
    <3>2. ComesElse(t, {d}) /\ NewStream(d)'
      BY <1>0, <1>4, <3>1, Elsewhere DEF HasOpened
    <3> QED BY <1>6, <2>1, <3>2
  <2> QED BY <1>7, <1>9, <2>1, <2>2, <2>3 DEF Pops
<1>14. ASSUME NEW t \in Threads, UNCHANGED lfp, SetupRefused(t) PROVE NewStreams'
  <2>1. UNCHANGED <<lfp, closed, log_file_descriptor>> /\ Popped(t)
    BY <1>0, <1>14, SetupShapes DEF SetupRefused, fileVars
  <2> QED BY <1>7, <2>1
<1>15. ASSUME NEW t \in Threads, UNCHANGED lfp, SetupClose(t) PROVE NewStreams'
  <2>1. CASE log_facility = "file" /\ log_file_descriptor = NULL
    BY <1>9, <1>15, <2>1 DEF SetupClose, fileVars
  <2>2. CASE ~(log_facility = "file" /\ log_file_descriptor = NULL)
    <3>1. UNCHANGED <<lfp, log_file_descriptor>> /\ closed' \subseteq closed \cup {log_file_descriptor}
      BY <1>15, <2>2 DEF SetupClose
    <3>2. ASSUME NEW c, NewStream(c) PROVE NewStream(c)'
      BY <3>1, <3>2 DEF NewStream, HasOpened, Carries
    <3>3. At(t, "setup", "lock") /\ Moves(t, "assign", stack[t][1].fd, stack[t][1].at)
      BY <1>0, <1>15, <2>2, SetupShapes
    <3>4. PICK d \in Frames :
            Turned(t, d) /\ d.fn = "setup" /\ d.arg = stack[t][1].arg /\ d.fd = stack[t][1].fd
      BY <3>3 DEF Moves, At
    <3>5. NewStream(stack[t][1]) /\ stack[t][1].fn = "setup"
      BY <1>3, <3>3 DEF At
    <3>6. NewStream(d)
      BY <3>4, <3>5 DEF NewStream, HasOpened, Carries
    <3>7. ComesElse(t, {d}) /\ \A c \in {d} : NewStream(c)'
      BY <1>0, <3>2, <3>4, <3>6, Elsewhere
    <3>8. \A c \in OtherCalls(t) : NewStream(c)'
      BY <1>2, <3>2
    <3> QED BY <1>0, <3>7, <3>8, NewStreamsStep
  <2> QED BY <2>1, <2>2
<1>16. ASSUME NEW t \in Threads, UNCHANGED lfp, SetupAssign(t) PROVE NewStreams'
  <2>1. At(t, "setup", "assign") /\ Popped(t) /\ UNCHANGED closed
    BY <1>0, <1>16, SetupShapes DEF SetupAssign
  <2>2. log_file_descriptor' = DescriptorAfter(stack[t][1])
    BY <1>16, <2>1 DEF SetupAssign, At
  <2>3. ASSUME NEW c \in OtherCalls(t) PROVE NewStream(c)'
    <3>1. CASE stack[t][1].arg = "file"
      <4>1. ~HasOpened(c) /\ ~(c.fn = "setup" /\ c.arg = "file")
        BY <1>0, <2>1, <2>3, <3>1, OnlyCarrier DEF At
      <4> QED BY <1>4, <4>1
    <3>2. CASE stack[t][1].arg # "file"
      <4>1. log_file_descriptor' \in {NULL, log_file_descriptor}
        BY <2>2, <3>2 DEF DescriptorAfter
      <4>2. NewStream(c)
        BY <1>2, <2>3
      <4> QED BY <1>16, <2>1, <4>1, <4>2 DEF NewStream, HasOpened, Carries
    <3> QED BY <3>1, <3>2
  <2>4. ComesElse(t, {}) /\ \A c \in {} : NewStream(c)'
    BY <1>0, <2>1, Elsewhere
  <2> QED BY <1>0, <2>3, <2>4, NewStreamsStep
<1>17. ASSUME NEW t \in Threads, UNCHANGED <<lfp, closed, log_file_descriptor>>, NEW c \in Frames, NEW d \in Frames,
              Pushed(t, c, d), NewStream(c)', ~HasOpened(d), d.fn # "setup"
      PROVE  NewStreams'
  <2>1. NewStream(d)' /\ ComesElse(t, {c, d})
    BY <1>0, <1>4, <1>17, Elsewhere
  <2>2. \A e \in {c, d} : NewStream(e)'
    BY <1>17, <2>1
  <2> QED BY <1>6, <1>17, <2>1, <2>2
<1>18. ASSUME NEW t \in Threads, HandlerCalls(t) \/ Exit(t) PROVE NewStreams'
  <2>1. UNCHANGED <<lfp, closed, log_file_descriptor>>
    BY <1>18 DEF HandlerCalls, Exit, fileVars, mainVars
  <2>2. CASE HandlerCalls(t)
    <3>1. ASSUME NEW c \in Frames, NEW fn, NEW at, NEW p, p \notin {"check", "use"}, fn # "setup", At(t, fn, at), Makes(t, c, p),
                 c.fn = "log" \/ (c.fn = "setup" /\ c.arg # "file")
          PROVE  NewStreams'
      <4>1. PICK d \in Frames : Pushed(t, c, d) /\ d.fn = fn /\ d.pc = p
        BY <3>1 DEF Makes, At
      <4>2. NewStream(c)' /\ ~HasOpened(d) /\ d.fn # "setup"
        BY <1>4, <3>1, <4>1 DEF HasOpened
      <4> QED BY <1>17, <2>1, <4>1, <4>2
    <3>2. CASE HupCalls(t)
      BY <3>1, <3>2 DEF HupCalls, LogsThen, LogCall
    <3>3. CASE TermCalls(t)
      BY <3>1, <3>3 DEF TermCalls, LogsThen, LogCall
    <3>4. CASE At(t, "term", "close") /\ SetsThen(t, "close", NULL, "exit")
      BY <3>1, <3>4 DEF SetsThen
    <3> QED BY <1>0, <1>7, <2>1, <2>2, <3>2, <3>3, <3>4, HandlerShapes
  <2>3. CASE Exit(t)
    <3>1. PICK d \in Frames : Turned(t, d) /\ d.fn = "term"
      BY <1>0, <2>3, LfpShapes DEF Moves, At
    <3>2. ComesElse(t, {d}) /\ NewStream(d)'
      BY <1>0, <1>4, <3>1, Elsewhere DEF HasOpened
    <3> QED BY <1>6, <2>1, <3>2
  <2> QED BY <1>18, <2>2, <2>3
<1>19. ASSUME NEW t \in Threads, Reopen(t) PROVE NewStreams'
  <2>1. UNCHANGED <<closed, log_file_descriptor>> /\ At(t, "hup", "begin")
    BY <1>0, <1>19, LfpShapes DEF Reopen, fileVars
  <2>2. CASE Popped(t) /\ UNCHANGED lfp
    BY <1>7, <2>1, <2>2
  <2>3. CASE /\ Moves(t, "check", lfp', stack[t][1].at)
             /\ (opened' = opened + 1 /\ lfp' = opened + 1) \/ (opened' = opened /\ lfp' = NULL)
    <3>1. PICK d \in Frames :
            Turned(t, d) /\ d.fn = "hup" /\ d.pc = "check" /\ d.fd = lfp' /\ d.at = stack[t][1].at
      BY <2>1, <2>3 DEF Moves, At
    <3>2. stack[t][1].at <= opened /\ stack[t][1].at \in Nat /\ opened \in Nat
      BY <1>0, <1>3, <2>1 DEF At, FrameOK, Frames, LogOK
    <3>3. opened + 1 > stack[t][1].at /\ opened + 1 \notin closed /\ opened + 1 # log_file_descriptor /\ opened + 1 # NULL
      BY <1>0, <3>2 DEF LogOK, NULL
    <3>4. NewStream(d)'
      BY <2>1, <2>3, <3>1, <3>3 DEF NewStream, HasOpened, Carries
    <3>5. \A c \in OtherCalls(t) : NewStream(c)'
      BY <1>0, <1>4, <2>1, OnlyCarrier DEF At
    <3>6. ComesElse(t, {d}) /\ \A c \in {d} : NewStream(c)'
      BY <1>0, <3>1, <3>4, Elsewhere
    <3> QED BY <1>0, <3>5, <3>6, NewStreamsStep
  <2> QED BY <1>0, <1>19, <2>2, <2>3, LfpShapes
<1>20. ASSUME NEW t \in Threads, CheckLfp(t) \/ UseLfp(t) PROVE NewStreams'
  <2>1. UNCHANGED <<lfp, closed, log_file_descriptor>>
    BY <1>20 DEF CheckLfp, UseLfp, fileVars, mainVars
  <2>2. CASE CheckLfp(t)
    <3>1. At(t, "hup", "check") /\ NewStream(stack[t][1])
      BY <1>0, <1>3, <2>2, LfpShapes DEF At
    <3>2. lfp = stack[t][1].fd /\ (stack[t][1].fd # NULL => stack[t][1].fd > stack[t][1].at)
      BY <3>1 DEF NewStream, HasOpened, At
    <3>3. CASE SetsThen(t, "system", NULL, "error")
      <4>1. PICK c \in Frames : c.fn = "setup" /\ c.arg = "system" /\ Makes(t, c, "error")
        BY <3>3 DEF SetsThen
      <4>2. PICK d \in Frames : Pushed(t, c, d) /\ d.fn = "hup" /\ d.pc = "error"
        BY <3>1, <4>1 DEF Makes, At
      <4>3. NewStream(c)' /\ ~HasOpened(d) /\ d.fn # "setup"
        BY <1>4, <4>1, <4>2 DEF HasOpened
      <4> QED BY <1>17, <2>1, <4>2, <4>3
    <3>4. CASE {lfp, stack[t][1].fd} # {NULL} /\ Moves(t, "use", stack[t][1].fd, stack[t][1].at)
      <4>1. PICK d \in Frames :
              /\ Turned(t, d) /\ d.fn = "hup" /\ d.pc = "use"
              /\ d.fd = stack[t][1].fd /\ d.at = stack[t][1].at
        BY <3>1, <3>4 DEF Moves, At
      <4>2. stack[t][1].fd # NULL
        BY <3>2, <3>4
      <4>3. NewStream(d)
        BY <3>1, <3>2, <4>1, <4>2 DEF NewStream, HasOpened, Carries, At
      <4>4. ComesElse(t, {d}) /\ \A e \in {d} : NewStream(e)'
        BY <1>0, <1>5, <2>1, <4>1, <4>3, Elsewhere
      <4> QED BY <1>6, <2>1, <4>4
    <3> QED BY <1>0, <2>2, <3>3, <3>4, LfpShapes
  <2>3. CASE UseLfp(t)
    <3>1. At(t, "hup", "use") /\ NewStream(stack[t][1])
      BY <1>0, <1>3, <2>3, LfpShapes DEF At
    <3>2. PICK fp \in {lfp, stack[t][1].fd} : SetsThen(t, "file", fp, "reopened")
      BY <1>0, <2>3, LfpShapes
    <3>3. PICK c \in Frames : c.fn = "setup" /\ c.arg = "file" /\ c.fd = fp /\ Makes(t, c, "reopened")
      BY <3>2 DEF SetsThen
    <3>4. PICK d \in Frames : Pushed(t, c, d) /\ d.fn = "hup" /\ d.pc = "reopened"
      BY <3>1, <3>3 DEF Makes, At
    <3>5. NewStream(c)
      BY <3>1, <3>2, <3>3 DEF NewStream, HasOpened, Carries, At
    <3>6. NewStream(c)' /\ ~HasOpened(d) /\ d.fn # "setup"
      BY <1>5, <2>1, <3>4, <3>5 DEF HasOpened
    <3> QED BY <1>17, <2>1, <3>4, <3>6
  <2> QED BY <1>20, <2>2, <2>3
<1>21. ASSUME UNCHANGED vars \/ Gone PROVE NewStreams'
  BY <1>9, <1>21 DEF vars, logVars, fileVars, mainVars, Gone
<1>22. ASSUME NEW t \in Threads, Logging(t) PROVE NewStreams'
  BY <1>13, <1>14, <1>15, <1>16, <1>22 DEF Logging, LoggerStep, mainVars
<1> QED BY <1>10, <1>11, <1>12, <1>18, <1>19, <1>20, <1>21, <1>22 DEF Next, ThreadStep

\* Only its own last step, or its refusal, takes a setupLogFacility off a stack.
LEMMA SetupReturns ==
  ASSUME TypeOK, Progress, [Next]_vars, NEW t \in Threads, Popped(t), stack[t][1].fn = "setup"
  PROVE  SetupAssign(t) \/ SetupRefused(t)
<1>0. /\ LogOK /\ MainOK /\ CallsOK /\ stack \in Stacks /\ stack' \in Stacks /\ Main \in Threads
      /\ Len(stack[t]) \in Nat /\ Len(stack[t]) >= 1 /\ Len(stack'[t]) = Len(stack[t]) - 1 /\ stack[t] # <<>>
  BY CallsKept, Running1, MainAssumption DEF TypeOK, CallsOK, Stacks, Popped
<1>1. stack'[t] # stack[t]
  BY <1>0
<1>2. ASSUME NEW s \in Threads, Others(s) PROVE s = t
  BY <1>1, <1>2 DEF Others
<1>3. ASSUME NEW c, NEW d, Pushed(t, c, d) \/ Turned(t, d) PROVE FALSE
  BY <1>0, <1>3 DEF Pushed, Turned
<1>4. ASSUME NEW s \in Threads, StartsLog(s) PROVE FALSE
  <2>1. s = t
    BY <1>2, <1>4 DEF StartsLog, Pushed
  <2> QED BY <1>0, <1>4, <2>1 DEF StartsLog
<1>5. ASSUME NEW fac, NEW f, StartsSetup(fac, f) PROVE FALSE
  <2>1. Main = t
    BY <1>0, <1>2, <1>5 DEF StartsSetup, Pushed
  <2> QED BY <1>0, <1>5, <2>1 DEF StartsSetup
<1>6. ASSUME UNCHANGED stack PROVE FALSE
  BY <1>1, <1>6
<1>7. ASSUME MainStep PROVE FALSE
  <2>1. \/ UNCHANGED stack
        \/ StartsLog(Main)
        \/ (\E fac \in {"system", "stdout"} : StartsSetup(fac, NULL)) \/ StartsSetup("file", opened + 1)
    BY <1>0, <1>7, MainShapes, Zenon
  <2> QED BY <1>0, <1>4, <1>5, <1>6, <2>1
<1>8. ASSUME NEW s \in Threads, LogSomething(s) PROVE FALSE
  BY <1>0, <1>4, <1>8, SomethingShape
<1>9. ASSUME NEW fn \in {"hup", "term"}, Signal(fn) PROVE FALSE
  <2>1. ASSUME NEW s \in Threads, NEW c \in Frames, Pushed(s, c, stack[s][1]) PROVE FALSE
    <3>1. s = t
      BY <1>2, <2>1 DEF Pushed
    <3> QED BY <1>3, <2>1, <3>1
  <2> QED BY <1>0, <1>6, <1>9, <2>1, SignalShape
<1>10. ASSUME NEW s \in Threads, LoggerStep(s) PROVE SetupAssign(t) \/ SetupRefused(t)
  <2>1. s = t
    BY <1>2, <1>6, <1>10, LoggerCases DEF Pops, GoesOn, Popped, Turned
  <2>2. ~(LogSuppress(t) \/ LogBegin(t) \/ LogReported(t) \/ LogWrite(t))
    BY <1>0, LogShapes DEF At
  <2>3. ~SetupClose(t)
    <3>1. ASSUME NEW p, NEW f, NEW a, Moves(t, p, f, a) PROVE FALSE
      BY <1>3, <3>1 DEF Moves
    <3> QED BY <1>0, <1>6, <3>1, SetupShapes
  <2> QED BY <1>10, <2>1, <2>2, <2>3 DEF LoggerStep
<1>11. ASSUME NEW s \in Threads, HandlerCalls(s) \/ Reopen(s) \/ CheckLfp(s) \/ UseLfp(s) \/ Exit(s) PROVE FALSE
  <2>1. s = t
    BY <1>2, <1>11, HandlerCases DEF Pops, GoesOn, Nests, Popped, Turned, Pushed
  <2>2. CASE HandlerCalls(s)
    BY <1>0, <2>1, <2>2, HandlerShapes DEF At, HupCalls, TermCalls
  <2> QED BY <1>0, <1>11, <2>1, <2>2, LfpShapes DEF At
<1>12. ~(UNCHANGED vars) /\ ~Gone
  BY <1>6 DEF vars, logVars, Gone
<1> QED BY <1>7, <1>8, <1>9, <1>10, <1>11, <1>12 DEF Next, ThreadStep, Logging

\* How the log is by the time a SIGHUP handler has set it up, step by step.
LEMMA RotatesKept ==
  ASSUME TypeOK, Progress, NoHandlerYet, Layers, HupAlone, NewStreams, Rotates, [Next]_vars
  PROVE  Rotates'
<1> SUFFICES ASSUME Alone', ~ClosingLog', NEW u \in Threads, NEW k \in 1..Len(stack'[u]), NEW e, e = stack'[u][k],
                    e.fn = "hup", k > 1 => stack'[u][k - 1].fn # "setup"
             PROVE  /\ e.pc = "error" => log_facility' = "system"
                    /\ e.pc \in {"reopened", "return"} => Rotated(e.at)'
  BY DEF Rotates, Rotated
<1> DEFINE Goal == /\ e.pc = "error" => log_facility' = "system"
                   /\ e.pc \in {"reopened", "return"} => Rotated(e.at)'
<1>0. /\ stack \in Stacks /\ stack' \in Stacks /\ Alone /\ LogOK /\ MainOK /\ CallsOK /\ Main \in Threads
      /\ ~ClosingLog /\ Len(stack'[u]) \in Nat /\ Len(stack[u]) \in Nat
  <2>1. stack \in Stacks /\ stack' \in Stacks /\ LogOK /\ MainOK /\ CallsOK
    BY CallsKept DEF TypeOK, CallsOK, Stacks
  <2>2. Len(stack'[u]) \in Nat /\ Len(stack[u]) \in Nat
    BY <2>1 DEF Stacks
  <2>3. Alone
    BY Grows DEF Grown
  <2>4. ~ClosingLog
    BY ClosingKept
  <2> QED BY <2>1, <2>2, <2>3, <2>4, MainAssumption
<1>1. ASSUME NEW v \in Threads, NEW l \in 1..Len(stack[v]), stack[v][l].fn = "hup",
             l > 1 => stack[v][l - 1].fn # "setup"
      PROVE  /\ stack[v][l].pc = "error" => log_facility = "system"
             /\ stack[v][l].pc \in {"reopened", "return"} => Rotated(stack[v][l].at)
  BY <1>0, <1>1 DEF Rotates
<1>2. ASSUME NEW t \in Threads, SetupAssign(t) PROVE Goal
  <2>1. At(t, "setup", "assign") /\ Popped(t) /\ UNCHANGED closed /\ 1 \in 1..Len(stack[t])
    BY <1>0, <1>2, SetupShapes, Running1 DEF SetupAssign, At
  <2>2. /\ log_file_descriptor' = DescriptorAfter(stack[t][1])
        /\ log_facility' = IF stack[t][1].arg = "close" THEN log_facility ELSE stack[t][1].arg
    BY <1>2, <2>1 DEF SetupAssign, At
  <2>3. PICK l \in 1..Len(stack[u]) : e = stack[u][l] /\ ~(u = t /\ l = 1)
    <3>1. ComesElse(t, {})
      BY <1>0, <2>1, Elsewhere
    <3> QED BY <3>1 DEF ComesElse
  <2>4. CASE NoHandlers
    BY <2>3, <2>4 DEF NoHandlers
  <2>5. CASE 2 \in 1..Len(stack[t]) /\ Atop(stack[t][1], stack[t][2])
    <3>1. ~(stack[t][2].fn = "term" /\ stack[t][2].pc = "exit")
      BY <1>0, <2>5 DEF ClosingLog
    <3>2. /\ stack[t][2].fn = "hup"
          /\ \/ stack[t][1].arg = "file" /\ stack[t][2].pc = "reopened" /\ stack[t][1].fd > stack[t][2].at
             \/ stack[t][1].arg = "system" /\ stack[t][2].pc = "error"
      BY <1>0, <2>1, <2>5, <3>1 DEF Atop, At
    <3>3. e = stack[t][2]
      <4>1. u = t /\ l = 2
        BY <1>0, <2>3, <2>5, <3>2 DEF HupAlone
      <4> QED BY <2>3, <4>1
    <3>4. stack[t][1].arg = "file" => stack[t][1].fd \notin closed
      BY <1>0, <2>1 DEF NewStreams, NewStream, Carries, At
    <3> QED BY <2>1, <2>2, <3>2, <3>3, <3>4 DEF Rotated, DescriptorAfter
  <2>6. 1 + 1 = 2
    OBVIOUS
  <2> QED BY <2>1, <2>4, <2>5, <2>6, SetupOn DEF At
<1>3. ASSUME NEW t \in Threads, SetupClose(t), ~(log_facility = "file" /\ log_file_descriptor = NULL) PROVE Goal
  <2>1. At(t, "setup", "lock") /\ 1 \in 1..Len(stack[t]) /\ Moves(t, "assign", stack[t][1].fd, stack[t][1].at)
    BY <1>0, <1>3, SetupShapes, Running1 DEF At
  <2>2. PICK d \in Frames : Turned(t, d) /\ d.fn = "setup"
    BY <2>1 DEF Moves, At
  <2>3. CASE NoHandlers
    <3>1. ComesElse(t, {d})
      BY <1>0, <2>2, Elsewhere
    <3> QED BY <2>2, <2>3, <3>1 DEF ComesElse, NoHandlers
  <2>4. CASE 2 \in 1..Len(stack[t]) /\ Atop(stack[t][1], stack[t][2])
    <3>1. ~(stack[t][2].fn = "term" /\ stack[t][2].pc = "exit")
      BY <1>0, <2>4 DEF ClosingLog
    <3>2. stack[t][2].fn = "hup"
      BY <2>1, <2>4, <3>1 DEF Atop, At
    <3>3. \A v \in Threads : \A l \in 1..Len(stack[v]) : stack[v][l].fn = "hup" => v = t /\ l = 2
      BY <1>0, <2>4, <3>2 DEF HupAlone
    <3>4. CASE u = t
      <4>1. /\ Len(stack'[t]) = Len(stack[t]) /\ stack'[t][1] = d
            /\ \A j \in 2..Len(stack[t]) : stack'[t][j] = stack[t][j]
        BY <1>0, <2>2, Positions
      <4>2. k # 1
        BY <2>2, <3>4, <4>1
      <4>3. k \in 2..Len(stack[t]) /\ e = stack[t][k]
        BY <1>0, <3>4, <4>1, <4>2
      <4>4. k = 2
        BY <3>3, <4>3
      <4>5. stack'[t][k - 1] = d /\ k > 1
        BY <4>1, <4>4
      <4> QED BY <2>2, <3>4, <4>5
    <3>5. CASE u # t
      <4>1. stack'[u] = stack[u]
        BY <2>2, <3>5 DEF Turned, Others
      <4> QED BY <3>3, <3>5, <4>1
    <3> QED BY <3>4, <3>5
  <2>5. 1 + 1 = 2
    OBVIOUS
  <2> QED BY <2>1, <2>3, <2>4, <2>5, SetupOn DEF At
<1>4. ASSUME NEW t \in Threads, SetupRefused(t) PROVE Goal
  <2>1. At(t, "setup", "lock") /\ 1 \in 1..Len(stack[t]) /\ stack[t][1].arg = "file" /\ stack[t][1].fd = NULL
    BY <1>0, <1>4, SetupShapes, Running1 DEF At
  <2> QED BY <1>0, <2>1 DEF NewStreams, NewStream, At
<1>5. ASSUME UNCHANGED <<log_facility, log_file_descriptor, closed>>,
             \A t \in Threads : ~SetupAssign(t) /\ ~SetupRefused(t)
      PROVE  Goal
  <2>1. ASSUME NEW at, Rotated(at) PROVE Rotated(at)'
    BY <1>5, <2>1 DEF Rotated
  <2>2. ASSUME NEW l \in 1..Len(stack[u]), e = stack[u][l], l > 1 => stack[u][l - 1].fn # "setup" PROVE Goal
    BY <1>1, <1>5, <2>1, <2>2
  <2>3. ASSUME NEW t \in Threads, Others(t), u # t PROVE Goal
    <3>1. stack'[u] = stack[u]
      BY <2>3 DEF Others
    <3> QED BY <2>2, <3>1
  <2> HIDE DEF Goal
  <2>4. ASSUME UNCHANGED stack PROVE Goal
    BY <2>2, <2>4
  <2>5. ASSUME NEW t \in Threads, Pops(t), stack[t][1].fn # "setup" PROVE Goal
    <3>1. CASE u = t
      <4>1. \A j \in 1..Len(stack'[t]) : j + 1 \in 1..Len(stack[t]) /\ stack'[t][j] = stack[t][j + 1]
        BY <1>0, <2>5, Positions DEF Pops
      <4>2. k + 1 \in 1..Len(stack[u]) /\ e = stack[u][k + 1] /\ (k + 1) - 1 = k
        BY <3>1, <4>1
      <4>3. stack[u][k].fn # "setup"
        <5>1. CASE k = 1
          BY <2>5, <3>1, <5>1
        <5>2. CASE k # 1
          <6>1. k - 1 \in 1..Len(stack'[t]) /\ (k - 1) + 1 = k /\ k > 1
            BY <1>0, <3>1, <5>2
          <6> QED BY <3>1, <4>1, <6>1
        <5> QED BY <5>1, <5>2
      <4> QED BY <2>2, <4>2, <4>3
    <3> QED BY <2>3, <2>5, <3>1 DEF Pops, Popped
  <2>6. ASSUME NEW t \in Threads, GoesOn(t) PROVE Goal
    <3>1. PICK d \in Frames : Turned(t, d) /\ d.fn = stack[t][1].fn /\ (d.fn = "hup" => d.pc \in {"check", "use"})
      BY <2>6 DEF GoesOn
    <3>2. CASE u = t
      <4>1. /\ Len(stack'[t]) = Len(stack[t]) /\ stack'[t][1] = d
            /\ \A j \in 2..Len(stack[t]) : stack'[t][j] = stack[t][j]
        BY <1>0, <3>1, Positions
      <4>2. CASE k = 1
        BY <3>1, <3>2, <4>1, <4>2 DEF Goal
      <4>3. CASE k # 1
        <5>1. k \in 2..Len(stack[t]) /\ e = stack[u][k] /\ k \in 1..Len(stack[u]) /\ k > 1
          BY <1>0, <3>2, <4>1, <4>3
        <5>2. stack[u][k - 1].fn = stack'[u][k - 1].fn
          <6>1. CASE k = 2
            <7>1. k - 1 = 1
              BY <6>1
            <7> QED BY <3>1, <3>2, <4>1, <7>1
          <6>2. CASE k # 2
            <7>1. k - 1 \in 2..Len(stack[t])
              BY <5>1, <6>2
            <7> QED BY <3>2, <4>1, <7>1
          <6> QED BY <6>1, <6>2
        <5> QED BY <2>2, <5>1, <5>2
      <4> QED BY <4>2, <4>3
    <3> QED BY <2>3, <3>1, <3>2 DEF Turned
  <2>7. ASSUME NEW t \in Threads, NEW c, NEW d, Pushed(t, c, d), c.fn = "hup" => c.pc = "begin",
               stack[t] # <<>> => d.fn = stack[t][1].fn,
               u = t /\ k = 2 /\ e = d /\ stack[t] # <<>> => Goal
        PROVE  Goal
    <3>1. CASE u = t
      <4>1. /\ Len(stack'[t]) = Len(stack[t]) + 1 /\ Len(stack[t]) \in Nat
            /\ stack'[t][1] = c
            /\ Len(stack'[t]) >= 2 => stack'[t][2] = d
            /\ \A j \in 3..Len(stack'[t]) : j - 1 \in 2..Len(stack[t]) /\ stack'[t][j] = stack[t][j - 1]
        BY <1>0, <2>7, Positions
      <4>2. CASE k = 1
        BY <2>7, <3>1, <4>1, <4>2 DEF Goal
      <4>3. CASE k = 2
        <5>1. Len(stack[t]) >= 1 /\ e = d
          BY <3>1, <4>1, <4>3
        <5>2. stack[t] # <<>>
          BY <5>1
        <5> QED BY <2>7, <3>1, <4>3, <5>1, <5>2
      <4>4. CASE k \notin {1, 2}
        <5>1. k \in 3..Len(stack'[t]) /\ k > 1 /\ Len(stack'[t]) >= 2
          BY <1>0, <3>1, <4>4
        <5>2. k - 1 \in 1..Len(stack[u]) /\ e = stack[u][k - 1]
          BY <3>1, <4>1, <5>1
        <5>3. stack[u][(k - 1) - 1].fn = stack'[u][k - 1].fn
          <6>1. CASE k = 3
            <7>1. k - 1 = 2 /\ (k - 1) - 1 = 1
              BY <6>1
            <7>2. stack[t] # <<>>
              BY <4>1, <5>1, <6>1
            <7> QED BY <2>7, <3>1, <4>1, <5>1, <7>1, <7>2
          <6>2. CASE k # 3
            <7>1. k - 1 \in 3..Len(stack'[t])
              BY <5>1, <6>2
            <7> QED BY <3>1, <4>1, <7>1
          <6> QED BY <6>1, <6>2
        <5> QED BY <2>2, <5>1, <5>2, <5>3
      <4> QED BY <4>2, <4>3, <4>4
    <3> QED BY <2>3, <2>7, <3>1 DEF Pushed
  <2>8. ASSUME NEW t \in Threads, NEW c, Pushed(t, c, stack[t][1]), c.fn = "hup" => c.pc = "begin" PROVE Goal
    <3>1. ASSUME u = t, k = 2, e = stack[t][1], stack[t] # <<>> PROVE Goal
      <4>1. 1 \in 1..Len(stack[u])
        BY <1>0, <3>1, Running1
      <4> QED BY <2>2, <3>1, <4>1
    <3> QED BY <2>7, <2>8, <3>1
  <2>9. ASSUME NEW t \in Threads, NEW c \in Frames, NEW d \in Frames, Nests(t, c, d) PROVE Goal
    <3>1. /\ Pushed(t, c, d) /\ c.fn # "hup" /\ d.fn = stack[t][1].fn /\ d.at = stack[t][1].at /\ stack[t] # <<>>
          /\ NestsLog(t, c, d) \/ (c.fn = "setup" /\ NestsSetup(t, c, d))
      BY <2>9 DEF Nests, NestsLog, NestsSetup, LogCall
    <3>2. ASSUME u = t, k = 2, e = d PROVE Goal
      <4>1. stack'[u][k - 1].fn = c.fn /\ k > 1
        <5>1. k - 1 = 1
          BY <3>2
        <5>2. stack'[t][1] = c
          BY <3>1 DEF Pushed
        <5> QED BY <3>2, <5>1, <5>2
      <4>2. NestsLog(t, c, d)
        BY <3>1, <4>1
      <4>3. 1 \in 1..Len(stack[t])
        BY <1>0, <3>1, Running1
      <4>4. /\ stack[t][1].pc = "error" => log_facility = "system"
            /\ stack[t][1].pc \in {"reopened", "return"} => Rotated(stack[t][1].at)
        BY <1>1, <3>1, <3>2, <4>3
      <4>5. \/ e.pc = "reopened" /\ stack[t][1].pc = "error"
            \/ e.pc = "return" /\ stack[t][1].pc = "reopened"
        BY <3>2, <4>2 DEF NestsLog
      <4>6. Rotated(e.at)
        BY <3>1, <3>2, <4>4, <4>5 DEF Rotated
      <4> QED BY <2>1, <4>5, <4>6 DEF Goal
    <3> QED BY <2>7, <3>1, <3>2
  <2>10. ASSUME NEW t \in Threads, StartsLog(t) PROVE Goal
    BY <2>8, <2>10 DEF StartsLog, LogCall
  <2>11. ASSUME NEW fac, NEW f, StartsSetup(fac, f) PROVE Goal
    BY <1>0, <2>8, <2>11 DEF StartsSetup
  <2>12. ASSUME NEW t \in Threads, NEW c \in Frames, Interrupts(t, c) PROVE Goal
    BY <2>8, <2>12 DEF Interrupts
  <2>13. ASSUME NEW t \in Threads, Pops(t) PROVE Goal
    <3>1. stack[t][1].fn # "setup"
      BY <1>5, <2>13, SetupReturns DEF Pops
    <3> QED BY <2>5, <2>13, <3>1
  <2> QED BY <2>4, <2>6, <2>9, <2>10, <2>11, <2>12, <2>13, StackCases DEF StackStep
<1>6. ASSUME NEW t \in Threads, SetupClose(t), log_facility = "file", log_file_descriptor = NULL
      PROVE  UNCHANGED closed /\ UNCHANGED <<log_facility, log_file_descriptor>>
  BY <1>6 DEF SetupClose, fileVars
<1> HIDE DEF Goal
<1>7. Goal
  BY <1>2, <1>3, <1>4, <1>5, <1>6, FileSteps
<1> QED BY <1>7 DEF Goal

-----------------------------------------------------------------------------
(* Who is inside the log mutex                                             *)

\* While t can lock the mutex nobody is inside it.
LEMMA NobodyInside ==
  ASSUME TypeOK, HolderRuns, tangled = {}, NEW t \in Threads, NEW fn, At(t, fn, "lock"), CanLock(t),
         NEW u \in Threads, NEW k \in 1..Len(stack[u])
  PROVE  ~Holding(stack[u][k])
<1> SUFFICES ASSUME Holding(stack[u][k]) PROVE FALSE
  OBVIOUS
<1>1. u = t
  BY HolderOwns, NoneAssumption DEF CanLock
<1>2. k = 1
  BY DEF HolderRuns, Inside
<1> QED BY <1>1, <1>2 DEF At, Holding

\* A call that runs inside the mutex is alone there.
LEMMA OnlyHolder ==
  ASSUME TypeOK, HolderRuns, tangled = {}, NEW t \in Threads, stack[t] # <<>>, Holding(stack[t][1]),
         NEW u \in Threads, NEW k \in 1..Len(stack[u]), Holding(stack[u][k])
  PROVE  u = t /\ k = 1
<1>1. 1 \in 1..Len(stack[t])
  BY Running1 DEF TypeOK, CallsOK, Stacks
<1>2. u = t
  BY <1>1, HolderOwns
<1> QED BY <1>2 DEF HolderRuns, Inside

QuietStack ==
  /\ \A u \in Threads : \A k \in 1..Len(stack'[u]) :
       Holding(stack'[u][k]) => \E l \in 1..Len(stack[u]) : stack'[u][k] = stack[u][l]
  /\ tangled' = {} => \A u \in Threads : stack[u] # <<>> /\ Holding(stack[u][1]) => stack'[u] = stack[u]

\* A step that leaves the log and the calls inside its mutex alone.
Quiet == UNCHANGED <<misuse, prevVars, fileVars>> /\ QuietStack

\* Only the steps of LNLog itself are not quiet.
LEMMA QuietSteps ==
  ASSUME TypeOK, Progress, [Next]_vars, \A t \in Threads : ~LoggerStep(t)
  PROVE  Quiet
<1>0. LogOK /\ MainOK /\ CallsOK /\ stack \in Stacks /\ stack' \in Stacks /\ Main \in Threads
  BY CallsKept, MainAssumption DEF TypeOK, CallsOK, Stacks
<1>1. ASSUME NEW t \in Threads, NEW S, Comes(t, S), Others(t), \A c \in S : ~Holding(c),
             stack[t] # <<>> /\ Holding(stack[t][1]) => tangled' # {}
      PROVE  QuietStack
  BY <1>1 DEF Comes, Others, QuietStack
<1>2. ASSUME UNCHANGED stack PROVE QuietStack
  BY <1>2 DEF QuietStack
<1>3. ASSUME NEW t \in Threads, StartsLog(t) PROVE QuietStack
  <2>1. PICK c \in Frames : LogCall(c) /\ Pushed(t, c, stack[t][1])
    BY <1>3 DEF StartsLog
  <2>2. Comes(t, {c}) /\ Others(t) /\ ~Holding(c) /\ stack[t] = <<>>
    BY <1>0, <1>3, <2>1, PushedOver DEF LogCall, Holding, Pushed, StartsLog
  <2> QED BY <1>1, <2>2
<1>4. ASSUME NEW fac, NEW f, StartsSetup(fac, f) PROVE QuietStack
  <2>1. PICK c \in Frames : c.fn = "setup" /\ c.pc = "lock" /\ Pushed(Main, c, stack[Main][1])
    BY <1>4 DEF StartsSetup
  <2>2. Comes(Main, {c}) /\ Others(Main) /\ ~Holding(c) /\ stack[Main] = <<>>
    BY <1>0, <1>4, <2>1, PushedOver DEF Holding, Pushed, StartsSetup
  <2> QED BY <1>0, <1>1, <2>2
<1>5. ASSUME MainStep PROVE Quiet
  <2>1. UNCHANGED unchangedLog
    BY <1>0, <1>5, MainShapes
  <2>2. \/ UNCHANGED stack
        \/ StartsLog(Main)
        \/ (\E fac \in {"system", "stdout"} : StartsSetup(fac, NULL)) \/ StartsSetup("file", opened + 1)
    BY <1>0, <1>5, MainShapes, Zenon
  <2>3. QuietStack
    BY <1>0, <1>2, <1>3, <1>4, <2>2
  <2> QED BY <2>1, <2>3 DEF Quiet, unchangedLog
<1>6. ASSUME NEW t \in Threads, LogSomething(t) PROVE Quiet
  <2>1. QuietStack
    BY <1>0, <1>3, <1>6, SomethingShape
  <2> QED BY <1>6, <2>1 DEF Quiet, LogSomething
<1>7. ASSUME NEW fn \in {"hup", "term"}, Signal(fn) PROVE Quiet
  <2>1. ASSUME NEW t \in Threads, NEW c \in Frames, c.fn = fn, c.pc = "begin", Pushed(t, c, stack[t][1]),
               tangled' = tangled \cup Tangles(t, fn)
        PROVE  QuietStack
    <3>1. Comes(t, {c}) /\ Others(t) /\ ~Holding(c)
      BY <1>0, <2>1, PushedOver DEF Holding, Pushed
    <3>2. ASSUME stack[t] # <<>>, Holding(stack[t][1]) PROVE tangled' # {}
      <4>1. 1 \in 1..Len(stack[t])
        BY <1>0, <3>2, Running1
      <4>2. log_mtx.owner = t
        BY <3>2, <4>1, HolderOwns
      <4>3. "nested" \in Tangles(t, fn)
        BY <4>2 DEF Tangles
      <4> QED BY <2>1, <4>3
    <3> QED BY <1>1, <3>1, <3>2
  <2>2. QuietStack
    BY <1>0, <1>2, <1>7, <2>1, SignalShape
  <2> QED BY <1>7, <2>2 DEF Quiet, Signal
<1>8. ASSUME NEW t \in Threads, HandlerCalls(t) \/ Reopen(t) \/ CheckLfp(t) \/ UseLfp(t) \/ Exit(t) PROVE Quiet
  <2>1. stack[t][1].fn \in {"hup", "term"}
    <3>1. HandlerCalls(t) => stack[t][1].fn \in {"hup", "term"}
      BY <1>0, HandlerShapes DEF At, HupCalls, TermCalls
    <3> QED BY <1>0, <1>8, <3>1, LfpShapes DEF At
  <2>2. ~Holding(stack[t][1])
    BY <2>1 DEF Holding
  <2>3. ASSUME Pops(t) PROVE QuietStack
    BY <1>0, <1>1, <2>2, <2>3, PoppedCalls DEF Pops, Popped
  <2>4. ASSUME GoesOn(t) PROVE QuietStack
    <3>1. PICK d \in Frames : Turned(t, d) /\ d.fn = stack[t][1].fn
      BY <2>4 DEF GoesOn
    <3>2. Comes(t, {d}) /\ Others(t) /\ ~Holding(d)
      BY <1>0, <2>1, <3>1, TurnedCalls DEF Turned, Holding
    <3> QED BY <1>1, <2>2, <3>2
  <2>5. ASSUME NEW c \in Frames, NEW d \in Frames, Nests(t, c, d) PROVE QuietStack
    <3>1. Pushed(t, c, d) /\ c.pc = "lock" /\ d.fn = stack[t][1].fn
      BY <2>5 DEF Nests, NestsLog, NestsSetup, LogCall
    <3>2. Comes(t, {c, d}) /\ Others(t) /\ ~Holding(c) /\ ~Holding(d)
      BY <1>0, <2>1, <3>1, PushedCalls DEF Pushed, Holding
    <3> QED BY <1>1, <2>2, <3>2
  <2>6. QuietStack
    BY <1>8, <2>3, <2>4, <2>5, HandlerCases
  <2> QED BY <1>8, <2>6 DEF Quiet, HandlerCalls, Reopen, CheckLfp, UseLfp, Exit
<1>9. ASSUME UNCHANGED vars \/ Gone PROVE Quiet
  BY <1>2, <1>9 DEF vars, logVars, Gone, Quiet
<1> QED BY <1>5, <1>6, <1>7, <1>8, <1>9 DEF Next, ThreadStep, Logging

\* With nothing tangled, a stream is closed only while nobody writes to it, and
\* replaced before anybody can.
LEMMA StreamsOpenKept ==
  ASSUME TypeOK, Progress, HolderRuns, NewStreams, StreamsOpen, [Next]_vars
  PROVE  StreamsOpen'
<1> DEFINE Open == \A u \in Threads : \A k \in 1..Len(stack'[u]) :
                     Outputs(stack'[u][k]) => stack'[u][k].fd \notin closed'
           Assigning == \E v \in Threads : Running(v, "setup", "assign")'
           File == log_file_descriptor' \in closed' => log_facility' = "file" /\ Assigning
           Goal == ~misuse' /\ Open /\ File
<1> SUFFICES ASSUME tangled' = {} PROVE Goal
  BY DEF StreamsOpen, Running
<1>0. /\ LogOK /\ MainOK /\ CallsOK /\ stack \in Stacks /\ stack' \in Stacks /\ tangled = {} /\ Alone
      /\ closed \subseteq 2..opened /\ opened \in Nat /\ Std \notin closed /\ NULL \notin closed
  BY CallsKept, Grows DEF TypeOK, LogOK, CallsOK, Stacks, Grown, Alone, Std, NULL
<1>1. /\ ~misuse
      /\ \A u \in Threads : \A k \in 1..Len(stack[u]) : Outputs(stack[u][k]) => stack[u][k].fd \notin closed
      /\ log_file_descriptor \in closed => log_facility = "file" /\ \E v \in Threads : Running(v, "setup", "assign")
  BY <1>0 DEF StreamsOpen
<1>2. ASSUME NEW t \in Threads, NEW S, Comes(t, S), UNCHANGED closed, \A c \in S : Outputs(c) => c.fd \notin closed
      PROVE  Open
  BY <1>1, <1>2 DEF Comes
<1>3. ASSUME NEW v \in Threads, Running(v, "setup", "assign")
      PROVE  1 \in 1..Len(stack[v]) /\ Holding(stack[v][1]) /\ stack[v][1].fn = "setup"
  BY <1>0, <1>3, RunningAt, Running1 DEF At, Holding
<1>4. ASSUME NEW t \in Threads, NEW fn, At(t, fn, "lock"), CanLock(t)
      PROVE  /\ log_file_descriptor \notin closed
             /\ \A u \in Threads : \A k \in 1..Len(stack[u]) : ~Outputs(stack[u][k])
  <2>1. \A u \in Threads : \A k \in 1..Len(stack[u]) : ~Holding(stack[u][k])
    BY <1>0, <1>4, NobodyInside
  <2> QED BY <1>1, <1>3, <2>1 DEF Outputs, Holding
<1>5. ASSUME NEW t \in Threads, NEW p \in {"reporting", "writing"}, At(t, "log", p)
      PROVE  log_file_descriptor \notin closed /\ stack[t][1].fd \notin closed
  <2>1. Holding(stack[t][1]) /\ Outputs(stack[t][1]) /\ stack[t] # <<>> /\ 1 \in 1..Len(stack[t])
    BY <1>0, <1>5, Running1 DEF At, Holding, Outputs
  <2>2. ASSUME NEW v \in Threads, Running(v, "setup", "assign") PROVE FALSE
    <3>1. v = t
      BY <1>0, <1>3, <2>1, <2>2, OnlyHolder
    <3> QED BY <1>3, <1>5, <2>2, <3>1 DEF At
  <2> QED BY <1>1, <2>1, <2>2
<1>6. ASSUME NEW t \in Threads, NEW p, NEW a, Moves(t, p, get_log_file_descriptor, a), log_file_descriptor \notin closed,
             UNCHANGED closed
      PROVE  Open
  <2>1. PICK d \in Frames : Turned(t, d) /\ d.fd = get_log_file_descriptor
    BY <1>6 DEF Moves
  <2>2. d.fd \notin closed
    BY <1>0, <1>6, <2>1 DEF get_log_file_descriptor
  <2>3. Comes(t, {d})
    BY <1>0, <2>1, TurnedCalls
  <2> HIDE DEF Open
  <2> QED BY <1>2, <1>6, <2>2, <2>3
<1>7. ASSUME NEW t \in Threads, Popped(t), UNCHANGED closed PROVE Open
  <2> HIDE DEF Open
  <2> QED BY <1>0, <1>2, <1>7, PoppedCalls
<1> HIDE DEF Open, Assigning
<1>8. ASSUME NEW t \in Threads, NEW at, At(t, "log", at), Done(t), UNCHANGED closed PROVE Open
  <2>1. ASSUME NEW d \in Frames, Turned(t, d), d.pc = "exit" PROVE Open
    <3>1. Comes(t, {d}) /\ ~Outputs(d) /\ UNCHANGED closed
      BY <1>0, <1>8, <2>1, TurnedCalls DEF Outputs
    <3> QED BY <1>2, <3>1
  <2> QED BY <1>7, <1>8, <2>1 DEF Done, Moves
<1>9. ASSUME NEW t \in Threads, LogSuppress(t) PROVE Goal
  <2>1. At(t, "log", "lock") /\ Done(t) /\ CanLock(t) /\ UNCHANGED <<misuse, closed, log_file_descriptor>>
    BY <1>0, <1>9, LogShapes DEF LogSuppress, fileVars
  <2>2. Open
    BY <1>8, <2>1
  <2> QED BY <1>1, <1>4, <2>1, <2>2
<1>10. ASSUME NEW t \in Threads, LogBegin(t) PROVE Goal
  <2>1. At(t, "log", "lock") /\ CanLock(t) /\ UNCHANGED <<misuse, closed, log_file_descriptor>>
    BY <1>0, <1>10, LogShapes DEF LogBegin, fileVars
  <2>2. Moves(t, IF prev_log_count > 0 THEN "reporting" ELSE "writing", get_log_file_descriptor, 0)
    BY <1>0, <1>10, LogShapes
  <2> QED BY <1>1, <1>4, <1>6, <2>1, <2>2
<1>11. ASSUME NEW t \in Threads, LogReported(t) PROVE Goal
  <2>1. /\ At(t, "log", "reporting") /\ Moves(t, "writing", get_log_file_descriptor, 0)
        /\ UNCHANGED <<closed, log_file_descriptor>> /\ misuse' = (misuse \/ Head(stack[t]).fd \in closed)
    BY <1>0, <1>11, LogShapes DEF LogReported, fileVars
  <2>2. log_file_descriptor \notin closed /\ stack[t][1].fd \notin closed /\ Head(stack[t]) = stack[t][1]
    BY <1>5, <2>1 DEF At
  <2> QED BY <1>1, <1>6, <2>1, <2>2
<1>12. ASSUME NEW t \in Threads, LogWrite(t) PROVE Goal
  <2>1. /\ At(t, "log", "writing") /\ UNCHANGED <<closed, log_file_descriptor>>
        /\ misuse' = (misuse \/ Head(stack[t]).fd \in closed)
        /\ Done(t)
    BY <1>0, <1>12, LogShapes DEF LogWrite, fileVars
  <2>2. log_file_descriptor \notin closed /\ stack[t][1].fd \notin closed /\ Head(stack[t]) = stack[t][1]
    BY <1>5, <2>1 DEF At
  <2>3. Open
    BY <1>8, <2>1
  <2> QED BY <1>1, <2>1, <2>2, <2>3
<1>13. ASSUME NEW t \in Threads, SetupRefused(t) PROVE Goal
  <2>1. At(t, "setup", "lock") /\ 1 \in 1..Len(stack[t]) /\ stack[t][1].arg = "file" /\ stack[t][1].fd = NULL
    BY <1>0, <1>13, SetupShapes, Running1 DEF At
  <2> QED BY <1>0, <2>1 DEF NewStreams, NewStream, At
<1>14. ASSUME NEW t \in Threads, SetupClose(t) PROVE Goal
  <2>1. CASE log_facility = "file" /\ log_file_descriptor = NULL
    <3>1. UNCHANGED <<stack, misuse, closed, log_file_descriptor>>
      BY <1>14, <2>1 DEF SetupClose, fileVars
    <3>2. Open
      BY <1>1, <3>1 DEF Open
    <3> QED BY <1>0, <1>1, <2>1, <3>1, <3>2
  <2>2. CASE ~(log_facility = "file" /\ log_file_descriptor = NULL)
    <3>1. /\ At(t, "setup", "lock") /\ CanLock(t) /\ Moves(t, "assign", stack[t][1].fd, stack[t][1].at)
          /\ misuse' = (misuse \/ (log_facility = "file" /\ log_file_descriptor \in closed))
          /\ closed' = IF log_facility = "file" THEN closed \cup {log_file_descriptor} ELSE closed
          /\ UNCHANGED <<log_facility, log_file_descriptor>>
      BY <1>0, <1>14, <2>2, SetupShapes DEF SetupClose
    <3>2. PICK d \in Frames : Turned(t, d) /\ d.fn = "setup" /\ d.pc = "assign"
      BY <3>1 DEF Moves, At
    <3>3. log_file_descriptor \notin closed /\ \A u \in Threads : \A k \in 1..Len(stack[u]) : ~Outputs(stack[u][k])
      BY <1>4, <3>1
    <3>4. Comes(t, {d})
      BY <1>0, <3>2, TurnedCalls
    <3>5. Open
      BY <3>2, <3>3, <3>4 DEF Open, Comes, Outputs
    <3>6. Assigning
      <4>1. stack'[t] # <<>> /\ Head(stack'[t]) = d
        BY <1>0, <3>2, Positions DEF Stacks
      <4> QED BY <3>2, <4>1 DEF Assigning, Running
    <3> QED BY <1>1, <3>1, <3>3, <3>5, <3>6
  <2> QED BY <2>1, <2>2
<1>15. ASSUME NEW t \in Threads, SetupAssign(t) PROVE Goal
  <2>1. /\ At(t, "setup", "assign") /\ Popped(t) /\ UNCHANGED <<closed, misuse>> /\ 1 \in 1..Len(stack[t])
        /\ log_file_descriptor' = DescriptorAfter(stack[t][1])
    BY <1>0, <1>15, SetupShapes, Running1 DEF SetupAssign, At
  <2>2. stack[t][1].arg = "file" => stack[t][1].fd \notin closed
    BY <1>0, <2>1 DEF NewStreams, NewStream, Carries, At
  <2>3. log_file_descriptor' \notin closed
    BY <1>0, <1>1, <2>1, <2>2 DEF DescriptorAfter
  <2> QED BY <1>1, <1>7, <2>1, <2>3
<1>16. ASSUME \A t \in Threads : ~LoggerStep(t) PROVE Goal
  <2>1. UNCHANGED <<misuse, closed, log_facility, log_file_descriptor>> /\ QuietStack
    BY <1>16, QuietSteps DEF Quiet, fileVars
  <2>2. Open
    BY <1>1, <2>1 DEF Open, QuietStack, Outputs, Holding
  <2>3. ASSUME NEW v \in Threads, Running(v, "setup", "assign") PROVE Assigning
    <3>1. stack'[v] = stack[v]
      BY <1>3, <2>1, <2>3 DEF QuietStack, Running
    <3> QED BY <2>3, <3>1 DEF Assigning, Running
  <2> QED BY <1>1, <2>1, <2>2, <2>3
<1> QED BY <1>9, <1>10, <1>11, <1>12, <1>13, <1>14, <1>15, <1>16 DEF LoggerStep

-----------------------------------------------------------------------------
(* Repeated messages                                                       *)

\* The mutex keeps the counter, the messages suppressed and the last one
\* written in step, from the look at the counter to the end of the writing.
LEMMA RepeatsKept ==
  ASSUME TypeOK, Progress, HolderRuns, NewStreams, Repeats, [Next]_vars
  PROVE  Repeats'
<1> DEFINE Held  == \A k \in 1..Len(held') : held'[k] = last'
           Quick == \A u \in Threads : \A k \in 1..Len(stack'[u]) :
                      ~(Outputs(stack'[u][k]) /\ stack'[u][k].pc = "reporting")
           Count == Quick => prev_log_count' = Len(held')
           Knows == \A u \in Threads : \A k \in 1..Len(stack'[u]) :
                      Outputs(stack'[u][k]) =>
                        /\ stack'[u][k].pc = "writing" => held' = <<>>
                        /\ stack'[u][k].arg # "debug" => stack'[u][k].msg = prev_log_crc'
           Crc   == \/ prev_log_crc' = last'
                    \/ \E u \in Threads : \E k \in 1..Len(stack'[u]) :
                         Outputs(stack'[u][k]) /\ stack'[u][k].arg # "debug"
           Goal  == Held /\ Count /\ Knows /\ Crc
<1>0. LogOK /\ MainOK /\ CallsOK /\ stack \in Stacks /\ stack' \in Stacks /\ held \in Seq(Texts) /\ prev_log_count \in Nat
  BY CallsKept DEF TypeOK, LogOK, CallsOK, Stacks
<1> SUFFICES ASSUME tangled' = {} PROVE Goal
  <2>1. ~Reporting' => Quick
    <3>1. \A u \in Threads : DOMAIN stack'[u] = 1..Len(stack'[u])
      BY <1>0 DEF Stacks
    <3> QED BY <3>1 DEF Reporting
  <2> QED BY <2>1 DEF Repeats, OutputKnows
<1>1. tangled = {} /\ Alone
  BY Grows DEF Grown, Alone
<1>2. /\ \A k \in 1..Len(held) : held[k] = last
      /\ ~Reporting => prev_log_count = Len(held)
      /\ \A u \in Threads : \A k \in 1..Len(stack[u]) : OutputKnows(stack[u][k])
      /\ \/ prev_log_crc = last
         \/ \E u \in Threads : \E k \in 1..Len(stack[u]) : Outputs(stack[u][k]) /\ stack[u][k].arg # "debug"
  BY <1>1 DEF Repeats
<1>3. ASSUME \A u \in Threads : \A k \in 1..Len(stack[u]) : ~(Outputs(stack[u][k]) /\ stack[u][k].pc = "reporting")
      PROVE  prev_log_count = Len(held)
  <2>1. ASSUME NEW u \in Threads, NEW k \in 1..Len(stack[u]), stack[u][k].pc = "reporting" PROVE FALSE
    <3>1. FrameOK(stack[u][k]) /\ stack[u][k] \in Frames
      BY <1>0 DEF CallsOK, Stacks
    <3>2. stack[u][k].fn = "log"
      BY <2>1, <3>1 DEF FrameOK, Frames
    <3> QED BY <1>3, <2>1, <3>2 DEF Outputs
  <2>2. \A u \in Threads : DOMAIN stack[u] = 1..Len(stack[u])
    BY <1>0 DEF Stacks
  <2>3. ~Reporting
    BY <2>1, <2>2 DEF Reporting
  <2> QED BY <1>2, <2>3
<1>4. ASSUME UNCHANGED prevVars,
             \A u \in Threads : \A k \in 1..Len(stack'[u]) :
               Outputs(stack'[u][k]) => \E l \in 1..Len(stack[u]) : stack'[u][k] = stack[u][l],
             \A u \in Threads : \A k \in 1..Len(stack[u]) :
               Outputs(stack[u][k]) => \E l \in 1..Len(stack'[u]) : stack'[u][l] = stack[u][k]
      PROVE  Goal
  <2>0. UNCHANGED <<held, last, prev_log_crc, prev_log_count>>
    BY <1>4 DEF prevVars
  <2>1. Held
    BY <1>2, <2>0
  <2>2. Count
    <3> SUFFICES ASSUME Quick PROVE prev_log_count' = Len(held')
      OBVIOUS
    <3>1. ASSUME NEW u \in Threads, NEW k \in 1..Len(stack[u]), Outputs(stack[u][k]), stack[u][k].pc = "reporting"
          PROVE  FALSE
      <4>1. PICK l \in 1..Len(stack'[u]) : stack'[u][l] = stack[u][k]
        BY <1>4, <3>1
      <4> QED BY <3>1, <4>1
    <3>2. prev_log_count = Len(held)
      BY <1>3, <3>1
    <3> QED BY <2>0, <3>2
  <2>3. Knows
    <3> SUFFICES ASSUME NEW u \in Threads, NEW k \in 1..Len(stack'[u]), Outputs(stack'[u][k])
                 PROVE  /\ stack'[u][k].pc = "writing" => held' = <<>>
                        /\ stack'[u][k].arg # "debug" => stack'[u][k].msg = prev_log_crc'
      OBVIOUS
    <3>1. PICK l \in 1..Len(stack[u]) : stack'[u][k] = stack[u][l]
      BY <1>4
    <3>2. OutputKnows(stack[u][l]) /\ Outputs(stack[u][l])
      BY <1>2, <3>1
    <3> QED BY <2>0, <3>1, <3>2 DEF OutputKnows
  <2>4. Crc
    <3>1. CASE prev_log_crc = last
      BY <2>0, <3>1
    <3>2. ASSUME NEW u \in Threads, NEW k \in 1..Len(stack[u]), Outputs(stack[u][k]), stack[u][k].arg # "debug"
          PROVE  Crc
      <4>1. PICK l \in 1..Len(stack'[u]) : stack'[u][l] = stack[u][k]
        BY <1>4, <3>2
      <4> QED BY <3>2, <4>1
    <3> HIDE DEF Crc
    <3> QED BY <1>2, <3>1, <3>2
  <2> QED BY <2>1, <2>2, <2>3, <2>4
<1>5. ASSUME NEW t \in Threads, NEW fn, At(t, fn, "lock"), CanLock(t)
      PROVE  /\ \A u \in Threads : \A k \in 1..Len(stack[u]) : ~Outputs(stack[u][k])
             /\ prev_log_count = Len(held) /\ prev_log_crc = last
  <2>1. \A u \in Threads : \A k \in 1..Len(stack[u]) : ~Holding(stack[u][k])
    BY <1>1, <1>5, NobodyInside
  <2>2. \A u \in Threads : \A k \in 1..Len(stack[u]) : ~Outputs(stack[u][k])
    BY <2>1 DEF Outputs, Holding
  <2> QED BY <1>2, <1>3, <2>2
<1>6. ASSUME NEW t \in Threads, NEW p \in {"reporting", "writing"}, At(t, "log", p)
      PROVE  /\ 1 \in 1..Len(stack[t]) /\ OutputKnows(stack[t][1]) /\ Outputs(stack[t][1])
             /\ \A u \in Threads : \A k \in 1..Len(stack[u]) : Outputs(stack[u][k]) => u = t /\ k = 1
  <2>1. 1 \in 1..Len(stack[t]) /\ Holding(stack[t][1]) /\ stack[t] # <<>> /\ Outputs(stack[t][1])
    BY <1>0, <1>6, Running1 DEF At, Holding, Outputs
  <2>2. ASSUME NEW u \in Threads, NEW k \in 1..Len(stack[u]), Outputs(stack[u][k]) PROVE u = t /\ k = 1
    <3>1. Holding(stack[u][k])
      BY <2>2 DEF Outputs, Holding
    <3> QED BY <1>1, <2>1, <3>1, OnlyHolder
  <2> QED BY <1>2, <2>1, <2>2
<1>7. ASSUME NEW t \in Threads, LogSuppress(t) PROVE Goal
  <2>1. At(t, "log", "lock") /\ Done(t) /\ CanLock(t)
    BY <1>0, <1>7, LogShapes DEF LogSuppress
  <2>2. /\ held' = Append(held, stack[t][1].msg) /\ stack[t][1].msg = prev_log_crc
        /\ prev_log_count' = prev_log_count + 1 /\ UNCHANGED <<prev_log_crc, last>>
    BY <1>7, <2>1 DEF LogSuppress, At
  <2>3. /\ \A u \in Threads : \A k \in 1..Len(stack[u]) : ~Outputs(stack[u][k])
        /\ prev_log_count = Len(held) /\ prev_log_crc = last
    BY <1>5, <2>1
  <2>4. PICK S : Comes(t, S) /\ \A d \in S : ~Outputs(d)
    <3>1. CASE Popped(t)
      <4>1. Comes(t, {}) /\ \A d \in {} : ~Outputs(d)
        BY <1>0, <3>1, PoppedCalls
      <4> QED BY <4>1
    <3>2. CASE Moves(t, "exit", stack[t][1].fd, stack[t][1].at)
      <4>1. PICK e \in Frames : Turned(t, e) /\ e.pc = "exit"
        BY <3>2 DEF Moves
      <4>2. Comes(t, {e})
        BY <1>0, <4>1, TurnedCalls
      <4>3. \A d \in {e} : ~Outputs(d)
        BY <4>1 DEF Outputs
      <4> QED BY <4>2, <4>3
    <3> QED BY <2>1, <3>1, <3>2 DEF Done
  <2>5. \A u \in Threads : \A k \in 1..Len(stack'[u]) : ~Outputs(stack'[u][k])
    BY <2>3, <2>4 DEF Comes
  <2>6. stack[t][1].msg \in Texts
    BY <2>1 DEF At, Frames
  <2>7. Len(held') = Len(held) + 1 /\ Held
    BY <1>0, <1>2, <2>2, <2>3, <2>6
  <2>8. Count
    BY <2>2, <2>3, <2>7
  <2>9. Knows /\ Crc
    BY <2>2, <2>3, <2>5
  <2> QED BY <2>7, <2>8, <2>9
<1>8. ASSUME NEW t \in Threads, LogBegin(t) PROVE Goal
  <2>1. At(t, "log", "lock") /\ CanLock(t)
    BY <1>0, <1>8, LogShapes DEF LogBegin
  <2>2. /\ prev_log_crc' = IF stack[t][1].arg = "debug" THEN prev_log_crc ELSE stack[t][1].msg
        /\ UNCHANGED <<last, held>>
        /\ prev_log_count > 0 \/ UNCHANGED prev_log_count
    BY <1>8, <2>1 DEF LogBegin, At
  <2>3. PICK d \in Frames :
          /\ Turned(t, d) /\ d.fn = stack[t][1].fn /\ d.arg = stack[t][1].arg /\ d.msg = stack[t][1].msg
          /\ d.pc = IF prev_log_count > 0 THEN "reporting" ELSE "writing"
    BY <1>0, <1>8, LogShapes DEF Moves
  <2>4. /\ \A u \in Threads : \A k \in 1..Len(stack[u]) : ~Outputs(stack[u][k])
        /\ prev_log_count = Len(held) /\ prev_log_crc = last
    BY <1>5, <2>1
  <2>5. Comes(t, {d}) /\ 1 \in 1..Len(stack'[t]) /\ stack'[t][1] = d /\ Outputs(d)
    BY <1>0, <2>1, <2>3, TurnedCalls, Positions DEF Outputs, At
  <2>6. \A u \in Threads : \A k \in 1..Len(stack'[u]) : Outputs(stack'[u][k]) => stack'[u][k] = d
    BY <2>4, <2>5 DEF Comes
  <2>7. Held
    BY <1>2, <2>2
  <2>8. CASE prev_log_count > 0
    <3>1. d.pc = "reporting"
      BY <2>3, <2>8
    <3>2. Count
      BY <2>5, <3>1
    <3>3. Knows
      BY <2>2, <2>3, <2>6, <3>1
    <3>4. Crc
      BY <2>2, <2>3, <2>4, <2>5
    <3> QED BY <2>7, <3>2, <3>3, <3>4
  <2>9. CASE ~(prev_log_count > 0)
    <3>1. d.pc = "writing" /\ prev_log_count' = prev_log_count /\ Len(held) = 0
      BY <1>0, <2>2, <2>3, <2>4, <2>9
    <3>2. held = <<>>
      BY <1>0, <3>1
    <3>3. Count
      BY <2>2, <2>4, <3>1
    <3>4. Knows
      BY <2>2, <2>3, <2>6, <3>2
    <3>5. Crc
      BY <2>2, <2>3, <2>4, <2>5
    <3> QED BY <2>7, <3>3, <3>4, <3>5
  <2> QED BY <2>8, <2>9
<1>9. ASSUME NEW t \in Threads, LogReported(t) PROVE Goal
  <2>1. At(t, "log", "reporting") /\ held' = <<>> /\ prev_log_count' = 0 /\ UNCHANGED <<prev_log_crc, last>>
    BY <1>0, <1>9, LogShapes DEF LogReported, CountAfterReport
  <2>2. PICK d \in Frames :
          Turned(t, d) /\ d.fn = stack[t][1].fn /\ d.arg = stack[t][1].arg /\ d.msg = stack[t][1].msg /\ d.pc = "writing"
    BY <1>0, <1>9, LogShapes DEF Moves
  <2>3. /\ OutputKnows(stack[t][1]) /\ Outputs(stack[t][1])
        /\ \A u \in Threads : \A k \in 1..Len(stack[u]) : Outputs(stack[u][k]) => u = t /\ k = 1
    BY <1>6, <2>1
  <2>4. 1 \in 1..Len(stack'[t]) /\ stack'[t][1] = d /\ Outputs(d) /\ ComesElse(t, {d})
    BY <1>0, <2>1, <2>2, Positions, Elsewhere DEF Outputs, At
  <2>5. \A u \in Threads : \A k \in 1..Len(stack'[u]) : Outputs(stack'[u][k]) => stack'[u][k] = d
    BY <2>3, <2>4 DEF ComesElse
  <2>6. Held /\ Count
    BY <2>1
  <2>7. Knows
    BY <2>1, <2>2, <2>3, <2>5 DEF OutputKnows
  <2>8. Crc
    <3>1. CASE prev_log_crc = last
      BY <2>1, <3>1
    <3>2. CASE prev_log_crc # last
      <4>1. stack[t][1].arg # "debug"
        BY <1>2, <2>3, <3>2
      <4> QED BY <2>2, <2>4, <4>1
    <3> QED BY <3>1, <3>2
  <2> QED BY <2>6, <2>7, <2>8
<1>10. ASSUME NEW t \in Threads, LogWrite(t) PROVE Goal
  <2>1. /\ At(t, "log", "writing") /\ UNCHANGED <<prev_log_crc, prev_log_count, held>>
        /\ IF stack[t][1].arg = "fatal" THEN Moves(t, "exit", stack[t][1].fd, stack[t][1].at) ELSE Popped(t)
    BY <1>0, <1>10, LogShapes DEF LogWrite, Done
  <2>2. last' = IF stack[t][1].arg = "debug" THEN last ELSE stack[t][1].msg
    BY <1>10, <2>1 DEF LogWrite, At
  <2>3. /\ OutputKnows(stack[t][1]) /\ Outputs(stack[t][1])
        /\ \A u \in Threads : \A k \in 1..Len(stack[u]) : Outputs(stack[u][k]) => u = t /\ k = 1
    BY <1>6, <2>1
  <2>4. held = <<>> /\ (stack[t][1].arg # "debug" => stack[t][1].msg = prev_log_crc)
    BY <2>1, <2>3 DEF OutputKnows, At
  <2>5. ASSUME NEW u \in Threads, NEW k \in 1..Len(stack'[u]) PROVE ~Outputs(stack'[u][k])
    <3>1. ASSUME NEW d \in Frames, Turned(t, d), d.pc = "exit" PROVE ~Outputs(stack'[u][k])
      <4>1. ComesElse(t, {d}) /\ ~Outputs(d)
        BY <1>0, <3>1, Elsewhere DEF Outputs
      <4> QED BY <2>3, <4>1 DEF ComesElse
    <3>2. ASSUME Popped(t) PROVE ~Outputs(stack'[u][k])
      <4>1. ComesElse(t, {})
        BY <1>0, <3>2, Elsewhere
      <4> QED BY <2>3, <4>1 DEF ComesElse
    <3> QED BY <2>1, <3>1, <3>2 DEF Moves
  <2>6. prev_log_count = Len(held)
    <3>1. stack[t][1].pc # "reporting"
      BY <2>1 DEF At
    <3> QED BY <1>3, <2>3, <3>1
  <2>7. Held /\ Count
    BY <2>1, <2>4, <2>6
  <2>8. Knows
    BY <2>5
  <2>9. prev_log_crc' = last'
    BY <1>2, <2>1, <2>2, <2>3, <2>4
  <2> QED BY <2>7, <2>8, <2>9
<1>11. ASSUME NEW t \in Threads, NEW p, At(t, "setup", p), UNCHANGED prevVars,
              \/ UNCHANGED stack
              \/ Popped(t)
              \/ \E d \in Frames : Turned(t, d) /\ d.fn = "setup"
       PROVE  Goal
  <2>1. ~Outputs(stack[t][1])
    BY <1>11 DEF At, Outputs
  <2>2. ASSUME NEW S, Comes(t, S), Stays(t), \A c \in S : ~Outputs(c) PROVE Goal
    <3> HIDE DEF Goal
    <3>1. \A u \in Threads : \A k \in 1..Len(stack'[u]) :
            Outputs(stack'[u][k]) => \E l \in 1..Len(stack[u]) : stack'[u][k] = stack[u][l]
      BY <2>2 DEF Comes
    <3>2. \A u \in Threads : \A k \in 1..Len(stack[u]) :
            Outputs(stack[u][k]) => \E l \in 1..Len(stack'[u]) : stack'[u][l] = stack[u][k]
      BY <2>1, <2>2 DEF Stays
    <3> QED BY <1>4, <1>11, <3>1, <3>2
  <2> HIDE DEF Goal
  <2>3. ASSUME UNCHANGED stack PROVE Goal
    BY <1>4, <1>11, <2>3
  <2>4. ASSUME Popped(t) PROVE Goal
    BY <1>0, <2>2, <2>4, PoppedCalls
  <2>5. ASSUME NEW d \in Frames, Turned(t, d), d.fn = "setup" PROVE Goal
    <3>1. Comes(t, {d}) /\ Stays(t) /\ ~Outputs(d)
      BY <1>0, <2>5, TurnedCalls DEF Outputs
    <3> QED BY <2>2, <3>1
  <2> QED BY <1>11, <2>3, <2>4, <2>5
<1>12. ASSUME NEW t \in Threads, SetupRefused(t) \/ SetupClose(t) \/ SetupAssign(t) PROVE Goal
  <2> HIDE DEF Goal
  <2>1. UNCHANGED prevVars
    BY <1>12 DEF SetupRefused, SetupClose, SetupAssign
  <2>2. CASE SetupRefused(t) \/ SetupAssign(t)
    BY <1>0, <1>11, <2>1, <2>2, SetupShapes
  <2>3. CASE SetupClose(t)
    <3>1. At(t, "setup", "lock") /\ (UNCHANGED stack \/ Moves(t, "assign", stack[t][1].fd, stack[t][1].at))
      BY <1>0, <2>3, SetupShapes
    <3>2. UNCHANGED stack \/ \E d \in Frames : Turned(t, d) /\ d.fn = "setup"
      BY <3>1 DEF Moves, At
    <3> QED BY <1>11, <2>1, <3>1, <3>2
  <2> QED BY <1>12, <2>2, <2>3
<1>13. ASSUME \A t \in Threads : ~LoggerStep(t) PROVE Goal
  <2> HIDE DEF Goal
  <2>1. UNCHANGED prevVars /\ QuietStack
    BY <1>13, QuietSteps DEF Quiet
  <2>2. \A u \in Threads : \A k \in 1..Len(stack'[u]) :
          Outputs(stack'[u][k]) => \E l \in 1..Len(stack[u]) : stack'[u][k] = stack[u][l]
    BY <2>1 DEF QuietStack, Outputs, Holding
  <2>3. ASSUME NEW u \in Threads, NEW k \in 1..Len(stack[u]), Outputs(stack[u][k])
        PROVE  \E l \in 1..Len(stack'[u]) : stack'[u][l] = stack[u][k]
    <3>1. Holding(stack[u][k])
      BY <2>3 DEF Outputs, Holding
    <3>2. k = 1
      BY <1>1, <3>1 DEF HolderRuns, Inside
    <3>3. stack[u] # <<>>
      BY <2>3
    <3>4. stack'[u] = stack[u]
      BY <2>1, <3>1, <3>2, <3>3 DEF QuietStack
    <3> QED BY <3>4
  <2> QED BY <1>4, <2>1, <2>2, <2>3
<1> QED BY <1>7, <1>8, <1>9, <1>10, <1>12, <1>13 DEF LoggerStep

-----------------------------------------------------------------------------
(* The facility that the command line asks for                             *)

\* Until the first signal the log is where the start-up has put it.
LEMMA FacilityKept ==
  ASSUME TypeOK, Progress, NoHandlerYet, Layers, FacilityAsAsked, [Next]_vars
  PROVE  FacilityAsAsked'
<1> DEFINE Goal == IF stack'[Main] # <<>> /\ stack'[Main][1].fn = "setup"
                     THEN stack'[Main][1].arg = Wanted' /\ (Wanted' = "file" => stack'[Main][1].fd # NULL)
                     ELSE log_facility' = Wanted'
           Left == {"tested", "end", "fatal", "exit"}
<1> SUFFICES ASSUME signals' = 0, pc' \notin Left PROVE Goal
  BY DEF FacilityAsAsked
<1>0. /\ LogOK /\ MainOK /\ CallsOK /\ stack \in Stacks /\ stack' \in Stacks /\ Main \in Threads /\ opened \in Nat
      /\ signals = 0
  BY CallsKept, Grows, MainAssumption DEF TypeOK, LogOK, MainOK, CallsOK, Stacks, Grown
<1>1. \A t \in Threads : /\ Len(stack[t]) \in Nat /\ Len(stack[t]) <= 1
                         /\ \A k \in 1..Len(stack[t]) : stack[t][k].fn \in {"log", "setup"}
  BY <1>0 DEF NoHandlerYet, Stacks
<1>2. pc \notin Left => IF stack[Main] # <<>> /\ stack[Main][1].fn = "setup"
                          THEN stack[Main][1].arg = Wanted /\ (Wanted = "file" => stack[Main][1].fd # NULL)
                          ELSE log_facility = Wanted
  BY <1>0 DEF FacilityAsAsked
<1>3. ASSUME UNCHANGED <<pc, opts>> PROVE pc \notin Left /\ Wanted' = Wanted
  BY <1>3 DEF Wanted
<1>4. ASSUME UNCHANGED <<pc, opts, log_facility>>, stack'[Main] = stack[Main] PROVE Goal
  BY <1>2, <1>3, <1>4
<1>5. ASSUME stack[Main] = <<>>, UNCHANGED stack \/ StartsLog(Main)
      PROVE  ~(stack'[Main] # <<>> /\ stack'[Main][1].fn = "setup")
  BY <1>0, <1>5 DEF StartsLog, LogCall, Pushed
<1>6. ASSUME NEW fac \in {"system", "stdout", "file"}, NEW f \in Nat, Push(Main, Setup(fac, f))
      PROVE  stack'[Main] # <<>> /\ stack'[Main][1].fn = "setup" /\ stack'[Main][1].arg = fac /\ stack'[Main][1].fd = f
  <2> DEFINE c == Setup(fac, f)
  <2>1. c \in Frames /\ c.fn = "setup" /\ c.arg = fac /\ c.fd = f
    <3>1. "info" \in Args /\ None \in Texts /\ "hup" \in {"hup", "term"}
      BY DEF Args, Texts
    <3> QED BY <1>0, <3>1, NewFrames
  <2>2. Push(Main, c)
    BY <1>6
  <2> HIDE DEF c
  <2>3. Pushed(Main, c, stack[Main][1])
    BY <1>0, <2>1, <2>2, PushShape
  <2>4. stack'[Main][1] = c /\ Len(stack'[Main]) >= 1
    BY <1>0, <1>1, <2>3 DEF Pushed
  <2> QED BY <2>1, <2>4
<1>7. ASSUME MainStep PROVE Goal
  <2>0. stack[Main] = <<>> /\ UNCHANGED <<opts, log_facility>>
    BY <1>0, <1>7, MainShapes DEF unchangedLog, fileVars
  <2>1. pc \notin Left => log_facility = Wanted
    BY <1>2, <2>0
  <2>2. CASE MainStart
    <3>1. Push(Main, Setup("system", NULL)) /\ pc' = "options" /\ NULL \in Nat
      BY <2>2 DEF MainStart, GoCalling, NULL
    <3>2. Wanted' = "system"
      BY <3>1 DEF Wanted
    <3> QED BY <1>6, <3>1, <3>2
  <2>3. CASE ParseOptions
    <3>1. pc = "options" /\ pc' = "logfile" /\ UNCHANGED stack
      BY <2>3 DEF ParseOptions, MainAt, Go, ExitMain
    <3>2. Wanted' = Wanted
      BY <3>1 DEF Wanted
    <3> QED BY <2>0, <2>1, <3>1, <3>2
  <2>4. CASE OpenLogFile
    <3>1. pc = "logfile" /\ pc' = "stdout"
      BY <2>4 DEF OpenLogFile, MainAt, Go, Fatal
    <3>2. Wanted = "system" /\ Wanted' = IF opts.logfile THEN "file" ELSE "system"
      BY <2>0, <3>1 DEF Wanted
    <3>3. CASE ~opts.logfile
      <4>1. UNCHANGED stack
        BY <2>4, <3>3 DEF OpenLogFile, Go
      <4> QED BY <2>0, <2>1, <3>1, <3>2, <3>3, <4>1
    <3>4. CASE opts.logfile
      <4>1. Push(Main, Setup("file", opened + 1)) /\ opened + 1 \in Nat /\ opened + 1 # NULL
        BY <1>0, <2>4, <3>1, <3>4 DEF OpenLogFile, Fatal, NULL
      <4> QED BY <1>6, <3>2, <3>4, <4>1
    <3> QED BY <3>3, <3>4
  <2>5. CASE UseStdout
    <3>1. pc = "stdout" /\ pc' = "test"
      BY <2>5 DEF UseStdout, MainAt, Go, GoCalling
    <3>2. Wanted' = IF opts.stdout THEN "stdout" ELSE Wanted
      BY <2>0, <3>1 DEF Wanted
    <3>3. CASE opts.stdout
      <4>1. Push(Main, Setup("stdout", NULL)) /\ NULL \in Nat
        BY <2>5, <3>3 DEF UseStdout, GoCalling, NULL
      <4> QED BY <1>6, <3>2, <3>3, <4>1
    <3>4. CASE ~opts.stdout
      <4>1. UNCHANGED stack
        BY <2>5, <3>4 DEF UseStdout, Go
      <4> QED BY <2>0, <2>1, <3>1, <3>2, <3>4, <4>1
    <3> QED BY <3>3, <3>4
  <2>6. CASE TestOnly
    <3>1. pc = "test" /\ pc' = "config" /\ UNCHANGED stack
      BY <2>6 DEF TestOnly, MainAt, Go, GoCalling
    <3>2. Wanted' = Wanted
      BY <2>0, <3>1 DEF Wanted
    <3> QED BY <2>0, <2>1, <3>1, <3>2
  <2>7. CASE ~(MainStart \/ ParseOptions \/ OpenLogFile \/ UseStdout \/ TestOnly)
    <3>1. /\ pc \notin Left \cup {"main", "options", "logfile", "stdout", "test"}
          /\ pc' \notin {"main", "options", "logfile", "stdout", "test"}
      BY <1>7, <2>7 DEF MainStep, MainAt, TestResult, MainEnd, FindConfig, ChangeDirectory, Starting, Fork, RecordPID,
                        InitTerminationHandler, LoadConfig, Announce, SetUid, SetGid, StartThreads, Go, GoCalling,
                        Fatal, ExitMain
    <3>2. UNCHANGED stack \/ StartsLog(Main)
      BY <1>0, <1>7, <3>1, MainShapes
    <3>3. Wanted' = Wanted
      BY <2>0, <3>1 DEF Wanted
    <3>4. log_facility' = Wanted'
      BY <2>0, <2>1, <3>1, <3>3
    <3> QED BY <1>5, <2>0, <3>2, <3>4
  <2> QED BY <2>2, <2>3, <2>4, <2>5, <2>6, <2>7
<1>8. ASSUME NEW t \in Threads, LogSomething(t) PROVE Goal
  <2>1. UNCHANGED <<pc, opts, log_facility>> /\ StartsLog(t)
    BY <1>0, <1>8, SomethingShape DEF LogSomething, mainVars, fileVars
  <2>2. CASE t = Main
    <3>1. stack[Main] = <<>>
      BY <2>1, <2>2 DEF StartsLog
    <3> QED BY <1>2, <1>3, <1>5, <2>1, <2>2, <3>1
  <2>3. CASE t # Main
    <3>1. stack'[Main] = stack[Main]
      BY <1>0, <2>1, <2>3 DEF StartsLog, Pushed, Others
    <3> QED BY <1>4, <2>1, <3>1
  <2> QED BY <2>2, <2>3
<1>9. ASSUME NEW fn \in {"hup", "term"}, Signal(fn) PROVE FALSE
  BY <1>0, <1>9 DEF Signal
<1>10. ASSUME NEW t \in Threads, HandlerCalls(t) \/ Reopen(t) \/ CheckLfp(t) \/ UseLfp(t) \/ Exit(t) PROVE FALSE
  <2>1. stack[t] # <<>> /\ stack[t][1].fn \in {"hup", "term"}
    <3>1. HandlerCalls(t) => stack[t] # <<>> /\ stack[t][1].fn \in {"hup", "term"}
      BY <1>0, HandlerShapes DEF At, HupCalls, TermCalls
    <3> QED BY <1>0, <1>10, <3>1, LfpShapes DEF At
  <2>2. 1 \in 1..Len(stack[t])
    BY <1>0, <2>1, Running1
  <2> QED BY <1>1, <2>1, <2>2
<1>11. ASSUME NEW t \in Threads, Logging(t) PROVE Goal
  <2>0. LoggerStep(t) /\ UNCHANGED <<pc, opts>>
    BY <1>11 DEF Logging, mainVars
  <2>1. pc \notin Left /\ Wanted' = Wanted
    BY <1>3, <2>0
  <2>2. ASSUME Popped(t), t = Main PROVE stack'[Main] = <<>>
    BY <1>0, <1>1, <2>2 DEF Popped, Stacks
  <2>3. CASE LogSuppress(t) \/ LogBegin(t) \/ LogReported(t) \/ LogWrite(t)
    <3>1. UNCHANGED log_facility
      BY <2>3 DEF LogSuppress, LogBegin, LogReported, LogWrite, fileVars
    <3>2. stack[t] # <<>> /\ stack[t][1].fn = "log"
      BY <1>0, <2>3, LogShapes DEF At
    <3>3. Popped(t) \/ GoesOn(t)
      <4>1. UNCHANGED stack \/ Popped(t) \/ GoesOn(t)
        BY <2>0, LoggerCases DEF Pops
      <4>2. ASSUME NEW p, NEW f, NEW a, Moves(t, p, f, a) PROVE GoesOn(t)
        BY <3>2, <4>2 DEF Moves, GoesOn
      <4> QED BY <1>0, <2>3, <4>2, LogShapes DEF Done
    <3>4. CASE t # Main
      <4>1. stack'[Main] = stack[Main]
        BY <1>0, <3>3, <3>4 DEF Popped, GoesOn, Turned, Others
      <4> QED BY <1>4, <2>0, <3>1, <4>1
    <3>5. CASE t = Main
      <4>1. log_facility' = Wanted'
        BY <1>2, <2>1, <3>1, <3>2, <3>5
      <4>2. stack'[Main] = <<>> \/ stack'[Main][1].fn = "log"
        BY <2>2, <3>2, <3>3, <3>5 DEF GoesOn, Turned
      <4> QED BY <4>1, <4>2
    <3> QED BY <3>4, <3>5
  <2>4. CASE SetupRefused(t) \/ SetupClose(t) \/ SetupAssign(t)
    <3>1. stack[t] # <<>> /\ stack[t][1].fn = "setup" /\ 1 \in 1..Len(stack[t])
      BY <1>0, <2>4, SetupShapes, Running1 DEF At
    <3>2. t = Main /\ stack[t][1].arg # "close"
      <4>1. 1 + 1 \notin 1..Len(stack[t])
        BY <1>1
      <4> QED BY <3>1, <4>1, SetupOn
    <3>3. stack[Main][1].arg = Wanted /\ (Wanted = "file" => stack[Main][1].fd # NULL)
      BY <1>2, <2>1, <3>1, <3>2
    <3>4. CASE SetupRefused(t)
      BY <1>0, <3>2, <3>3, <3>4, SetupShapes
    <3>5. CASE SetupClose(t)
      <4>1. UNCHANGED log_facility
        BY <3>5 DEF SetupClose, fileVars
      <4>2. UNCHANGED stack \/ Moves(t, "assign", stack[t][1].fd, stack[t][1].at)
        BY <1>0, <3>5, SetupShapes
      <4>3. CASE UNCHANGED stack
        BY <1>4, <2>0, <4>1, <4>3
      <4>4. CASE Moves(t, "assign", stack[t][1].fd, stack[t][1].at)
        <5>1. PICK d \in Frames : Turned(t, d) /\ d.fn = "setup" /\ d.arg = stack[t][1].arg /\ d.fd = stack[t][1].fd
          BY <3>1, <4>4 DEF Moves
        <5>2. stack'[Main] # <<>> /\ stack'[Main][1] = d
          <6>1. Len(stack'[t]) >= 1 /\ stack'[t][1] = d
            BY <1>0, <5>1, Positions
          <6> QED BY <3>2, <6>1
        <5> QED BY <2>1, <3>2, <3>3, <5>1, <5>2
      <4> QED BY <4>2, <4>3, <4>4
    <3>6. CASE SetupAssign(t)
      <4>1. Popped(t) /\ log_facility' = stack[t][1].arg
        <5>1. Popped(t) /\ Head(stack[t]) = stack[t][1]
          BY <1>0, <3>6, SetupShapes DEF At
        <5> QED BY <3>2, <3>6, <5>1 DEF SetupAssign
      <4>2. stack'[Main] = <<>>
        BY <2>2, <3>2, <4>1
      <4> QED BY <2>1, <3>2, <3>3, <4>1, <4>2
    <3> QED BY <2>4, <3>4, <3>5, <3>6
  <2> QED BY <2>0, <2>3, <2>4 DEF LoggerStep
<1>12. ASSUME UNCHANGED vars \/ Gone PROVE Goal
  <2>1. UNCHANGED <<pc, opts, log_facility, stack>>
    BY <1>12 DEF vars, logVars, fileVars, mainVars, Gone
  <2> QED BY <1>4, <2>1
<1> QED BY <1>7, <1>8, <1>9, <1>10, <1>11, <1>12 DEF Next, ThreadStep

-----------------------------------------------------------------------------
(* The theorems                                                            *)

\* main() starts with no calls, no streams and the mutex free.
LEMMA InitInv == Init => DaemonInv
<1> SUFFICES ASSUME Init PROVE DaemonInv
  OBVIOUS
<1>1. /\ stack = [t \in Threads |-> <<>>] /\ tangled = {} /\ signals = 0 /\ pc = "main" /\ ~handlers /\ ~started
      /\ minute = 1 /\ status = "up" /\ log_facility = "stdout" /\ log_file_descriptor = NULL
      /\ log_mtx = [owner |-> None, depth |-> 0] /\ prev_log_crc = None /\ prev_log_count = 0 /\ prev_log_time = 0
      /\ opened = Std /\ closed = {} /\ misuse = FALSE /\ last = None /\ held = <<>> /\ log_to_stdout = FALSE
  BY DEF Init, LogInit
<1>2. \A t \in Threads : stack[t] = <<>> /\ Len(stack[t]) = 0 /\ 1..Len(stack[t]) = {} /\ DOMAIN stack[t] = {}
  <2>1. \A t \in Threads : stack[t] = <<>>
    BY <1>1
  <2>2. Len(<<>>) = 0 /\ 1..0 = {} /\ DOMAIN <<>> = {}
    OBVIOUS
  <2> QED BY <2>1, <2>2
<1>3. LogOK
  <2>1. /\ minute \in 1..MaxMinute /\ prev_log_time \in 0..minute /\ opened \in Nat \ {0} /\ prev_log_count \in Nat
        /\ log_file_descriptor \in {NULL} \cup 2..opened /\ closed \subseteq 2..opened
    BY <1>1, MaxMinuteAssumption DEF NULL, Std
  <2>2. log_mtx \in [owner : Threads \cup {None}, depth : Nat] /\ (log_mtx.owner = None <=> log_mtx.depth = 0)
    BY <1>1
  <2>3. held \in Seq(Texts)
    BY <1>1
  <2> QED BY <1>1, <2>1, <2>2, <2>3 DEF LogOK
<1>4. MainOK
  <2>1. opts \in CommandLines /\ uid = opts.user /\ gid = opts.user
    BY DEF Init
  <2>2. opts.user \in Nat
    BY <2>1, CommandLinesAssumption
  <2>3. calls \in 0..MaxCalls /\ signals \in 0..MaxSignals /\ g_uid \in Nat /\ g_gid \in Nat
    BY BoundsAssumption DEF Init
  <2> QED BY <1>1, <2>1, <2>2, <2>3 DEF Init, MainOK, Places
<1>5. CallsOK
  BY <1>1, <1>2 DEF CallsOK
<1>6. MutexHeld
  <2>1. \A t \in Threads : Inside(t) = {}
    BY <1>2 DEF Inside
  <2>2. ASSUME NEW t \in Threads
        PROVE  Cardinality(Inside(t)) = 0 /\ (IF log_mtx.owner = t THEN log_mtx.depth ELSE 0) = 0
    BY <1>1, <2>1, FS_EmptySet
  <2>3. 0 <= 0
    OBVIOUS
  <2> QED BY <2>2, <2>3, Zenon DEF MutexHeld
<1>7. Layers /\ NoHandlerYet /\ HupAlone /\ NewStreams /\ Rotates
  BY <1>2 DEF Layers, NoHandlerYet, HupAlone, NewStreams, Rotates
<1>8. Progress
  BY <1>1, <1>2 DEF Progress, GidKnown, UidSet
<1>9. NullClosed
  BY <1>1 DEF NullClosed
<1>10. HolderRuns
  BY <1>2 DEF HolderRuns, Inside
<1>11. StreamsOpen
  BY <1>1, <1>2 DEF StreamsOpen
<1>12. Repeats
  BY <1>1, <1>2 DEF Repeats, Reporting
<1>13. FacilityAsAsked
  BY <1>1, <1>2, MainAssumption DEF FacilityAsAsked, Wanted
<1>14. IdsAsAsked
  BY <1>1 DEF Init, IdsAsAsked, OptsTaken, GidKnown, UidSet
<1> QED BY <1>3, <1>4, <1>5, <1>6, <1>7, <1>8, <1>9, <1>10, <1>11, <1>12, <1>13, <1>14 DEF DaemonInv, TypeOK

\* Every step of main(), of a thread, a handler or a signal keeps the invariant.
LEMMA InvKept == DaemonInv /\ [Next]_vars => DaemonInv'
  BY TypesKept, LayersKept, NoHandlerKept, ProgressKept, HupAloneKept, NewStreamsKept, NullClosedKept,
     HolderRunsKept, StreamsOpenKept, RepeatsKept, RotatesKept, FacilityKept, IdsKept
  DEF DaemonInv

\* The inductive invariant: who is in the logger, on top of which handler, with
\* which stream, and how far the start-up is.
THEOREM DaemonInvariant == Spec => []DaemonInv
  BY InitInv, InvKept, PTL DEF Spec

\* Types, the places of every call, and the log mutex (debug.cpp:247-298): it is
\* held by the one thread with calls inside it, to their number.
THEOREM LogMutexHeld == Spec => []TypeOK
<1>1. DaemonInv => TypeOK
  BY DEF DaemonInv
<1> QED BY <1>1, DaemonInvariant, PTL

\* debug.cpp:247-298, main.cpp:46-56: no stream is used once it is closed unless
\* a handler interrupted the logger or shared lfp, and NULL is closed only after
\* closeLog.
THEOREM NoClosedStreamUsed == Spec => []StreamsUsedOpen
<1>1. DaemonInv => StreamsUsedOpen
  BY DEF DaemonInv, StreamsUsedOpen, StreamsOpen, NullClosed
<1> QED BY <1>1, DaemonInvariant, PTL

\* debug.cpp:65-93: whatever the threads, what is counted for "Last message
\* repeated %d times." repeats the last message written that was not a debug
\* message, which need not be the line above that report.
THEOREM RepeatsReported == Spec => []RepeatsAccounted
<1>1. DaemonInv => RepeatsAccounted
  <2> SUFFICES ASSUME DaemonInv PROVE RepeatsAccounted
    OBVIOUS
  <2>1. DOMAIN held = 1..Len(held)
    BY DEF DaemonInv, TypeOK, LogOK
  <2> QED BY <2>1 DEF DaemonInv, RepeatsAccounted, Repeats
<1> QED BY <1>1, DaemonInvariant, PTL

\* main.cpp:43-57: by its last message the SIGHUP handler has put a file opened
\* since the signal, or syslog, in place of the old log.
THEOREM Rotation == Spec => []RotationTakesEffect
<1>1. DaemonInv => RotationTakesEffect
  <2> SUFFICES ASSUME DaemonInv, Alone, ~ClosingLog, NEW t \in Threads,
                      Running(t, "hup", "reopened") \/ Running(t, "hup", "return")
               PROVE  Rotated(Head(stack[t]).at)
    BY DEF RotationTakesEffect
  <2>1. stack \in Stacks /\ stack[t] # <<>>
    BY DEF DaemonInv, TypeOK, CallsOK, Stacks, Running
  <2>2. /\ 1 \in 1..Len(stack[t]) /\ Head(stack[t]) = stack[t][1] /\ ~(1 > 1)
        /\ stack[t][1].fn = "hup" /\ stack[t][1].pc \in {"reopened", "return"}
    BY <2>1, Running1 DEF Running
  <2> QED BY <2>2 DEF DaemonInv, Rotates
<1> QED BY <1>1, DaemonInvariant, PTL

\* main.cpp:317-340, core.cpp:118-146: monitoring starts only with the ids of the
\* command line or the group of the configuration, the ids the process had where
\* neither asks for others, the pid file of a daemon, and the log asked for.
THEOREM StartsAsAsked == Spec => []StartedAsAsked
<1>1. DaemonInv => StartedAsAsked
  <2> SUFFICES ASSUME DaemonInv, started PROVE StartedAsAsked
    BY DEF StartedAsAsked
  <2>1. handlers /\ pc = "loop" /\ opts \in CommandLines
    BY DEF DaemonInv, Progress, TypeOK, MainOK
  <2>2. /\ opts.uid # 0 => uid = opts.uid
        /\ opts.uid = 0 /\ opts.confuid = 0 => uid = opts.user
        /\ gid = IF opts.gid # 0 THEN opts.gid ELSE IF opts.confgid # 0 THEN opts.confgid ELSE opts.user
        /\ opts.daemon => pidfile
    BY <2>1 DEF DaemonInv, IdsAsAsked, OptsTaken, GidKnown, UidSet
  <2>3. ASSUME signals = 0
        PROVE  log_facility = IF opts.stdout THEN "stdout" ELSE IF opts.logfile THEN "file" ELSE "system"
    <3>1. ASSUME stack[Main] # <<>>, stack[Main][1].fn = "setup" PROVE FALSE
      <4>1. stack \in Stacks /\ Main \in Threads
        BY MainAssumption DEF DaemonInv, TypeOK, CallsOK, Stacks
      <4>2. 1 \in 1..Len(stack[Main]) /\ Len(stack[Main]) \in Nat
        BY <3>1, <4>1, Running1
      <4>3. Len(stack[Main]) <= 1
        BY <2>3, <4>1 DEF DaemonInv, NoHandlerYet
      <4>4. 1 + 1 \notin 1..Len(stack[Main])
        BY <4>2, <4>3
      <4> QED BY <2>1, <3>1, <4>1, <4>2, <4>4, SetupOn DEF DaemonInv
    <3>2. log_facility = Wanted
      BY <2>1, <2>3, <3>1 DEF DaemonInv, FacilityAsAsked
    <3> QED BY <2>1, <3>2 DEF Wanted
  <2> QED BY <2>2, <2>3 DEF StartedAsAsked
<1> QED BY <1>1, DaemonInvariant, PTL

=============================================================================
