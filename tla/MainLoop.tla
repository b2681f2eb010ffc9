------------------------------ MODULE MainLoop ------------------------------
(***************************************************************************)
(* The life of the daemon: main_proc's event loop, loadConfiguration with  *)
(* LNConfig::load and unload, the listener's startListening and            *)
(* stopListening, the signal handler, and the down-bound thread that walks *)
(* the same LNLogItems the main loop deletes and rebuilds.                 *)
(*                                                                         *)
(* A configuration file is a sequence of settings, as LNIniFile reads it.  *)
(* Log items and log files are heap objects: <<name or path, load number>>.*)
(* The threads share m_lItems, whose mutex the down-bound thread keeps for *)
(* a whole pass and the main thread takes for single calls.                *)
(***************************************************************************)
EXTENDS Naturals, Sequences

CONSTANTS
  Texts,       \* contents of the configuration file, sequences of settings
  NoFile,      \* the configuration file cannot be read
  Paths,       \* paths of log files
  Options,     \* CONF_VALID_OPTIONS_MAP
  def_config,  \* default values of options
  Undefined,   \* value of an option that is not set and has no default
  BadRegex,    \* a regular expression that does not compile
  NoItem,      \* no log item
  MaxEnv       \* bound: edits, signals and writes in one behaviour

\* The section "general"; the others are numbered in the order of their names.
General == 0

ASSUME TextsAssumption ==
  /\ NoFile \notin Texts
  /\ \A t \in Texts : \A k \in DOMAIN t : t[k].section \in Nat
  /\ \A t \in Texts : DOMAIN t = 1..Len(t)

ASSUME MaxEnvAssumption == MaxEnv \in Nat

VARIABLES
  disk,        \* the configuration file
  present,     \* paths at which a log file exists
  pc,          \* where the main thread is
  reload,      \* the flag set by SIGUSR1
  asked,       \* history: SIGUSR1 came outside a reload, no test began since
  first,       \* loadConfiguration(false) is under way or still to come
  gen,         \* number of LNConfig::load calls on config
  ini,         \* config.m_iniFile
  todo,        \* its sections that are not loaded yet
  m_lItems,    \* config.m_lItems: item objects
  m_lFiles,    \* config.m_lFiles: file objects
  attached,    \* pairs <<file, item>>: getAttachedItems
  liveItems,   \* item objects on the heap
  liveFiles,   \* file objects on the heap
  m_epfd,      \* the listener is started
  m_watchMap,  \* files with a watch
  pending,     \* files with unread inotify events
  events,      \* the LNLogEvents the main loop works on
  locked,      \* the down-bound thread holds the mutex of m_lItems
  down,        \* [pc, item, visited] of the down-bound thread
  touched,     \* history: the disk changed since the last configuration test
  env          \* number of environment steps

worldVars  == <<disk, present, touched, env>>
configVars == <<gen, ini, todo, m_lItems, m_lFiles, attached, liveItems, liveFiles>>
listenVars == <<m_epfd, m_watchMap, pending>>
downVars   == <<locked, down>>
flagVars   == <<reload, asked>>
vars == <<disk, present, pc, reload, asked, first, gen, ini, todo, m_lItems, m_lFiles, attached,
          liveItems, liveFiles, m_epfd, m_watchMap, pending, events, locked, down, touched, env>>

NoIni == [s \in {General} |-> [o \in {} |-> Undefined]]

Init ==
  /\ disk \in Texts \cup {NoFile} /\ present = Paths
  /\ pc = "unload" /\ reload = FALSE /\ asked = FALSE /\ first = TRUE
  /\ gen = 0 /\ ini = NoIni /\ todo = {}
  /\ m_lItems = {} /\ m_lFiles = {} /\ attached = {} /\ liveItems = {} /\ liveFiles = {}
  /\ m_epfd = FALSE /\ m_watchMap = {} /\ pending = {} /\ events = {}
  /\ locked = FALSE /\ down = [pc |-> "none", item |-> NoItem, visited |-> {}]
  /\ touched = FALSE /\ env = 0

-----------------------------------------------------------------------------
(* LNIniFile and LNConfig: what a configuration says                       *)

SettingsOf(text, s) == {k \in DOMAIN text : text[k].section = s}

\* LNIniFile::parse: sections of one name are merged, the last setting wins.
Parse(text) ==
  [s \in {General} \cup {text[k].section : k \in DOMAIN text} |->
     [o \in {text[k].option : k \in SettingsOf(text, s)} |->
        LET set == {k \in SettingsOf(text, s) : text[k].option = o}
        IN text[CHOOSE k \in set : \A l \in set : l <= k].value]]

\* LNConfig::checkForUnknownOptions
OptionsKnown(c) == \A s \in DOMAIN c : DOMAIN c[s] \subseteq Options

\* LNConfig::load gets as far as the sections.
Readable(text) == text # NoFile /\ OptionsKnown(Parse(text))

\* LNConfig::readSectionParam: the section, then [general], then the default.
SectionParam(c, s, option) ==
  IF option \in DOMAIN c[s] THEN c[s][option]
  ELSE IF option \in DOMAIN c[General] THEN c[General][option]
  ELSE IF option \in DOMAIN def_config THEN def_config[option]
  ELSE Undefined

\* The constructor of LNLogItem ends the process on such an expression.
FatalSection(c, s) == SectionParam(c, s, "regex") = BadRegex

\* LNConfig::loadLogItem succeeds when the log files at paths can be opened.
SectionLoads(c, s, paths) ==
  /\ ~FatalSection(c, s)
  /\ SectionParam(c, s, "upbound_action") # Undefined
  /\ SectionParam(c, s, "file_type") = "file"
  /\ SectionParam(c, s, "path") \in paths

Sections(c) == DOMAIN c \ {General}

FirstOf(S) == CHOOSE s \in S : \A r \in S : s <= r

\* Mutant of Verdict: only the first section is tried.
VerdictOfFirst(text) ==
  IF ~Readable(text) THEN "error"
  ELSE LET c == Parse(text)
           s == FirstOf(Sections(c))
       IN IF SectionLoads(c, s, present) THEN "ok"
          ELSE IF FatalSection(c, s) THEN "fatal" ELSE "error"

\* testConfiguration: what LNConfig::load makes of a file that nobody changes
\* meanwhile.  The first section that does not load decides.
Verdict(text) ==
  IF ~Readable(text) THEN "error"
  ELSE LET c == Parse(text)
           failing == {s \in Sections(c) : ~SectionLoads(c, s, present)}
       IN IF failing = {} THEN "ok"
          ELSE IF FatalSection(c, FirstOf(failing)) THEN "fatal" ELSE "error"

-----------------------------------------------------------------------------
(* Ending the process                                                      *)

\* exit() destroys listener, which stops listening if it is started.  rmAll
\* repeats rmWatch until m_watchMap is empty, and rmWatch fails on every file:
\* inotify_add_watch with an empty mask is EINVAL.
Ending == IF m_epfd /\ m_watchMap # {} THEN "spin" ELSE "exited"

Exit ==
  /\ pc' = Ending
  /\ UNCHANGED <<worldVars, configVars, listenVars, downVars, flagVars, first, events>>

-----------------------------------------------------------------------------
(* loadConfiguration                                                       *)

\* reload: the new file is loaded into an LNConfig of its own.
TestConfiguration ==
  /\ pc = "test"
  /\ touched' = FALSE
  /\ asked' = FALSE
  /\ pc' = CASE Verdict(disk) = "ok"    -> "stop"
             [] Verdict(disk) = "error" -> "clear"
             [] Verdict(disk) = "fatal" -> Ending
  /\ UNCHANGED <<disk, present, env, configVars, listenVars, downVars, reload, first, events>>

\* LNFilesListener::stopListening
StopListening ==
  /\ pc = "stop"
  /\ \/ /\ m_watchMap = {}
        /\ m_epfd' = FALSE
        /\ pc' = "unload"
     \/ /\ m_watchMap # {}
        /\ pc' = "spin"
        /\ UNCHANGED m_epfd
  /\ UNCHANGED <<worldVars, configVars, downVars, m_watchMap, pending, flagVars, first, events>>

\* Mutant of Unload: removeAndDeleteAll does not lock.
UnloadUnlocked ==
  /\ pc = "unload"
  /\ liveItems' = liveItems \ m_lItems /\ liveFiles' = liveFiles \ m_lFiles
  /\ m_lItems' = {} /\ m_lFiles' = {} /\ attached' = {}
  /\ pc' = "parse"
  /\ UNCHANGED <<worldVars, listenVars, downVars, flagVars, first, gen, ini, todo, events>>

\* Mutant of Unload: the items stay in m_lItems.
UnloadFilesOnly ==
  /\ pc = "unload"
  /\ ~locked
  /\ liveFiles' = liveFiles \ m_lFiles
  /\ m_lFiles' = {} /\ attached' = {}
  /\ pc' = "parse"
  /\ UNCHANGED <<worldVars, listenVars, downVars, flagVars, first, gen, ini, todo, m_lItems,
                 liveItems, events>>

\* LNConfig::unload: removeAndDeleteAll, closeAll.
Unload ==
  /\ pc = "unload"
  /\ ~locked
  /\ liveItems' = liveItems \ m_lItems /\ liveFiles' = liveFiles \ m_lFiles
  /\ m_lItems' = {} /\ m_lFiles' = {} /\ attached' = {}
  /\ pc' = "parse"
  /\ UNCHANGED <<worldVars, listenVars, downVars, flagVars, first, gen, ini, todo, events>>

\* Mutant of ParseConfig: the sections are listed from the file, m_iniFile
\* still has the old settings.
ParseConfigStale ==
  /\ pc = "parse"
  /\ Readable(disk)
  /\ todo' = Sections(Parse(disk))
  /\ gen' = gen + 1
  /\ pc' = "items"
  /\ UNCHANGED <<worldVars, listenVars, downVars, flagVars, first, ini, m_lItems, m_lFiles, attached,
                 liveItems, liveFiles, events>>

\* LNIniFile::parse and checkForUnknownOptions pass.
ParseConfig ==
  /\ pc = "parse"
  /\ Readable(disk)
  /\ ini' = Parse(disk)
  /\ todo' = Sections(Parse(disk))
  /\ gen' = gen + 1
  /\ pc' = "items"
  /\ UNCHANGED <<worldVars, listenVars, downVars, flagVars, first, m_lItems, m_lFiles, attached,
                 liveItems, liveFiles, events>>

\* The paths loadLogItem can use: what exists and what is already open.
Openable == present \cup {f[1] : f \in m_lFiles}

\* LNConfig::load fails: "Configuration load failed." is fatal.
LoadFails ==
  /\ \/ pc = "parse" /\ ~Readable(disk)
     \/ pc = "items" /\ todo # {} /\ ~SectionLoads(ini, FirstOf(todo), Openable)
  /\ Exit

\* LNConfig::loadLogItem: LNLogFiles::open or find, LNLogItems::add twice.
LoadItem ==
  /\ pc = "items"
  /\ todo # {}
  /\ ~locked
  /\ LET s    == FirstOf(todo)
         item == <<s, gen>>
         file == <<SectionParam(ini, s, "path"), gen>>
     IN /\ SectionLoads(ini, s, Openable)
        /\ m_lFiles' = m_lFiles \cup {file}
        /\ m_lItems' = m_lItems \cup {item}
        /\ attached' = attached \cup {<<file, item>>}
        /\ liveItems' = liveItems \cup {item}
        /\ liveFiles' = liveFiles \cup {file}
        /\ todo' = todo \ {s}
  /\ UNCHANGED <<worldVars, listenVars, downVars, pc, flagVars, first, gen, ini, events>>

\* The first load starts the threads; then startListening.  An addWatch that
\* fails is logged and its file stays unwatched.
StartListening ==
  /\ pc = "items"
  /\ todo = {}
  /\ down' = IF first THEN [down EXCEPT !.pc = "sleep"] ELSE down
  /\ m_watchMap' \in SUBSET m_lFiles
  /\ m_epfd' = TRUE
  /\ pc' = IF first THEN "enter" ELSE "clear"
  /\ first' = FALSE
  /\ UNCHANGED <<worldVars, configVars, locked, pending, flagVars, events>>

\* Back in main_proc: reload = false; delete pEvents.
ClearReload ==
  /\ pc = "clear"
  /\ reload' = FALSE
  /\ events' = {}
  /\ pc' = "enter"
  /\ UNCHANGED <<worldVars, configVars, listenVars, downVars, asked, first>>

-----------------------------------------------------------------------------
(* The event loop of main_proc                                             *)

\* epoll_wait blocks.
EnterWait ==
  /\ pc = "enter"
  /\ pc' = "wait"
  /\ UNCHANGED <<worldVars, configVars, listenVars, downVars, flagVars, first, events>>

ReadEvents ==
  /\ pc = "wait"
  /\ pending # {}
  /\ events' = pending
  /\ pending' = {}
  /\ pc' = "got"
  /\ UNCHANGED <<worldVars, configVars, downVars, m_epfd, m_watchMap, flagVars, first>>

\* Mutant of TestReload: the flag is looked at only when there are no events.
TestReloadIfIdle ==
  /\ pc = "got"
  /\ pc' = IF reload /\ events = {} THEN "test" ELSE "process"
  /\ UNCHANGED <<worldVars, configVars, listenVars, downVars, flagVars, first, events>>

\* The flag is tested once for every return of waitForEvents.
TestReload ==
  /\ pc = "got"
  /\ pc' = IF reload THEN "test" ELSE "process"
  /\ UNCHANGED <<worldVars, configVars, listenVars, downVars, flagVars, first, events>>

\* processLogFile(pEvents->getNext()), until the list is empty.
Process ==
  /\ pc = "process"
  /\ \/ \E f \in events : events' = events \ {f} /\ UNCHANGED pc
     \/ events = {} /\ pc' = "enter" /\ UNCHANGED events
  /\ UNCHANGED <<worldVars, configVars, listenVars, downVars, flagVars, first>>

-----------------------------------------------------------------------------
(* The down-bound thread's pass over m_lItems                              *)

DownLock ==
  /\ pc # "exited"
  /\ down.pc = "sleep"
  /\ ~locked
  /\ locked' = TRUE
  /\ down' = [down EXCEPT !.pc = "next", !.visited = {}]
  /\ UNCHANGED <<worldVars, configVars, listenVars, pc, flagVars, first, events>>

\* getNext; the item is used until the next call.
DownNext ==
  /\ pc # "exited"
  /\ down.pc = "next"
  /\ \E i \in m_lItems \ down.visited :
       down' = [down EXCEPT !.item = i, !.visited = down.visited \cup {i}]
  /\ UNCHANGED <<worldVars, configVars, listenVars, locked, pc, flagVars, first, events>>

\* Mutant of DownUnlock: the lock is kept while the thread sleeps.
DownUnlockForgotten ==
  /\ pc # "exited"
  /\ down.pc = "next"
  /\ m_lItems \subseteq down.visited
  /\ down' = [down EXCEPT !.pc = "sleep", !.item = NoItem, !.visited = {}]
  /\ UNCHANGED <<worldVars, configVars, listenVars, locked, pc, flagVars, first, events>>

DownUnlock ==
  /\ pc # "exited"
  /\ down.pc = "next"
  /\ m_lItems \subseteq down.visited
  /\ locked' = FALSE
  /\ down' = [down EXCEPT !.pc = "sleep", !.item = NoItem, !.visited = {}]
  /\ UNCHANGED <<worldVars, configVars, listenVars, pc, flagVars, first, events>>

-----------------------------------------------------------------------------
(* Signals, the administrator and the logging programs                     *)

EnvStep == pc # "exited" /\ env < MaxEnv /\ env' = env + 1

\* A handler that returns interrupts epoll_wait: an empty LNLogEvents.
Interrupt ==
  /\ pc' = IF pc = "wait" THEN "got" ELSE pc
  /\ events' = IF pc = "wait" THEN {} ELSE events

\* loadConfiguration(true) and the assignment to reload behind it.
Reloading == ~first /\ pc \in {"test", "stop", "unload", "parse", "items", "clear"}

\* SIGUSR1
SignalReload ==
  /\ EnvStep
  /\ reload' = TRUE
  /\ asked' = (asked \/ ~Reloading)
  /\ Interrupt
  /\ UNCHANGED <<disk, present, touched, configVars, listenVars, downVars, first>>

\* SIGHUP and SIGUSR2 change nothing here.
SignalOther ==
  /\ EnvStep
  /\ Interrupt
  /\ UNCHANGED <<disk, present, touched, configVars, listenVars, downVars, flagVars, first>>

\* SIGTERM: the handler calls exit.
SignalTerm ==
  /\ EnvStep
  /\ pc' = Ending
  /\ UNCHANGED <<disk, present, touched, configVars, listenVars, downVars, flagVars, first, events>>

EditConfig(text) ==
  /\ EnvStep
  /\ disk' = text
  /\ touched' = TRUE
  /\ UNCHANGED <<present, configVars, listenVars, downVars, pc, flagVars, first, events>>

\* A log file is removed or created.
ToggleLog(p) ==
  /\ EnvStep
  /\ present' = IF p \in present THEN present \ {p} ELSE present \cup {p}
  /\ touched' = TRUE
  /\ UNCHANGED <<disk, configVars, listenVars, downVars, pc, flagVars, first, events>>

WriteLog(f) ==
  /\ EnvStep
  /\ f \in m_watchMap
  /\ pending' = pending \cup {f}
  /\ UNCHANGED <<disk, present, touched, configVars, downVars, m_epfd, m_watchMap, pc, flagVars,
                 first, events>>

-----------------------------------------------------------------------------
MainStep ==
  \/ TestConfiguration
  \/ StopListening
  \/ Unload
  \/ ParseConfig
  \/ LoadFails
  \/ LoadItem
  \/ StartListening
  \/ ClearReload
  \/ EnterWait
  \/ ReadEvents
  \/ TestReload
  \/ Process

DownStep ==
  \/ DownLock
  \/ DownNext
  \/ DownUnlock

EnvironmentStep ==
  \/ SignalReload
  \/ SignalOther
  \/ SignalTerm
  \/ \E text \in Texts \cup {NoFile} : EditConfig(text)
  \/ \E p \in Paths : ToggleLog(p)
  \/ \E f \in m_watchMap : WriteLog(f)

Next == MainStep \/ DownStep \/ EnvironmentStep

Spec == Init /\ [][Next]_vars

\* Both threads are scheduled.  The mutex of m_lItems is free for the five
\* seconds of every sleep, so a main thread that wants it gets it.
FairSpec ==
  /\ Spec
  /\ WF_vars(MainStep)
  /\ SF_vars(Unload) /\ SF_vars(LoadItem)
  /\ WF_vars(DownNext \/ DownUnlock)

-----------------------------------------------------------------------------
(* Properties                                                              *)

ItemObjects == Nat \X Nat
FileObjects == Paths \X Nat

\* The variables stay in their types.
TypeOK ==
  /\ disk \in Texts \cup {NoFile} /\ present \subseteq Paths
  /\ pc \in {"unload", "parse", "items", "enter", "wait", "got", "process", "test", "stop",
             "clear", "spin", "exited"}
  /\ reload \in BOOLEAN /\ asked \in BOOLEAN /\ first \in BOOLEAN /\ gen \in Nat
  /\ DOMAIN ini \subseteq Nat /\ todo \subseteq DOMAIN ini
  /\ m_lItems \subseteq ItemObjects /\ liveItems \subseteq ItemObjects
  /\ m_lFiles \subseteq FileObjects /\ liveFiles \subseteq FileObjects
  /\ attached \subseteq FileObjects \X ItemObjects
  /\ m_epfd \in BOOLEAN /\ m_watchMap \subseteq FileObjects /\ pending \subseteq FileObjects
  /\ events \subseteq FileObjects /\ locked \in BOOLEAN
  /\ down \in [pc : {"none", "sleep", "next"}, item : ItemObjects \cup {NoItem},
               visited : SUBSET ItemObjects]
  /\ touched \in BOOLEAN /\ env \in 0..MaxEnv

\* No deleted object is ever used, however a reload falls between the steps
\* of the other thread: not the item the down-bound thread works on, not the
\* files readEvents finds in m_watchMap, not the files of the event list and
\* the items attached to them that processLogFile matches.
NoDanglingPointer ==
  /\ down.item # NoItem => down.item \in liveItems
  /\ pc = "wait" => m_watchMap \subseteq liveFiles
  /\ pc = "process" => /\ events \subseteq liveFiles
                       /\ \A a \in attached : a[1] \in events => a[2] \in liveItems

\* The sections in S, and no others, are monitored, all from the same load.
Monitors(S) ==
  /\ m_lItems = S \X {gen}
  /\ attached = {<<<<SectionParam(ini, s, "path"), gen>>, <<s, gen>>>> : s \in S}

\* Outside a reload the daemon monitors one whole configuration, never a part
\* of it or a mixture of two: m_lItems and the items attached to the files
\* are those of the sections of m_iniFile, all from the same load.
WholeConfiguration ==
  pc \in {"enter", "wait", "got", "process", "test", "stop"}
    => Monitors(Sections(ini)) /\ m_watchMap \subseteq m_lFiles

\* A reload that passed the configuration test ends the daemon only if the
\* configuration or a log file changed after the test.
LoadAgreesWithTest ==
  [][~first /\ pc \in {"parse", "items"} /\ pc' \in {"spin", "exited"}
       => touched \/ env' # env]_vars

\* A SIGUSR1 that comes outside a reload, in whatever step of the event loop
\* or of the first load, is acted on, at the latest, when the main loop next
\* gets any event, unless the process ends.  One that comes during a reload,
\* from the test to the assignment behind loadConfiguration (main.cpp:366-368),
\* is cleared with the request that is being served and may be lost, whatever
\* was edited since the file was read.
RequestSeen ==
  asked /\ pending # {} ~> pc \in {"test", "spin", "exited"}

\* A reload that gets past stopListening comes back to the event loop, unless
\* the process ends: the main thread and the down-bound thread never block
\* each other for good on m_lItems.
LoadReturns == pc = "unload" ~> pc \in {"enter", "spin", "exited"}

\* README: "If there is errors in configuration, logNOT will log errors and
\* continue with original configuration without interrupt.  If everything is
\* ok with new configuration, logNOT will reinitialize".  Neither the test nor
\* stopListening ends the daemon or hangs it; a SIGTERM may.
ReloadKeepsDaemon ==
  [][(pc = "test" \/ pc = "stop") /\ env' = env => pc' # "spin" /\ pc' # "exited"]_vars
=============================================================================
