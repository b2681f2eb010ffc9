--------------------------- MODULE MainLoopProofs ---------------------------
(***************************************************************************)
(* Proofs about MainLoop for any configurations, log files and number of   *)
(* edits and signals.                                                      *)
(***************************************************************************)
EXTENDS MainLoop, WellFoundedInduction, TLAPS

-----------------------------------------------------------------------------
(* The inductive invariant                                                 *)

\* What the proofs need beyond the properties above.  The down-bound thread
\* starts after the first load, holds the mutex during its pass, and its item
\* is in the list.
PassLocked ==
  /\ first => down.pc = "none"
  /\ locked <=> down.pc = "next"
  /\ down.item # NoItem => locked /\ down.item \in m_lItems

\* Every object on the heap is in the lists of config.
ObjectsListed ==
  /\ liveItems = m_lItems
  /\ liveFiles = m_lFiles
  /\ \A a \in attached : a[2] \in m_lItems

\* Watches and events belong to listed files; a load has no watch yet.
EventsOfFiles ==
  /\ m_watchMap \subseteq m_lFiles
  /\ pending \subseteq m_watchMap
  /\ pc \in {"unload", "parse", "items"} => m_watchMap = {}
  /\ pc \in {"got", "process"} => events \subseteq m_watchMap

\* How far a load is.
LoadProgress ==
  /\ pc = "parse" => Monitors({})
  /\ pc = "items" => todo \subseteq Sections(ini) /\ Monitors(Sections(ini) \ todo)
  /\ pc = "clear" => Monitors(Sections(ini))

\* The configuration a reload tested is still good, if nobody changed it.
TestedStillGood ==
  ~first /\ ~touched
    => /\ pc \in {"stop", "unload", "parse", "items"} => Verdict(disk) = "ok"
       /\ pc = "items" => ini = Parse(disk)

\* The inductive invariant of the proofs.
MainInv ==
  /\ TypeOK
  /\ PassLocked
  /\ ObjectsListed
  /\ EventsOfFiles
  /\ LoadProgress
  /\ WholeConfiguration
  /\ TestedStillGood

-----------------------------------------------------------------------------
(* Operators                                                               *)

\* LNConfig::load always has a next section as long as one is left.
LEMMA FirstOfMember ==
  ASSUME NEW S \in SUBSET Nat, S # {}
  PROVE  FirstOf(S) \in S
<1>1. \E x \in S : \A y \in S : ~(<<y, x>> \in OpToRel(<, Nat))
  BY NatLessThanWellFounded, WFMin
<1>2. ASSUME NEW x \in Nat, NEW y \in Nat, y < x
      PROVE  <<y, x>> \in OpToRel(<, Nat)
  BY <1>2, Zenon DEF OpToRel
<1>3. \E x \in S : \A y \in S : ~(y < x)
  BY <1>1, <1>2
<1>4. \E x \in S : \A y \in S : x <= y
  BY <1>3
<1> QED
  BY <1>4 DEF FirstOf

\* Sections are numbered.
LEMMA ParseSections ==
  ASSUME NEW text \in Texts
  PROVE  DOMAIN Parse(text) \subseteq Nat
  BY TextsAssumption DEF Parse, General

\* A readable file is a text.
LEMMA ReadableText ==
  ASSUME TypeOK, Readable(disk)
  PROVE  disk \in Texts
  BY DEF Readable, TypeOK

\* A configuration that passed the test has no section that fails.
LEMMA VerdictOk ==
  ASSUME NEW text, Verdict(text) = "ok"
  PROVE  /\ Readable(text)
         /\ \A s \in Sections(Parse(text)) : SectionLoads(Parse(text), s, present)
<1>1. Readable(text)
  BY DEF Verdict
<1>2. {s \in Sections(Parse(text)) : ~SectionLoads(Parse(text), s, present)} = {}
  BY <1>1 DEF Verdict
<1> QED BY <1>1, <1>2

\* A section that loads names a log file.
LEMMA LoadedPath ==
  ASSUME TypeOK, NEW s, SectionLoads(ini, s, Openable)
  PROVE  SectionParam(ini, s, "path") \in Paths
<1>1. Openable \subseteq Paths
  BY DEF Openable, TypeOK, FileObjects
<1> QED BY <1>1 DEF SectionLoads

-----------------------------------------------------------------------------
(* Every step keeps the invariant                                          *)

\* main_proc starts in a state of the invariant.
LEMMA InitMainInv == Init => MainInv
<1> SUFFICES ASSUME Init PROVE MainInv
  OBVIOUS
<1>1. DOMAIN ini = {0} /\ {0} \subseteq Nat
  BY DEF Init, NoIni, General
<1>2. /\ reload \in BOOLEAN /\ asked \in BOOLEAN /\ first \in BOOLEAN /\ m_epfd \in BOOLEAN
      /\ locked \in BOOLEAN /\ touched \in BOOLEAN
  BY DEF Init
<1>3. down \in [pc : {"none", "sleep", "next"}, item : ItemObjects \cup {NoItem},
                visited : SUBSET ItemObjects]
  BY DEF Init
<1>4. TypeOK
  BY <1>1, <1>2, <1>3, MaxEnvAssumption DEF Init, TypeOK
<1>5. PassLocked /\ ObjectsListed /\ EventsOfFiles
  BY DEF Init, PassLocked, ObjectsListed, EventsOfFiles
<1>6. LoadProgress /\ WholeConfiguration /\ TestedStillGood
  BY DEF Init, LoadProgress, WholeConfiguration, TestedStillGood
<1> QED
  BY <1>4, <1>5, <1>6 DEF MainInv

\* The environment's step counter stays below its bound.
LEMMA EnvStepType == TypeOK /\ EnvStep => env' \in 0..MaxEnv
  BY MaxEnvAssumption DEF TypeOK, EnvStep

\* An ending is one of two.
LEMMA EndingType == Ending \in {"spin", "exited"}
  BY DEF Ending

\* Every step of the threads and of the environment keeps the types.
LEMMA NextTypeOK == MainInv /\ [Next]_vars => TypeOK'
<1> SUFFICES ASSUME MainInv, [Next]_vars PROVE TypeOK'
  OBVIOUS
<1>0. TypeOK
  BY DEF MainInv
<1> USE DEF worldVars, configVars, listenVars, downVars, flagVars
<1>1. CASE TestConfiguration
  <2>1. pc' \in {"stop", "clear", "spin", "exited"}
    <3>1. Verdict(disk) \in {"ok", "error", "fatal"}
      BY DEF Verdict
    <3> QED BY <1>1, <3>1, EndingType DEF TestConfiguration
  <2>2. touched' \in BOOLEAN /\ asked' \in BOOLEAN
    BY <1>1 DEF TestConfiguration
  <2> QED BY <1>0, <1>1, <2>1, <2>2 DEF TestConfiguration, TypeOK
<1>2. CASE StopListening
  <2>1. m_epfd' \in BOOLEAN
    BY <1>0, <1>2 DEF StopListening, TypeOK
  <2>2. pc' \in {"unload", "spin"}
    BY <1>2 DEF StopListening
  <2> QED BY <1>0, <1>2, <2>1, <2>2 DEF StopListening, TypeOK
<1>3. CASE Unload
  BY <1>0, <1>3 DEF Unload, TypeOK
<1>4. CASE ParseConfig
  <2>1. disk \in Texts
    BY <1>0, <1>4, ReadableText DEF ParseConfig
  <2>2. DOMAIN ini' \subseteq Nat /\ todo' \subseteq DOMAIN ini'
    BY <1>4, <2>1, ParseSections DEF ParseConfig, Sections
  <2>3. gen' \in Nat
    BY <1>0, <1>4 DEF ParseConfig, TypeOK
  <2> QED BY <1>0, <1>4, <2>2, <2>3 DEF ParseConfig, TypeOK
<1>5. CASE LoadFails
  <2>1. pc' \in {"spin", "exited"}
    BY <1>5, EndingType DEF LoadFails, Exit
  <2> QED BY <1>0, <1>5, <2>1 DEF LoadFails, Exit, TypeOK
<1>6. CASE LoadItem
  <2> DEFINE s == FirstOf(todo)
             file == <<SectionParam(ini, s, "path"), gen>>
  <2>1. todo \in SUBSET Nat /\ todo # {}
    BY <1>0, <1>6 DEF LoadItem, TypeOK
  <2>2. s \in Nat
    BY <2>1, FirstOfMember
  <2>3. SectionLoads(ini, s, Openable)
    BY <1>6 DEF LoadItem
  <2>4. SectionParam(ini, s, "path") \in Paths
    BY <1>0, <2>3, LoadedPath
  <2>5. <<s, gen>> \in ItemObjects /\ file \in FileObjects
    BY <1>0, <2>2, <2>4 DEF TypeOK, ItemObjects, FileObjects
  <2>6. /\ m_lFiles' = m_lFiles \cup {file} /\ m_lItems' = m_lItems \cup {<<s, gen>>}
        /\ attached' = attached \cup {<<file, <<s, gen>>>>}
        /\ liveItems' = liveItems \cup {<<s, gen>>} /\ liveFiles' = liveFiles \cup {file}
        /\ todo' = todo \ {s}
    BY <1>6 DEF LoadItem
  <2> HIDE DEF s, file
  <2>7. /\ m_lFiles' \subseteq FileObjects /\ m_lItems' \subseteq ItemObjects
        /\ liveItems' \subseteq ItemObjects /\ liveFiles' \subseteq FileObjects
        /\ attached' \subseteq FileObjects \X ItemObjects
        /\ todo' \subseteq DOMAIN ini
    BY <1>0, <2>5, <2>6 DEF TypeOK
  <2> QED BY <1>0, <1>6, <2>7 DEF LoadItem, TypeOK
<1>7. CASE StartListening
  <2>1. m_epfd' \in BOOLEAN /\ first' \in BOOLEAN
    BY <1>7 DEF StartListening
  <2>2. down' \in [pc : {"none", "sleep", "next"}, item : ItemObjects \cup {NoItem},
                   visited : SUBSET ItemObjects]
    BY <1>0, <1>7 DEF StartListening, TypeOK
  <2>3. m_watchMap' \subseteq FileObjects /\ pc' \in {"enter", "clear"}
    BY <1>0, <1>7 DEF StartListening, TypeOK
  <2> QED BY <1>0, <1>7, <2>1, <2>2, <2>3 DEF StartListening, TypeOK
<1>8. CASE ClearReload
  <2>1. reload' \in BOOLEAN
    BY <1>8 DEF ClearReload
  <2> QED BY <1>0, <1>8, <2>1 DEF ClearReload, TypeOK
<1>9. CASE EnterWait \/ ReadEvents
  BY <1>0, <1>9 DEF EnterWait, ReadEvents, TypeOK
<1>10. CASE TestReload
  BY <1>0, <1>10 DEF TestReload, TypeOK
<1>11. CASE Process
  BY <1>0, <1>11 DEF Process, TypeOK
<1>12. CASE DownLock
  <2>1. locked' \in BOOLEAN
    BY <1>12 DEF DownLock
  <2>2. down' \in [pc : {"none", "sleep", "next"}, item : ItemObjects \cup {NoItem},
                   visited : SUBSET ItemObjects]
    BY <1>0, <1>12 DEF DownLock, TypeOK
  <2> QED BY <1>0, <1>12, <2>1, <2>2 DEF DownLock, TypeOK
<1>13. CASE DownNext
  <2>1. PICK i \in m_lItems :
          down' = [down EXCEPT !.item = i, !.visited = down.visited \cup {i}]
    BY <1>13 DEF DownNext
  <2>2. i \in ItemObjects /\ down.visited \cup {i} \in SUBSET ItemObjects
    BY <1>0 DEF TypeOK
  <2>3. down' \in [pc : {"none", "sleep", "next"}, item : ItemObjects \cup {NoItem},
                   visited : SUBSET ItemObjects]
    BY <1>0, <2>1, <2>2 DEF TypeOK
  <2> QED BY <1>0, <1>13, <2>3 DEF DownNext, TypeOK
<1>14. CASE DownUnlock
  <2>1. locked' \in BOOLEAN
    BY <1>14 DEF DownUnlock
  <2>2. down' \in [pc : {"none", "sleep", "next"}, item : ItemObjects \cup {NoItem},
                   visited : SUBSET ItemObjects]
    BY <1>0, <1>14 DEF DownUnlock, TypeOK
  <2> QED BY <1>0, <1>14, <2>1, <2>2 DEF DownUnlock, TypeOK
<1>15. CASE SignalReload
  <2>1. reload' \in BOOLEAN /\ asked' \in BOOLEAN
    BY <1>15 DEF SignalReload
  <2>2. env' \in 0..MaxEnv
    BY <1>0, <1>15, EnvStepType DEF SignalReload
  <2> QED BY <1>0, <1>15, <2>1, <2>2 DEF SignalReload, Interrupt, TypeOK
<1>16. CASE SignalOther
  <2>1. env' \in 0..MaxEnv
    BY <1>0, <1>16, EnvStepType DEF SignalOther
  <2> QED BY <1>0, <1>16, <2>1 DEF SignalOther, Interrupt, TypeOK
<1>17. CASE SignalTerm
  <2>1. env' \in 0..MaxEnv
    BY <1>0, <1>17, EnvStepType DEF SignalTerm
  <2>2. pc' \in {"spin", "exited"}
    BY <1>17, EndingType DEF SignalTerm
  <2> QED BY <1>0, <1>17, <2>1, <2>2 DEF SignalTerm, TypeOK
<1>18. ASSUME NEW text \in Texts \cup {NoFile}, EditConfig(text) PROVE TypeOK'
  <2>1. env' \in 0..MaxEnv
    BY <1>0, <1>18, EnvStepType DEF EditConfig
  <2>2. touched' \in BOOLEAN
    BY <1>18 DEF EditConfig
  <2> QED BY <1>0, <1>18, <2>1, <2>2 DEF EditConfig, TypeOK
<1>19. ASSUME NEW p \in Paths, ToggleLog(p) PROVE TypeOK'
  <2>1. env' \in 0..MaxEnv
    BY <1>0, <1>19, EnvStepType DEF ToggleLog
  <2>2. touched' \in BOOLEAN
    BY <1>19 DEF ToggleLog
  <2> QED BY <1>0, <1>19, <2>1, <2>2 DEF ToggleLog, TypeOK
<1>20. ASSUME NEW f \in m_watchMap, WriteLog(f) PROVE TypeOK'
  <2>1. env' \in 0..MaxEnv
    BY <1>0, <1>20, EnvStepType DEF WriteLog
  <2> QED BY <1>0, <1>20, <2>1 DEF WriteLog, TypeOK
<1>21. CASE UNCHANGED vars
  BY <1>0, <1>21 DEF vars, TypeOK
<1> QED
  BY <1>1, <1>2, <1>3, <1>4, <1>5, <1>6, <1>7, <1>8, <1>9, <1>10, <1>11, <1>12, <1>13, <1>14,
     <1>15, <1>16, <1>17, <1>18, <1>19, <1>20, <1>21
  DEF Next, MainStep, DownStep, EnvironmentStep

\* The mutex of m_lItems protects the down-bound thread's item: Unload and
\* LoadItem wait for it.
LEMMA NextPassLocked == MainInv /\ [Next]_vars => PassLocked'
<1> SUFFICES ASSUME MainInv, [Next]_vars PROVE PassLocked'
  OBVIOUS
<1>0. TypeOK /\ PassLocked
  BY DEF MainInv
<1> USE DEF PassLocked, downVars
<1>1. CASE Unload
  BY <1>0, <1>1 DEF Unload
<1>2. CASE LoadItem
  BY <1>0, <1>2 DEF LoadItem
<1>3. CASE StartListening
  BY <1>0, <1>3 DEF StartListening, TypeOK, configVars
<1>4. CASE DownLock
  BY <1>0, <1>4 DEF DownLock, TypeOK, configVars
<1>5. CASE DownNext
  <2>1. PICK i \in m_lItems :
          down' = [down EXCEPT !.item = i, !.visited = down.visited \cup {i}]
    BY <1>5 DEF DownNext
  <2>2. down'.item = i /\ down'.pc = "next"
    BY <1>0, <1>5, <2>1 DEF DownNext, TypeOK
  <2> QED BY <1>0, <1>5, <2>2 DEF DownNext, configVars
<1>6. CASE DownUnlock
  BY <1>0, <1>6 DEF DownUnlock, TypeOK
<1>7. CASE UNCHANGED <<locked, down, m_lItems, first>>
  BY <1>0, <1>7
<1> QED
  BY <1>1, <1>2, <1>3, <1>4, <1>5, <1>6, <1>7
  DEF Next, MainStep, DownStep, EnvironmentStep, TestConfiguration, StopListening, ParseConfig,
      LoadFails, Exit, ClearReload, EnterWait, ReadEvents, TestReload, Process, SignalReload,
      SignalOther, SignalTerm, EditConfig, ToggleLog, WriteLog, vars, configVars

\* What is on the heap is in the lists.
LEMMA NextObjectsListed == MainInv /\ [Next]_vars => ObjectsListed'
<1> SUFFICES ASSUME MainInv, [Next]_vars PROVE ObjectsListed'
  OBVIOUS
<1>0. TypeOK /\ ObjectsListed
  BY DEF MainInv
<1> USE DEF ObjectsListed
<1>1. CASE Unload
  BY <1>0, <1>1 DEF Unload
<1>2. CASE LoadItem
  BY <1>0, <1>2 DEF LoadItem
<1>3. CASE UNCHANGED <<m_lItems, m_lFiles, attached, liveItems, liveFiles>>
  BY <1>0, <1>3
<1> QED
  BY <1>1, <1>2, <1>3
  DEF Next, MainStep, DownStep, EnvironmentStep, TestConfiguration, StopListening, ParseConfig,
      LoadFails, Exit, StartListening, ClearReload, EnterWait, ReadEvents, TestReload, Process,
      DownLock, DownNext, DownUnlock, SignalReload, SignalOther, SignalTerm, EditConfig, ToggleLog,
      WriteLog, vars, configVars

\* Watches and events are those of listed files: stopListening lets a reload
\* pass only when nothing is watched.
LEMMA NextEventsOfFiles == MainInv /\ [Next]_vars => EventsOfFiles'
<1> SUFFICES ASSUME MainInv, [Next]_vars PROVE EventsOfFiles'
  OBVIOUS
<1>0. EventsOfFiles
  BY DEF MainInv
<1> USE EndingType DEF EventsOfFiles, worldVars, configVars, listenVars
<1>1. CASE TestConfiguration
  BY <1>0, <1>1 DEF TestConfiguration, Verdict
<1>2. CASE StopListening
  BY <1>0, <1>2 DEF StopListening
<1>3. CASE Unload
  BY <1>0, <1>3 DEF Unload
<1>4. CASE ParseConfig
  BY <1>0, <1>4 DEF ParseConfig
<1>5. CASE LoadFails
  BY <1>0, <1>5 DEF LoadFails, Exit
<1>6. CASE LoadItem
  BY <1>0, <1>6 DEF LoadItem
<1>7. CASE StartListening
  BY <1>0, <1>7 DEF StartListening
<1>8. CASE ClearReload \/ EnterWait \/ ReadEvents
  BY <1>0, <1>8 DEF ClearReload, EnterWait, ReadEvents
<1>9. CASE TestReload
  BY <1>0, <1>9 DEF TestReload
<1>10. CASE Process
  BY <1>0, <1>10 DEF Process
<1>11. CASE DownStep
  BY <1>0, <1>11 DEF DownStep, DownLock, DownNext, DownUnlock
<1>12. CASE SignalReload \/ SignalOther
  BY <1>0, <1>12 DEF SignalReload, SignalOther, Interrupt
<1>13. CASE SignalTerm
  BY <1>0, <1>13 DEF SignalTerm
<1>14. ASSUME NEW text, EditConfig(text) PROVE EventsOfFiles'
  BY <1>0, <1>14 DEF EditConfig
<1>15. ASSUME NEW p, ToggleLog(p) PROVE EventsOfFiles'
  BY <1>0, <1>15 DEF ToggleLog
<1>16. ASSUME NEW f \in m_watchMap, WriteLog(f) PROVE EventsOfFiles'
  BY <1>0, <1>16 DEF WriteLog
<1>17. CASE UNCHANGED vars
  BY <1>0, <1>17 DEF vars
<1> QED
  BY <1>1, <1>2, <1>3, <1>4, <1>5, <1>6, <1>7, <1>8, <1>9, <1>10, <1>11, <1>12, <1>13, <1>14,
     <1>15, <1>16, <1>17
  DEF Next, MainStep, EnvironmentStep

\* A step that leaves config alone leaves alone what is monitored.
LEMMA MonitorsUnchanged ==
  ASSUME UNCHANGED configVars
  PROVE  /\ Sections(ini)' = Sections(ini)
         /\ Monitors({})' <=> Monitors({})
         /\ Monitors(Sections(ini))' <=> Monitors(Sections(ini))
         /\ Monitors(Sections(ini) \ todo)' <=> Monitors(Sections(ini) \ todo)
  BY DEF configVars, Monitors, Sections, SectionParam

\* loadLogItem adds the next section to what is monitored.
LEMMA LoadItemMonitors ==
  ASSUME TypeOK, LoadItem, todo \subseteq Sections(ini), Monitors(Sections(ini) \ todo)
  PROVE  Monitors(Sections(ini) \ todo)' /\ todo' \subseteq Sections(ini)'
<1> DEFINE s == FirstOf(todo)
           done == Sections(ini) \ todo
           pair(r) == <<<<SectionParam(ini, r, "path"), gen>>, <<r, gen>>>>
<1>1. s \in todo
  BY FirstOfMember DEF LoadItem, TypeOK
<1>2. UNCHANGED <<ini, gen>> /\ todo' = todo \ {s}
  BY DEF LoadItem
<1>3. m_lItems' = m_lItems \cup {<<s, gen>>} /\ attached' = attached \cup {pair(s)}
  BY DEF LoadItem
<1> HIDE DEF s
<1>4. (Sections(ini) \ todo)' = done \cup {s} /\ todo' \subseteq Sections(ini)'
  BY <1>1, <1>2 DEF Sections
<1>5. m_lItems = done \X {gen} /\ attached = {pair(r) : r \in done}
  BY DEF Monitors
<1>6. m_lItems' = (done \cup {s}) \X {gen} /\ attached' = {pair(r) : r \in done \cup {s}}
  BY <1>3, <1>5
<1>7. \A r : pair(r) = <<<<SectionParam(ini, r, "path")', gen'>>, <<r, gen'>>>>
  BY <1>2 DEF SectionParam
<1>8. m_lItems' = (Sections(ini) \ todo)' \X {gen'}
  BY <1>2, <1>4, <1>6
<1>9. attached' = {<<<<SectionParam(ini, r, "path")', gen'>>, <<r, gen'>>>> :
                     r \in (Sections(ini) \ todo)'}
  BY <1>4, <1>6, <1>7
<1> QED BY <1>4, <1>8, <1>9 DEF Monitors

\* A load monitors more and more of one configuration, and all of it when the
\* event loop goes on.
LEMMA NextConfiguration ==
  MainInv /\ [Next]_vars => LoadProgress' /\ WholeConfiguration'
<1> SUFFICES ASSUME MainInv, [Next]_vars PROVE LoadProgress' /\ WholeConfiguration'
  OBVIOUS
<1>0. TypeOK /\ LoadProgress /\ WholeConfiguration /\ m_watchMap' \subseteq m_lFiles'
  BY NextEventsOfFiles DEF MainInv, EventsOfFiles
<1> USE EndingType DEF LoadProgress, WholeConfiguration
<1>1. CASE Unload
  <2>1. Monitors({})'
    BY <1>1 DEF Unload, Monitors
  <2> QED BY <1>1, <2>1 DEF Unload
<1>2. CASE ParseConfig
  <2>1. Monitors({})' /\ (Sections(ini) \ todo)' = {} /\ (todo \subseteq Sections(ini))'
    BY <1>0, <1>2 DEF ParseConfig, Monitors, Sections
  <2> QED BY <1>2, <2>1 DEF ParseConfig
<1>3. CASE LoadItem
  <2>1. Monitors(Sections(ini) \ todo)' /\ todo' \subseteq Sections(ini)'
    BY <1>0, <1>3, LoadItemMonitors DEF LoadItem
  <2> QED BY <1>3, <2>1 DEF LoadItem
<1>4. CASE StartListening
  <2>1. Sections(ini) \ todo = Sections(ini) /\ Monitors(Sections(ini) \ todo)
    BY <1>0, <1>4 DEF StartListening
  <2>2. Monitors(Sections(ini))
    BY <2>1
  <2>3. Monitors(Sections(ini))' /\ pc' \in {"enter", "clear"}
    BY <1>4, <2>2, MonitorsUnchanged DEF StartListening
  <2> QED BY <1>0, <2>3
<1>5. ASSUME UNCHANGED configVars,
             \/ pc' \in {"spin", "exited", "unload"}
             \/ pc' = pc
             \/ /\ pc \in {"enter", "wait", "got", "process", "test", "stop", "clear"}
                /\ pc' \in {"enter", "wait", "got", "process", "test", "stop", "clear"}
      PROVE  LoadProgress' /\ WholeConfiguration'
  <2>1. UNCHANGED todo
    BY <1>5 DEF configVars
  <2> QED BY <1>0, <1>5, <2>1, MonitorsUnchanged
<1>6. CASE TestConfiguration \/ StopListening \/ LoadFails
  BY <1>5, <1>6 DEF TestConfiguration, StopListening, LoadFails, Exit, Verdict
<1>7. CASE ClearReload \/ EnterWait \/ ReadEvents \/ TestReload \/ Process
  BY <1>5, <1>7 DEF ClearReload, EnterWait, ReadEvents, TestReload, Process
<1>8. CASE DownStep
  BY <1>5, <1>8 DEF DownStep, DownLock, DownNext, DownUnlock
<1>9. CASE SignalReload \/ SignalOther \/ SignalTerm
  BY <1>5, <1>9 DEF SignalReload, SignalOther, SignalTerm, Interrupt
<1>10. ASSUME NEW text, EditConfig(text) PROVE LoadProgress' /\ WholeConfiguration'
  BY <1>5, <1>10 DEF EditConfig
<1>11. ASSUME NEW p, ToggleLog(p) PROVE LoadProgress' /\ WholeConfiguration'
  BY <1>5, <1>11 DEF ToggleLog
<1>12. ASSUME NEW f, WriteLog(f) PROVE LoadProgress' /\ WholeConfiguration'
  BY <1>5, <1>12 DEF WriteLog
<1>13. CASE UNCHANGED vars
  BY <1>5, <1>13 DEF vars, configVars
<1> QED
  BY <1>1, <1>2, <1>3, <1>4, <1>6, <1>7, <1>8, <1>9, <1>10, <1>11, <1>12, <1>13
  DEF Next, MainStep, EnvironmentStep

\* The verdict on a file is the same as long as the file and the logs are.
LEMMA VerdictUnchanged ==
  ASSUME UNCHANGED <<disk, present>>
  PROVE  Verdict(disk)' = Verdict(disk)
  BY DEF Verdict, Readable, OptionsKnown, SectionLoads, FatalSection, SectionParam, Sections,
         Parse, SettingsOf

\* Between its test and its load a configuration changes only by an edit.
LEMMA NextTestedStillGood == MainInv /\ [Next]_vars => TestedStillGood'
<1> SUFFICES ASSUME MainInv, [Next]_vars PROVE TestedStillGood'
  OBVIOUS
<1>0. TypeOK /\ TestedStillGood
  BY DEF MainInv
<1> USE EndingType DEF TestedStillGood
<1>1. CASE TestConfiguration
  <2>1. Verdict(disk)' = Verdict(disk) /\ (pc' = "stop" => Verdict(disk) = "ok")
    BY <1>1, VerdictUnchanged DEF TestConfiguration, Verdict
  <2>2. pc' \in {"stop", "clear", "spin", "exited"}
    BY <1>1 DEF TestConfiguration, Verdict
  <2> QED BY <2>1, <2>2
<1>2. ASSUME UNCHANGED <<disk, present, touched, first, ini>>,
             \/ pc' = pc
             \/ pc' \in {"spin", "exited", "clear", "enter", "wait", "got", "process", "test"}
             \/ pc \in {"stop", "unload"} /\ pc' \in {"unload", "parse"}
      PROVE  TestedStillGood'
  <2>1. Verdict(disk)' = Verdict(disk) /\ Parse(disk)' = Parse(disk)
    BY <1>2, VerdictUnchanged DEF Parse, SettingsOf
  <2> QED BY <1>0, <1>2, <2>1
<1>3. CASE StopListening \/ Unload \/ LoadFails
  BY <1>2, <1>3 DEF StopListening, Unload, LoadFails, Exit, worldVars, configVars
<1>4. CASE ParseConfig
  <2>1. Verdict(disk)' = Verdict(disk) /\ Parse(disk)' = Parse(disk)
    BY <1>4, VerdictUnchanged DEF ParseConfig, worldVars, Parse, SettingsOf
  <2> QED BY <1>0, <1>4, <2>1 DEF ParseConfig, worldVars
<1>5. CASE LoadItem
  BY <1>2, <1>5 DEF LoadItem, worldVars
<1>6. CASE StartListening
  BY <1>6 DEF StartListening
<1>7. CASE ClearReload \/ EnterWait \/ ReadEvents \/ TestReload \/ Process
  BY <1>2, <1>7 DEF ClearReload, EnterWait, ReadEvents, TestReload, Process, worldVars, configVars
<1>8. CASE DownStep
  BY <1>2, <1>8 DEF DownStep, DownLock, DownNext, DownUnlock, worldVars, configVars
<1>9. CASE SignalReload \/ SignalOther \/ SignalTerm
  BY <1>2, <1>9 DEF SignalReload, SignalOther, SignalTerm, Interrupt, configVars
<1>10. ASSUME NEW text, EditConfig(text) PROVE TestedStillGood'
  BY <1>10 DEF EditConfig
<1>11. ASSUME NEW p, ToggleLog(p) PROVE TestedStillGood'
  BY <1>11 DEF ToggleLog
<1>12. ASSUME NEW f, WriteLog(f) PROVE TestedStillGood'
  BY <1>2, <1>12 DEF WriteLog, configVars
<1>13. CASE UNCHANGED vars
  BY <1>2, <1>13 DEF vars
<1> QED
  BY <1>1, <1>3, <1>4, <1>5, <1>6, <1>7, <1>8, <1>9, <1>10, <1>11, <1>12, <1>13
  DEF Next, MainStep, EnvironmentStep

\* The daemon keeps its inductive invariant.
THEOREM MainInvariant == Spec => []MainInv
<1>1. MainInv /\ [Next]_vars => MainInv'
  BY NextTypeOK, NextPassLocked, NextObjectsListed, NextEventsOfFiles, NextConfiguration,
     NextTestedStillGood DEF MainInv
<1> QED
  BY InitMainInv, <1>1, PTL DEF Spec

-----------------------------------------------------------------------------
(* What follows                                                            *)

\* The variables of the daemon stay in their types.
THEOREM MainTypeCorrect == Spec => []TypeOK
<1>1. MainInv => TypeOK
  BY DEF MainInv
<1> QED
  BY MainInvariant, <1>1, PTL

\* Neither the down-bound thread nor the main loop uses an object that a
\* reload has deleted.
THEOREM NoDeletedObjectUsed == Spec => []NoDanglingPointer
<1>1. MainInv => NoDanglingPointer
  BY DEF MainInv, PassLocked, ObjectsListed, EventsOfFiles, NoDanglingPointer
<1> QED
  BY MainInvariant, <1>1, PTL

\* Whatever is edited and signalled, the event loop runs with one whole
\* configuration.
THEOREM OneConfiguration == Spec => []WholeConfiguration
<1>1. MainInv => WholeConfiguration
  BY DEF MainInv
<1> QED
  BY MainInvariant, <1>1, PTL

\* A reload that passed its test fails only after a change or a SIGTERM.
THEOREM TestProtectsLoad == Spec => LoadAgreesWithTest
<1>1. MainInv /\ [Next]_vars =>
        [~first /\ pc \in {"parse", "items"} /\ pc' \in {"spin", "exited"}
           => touched \/ env' # env]_vars
  <2> SUFFICES ASSUME MainInv, Next, ~first, pc \in {"parse", "items"}, pc' \in {"spin", "exited"},
                      ~touched, env' = env
               PROVE  FALSE
    OBVIOUS
  <2>1. LoadFails
    <3>1. env \in Nat
      BY DEF MainInv, TypeOK
    <3>2. ~EnvironmentStep
      BY <3>1 DEF EnvironmentStep, SignalReload, SignalOther, SignalTerm, EditConfig, ToggleLog,
                  WriteLog, EnvStep
    <3>3. ~DownStep
      BY DEF DownStep, DownLock, DownNext, DownUnlock
    <3> QED
      BY <3>2, <3>3
      DEF Next, MainStep, TestConfiguration, StopListening, Unload, ParseConfig, LoadItem,
          StartListening, ClearReload, EnterWait, ReadEvents, TestReload, Process
  <2>2. Verdict(disk) = "ok" /\ (pc = "items" => ini = Parse(disk))
    BY DEF MainInv, TestedStillGood
  <2>3. /\ Readable(disk)
        /\ \A s \in Sections(Parse(disk)) : SectionLoads(Parse(disk), s, present)
    BY <2>2, VerdictOk
  <2>4. pc = "items" /\ todo # {} /\ ~SectionLoads(ini, FirstOf(todo), Openable)
    BY <2>1, <2>3 DEF LoadFails
  <2>5. FirstOf(todo) \in Sections(ini)
    BY <2>4, FirstOfMember DEF MainInv, TypeOK, LoadProgress
  <2>6. SectionLoads(ini, FirstOf(todo), present)
    BY <2>2, <2>3, <2>4, <2>5
  <2> QED
    BY <2>4, <2>6 DEF SectionLoads, Openable
<1> QED
  BY MainInvariant, <1>1, PTL DEF Spec, LoadAgreesWithTest
=============================================================================
