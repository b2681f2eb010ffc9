------------------------------ MODULE LogWatch ------------------------------
(***************************************************************************)
(* Following one log file through rotation: LNInotify (addWatch, rmWatch,  *)
(* handleIfFileRemoved, handleEvent, readEvents), LNLogFile::reopen and    *)
(* close, and the part of main_proc that reads a file after its events.    *)
(*                                                                         *)
(* The kernel and the logging program are external: inodes that are        *)
(* created, renamed, unlinked, written and freed, inotify watches and the  *)
(* event queue.  Their steps fall between any two system calls of the      *)
(* reader that can observe them.  A file is a number of lines; how bytes   *)
(* become lines is the subject of LogReader.                               *)
(***************************************************************************)
EXTENDS Naturals, Sequences

CONSTANTS
  None,        \* no inode
  PathDangles, \* addWatch's pathToWatch may point into a destroyed string
  MaxInode,    \* bound: files that ever exist under the log's path
  MaxLine,     \* bound: lines in one file
  MaxOps       \* bound: steps of the environment

Inodes == 1..MaxInode

\* The inode of the log's directory.
Dir == 0

ASSUME WatchAssumption ==
  /\ MaxInode \in Nat \ {0} /\ MaxLine \in Nat /\ MaxOps \in Nat
  /\ None \notin Inodes \cup {Dir} /\ PathDangles \in BOOLEAN

VARIABLES
  path,        \* inode the log's path names, or None
  size,        \* [Inodes -> lines in it]
  linked,      \* inodes with a name, the rotated ones included
  inodes,      \* inodes that exist: linked, or still open somewhere
  nextInode,
  watch,       \* kernel: [live watch descriptors -> inode or Dir]
  nextWd,
  queue,       \* kernel: inotify events not read yet
  m_fd,        \* inode the reader has open, or None
  m_curPos,    \* lines of it the reader is past
  m_watchMap,  \* watch descriptors LNInotify maps to the log file
  pc,          \* where the main loop is
  batch,       \* events readEvents has not handled yet
  ready,       \* the file is in the LNLogEvents to be processed
  delivered,   \* history: lines handed to processLogFile, <<inode, number>>
  owed,        \* history: lines written while the reader watched their file
  failed,      \* history: a reopen or an addWatch failed
  ops          \* number of environment steps

fsVars     == <<path, size, linked, inodes, nextInode>>
kernelVars == <<watch, nextWd, queue>>
readerVars == <<m_fd, m_curPos, m_watchMap, pc, batch, ready, delivered, failed>>
vars == <<path, size, linked, inodes, nextInode, watch, nextWd, queue, m_fd, m_curPos, m_watchMap,
          pc, batch, ready, delivered, owed, failed, ops>>

\* The file exists and is empty; startListening has opened and watched it.
Init ==
  /\ path = 1 /\ size = [i \in Inodes |-> 0]
  /\ linked = {1} /\ inodes = {1} /\ nextInode = 2
  /\ watch = [w \in {1} |-> 1] /\ nextWd = 2 /\ queue = <<>>
  /\ m_fd = 1 /\ m_curPos = 0 /\ m_watchMap = {1}
  /\ pc = "wait" /\ batch = <<>> /\ ready = FALSE
  /\ delivered = {} /\ owed = {} /\ failed = FALSE /\ ops = 0

-----------------------------------------------------------------------------
(* Kernel: inotify                                                         *)

Watched(target) == \E w \in DOMAIN watch : watch[w] = target

\* The event of the given kind for the watch on target, if there is one.
EventOf(target, kind, name) ==
  IF Watched(target)
    THEN <<[wd |-> CHOOSE w \in DOMAIN watch : watch[w] = target, kind |-> kind, name |-> name]>>
    ELSE <<>>

\* An event equal to the last one in the queue is merged with it.
Queued(q, e) == IF q # <<>> /\ e = <<q[Len(q)]>> THEN q ELSE q \o e

WithoutInode(w, i) == [d \in {x \in DOMAIN w : w[x] # i} |-> w[d]]

-----------------------------------------------------------------------------
(* Environment: the logging program, logrotate, the administrator          *)

EnvStep == ops < MaxOps /\ ops' = ops + 1

\* A line is appended to the file, or to a rotated one that is still open.
Write(i) ==
  /\ EnvStep
  /\ i \in inodes /\ size[i] < MaxLine
  /\ size' = [size EXCEPT ![i] = size[i] + 1]
  /\ queue' = Queued(Queued(queue, EventOf(Dir, "modify", IF i = path THEN "log" ELSE "other")),
                     EventOf(i, "modify", "none"))
  /\ owed' = IF i = path /\ m_fd = i /\ \E w \in m_watchMap \cap DOMAIN watch : watch[w] = i
               THEN owed \cup {<<i, size[i] + 1>>}
               ELSE owed
  /\ UNCHANGED <<path, linked, inodes, nextInode, watch, nextWd, readerVars>>

\* logrotate renames the log.
Rename ==
  /\ EnvStep
  /\ path # None
  /\ path' = None
  /\ queue' = Queued(Queued(Queued(queue, EventOf(Dir, "moved_from", "log")),
                            EventOf(Dir, "moved_to", "other")),
                     EventOf(path, "move_self", "none"))
  /\ UNCHANGED <<size, linked, inodes, nextInode, watch, nextWd, readerVars, owed>>

\* The log is deleted.  Its inode lives on while somebody has it open.
Unlink ==
  /\ EnvStep
  /\ path # None
  /\ path' = None
  /\ linked' = linked \ {path}
  /\ queue' = Queued(Queued(queue, EventOf(path, "attrib", "none")), EventOf(Dir, "delete", "log"))
  /\ UNCHANGED <<size, inodes, nextInode, watch, nextWd, readerVars, owed>>

\* An empty file appears under the log's path; IN_CREATE is not watched for.
Create ==
  /\ EnvStep
  /\ path = None /\ nextInode \in Inodes
  /\ path' = nextInode
  /\ linked' = linked \cup {nextInode}
  /\ inodes' = inodes \cup {nextInode}
  /\ nextInode' = nextInode + 1
  /\ UNCHANGED <<size, kernelVars, readerVars, owed>>

\* chmod, chown or touch of the log or of a file beside it.
Touch(name) ==
  /\ EnvStep
  /\ name = "log" => path # None
  /\ queue' = Queued(Queued(queue, EventOf(Dir, "attrib", name)),
                     IF name = "log" THEN EventOf(path, "attrib", "none") ELSE <<>>)
  /\ UNCHANGED <<fsVars, watch, nextWd, readerVars, owed>>

\* The last descriptor of an unlinked file is closed: its watch goes with it.
Free(i) ==
  /\ i \in inodes \ linked
  /\ m_fd # i
  /\ inodes' = inodes \ {i}
  /\ watch' = WithoutInode(watch, i)
  /\ UNCHANGED <<path, size, linked, nextInode, nextWd, queue, readerVars, owed, ops>>

-----------------------------------------------------------------------------
(* LNInotify::addWatch, LNInotify::rmWatch(wd), LNLogFile::close           *)

\* inotify_add_watch returns the descriptor an inode already has.
WdFor(w, target) ==
  IF \E d \in DOMAIN w : w[d] = target
    THEN CHOOSE d \in DOMAIN w : w[d] = target
    ELSE nextWd

\* Mutant of SwapWatch: the new watch is not entered in the map.
SwapWatchUnmapped(w, old, target) ==
  LET kept == [d \in DOMAIN w \ {old} |-> w[d]]
      wd   == WdFor(kept, target)
  IN /\ watch' = IF target = None
                   THEN kept
                   ELSE [d \in DOMAIN kept \cup {wd} |-> IF d = wd THEN target ELSE kept[d]]
     /\ m_watchMap' = IF old \in DOMAIN w THEN m_watchMap \ {old} ELSE m_watchMap
     /\ nextWd' = IF target # None /\ wd = nextWd THEN nextWd + 1 ELSE nextWd

\* rmWatch(old) on watches w, then addWatch(target).  inotify_rm_watch fails
\* on a watch that is gone, and the map then keeps its entry.
SwapWatch(w, old, target) ==
  LET kept == [d \in DOMAIN w \ {old} |-> w[d]]
      map  == IF old \in DOMAIN w THEN m_watchMap \ {old} ELSE m_watchMap
      wd   == WdFor(kept, target)
  IN IF target = None
       THEN /\ watch' = kept
            /\ m_watchMap' = map
            /\ UNCHANGED nextWd
       ELSE /\ watch' = [d \in DOMAIN kept \cup {wd} |-> IF d = wd THEN target ELSE kept[d]]
            /\ m_watchMap' = map \cup {wd}
            /\ nextWd' = IF wd = nextWd THEN nextWd + 1 ELSE nextWd

\* Closing the reader's descriptor frees an unlinked inode that nobody else
\* has open.
AfterClose(freed) ==
  IF freed
    THEN [ino |-> inodes \ {m_fd}, w |-> WithoutInode(watch, m_fd)]
    ELSE [ino |-> inodes, w |-> watch]

MayFree(freed) == freed => m_fd # None /\ m_fd \notin linked

\* What addWatch finds to watch when it is given target.  Its pathToWatch is
\* the c_str() of a temporary: with reference-counted strings, or a short path,
\* the text is still there; otherwise inotify_add_watch fails with ENOENT.
AddedWatch(target) == IF PathDangles THEN {target, None} ELSE {target}

-----------------------------------------------------------------------------
(* LNInotify::readEvents                                                   *)

e == Head(batch)

NextEvent == batch' = Tail(batch) /\ pc' = "event"

NeedsCheck(kind) == kind \in {"attrib", "moved_from", "move_self"}

\* epoll_wait returned; all pending events are read at once.
ReadEvents ==
  /\ pc = "wait"
  /\ queue # <<>>
  /\ batch' = queue
  /\ queue' = <<>>
  /\ ready' = FALSE
  /\ pc' = "event"
  /\ UNCHANGED <<fsVars, watch, nextWd, m_fd, m_curPos, m_watchMap, delivered, owed, failed, ops>>

\* The event's descriptor is not in the map.
SkipEvent ==
  /\ pc = "event"
  /\ batch # <<>>
  /\ e.wd \notin m_watchMap
  /\ NextEvent
  /\ UNCHANGED <<fsVars, kernelVars, m_fd, m_curPos, m_watchMap, ready, delivered, owed, failed,
                 ops>>

\* handleIfFileRemoved: does the path exist?  What follows acts on the answer
\* whatever happens to the path meanwhile.
CheckExists ==
  /\ pc = "event"
  /\ batch # <<>>
  /\ e.wd \in m_watchMap
  /\ NeedsCheck(e.kind)
  /\ pc' = IF path # None THEN "reinit" ELSE IF m_fd # None THEN "gone" ELSE "handle"
  /\ UNCHANGED <<fsVars, kernelVars, m_fd, m_curPos, m_watchMap, batch, ready, delivered, owed,
                 failed, ops>>

\* Mutant of WatchDirectory: the directory is not watched.
WatchNothing ==
  /\ pc = "gone"
  /\ \E freed \in BOOLEAN :
       /\ MayFree(freed)
       /\ inodes' = AfterClose(freed).ino
       /\ SwapWatch(AfterClose(freed).w, e.wd, None)
  /\ m_fd' = None
  /\ NextEvent
  /\ UNCHANGED <<path, size, linked, nextInode, queue, m_curPos, ready, delivered, owed, failed,
                 ops>>

\* handleIfFileRemoved, file missing: close it and watch its directory.
WatchDirectory ==
  /\ pc = "gone"
  /\ \E freed \in BOOLEAN :
       /\ MayFree(freed)
       /\ inodes' = AfterClose(freed).ino
       /\ \E target \in AddedWatch(Dir) :
            /\ SwapWatch(AfterClose(freed).w, e.wd, target)
            /\ failed' = (failed \/ target = None)
  /\ m_fd' = None
  /\ NextEvent
  /\ UNCHANGED <<path, size, linked, nextInode, queue, m_curPos, ready, delivered, owed, ops>>

\* Mutant of PositionAfter: the old position is always kept.
PositionKept(seekEnd) == m_curPos

\* Mutant of PositionAfter: the file is always read from its start.
PositionStart(seekEnd) == 0

\* Mutant of PositionAfter: the old position is never kept.
PositionAnew(seekEnd) == IF seekEnd THEN size[path] ELSE 0

\* LNLogFile::reopen: the old position is kept if the file is long enough for
\* it, whichever file that is now.
PositionAfter(seekEnd) ==
  IF m_curPos > size[path]
    THEN IF seekEnd THEN size[path] ELSE 0
    ELSE m_curPos

Reopen(seekEnd, after) ==
  /\ \E freed \in BOOLEAN :
       /\ MayFree(freed)
       /\ inodes' = AfterClose(freed).ino
       /\ watch' = AfterClose(freed).w
  /\ m_fd' = path
  /\ m_curPos' = IF path = None THEN m_curPos ELSE PositionAfter(seekEnd)
  /\ failed' = (failed \/ path = None)
  /\ pc' = after
  /\ UNCHANGED <<path, size, linked, nextInode, nextWd, queue, m_watchMap, batch, ready, delivered,
                 owed, ops>>

\* handleIfFileRemoved, file present: reopen(true), then a new watch, then
\* handleEvent.
Reinitialize == pc = "reinit" /\ Reopen(TRUE, "rewatch")

\* handleEvent, the file is back: reopen(false), then a new watch.
CreatedBack == pc = "back" /\ Reopen(FALSE, "rewatchBack")

\* rmWatch(wd) and addWatch(pFile) after a reopen.
Rewatch ==
  /\ pc \in {"rewatch", "rewatchBack"}
  /\ \E target \in AddedWatch(path) :
       /\ SwapWatch(watch, e.wd, target)
       /\ failed' = (failed \/ target = None)
  /\ IF pc = "rewatch"
       THEN pc' = "handle" /\ UNCHANGED <<batch, ready>>
       ELSE NextEvent /\ ready' = TRUE
  /\ UNCHANGED <<fsVars, queue, m_fd, m_curPos, delivered, owed, ops>>

\* handleEvent
HandleEvent ==
  /\ \/ pc = "handle"
     \/ pc = "event" /\ batch # <<>> /\ e.wd \in m_watchMap /\ ~NeedsCheck(e.kind)
  /\ \/ /\ m_fd = None /\ e.name = "log"
        /\ pc' = "back"
        /\ UNCHANGED <<batch, ready>>
     \/ /\ m_fd = None /\ e.name = "other"
        /\ NextEvent
        /\ UNCHANGED ready
     \/ /\ m_fd # None \/ e.name = "none"
        /\ NextEvent
        /\ ready' = TRUE
  /\ UNCHANGED <<fsVars, kernelVars, m_fd, m_curPos, m_watchMap, delivered, owed, failed, ops>>

-----------------------------------------------------------------------------
(* main_proc: processLogFile for the file of the events                    *)

NewLines == IF ready /\ m_fd # None THEN {<<m_fd, k>> : k \in (m_curPos + 1)..size[m_fd]} ELSE {}

\* Mutant of ProcessFile: the position is one too far.
ProcessFileTooFar ==
  /\ pc = "event"
  /\ batch = <<>>
  /\ delivered' = delivered \cup NewLines
  /\ m_curPos' = IF ready /\ m_fd # None THEN size[m_fd] + 1 ELSE m_curPos
  /\ pc' = "wait"
  /\ UNCHANGED <<fsVars, kernelVars, m_fd, m_watchMap, batch, ready, owed, failed, ops>>

\* The file is read to its end if an event put it on the list and it is open.
ProcessFile ==
  /\ pc = "event"
  /\ batch = <<>>
  /\ delivered' = delivered \cup NewLines
  /\ m_curPos' = IF ready /\ m_fd # None THEN size[m_fd] ELSE m_curPos
  /\ pc' = "wait"
  /\ UNCHANGED <<fsVars, kernelVars, m_fd, m_watchMap, batch, ready, owed, failed, ops>>

-----------------------------------------------------------------------------
Environment ==
  \/ \E i \in Inodes : Write(i) \/ Free(i)
  \/ Rename
  \/ Unlink
  \/ Create
  \/ \E name \in {"log", "other"} : Touch(name)

Reader ==
  \/ ReadEvents
  \/ SkipEvent
  \/ CheckExists
  \/ WatchDirectory
  \/ Reinitialize
  \/ CreatedBack
  \/ Rewatch
  \/ HandleEvent
  \/ ProcessFile

Next == Environment \/ Reader

Spec == Init /\ [][Next]_vars

\* The main loop is scheduled; the environment owes nothing.
FairSpec == Spec /\ WF_vars(Reader)

-----------------------------------------------------------------------------
(* Properties                                                              *)

Events == [wd : Nat, kind : {"modify", "attrib", "move_self", "moved_from", "moved_to", "delete"},
           name : {"log", "other", "none"}]

\* The variables stay in their types.
TypeOK ==
  /\ path \in Inodes \cup {None} /\ size \in [Inodes -> 0..MaxLine]
  /\ linked \subseteq inodes /\ inodes \subseteq Inodes /\ nextInode \in Nat
  /\ watch \in [DOMAIN watch -> Inodes \cup {Dir}] /\ DOMAIN watch \subseteq Nat
  /\ nextWd \in Nat /\ queue \in Seq(Events) /\ batch \in Seq(Events)
  /\ m_fd \in Inodes \cup {None} /\ m_curPos \in 0..MaxLine /\ m_watchMap \subseteq Nat
  /\ pc \in {"wait", "event", "gone", "reinit", "rewatch", "back", "rewatchBack", "handle"}
  /\ ready \in BOOLEAN /\ failed \in BOOLEAN /\ ops \in 0..MaxOps
  /\ delivered \subseteq Inodes \X (1..MaxLine) /\ owed \subseteq Inodes \X (1..MaxLine)

\* Every watch the kernel holds is known to m_watchMap, on every path through
\* handleIfFileRemoved and handleEvent: no event is thrown away for want of a
\* map entry while its watch is alive.
LiveWatchesMapped == DOMAIN watch \subseteq m_watchMap

\* The reader's offset never lies beyond the file it reads, whichever file
\* reopen found under the path.
PositionInFile == m_fd # None => m_curPos <= size[m_fd]

\* No line is processed twice, whatever rotations, touches and stale events
\* come in between.
NoLineTwice ==
  [][pc = "event" /\ pc' = "wait" => NewLines \cap delivered = {}]_vars

\* The reader goes back to wait with nothing to wait for only if a reopen or
\* an addWatch has failed: on no other path through handleIfFileRemoved and
\* handleEvent is a watch removed without another one to take its place.
DeafOnlyAfterFailure ==
  pc = "wait" /\ queue = <<>> /\ DOMAIN watch = {} => failed

\* A line written while the reader has the file open and watched is
\* processed, unless the file is rotated away first.
WrittenLineProcessed ==
  \A i \in Inodes, k \in 1..MaxLine :
    <<i, k>> \in owed ~> <<i, k>> \in delivered \/ path # i

\* monitor.cpp, handleIfFileRemoved: "From here directory where file is placed
\* will be monitored if file with same name is created again it will be handled
\* and re-opened, this is important for logrotate."  While the reader waits,
\* the file or its directory is watched.
NeverDeaf == pc = "wait" /\ queue = <<>> => DOMAIN watch # {}
=============================================================================
