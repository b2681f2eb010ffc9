--------------------------- MODULE LogWatchProofs ---------------------------
(***************************************************************************)
(* Proofs about LogWatch for any number of files, lines and environment    *)
(* steps, whether or not addWatch's path dangles.                          *)
(***************************************************************************)
EXTENDS LogWatch, SequenceTheorems, TLAPS

-----------------------------------------------------------------------------
(* The inductive invariant                                                 *)

\* What the proofs need to know beyond the invariants above.  An event is in
\* hand while it is handled; inodes are never used again; the file that
\* handleIfFileRemoved is about to close is not the one under the path now.
EventInHand == pc \notin {"wait", "event"} => batch # <<>>

InodesFresh ==
  /\ m_fd # None => m_fd < nextInode
  /\ path # None => path < nextInode
  /\ \A d \in delivered : d[1] < nextInode

GoneFileReplaced == pc = "gone" => m_fd # None /\ m_fd # path

\* Processed lines lie behind the offset, and a file under the path that the
\* reader has not open has given it none.
DeliveredBehind ==
  \A d \in delivered : /\ d[1] = m_fd => d[2] <= m_curPos
                       /\ d[1] = path => m_fd = path

\* A batch is handled to its end before the next wait, the path names a linked
\* file, a file is open when its watch is renewed, and a reader without a file
\* has its directory watched.
BatchDone == pc = "wait" => batch = <<>>

PathLinked == path # None => path \in linked

OpenToRewatch == pc \in {"rewatch", "rewatchBack"} /\ ~failed => m_fd # None

ClosedWatchesDirectory == m_fd = None /\ ~failed => Watched(Dir)

\* A watch that no step of the environment can take away.
LastingWatch == \E w \in DOMAIN watch : watch[w] \in linked \cup {Dir, m_fd}

\* Numbers of the events in batch that are still to be looked at.
Unhandled == {j \in 1..Len(batch) : pc = "handle" => j > 1}

\* An event that will make handleIfFileRemoved set up a new watch.
Alerts(ev) == ev.wd \in m_watchMap /\ NeedsCheck(ev.kind)

AlertPending ==
  \/ \E j \in 1..Len(queue) : Alerts(queue[j])
  \/ \E j \in Unhandled : Alerts(batch[j])

\* Between two swaps of watches, unless a call has failed, there is a watch
\* that lasts, or the event that told of the end of the last one is not
\* handled yet.
Hears ==
  pc \in {"wait", "event", "handle"} /\ ~failed => LastingWatch \/ AlertPending

\* The inductive invariant of the proofs.
WatchInv ==
  /\ TypeOK
  /\ LiveWatchesMapped
  /\ PositionInFile
  /\ EventInHand
  /\ InodesFresh
  /\ GoneFileReplaced
  /\ DeliveredBehind
  /\ BatchDone
  /\ PathLinked
  /\ OpenToRewatch
  /\ ClosedWatchesDirectory
  /\ Hears

-----------------------------------------------------------------------------
(* Types                                                                   *)

Kinds == {"modify", "attrib", "move_self", "moved_from", "moved_to", "delete"}
Names == {"log", "other", "none"}

\* The type of the kernel's table of watches.
IsWatches(w) == DOMAIN w \subseteq Nat /\ w \in [DOMAIN w -> Inodes \cup {Dir}]

-----------------------------------------------------------------------------
(* Operators                                                               *)

\* The kernel's events are events.
LEMMA EventOfType ==
  ASSUME TypeOK, NEW target, NEW kind \in Kinds, NEW name \in Names
  PROVE  EventOf(target, kind, name) \in Seq(Events)
<1>1. CASE Watched(target)
  <2>1. \E w \in DOMAIN watch : watch[w] = target
    BY <1>1 DEF Watched
  <2> DEFINE d == CHOOSE w \in DOMAIN watch : watch[w] = target
  <2>2. d \in DOMAIN watch
    BY <2>1
  <2>3. d \in Nat
    BY <2>2 DEF TypeOK
  <2> HIDE DEF d
  <2>4. [wd |-> d, kind |-> kind, name |-> name] \in Events
    BY <2>3 DEF Events, Kinds, Names
  <2>5. EventOf(target, kind, name) = <<[wd |-> d, kind |-> kind, name |-> name]>>
    BY <1>1 DEF EventOf, d
  <2> QED BY <2>4, <2>5
<1>2. CASE ~Watched(target)
  BY <1>2 DEF EventOf
<1> QED BY <1>1, <1>2

\* Queueing, with or without merging, keeps the queue a sequence of events.
LEMMA QueuedType ==
  ASSUME NEW q \in Seq(Events), NEW ev \in Seq(Events)
  PROVE  Queued(q, ev) \in Seq(Events)
  BY ConcatProperties DEF Queued

\* rmWatch and addWatch keep types, and a live watch is always mapped.
LEMMA SwapWatchMapped ==
  ASSUME TypeOK, NEW w, IsWatches(w), DOMAIN w \subseteq m_watchMap,
         NEW old, NEW target \in Inodes \cup {Dir, None}, SwapWatch(w, old, target)
  PROVE  /\ IsWatches(watch') /\ m_watchMap' \subseteq Nat /\ nextWd' \in Nat
         /\ LiveWatchesMapped'
<1> DEFINE kept == [d \in DOMAIN w \ {old} |-> w[d]]
           map  == IF old \in DOMAIN w THEN m_watchMap \ {old} ELSE m_watchMap
           wd   == WdFor(kept, target)
<1>1. IsWatches(kept) /\ DOMAIN kept \subseteq map /\ map \subseteq Nat
  BY DEF IsWatches, TypeOK
<1>2. CASE target = None
  BY <1>1, <1>2 DEF SwapWatch, LiveWatchesMapped, TypeOK
<1>3. CASE target # None
  <2>1. wd \in Nat
    <3>1. CASE \E d \in DOMAIN kept : kept[d] = target
      <4>1. (CHOOSE d \in DOMAIN kept : kept[d] = target) \in DOMAIN kept
        BY <3>1
      <4> QED BY <1>1, <3>1, <4>1 DEF WdFor, IsWatches
    <3>2. CASE ~ \E d \in DOMAIN kept : kept[d] = target
      BY <3>2 DEF WdFor, TypeOK
    <3> QED BY <3>1, <3>2
  <2>2. /\ watch' = [d \in DOMAIN kept \cup {wd} |-> IF d = wd THEN target ELSE kept[d]]
        /\ m_watchMap' = map \cup {wd}
        /\ nextWd' = IF wd = nextWd THEN nextWd + 1 ELSE nextWd
    BY <1>3 DEF SwapWatch
  <2> HIDE DEF kept, map, wd
  <2> QED BY <1>1, <1>3, <2>1, <2>2 DEF IsWatches, LiveWatchesMapped, TypeOK
<1> QED BY <1>2, <1>3

\* close() takes at most the reader's inode and its watch away.
LEMMA AfterCloseType ==
  ASSUME TypeOK, NEW freed \in BOOLEAN, MayFree(freed)
  PROVE  /\ IsWatches(AfterClose(freed).w)
         /\ DOMAIN AfterClose(freed).w \subseteq DOMAIN watch
         /\ AfterClose(freed).ino \subseteq Inodes
         /\ linked \subseteq AfterClose(freed).ino
  BY DEF TypeOK, MayFree, AfterClose, WithoutInode, IsWatches

\* reopen() finds an offset inside the file, and the old one if the file is
\* the old one.
LEMMA PositionAfterInFile ==
  ASSUME TypeOK, PositionInFile, path # None, NEW seekEnd \in BOOLEAN
  PROVE  /\ PositionAfter(seekEnd) \in 0..MaxLine
         /\ PositionAfter(seekEnd) <= size[path]
         /\ m_fd = path => PositionAfter(seekEnd) = m_curPos
  BY WatchAssumption DEF TypeOK, PositionInFile, PositionAfter

\* The first event is taken off a batch.
LEMMA BatchTail ==
  ASSUME TypeOK, batch # <<>>
  PROVE  e \in Events /\ Tail(batch) \in Seq(Events)
  BY HeadTailProperties DEF TypeOK, e

\* Queueing keeps every event that is queued already.
LEMMA QueuedKeeps ==
  ASSUME NEW q \in Seq(Events), NEW ev \in Seq(Events)
  PROVE  \A j \in 1..Len(q) : j \in 1..Len(Queued(q, ev)) /\ Queued(q, ev)[j] = q[j]
  BY DEF Queued

\* A queued event is in the queue, whether it was merged or not.
LEMMA QueuedThere ==
  ASSUME NEW q \in Seq(Events), NEW x \in Events
  PROVE  \E j \in 1..Len(Queued(q, <<x>>)) : Queued(q, <<x>>)[j] = x
<1>1. CASE q # <<>> /\ <<x>> = <<q[Len(q)]>>
  <2>1. Queued(q, <<x>>) = q /\ Len(q) \in 1..Len(q) /\ q[Len(q)] = x
    BY <1>1 DEF Queued
  <2> QED BY <2>1
<1>2. CASE ~(q # <<>> /\ <<x>> = <<q[Len(q)]>>)
  <2>1. Queued(q, <<x>>) = q \o <<x>>
    BY <1>2 DEF Queued
  <2>2. Len(q \o <<x>>) = Len(q) + 1 /\ (q \o <<x>>)[Len(q) + 1] = x
    OBVIOUS
  <2> QED BY <2>1, <2>2
<1> QED BY <1>1, <1>2

\* addWatch leaves a watch on its target.
LEMMA SwapWatchAdds ==
  ASSUME NEW w, NEW old, NEW target, target # None, SwapWatch(w, old, target)
  PROVE  \E d \in DOMAIN watch' : watch'[d] = target
<1> DEFINE kept == [d \in DOMAIN w \ {old} |-> w[d]]
           wd   == WdFor(kept, target)
<1>1. watch' = [d \in DOMAIN kept \cup {wd} |-> IF d = wd THEN target ELSE kept[d]]
  BY DEF SwapWatch
<1> HIDE DEF kept, wd
<1> QED BY <1>1

-----------------------------------------------------------------------------
(* Every step keeps the invariant                                          *)

\* The state startListening leaves behind satisfies the invariant.
LEMMA InitWatchInv == Init => WatchInv
<1> SUFFICES ASSUME Init PROVE WatchInv
  OBVIOUS
<1>1. 1 \in Inodes /\ None \notin Inodes
  BY WatchAssumption DEF Inodes
<1>2. TypeOK
  <2>1. ready \in BOOLEAN /\ failed \in BOOLEAN
    BY DEF Init
  <2>2. /\ delivered \subseteq Inodes \X (1..MaxLine)
        /\ owed \subseteq Inodes \X (1..MaxLine)
        /\ queue \in Seq(Events) /\ batch \in Seq(Events)
    BY DEF Init
  <2>3. size \in [Inodes -> 0..MaxLine] /\ watch \in [DOMAIN watch -> Inodes \cup {Dir}]
    BY <1>1, WatchAssumption DEF Init
  <2> QED BY <1>1, <2>1, <2>2, <2>3, WatchAssumption DEF Init, TypeOK
<1> QED
  BY <1>1, <1>2, WatchAssumption
  DEF Init, WatchInv, LiveWatchesMapped, PositionInFile, EventInHand, InodesFresh,
      GoneFileReplaced, DeliveredBehind, BatchDone, PathLinked, OpenToRewatch,
      ClosedWatchesDirectory, Hears, LastingWatch

\* The environment's step counter stays below its bound.
LEMMA EnvStepType == TypeOK /\ EnvStep => ops' \in 0..MaxOps
  BY WatchAssumption DEF TypeOK, EnvStep

\* Steps of the kernel and of other programs keep the types, and the reader
\* keeps them too.
LEMMA NextTypeOK == WatchInv /\ [Next]_vars => TypeOK'
<1> SUFFICES ASSUME WatchInv, [Next]_vars PROVE TypeOK'
  OBVIOUS
<1> USE WatchAssumption
<1>0. TypeOK /\ LiveWatchesMapped /\ PositionInFile /\ EventInHand
  BY DEF WatchInv
<1>1. ASSUME NEW i \in Inodes, Write(i) PROVE TypeOK'
  <2>1. queue' \in Seq(Events)
    <3> DEFINE n == IF i = path THEN "log" ELSE "other"
    <3>1. n \in Names
      BY DEF Names
    <3>2. EventOf(Dir, "modify", n) \in Seq(Events) /\ EventOf(i, "modify", "none") \in Seq(Events)
      BY <1>0, <3>1, EventOfType DEF Kinds, Names
    <3>3. queue' = Queued(Queued(queue, EventOf(Dir, "modify", n)), EventOf(i, "modify", "none"))
      BY <1>1 DEF Write
    <3> HIDE DEF n
    <3> QED BY <1>0, <3>2, <3>3, QueuedType DEF TypeOK
  <2>2. size' \in [Inodes -> 0..MaxLine] /\ owed' \subseteq Inodes \X (1..MaxLine)
    BY <1>0, <1>1 DEF Write, TypeOK
  <2>3. ops' \in 0..MaxOps
    BY <1>0, <1>1, EnvStepType DEF Write
  <2> QED BY <1>0, <1>1, <2>1, <2>2, <2>3 DEF Write, TypeOK, readerVars
<1>2. ASSUME NEW i \in Inodes, Free(i) PROVE TypeOK'
  <2>1. IsWatches(watch')
    BY <1>0, <1>2 DEF Free, WithoutInode, TypeOK, IsWatches
  <2> QED BY <1>0, <1>2, <2>1 DEF Free, TypeOK, readerVars, IsWatches
<1>3. CASE Rename
  <2>1. /\ EventOf(Dir, "moved_from", "log") \in Seq(Events)
        /\ EventOf(Dir, "moved_to", "other") \in Seq(Events)
        /\ EventOf(path, "move_self", "none") \in Seq(Events)
    BY <1>0, EventOfType DEF Kinds, Names
  <2>2. queue' \in Seq(Events)
    BY <1>0, <1>3, <2>1, QueuedType DEF Rename, TypeOK
  <2>3. ops' \in 0..MaxOps
    BY <1>0, <1>3, EnvStepType DEF Rename
  <2> QED BY <1>0, <1>3, <2>2, <2>3 DEF Rename, TypeOK, readerVars
<1>4. CASE Unlink
  <2>1. /\ EventOf(path, "attrib", "none") \in Seq(Events)
        /\ EventOf(Dir, "delete", "log") \in Seq(Events)
    BY <1>0, EventOfType DEF Kinds, Names
  <2>2. queue' \in Seq(Events)
    BY <1>0, <1>4, <2>1, QueuedType DEF Unlink, TypeOK
  <2>3. ops' \in 0..MaxOps
    BY <1>0, <1>4, EnvStepType DEF Unlink
  <2> QED BY <1>0, <1>4, <2>2, <2>3 DEF Unlink, TypeOK, readerVars
<1>5. CASE Create
  <2>1. ops' \in 0..MaxOps
    BY <1>0, <1>5, EnvStepType DEF Create
  <2>2. nextInode' \in Nat
    BY <1>0, <1>5 DEF Create, TypeOK
  <2> QED BY <1>0, <1>5, <2>1, <2>2 DEF Create, TypeOK, kernelVars, readerVars
<1>6. ASSUME NEW name \in {"log", "other"}, Touch(name) PROVE TypeOK'
  <2>1. /\ EventOf(Dir, "attrib", name) \in Seq(Events)
        /\ (IF name = "log" THEN EventOf(path, "attrib", "none") ELSE <<>>) \in Seq(Events)
    BY <1>0, EventOfType DEF Kinds, Names
  <2>2. queue' \in Seq(Events)
    BY <1>0, <1>6, <2>1, QueuedType DEF Touch, TypeOK
  <2>3. ops' \in 0..MaxOps
    BY <1>0, <1>6, EnvStepType DEF Touch
  <2> QED BY <1>0, <1>6, <2>2, <2>3 DEF Touch, TypeOK, fsVars, readerVars
<1>7. CASE ReadEvents
  <2>1. ready' \in BOOLEAN
    BY <1>7 DEF ReadEvents
  <2>2. queue' \in Seq(Events)
    BY <1>7 DEF ReadEvents
  <2> QED BY <1>0, <1>7, <2>1, <2>2 DEF ReadEvents, TypeOK, fsVars
<1>8. CASE SkipEvent
  <2>1. Tail(batch) \in Seq(Events)
    BY <1>0, <1>8, BatchTail DEF SkipEvent
  <2> QED BY <1>0, <1>8, <2>1 DEF SkipEvent, NextEvent, TypeOK, fsVars, kernelVars
<1>9. CASE CheckExists
  BY <1>0, <1>9 DEF CheckExists, TypeOK, fsVars, kernelVars
<1>10. CASE WatchDirectory
  <2>1. batch # <<>> /\ Tail(batch) \in Seq(Events)
    BY <1>0, <1>10, BatchTail DEF WatchDirectory, EventInHand
  <2>2. PICK freed \in BOOLEAN, target \in AddedWatch(Dir) :
          /\ MayFree(freed)
          /\ inodes' = AfterClose(freed).ino
          /\ SwapWatch(AfterClose(freed).w, e.wd, target)
          /\ failed' = (failed \/ target = None)
    BY <1>10 DEF WatchDirectory
  <2>3. target \in Inodes \cup {Dir, None}
    BY <2>2 DEF AddedWatch
  <2>4. /\ IsWatches(AfterClose(freed).w)
        /\ DOMAIN AfterClose(freed).w \subseteq m_watchMap
        /\ inodes' \subseteq Inodes /\ linked \subseteq inodes'
    BY <1>0, <2>2, AfterCloseType DEF LiveWatchesMapped
  <2>5. IsWatches(watch') /\ m_watchMap' \subseteq Nat /\ nextWd' \in Nat
    BY <1>0, <2>2, <2>3, <2>4, SwapWatchMapped
  <2>6. failed' \in BOOLEAN
    BY <2>2
  <2> QED
    BY <1>0, <1>10, <2>1, <2>4, <2>5, <2>6 DEF WatchDirectory, NextEvent, TypeOK, IsWatches
<1>11. ASSUME NEW seekEnd \in BOOLEAN, NEW after \in {"rewatch", "rewatchBack"},
              Reopen(seekEnd, after)
       PROVE  TypeOK'
  <2>1. PICK freed \in BOOLEAN : /\ MayFree(freed)
                                 /\ inodes' = AfterClose(freed).ino
                                 /\ watch' = AfterClose(freed).w
    BY <1>11 DEF Reopen
  <2>2. IsWatches(watch') /\ inodes' \subseteq Inodes /\ linked \subseteq inodes'
    BY <1>0, <2>1, AfterCloseType
  <2>3. m_curPos' \in 0..MaxLine
    <3>1. CASE path = None
      BY <1>0, <1>11, <3>1 DEF Reopen, TypeOK
    <3>2. CASE path # None
      BY <1>0, <1>11, <3>2, PositionAfterInFile DEF Reopen
    <3> QED BY <3>1, <3>2
  <2>4. failed' \in BOOLEAN
    BY <1>11 DEF Reopen
  <2> QED BY <1>0, <1>11, <2>2, <2>3, <2>4 DEF Reopen, TypeOK, IsWatches
<1>12. CASE Rewatch
  <2>1. batch # <<>> /\ Tail(batch) \in Seq(Events)
    BY <1>0, <1>12, BatchTail DEF Rewatch, EventInHand
  <2>2. PICK target \in AddedWatch(path) : /\ SwapWatch(watch, e.wd, target)
                                           /\ failed' = (failed \/ target = None)
    BY <1>12 DEF Rewatch
  <2>3. target \in Inodes \cup {Dir, None}
    BY <1>0, <2>2 DEF AddedWatch, TypeOK
  <2>4. IsWatches(watch) /\ DOMAIN watch \subseteq m_watchMap
    BY <1>0 DEF TypeOK, IsWatches, LiveWatchesMapped
  <2>5. IsWatches(watch') /\ m_watchMap' \subseteq Nat /\ nextWd' \in Nat
    BY <1>0, <2>2, <2>3, <2>4, SwapWatchMapped
  <2>6. failed' \in BOOLEAN
    BY <2>2
  <2>7. /\ pc' \in {"event", "handle"} /\ ready' \in BOOLEAN
        /\ batch' \in Seq(Events)
    BY <1>0, <1>12, <2>1 DEF Rewatch, NextEvent, TypeOK
  <2> QED BY <1>0, <1>12, <2>5, <2>6, <2>7 DEF Rewatch, TypeOK, IsWatches, fsVars
<1>13. CASE HandleEvent
  <2>1. batch # <<>> /\ Tail(batch) \in Seq(Events)
    BY <1>0, <1>13, BatchTail DEF HandleEvent, EventInHand
  <2> QED BY <1>0, <1>13, <2>1 DEF HandleEvent, NextEvent, TypeOK, fsVars, kernelVars
<1>14. CASE ProcessFile
  <2>1. NewLines \subseteq Inodes \X (1..MaxLine)
    BY <1>0 DEF NewLines, TypeOK
  <2>2. m_curPos' \in 0..MaxLine
    BY <1>0, <1>14 DEF ProcessFile, TypeOK
  <2>3. delivered' \subseteq Inodes \X (1..MaxLine)
    BY <1>0, <1>14, <2>1 DEF ProcessFile, TypeOK
  <2> QED BY <1>0, <1>14, <2>2, <2>3 DEF ProcessFile, TypeOK, fsVars, kernelVars
<1>15. CASE UNCHANGED vars
  BY <1>0, <1>15 DEF vars, TypeOK
<1> QED
  BY <1>1, <1>2, <1>3, <1>4, <1>5, <1>6, <1>7, <1>8, <1>9, <1>10, <1>11, <1>12, <1>13, <1>14, <1>15
  DEF Next, Environment, Reader, Reinitialize, CreatedBack

\* LiveWatchesMapped and PositionInFile are kept: by the two steps that swap
\* watches, by the steps that move the offset, and by growing files.
LEMMA NextWatching ==
  WatchInv /\ [Next]_vars => LiveWatchesMapped' /\ PositionInFile'
<1> SUFFICES ASSUME WatchInv, [Next]_vars PROVE LiveWatchesMapped' /\ PositionInFile'
  OBVIOUS
<1> USE WatchAssumption DEF LiveWatchesMapped, PositionInFile
<1>0. TypeOK /\ LiveWatchesMapped /\ PositionInFile
  BY DEF WatchInv
<1>1. ASSUME NEW i \in Inodes, Write(i) PROVE LiveWatchesMapped' /\ PositionInFile'
  BY <1>0, <1>1 DEF Write, TypeOK, readerVars
<1>2. ASSUME NEW i \in Inodes, Free(i) PROVE LiveWatchesMapped' /\ PositionInFile'
  BY <1>0, <1>2 DEF Free, WithoutInode, readerVars
<1>3. CASE WatchDirectory
  <2>1. PICK freed \in BOOLEAN, target \in AddedWatch(Dir) :
          MayFree(freed) /\ SwapWatch(AfterClose(freed).w, e.wd, target)
    BY <1>3 DEF WatchDirectory
  <2>2. target \in Inodes \cup {Dir, None}
    BY <2>1 DEF AddedWatch
  <2>3. IsWatches(AfterClose(freed).w) /\ DOMAIN AfterClose(freed).w \subseteq m_watchMap
    BY <1>0, <2>1, AfterCloseType
  <2>4. LiveWatchesMapped'
    BY <1>0, <2>1, <2>2, <2>3, SwapWatchMapped
  <2> QED BY <1>3, <2>4 DEF WatchDirectory
<1>4. ASSUME NEW seekEnd \in BOOLEAN, NEW after, Reopen(seekEnd, after)
      PROVE  LiveWatchesMapped' /\ PositionInFile'
  <2>1. LiveWatchesMapped'
    BY <1>0, <1>4, AfterCloseType DEF Reopen
  <2>2. CASE path = None
    BY <1>4, <2>1, <2>2 DEF Reopen
  <2>3. CASE path # None
    BY <1>0, <1>4, <2>1, <2>3, PositionAfterInFile DEF Reopen
  <2> QED BY <2>2, <2>3
<1>5. CASE Rewatch
  <2>1. PICK target \in AddedWatch(path) : SwapWatch(watch, e.wd, target)
    BY <1>5 DEF Rewatch
  <2>2. target \in Inodes \cup {Dir, None} /\ IsWatches(watch)
    BY <1>0, <2>1 DEF AddedWatch, TypeOK, IsWatches
  <2>3. LiveWatchesMapped'
    BY <1>0, <2>1, <2>2, SwapWatchMapped
  <2> QED BY <1>0, <1>5, <2>3 DEF Rewatch, fsVars
<1>6. CASE ProcessFile
  BY <1>0, <1>6 DEF ProcessFile, TypeOK, fsVars, kernelVars
<1>7. CASE UNCHANGED <<watch, m_watchMap, m_fd, m_curPos, size>>
  BY <1>0, <1>7
<1> QED
  BY <1>1, <1>2, <1>3, <1>4, <1>5, <1>6, <1>7
  DEF Next, Environment, Reader, Reinitialize, CreatedBack, Rename, Unlink, Create, Touch,
      ReadEvents, SkipEvent, CheckExists, HandleEvent, vars, fsVars, kernelVars, readerVars

\* The event in hand, fresh inodes and the closed file: bookkeeping of the
\* steps between two system calls.
LEMMA NextBookkeeping ==
  WatchInv /\ [Next]_vars => EventInHand' /\ InodesFresh' /\ GoneFileReplaced'
<1> SUFFICES ASSUME WatchInv, [Next]_vars
             PROVE  EventInHand' /\ InodesFresh' /\ GoneFileReplaced'
  OBVIOUS
<1> USE WatchAssumption DEF EventInHand, InodesFresh, GoneFileReplaced
<1>0. TypeOK /\ EventInHand /\ InodesFresh /\ GoneFileReplaced
  BY DEF WatchInv
<1>1. ASSUME NEW i \in Inodes, Write(i) \/ Free(i)
      PROVE  EventInHand' /\ InodesFresh' /\ GoneFileReplaced'
  BY <1>0, <1>1 DEF Write, Free, readerVars
<1>2. CASE Rename \/ Unlink
  BY <1>0, <1>2 DEF Rename, Unlink, readerVars
<1>3. CASE Create
  BY <1>0, <1>3 DEF Create, readerVars, TypeOK, Inodes
<1>4. ASSUME NEW name \in {"log", "other"}, Touch(name)
      PROVE  EventInHand' /\ InodesFresh' /\ GoneFileReplaced'
  BY <1>0, <1>4 DEF Touch, fsVars, readerVars
<1>5. CASE ReadEvents \/ SkipEvent
  BY <1>0, <1>5 DEF ReadEvents, SkipEvent, NextEvent, fsVars
<1>6. CASE CheckExists
  BY <1>0, <1>6 DEF CheckExists, fsVars
<1>7. CASE WatchDirectory
  BY <1>0, <1>7 DEF WatchDirectory, NextEvent
<1>8. ASSUME NEW seekEnd \in BOOLEAN, NEW after \in {"rewatch", "rewatchBack"},
             pc \in {"reinit", "back"}, Reopen(seekEnd, after)
      PROVE  EventInHand' /\ InodesFresh' /\ GoneFileReplaced'
  BY <1>0, <1>8 DEF Reopen
<1>9. CASE Rewatch
  BY <1>0, <1>9 DEF Rewatch, NextEvent, fsVars
<1>10. CASE HandleEvent
  BY <1>0, <1>10 DEF HandleEvent, NextEvent, fsVars
<1>11. CASE ProcessFile
  <2>1. \A d \in NewLines : d[1] = m_fd /\ m_fd # None
    BY DEF NewLines
  <2>2. InodesFresh'
    BY <1>0, <1>11, <2>1 DEF ProcessFile, fsVars
  <2> QED BY <1>11, <2>2 DEF ProcessFile
<1>12. CASE UNCHANGED vars
  BY <1>0, <1>12 DEF vars
<1> QED
  BY <1>1, <1>2, <1>3, <1>4, <1>5, <1>6, <1>7, <1>8, <1>9, <1>10, <1>11, <1>12
  DEF Next, Environment, Reader, Reinitialize, CreatedBack

\* Processed lines stay behind the offset.  A new inode has given none; the
\* reader leaves a file only when the path names another one; a reopen of the
\* same file keeps the offset.
LEMMA NextDelivered == WatchInv /\ [Next]_vars => DeliveredBehind'
<1> SUFFICES ASSUME WatchInv, [Next]_vars PROVE DeliveredBehind'
  OBVIOUS
<1> USE WatchAssumption DEF DeliveredBehind
<1>0. TypeOK /\ PositionInFile /\ InodesFresh /\ GoneFileReplaced /\ DeliveredBehind
  BY DEF WatchInv
<1>1. None \notin Inodes /\ \A d \in delivered : d[1] \in Inodes /\ d[2] \in Nat
  BY <1>0 DEF TypeOK
<1>2. CASE Rename \/ Unlink
  BY <1>0, <1>1, <1>2 DEF Rename, Unlink, readerVars
<1>3. CASE Create
  BY <1>0, <1>1, <1>3 DEF Create, readerVars, InodesFresh, TypeOK, Inodes
<1>4. CASE WatchDirectory
  BY <1>0, <1>1, <1>4 DEF WatchDirectory, GoneFileReplaced
<1>5. ASSUME NEW seekEnd \in BOOLEAN, NEW after, Reopen(seekEnd, after)
      PROVE  DeliveredBehind'
  <2>1. CASE path = None
    BY <1>1, <1>5, <2>1 DEF Reopen
  <2>2. CASE path # None
    BY <1>0, <1>5, <2>2, PositionAfterInFile DEF Reopen
  <2> QED BY <2>1, <2>2
<1>6. CASE ProcessFile
  <2>1. CASE ready /\ m_fd # None
    <3>1. size[m_fd] \in Nat /\ m_curPos \in Nat /\ m_curPos <= size[m_fd]
      BY <1>0, <2>1 DEF TypeOK, PositionInFile
    <3>2. \A d \in NewLines : d[1] = m_fd /\ d[2] <= size[m_fd]
      BY <2>1, <3>1 DEF NewLines
    <3>3. m_curPos' = size[m_fd] /\ delivered' = delivered \cup NewLines
      BY <1>6, <2>1 DEF ProcessFile
    <3>4. UNCHANGED <<m_fd, path>>
      BY <1>6 DEF ProcessFile, fsVars
    <3> QED BY <1>0, <1>1, <3>1, <3>2, <3>3, <3>4
  <2>2. CASE ~(ready /\ m_fd # None)
    <3>1. NewLines = {}
      BY <2>2 DEF NewLines
    <3> QED BY <1>0, <1>6, <2>2, <3>1 DEF ProcessFile, fsVars
  <2> QED BY <2>1, <2>2
<1>7. CASE UNCHANGED <<delivered, m_fd, m_curPos, path>>
  BY <1>0, <1>7
<1> QED
  BY <1>2, <1>3, <1>4, <1>5, <1>6, <1>7
  DEF Next, Environment, Reader, Reinitialize, CreatedBack, Write, Free, Touch, ReadEvents,
      SkipEvent, CheckExists, Rewatch, HandleEvent, vars, fsVars, kernelVars, readerVars

\* A batch is finished before the next wait, the path names a linked file, and
\* a watch is renewed for an open file.
LEMMA NextPlaces == WatchInv /\ [Next]_vars => BatchDone' /\ PathLinked' /\ OpenToRewatch'
<1> SUFFICES ASSUME WatchInv, [Next]_vars PROVE BatchDone' /\ PathLinked' /\ OpenToRewatch'
  OBVIOUS
<1> USE WatchAssumption DEF BatchDone, PathLinked, OpenToRewatch
<1>0. TypeOK /\ BatchDone /\ PathLinked /\ OpenToRewatch
  BY DEF WatchInv
<1>1. BatchDone'
  <2>1. CASE UNCHANGED <<pc, batch>>
    BY <1>0, <2>1
  <2>2. CASE Reader
    <3>1. CASE ReadEvents \/ SkipEvent \/ CheckExists \/ WatchDirectory \/ HandleEvent
      BY <3>1 DEF ReadEvents, SkipEvent, CheckExists, WatchDirectory, HandleEvent, NextEvent
    <3>2. CASE Reinitialize \/ CreatedBack \/ Rewatch
      BY <3>2 DEF Reinitialize, CreatedBack, Reopen, Rewatch, NextEvent
    <3>3. CASE ProcessFile
      BY <3>3 DEF ProcessFile
    <3> QED BY <2>2, <3>1, <3>2, <3>3 DEF Reader
  <2> QED
    BY <2>1, <2>2
    DEF Next, Environment, Write, Free, Rename, Unlink, Create, Touch, readerVars, vars
<1>2. PathLinked'
  <2>1. CASE UNCHANGED <<path, linked>>
    BY <1>0, <2>1
  <2>2. CASE Rename \/ Unlink \/ Create
    BY <2>2 DEF Rename, Unlink, Create
  <2> QED
    BY <2>1, <2>2
    DEF Next, Environment, Reader, Reinitialize, CreatedBack, Reopen, Write, Free, Touch,
        ReadEvents, SkipEvent, CheckExists, WatchDirectory, Rewatch, HandleEvent, ProcessFile,
        fsVars, vars
<1>3. OpenToRewatch'
  <2>1. CASE UNCHANGED <<pc, m_fd, failed>>
    BY <1>0, <2>1
  <2>2. CASE Reader
    <3>1. CASE ReadEvents \/ SkipEvent \/ CheckExists \/ WatchDirectory \/ HandleEvent
      BY <3>1 DEF ReadEvents, SkipEvent, CheckExists, WatchDirectory, HandleEvent, NextEvent
    <3>2. CASE Reinitialize \/ CreatedBack \/ Rewatch
      BY <3>2 DEF Reinitialize, CreatedBack, Reopen, Rewatch, NextEvent
    <3>3. CASE ProcessFile
      BY <3>3 DEF ProcessFile
    <3> QED BY <2>2, <3>1, <3>2, <3>3 DEF Reader
  <2> QED
    BY <2>1, <2>2
    DEF Next, Environment, Write, Free, Rename, Unlink, Create, Touch, readerVars, vars
<1> QED BY <1>1, <1>2, <1>3

\* A reader without a file has its directory watched: handleIfFileRemoved
\* closes the file and watches the directory in one go, and that watch is
\* removed only once the file is open again, or a call has failed.
LEMMA NextClosed == WatchInv /\ [Next]_vars => ClosedWatchesDirectory'
<1> SUFFICES ASSUME WatchInv, [Next]_vars, m_fd' = None, ~failed' PROVE Watched(Dir)'
  BY DEF ClosedWatchesDirectory
<1> USE WatchAssumption
<1>0. TypeOK /\ ClosedWatchesDirectory /\ OpenToRewatch
  BY DEF WatchInv
<1>1. CASE UNCHANGED <<m_fd, failed, watch>>
  BY <1>0, <1>1 DEF ClosedWatchesDirectory, Watched
<1>2. ASSUME NEW i \in Inodes, Free(i) PROVE Watched(Dir)'
  <2>1. Watched(Dir) /\ Dir # i
    BY <1>0, <1>2 DEF Free, readerVars, ClosedWatchesDirectory, Dir, Inodes
  <2> QED BY <1>2, <2>1 DEF Free, WithoutInode, Watched
<1>3. CASE WatchDirectory
  <2>1. PICK freed \in BOOLEAN, target \in AddedWatch(Dir) :
          /\ SwapWatch(AfterClose(freed).w, e.wd, target)
          /\ failed' = (failed \/ target = None)
    BY <1>3 DEF WatchDirectory
  <2>2. target = Dir /\ target # None
    BY <2>1 DEF AddedWatch
  <2> QED BY <2>1, <2>2, SwapWatchAdds DEF Watched
<1>4. CASE Reinitialize \/ CreatedBack
  BY <1>4 DEF Reinitialize, CreatedBack, Reopen
<1>5. CASE Rewatch
  BY <1>0, <1>5 DEF Rewatch, OpenToRewatch
<1> QED
  BY <1>1, <1>2, <1>3, <1>4, <1>5
  DEF Next, Environment, Reader, Write, Rename, Unlink, Create, Touch, ReadEvents, SkipEvent,
      CheckExists, HandleEvent, ProcessFile, kernelVars, readerVars, vars

\* An event that will bring a new watch is not lost while the queue grows.
LEMMA AlertStays ==
  ASSUME UNCHANGED <<m_watchMap, batch, pc>>,
         \A j \in 1..Len(queue) : j \in 1..Len(queue') /\ queue'[j] = queue[j],
         AlertPending
  PROVE  AlertPending'
  BY DEF AlertPending, Unhandled, Alerts

\* The event that tells of the end of a watched file finds its watch mapped.
LEMMA UnlinkAlerts ==
  ASSUME WatchInv, Unlink, Watched(path)
  PROVE  AlertPending'
<1> DEFINE d == CHOOSE w \in DOMAIN watch : watch[w] = path
           x == [wd |-> d, kind |-> "attrib", name |-> "none"]
           y == EventOf(Dir, "delete", "log")
           q == Queued(queue, <<x>>)
<1>1. d \in DOMAIN watch /\ d \in Nat /\ d \in m_watchMap
  BY DEF Watched, WatchInv, TypeOK, LiveWatchesMapped
<1>2. x \in Events /\ queue \in Seq(Events) /\ y \in Seq(Events)
  BY <1>1, EventOfType DEF Events, WatchInv, TypeOK, Kinds, Names
<1>3. EventOf(path, "attrib", "none") = <<x>>
  BY DEF EventOf
<1>4. queue' = Queued(q, y) /\ m_watchMap' = m_watchMap
  BY <1>3 DEF Unlink, readerVars
<1>5. x.wd = d /\ x.kind = "attrib"
  OBVIOUS
<1> HIDE DEF d, x, y
<1>6. PICK j \in 1..Len(q) : q[j] = x
  BY <1>2, QueuedThere
<1>7. <<x>> \in Seq(Events) /\ q \in Seq(Events)
  <2>1. <<x>> \in Seq(Events)
    BY <1>2
  <2> QED BY <1>2, <2>1, QueuedType
<1> HIDE DEF q
<1>8. j \in 1..Len(queue') /\ queue'[j] = x
  BY <1>2, <1>4, <1>6, <1>7, QueuedKeeps
<1> QED BY <1>1, <1>4, <1>5, <1>8 DEF AlertPending, Alerts, NeedsCheck

\* The queue only grows by what the environment does.
LEMMA QueueGrows ==
  ASSUME WatchInv, Environment
  PROVE  \A j \in 1..Len(queue) : j \in 1..Len(queue') /\ queue'[j] = queue[j]
<1> DEFINE Kept(q) == \A j \in 1..Len(queue) : j \in 1..Len(q) /\ q[j] = queue[j]
<1>0. TypeOK /\ queue \in Seq(Events) /\ Kept(queue)
  BY DEF WatchInv, TypeOK
<1>1. ASSUME NEW q \in Seq(Events), Kept(q), NEW ev \in Seq(Events)
      PROVE  Queued(q, ev) \in Seq(Events) /\ Kept(Queued(q, ev))
  BY <1>1, QueuedType, QueuedKeeps
<1> HIDE DEF Kept
<1>2. ASSUME NEW i \in Inodes, Write(i) PROVE Kept(queue')
  <2> DEFINE n == IF i = path THEN "log" ELSE "other"
             a == EventOf(Dir, "modify", n)
             b == EventOf(i, "modify", "none")
  <2>1. a \in Seq(Events) /\ b \in Seq(Events)
    BY <1>0, EventOfType DEF Kinds, Names
  <2>2. queue' = Queued(Queued(queue, a), b)
    BY <1>2 DEF Write
  <2> HIDE DEF a, b
  <2> QED BY <1>0, <1>1, <2>1, <2>2
<1>3. ASSUME Rename PROVE Kept(queue')
  <2> DEFINE a == EventOf(Dir, "moved_from", "log")
             b == EventOf(Dir, "moved_to", "other")
             c == EventOf(path, "move_self", "none")
  <2>1. a \in Seq(Events) /\ b \in Seq(Events) /\ c \in Seq(Events)
    BY <1>0, EventOfType DEF Kinds, Names
  <2>2. queue' = Queued(Queued(Queued(queue, a), b), c)
    BY <1>3 DEF Rename
  <2> HIDE DEF a, b, c
  <2>3. Queued(queue, a) \in Seq(Events) /\ Kept(Queued(queue, a))
    BY <1>0, <1>1, <2>1, Zenon
  <2>4. Queued(Queued(queue, a), b) \in Seq(Events) /\ Kept(Queued(Queued(queue, a), b))
    BY <1>1, <2>1, <2>3, Zenon
  <2>5. Kept(Queued(Queued(Queued(queue, a), b), c))
    BY <1>1, <2>1, <2>4, Zenon
  <2> QED BY <2>2, <2>5
<1>4. ASSUME Unlink PROVE Kept(queue')
  <2> DEFINE a == EventOf(path, "attrib", "none")
             b == EventOf(Dir, "delete", "log")
  <2>1. a \in Seq(Events) /\ b \in Seq(Events)
    BY <1>0, EventOfType DEF Kinds, Names
  <2>2. queue' = Queued(Queued(queue, a), b)
    BY <1>4 DEF Unlink
  <2> HIDE DEF a, b
  <2>3. Queued(queue, a) \in Seq(Events) /\ Kept(Queued(queue, a))
    BY <1>0, <1>1, <2>1, Zenon
  <2>4. Kept(Queued(Queued(queue, a), b))
    BY <1>1, <2>1, <2>3, Zenon
  <2> QED BY <2>2, <2>4
<1>5. ASSUME NEW name \in {"log", "other"}, Touch(name) PROVE Kept(queue')
  <2> DEFINE a == EventOf(Dir, "attrib", name)
             b == IF name = "log" THEN EventOf(path, "attrib", "none") ELSE <<>>
  <2>1. a \in Seq(Events) /\ b \in Seq(Events)
    BY <1>0, EventOfType DEF Kinds, Names
  <2>2. queue' = Queued(Queued(queue, a), b)
    BY <1>5 DEF Touch
  <2> HIDE DEF a, b
  <2> QED BY <1>0, <1>1, <2>1, <2>2
<1>6. ASSUME queue' = queue PROVE Kept(queue')
  BY <1>0, <1>6
<1>7. (\E i \in Inodes : Free(i)) \/ Create => queue' = queue
  BY DEF Free, Create, kernelVars
<1>8. Kept(queue')
  BY <1>2, <1>3, <1>4, <1>5, <1>6, <1>7, Zenon DEF Environment
<1> QED BY <1>8 DEF Kept

\* The reader hears on: a watch that could end is announced by an event, and
\* that event, whenever it is handled, brings a new watch or a failure.
LEMMA NextHears == WatchInv /\ [Next]_vars => Hears'
<1> SUFFICES ASSUME WatchInv, [Next]_vars, pc' \in {"wait", "event", "handle"}, ~failed'
             PROVE  LastingWatch' \/ AlertPending'
  BY DEF Hears
<1> USE WatchAssumption
<1>0. TypeOK /\ Hears /\ EventInHand /\ BatchDone /\ PathLinked /\ ClosedWatchesDirectory
  BY DEF WatchInv
<1>1. CASE Environment
  <2>1. UNCHANGED <<m_fd, m_watchMap, pc, batch, failed>>
    BY <1>1 DEF Environment, Write, Free, Rename, Unlink, Create, Touch, readerVars
  <2>2. LastingWatch \/ AlertPending
    BY <1>0, <2>1 DEF Hears
  <2>3. AlertPending => AlertPending'
    BY <1>1, <2>1, QueueGrows, AlertStays
  <2>4. ASSUME LastingWatch PROVE LastingWatch' \/ AlertPending'
    <3>1. PICK w \in DOMAIN watch : watch[w] \in linked \cup {Dir, m_fd}
      BY <2>4 DEF LastingWatch
    <3>2. ASSUME NEW i \in Inodes, Free(i) PROVE LastingWatch'
      <4>1. i \notin linked \cup {Dir, m_fd}
        BY <3>2 DEF Free, Inodes, Dir
      <4>2. w \in DOMAIN watch' /\ watch'[w] = watch[w] /\ linked' = linked
        BY <3>1, <3>2, <4>1 DEF Free, WithoutInode
      <4> QED BY <2>1, <3>1, <4>2 DEF LastingWatch
    <3>3. CASE Unlink
      <4>1. CASE watch[w] = path
        BY <3>3, <4>1, UnlinkAlerts DEF Watched
      <4>2. CASE watch[w] # path
        <5>1. watch[w] \in linked' \cup {Dir, m_fd} /\ watch' = watch
          BY <3>1, <3>3, <4>2 DEF Unlink
        <5> QED BY <2>1, <5>1 DEF LastingWatch
      <4> QED BY <4>1, <4>2
    <3>4. CASE watch' = watch /\ linked \subseteq linked'
      BY <2>1, <3>1, <3>4 DEF LastingWatch
    <3> QED
      BY <1>1, <3>2, <3>3, <3>4
      DEF Environment, Write, Rename, Create, Touch, fsVars, kernelVars
  <2> QED BY <2>2, <2>3, <2>4
<1>2. CASE ReadEvents
  <2>1. LastingWatch \/ AlertPending
    BY <1>0, <1>2 DEF Hears, ReadEvents
  <2>2. CASE LastingWatch
    BY <1>2, <2>2 DEF ReadEvents, LastingWatch, fsVars
  <2>3. CASE AlertPending
    <3>1. Unhandled = {} /\ Unhandled' = 1..Len(queue)
      BY <1>0, <1>2 DEF BatchDone, Unhandled, ReadEvents
    <3> QED BY <1>2, <2>3, <3>1 DEF ReadEvents, AlertPending, Alerts
  <2> QED BY <2>1, <2>2, <2>3
<1>3. CASE \/ SkipEvent
           \/ HandleEvent /\ pc' = "event"
  <2>1. pc \in {"event", "handle"} /\ pc' = "event" /\ batch # <<>> /\ batch' = Tail(batch)
    BY <1>0, <1>3 DEF SkipEvent, HandleEvent, NextEvent, EventInHand
  <2>2. UNCHANGED <<watch, linked, m_fd, queue, m_watchMap, failed>>
    BY <1>3 DEF SkipEvent, HandleEvent, fsVars, kernelVars
  <2>3. pc = "event" => ~Alerts(batch[1])
    BY <1>3, <2>1 DEF SkipEvent, HandleEvent, Alerts, e
  <2>4. LastingWatch \/ AlertPending
    BY <1>0, <2>1, <2>2 DEF Hears
  <2>5. CASE LastingWatch
    BY <2>2, <2>5 DEF LastingWatch
  <2>6. CASE \E j \in 1..Len(queue) : Alerts(queue[j])
    BY <2>2, <2>6 DEF AlertPending, Alerts
  <2>7. CASE \E j \in Unhandled : Alerts(batch[j])
    <3>1. PICK j \in Unhandled : Alerts(batch[j])
      BY <2>7
    <3>2. j \in 1..Len(batch) /\ j # 1 /\ batch \in Seq(Events)
      BY <1>0, <2>1, <2>3, <3>1 DEF Unhandled, TypeOK
    <3>3. j - 1 \in 1..Len(batch') /\ batch'[j - 1] = batch[j]
      BY <2>1, <3>2
    <3>4. j - 1 \in Unhandled'
      BY <2>1, <3>3 DEF Unhandled
    <3> QED BY <2>2, <3>1, <3>3, <3>4 DEF AlertPending, Alerts
  <2> QED BY <2>4, <2>5, <2>6, <2>7 DEF AlertPending
<1>4. CASE CheckExists
  <2>1. m_fd = None /\ ~failed /\ UNCHANGED watch
    BY <1>4 DEF CheckExists, kernelVars
  <2> QED BY <1>0, <2>1 DEF ClosedWatchesDirectory, Watched, LastingWatch
<1>5. CASE WatchDirectory
  <2>1. PICK freed \in BOOLEAN, target \in AddedWatch(Dir) :
          /\ SwapWatch(AfterClose(freed).w, e.wd, target)
          /\ failed' = (failed \/ target = None)
    BY <1>5 DEF WatchDirectory
  <2>2. target = Dir /\ target # None
    BY <2>1 DEF AddedWatch
  <2> QED BY <2>1, <2>2, SwapWatchAdds DEF LastingWatch
<1>6. CASE Rewatch
  <2>1. PICK target \in AddedWatch(path) : /\ SwapWatch(watch, e.wd, target)
                                           /\ failed' = (failed \/ target = None)
    BY <1>6 DEF Rewatch
  <2>2. target = path /\ target # None
    BY <2>1 DEF AddedWatch
  <2>3. target \in linked'
    BY <1>0, <1>6, <2>2 DEF PathLinked, Rewatch, fsVars
  <2> QED BY <2>1, <2>2, <2>3, SwapWatchAdds DEF LastingWatch
<1>7. CASE ProcessFile
  <2>1. LastingWatch \/ AlertPending
    BY <1>0, <1>7 DEF Hears, ProcessFile
  <2>2. UNCHANGED <<watch, linked, m_fd, queue, m_watchMap, batch>> /\ batch = <<>>
    BY <1>7 DEF ProcessFile, fsVars, kernelVars
  <2> QED BY <2>1, <2>2 DEF LastingWatch, AlertPending, Alerts, Unhandled
<1>8. CASE UNCHANGED vars
  <2>1. LastingWatch \/ AlertPending
    BY <1>0, <1>8 DEF Hears, vars
  <2> QED BY <1>8, <2>1 DEF vars, LastingWatch, AlertPending, Alerts, Unhandled
<1>9. CASE Reinitialize \/ CreatedBack
  BY <1>9 DEF Reinitialize, CreatedBack, Reopen
<1>10. HandleEvent => pc' \in {"event", "back"}
  BY DEF HandleEvent, NextEvent
<1> QED
  BY <1>1, <1>2, <1>3, <1>4, <1>5, <1>6, <1>7, <1>8, <1>9, <1>10 DEF Next, Reader

\* The watcher keeps its inductive invariant, for any number of rotations.
THEOREM WatchInvariant == Spec => []WatchInv
<1>1. WatchInv /\ [Next]_vars => WatchInv'
  BY NextTypeOK, NextWatching, NextBookkeeping, NextDelivered, NextPlaces, NextClosed, NextHears
  DEF WatchInv
<1> QED
  BY InitWatchInv, <1>1, PTL DEF Spec

-----------------------------------------------------------------------------
(* What follows                                                            *)

\* The variables of LNInotify and of the file it follows stay in their types.
THEOREM WatchTypeCorrect == Spec => []TypeOK
<1>1. WatchInv => TypeOK
  BY DEF WatchInv
<1> QED
  BY WatchInvariant, <1>1, PTL

\* handleIfFileRemoved and handleEvent never leave a live watch without its
\* entry in m_watchMap.
THEOREM WatchesKnown == Spec => []LiveWatchesMapped
<1>1. WatchInv => LiveWatchesMapped
  BY DEF WatchInv
<1> QED
  BY WatchInvariant, <1>1, PTL

\* reopen() never leaves the offset beyond the file it opened.
THEOREM OffsetInFile == Spec => []PositionInFile
<1>1. WatchInv => PositionInFile
  BY DEF WatchInv
<1> QED
  BY WatchInvariant, <1>1, PTL

\* processLogFile never gets a line a second time, however often the log is
\* rotated, touched and reopened.
THEOREM LinesOnce == Spec => NoLineTwice
<1>1. WatchInv => NewLines \cap delivered = {}
  <2> SUFFICES ASSUME WatchInv, NEW d \in NewLines, d \in delivered PROVE FALSE
    OBVIOUS
  <2>1. m_fd \in Inodes /\ size[m_fd] \in Nat /\ m_curPos \in Nat
    BY WatchAssumption DEF NewLines, WatchInv, TypeOK
  <2>2. d[1] = m_fd /\ d[2] > m_curPos /\ d[2] \in Nat
    BY <2>1 DEF NewLines
  <2> QED
    BY <2>1, <2>2 DEF WatchInv, DeliveredBehind
<1>2. WatchInv => [pc = "event" /\ pc' = "wait" => NewLines \cap delivered = {}]_vars
  BY <1>1
<1> QED
  BY WatchInvariant, <1>2, PTL DEF NoLineTwice

\* The reader goes back to wait with nothing to wait for only after a reopen or
\* an addWatch has failed, however often the log is rotated and at whatever
\* moments of readEvents: whenever a watch ends, an event is left that brings
\* another one.
THEOREM DeafAfterFailure == Spec => []DeafOnlyAfterFailure
<1>1. WatchInv => DeafOnlyAfterFailure
  <2> SUFFICES ASSUME WatchInv, pc = "wait", queue = <<>>, ~failed PROVE DOMAIN watch # {}
    BY DEF DeafOnlyAfterFailure
  <2>1. batch = <<>>
    BY DEF WatchInv, BatchDone
  <2>2. ~AlertPending
    BY <2>1 DEF AlertPending, Unhandled
  <2>3. LastingWatch
    BY <2>2 DEF WatchInv, Hears
  <2> QED BY <2>3 DEF LastingWatch
<1> QED
  BY WatchInvariant, <1>1, PTL
=============================================================================
