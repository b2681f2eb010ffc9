----------------------------- MODULE LogReader ------------------------------
(***************************************************************************)
(* Reading one open log file: LNLogFile::fetchNextLog, getPosition and     *)
(* handleIfTruncated, driven by the loop of processLogFile, while another  *)
(* process appends to the file and may truncate it.                        *)
(*                                                                         *)
(* The file is a sequence of bytes.  A read returns at most ReadMax of     *)
(* them; what follows the last separator stays in m_trash_hold.  The C     *)
(* string functions stop at a zero byte, std::string does not: both views  *)
(* are kept.  Writing and truncating raise IN_MODIFY, and the kernel merges*)
(* equal events: one pending event, one round of processLogFile for it.    *)
(***************************************************************************)
EXTENDS Naturals, Sequences

CONSTANTS
  Writes,      \* byte sequences one write() of the logging program appends
  Seps,        \* the separators an item may be configured with
  NUL,         \* the zero byte
  ReadMax,     \* sizeof(m_read_buf) - 1
  MaxItem,     \* MAX_LOG_ITEM_SIZE
  SizeLimit,   \* m_size of the attached log item, 0 for none
  MaxBytes     \* bound: bytes written in one behaviour

\* The bytes that occur in a set of strings.
BytesOf(strings) == UNION {{s[i] : i \in DOMAIN s} : s \in strings}

Bytes == BytesOf(Writes) \cup BytesOf(Seps) \cup {NUL}

ASSUME SepsAssumption ==
  \A p \in Seps : p \in Seq(Bytes \ {NUL}) /\ p # <<>>

ASSUME WritesAssumption == Writes \subseteq Seq(Bytes)

ASSUME SizesAssumption ==
  ReadMax \in Nat \ {0} /\ MaxItem \in Nat /\ SizeLimit \in Nat /\ MaxBytes \in Nat

VARIABLES
  m_sep,        \* the separator of the file, never changed
  file,         \* contents of the file
  event,        \* an inotify event for the file is pending
  m_curPos,     \* offset of m_fd
  m_trash_hold, \* bytes read and not handed out yet
  pc,           \* where processLogFile is
  gotLine,      \* lineCount > 0 in this round
  item,         \* the log item handed out last
  m_quotient,   \* m_quotient of the attached log item
  lineEnds,     \* history: getPosition at each line fetched
  noticed,      \* history: the lines, by number, that enqueued a size action
  joints,       \* history: where two reads tore a separator in m_trash_hold
  itemJoints,   \* history: the same for item
  gone,         \* history: bytes that left m_trash_hold, handed out or dropped
  written,      \* history: number of bytes written
  truncated,    \* history: the file was truncated
  before,       \* history: the bytes read from the contents truncated away
  base,         \* history: the offset at which reading the present contents began
  raced,        \* history: a write found the offset behind the end of a truncated file
  zeros,        \* history: a zero byte was written
  stalled       \* history: the last round ended at the length limit

itemVars == <<item, itemJoints>>
holdVars == <<m_trash_hold, joints>>
sizeVars == <<m_quotient, lineEnds, noticed>>
readerVars == <<m_sep, m_curPos, holdVars, pc, gotLine, itemVars, sizeVars, gone, stalled>>
writerVars == <<m_sep, file, written, truncated, before, raced, zeros>>
vars == <<m_sep, file, event, m_curPos, m_trash_hold, joints, pc, gotLine, item, itemJoints, m_quotient,
          lineEnds, noticed, gone, written, truncated, before, base, raced, zeros, stalled>>

Init ==
  /\ m_sep \in Seps /\ file = <<>> /\ event = FALSE
  /\ joints = {} /\ itemJoints = {}
  /\ m_curPos = 0 /\ m_trash_hold = <<>>
  /\ pc = "idle" /\ gotLine = FALSE /\ item = <<>>
  /\ m_quotient = 0 /\ lineEnds = <<>> /\ noticed = {}
  /\ gone = <<>> /\ written = 0 /\ before = <<>> /\ base = 0 /\ raced = FALSE
  /\ truncated = FALSE /\ zeros = FALSE /\ stalled = FALSE

-----------------------------------------------------------------------------
(* Byte strings                                                            *)

\* Mutant of CString: the std::string is used instead.
WholeString(s) == s

\* The C string at the start of s: what is before the first zero byte.
CString(s) ==
  LET len == CHOOSE n \in 0..Len(s) :
               /\ \A j \in 1..n : s[j] # NUL
               /\ n < Len(s) => s[n + 1] = NUL
  IN SubSeq(s, 1, len)

SepAt(s, i) == i + Len(m_sep) - 1 <= Len(s) /\ SubSeq(s, i, i + Len(m_sep) - 1) = m_sep

\* The separator at i reaches over the offset j.
Spans(i, j) == i <= j /\ j < i + Len(m_sep) - 1

\* The offset at which two reads meet in s, if it tears a separator.
Torn(s, j) == {k \in {j} : \E i \in 1..Len(s) : SepAt(s, i) /\ Spans(i, k)}

\* strstr(s, m_sep) finds something.
HasSep(s) == \E i \in 1..Len(s) : SepAt(s, i)

\* Mutant of FirstSep: the search runs from the end.
LastSep(s) == CHOOSE i \in 1..Len(s) : SepAt(s, i) /\ \A j \in (i + 1)..Len(s) : ~SepAt(s, j)

FirstSep(s) == CHOOSE i \in 1..Len(s) : SepAt(s, i) /\ \A j \in 1..(i - 1) : ~SepAt(s, j)

BeforeSep(s) == SubSeq(s, 1, FirstSep(s) - 1)

\* Mutant of AfterSep: what follows the line is not kept.
AfterSepNothing(s) == <<>>

AfterSep(s) == SubSeq(s, FirstSep(s) + Len(m_sep), Len(s))

\* s after memset(strstr(s, m_sep), 0, m_sep.size()).
ZeroSep(s) == BeforeSep(s) \o [i \in 1..Len(m_sep) |-> NUL] \o AfterSep(s)

-----------------------------------------------------------------------------
(* The program that writes the log                                         *)

WriteLog(w) ==
  /\ written + Len(w) <= MaxBytes
  /\ file' = file \o w
  /\ written' = written + Len(w)
  /\ zeros' = (zeros \/ \E i \in DOMAIN w : w[i] = NUL)
  /\ raced' = (raced \/ m_curPos > Len(file))
  /\ event' = TRUE
  /\ UNCHANGED <<truncated, before, base, readerVars>>

\* The old contents are gone; the offset stays where it was.
Truncate ==
  /\ file # <<>>
  /\ ~truncated
  /\ file' = <<>>
  /\ truncated' = TRUE
  /\ before' = gone \o m_trash_hold
  /\ base' = m_curPos
  /\ event' = TRUE
  /\ UNCHANGED <<written, raced, zeros, readerVars>>

-----------------------------------------------------------------------------
(* LNLogItem::sizeExcess at the current position                           *)

\* Mutant of SizeExcess: >= for >.
SizeExcessAgain(pos) == SizeLimit > 0 /\ pos \div SizeLimit >= m_quotient

SizeExcess(pos) == SizeLimit > 0 /\ pos \div SizeLimit > m_quotient

CheckSize(pos) ==
  /\ lineEnds' = Append(lineEnds, pos)
  /\ noticed' = noticed \cup (IF SizeExcess(pos) THEN {Len(lineEnds')} ELSE {})
  /\ m_quotient' = IF SizeLimit > 0 THEN pos \div SizeLimit ELSE m_quotient

-----------------------------------------------------------------------------
(* processLogFile and fetchNextLog                                         *)

\* readEvents returned the file: fetchNextLog is called until it fails.
BeginRound ==
  /\ pc = "idle"
  /\ event
  /\ event' = FALSE
  /\ pc' = "fetch"
  /\ gotLine' = FALSE
  /\ stalled' = FALSE
  /\ UNCHANGED <<m_curPos, holdVars, itemVars, sizeVars, gone, base, writerVars>>

\* fetchNextLog returns it, with separators torn at at, and keeps
\* rest; processLogFile checks the size.
Deliver(it, at, rest, pos) ==
  /\ item' = it /\ itemJoints' = at
  /\ m_trash_hold' = rest /\ joints' = {}
  /\ m_curPos' = pos
  /\ CheckSize(pos)
  /\ gone' = gone \o CString(it) \o m_sep
  /\ gotLine' = TRUE
  /\ pc' = "fetch"
  /\ UNCHANGED <<event, stalled, base, writerVars>>

\* A whole line is left from an earlier read.  item is assigned the whole
\* m_trash_hold, in which only the separator was overwritten.
FetchFromTrash ==
  /\ pc = "fetch"
  /\ HasSep(m_trash_hold)
  /\ Deliver(ZeroSep(m_trash_hold), joints, AfterSep(m_trash_hold), m_curPos)

InLoop == pc = "read" \/ (pc = "fetch" /\ ~HasSep(m_trash_hold))

\* Mutant of TooLong: no length limit.
NeverTooLong == FALSE

TooLong == Len(m_trash_hold) > MaxItem

\* The length limit: the partial item is dropped and fetchNextLog fails.
DropTooLong ==
  /\ InLoop
  /\ TooLong
  /\ m_trash_hold' = <<>> /\ joints' = {}
  /\ gone' = gone \o m_trash_hold
  /\ pc' = "end"
  /\ stalled' = TRUE
  /\ UNCHANGED <<event, m_curPos, gotLine, itemVars, sizeVars, base, writerVars>>

\* What the next read() returns, and where it leaves the offset.
Chunk ==
  SubSeq(file, m_curPos + 1,
         IF m_curPos + ReadMax < Len(file) THEN m_curPos + ReadMax ELSE Len(file))

ReadsTo == m_curPos + Len(Chunk)

\* Mutant of ReadNothing: the end of the file does not end the loop.
ReadNothingAgain ==
  /\ InLoop
  /\ ~TooLong
  /\ Chunk = <<>>
  /\ pc' = "read"
  /\ UNCHANGED <<event, m_curPos, holdVars, gotLine, itemVars, sizeVars, gone, stalled,
                 base, writerVars>>

\* End of file: fetchNextLog fails.
ReadNothing ==
  /\ InLoop
  /\ ~TooLong
  /\ Chunk = <<>>
  /\ pc' = "end"
  /\ UNCHANGED <<event, m_curPos, holdVars, gotLine, itemVars, sizeVars, gone, stalled,
                 base, writerVars>>

\* The chunk holds a separator: the line ends there, and what follows it, up
\* to a zero byte, is kept.
ReadLine ==
  /\ InLoop
  /\ ~TooLong
  /\ HasSep(CString(Chunk))
  /\ LET it == m_trash_hold \o BeforeSep(CString(Chunk))
     IN Deliver(it, joints \cup Torn(it, Len(m_trash_hold)), AfterSep(CString(Chunk)), ReadsTo)

\* The chunk starts with a zero byte: what was held is handed out as an item.
ReadZeros ==
  /\ InLoop
  /\ ~TooLong
  /\ Chunk # <<>>
  /\ Chunk[1] = NUL
  /\ Deliver(m_trash_hold, joints, <<>>, ReadsTo)

\* Part of a line: read on.
ReadPart ==
  /\ InLoop
  /\ ~TooLong
  /\ Chunk # <<>>
  /\ Chunk[1] # NUL
  /\ ~HasSep(CString(Chunk))
  /\ m_trash_hold' = m_trash_hold \o CString(Chunk)
  /\ joints' = joints \cup Torn(m_trash_hold', Len(m_trash_hold))
  /\ m_curPos' = ReadsTo
  /\ pc' = "read"
  /\ UNCHANGED <<event, gotLine, itemVars, sizeVars, gone, stalled, base, writerVars>>

\* Mutant of EndRound: handleIfTruncated is not called.
EndRoundBlind ==
  /\ pc = "end"
  /\ pc' = "idle"
  /\ UNCHANGED <<event, m_curPos, holdVars, gotLine, itemVars, sizeVars, gone, stalled,
                 base, writerVars>>

\* fetchNextLog failed.  A round without a line looks for a truncation: the
\* fstat of handleIfTruncated.
EndRound ==
  /\ pc = "end"
  /\ pc' = IF ~gotLine /\ m_curPos > Len(file) THEN "seek" ELSE "idle"
  /\ UNCHANGED <<event, m_curPos, holdVars, gotLine, itemVars, sizeVars, gone, stalled, base,
                 writerVars>>

\* lseek to the end the file has by now, whatever was written since the fstat.
Reposition ==
  /\ pc = "seek"
  /\ m_curPos' = Len(file) /\ base' = Len(file)
  /\ pc' = "idle"
  /\ UNCHANGED <<event, holdVars, gotLine, itemVars, sizeVars, gone, stalled, writerVars>>

-----------------------------------------------------------------------------
Reader ==
  \/ BeginRound
  \/ FetchFromTrash
  \/ DropTooLong
  \/ ReadNothing
  \/ ReadLine
  \/ ReadZeros
  \/ ReadPart
  \/ EndRound
  \/ Reposition

Next ==
  \/ \E w \in Writes : WriteLog(w)
  \/ Truncate
  \/ Reader

Spec == Init /\ [][Next]_vars

\* The main loop runs whenever it can; nothing makes the log grow.
FairSpec == Spec /\ WF_vars(Reader)

-----------------------------------------------------------------------------
(* Properties                                                              *)

\* The variables stay in their types; m_trash_hold never holds a zero byte,
\* so strstr sees all of it.
TypeOK ==
  /\ file \in Seq(Bytes) /\ event \in BOOLEAN
  /\ m_curPos \in Nat
  /\ m_trash_hold \in Seq(Bytes \ {NUL})
  /\ pc \in {"idle", "fetch", "read", "end", "seek"} /\ gotLine \in BOOLEAN
  /\ item \in Seq(Bytes) /\ m_sep \in Seps
  /\ joints \subseteq 0..Len(m_trash_hold) /\ itemJoints \subseteq 0..Len(item)
  /\ m_quotient \in Nat /\ lineEnds \in Seq(Nat) /\ noticed \subseteq Nat
  /\ gone \in Seq(Bytes) /\ before \in Seq(Bytes) /\ written \in Nat /\ base \in Nat
  /\ truncated \in BOOLEAN /\ raced \in BOOLEAN /\ zeros \in BOOLEAN /\ stalled \in BOOLEAN

\* Nothing between base and the offset is skipped, repeated or reordered,
\* whatever the writer does between two reads: while the log is text, what has
\* left m_trash_hold (a line handed out with its separator, or a hold dropped
\* at the length limit), followed by m_trash_hold, is what had been read when
\* the file was truncated, if it was, followed by the file from base on.
NothingSkipped ==
  ~zeros => gone \o m_trash_hold = before \o SubSeq(file, base + 1, m_curPos)

\* Every separator in s was torn by two reads, at one of offsets.
OnlyTorn(s, offsets) ==
  \A i \in 1..Len(s) : SepAt(s, i) => \E j \in offsets : Spans(i, j)

\* monitor.cpp:713-722: the C string of every item is a single line, unless a
\* separator of several bytes came in two reads, which is never seen.
HeadIsOneLine == OnlyTorn(CString(item), itemJoints)

\* The buffer for a line that never ends is bounded by the length limit and
\* one read.
TrashBounded == Len(m_trash_hold) <= MaxItem + ReadMax

\* When the main loop goes back to wait for events, none is pending and the
\* round was not cut short by the length limit, then the offset is the present
\* end of the file, no complete line is held but one whose separator came in
\* two reads, and the contents were read from their first byte (base = 0, see
\* NothingSkipped).  Two exceptions: a write that races with a truncation lands
\* in front of an offset not yet taken back, and what is in front of base is
\* never read; and with a separator of several bytes, the round that follows a
\* truncation may hand out a line held back before, and then does not look for
\* the truncation (main.cpp:286).
CaughtUpWhenIdle ==
  pc = "idle" /\ ~event /\ ~stalled
    => /\ \/ m_curPos = Len(file) /\ (base = 0 \/ raced)
          \/ truncated /\ gotLine /\ Len(m_sep) > 1
       /\ OnlyTorn(m_trash_hold, joints)

\* A multiple of size lies behind from and not behind to.
Crossed(from, to) == \E k \in 1..to : from < k * SizeLimit /\ k * SizeLimit <= to

\* Where the line before line i ended, 0 for the first.
PreviousEnd(i) == IF i = 1 THEN 0 ELSE lineEnds[i - 1]

\* README:425-432: size_action is enqueued at exactly the lines at which the
\* offset has passed a multiple of size since the line before, once however
\* many multiples one line passes, also when the file was truncated between
\* them.
SizeNoticesMatch ==
  noticed = {i \in DOMAIN lineEnds : Crossed(PreviousEnd(i), lineEnds[i])}

\* Every event is answered: the fetch loop ends, whatever is in the file.
RoundEnds == event ~> (pc = "idle" /\ ~event)

\* README: logNOT reads all new lines till the end of the last completed line
\* and processes each of the extracted lines.  An item that comes from
\* m_trash_hold still carries the lines behind it.
ItemIsOneLine ==
  ~zeros => \A i \in DOMAIN item : i > Len(CString(item)) => item[i] = NUL

=============================================================================
