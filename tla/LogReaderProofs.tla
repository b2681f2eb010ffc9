-------------------------- MODULE LogReaderProofs ---------------------------
(***************************************************************************)
(* Proofs about LogReader for any separators, writes, sizes of the read    *)
(* buffer and limits.                                                      *)
(***************************************************************************)
EXTENDS LogReader, SequenceTheorems, NaturalsInduction, WellFoundedInduction, TLAPS

-----------------------------------------------------------------------------
(* The inductive invariant                                                 *)

\* The offset is inside the file, or where a truncation left it; base is
\* where reading the present contents began, not their first byte only if they
\* are still empty or a write came before the truncation was noticed.
OffsetInFile ==
  /\ base <= m_curPos
  /\ m_curPos <= Len(file) \/ (truncated /\ m_curPos = base)
  /\ ~raced => base = 0 \/ (file = <<>> /\ m_curPos = base)

\* lseek follows a truncation that a round without a line has found.
Seeking == pc = "seek" => truncated /\ ~gotLine /\ m_curPos = base /\ base # 0

\* A log of text has no zero byte.
TextOnly == ~zeros => \A i \in 1..Len(file) : file[i] # NUL

\* m_trash_hold holds a whole line only while a round that found one goes on.
HoldTorn == (pc # "fetch" \/ ~gotLine) => OnlyTorn(m_trash_hold, joints)

\* What a round has read while no event came in: everything when it ends, and
\* with a separator of one byte, nothing past the end if it found a line.
RoundRead ==
  /\ pc \in {"fetch", "read"} => ~stalled
  /\ pc = "end" /\ ~event /\ ~stalled => Len(file) <= m_curPos
  /\ Len(m_sep) = 1 /\ pc # "idle" /\ gotLine /\ ~event => m_curPos <= Len(file)

\* m_quotient is that of the line fetched last.
QuotientOfLast ==
  SizeLimit > 0 => m_quotient = PreviousEnd(Len(lineEnds) + 1) \div SizeLimit

ReaderInv ==
  /\ TypeOK /\ OffsetInFile /\ Seeking /\ QuotientOfLast /\ TextOnly /\ HoldTorn /\ RoundRead
  /\ NothingSkipped /\ HeadIsOneLine /\ TrashBounded /\ CaughtUpWhenIdle /\ SizeNoticesMatch

-----------------------------------------------------------------------------
(* Byte strings                                                            *)

\* A search that can succeed has a first success: strstr, strlen.
LEMMA LeastNumber ==
  ASSUME NEW S \in SUBSET Nat, S # {}
  PROVE  \E x \in S : \A y \in S : x <= y
<1>1. \E x \in S : \A y \in S : ~(<<y, x>> \in OpToRel(<, Nat))
  BY NatLessThanWellFounded, WFMin
<1>2. ASSUME NEW x \in Nat, NEW y \in Nat, y < x
      PROVE  <<y, x>> \in OpToRel(<, Nat)
  BY <1>2, Zenon DEF OpToRel
<1>3. \E x \in S : \A y \in S : ~(y < x)
  BY <1>1, <1>2
<1> QED BY <1>3

\* A prefix of a sequence.
LEMMA Prefix ==
  ASSUME NEW S, NEW s \in Seq(S), NEW n \in 0..Len(s)
  PROVE  /\ SubSeq(s, 1, n) \in Seq(S) /\ Len(SubSeq(s, 1, n)) = n
         /\ \A i \in 1..n : SubSeq(s, 1, n)[i] = s[i]
<1>1. \A i \in 1..n : s[i] \in S
  BY ElementOfSeq
<1> QED BY <1>1, SubSeqProperties

\* A part of a sequence.
LEMMA Part ==
  ASSUME NEW S, NEW s \in Seq(S), NEW m \in Nat, NEW n \in 0..Len(s), m <= n
  PROVE  /\ SubSeq(s, m + 1, n) \in Seq(S) /\ Len(SubSeq(s, m + 1, n)) = n - m
         /\ \A i \in 1..(n - m) : SubSeq(s, m + 1, n)[i] = s[m + i]
<1>1. \A i \in (m + 1)..n : s[i] \in S
  BY ElementOfSeq
<1>2. /\ SubSeq(s, m + 1, n) \in Seq(S)
      /\ Len(SubSeq(s, m + 1, n)) = IF m + 1 <= n THEN n - (m + 1) + 1 ELSE 0
      /\ \A i \in 1..(n - (m + 1) + 1) : SubSeq(s, m + 1, n)[i] = s[(m + 1) + i - 1]
  BY <1>1, SubSeqProperties
<1>3. ASSUME NEW i \in 1..(n - m) PROVE SubSeq(s, m + 1, n)[i] = s[m + i]
  <2>1. i \in 1..(n - (m + 1) + 1) /\ (m + 1) + i - 1 = m + i
    OBVIOUS
  <2> QED BY <1>2, <2>1
<1> QED BY <1>2, <1>3

\* The C string in s is its part before the first zero byte.
LEMMA CStringLen ==
  ASSUME NEW S, NEW s \in Seq(S)
  PROVE  \E n \in 0..Len(s) :
           /\ CString(s) = SubSeq(s, 1, n)
           /\ \A j \in 1..n : s[j] # NUL
           /\ n < Len(s) => s[n + 1] = NUL
<1> DEFINE Ends == {n \in 0..Len(s) : n < Len(s) => s[n + 1] = NUL}
<1>1. Len(s) \in Ends /\ Ends \in SUBSET Nat
  OBVIOUS
<1>2. PICK n \in Ends : \A m \in Ends : n <= m
  BY <1>1, LeastNumber
<1>3. \A j \in 1..n : s[j] # NUL
  <2> SUFFICES ASSUME NEW j \in 1..n, s[j] = NUL PROVE FALSE
    OBVIOUS
  <2>1. j - 1 \in Ends
    BY s[(j - 1) + 1] = NUL
  <2> HIDE DEF Ends
  <2>2. n <= j - 1
    BY <1>2, <2>1
  <2> QED BY <2>2, <1>1
<1>4. \E m \in 0..Len(s) : (\A j \in 1..m : s[j] # NUL) /\ (m < Len(s) => s[m + 1] = NUL)
  BY <1>2, <1>3
<1> QED BY <1>4 DEF CString

\* It has no zero byte, is no longer than s, and starts like s.
LEMMA CStringProperties ==
  ASSUME NEW S, NEW s \in Seq(S)
  PROVE  /\ CString(s) \in Seq(S \ {NUL})
         /\ Len(CString(s)) <= Len(s)
         /\ \A i \in 1..Len(CString(s)) : CString(s)[i] = s[i]
         /\ (s # <<>> /\ s[1] # NUL) => CString(s) # <<>>
<1>1. PICK n \in 0..Len(s) : /\ CString(s) = SubSeq(s, 1, n)
                             /\ \A j \in 1..n : s[j] # NUL
                             /\ n < Len(s) => s[n + 1] = NUL
  BY CStringLen
<1>2. \A i \in 1..n : s[i] \in S \ {NUL}
  BY <1>1, ElementOfSeq
<1>3. /\ SubSeq(s, 1, n) \in Seq(S \ {NUL}) /\ Len(SubSeq(s, 1, n)) = n
      /\ \A i \in 1..n : SubSeq(s, 1, n)[i] = s[i]
  BY <1>2, SubSeqProperties
<1>4. (s # <<>> /\ s[1] # NUL) => n # 0
  BY <1>1
<1> QED BY <1>1, <1>3, <1>4

\* Text is its own C string.
LEMMA CStringOfText ==
  ASSUME NEW S, NEW s \in Seq(S), \A i \in 1..Len(s) : s[i] # NUL
  PROVE  CString(s) = s
<1>1. PICK n \in 0..Len(s) : CString(s) = SubSeq(s, 1, n) /\ (n < Len(s) => s[n + 1] = NUL)
  BY CStringLen
<1>2. n = Len(s)
  BY <1>1
<1> QED BY <1>1, <1>2, SubSeqFull

\* The separator of the file is not empty.
LEMMA SepNotEmpty ==
  ASSUME m_sep \in Seps
  PROVE  m_sep \in Seq(Bytes \ {NUL}) /\ Len(m_sep) \in Nat /\ Len(m_sep) >= 1
  BY SepsAssumption

\* strstr finds the first separator.
LEMMA FirstSepProperties ==
  ASSUME m_sep \in Seps, NEW S, NEW s \in Seq(S), HasSep(s)
  PROVE  /\ FirstSep(s) \in 1..Len(s)
         /\ SepAt(s, FirstSep(s))
         /\ \A j \in 1..(FirstSep(s) - 1) : ~SepAt(s, j)
<1> DEFINE At == {i \in 1..Len(s) : SepAt(s, i)}
<1>1. At \in SUBSET Nat /\ At # {}
  BY DEF HasSep
<1>2. PICK i \in At : \A j \in At : i <= j
  BY <1>1, LeastNumber
<1>3. \A j \in 1..(i - 1) : ~SepAt(s, j)
  BY <1>2
<1> QED BY <1>2, <1>3 DEF FirstSep

\* A separator, byte by byte.
LEMMA SepAtBytes ==
  ASSUME m_sep \in Seps, NEW S, NEW s \in Seq(S), NEW i \in 1..Len(s)
  PROVE  SepAt(s, i) <=> /\ i + Len(m_sep) - 1 <= Len(s)
                         /\ \A k \in 1..Len(m_sep) : s[i + k - 1] = m_sep[k]
<1> DEFINE L == Len(m_sep)
           t == SubSeq(s, i, i + L - 1)
<1>1. m_sep \in Seq(Bytes \ {NUL}) /\ L \in Nat /\ L >= 1
  BY SepNotEmpty
<1>2. CASE i + L - 1 <= Len(s)
  <2>1. \A j \in i..(i + L - 1) : s[j] \in S
    BY <1>1, <1>2, ElementOfSeq
  <2>2. t \in Seq(S) /\ Len(t) = L /\ \A k \in 1..L : t[k] = s[i + k - 1]
    BY <1>1, <2>1, SubSeqProperties
  <2>3. t \in Seq(S \cup Bytes) /\ m_sep \in Seq(S \cup Bytes)
    BY <1>1, <2>2, SeqMonotonic
  <2>4. (\A k \in 1..L : t[k] = m_sep[k]) => t = m_sep
    BY <2>2, <2>3, SeqEqual
  <2> QED BY <1>2, <2>2, <2>4 DEF SepAt
<1> QED BY <1>2 DEF SepAt

\* The bytes before and behind the first separator.
LEMMA SplitAtSep ==
  ASSUME m_sep \in Seps, NEW S, NEW s \in Seq(S), HasSep(s)
  PROVE  /\ BeforeSep(s) \in Seq(S) /\ Len(BeforeSep(s)) = FirstSep(s) - 1
         /\ \A i \in 1..(FirstSep(s) - 1) : BeforeSep(s)[i] = s[i]
         /\ AfterSep(s) \in Seq(S)
         /\ Len(AfterSep(s)) = Len(s) - FirstSep(s) - Len(m_sep) + 1
         /\ \A i \in 1..Len(AfterSep(s)) : AfterSep(s)[i] = s[FirstSep(s) + Len(m_sep) + i - 1]
<1> DEFINE f == FirstSep(s)
           L == Len(m_sep)
<1>1. L \in Nat /\ L >= 1
  BY SepNotEmpty
<1>2. f \in 1..Len(s) /\ SepAt(s, f)
  BY FirstSepProperties
<1>3. f + L - 1 <= Len(s)
  BY <1>2 DEF SepAt
<1>4. \A i \in 1..Len(s) : s[i] \in S
  BY ElementOfSeq
<1> HIDE DEF f, L
<1>5. \A i \in 1..(f - 1) : s[i] \in S
  BY <1>2, <1>4
<1>6. \A i \in (f + L)..Len(s) : s[i] \in S
  BY <1>1, <1>2, <1>4
<1>7. /\ SubSeq(s, 1, f - 1) \in Seq(S) /\ Len(SubSeq(s, 1, f - 1)) = f - 1
      /\ \A i \in 1..(f - 1) : SubSeq(s, 1, f - 1)[i] = s[i]
  BY <1>2, <1>5, SubSeqProperties
<1>8. /\ SubSeq(s, f + L, Len(s)) \in Seq(S) /\ Len(SubSeq(s, f + L, Len(s))) = Len(s) - f - L + 1
      /\ \A i \in 1..(Len(s) - f - L + 1) : SubSeq(s, f + L, Len(s))[i] = s[f + L + i - 1]
  BY <1>1, <1>2, <1>3, <1>6, SubSeqProperties
<1> QED BY <1>7, <1>8 DEF f, L, BeforeSep, AfterSep

\* Cutting a string at its first separator loses and adds nothing.
LEMMA SplitWhole ==
  ASSUME m_sep \in Seps, NEW s \in Seq(Bytes), HasSep(s)
  PROVE  BeforeSep(s) \o m_sep \o AfterSep(s) = s
<1> DEFINE f == FirstSep(s)
           L == Len(m_sep)
           a == BeforeSep(s)
           b == AfterSep(s)
<1>1. m_sep \in Seq(Bytes) /\ L \in Nat /\ L >= 1
  BY SepNotEmpty, SeqMonotonic
<1>2. f \in 1..Len(s) /\ SepAt(s, f)
  BY FirstSepProperties
<1>3. f + L - 1 <= Len(s) /\ \A k \in 1..L : s[f + k - 1] = m_sep[k]
  BY <1>2, SepAtBytes
<1>4. /\ a \in Seq(Bytes) /\ Len(a) = f - 1 /\ \A i \in 1..(f - 1) : a[i] = s[i]
      /\ b \in Seq(Bytes) /\ Len(b) = Len(s) - f - L + 1
      /\ \A i \in 1..Len(b) : b[i] = s[f + L + i - 1]
  BY SplitAtSep
<1> HIDE DEF f, a, b
<1>5. /\ a \o m_sep \in Seq(Bytes) /\ Len(a \o m_sep) = f - 1 + L
      /\ \A i \in 1..(f - 1 + L) : (a \o m_sep)[i] = IF i <= f - 1 THEN a[i] ELSE m_sep[i - (f - 1)]
  <2>1. /\ a \o m_sep \in Seq(Bytes) /\ Len(a \o m_sep) = Len(a) + L
        /\ \A i \in 1..(Len(a) + L) : (a \o m_sep)[i] = IF i <= Len(a) THEN a[i] ELSE m_sep[i - Len(a)]
    BY <1>1, <1>4, ConcatProperties
  <2> QED BY <1>4, <2>1
<1> DEFINE c == a \o m_sep
<1> HIDE DEF c, L
<1>6. /\ c \o b \in Seq(Bytes) /\ Len(c \o b) = Len(s)
      /\ \A i \in 1..Len(s) : (c \o b)[i] = IF i <= f - 1 + L THEN c[i] ELSE b[i - (f - 1 + L)]
  <2>1. c \in Seq(Bytes) /\ Len(c) = f - 1 + L
    BY <1>5 DEF c
  <2>2. Len(c) + Len(b) = Len(s)
    BY <1>1, <1>2, <1>3, <1>4, <2>1
  <2>3. /\ c \o b \in Seq(Bytes) /\ Len(c \o b) = Len(c) + Len(b)
        /\ \A i \in 1..(Len(c) + Len(b)) : (c \o b)[i] = IF i <= Len(c) THEN c[i] ELSE b[i - Len(c)]
    BY <1>4, <2>1, ConcatProperties
  <2> QED BY <2>1, <2>2, <2>3
<1>7. \A i \in 1..Len(s) : (c \o b)[i] = s[i]
  <2> SUFFICES ASSUME NEW i \in 1..Len(s) PROVE (c \o b)[i] = s[i]
    OBVIOUS
  <2>1. CASE i <= f - 1
    BY <1>1, <1>2, <1>4, <1>5, <1>6, <2>1 DEF c
  <2>2. CASE f - 1 < i /\ i <= f - 1 + L
    <3>1. i - (f - 1) \in 1..L /\ f + (i - (f - 1)) - 1 = i
      BY <1>1, <1>2, <2>2
    <3>2. s[i] = m_sep[i - (f - 1)]
      BY <1>3, <3>1
    <3>3. (c \o b)[i] = c[i]
      BY <1>6, <2>2
    <3>4. c[i] = m_sep[i - (f - 1)]
      BY <1>1, <1>2, <1>5, <2>2 DEF c
    <3> QED BY <3>2, <3>3, <3>4
  <2>3. CASE i > f - 1 + L
    <3>1. i - (f - 1 + L) \in 1..Len(b) /\ f + L + (i - (f - 1 + L)) - 1 = i
      BY <1>1, <1>2, <1>4, <2>3
    <3>2. b[i - (f - 1 + L)] = s[i]
      BY <1>4, <3>1 DEF L
    <3> QED BY <1>1, <1>2, <1>6, <2>3, <3>2
  <2>4. i <= f - 1 \/ (f - 1 < i /\ i <= f - 1 + L) \/ i > f - 1 + L
    BY <1>1, <1>2
  <2> QED BY <2>1, <2>2, <2>3, <2>4, Zenon
<1> QED BY <1>6, <1>7, SeqEqual DEF c, a, b

\* memset over the separator ends the C string in front of it.
LEMMA ZeroSepHead ==
  ASSUME m_sep \in Seps, NEW s \in Seq(Bytes \ {NUL}), HasSep(s)
  PROVE  /\ ZeroSep(s) \in Seq(Bytes) /\ Len(ZeroSep(s)) = Len(s)
         /\ CString(ZeroSep(s)) = BeforeSep(s)
<1> DEFINE f == FirstSep(s)
           L == Len(m_sep)
           a == BeforeSep(s)
           z == [i \in 1..L |-> NUL]
           b == AfterSep(s)
           zs == (a \o z) \o b
<1>1. L \in Nat /\ L >= 1
  BY SepNotEmpty
<1>2. f \in 1..Len(s) /\ f + L - 1 <= Len(s)
  BY FirstSepProperties DEF SepAt
<1>3. /\ a \in Seq(Bytes \ {NUL}) /\ Len(a) = f - 1
      /\ b \in Seq(Bytes \ {NUL}) /\ Len(b) = Len(s) - f - L + 1
  BY SplitAtSep
<1>4. a \in Seq(Bytes) /\ b \in Seq(Bytes)
  BY <1>3, SeqMonotonic
<1>5. z \in Seq(Bytes) /\ Len(z) = L /\ \A i \in 1..L : z[i] = NUL
  <2>1. NUL \in Bytes
    BY DEF Bytes
  <2>2. z \in [1..L -> Bytes] /\ \A i \in 1..L : z[i] = NUL
    BY <2>1
  <2> HIDE DEF z
  <2>3. z \in Seq(Bytes) /\ Len(z) = L
    BY <1>1, <2>2
  <2> QED BY <2>2, <2>3
<1>6. \A i \in 1..(f - 1) : a[i] \in Bytes \ {NUL}
  BY <1>3, ElementOfSeq
<1> HIDE DEF f, L, a, z, b
<1>7. /\ a \o z \in Seq(Bytes) /\ Len(a \o z) = Len(a) + Len(z)
      /\ \A i \in 1..(Len(a) + Len(z)) : (a \o z)[i] = IF i <= Len(a) THEN a[i] ELSE z[i - Len(a)]
  BY <1>4, <1>5, ConcatProperties
<1> DEFINE az == a \o z
<1>8. /\ az \o b \in Seq(Bytes) /\ Len(az \o b) = Len(az) + Len(b)
      /\ \A i \in 1..(Len(az) + Len(b)) : (az \o b)[i] = IF i <= Len(az) THEN az[i] ELSE b[i - Len(az)]
  BY <1>4, <1>7, ConcatProperties
<1>9. Len(az) = f - 1 + L /\ Len(zs) = Len(s) /\ zs \in Seq(Bytes)
  BY <1>1, <1>2, <1>3, <1>5, <1>7, <1>8
<1>10. \A i \in 1..(f - 1) : zs[i] = a[i]
  <2> SUFFICES ASSUME NEW i \in 1..(f - 1) PROVE zs[i] = a[i]
    OBVIOUS
  <2>1. i \in 1..(Len(a) + Len(z)) /\ i <= Len(a) /\ i \in 1..(Len(az) + Len(b)) /\ i <= Len(az)
    BY <1>1, <1>2, <1>3, <1>5, <1>9
  <2> HIDE DEF az
  <2>2. (az \o b)[i] = az[i]
    BY <1>8, <2>1
  <2>3. az[i] = a[i]
    BY <1>7, <2>1 DEF az
  <2> QED BY <2>2, <2>3 DEF az
<1>11. zs[f] = NUL
  <2>1. f \in 1..(Len(a) + Len(z)) /\ ~(f <= Len(a)) /\ f \in 1..(Len(az) + Len(b)) /\ f <= Len(az) /\ f - Len(a) = 1
    BY <1>1, <1>2, <1>3, <1>5, <1>9
  <2> HIDE DEF az
  <2>2. (az \o b)[f] = az[f]
    BY <1>8, <2>1
  <2>3. az[f] = z[1]
    BY <1>7, <2>1 DEF az
  <2> QED BY <1>1, <1>5, <2>2, <2>3 DEF az
<1> HIDE DEF zs
<1>12. PICK n \in 0..Len(zs) : /\ CString(zs) = SubSeq(zs, 1, n)
                               /\ \A j \in 1..n : zs[j] # NUL
                               /\ n < Len(zs) => zs[n + 1] = NUL
  BY <1>9, CStringLen
<1>13. n = f - 1
  <2>1. ~(n >= f)
    BY <1>2, <1>11, <1>12
  <2>2. ~(n < f - 1)
    <3> SUFFICES ASSUME n < f - 1 PROVE FALSE
      OBVIOUS
    <3>1. n + 1 \in 1..(f - 1) /\ n < Len(zs)
      BY <1>2, <1>9
    <3>2. zs[n + 1] = a[n + 1] /\ a[n + 1] \in Bytes \ {NUL}
      BY <1>6, <1>10, <3>1
    <3> QED BY <1>12, <3>1, <3>2
  <2> QED BY <1>2, <2>1, <2>2
<1>14. /\ SubSeq(zs, 1, f - 1) \in Seq(Bytes) /\ Len(SubSeq(zs, 1, f - 1)) = f - 1
       /\ \A i \in 1..(f - 1) : SubSeq(zs, 1, f - 1)[i] = zs[i]
  BY <1>9, <1>12, <1>13, Prefix
<1>15. SubSeq(zs, 1, f - 1) = a
  BY <1>3, <1>4, <1>10, <1>14, SeqEqual
<1>16. ZeroSep(s) = zs
  BY DEF ZeroSep, zs, a, z, b, L
<1> QED BY <1>9, <1>12, <1>13, <1>15, <1>16 DEF a

\* No separator is left in front of the first one.
LEMMA BeforeNoSep ==
  ASSUME m_sep \in Seps, NEW S, NEW s \in Seq(S), HasSep(s)
  PROVE  ~HasSep(BeforeSep(s))
<1> DEFINE f == FirstSep(s)
           a == BeforeSep(s)
<1>1. Len(m_sep) \in Nat /\ Len(m_sep) >= 1
  BY SepNotEmpty
<1>2. f \in 1..Len(s) /\ \A j \in 1..(f - 1) : ~SepAt(s, j)
  BY FirstSepProperties
<1>3. a \in Seq(S) /\ Len(a) = f - 1 /\ \A i \in 1..(f - 1) : a[i] = s[i]
  BY SplitAtSep
<1> HIDE DEF f, a
<1>4. ASSUME NEW i \in 1..Len(a), SepAt(a, i) PROVE FALSE
  <2>1. i + Len(m_sep) - 1 <= Len(a) /\ \A k \in 1..Len(m_sep) : a[i + k - 1] = m_sep[k]
    BY <1>3, <1>4, SepAtBytes
  <2>2. i \in 1..Len(s) /\ i + Len(m_sep) - 1 <= Len(s) /\ i \in 1..(f - 1)
    BY <1>1, <1>2, <1>3, <2>1
  <2>3. \A k \in 1..Len(m_sep) : s[i + k - 1] = m_sep[k]
    <3> SUFFICES ASSUME NEW k \in 1..Len(m_sep) PROVE s[i + k - 1] = m_sep[k]
      OBVIOUS
    <3>1. i + k - 1 \in 1..(f - 1)
      BY <1>1, <1>2, <1>3, <2>1, <2>2
    <3> QED BY <1>3, <2>1, <3>1
  <2>4. SepAt(s, i)
    BY <2>2, <2>3, SepAtBytes
  <2> QED BY <1>2, <2>2, <2>4
<1> QED BY <1>4 DEF HasSep, a

\* A string without separators has none that was overlooked.
LEMMA NoSepOnlyTorn ==
  ASSUME NEW s, NEW J, ~HasSep(s)
  PROVE  OnlyTorn(s, J)
  BY DEF OnlyTorn, HasSep

\* Two reads cannot tear a separator of one byte.
LEMMA OnlyTornSingle ==
  ASSUME m_sep \in Seps, Len(m_sep) = 1, NEW S, NEW s \in Seq(S), NEW J \in SUBSET Nat, OnlyTorn(s, J)
  PROVE  ~HasSep(s)
<1>1. ASSUME NEW i \in 1..Len(s), NEW j \in J, Spans(i, j) PROVE FALSE
  BY <1>1 DEF Spans
<1> QED BY <1>1 DEF OnlyTorn, HasSep

\* What a read without a separator adds to a string can only tear one.
LEMMA OnlyTornConcat ==
  ASSUME m_sep \in Seps, NEW S, NEW s \in Seq(S), NEW t \in Seq(S), NEW J,
         OnlyTorn(s, J), ~HasSep(t)
  PROVE  OnlyTorn(s \o t, J \cup Torn(s \o t, Len(s)))
<1> DEFINE L == Len(m_sep)
           u == s \o t
<1>1. L \in Nat /\ L >= 1
  BY SepNotEmpty
<1>2. /\ u \in Seq(S) /\ Len(u) = Len(s) + Len(t)
      /\ \A i \in 1..(Len(s) + Len(t)) : u[i] = IF i <= Len(s) THEN s[i] ELSE t[i - Len(s)]
  BY ConcatProperties
<1>3. Len(s) \in Nat /\ Len(t) \in Nat
  BY LenProperties
<1> HIDE DEF u
<1> SUFFICES ASSUME NEW i \in 1..Len(u), SepAt(u, i)
             PROVE  \E j \in J \cup Torn(u, Len(s)) : Spans(i, j)
  BY DEF OnlyTorn, u
<1>4. i + L - 1 <= Len(u) /\ \A k \in 1..L : u[i + k - 1] = m_sep[k]
  BY <1>2, SepAtBytes
<1> HIDE DEF L
<1>5. CASE i + L - 1 <= Len(s)
  <2>1. i \in 1..Len(s)
    BY <1>1, <1>3, <1>5
  <2>2. \A k \in 1..L : s[i + k - 1] = m_sep[k]
    <3> SUFFICES ASSUME NEW k \in 1..L PROVE s[i + k - 1] = m_sep[k]
      OBVIOUS
    <3>1. i + k - 1 \in 1..(Len(s) + Len(t)) /\ i + k - 1 <= Len(s)
      BY <1>1, <1>3, <1>5, <2>1
    <3> QED BY <1>2, <1>4, <3>1
  <2>3. SepAt(s, i)
    BY <1>5, <2>1, <2>2, SepAtBytes DEF L
  <2> QED BY <2>1, <2>3 DEF OnlyTorn
<1>6. CASE i > Len(s)
  <2>1. i - Len(s) \in 1..Len(t) /\ (i - Len(s)) + L - 1 <= Len(t)
    BY <1>1, <1>2, <1>3, <1>4, <1>6
  <2>2. \A k \in 1..L : t[(i - Len(s)) + k - 1] = m_sep[k]
    <3> SUFFICES ASSUME NEW k \in 1..L PROVE t[(i - Len(s)) + k - 1] = m_sep[k]
      OBVIOUS
    <3>1. /\ i + k - 1 \in 1..(Len(s) + Len(t)) /\ ~(i + k - 1 <= Len(s))
          /\ (i + k - 1) - Len(s) = (i - Len(s)) + k - 1
      BY <1>1, <1>3, <1>6, <2>1
    <3>2. u[i + k - 1] = t[(i + k - 1) - Len(s)]
      BY <1>2, <3>1
    <3> QED BY <1>4, <3>1, <3>2
  <2>3. SepAt(t, i - Len(s))
    BY <2>1, <2>2, SepAtBytes DEF L
  <2> QED BY <2>1, <2>3 DEF HasSep
<1>7. CASE i <= Len(s) /\ Len(s) < i + L - 1
  <2>1. Spans(i, Len(s))
    BY <1>7 DEF Spans, L
  <2>2. Len(s) \in Torn(u, Len(s))
    BY <2>1 DEF Torn
  <2> QED BY <2>1, <2>2
<1>8. i + L - 1 <= Len(s) \/ i > Len(s) \/ (i <= Len(s) /\ Len(s) < i + L - 1)
  BY <1>1, <1>3
<1> QED BY <1>5, <1>6, <1>7, <1>8

-----------------------------------------------------------------------------
(* One read                                                                *)

\* read() returns the bytes behind the offset, at most a buffer full.
LEMMA ChunkProperties ==
  ASSUME TypeOK
  PROVE  /\ Chunk \in Seq(Bytes) /\ Len(Chunk) <= ReadMax
         /\ Chunk = <<>> <=> Len(file) <= m_curPos
         /\ Chunk # <<>> => m_curPos + Len(Chunk) <= Len(file)
         /\ \A i \in 1..Len(Chunk) : m_curPos + i \in 1..Len(file) /\ Chunk[i] = file[m_curPos + i]
<1> DEFINE e == IF m_curPos + ReadMax < Len(file) THEN m_curPos + ReadMax ELSE Len(file)
           c == SubSeq(file, m_curPos + 1, e)
<1>1. file \in Seq(Bytes) /\ m_curPos \in Nat /\ Len(file) \in Nat /\ ReadMax \in Nat \ {0}
  BY SizesAssumption DEF TypeOK
<1>2. e \in Nat /\ e <= Len(file) /\ e <= m_curPos + ReadMax /\ (e <= m_curPos <=> Len(file) <= m_curPos)
  BY <1>1
<1> HIDE DEF e
<1>3. \A i \in (m_curPos + 1)..e : file[i] \in Bytes
  BY <1>1, <1>2, ElementOfSeq
<1>4. /\ c \in Seq(Bytes) /\ Len(c) = IF m_curPos + 1 <= e THEN e - (m_curPos + 1) + 1 ELSE 0
      /\ \A i \in 1..(e - (m_curPos + 1) + 1) : c[i] = file[(m_curPos + 1) + i - 1]
  BY <1>1, <1>2, <1>3, SubSeqProperties
<1> HIDE DEF c
<1>5. c = <<>> <=> Len(c) = 0
  BY <1>4, EmptySeq
<1>6. Len(c) <= ReadMax /\ (c = <<>> <=> Len(file) <= m_curPos) /\ (c # <<>> => m_curPos + Len(c) <= Len(file))
  BY <1>1, <1>2, <1>4, <1>5
<1>7. ASSUME NEW i \in 1..Len(c) PROVE m_curPos + i \in 1..Len(file) /\ c[i] = file[m_curPos + i]
  <2>1. i \in 1..(e - (m_curPos + 1) + 1) /\ (m_curPos + 1) + i - 1 = m_curPos + i
    BY <1>1, <1>2, <1>4
  <2> QED BY <1>1, <1>2, <1>4, <2>1
<1>8. Chunk = c
  BY DEF Chunk, c, e
<1> QED BY <1>4, <1>6, <1>7, <1>8

\* The bytes before the offset and the chunk are the bytes before the new one.
LEMMA ChunkContinues ==
  ASSUME TypeOK, OffsetInFile
  PROVE  SubSeq(file, base + 1, m_curPos) \o Chunk = SubSeq(file, base + 1, ReadsTo)
<1>1. file \in Seq(Bytes) /\ m_curPos \in Nat /\ Len(file) \in Nat /\ base \in Nat /\ base <= m_curPos
  BY DEF TypeOK, OffsetInFile
<1>2. Chunk \in Seq(Bytes) /\ Len(Chunk) \in Nat
  BY ChunkProperties
<1> DEFINE a == SubSeq(file, base + 1, m_curPos)
           b == SubSeq(file, base + 1, ReadsTo)
<1>3. CASE Chunk = <<>>
  <2>1. ReadsTo = m_curPos
    BY <1>1, <1>2, <1>3 DEF ReadsTo
  <2>2. a \in Seq(Bytes)
    <3>1. CASE m_curPos <= Len(file)
      BY <1>1, <3>1, Part
    <3>2. CASE m_curPos = base
      <4>1. a = <<>>
        BY <1>1, <3>2, SubSeqEmpty
      <4> QED BY <4>1, EmptySeq
    <3> QED BY <3>1, <3>2 DEF OffsetInFile
  <2> QED BY <1>3, <2>1, <2>2, ConcatEmptySeq
<1>4. CASE Chunk # <<>>
  <2>1. /\ m_curPos + Len(Chunk) <= Len(file)
        /\ \A i \in 1..Len(Chunk) : m_curPos + i \in 1..Len(file) /\ Chunk[i] = file[m_curPos + i]
    BY <1>4, ChunkProperties
  <2>2. ReadsTo \in 0..Len(file) /\ ReadsTo = m_curPos + Len(Chunk) /\ m_curPos \in 0..Len(file)
    BY <1>1, <1>2, <2>1 DEF ReadsTo
  <2>3. a \in Seq(Bytes) /\ Len(a) = m_curPos - base /\ \A i \in 1..(m_curPos - base) : a[i] = file[base + i]
    BY <1>1, <2>2, Part
  <2>4. b \in Seq(Bytes) /\ Len(b) = ReadsTo - base /\ \A i \in 1..(ReadsTo - base) : b[i] = file[base + i]
    BY <1>1, <1>2, <2>2, Part
  <2> HIDE DEF a, b
  <2>5. /\ a \o Chunk \in Seq(Bytes) /\ Len(a \o Chunk) = Len(a) + Len(Chunk)
        /\ \A i \in 1..(Len(a) + Len(Chunk)) : (a \o Chunk)[i] = IF i <= Len(a) THEN a[i] ELSE Chunk[i - Len(a)]
    BY <1>2, <2>3, ConcatProperties
  <2> DEFINE u == a \o Chunk
  <2> HIDE DEF u
  <2>6. u \in Seq(Bytes) /\ Len(u) = ReadsTo - base
    BY <1>1, <1>2, <2>2, <2>3, <2>5 DEF u
  <2>7. ASSUME NEW i \in 1..(ReadsTo - base) PROVE u[i] = b[i]
    <3>1. CASE i <= m_curPos - base
      BY <1>1, <1>2, <2>2, <2>3, <2>4, <2>5, <3>1 DEF u
    <3>2. CASE i > m_curPos - base
      <4>1. i - Len(a) \in 1..Len(Chunk) /\ m_curPos + (i - Len(a)) = base + i
        BY <1>1, <1>2, <2>2, <2>3, <3>2
      <4>2. Chunk[i - Len(a)] = file[base + i]
        BY <2>1, <4>1
      <4>3. u[i] = Chunk[i - Len(a)]
        <5>1. i \in 1..(Len(a) + Len(Chunk)) /\ ~(i <= Len(a))
          BY <1>1, <1>2, <2>2, <2>3, <3>2
        <5> QED BY <2>5, <5>1 DEF u
      <4> QED BY <2>4, <4>2, <4>3
    <3> QED BY <1>1, <2>2, <3>1, <3>2
  <2>8. u = b
    BY <2>4, <2>6, <2>7, SeqEqual
  <2> QED BY <2>8 DEF u, a, b
<1> QED BY <1>3, <1>4

-----------------------------------------------------------------------------
(* Types                                                                   *)

\* What a read without a zero byte in front adds to m_trash_hold.
LEMMA HoldGrows ==
  ASSUME TypeOK, NEW t \in Seq(Bytes \ {NUL})
  PROVE  /\ m_trash_hold \o t \in Seq(Bytes \ {NUL})
         /\ Len(m_trash_hold \o t) = Len(m_trash_hold) + Len(t)
  BY ConcatProperties DEF TypeOK

\* Offsets of torn separators are offsets in the string.
LEMMA TornOffset ==
  ASSUME NEW s, NEW j
  PROVE  Torn(s, j) \subseteq {j}
  BY DEF Torn

\* What Deliver leaves, given the types of what it is called with.
LEMMA DeliverTypes ==
  ASSUME TypeOK, NEW it \in Seq(Bytes), NEW at \in SUBSET (0..Len(it)),
         NEW rest \in Seq(Bytes \ {NUL}), NEW pos \in Nat, Deliver(it, at, rest, pos)
  PROVE  TypeOK'
<1>1. /\ item' = it /\ itemJoints' = at /\ m_trash_hold' = rest /\ joints' = {} /\ m_curPos' = pos
      /\ gotLine' = TRUE /\ pc' = "fetch" /\ UNCHANGED <<event, stalled, m_sep, file, written, truncated, before, base, raced, zeros>>
      /\ gone' = gone \o CString(it) \o m_sep
  BY DEF Deliver, writerVars
<1>2. m_quotient' \in Nat /\ lineEnds' \in Seq(Nat) /\ noticed' \in SUBSET Nat
  <2>1. SizeLimit > 0 => pos \div SizeLimit \in Nat
    BY SizesAssumption
  <2>2. lineEnds' = Append(lineEnds, pos) /\ lineEnds \in Seq(Nat)
    BY DEF Deliver, CheckSize, TypeOK
  <2>3. lineEnds' \in Seq(Nat) /\ Len(lineEnds') \in Nat
    BY <2>2
  <2> QED BY <2>1, <2>3, SizesAssumption DEF Deliver, CheckSize, TypeOK
<1>3. gone' \in Seq(Bytes)
  <2>1. CString(it) \in Seq(Bytes) /\ m_sep \in Seq(Bytes) /\ gone \in Seq(Bytes)
    BY CStringProperties, SepNotEmpty, SeqMonotonic DEF TypeOK
  <2>2. gone \o CString(it) \in Seq(Bytes)
    BY <2>1, ConcatProperties
  <2> QED BY <1>1, <2>1, <2>2, ConcatProperties
<1> QED BY <1>1, <1>2, <1>3 DEF TypeOK

\* Every step keeps the types.
LEMMA NextTypes ==
  ASSUME TypeOK, [Next]_vars
  PROVE  TypeOK'
<1> DEFINE C == CString(Chunk)
<1>1. m_sep \in Seps /\ m_trash_hold \in Seq(Bytes \ {NUL}) /\ m_trash_hold \in Seq(Bytes)
      /\ joints \subseteq 0..Len(m_trash_hold) /\ m_curPos \in Nat
  BY SeqMonotonic DEF TypeOK
<1>2. Chunk \in Seq(Bytes) /\ C \in Seq(Bytes \ {NUL}) /\ ReadsTo \in Nat
  <2>1. Chunk \in Seq(Bytes)
    BY ChunkProperties
  <2>2. C \in Seq(Bytes \ {NUL}) /\ Len(Chunk) \in Nat
    BY <2>1, CStringProperties
  <2> QED BY <1>1, <2>1, <2>2 DEF ReadsTo
<1>3. ASSUME NEW w \in Writes, WriteLog(w) PROVE TypeOK'
  <2>1. w \in Seq(Bytes) /\ file \o w \in Seq(Bytes)
    BY WritesAssumption, ConcatProperties DEF TypeOK
  <2>2. written + Len(w) \in Nat
    BY <2>1 DEF TypeOK
  <2> QED BY <1>3, <2>1, <2>2 DEF WriteLog, readerVars, holdVars, itemVars, sizeVars, TypeOK
<1>4. CASE Truncate
  <2>1. gone \o m_trash_hold \in Seq(Bytes)
    BY <1>1, ConcatProperties DEF TypeOK
  <2> QED BY <1>4, <2>1, EmptySeq DEF Truncate, readerVars, holdVars, itemVars, sizeVars, TypeOK
<1>5. CASE BeginRound
  BY <1>5 DEF BeginRound, holdVars, itemVars, sizeVars, writerVars, TypeOK
<1>6. CASE FetchFromTrash
  <2>1. /\ ZeroSep(m_trash_hold) \in Seq(Bytes) /\ Len(ZeroSep(m_trash_hold)) = Len(m_trash_hold)
        /\ AfterSep(m_trash_hold) \in Seq(Bytes \ {NUL})
    BY <1>1, <1>6, ZeroSepHead, SplitAtSep DEF FetchFromTrash
  <2> QED BY <1>1, <1>6, <2>1, DeliverTypes DEF FetchFromTrash
<1>7. CASE DropTooLong
  <2>1. gone \o m_trash_hold \in Seq(Bytes)
    BY <1>1, ConcatProperties DEF TypeOK
  <2> QED BY <1>7, <2>1, EmptySeq DEF DropTooLong, itemVars, sizeVars, writerVars, TypeOK
<1>8. CASE ReadNothing
  BY <1>8 DEF ReadNothing, holdVars, itemVars, sizeVars, writerVars, TypeOK
<1>9. CASE ReadLine
  <2> DEFINE it == m_trash_hold \o BeforeSep(C)
             at == joints \cup Torn(it, Len(m_trash_hold))
  <2>1. BeforeSep(C) \in Seq(Bytes \ {NUL}) /\ AfterSep(C) \in Seq(Bytes \ {NUL})
    BY <1>1, <1>2, <1>9, SplitAtSep DEF ReadLine
  <2>2. it \in Seq(Bytes \ {NUL}) /\ Len(it) = Len(m_trash_hold) + Len(BeforeSep(C))
    BY <2>1, HoldGrows
  <2>3. it \in Seq(Bytes)
    BY <2>2, SeqMonotonic
  <2>4. at \in SUBSET (0..Len(it))
    <3>1. Len(m_trash_hold) \in Nat /\ Len(BeforeSep(C)) \in Nat
      BY <1>1, <2>1, LenProperties
    <3>2. 0..Len(m_trash_hold) \subseteq 0..Len(it) /\ Len(m_trash_hold) \in 0..Len(it)
      BY <2>2, <3>1
    <3> QED BY <1>1, <3>2, TornOffset
  <2>5. Deliver(it, at, AfterSep(C), ReadsTo)
    BY <1>9 DEF ReadLine
  <2> HIDE DEF it, at, C
  <2> QED BY <1>2, <2>1, <2>3, <2>4, <2>5, DeliverTypes
<1>10. CASE ReadZeros
  <2>1. <<>> \in Seq(Bytes \ {NUL})
    BY EmptySeq
  <2> QED BY <1>1, <1>2, <1>10, <2>1, DeliverTypes DEF ReadZeros
<1>11. CASE ReadPart
  <2>1. m_trash_hold \o C \in Seq(Bytes \ {NUL}) /\ Len(m_trash_hold \o C) = Len(m_trash_hold) + Len(C)
    BY <1>2, HoldGrows
  <2>2. joints \cup Torn(m_trash_hold \o C, Len(m_trash_hold)) \subseteq 0..Len(m_trash_hold \o C)
    <3>1. Len(m_trash_hold) \in Nat /\ Len(C) \in Nat
      BY <1>1, <1>2, LenProperties
    <3>2. 0..Len(m_trash_hold) \subseteq 0..Len(m_trash_hold \o C) /\ Len(m_trash_hold) \in 0..Len(m_trash_hold \o C)
      BY <2>1, <3>1
    <3> QED BY <1>1, <3>2, TornOffset
  <2>3. /\ m_trash_hold' = m_trash_hold \o C
        /\ joints' = joints \cup Torn(m_trash_hold \o C, Len(m_trash_hold))
        /\ m_curPos' = ReadsTo /\ pc' = "read"
        /\ UNCHANGED <<event, gotLine, itemVars, sizeVars, gone, stalled, base, writerVars>>
    BY <1>11 DEF ReadPart, Torn
  <2> QED BY <1>2, <2>1, <2>2, <2>3 DEF itemVars, sizeVars, writerVars, TypeOK
<1>12. CASE EndRound
  BY <1>12 DEF EndRound, holdVars, itemVars, sizeVars, writerVars, TypeOK
<1>13. CASE Reposition
  BY <1>13 DEF Reposition, holdVars, itemVars, sizeVars, writerVars, TypeOK
<1>14. CASE UNCHANGED vars
  BY <1>14 DEF vars, TypeOK
<1> QED
  BY <1>3, <1>4, <1>5, <1>6, <1>7, <1>8, <1>9, <1>10, <1>11, <1>12, <1>13, <1>14 DEF Next, Reader

-----------------------------------------------------------------------------
(* Nothing is skipped                                                      *)

\* A round starts over, ends or goes on: what a step may do to the file, the
\* offset and the separator.
LEMMA FileStep ==
  ASSUME TypeOK, [Next]_vars
  PROVE  /\ m_sep' = m_sep
         /\ \/ UNCHANGED <<file, truncated, zeros>>
            \/ Truncate
            \/ \E w \in Writes : WriteLog(w)
  BY DEF Next, Reader, WriteLog, Truncate, BeginRound, FetchFromTrash, DropTooLong, ReadNothing,
         ReadLine, ReadZeros, ReadPart, EndRound, Reposition, Deliver, vars, readerVars, writerVars

\* Every step keeps the offset and the base in place.
LEMMA NextOffset ==
  ASSUME TypeOK, OffsetInFile, Seeking, [Next]_vars
  PROVE  OffsetInFile' /\ Seeking'
<1>1. m_curPos \in Nat /\ base \in Nat /\ Len(file) \in Nat /\ file \in Seq(Bytes) /\ raced \in BOOLEAN
  BY DEF TypeOK
<1>2. ASSUME NEW w \in Writes, WriteLog(w) PROVE OffsetInFile' /\ Seeking'
  <2>1. Len(file \o w) = Len(file) + Len(w) /\ Len(w) \in Nat
    BY WritesAssumption, ConcatProperties, LenProperties DEF TypeOK
  <2>2. /\ file' = file \o w /\ UNCHANGED <<pc, gotLine, m_curPos, base, truncated>>
        /\ ~raced' => ~raced /\ m_curPos <= Len(file)
    <3>1. raced' = (raced \/ m_curPos > Len(file))
      BY <1>2 DEF WriteLog
    <3>2. m_curPos > Len(file) \/ m_curPos <= Len(file)
      BY <1>1
    <3>3. ~raced' => ~raced /\ m_curPos <= Len(file)
      BY <3>1, <3>2, Zenon
    <3> QED BY <1>2, <3>3 DEF WriteLog, readerVars
  <2>3. m_curPos' <= Len(file') \/ (truncated' /\ m_curPos' = base')
    BY <1>1, <2>1, <2>2 DEF OffsetInFile
  <2>4. ~raced' => base' = 0
    <3> SUFFICES ASSUME ~raced', base # 0 PROVE FALSE
      BY <2>2
    <3>1. file = <<>> /\ m_curPos = base /\ m_curPos <= Len(file)
      BY <2>2 DEF OffsetInFile
    <3>2. Len(file) = 0
      BY <1>1, <3>1, EmptySeq
    <3> QED BY <1>1, <3>1, <3>2
  <2> QED BY <2>2, <2>3, <2>4 DEF OffsetInFile, Seeking
<1>3. CASE Truncate
  BY <1>1, <1>3 DEF Truncate, readerVars, OffsetInFile, Seeking
<1>4. CASE BeginRound \/ DropTooLong \/ ReadNothing
  BY <1>4 DEF BeginRound, DropTooLong, ReadNothing, writerVars, OffsetInFile, Seeking
<1>5. CASE FetchFromTrash
  BY <1>5 DEF FetchFromTrash, Deliver, writerVars, OffsetInFile, Seeking
<1>6. CASE ReadLine \/ ReadZeros \/ ReadPart
  <2>1. m_curPos' = ReadsTo /\ pc' # "seek" /\ UNCHANGED <<file, truncated, base, raced>>
    BY <1>6 DEF ReadLine, ReadZeros, ReadPart, Deliver, writerVars
  <2>2. Chunk \in Seq(Bytes) /\ Len(Chunk) \in Nat
    BY ChunkProperties
  <2>3. CASE Chunk = <<>>
    <3>1. m_curPos' = m_curPos
      BY <1>1, <2>1, <2>3 DEF ReadsTo
    <3> QED BY <2>1, <3>1 DEF OffsetInFile, Seeking
  <2>4. CASE Chunk # <<>>
    <3>1. ReadsTo \in Nat /\ m_curPos <= ReadsTo /\ ReadsTo <= Len(file) /\ ~(Len(file) <= m_curPos)
      BY <1>1, <2>2, <2>4, ChunkProperties DEF ReadsTo
    <3>2. Len(file) # 0
      BY <1>1, <3>1
    <3>3. file # <<>>
      BY <1>1, <3>2, EmptySeq
    <3> QED BY <1>1, <2>1, <3>1, <3>3 DEF OffsetInFile, Seeking
  <2> QED BY <2>3, <2>4
<1>7. CASE EndRound
  <2>1. /\ UNCHANGED <<m_curPos, gotLine, base, file, truncated, raced>>
        /\ pc' = "seek" => ~gotLine /\ m_curPos > Len(file)
    BY <1>7 DEF EndRound, writerVars
  <2>2. pc' = "seek" => truncated /\ m_curPos = base /\ base # 0
    BY <1>1, <2>1 DEF OffsetInFile
  <2> QED BY <2>1, <2>2 DEF OffsetInFile, Seeking
<1>8. CASE Reposition
  <2>1. /\ m_curPos' = Len(file) /\ base' = Len(file) /\ pc = "seek" /\ pc' = "idle"
        /\ UNCHANGED <<file, truncated, raced>>
    BY <1>8 DEF Reposition, writerVars
  <2>2. truncated /\ base # 0
    BY <2>1 DEF Seeking
  <2>3. ~raced => Len(file) = 0
    BY <1>1, <2>2, EmptySeq DEF OffsetInFile
  <2> QED BY <1>1, <2>1, <2>2, <2>3 DEF OffsetInFile, Seeking
<1>9. CASE UNCHANGED vars
  BY <1>9 DEF vars, OffsetInFile, Seeking
<1> QED BY <1>2, <1>3, <1>4, <1>5, <1>6, <1>7, <1>8, <1>9 DEF Next, Reader

\* Only a write puts zero bytes into the file.
LEMMA NextText ==
  ASSUME TypeOK, TextOnly, [Next]_vars
  PROVE  TextOnly'
<1>1. CASE UNCHANGED <<file, truncated, zeros>>
  BY <1>1 DEF TextOnly
<1>2. CASE Truncate
  BY <1>2 DEF Truncate, TextOnly
<1>3. ASSUME NEW w \in Writes, WriteLog(w) PROVE TextOnly'
  <2> SUFFICES ASSUME ~zeros', NEW i \in 1..Len(file \o w) PROVE (file \o w)[i] # NUL
    BY <1>3 DEF WriteLog, TextOnly
  <2>1. ~zeros /\ \A j \in DOMAIN w : w[j] # NUL
    BY <1>3 DEF WriteLog
  <2>2. file \in Seq(Bytes) /\ w \in Seq(Bytes)
    BY WritesAssumption DEF TypeOK
  <2>3. /\ Len(file \o w) = Len(file) + Len(w)
        /\ \A j \in 1..(Len(file) + Len(w)) : (file \o w)[j] = IF j <= Len(file) THEN file[j] ELSE w[j - Len(file)]
    BY <2>2, ConcatProperties
  <2>4. Len(file) \in Nat /\ Len(w) \in Nat /\ DOMAIN w = 1..Len(w)
    BY <2>2, LenProperties
  <2>5. CASE i <= Len(file)
    BY <2>1, <2>3, <2>4, <2>5 DEF TextOnly
  <2>6. CASE i > Len(file)
    <3>1. i - Len(file) \in DOMAIN w
      BY <2>3, <2>4, <2>6
    <3> QED BY <2>1, <2>3, <2>4, <2>6, <3>1
  <2> QED BY <2>3, <2>4, <2>5, <2>6
<1> QED BY <1>1, <1>2, <1>3, FileStep

\* In a log of text a chunk is its own C string.
LEMMA TextChunk ==
  ASSUME TypeOK, TextOnly, ~zeros
  PROVE  CString(Chunk) = Chunk /\ (Chunk # <<>> => Chunk[1] # NUL)
<1>1. Chunk \in Seq(Bytes)
  BY ChunkProperties
<1>2. \A i \in 1..Len(Chunk) : Chunk[i] # NUL
  BY ChunkProperties DEF TextOnly
<1>3. Chunk # <<>> => 1 \in 1..Len(Chunk)
  BY <1>1, EmptySeq
<1> QED BY <1>1, <1>2, <1>3, CStringOfText

\* Every step keeps the account of the bytes.
LEMMA NextNothingSkipped ==
  ASSUME TypeOK, OffsetInFile, Seeking, TextOnly, NothingSkipped, [Next]_vars
  PROVE  NothingSkipped'
<1> DEFINE Taken == before \o SubSeq(file, base + 1, m_curPos)
<1> SUFFICES ASSUME ~zeros' PROVE (gone \o m_trash_hold)' = Taken'
  BY DEF NothingSkipped
<1>1. ~zeros
  BY FileStep DEF Truncate, WriteLog, TypeOK
<1>2. gone \o m_trash_hold = Taken /\ m_curPos \in Nat /\ base \in Nat /\ Len(file) \in Nat /\ base <= m_curPos
  <2>1. gone \o m_trash_hold = Taken
    BY <1>1 DEF NothingSkipped
  <2> HIDE DEF Taken
  <2>2. m_curPos \in Nat /\ base \in Nat /\ Len(file) \in Nat /\ base <= m_curPos
    BY DEF OffsetInFile, TypeOK
  <2> QED BY <2>1, <2>2
<1>3. /\ file \in Seq(Bytes) /\ gone \in Seq(Bytes) /\ before \in Seq(Bytes)
      /\ m_trash_hold \in Seq(Bytes \ {NUL}) /\ m_trash_hold \in Seq(Bytes) /\ m_sep \in Seps /\ m_sep \in Seq(Bytes)
  BY SeqMonotonic, SepNotEmpty DEF TypeOK
<1>4. Chunk \in Seq(Bytes) /\ CString(Chunk) = Chunk /\ (Chunk # <<>> => Chunk[1] # NUL)
  BY <1>1, TextChunk, ChunkProperties
<1>5. Taken \o Chunk = before \o SubSeq(file, base + 1, ReadsTo)
  <2> DEFINE a == SubSeq(file, base + 1, m_curPos)
  <2>1. a \in Seq(Bytes)
    <3>1. CASE m_curPos <= Len(file)
      BY <1>2, <1>3, <3>1, Part
    <3>2. CASE m_curPos = base
      <4>1. a = <<>>
        BY <1>2, <3>2, SubSeqEmpty
      <4> QED BY <4>1, EmptySeq
    <3> QED BY <3>1, <3>2 DEF OffsetInFile
  <2>2. a \o Chunk = SubSeq(file, base + 1, ReadsTo)
    BY ChunkContinues
  <2> HIDE DEF a
  <2>3. (before \o a) \o Chunk = before \o (a \o Chunk)
    <3>1. before \in Seq(Bytes) /\ Chunk \in Seq(Bytes)
      BY <1>3, <1>4
    <3> QED BY <2>1, <3>1, ConcatAssociative
  <2> QED BY <2>2, <2>3 DEF a
<1>6. ASSUME NEW w \in Writes, WriteLog(w) PROVE (gone \o m_trash_hold)' = Taken'
  <2> DEFINE a == SubSeq(file, base + 1, m_curPos)
             b == SubSeq(file \o w, base + 1, m_curPos)
  <2>1. w \in Seq(Bytes) /\ file \o w \in Seq(Bytes) /\ Len(file \o w) = Len(file) + Len(w) /\ Len(w) \in Nat
        /\ \A i \in 1..(Len(file) + Len(w)) : (file \o w)[i] = IF i <= Len(file) THEN file[i] ELSE w[i - Len(file)]
    BY <1>3, WritesAssumption, ConcatProperties, LenProperties
  <2>2. a = b
    <3>1. CASE m_curPos = base
      BY <1>2, <3>1, SubSeqEmpty
    <3>2. CASE m_curPos <= Len(file)
      <4>1. a \in Seq(Bytes) /\ Len(a) = m_curPos - base /\ \A i \in 1..(m_curPos - base) : a[i] = file[base + i]
        BY <1>2, <1>3, <3>2, Part
      <4>2. m_curPos \in 0..Len(file \o w)
        BY <1>2, <2>1, <3>2
      <4>3. b \in Seq(Bytes) /\ Len(b) = m_curPos - base /\ \A i \in 1..(m_curPos - base) : b[i] = (file \o w)[base + i]
        BY <1>2, <2>1, <4>2, Part
      <4>4. \A i \in 1..(m_curPos - base) : a[i] = b[i]
        BY <1>2, <2>1, <3>2, <4>1, <4>3
      <4> HIDE DEF a, b
      <4> QED BY <4>1, <4>3, <4>4, SeqEqual
    <3> QED BY <3>1, <3>2 DEF OffsetInFile
  <2>3. file' = file \o w /\ UNCHANGED <<gone, m_trash_hold, before, base, m_curPos>>
    BY <1>6 DEF WriteLog, readerVars, holdVars
  <2> QED BY <1>2, <2>2, <2>3
<1>7. CASE Truncate
  <2>1. /\ UNCHANGED <<gone, m_trash_hold, m_curPos>>
        /\ file' = <<>> /\ before' = gone \o m_trash_hold /\ base' = m_curPos
    BY <1>7 DEF Truncate, readerVars, holdVars
  <2>2. SubSeq(file, base + 1, m_curPos)' = <<>>
    BY <1>2, <2>1, SubSeqEmpty
  <2>3. gone \o m_trash_hold \in Seq(Bytes)
    BY <1>3, ConcatProperties
  <2> QED BY <2>1, <2>2, <2>3, ConcatEmptySeq
<1>8. CASE FetchFromTrash
  <2> DEFINE a == BeforeSep(m_trash_hold)
             b == AfterSep(m_trash_hold)
  <2>1. HasSep(m_trash_hold)
    BY <1>8 DEF FetchFromTrash
  <2>2. /\ CString(ZeroSep(m_trash_hold)) = a
        /\ a \in Seq(Bytes) /\ b \in Seq(Bytes) /\ a \o m_sep \o b = m_trash_hold
    BY <1>3, <2>1, ZeroSepHead, SplitAtSep, SplitWhole
  <2>3. gone' = gone \o a \o m_sep /\ m_trash_hold' = b /\ UNCHANGED <<file, m_curPos, before, base>>
    BY <1>8, <2>2 DEF FetchFromTrash, Deliver, writerVars
  <2> HIDE DEF a, b
  <2>4. ((gone \o a) \o m_sep) \o b = gone \o ((a \o m_sep) \o b)
    <3> DEFINE n == a \o m_sep
    <3>1. gone \in Seq(Bytes) /\ a \in Seq(Bytes) /\ m_sep \in Seq(Bytes) /\ b \in Seq(Bytes)
      BY <1>3, <2>2
    <3>2. (gone \o a) \o m_sep = gone \o (a \o m_sep)
      BY <3>1, ConcatAssociative
    <3>3. n \in Seq(Bytes)
      BY <3>1, ConcatProperties
    <3> HIDE DEF n
    <3>4. (gone \o n) \o b = gone \o (n \o b)
      BY <3>1, <3>3, ConcatAssociative, SMTT(30)
    <3> QED BY <3>2, <3>4 DEF n
  <2>5. gone' \o m_trash_hold' = gone \o m_trash_hold
    BY <2>2, <2>3, <2>4, Zenon
  <2> QED BY <1>2, <2>3, <2>5
<1>9. CASE DropTooLong
  <2>1. gone' = gone \o m_trash_hold /\ m_trash_hold' = <<>> /\ UNCHANGED <<file, m_curPos, before, base>>
    BY <1>9 DEF DropTooLong, writerVars
  <2>2. gone \o m_trash_hold \in Seq(Bytes)
    BY <1>3, ConcatProperties
  <2>3. (gone \o m_trash_hold) \o <<>> = gone \o m_trash_hold
    BY <2>2, ConcatEmptySeq
  <2> QED BY <1>2, <2>1, <2>3
<1>10. CASE ReadLine
  <2> DEFINE a == BeforeSep(Chunk)
             b == AfterSep(Chunk)
             it == m_trash_hold \o a
  <2>1. HasSep(Chunk)
    BY <1>4, <1>10 DEF ReadLine
  <2>2. a \in Seq(Bytes) /\ b \in Seq(Bytes) /\ a \o m_sep \o b = Chunk
    BY <1>3, <1>4, <2>1, SplitAtSep, SplitWhole
  <2>3. CString(it) = it /\ it \in Seq(Bytes)
    <3>1. Chunk \in Seq(Bytes \ {NUL})
      BY <1>4, CStringProperties
    <3>2. a \in Seq(Bytes \ {NUL})
      BY <1>3, <2>1, <3>1, SplitAtSep
    <3>3. it \in Seq(Bytes \ {NUL})
      BY <3>2, HoldGrows
    <3>4. \A i \in 1..Len(it) : it[i] # NUL
      BY <3>3, ElementOfSeq
    <3> HIDE DEF it
    <3> QED BY <3>3, <3>4, CStringOfText, SeqMonotonic
  <2>4. gone' = (gone \o it) \o m_sep /\ m_trash_hold' = b /\ UNCHANGED <<file, before, base>> /\ m_curPos' = ReadsTo
    BY <1>4, <1>10, <2>3 DEF ReadLine, Deliver, writerVars
  <2> HIDE DEF a, b
  <2>5. gone \o it = (gone \o m_trash_hold) \o a
    <3>1. gone \in Seq(Bytes) /\ m_trash_hold \in Seq(Bytes) /\ a \in Seq(Bytes)
      BY <1>3, <2>2
    <3> QED BY <3>1, ConcatAssociative
  <2> DEFINE g == gone \o m_trash_hold
  <2>6. g \in Seq(Bytes)
    BY <1>3, ConcatProperties
  <2> HIDE DEF g, it
  <2>7. ((g \o a) \o m_sep) \o b = g \o ((a \o m_sep) \o b)
    <3> DEFINE n == a \o m_sep
    <3>1. g \in Seq(Bytes) /\ a \in Seq(Bytes) /\ m_sep \in Seq(Bytes) /\ b \in Seq(Bytes)
      BY <1>3, <2>2, <2>6
    <3>2. (g \o a) \o m_sep = g \o (a \o m_sep)
      BY <3>1, ConcatAssociative
    <3>3. n \in Seq(Bytes)
      BY <3>1, ConcatProperties
    <3> HIDE DEF n
    <3>4. (g \o n) \o b = g \o (n \o b)
      BY <3>1, <3>3, ConcatAssociative
    <3> QED BY <3>2, <3>4 DEF n
  <2>8. gone' \o m_trash_hold' = g \o Chunk
    BY <2>2, <2>4, <2>5, <2>7, Zenon DEF g
  <2> QED BY <1>2, <1>5, <2>4, <2>8, Zenon DEF g
<1>11. CASE ReadZeros
  BY <1>4, <1>11 DEF ReadZeros
<1>12. CASE ReadPart
  <2>1. m_trash_hold' = m_trash_hold \o Chunk /\ UNCHANGED <<file, gone, before, base>> /\ m_curPos' = ReadsTo
    BY <1>4, <1>12 DEF ReadPart, writerVars
  <2>2. (gone \o m_trash_hold) \o Chunk = gone \o (m_trash_hold \o Chunk)
    <3>1. gone \in Seq(Bytes) /\ m_trash_hold \in Seq(Bytes) /\ Chunk \in Seq(Bytes)
      BY <1>3, <1>4
    <3> QED BY <3>1, ConcatAssociative
  <2> QED BY <1>2, <1>5, <2>1, <2>2, Zenon
<1>13. CASE EndRound
  BY <1>2, <1>13 DEF EndRound, holdVars, writerVars
<1>14. CASE Reposition
  <2>1. m_curPos' = Len(file) /\ base' = Len(file) /\ m_curPos = base /\ UNCHANGED <<file, gone, m_trash_hold, before>>
    BY <1>14 DEF Reposition, holdVars, writerVars, Seeking
  <2>2. SubSeq(file, base + 1, m_curPos) = <<>> /\ SubSeq(file, Len(file) + 1, Len(file)) = <<>>
    BY <1>2, <2>1, SubSeqEmpty
  <2> QED BY <1>2, <2>1, <2>2
<1>15. CASE BeginRound \/ ReadNothing \/ UNCHANGED vars
  BY <1>2, <1>15 DEF BeginRound, ReadNothing, holdVars, writerVars, vars
<1> QED
  BY <1>6, <1>7, <1>8, <1>9, <1>10, <1>11, <1>12, <1>13, <1>14, <1>15 DEF Next, Reader

-----------------------------------------------------------------------------
(* Lines and separators                                                    *)

\* What is held while fetchNextLog reads has no separator that was not torn.
LEMMA InLoopTorn ==
  ASSUME HoldTorn, InLoop
  PROVE  OnlyTorn(m_trash_hold, joints)
  BY NoSepOnlyTorn DEF HoldTorn, InLoop

\* The separator stays, and with it what OnlyTorn means.
LEMMA OnlyTornStays ==
  ASSUME m_sep' = m_sep, OnlyTorn(m_trash_hold', joints')
  PROVE  OnlyTorn(m_trash_hold, joints)'
  BY DEF OnlyTorn, SepAt, Spans

\* Separators in what is held, and in the C string of an item handed out, are
\* torn ones after every step.
LEMMA NextLines ==
  ASSUME TypeOK, HoldTorn, HeadIsOneLine, [Next]_vars
  PROVE  HoldTorn' /\ HeadIsOneLine'
<1> DEFINE C == CString(Chunk)
<1>1. m_sep' = m_sep
  BY FileStep
<1>2. /\ m_sep \in Seps /\ m_trash_hold \in Seq(Bytes \ {NUL})
      /\ C \in Seq(Bytes \ {NUL})
  BY ChunkProperties, CStringProperties DEF TypeOK
<1>3. ASSUME UNCHANGED itemVars PROVE HeadIsOneLine'
  <2>1. UNCHANGED <<item, itemJoints, m_sep>>
    BY <1>1, <1>3 DEF itemVars
  <2> QED BY <2>1 DEF HeadIsOneLine, OnlyTorn, SepAt, Spans, CString
<1>4. ASSUME UNCHANGED holdVars, pc' # "fetch" \/ ~gotLine' => OnlyTorn(m_trash_hold, joints)
      PROVE  HoldTorn'
  <2>1. UNCHANGED <<m_trash_hold, joints>>
    BY <1>4 DEF holdVars
  <2> QED BY <1>1, <1>4, <2>1, OnlyTornStays DEF HoldTorn
<1>5. ASSUME NEW it, NEW at, NEW rest, NEW pos, Deliver(it, at, rest, pos), OnlyTorn(CString(it), at)
      PROVE  HoldTorn' /\ HeadIsOneLine'
  <2>1. item' = it /\ itemJoints' = at /\ gotLine' = TRUE /\ pc' = "fetch"
    BY <1>5 DEF Deliver
  <2>2. HeadIsOneLine'
    BY <1>1, <1>5, <2>1 DEF HeadIsOneLine, OnlyTorn, SepAt, Spans, CString
  <2> QED BY <2>1, <2>2 DEF HoldTorn
<1>6. CASE (\E w \in Writes : WriteLog(w)) \/ Truncate \/ EndRound \/ Reposition \/ UNCHANGED vars
  <2>1. UNCHANGED itemVars /\ UNCHANGED holdVars /\ (pc' # "fetch" \/ ~gotLine' => pc # "fetch" \/ ~gotLine)
    BY <1>6 DEF WriteLog, Truncate, EndRound, Reposition, readerVars, vars, itemVars, holdVars
  <2> QED BY <1>3, <1>4, <2>1 DEF HoldTorn
<1>7. CASE BeginRound
  <2>1. UNCHANGED itemVars /\ UNCHANGED holdVars /\ pc # "fetch"
    BY <1>7 DEF BeginRound
  <2> QED BY <1>3, <1>4, <2>1 DEF HoldTorn
<1>8. CASE FetchFromTrash
  <2>1. CString(ZeroSep(m_trash_hold)) = BeforeSep(m_trash_hold) /\ ~HasSep(BeforeSep(m_trash_hold))
    BY <1>2, <1>8, ZeroSepHead, BeforeNoSep DEF FetchFromTrash
  <2>2. OnlyTorn(CString(ZeroSep(m_trash_hold)), joints)
    BY <2>1, NoSepOnlyTorn
  <2> QED BY <1>5, <1>8, <2>2 DEF FetchFromTrash
<1>9. CASE DropTooLong
  <2>1. UNCHANGED itemVars /\ m_trash_hold' = <<>>
    BY <1>9 DEF DropTooLong
  <2>2. HoldTorn'
    BY <2>1 DEF HoldTorn, OnlyTorn
  <2> QED BY <1>3, <2>1, <2>2
<1>10. CASE ReadNothing
  <2>1. UNCHANGED itemVars /\ UNCHANGED holdVars /\ InLoop
    BY <1>10 DEF ReadNothing
  <2> QED BY <1>3, <1>4, <2>1, InLoopTorn
<1>11. CASE ReadLine
  <2> DEFINE it == m_trash_hold \o BeforeSep(C)
             at == joints \cup Torn(it, Len(m_trash_hold))
  <2>1. HasSep(C) /\ InLoop /\ Deliver(it, at, AfterSep(C), ReadsTo)
    BY <1>11 DEF ReadLine
  <2>2. BeforeSep(C) \in Seq(Bytes \ {NUL}) /\ ~HasSep(BeforeSep(C))
    BY <1>2, <2>1, SplitAtSep, BeforeNoSep
  <2>3. OnlyTorn(m_trash_hold, joints)
    BY <2>1, InLoopTorn
  <2>4. OnlyTorn(it, at)
    BY <1>2, <2>2, <2>3, OnlyTornConcat
  <2>5. it \in Seq(Bytes \ {NUL})
    BY <2>2, HoldGrows
  <2> HIDE DEF it, at
  <2>6. CString(it) = it
    BY <2>5, CStringOfText, ElementOfSeq
  <2> QED BY <1>5, <2>1, <2>4, <2>6
<1>12. CASE ReadZeros
  <2>1. InLoop /\ Deliver(m_trash_hold, joints, <<>>, ReadsTo)
    BY <1>12 DEF ReadZeros
  <2>2. CString(m_trash_hold) = m_trash_hold
    BY <1>2, CStringOfText, ElementOfSeq
  <2> QED BY <1>5, <2>1, <2>2, InLoopTorn
<1>13. CASE ReadPart
  <2>1. /\ InLoop /\ ~HasSep(C) /\ UNCHANGED itemVars
        /\ m_trash_hold' = m_trash_hold \o C
        /\ joints' = joints \cup Torn(m_trash_hold \o C, Len(m_trash_hold))
    BY <1>13 DEF ReadPart, Torn
  <2>2. OnlyTorn(m_trash_hold \o C, joints \cup Torn(m_trash_hold \o C, Len(m_trash_hold)))
    BY <1>2, <2>1, InLoopTorn, OnlyTornConcat
  <2>3. HoldTorn'
    BY <1>1, <2>1, <2>2, OnlyTornStays DEF HoldTorn
  <2> QED BY <1>3, <2>1, <2>3
<1> QED
  BY <1>6, <1>7, <1>8, <1>9, <1>10, <1>11, <1>12, <1>13 DEF Next, Reader

-----------------------------------------------------------------------------
(* Limits                                                                  *)

\* Every step keeps the buffer within the length limit and one read.
LEMMA NextTrashBounded ==
  ASSUME TypeOK, TrashBounded, [Next]_vars
  PROVE  TrashBounded'
<1> DEFINE C == CString(Chunk)
<1>1. /\ m_sep \in Seps /\ m_trash_hold \in Seq(Bytes \ {NUL}) /\ Len(m_trash_hold) \in Nat
      /\ MaxItem \in Nat /\ ReadMax \in Nat
  BY SizesAssumption DEF TypeOK
<1>2. C \in Seq(Bytes \ {NUL}) /\ Len(C) \in Nat /\ Len(C) <= ReadMax
  <2>1. Chunk \in Seq(Bytes) /\ Len(Chunk) \in Nat /\ Len(Chunk) <= ReadMax
    BY ChunkProperties, LenProperties
  <2>2. C \in Seq(Bytes \ {NUL}) /\ Len(C) <= Len(Chunk)
    BY <2>1, CStringProperties
  <2> QED BY <1>1, <2>1, <2>2, LenProperties
<1>3. CASE FetchFromTrash
  <2>1. Len(AfterSep(m_trash_hold)) <= Len(m_trash_hold)
    BY <1>1, <1>3, SplitAtSep, FirstSepProperties, SepNotEmpty DEF FetchFromTrash
  <2>2. m_trash_hold' = AfterSep(m_trash_hold) /\ AfterSep(m_trash_hold) \in Seq(Bytes \ {NUL})
    BY <1>1, <1>3, SplitAtSep DEF FetchFromTrash, Deliver
  <2> QED BY <1>1, <2>1, <2>2, LenProperties DEF TrashBounded
<1>4. CASE ReadLine
  <2>1. Len(AfterSep(C)) <= Len(C)
    BY <1>1, <1>2, <1>4, SplitAtSep, FirstSepProperties, SepNotEmpty DEF ReadLine
  <2>2. m_trash_hold' = AfterSep(C) /\ AfterSep(C) \in Seq(Bytes \ {NUL})
    BY <1>1, <1>2, <1>4, SplitAtSep DEF ReadLine, Deliver
  <2> QED BY <1>1, <1>2, <2>1, <2>2, LenProperties DEF TrashBounded
<1>5. CASE ReadPart
  <2>1. Len(m_trash_hold \o C) = Len(m_trash_hold) + Len(C)
    BY <1>2, HoldGrows
  <2>2. m_trash_hold' = m_trash_hold \o C /\ Len(m_trash_hold) <= MaxItem
    BY <1>1, <1>5 DEF ReadPart, TooLong
  <2> QED BY <1>1, <1>2, <2>1, <2>2 DEF TrashBounded
<1>6. CASE DropTooLong \/ ReadZeros
  <2>1. m_trash_hold' = <<>>
    BY <1>6 DEF DropTooLong, ReadZeros, Deliver
  <2> QED BY <1>1, <2>1 DEF TrashBounded
<1>7. CASE \/ \E w \in Writes : WriteLog(w)
           \/ Truncate \/ BeginRound \/ ReadNothing \/ EndRound \/ Reposition \/ UNCHANGED vars
  BY <1>7 DEF WriteLog, Truncate, BeginRound, ReadNothing, EndRound, Reposition, vars, readerVars, holdVars, TrashBounded
<1> QED BY <1>3, <1>4, <1>5, <1>6, <1>7 DEF Next, Reader

\* Whole multiples of the limit up to a position.
LEMMA Multiples ==
  ASSUME NEW n \in Nat, NEW m \in Nat \ {0}
  PROVE  /\ n \div m \in Nat
         /\ (n \div m) * m <= n
         /\ n < (n \div m) * m + m
         /\ \A q \in Nat : q * m <= n => q <= n \div m
  OBVIOUS

\* The quotient grows when and only when a multiple has been passed.
LEMMA CrossedQuotient ==
  ASSUME SizeLimit > 0, NEW o \in Nat, NEW p \in Nat
  PROVE  Crossed(o, p) <=> p \div SizeLimit > o \div SizeLimit
<1>1. SizeLimit \in Nat \ {0}
  BY SizesAssumption
<1> DEFINE L == SizeLimit
           q == p \div L
           r == o \div L
<1>2. /\ q \in Nat /\ q * L <= p /\ \A k \in Nat : k * L <= p => k <= q
      /\ r \in Nat /\ o < r * L + L /\ \A k \in Nat : k * L <= o => k <= r
      /\ r * L <= o
  BY <1>1, Multiples
<1> HIDE DEF q, r
<1>3. \A k \in Nat : k * L \in Nat /\ k <= k * L
  BY <1>1
<1>4. ASSUME q > r PROVE Crossed(o, p)
  <2>1. q * L >= (r + 1) * L /\ (r + 1) * L = r * L + L
    BY <1>1, <1>2, <1>4
  <2>2. q * L \in Nat /\ r * L \in Nat /\ q <= q * L
    BY <1>2, <1>3
  <2>3. q \in 1..p /\ o < q * L
    BY <1>1, <1>2, <1>4, <2>1, <2>2
  <2> QED BY <1>2, <2>3 DEF Crossed
<1>5. ASSUME Crossed(o, p) PROVE q > r
  <2>1. PICK k \in 1..p : o < k * L /\ k * L <= p
    BY <1>5 DEF Crossed
  <2>2. k * L \in Nat /\ r * L \in Nat
    BY <1>2, <1>3
  <2>3. ~(k <= r)
    <3> SUFFICES ASSUME k <= r PROVE FALSE
      OBVIOUS
    <3>1. r - k \in Nat /\ (r - k) * L \in Nat
      BY <1>1, <1>2
    <3>2. r * L = k * L + (r - k) * L
      BY <1>1, <1>2
    <3> QED BY <1>2, <2>1, <2>2, <3>1, <3>2
  <2> QED BY <1>2, <2>1, <2>3
<1> QED BY <1>4, <1>5 DEF q, r

\* Without a limit no multiple is passed.
LEMMA CrossedNone ==
  ASSUME SizeLimit = 0, NEW o \in Nat, NEW p \in Nat
  PROVE  ~Crossed(o, p)
<1>1. \A k \in 1..p : ~(o < k * SizeLimit)
  OBVIOUS
<1> QED BY <1>1 DEF Crossed

\* Every step keeps m_quotient and the size notices in step with the lines.
LEMMA NextSizeNotices ==
  ASSUME TypeOK, QuotientOfLast, SizeNoticesMatch, [Next]_vars
  PROVE  QuotientOfLast' /\ SizeNoticesMatch'
<1>1. m_quotient \in Nat /\ lineEnds \in Seq(Nat) /\ noticed \in SUBSET Nat /\ m_curPos \in Nat /\ ReadsTo \in Nat
  BY ChunkProperties, LenProperties DEF TypeOK, ReadsTo
<1>2. ASSUME NEW it, NEW at, NEW rest, NEW pos \in Nat, Deliver(it, at, rest, pos)
      PROVE  QuotientOfLast' /\ SizeNoticesMatch'
  <2> PICK n \in Nat : n = Len(lineEnds) + 1
    BY <1>1
  <2> DEFINE prev == PreviousEnd(n)
             Here == IF SizeExcess(pos) THEN {n} ELSE {}
  <2>1. /\ lineEnds' = Append(lineEnds, pos)
        /\ m_quotient' = IF SizeLimit > 0 THEN pos \div SizeLimit ELSE m_quotient
        /\ noticed' = noticed \cup (IF SizeExcess(pos) THEN {Len(lineEnds')} ELSE {})
    BY <1>2 DEF Deliver, CheckSize
  <2>2. Len(lineEnds) \in Nat /\ Len(lineEnds') = n /\ DOMAIN lineEnds = 1..(n - 1) /\ DOMAIN lineEnds' = 1..n
        /\ lineEnds'[n] = pos /\ \A i \in 1..(n - 1) : lineEnds'[i] = lineEnds[i] /\ lineEnds[i] \in Nat
    BY <1>1, <2>1
  <2>3. n \in Nat /\ n >= 1 /\ noticed' = noticed \cup Here
    BY <2>1, <2>2
  <2>4. QuotientOfLast'
    <3>1. PreviousEnd(Len(lineEnds) + 1)' = pos
      BY <2>2, <2>3 DEF PreviousEnd
    <3> QED BY <2>1, <3>1 DEF QuotientOfLast
  <2>5. prev \in Nat /\ PreviousEnd(n)' = prev
    BY <2>2, <2>3 DEF PreviousEnd
  <2>6. \A i \in 1..(n - 1) : PreviousEnd(i)' = PreviousEnd(i)
    BY <2>2, <2>3 DEF PreviousEnd
  <2>7. SizeExcess(pos) <=> Crossed(prev, pos)
    <3>1. SizeLimit > 0 => m_quotient = prev \div SizeLimit
      BY DEF QuotientOfLast
    <3> HIDE DEF prev
    <3>2. CASE SizeLimit > 0
      BY <1>2, <2>5, <3>1, <3>2, CrossedQuotient DEF SizeExcess
    <3>3. CASE SizeLimit = 0
      BY <1>2, <2>5, <3>3, CrossedNone DEF SizeExcess
    <3> QED BY <3>2, <3>3, SizesAssumption
  <2> DEFINE Passed(i) == Crossed(PreviousEnd(i), lineEnds[i])
             PassedNow(i) == Crossed(PreviousEnd(i)', lineEnds'[i])
  <2>8. PassedNow(n) <=> SizeExcess(pos)
    BY <2>2, <2>5, <2>7
  <2>9. \A i \in 1..(n - 1) : PassedNow(i) <=> Passed(i)
    BY <2>2, <2>6
  <2>10. noticed = {i \in 1..(n - 1) : Passed(i)}
    BY <2>2 DEF SizeNoticesMatch
  <2>11. SizeNoticesMatch' <=> noticed' = {i \in 1..n : PassedNow(i)}
    BY <2>2 DEF SizeNoticesMatch, Crossed
  <2> HIDE DEF Passed, PassedNow, prev
  <2>12. noticed' = {i \in 1..n : PassedNow(i)}
    <3>1. \A i \in 1..n : i = n \/ i \in 1..(n - 1)
      BY <2>3
    <3>2. n \in 1..n /\ \A i \in 1..(n - 1) : i \in 1..n /\ i # n
      BY <2>3
    <3> QED BY <2>3, <2>8, <2>9, <2>10, <3>1, <3>2
  <2> QED BY <2>4, <2>11, <2>12
<1>3. ASSUME UNCHANGED sizeVars PROVE QuotientOfLast' /\ SizeNoticesMatch'
  BY <1>3 DEF sizeVars, QuotientOfLast, SizeNoticesMatch, PreviousEnd, Crossed
<1>4. CASE FetchFromTrash
  BY <1>1, <1>2, <1>4 DEF FetchFromTrash
<1>5. CASE ReadLine
  BY <1>1, <1>2, <1>5 DEF ReadLine
<1>6. CASE ReadZeros
  BY <1>1, <1>2, <1>6 DEF ReadZeros
<1>7. CASE \/ \E w \in Writes : WriteLog(w)
           \/ Truncate \/ BeginRound \/ DropTooLong \/ ReadNothing \/ ReadPart
           \/ EndRound \/ Reposition \/ UNCHANGED vars
  <2>1. UNCHANGED sizeVars
    BY <1>7 DEF WriteLog, Truncate, BeginRound, DropTooLong, ReadNothing, ReadPart, EndRound, Reposition,
                readerVars, sizeVars, vars
  <2> QED BY <1>3, <2>1
<1> QED BY <1>4, <1>5, <1>6, <1>7 DEF Next, Reader

-----------------------------------------------------------------------------
(* Rounds                                                                  *)

\* Every step keeps what a round has read, and what is left when it is over.
LEMMA NextRound ==
  ASSUME TypeOK, OffsetInFile, Seeking, HoldTorn, RoundRead, CaughtUpWhenIdle, [Next]_vars,
         HoldTorn', OffsetInFile'
  PROVE  RoundRead' /\ CaughtUpWhenIdle'
<1>1. /\ m_sep \in Seps /\ Len(m_sep) \in Nat /\ Len(m_sep) >= 1
      /\ m_trash_hold \in Seq(Bytes \ {NUL}) /\ joints \in SUBSET Nat
      /\ m_curPos \in Nat /\ Len(file) \in Nat /\ m_sep' = m_sep
  BY SepNotEmpty, FileStep DEF TypeOK
<1>2. /\ Chunk = <<>> <=> Len(file) <= m_curPos
      /\ Chunk # <<>> => ReadsTo <= Len(file)
  BY ChunkProperties DEF ReadsTo
<1>3. CASE (\E w \in Writes : WriteLog(w)) \/ Truncate
  <2>1. event' /\ UNCHANGED <<pc, stalled>>
    BY <1>3 DEF WriteLog, Truncate, readerVars
  <2> QED BY <2>1 DEF RoundRead, CaughtUpWhenIdle
<1>4. CASE BeginRound
  BY <1>4 DEF BeginRound, RoundRead, CaughtUpWhenIdle
<1>5. ASSUME NEW it, NEW at, NEW rest, NEW pos, Deliver(it, at, rest, pos), pc \in {"fetch", "read"},
             Len(m_sep) = 1 /\ ~event => pos <= Len(file)
      PROVE  RoundRead' /\ CaughtUpWhenIdle'
  <2>1. m_curPos' = pos /\ pc' = "fetch" /\ UNCHANGED <<event, stalled, file>>
    BY <1>5 DEF Deliver, writerVars
  <2> QED BY <1>1, <1>5, <2>1 DEF RoundRead, CaughtUpWhenIdle
<1>6. CASE FetchFromTrash
  <2>1. pc = "fetch" /\ HasSep(m_trash_hold)
    BY <1>6 DEF FetchFromTrash
  <2>2. Len(m_sep) = 1 => gotLine
    <3> SUFFICES ASSUME Len(m_sep) = 1, ~gotLine PROVE FALSE
      BY DEF TypeOK
    <3>1. OnlyTorn(m_trash_hold, joints)
      BY DEF HoldTorn
    <3> QED BY <1>1, <2>1, <3>1, OnlyTornSingle
  <2>3. Len(m_sep) = 1 /\ ~event => m_curPos <= Len(file)
    BY <2>1, <2>2 DEF RoundRead
  <2> QED BY <1>5, <1>6, <2>1, <2>3 DEF FetchFromTrash
<1>7. CASE DropTooLong
  <2>1. /\ pc' = "end" /\ stalled' = TRUE /\ pc \in {"fetch", "read"}
        /\ UNCHANGED <<event, file, m_curPos, gotLine>>
    BY <1>7 DEF DropTooLong, InLoop, writerVars
  <2> QED BY <1>1, <2>1 DEF RoundRead, CaughtUpWhenIdle
<1>8. CASE ReadNothing
  <2>1. /\ pc' = "end" /\ Len(file) <= m_curPos /\ pc \in {"fetch", "read"}
        /\ UNCHANGED <<event, stalled, file, m_curPos, gotLine>>
    BY <1>2, <1>8 DEF ReadNothing, InLoop, writerVars
  <2> QED BY <1>1, <2>1 DEF RoundRead, CaughtUpWhenIdle
<1>9. CASE ReadLine
  <2>1. pc \in {"fetch", "read"} /\ Chunk # <<>>
    <3>1. CASE Chunk = <<>>
      <4>1. Chunk \in Seq(Bytes) /\ Len(Chunk) = 0
        BY <3>1, EmptySeq
      <4>2. CString(Chunk) \in Seq(Bytes \ {NUL}) /\ Len(CString(Chunk)) <= Len(Chunk)
        BY <4>1, CStringProperties
      <4>3. 1..Len(CString(Chunk)) = {}
        BY <4>1, <4>2, LenProperties
      <4> QED BY <1>9, <4>3 DEF ReadLine, HasSep
    <3> QED BY <1>9, <3>1 DEF ReadLine, InLoop
  <2> QED BY <1>2, <1>5, <1>9, <2>1 DEF ReadLine
<1>10. CASE ReadZeros
  <2>1. pc \in {"fetch", "read"} /\ Chunk # <<>>
    BY <1>10 DEF ReadZeros, InLoop
  <2> QED BY <1>2, <1>5, <1>10, <2>1 DEF ReadZeros
<1>11. CASE ReadPart
  <2>1. /\ pc' = "read" /\ m_curPos' = ReadsTo /\ Chunk # <<>> /\ pc \in {"fetch", "read"}
        /\ UNCHANGED <<event, stalled, file, gotLine>>
    BY <1>11 DEF ReadPart, InLoop, writerVars
  <2> QED BY <1>1, <1>2, <2>1 DEF RoundRead, CaughtUpWhenIdle
<1>12. CASE EndRound
  <2>1. /\ pc = "end"
        /\ UNCHANGED <<event, stalled, file, gotLine, m_trash_hold, joints, truncated, m_curPos, base, raced>>
        /\ pc' = IF ~gotLine /\ m_curPos > Len(file) THEN "seek" ELSE "idle"
    BY <1>12 DEF EndRound, holdVars, writerVars
  <2>2. RoundRead'
    BY <1>1, <2>1 DEF RoundRead
  <2>3. OnlyTorn(m_trash_hold, joints)'
    BY <2>1 DEF HoldTorn
  <2>4. SUFFICES ASSUME ~event, ~stalled, pc' = "idle", ~(m_curPos = Len(file) /\ (base = 0 \/ raced))
                 PROVE  truncated /\ gotLine /\ Len(m_sep) > 1
    BY <1>1, <2>1, <2>2, <2>3 DEF CaughtUpWhenIdle
  <2>5. Len(file) <= m_curPos /\ (gotLine \/ m_curPos <= Len(file))
    BY <1>1, <2>1, <2>4 DEF RoundRead
  <2>6. m_curPos # Len(file)
    <3> SUFFICES ASSUME m_curPos = Len(file) PROVE base = 0 \/ raced
      BY <2>4
    <3>1. ~raced /\ file = <<>> /\ m_curPos = base => base = 0
      BY EmptySeq
    <3> QED BY <3>1 DEF OffsetInFile, TypeOK
  <2>7. gotLine /\ m_curPos > Len(file)
    BY <1>1, <2>5, <2>6
  <2>8. truncated
    BY <1>1, <2>7 DEF OffsetInFile
  <2>9. Len(m_sep) # 1
    BY <1>1, <2>1, <2>4, <2>7 DEF RoundRead
  <2>10. Len(m_sep) > 1
    <3>1. Len(m_sep) \in Nat /\ Len(m_sep) >= 1
      BY <1>1
    <3>2. \A a \in Nat : a >= 1 /\ a # 1 => a > 1
      OBVIOUS
    <3> QED BY <2>9, <3>1, <3>2
  <2> QED BY <2>7, <2>8, <2>10
<1>13. CASE Reposition
  <2>1. /\ pc = "seek" /\ pc' = "idle" /\ m_curPos' = Len(file) /\ base' = Len(file)
        /\ UNCHANGED <<event, stalled, file, gotLine, m_trash_hold, joints, truncated, raced>>
    BY <1>13 DEF Reposition, holdVars, writerVars
  <2>2. RoundRead'
    BY <1>1, <2>1 DEF RoundRead
  <2>3. OnlyTorn(m_trash_hold, joints)'
    BY <2>1 DEF HoldTorn
  <2>4. base' = 0 \/ raced'
    <3>1. file' = <<>> => Len(file') = 0
      BY EmptySeq
    <3> QED BY <2>1, <3>1 DEF OffsetInFile, TypeOK
  <2> QED BY <1>1, <2>1, <2>2, <2>3, <2>4 DEF CaughtUpWhenIdle
<1>14. CASE UNCHANGED vars
  <2>1. UNCHANGED <<pc, event, stalled, file, gotLine, m_trash_hold, joints, truncated, m_curPos, base, raced>>
    BY <1>14 DEF vars
  <2>2. RoundRead'
    BY <1>1, <2>1 DEF RoundRead
  <2>3. pc = "idle" => OnlyTorn(m_trash_hold, joints)'
    BY <2>1 DEF HoldTorn
  <2> QED BY <1>1, <2>1, <2>2, <2>3 DEF CaughtUpWhenIdle
<1> QED
  BY <1>3, <1>4, <1>6, <1>7, <1>8, <1>9, <1>10, <1>11, <1>12, <1>13, <1>14 DEF Next, Reader

-----------------------------------------------------------------------------
(* The invariant                                                           *)

\* A reader that has not seen an event satisfies the invariant.
LEMMA InitReaderInv == Init => ReaderInv
<1> SUFFICES ASSUME Init PROVE ReaderInv
  OBVIOUS
<1>1. TypeOK
  BY EmptySeq DEF Init, TypeOK
<1>2. \A s \in {<<>>} : OnlyTorn(s, {})
  BY DEF OnlyTorn
<1>3. CString(<<>>) = <<>>
  <2> DEFINE e == <<>>
  <2>1. e \in Seq(Bytes) /\ Len(e) = 0
    BY EmptySeq
  <2> HIDE DEF e
  <2>2. \A i \in 1..Len(e) : e[i] # NUL
    BY <2>1
  <2>3. CString(e) = e
    BY <2>1, <2>2, CStringOfText
  <2> QED BY <2>3 DEF e
<1>4. HeadIsOneLine /\ HoldTorn
  BY <1>2, <1>3 DEF Init, HeadIsOneLine, HoldTorn
<1>5. NothingSkipped
  <2>1. SubSeq(<<>>, 1, 0) = <<>>
    BY SubSeqEmpty
  <2>2. <<>> \o <<>> = <<>>
    OBVIOUS
  <2> QED BY <2>1, <2>2 DEF Init, NothingSkipped
<1>6. OffsetInFile /\ Seeking /\ TextOnly /\ RoundRead
  BY DEF Init, OffsetInFile, Seeking, TextOnly, RoundRead
<1>7. TrashBounded /\ SizeNoticesMatch
  BY SizesAssumption DEF Init, TrashBounded, SizeNoticesMatch
<1>8. QuotientOfLast
  <2>1. Init => m_quotient = 0 /\ PreviousEnd(Len(lineEnds) + 1) = 0
    BY EmptySeq DEF Init, PreviousEnd
  <2>2. SizeLimit > 0 => 0 \div SizeLimit = 0
    BY SizesAssumption
  <2> QED BY <2>1, <2>2 DEF QuotientOfLast
<1>9. CaughtUpWhenIdle
  BY <1>2 DEF Init, CaughtUpWhenIdle
<1> QED BY <1>1, <1>4, <1>5, <1>6, <1>7, <1>9, <1>8 DEF ReaderInv

\* Every write, truncation and step of the reader keeps the invariant.
LEMMA NextReaderInv == ReaderInv /\ [Next]_vars => ReaderInv'
<1> SUFFICES ASSUME ReaderInv, [Next]_vars PROVE ReaderInv'
  OBVIOUS
<1> USE DEF ReaderInv
<1>1. TypeOK' /\ OffsetInFile' /\ Seeking' /\ TextOnly'
  BY NextTypes, NextOffset, NextText
<1>2. NothingSkipped'
  BY NextNothingSkipped
<1>3. HoldTorn' /\ HeadIsOneLine'
  BY NextLines
<1>4. RoundRead' /\ CaughtUpWhenIdle'
  BY <1>1, <1>3, NextRound
<1>5. TrashBounded' /\ QuotientOfLast' /\ SizeNoticesMatch'
  BY NextTrashBounded, NextSizeNotices
<1> QED BY <1>1, <1>2, <1>3, <1>4, <1>5

\* The reader keeps its inductive invariant for any log and any limits.
THEOREM ReaderInvariant == Spec => []ReaderInv
  BY InitReaderInv, NextReaderInv, PTL DEF Spec

\* Types, and a hold buffer without zero bytes (monitor.cpp:657-755).
THEOREM ReaderTypes == Spec => []TypeOK
<1>1. ReaderInv => TypeOK
  BY DEF ReaderInv
<1> QED BY <1>1, ReaderInvariant, PTL

\* fetchNextLog takes every byte of a text log once and in order from where it
\* began to read the present contents, whatever is written between two of its
\* reads and whether the file was truncated or not.
THEOREM EveryByteOnce == Spec => []NothingSkipped
<1>1. ReaderInv => NothingSkipped
  BY DEF ReaderInv
<1> QED BY <1>1, ReaderInvariant, PTL

\* An item is one line but for separators that came in two reads.
THEOREM OneLineItems == Spec => []HeadIsOneLine
<1>1. ReaderInv => HeadIsOneLine
  BY DEF ReaderInv
<1> QED BY <1>1, ReaderInvariant, PTL

\* m_trash_hold never outgrows the length limit and one read.
THEOREM HoldBounded == Spec => []TrashBounded
<1>1. ReaderInv => TrashBounded
  BY DEF ReaderInv
<1> QED BY <1>1, ReaderInvariant, PTL

\* When processLogFile returns, no event is pending and the length limit did
\* not cut the round short, the offset is the end of the file and no whole line
\* is held.  The contents have been read from their first byte, unless a write
\* raced with a truncation: then what lies in front of base is never read.
THEOREM CaughtUp == Spec => []CaughtUpWhenIdle
<1>1. ReaderInv => CaughtUpWhenIdle
  BY DEF ReaderInv
<1> QED BY <1>1, ReaderInvariant, PTL

\* sizeExcess reports a line when and only when the offset passed a multiple
\* of the limit since the line before, also over a truncation.
THEOREM SizeNotices == Spec => []SizeNoticesMatch
<1>1. ReaderInv => SizeNoticesMatch
  BY DEF ReaderInv
<1> QED BY <1>1, ReaderInvariant, PTL

=============================================================================
