-------------------------- MODULE ActionTextProofs --------------------------
(***************************************************************************)
(* Proofs about ActionText.  The text is described by the pieces that      *)
(* stand in it for the characters of the action and by the offsets at      *)
(* which they begin.                                                       *)
(***************************************************************************)
EXTENDS ActionText, FiniteSetTheorems, NaturalsInduction, WellFoundedInduction, TLAPS

-----------------------------------------------------------------------------
(* Pieces laid out one after the other                                     *)

Texts == Seq(Characters)

\* off says how many characters stand before each of the pieces.
Offsets(P, off) ==
  /\ off \in [1..(Len(P) + 1) -> Nat]
  /\ off[1] = 0
  /\ \A i \in 1..Len(P) : off[i + 1] = off[i] + Len(P[i])

LaidOut(s, P, off) ==
  /\ Offsets(P, off)
  /\ Len(s) = off[Len(P) + 1]
  /\ \A i \in 1..Len(P) : \A k \in 1..Len(P[i]) : s[off[i] + k] = P[i][k]

\* The least-number principle.
LEMMA LeastMember ==
  ASSUME NEW S \in SUBSET Nat, S # {}
  PROVE  First(S) \in S /\ \A j \in S : First(S) <= j
<1>1. \E x \in S : \A y \in S : ~(<<y, x>> \in OpToRel(<, Nat))
  BY NatLessThanWellFounded, WFMin
<1>2. ASSUME NEW x \in Nat, NEW y \in Nat, y < x
      PROVE  <<y, x>> \in OpToRel(<, Nat)
  BY <1>2, Zenon DEF OpToRel
<1>3. \E x \in S : \A y \in S : ~(y < x)
  BY <1>1, <1>2
<1>4. \E x \in S : \A y \in S : x <= y
  BY <1>3
<1> QED
  BY <1>4 DEF First

\* Later pieces begin no earlier.
LEMMA OffsetsGrow ==
  ASSUME NEW P \in Seq(Texts), NEW off, Offsets(P, off),
         NEW i \in 1..(Len(P) + 1), NEW j \in 1..(Len(P) + 1), i <= j
  PROVE  off[i] <= off[j]
<1> DEFINE S == {k \in 1..(Len(P) + 1) : i <= k /\ off[k] < off[i]}
<1>1. /\ Len(P) \in Nat
      /\ \A l \in 1..(Len(P) + 1) : off[l] \in Nat
  BY DEF Offsets
<1>2. SUFFICES ASSUME S # {} PROVE FALSE
  <2>1. j \notin S
    BY <1>2
  <2> QED
    BY <1>1, <2>1
<1>3. S \in SUBSET Nat
  OBVIOUS
<1>4. PICK k \in S : \A l \in S : k <= l
  BY <1>2, <1>3, LeastMember
<1>5. k \in 2..(Len(P) + 1) /\ k - 1 \in 1..Len(P) /\ i <= k - 1 /\ (k - 1) + 1 = k
  BY DEF Offsets
<1>6. off[k] = off[k - 1] + Len(P[k - 1])
  BY <1>5 DEF Offsets
<1>7. off[k - 1] \in Nat /\ off[i] \in Nat /\ off[k] \in Nat
  BY <1>1, <1>5
<1>8. P[k - 1] \in Seq(Characters)
  BY <1>5 DEF Texts
<1>9. Len(P[k - 1]) \in Nat
  BY <1>8
<1>10. k - 1 \notin S
  BY <1>4, <1>5
<1> QED
  BY <1>4, <1>5, <1>6, <1>7, <1>9, <1>10

\* Every character of the text belongs to a piece.
LEMMA Covered ==
  ASSUME NEW P \in Seq(Texts), NEW off, NEW s \in Texts, LaidOut(s, P, off),
         NEW p \in 1..Len(s)
  PROVE  \E m \in 1..Len(P) : \E k \in 1..Len(P[m]) : p = off[m] + k
<1> DEFINE S == {j \in 1..(Len(P) + 1) : p <= off[j]}
<1>1. Len(P) \in Nat /\ Len(s) \in Nat /\ Len(s) = off[Len(P) + 1]
  BY DEF LaidOut, Texts
<1>2. Len(P) + 1 \in S /\ S \in SUBSET Nat
  BY <1>1
<1>3. PICK j \in S : \A l \in S : j <= l
  BY <1>2, LeastMember
<1>4. off[1] = 0 /\ \A l \in 1..(Len(P) + 1) : off[l] \in Nat
  BY DEF LaidOut, Offsets
<1>5. j - 1 \in 1..Len(P) /\ (j - 1) + 1 = j
  BY <1>3, <1>4
<1>6. off[j] = off[j - 1] + Len(P[j - 1])
  BY <1>5 DEF LaidOut, Offsets
<1>7. off[j - 1] < p
  BY <1>3, <1>4, <1>5
<1>8. off[j - 1] \in Nat /\ Len(P[j - 1]) \in Nat
  BY <1>4, <1>5 DEF Texts
<1>9. p - off[j - 1] \in 1..Len(P[j - 1]) /\ p = off[j - 1] + (p - off[j - 1])
  BY <1>3, <1>6, <1>7, <1>8
<1> QED
  BY <1>5, <1>9

\* Pieces of one character each lie side by side.
LEMMA InARow ==
  ASSUME NEW P \in Seq(Texts), NEW off, Offsets(P, off),
         NEW i \in 1..Len(P), NEW e \in i..Len(P), \A x \in i..e : Len(P[x]) = 1
  PROVE  \A x \in i..(e + 1) : off[x] = off[i] + (x - i)
<1> DEFINE S == {x \in i..(e + 1) : off[x] # off[i] + (x - i)}
<1>1. SUFFICES ASSUME S # {} PROVE FALSE
  OBVIOUS
<1>2. S \in SUBSET Nat
  OBVIOUS
<1>3. PICK x \in S : \A y \in S : x <= y
  BY <1>1, <1>2, LeastMember
<1>4. off[i] \in Nat /\ x \in Nat /\ i \in Nat
  <2>1. Len(P) \in Nat /\ i \in 1..(Len(P) + 1) /\ x \in Nat
    OBVIOUS
  <2>2. off \in [1..(Len(P) + 1) -> Nat]
    BY DEF Offsets
  <2> QED
    BY <2>1, <2>2
<1>5. x # i
  BY <1>3, <1>4
<1>6. x - 1 \in i..e /\ x - 1 \in 1..Len(P) /\ (x - 1) + 1 = x
  BY <1>5
<1>7. off[x] = off[x - 1] + 1
  BY <1>6 DEF Offsets
<1>8. off[x - 1] = off[i] + ((x - 1) - i)
  BY <1>3, <1>6
<1> QED
  BY <1>3, <1>4, <1>6, <1>7, <1>8

\* Texts of the same length with the same characters are equal.
LEMMA SameText ==
  ASSUME NEW s \in Texts, NEW t \in Texts, Len(s) = Len(t),
         \A i \in 1..Len(s) : s[i] = t[i]
  PROVE  s = t
BY DEF Texts

\* What stands where in a concatenation.
LEMMA Concatenated ==
  ASSUME NEW a \in Seq(Characters), NEW b \in Seq(Characters)
  PROVE  /\ a \o b \in Seq(Characters) /\ Len(a \o b) = Len(a) + Len(b)
         /\ \A k \in 1..Len(a) : (a \o b)[k] = a[k]
         /\ \A k \in 1..Len(b) : (a \o b)[Len(a) + k] = b[k]
<1>1. a \o b \in Seq(Characters) /\ Len(a \o b) = Len(a) + Len(b)
  OBVIOUS
<1>2. \A k \in 1..(Len(a) + Len(b)) : (a \o b)[k] = IF k <= Len(a) THEN a[k] ELSE b[k - Len(a)]
  OBVIOUS
<1>3. \A k \in 1..Len(a) : (a \o b)[k] = a[k]
  BY <1>2
<1>4. ASSUME NEW k \in 1..Len(b) PROVE (a \o b)[Len(a) + k] = b[k]
  <2>1. Len(a) + k \in 1..(Len(a) + Len(b)) /\ ~(Len(a) + k <= Len(a)) /\ (Len(a) + k) - Len(a) = k
    OBVIOUS
  <2> QED
    BY <1>2, <2>1
<1> QED
  BY <1>1, <1>3, <1>4

\* The text up to the end of a piece is the text before it and the piece.
LEMMA NextPiece ==
  ASSUME NEW P \in Seq(Texts), NEW off, NEW s \in Texts, LaidOut(s, P, off),
         NEW i \in 1..Len(P)
  PROVE  /\ SubSeq(s, 1, off[i]) \in Texts
         /\ SubSeq(s, 1, off[i + 1]) = SubSeq(s, 1, off[i]) \o P[i]
<1>1. P[i] \in Texts /\ Len(P[i]) \in Nat /\ off[i] \in Nat /\ off[i + 1] \in Nat
  <2>1. P[i] \in Seq(Characters)
    BY DEF Texts
  <2>2. i \in 1..(Len(P) + 1) /\ i + 1 \in 1..(Len(P) + 1)
    OBVIOUS
  <2>3. Len(P[i]) \in Nat
    BY <2>1
  <2>4. off[i] \in Nat /\ off[i + 1] \in Nat
    BY <2>2 DEF LaidOut, Offsets
  <2> QED
    BY <2>1, <2>3, <2>4 DEF Texts
<1>2. off[i + 1] = off[i] + Len(P[i])
  BY DEF LaidOut, Offsets
<1>3. off[i + 1] <= Len(s)
  <2>1. Len(P) \in Nat /\ i + 1 \in 1..(Len(P) + 1) /\ Len(P) + 1 \in 1..(Len(P) + 1)
    OBVIOUS
  <2>2. off[i + 1] <= off[Len(P) + 1]
    BY <2>1, OffsetsGrow DEF LaidOut
  <2> QED
    BY <2>2 DEF LaidOut
<1>4. Len(s) \in Nat
  BY DEF Texts
<1> DEFINE a == SubSeq(s, 1, off[i + 1])
           b == SubSeq(s, 1, off[i])
<1>5. /\ a \in Texts /\ Len(a) = off[i + 1] /\ \A k \in 1..off[i + 1] : a[k] = s[k]
      /\ b \in Texts /\ Len(b) = off[i] /\ \A k \in 1..off[i] : b[k] = s[k]
  <2>1. off[i] <= off[i + 1] /\ s \in Seq(Characters)
    BY <1>1, <1>2 DEF Texts
  <2>2. a \in Seq(Characters) /\ Len(a) = off[i + 1] /\ \A k \in 1..off[i + 1] : a[k] = s[k]
    BY <1>1, <1>3, <1>4, <2>1
  <2>3. b \in Seq(Characters) /\ Len(b) = off[i] /\ \A k \in 1..off[i] : b[k] = s[k]
    BY <1>1, <1>3, <1>4, <2>1
  <2> QED
    BY <2>2, <2>3 DEF Texts
<1> HIDE DEF a, b
<1>6. /\ b \o P[i] \in Texts /\ Len(b \o P[i]) = off[i] + Len(P[i])
      /\ \A k \in 1..off[i] : (b \o P[i])[k] = b[k]
      /\ \A k \in 1..Len(P[i]) : (b \o P[i])[off[i] + k] = P[i][k]
  <2>1. b \in Seq(Characters) /\ P[i] \in Seq(Characters)
    BY <1>1, <1>5 DEF Texts
  <2>2. /\ b \o P[i] \in Seq(Characters) /\ Len(b \o P[i]) = Len(b) + Len(P[i])
        /\ \A k \in 1..Len(b) : (b \o P[i])[k] = b[k]
        /\ \A k \in 1..Len(P[i]) : (b \o P[i])[Len(b) + k] = P[i][k]
    BY <2>1, Concatenated
  <2> QED
    BY <1>5, <2>2 DEF Texts
<1>7. ASSUME NEW k \in 1..off[i + 1] PROVE a[k] = (b \o P[i])[k]
  <2>1. CASE k <= off[i]
    BY <1>1, <1>5, <1>6, <2>1
  <2>2. CASE k > off[i]
    <3>1. k - off[i] \in 1..Len(P[i]) /\ off[i] + (k - off[i]) = k
      BY <1>1, <1>2, <2>2
    <3>2. s[off[i] + (k - off[i])] = P[i][k - off[i]]
      BY <3>1 DEF LaidOut
    <3> QED
      BY <1>5, <1>6, <3>1, <3>2
  <2>3. k <= off[i] \/ k > off[i]
    BY <1>1
  <2> QED
    BY <2>1, <2>2, <2>3
<1>8. a = b \o P[i]
  BY <1>2, <1>5, <1>6, <1>7, SameText
<1> QED
  BY <1>5, <1>8 DEF a, b

\* FlattenSeq puts the pieces together as they are laid out.
LEMMA FlattenPieces ==
  ASSUME NEW P \in Seq(Texts), NEW off, NEW s \in Texts, LaidOut(s, P, off)
  PROVE  s = FlattenSeq(P)
<1>1. CASE Len(P) = 0
  <2>1. Len(s) = 0
    BY <1>1 DEF LaidOut, Offsets
  <2>2. P = <<>> /\ s = <<>>
    BY <1>1, <2>1 DEF Texts
  <2> QED
    BY <1>1, <2>2 DEF FlattenSeq
<1>2. CASE Len(P) # 0
  <2> DEFINE n == Len(P)
             D(f) == f = [i \in 1..n |-> IF i = 1 THEN P[i] ELSE f[i - 1] \o P[i]]
             g == [i \in 1..n |-> SubSeq(s, 1, off[i + 1])]
             flatten == CHOOSE f : D(f)
  <2>1. n \in Nat \ {0}
    BY <1>2
  <2>2. FlattenSeq(P) = flatten[n]
    BY <1>2 DEF FlattenSeq
  <2>3. ASSUME NEW i \in 1..n PROVE g[i] = IF i = 1 THEN P[i] ELSE g[i - 1] \o P[i]
    <3>1. g[i] = SubSeq(s, 1, off[i]) \o P[i]
      BY NextPiece
    <3>2. CASE i = 1
      <4>1. off[1] = 0 /\ P[1] \in Texts /\ s \in Seq(Characters)
        BY <3>2 DEF LaidOut, Offsets, Texts
      <4>2. SubSeq(s, 1, 0) = <<>>
        BY <4>1
      <4>3. <<>> \o P[1] = P[1]
        BY <4>1 DEF Texts
      <4> QED
        BY <3>1, <3>2, <4>1, <4>2, <4>3
    <3>3. CASE i # 1
      <4>1. i - 1 \in 1..n /\ (i - 1) + 1 = i
        BY <3>3
      <4>2. g[i - 1] = SubSeq(s, 1, off[i])
        BY <4>1
      <4> QED
        BY <3>1, <3>3, <4>2
    <3> QED
      BY <3>2, <3>3
  <2>4. D(g)
    BY <2>3
  <2>5. D(flatten)
    BY <2>4
  <2>6. g[n] = s
    <3>1. off[n + 1] = Len(s) /\ s \in Seq(Characters) /\ n \in 1..n
      BY <2>1 DEF LaidOut, Texts
    <3>2. SubSeq(s, 1, Len(s)) = s
      BY <3>1
    <3> QED
      BY <3>1, <3>2
  <2> HIDE DEF flatten
  <2>7. ASSUME NEW i \in 1..n PROVE flatten[i] = IF i = 1 THEN P[i] ELSE flatten[i - 1] \o P[i]
    BY <2>5
  <2> HIDE DEF g, D
  <2>8. flatten[n] = g[n]
    <3> DEFINE S == {i \in 1..n : flatten[i] # g[i]}
    <3>1. SUFFICES ASSUME S # {} PROVE FALSE
      BY <2>1
    <3>2. PICK i \in S : \A j \in S : i <= j
      <4>1. S \in SUBSET Nat
        OBVIOUS
      <4> QED
        BY <3>1, <4>1, LeastMember
    <3>3. i # 1
      BY <2>3, <2>7, <3>2
    <3>4. i - 1 \in 1..n /\ i - 1 < i
      BY <3>3
    <3>5. flatten[i - 1] = g[i - 1]
      BY <3>2, <3>4
    <3> QED
      BY <2>3, <2>7, <3>2, <3>3, <3>5
  <2> QED
    BY <2>2, <2>6, <2>8
<1> QED
  BY <1>1, <1>2

\* u is t with the part w after the c-th character replaced by r.
ReplacedIn(u, c, r, w, t) ==
  /\ u \in Texts
  /\ Len(u) = c + Len(r) + (Len(t) - (c + Len(w)))
  /\ \A k \in 1..c : u[k] = t[k]
  /\ \A k \in 1..Len(r) : u[c + k] = r[k]
  /\ \A k \in 1..(Len(t) - (c + Len(w))) : u[c + Len(r) + k] = t[c + Len(w) + k]

\* What stands where after a part of a text has been replaced.
LEMMA Replaced ==
  ASSUME NEW t \in Texts, NEW r \in Texts, NEW w \in Texts,
         NEW c \in Nat, c + Len(w) <= Len(t)
  PROVE  ReplacedIn(ReplaceSubSeqAt(c + 1, r, w, t), c, r, w, t)
<1> DEFINE u == ReplaceSubSeqAt(c + 1, r, w, t)
           a == SubSeq(t, 1, c)
           b == SubSeq(t, c + Len(w) + 1, Len(t))
           d == c + Len(w)
<1>1. /\ t \in Seq(Characters) /\ r \in Seq(Characters) /\ w \in Seq(Characters)
      /\ Len(t) \in Nat /\ Len(r) \in Nat /\ Len(w) \in Nat /\ d \in Nat /\ c <= Len(t)
  BY DEF Texts
<1>2. a \in Seq(Characters) /\ Len(a) = c /\ \A k \in 1..c : a[k] = t[k]
  BY <1>1
<1>3. b \in Seq(Characters) /\ Len(b) = Len(t) - d /\ \A k \in 1..(Len(t) - d) : b[k] = t[d + k]
  <2>1. b \in Seq(Characters) /\ Len(b) = Len(t) - d
    BY <1>1
  <2>2. ASSUME NEW k \in 1..(Len(t) - d) PROVE b[k] = t[d + k]
    <3>1. b[k] = t[(d + 1) + k - 1]
      BY <1>1
    <3>2. (d + 1) + k - 1 = d + k
      BY <1>1
    <3> QED
      BY <3>1, <3>2
  <2> QED
    BY <2>1, <2>2
<1>4. u = a \o r \o b
  <2>1. (c + 1) - 1 = c /\ (c + 1) + Len(w) = c + Len(w) + 1
    BY <1>1
  <2> QED
    BY <2>1 DEF ReplaceSubSeqAt
<1> HIDE DEF a, b, d, u
<1>5. /\ a \o r \in Seq(Characters) /\ Len(a \o r) = c + Len(r)
      /\ \A k \in 1..c : (a \o r)[k] = a[k]
      /\ \A k \in 1..Len(r) : (a \o r)[c + k] = r[k]
  BY <1>1, <1>2, Concatenated
<1>6. /\ u \in Seq(Characters) /\ Len(u) = (c + Len(r)) + Len(b)
      /\ \A k \in 1..(c + Len(r)) : u[k] = (a \o r)[k]
      /\ \A k \in 1..Len(b) : u[(c + Len(r)) + k] = b[k]
  <2>1. /\ (a \o r) \o b \in Seq(Characters) /\ Len((a \o r) \o b) = Len(a \o r) + Len(b)
        /\ \A k \in 1..Len(a \o r) : ((a \o r) \o b)[k] = (a \o r)[k]
        /\ \A k \in 1..Len(b) : ((a \o r) \o b)[Len(a \o r) + k] = b[k]
    BY <1>3, <1>5, Concatenated
  <2> QED
    BY <1>4, <1>5, <2>1
<1>7. \A k \in 1..c : u[k] = t[k]
  BY <1>1, <1>2, <1>5, <1>6
<1>8. ASSUME NEW k \in 1..Len(r) PROVE u[c + k] = r[k]
  <2>1. c + k \in 1..(c + Len(r))
    BY <1>1
  <2> QED
    BY <1>5, <1>6, <2>1
<1>9. \A k \in 1..(Len(t) - d) : u[c + Len(r) + k] = t[d + k]
  BY <1>3, <1>6
<1> QED
  <2>1. ReplacedIn(u, c, r, w, t)
    BY <1>3, <1>6, <1>7, <1>8, <1>9 DEF Texts, d, ReplacedIn
  <2> QED
    BY <2>1 DEF u

\* Q has other pieces than P from i to e, where all but the h-th are empty.
Differ(P, Q, i, e, h) ==
  /\ Len(Q) = Len(P)
  /\ i \in 1..Len(P) /\ e \in i..Len(P) /\ h \in i..e
  /\ \A x \in 1..Len(P) : x \notin i..e => Q[x] = P[x]
  /\ \A x \in i..e : x # h => Q[x] = <<>>

\* Neighbouring pieces are replaced in the text when one of the new pieces is
\* what replaces them and the others are empty.
LEMMA PiecesReplaced ==
  ASSUME NEW P \in Seq(Texts), NEW Q \in Seq(Texts),
         NEW off, NEW s \in Texts, LaidOut(s, P, off),
         NEW i, NEW e, NEW h, Differ(P, Q, i, e, h),
         NEW w \in Texts, off[i] + Len(w) = off[e + 1]
  PROVE  LET t == ReplaceSubSeqAt(off[i] + 1, Q[h], w, s)
         IN t \in Texts /\ \E off2 : LaidOut(t, Q, off2)
<1> DEFINE n == Len(P)
           r == Len(Q[h])
           W == Len(w)
           t == ReplaceSubSeqAt(off[i] + 1, Q[h], w, s)
           off2 == [j \in 1..(n + 1) |->
                      IF j <= i THEN off[j]
                      ELSE IF j <= h THEN off[i]
                      ELSE IF j <= e + 1 THEN off[i] + r
                      ELSE (off[j] + r) - W]
<1>1. /\ n \in Nat /\ i \in 1..(n + 1) /\ e + 1 \in 1..(n + 1) /\ n + 1 \in 1..(n + 1) /\ h \in 1..n
      /\ i \in Nat /\ e \in Nat /\ h \in Nat /\ i <= h /\ h <= e /\ e <= n /\ 1 <= i
      /\ i \in 1..n /\ Len(Q) = n
  BY DEF Differ
<1>2. /\ off[1] = 0 /\ \A j \in 1..(n + 1) : off[j] \in Nat
      /\ \A j \in 1..n : off[j + 1] = off[j] + Len(P[j])
      /\ Len(s) = off[n + 1]
  BY DEF LaidOut, Offsets
<1>3. Q[h] \in Texts /\ r \in Nat /\ W \in Nat
  BY <1>1 DEF Texts
<1>4. \A x \in 1..n : P[x] \in Texts /\ Len(P[x]) \in Nat /\ Q[x] \in Texts /\ Len(Q[x]) \in Nat
  <2>1. \A c \in Texts : Len(c) \in Nat
    BY DEF Texts
  <2>2. \A x \in 1..n : P[x] \in Texts /\ Q[x] \in Texts
    BY <1>1
  <2> QED
    BY <2>1, <2>2
<1>5. off[e + 1] <= Len(s)
  <2>1. Offsets(P, off) /\ e + 1 <= n + 1
    BY <1>1 DEF LaidOut
  <2>2. off[e + 1] <= off[n + 1]
    BY <1>1, <2>1, OffsetsGrow
  <2> QED
    BY <1>2, <2>2
<1>6. \A j \in 1..(n + 1) : j > e + 1 => off[e + 1] <= off[j]
  BY <1>1, OffsetsGrow DEF LaidOut
<1>7. /\ t \in Texts
      /\ Len(t) = (Len(s) + r) - W
      /\ \A k \in 1..off[i] : t[k] = s[k]
      /\ \A k \in 1..r : t[off[i] + k] = Q[h][k]
      /\ \A k \in Nat : off[e + 1] < k /\ k <= Len(s) => t[(k + r) - W] = s[k]
      /\ off[e + 1] = off[i] + W
  <2>1. off[i] \in Nat /\ off[i] + Len(w) <= Len(s)
    BY <1>1, <1>2, <1>5
  <2>2. /\ t \in Texts
        /\ Len(t) = off[i] + Len(Q[h]) + (Len(s) - (off[i] + Len(w)))
        /\ \A k \in 1..off[i] : t[k] = s[k]
        /\ \A k \in 1..Len(Q[h]) : t[off[i] + k] = Q[h][k]
        /\ \A k \in 1..(Len(s) - (off[i] + Len(w))) :
             t[off[i] + Len(Q[h]) + k] = s[off[i] + Len(w) + k]
    <3>1. ReplacedIn(t, off[i], Q[h], w, s)
      BY <1>3, <2>1, Replaced
    <3> HIDE DEF t
    <3> QED
      BY <3>1 DEF ReplacedIn
  <2>3. Len(t) = (Len(s) + r) - W
    <3>1. Len(s) \in Nat /\ Len(t) = off[i] + r + (Len(s) - (off[i] + W))
      BY <2>2 DEF Texts
    <3>2. \A a, b, c, d \in Nat : b + c + (a - (b + d)) = (a + c) - d
      OBVIOUS
    <3> QED
      <4>1. off[i] \in Nat
        BY <1>1, <1>2
      <4> HIDE DEF t, r, W
      <4> QED
        BY <1>3, <3>1, <3>2, <4>1
  <2>4. ASSUME NEW k \in Nat, off[e + 1] < k, k <= Len(s)
        PROVE  t[(k + r) - W] = s[k]
    <3>1. Len(s) \in Nat
      BY DEF Texts
    <3>2. /\ k - off[e + 1] \in 1..(Len(s) - (off[i] + Len(w)))
          /\ off[i] + Len(w) + (k - off[e + 1]) = k
          /\ off[i] + Len(Q[h]) + (k - off[e + 1]) = (k + r) - W
      <4>1. off[e + 1] = off[i] + W /\ off[i] \in Nat
        BY <1>1, <1>2
      <4> DEFINE a == off[i]
                 l == Len(s)
      <4>2. a \in Nat /\ W \in Nat /\ r \in Nat /\ l \in Nat /\ a + W < k /\ k <= l
        BY <1>3, <2>4, <3>1, <4>1
      <4> HIDE DEF a, l, W, r
      <4>3. /\ k - (a + W) \in 1..(l - (a + W)) /\ a + W + (k - (a + W)) = k
            /\ a + r + (k - (a + W)) = (k + r) - W
        BY <4>2
      <4> QED
        BY <4>1, <4>3 DEF a, l, W, r
    <3> QED
      BY <2>2, <3>2
  <2> QED
    BY <2>2, <2>3, <2>4
<1>8. off[e + 1] = off[i] + W
  BY <1>7
<1> HIDE DEF t, r, n, W
<1>9. off2 \in [1..(n + 1) -> Nat]
  <2> SUFFICES ASSUME NEW j \in 1..(n + 1)
               PROVE  (IF j <= i THEN off[j] ELSE IF j <= h THEN off[i]
                       ELSE IF j <= e + 1 THEN off[i] + r
                       ELSE (off[j] + r) - W) \in Nat
    OBVIOUS
  <2>1. j \in Nat /\ off[j] \in Nat /\ off[i] \in Nat /\ off[e + 1] \in Nat
    BY <1>1, <1>2
  <2>2. j > e + 1 => off[e + 1] <= off[j]
    BY <1>6
  <2> QED
    <3>1. CASE j <= e + 1
      BY <1>3, <2>1, <3>1
    <3>2. CASE j > e + 1
      <4>1. (off[j] + r) - W \in Nat
        <5>1. \A a, b, c, d \in Nat : a + b <= c => (c + d) - b \in Nat
          OBVIOUS
        <5> QED
          BY <1>3, <1>8, <2>1, <2>2, <3>2, <5>1
      <4> QED
        BY <1>1, <2>1, <3>2, <4>1
    <3> QED
      BY <1>1, <2>1, <3>1, <3>2
<1>10. ASSUME NEW j \in 1..(n + 1)
      PROVE  /\ j <= i => off2[j] = off[j]
             /\ i <= j /\ j <= h => off2[j] = off[i]
             /\ h < j /\ j <= e + 1 => off2[j] = off[i] + r
             /\ e + 1 <= j => off2[j] = (off[j] + r) - W
  <2>1. off2[j] = IF j <= i THEN off[j] ELSE IF j <= h THEN off[i]
                  ELSE IF j <= e + 1 THEN off[i] + r
                  ELSE (off[j] + r) - W
    OBVIOUS
  <2>2. j \in Nat /\ off[j] \in Nat /\ off[i] \in Nat /\ off[e + 1] \in Nat
    BY <1>1, <1>2
  <2> HIDE DEF off2
  <2>3. j = i => off[j] = off[i]
    OBVIOUS
  <2>4. j = e + 1 => off[j] = off[e + 1]
    OBVIOUS
  <2> QED
    <3>1. j <= i => off2[j] = off[j]
      BY <2>1
    <3>2. i <= j /\ j <= h => off2[j] = off[i]
      BY <1>1, <2>1, <2>2, <2>3
    <3>3. h < j /\ j <= e + 1 => off2[j] = off[i] + r
      BY <1>1, <2>1, <2>2
    <3>4. e + 1 <= j => off2[j] = (off[j] + r) - W
      <4>1. CASE j = e + 1
        <5>1. off[i] + r = (off[j] + r) - W
          <6>1. off[j] = off[i] + W
            BY <1>8, <2>4, <4>1
          <6>2. \A a, b, c \in Nat : a + c = ((a + b) + c) - b
            OBVIOUS
          <6> QED
            BY <1>3, <2>2, <6>1, <6>2
        <5>2. ~(j <= i) /\ ~(j <= h) /\ j <= e + 1
          BY <1>1, <4>1
        <5> QED
          BY <2>1, <5>1, <5>2
      <4>2. CASE e + 1 < j
        BY <1>1, <2>1, <2>2, <4>2
      <4> QED
        BY <1>1, <2>2, <4>1, <4>2
    <3> QED
      BY <3>1, <3>2, <3>3, <3>4
<1> HIDE DEF off2
<1>11. off2[1] = 0
  BY <1>1, <1>2, <1>10
<1>12. ASSUME NEW j \in 1..n PROVE off2[j + 1] = off2[j] + Len(Q[j])
  <2>1. /\ j + 1 \in 1..(n + 1) /\ j \in 1..(n + 1) /\ j \in Nat
        /\ off[j] \in Nat /\ off[j + 1] \in Nat /\ off[i] \in Nat /\ off[e + 1] \in Nat
    BY <1>1, <1>2
  <2>2. CASE j < i
    <3>1. Q[j] = P[j] /\ j <= i /\ j + 1 <= i
      <4>1. j <= i /\ j + 1 <= i /\ j \in 1..n /\ j \notin i..e
        BY <1>1, <2>1, <2>2
      <4> QED
        BY <4>1 DEF n, Differ
    <3> QED
      BY <1>2, <1>10, <2>1, <3>1
  <2>3. CASE i <= j /\ j < h
    <3>1. Len(Q[j]) = 0
      BY <1>1, <2>1, <2>3 DEF Differ
    <3>2. off2[j] = off[i] /\ off2[j + 1] = off[i]
      BY <1>1, <1>10, <2>1, <2>3
    <3> QED
      BY <2>1, <3>1, <3>2
  <2>4. CASE j = h
    <3>1. off2[j] = off[i] /\ off2[j + 1] = off[i] + r
      BY <1>1, <1>10, <2>1, <2>4
    <3> QED
      BY <2>4, <3>1 DEF r
  <2>5. CASE h < j /\ j <= e
    <3>1. Len(Q[j]) = 0
      BY <1>1, <2>1, <2>5 DEF Differ
    <3>2. off2[j] = off[i] + r /\ off2[j + 1] = off[i] + r
      BY <1>1, <1>10, <2>1, <2>5
    <3> QED
      BY <1>3, <2>1, <3>1, <3>2
  <2>6. CASE e < j
    <3>1. Q[j] = P[j] /\ Len(P[j]) \in Nat
      BY <1>1, <1>4, <2>1, <2>6 DEF n, Differ
    <3>2. off[j + 1] = off[j] + Len(P[j])
      BY <1>2
    <3>3. /\ off2[j + 1] = (off[j + 1] + r) - W
          /\ off2[j] = (off[j] + r) - W
      BY <1>1, <1>10, <2>1, <2>6
    <3> DEFINE a == off[j]
               b == Len(P[j])
    <3>4. a \in Nat /\ b \in Nat /\ r \in Nat /\ W \in Nat
      BY <1>3, <2>1, <3>1
    <3> HIDE DEF a, b
    <3>5. ((a + b) + r) - W = ((a + r) - W) + b
      BY <3>4
    <3> QED
      BY <3>1, <3>2, <3>3, <3>5 DEF a, b
  <2> QED
    BY <1>1, <2>1, <2>2, <2>3, <2>4, <2>5, <2>6
<1>13. Len(t) = off2[n + 1]
  <2>1. off2[n + 1] = (off[n + 1] + r) - W
    BY <1>1, <1>10
  <2> QED
    BY <1>2, <1>7, <2>1
<1>14. ASSUME NEW x \in 1..n, NEW k \in 1..Len(Q[x]) PROVE t[off2[x] + k] = Q[x][k]
  <2>1. /\ x \in 1..(n + 1) /\ x + 1 \in 1..(n + 1) /\ x \in Nat /\ k \in Nat
        /\ off[x] \in Nat /\ off[x + 1] \in Nat /\ off[i] \in Nat /\ off[e + 1] \in Nat
        /\ off[x + 1] = off[x] + Len(P[x])
    BY <1>1, <1>2
  <2>2. ASSUME Q[x] = P[x]
        PROVE  s[off[x] + k] = Q[x][k] /\ 1 <= k /\ off[x] + k <= off[x + 1]
    <3>1. k \in 1..Len(P[x]) /\ Len(P[x]) \in Nat
      BY <1>4, <2>2
    <3>2. s[off[x] + k] = P[x][k]
      BY <3>1 DEF LaidOut, n
    <3> QED
      BY <2>1, <2>2, <3>1, <3>2
  <2>3. ASSUME NEW y \in 1..(n + 1), NEW z \in 1..(n + 1), y <= z
        PROVE  off[y] <= off[z]
    BY <2>3, OffsetsGrow DEF LaidOut, n
  <2>4. CASE x < i
    <3>1. Q[x] = P[x] /\ x + 1 <= i /\ off2[x] = off[x]
      BY <1>1, <1>10, <2>1, <2>4 DEF n, Differ
    <3>2. off[x + 1] <= off[i]
      BY <1>1, <2>1, <2>3, <3>1
    <3>3. off[x] + k \in 1..off[i]
      <4>1. 1 <= k /\ off[x] + k <= off[x + 1]
        BY <2>2, <3>1
      <4>2. off[x] \in Nat /\ off[x + 1] \in Nat /\ off[i] \in Nat /\ k \in Nat
        BY <2>1
      <4> QED
        BY <3>2, <4>1, <4>2
    <3> QED
      BY <1>7, <2>2, <3>1, <3>3
  <2>5. CASE x = h
    <3>1. off2[x] = off[i]
      BY <1>1, <1>10, <2>1, <2>5
    <3> QED
      BY <1>7, <2>5, <3>1 DEF r
  <2>6. CASE x \in i..e /\ x # h
    <3>1. Len(Q[x]) = 0
      BY <2>6 DEF Differ
    <3> QED
      BY <3>1
  <2>7. CASE x > e
    <3>1. Q[x] = P[x] /\ e + 1 <= x
      <4>1. e + 1 <= x /\ x \in 1..n /\ x \notin i..e
        BY <1>1, <2>1, <2>7
      <4> QED
        BY <4>1 DEF n, Differ
    <3>2. off[e + 1] <= off[x] /\ off[x + 1] <= Len(s)
      <4>1. off[e + 1] <= off[x] /\ off[x + 1] <= off[n + 1]
        <5>1. e + 1 \in 1..(n + 1) /\ n + 1 \in 1..(n + 1) /\ x + 1 <= n + 1
          BY <1>1, <2>1
        <5> QED
          BY <2>1, <2>3, <3>1, <5>1
      <4> QED
        BY <1>2, <4>1
    <3>3. off2[x] = (off[x] + r) - W
      BY <1>10, <2>1, <3>1
    <3>4. Len(s) \in Nat
      BY DEF Texts
    <3>5. off[x] + k \in Nat /\ off[e + 1] < off[x] + k /\ off[x] + k <= Len(s)
      <4>1. 1 <= k /\ off[x] + k <= off[x + 1]
        BY <2>2, <3>1
      <4>2. off[x] \in Nat /\ off[x + 1] \in Nat /\ off[e + 1] \in Nat /\ k \in Nat
        BY <2>1
      <4>3. \A a, b, c, y, l \in Nat : a <= b /\ c <= l /\ 1 <= y /\ b + y <= c =>
              b + y \in Nat /\ a < b + y /\ b + y <= l
        OBVIOUS
      <4> QED
        BY <3>2, <3>4, <4>1, <4>2, <4>3
    <3>6. off2[x] + k = ((off[x] + k) + r) - W
      <4>1. \A a, b, c, d \in Nat : ((a + b) - c) + d = ((a + d) + b) - c
        OBVIOUS
      <4> QED
        BY <1>3, <2>1, <3>3, <4>1
    <3> QED
      BY <1>7, <2>2, <3>1, <3>5, <3>6
  <2> QED
    BY <1>1, <2>1, <2>4, <2>5, <2>6, <2>7
<1>15. LaidOut(t, Q, off2)
  <2>1. Len(Q) = n
    BY <1>1
  <2>2. Offsets(Q, off2)
    BY <1>9, <1>11, <1>12, <2>1 DEF Offsets
  <2> QED
    BY <1>13, <1>14, <2>1, <2>2 DEF LaidOut
<1> QED
  BY <1>7, <1>15 DEF t

-----------------------------------------------------------------------------
(* Groups                                                                  *)

GroupChars == Digits \cup {"@"}

\* No group goes past a dollar or a backslash.
LEMMA GroupCharacters == "$" \notin GroupChars /\ "\\" \notin GroupChars /\ "$" # "\\" /\ " " \notin {"$", "\\"}
BY DEF GroupChars, Digits

\* A group ends where GroupEnd says.
LEMMA GroupEnds ==
  ASSUME NEW s \in Texts, NEW i \in 1..Len(s)
  PROVE  /\ GroupEnd(s, i) \in i..Len(s)
         /\ \A k \in (i + 1)..GroupEnd(s, i) : s[k] \in GroupChars
         /\ GroupEnd(s, i) = Len(s) \/ s[GroupEnd(s, i) + 1] \notin GroupChars
<1> DEFINE S == {j \in i..Len(s) : j = Len(s) \/ s[j + 1] \notin GroupChars}
<1>1. Len(s) \in Nat /\ i \in Nat
  BY DEF Texts
<1>2. Len(s) \in S /\ S \in SUBSET Nat
  BY <1>1
<1>3. PICK j \in S : \A l \in S : j <= l
  BY <1>2, LeastMember
<1>4. ASSUME NEW k \in (i + 1)..j PROVE s[k] \in GroupChars
  <2>1. k - 1 \in i..Len(s) /\ k - 1 < j /\ (k - 1) + 1 = k
    BY <1>1, <1>3
  <2>2. ASSUME k - 1 \in S PROVE FALSE
    <3> HIDE DEF S
    <3>1. j <= k - 1
      BY <1>3, <2>2
    <3> QED
      BY <1>1, <1>2, <1>3, <2>1, <3>1
  <2> QED
    BY <2>1, <2>2
<1>5. \E l \in i..Len(s) :
        /\ \A k \in (i + 1)..l : s[k] \in GroupChars
        /\ l = Len(s) \/ s[l + 1] \notin GroupChars
  BY <1>3, <1>4
<1> DEFINE End(l) == /\ \A k \in (i + 1)..l : s[k] \in Digits \cup {"@"}
                     /\ l = Len(s) \/ s[l + 1] \notin Digits \cup {"@"}
<1>6. \E l \in i..Len(s) : End(l)
  BY <1>5 DEF GroupChars
<1>7. GroupEnd(s, i) = CHOOSE l \in i..Len(s) : End(l)
  BY DEF GroupEnd
<1> HIDE DEF End
<1>8. GroupEnd(s, i) \in i..Len(s) /\ End(GroupEnd(s, i))
  BY <1>6, <1>7
<1> QED
  BY <1>8 DEF End, GroupChars

\* It ends nowhere else.
LEMMA GroupEndsOnce ==
  ASSUME NEW s \in Texts, NEW i \in 1..Len(s), NEW j \in i..Len(s),
         \A k \in (i + 1)..j : s[k] \in GroupChars,
         j = Len(s) \/ s[j + 1] \notin GroupChars
  PROVE  GroupEnd(s, i) = j
<1> DEFINE e == GroupEnd(s, i)
<1>1. /\ e \in i..Len(s)
      /\ \A k \in (i + 1)..e : s[k] \in GroupChars
      /\ e = Len(s) \/ s[e + 1] \notin GroupChars
  BY GroupEnds
<1>2. Len(s) \in Nat /\ i \in Nat
  BY DEF Texts
<1> HIDE DEF e
<1>3. ~(e < j)
  BY <1>1, <1>2
<1>4. ~(j < e)
  BY <1>1, <1>2
<1>5. e = j
  BY <1>1, <1>2, <1>3, <1>4
<1> QED
  BY <1>5 DEF e

\* The characters of a group.
LEMMA GroupText ==
  ASSUME NEW s \in Texts, NEW i \in 1..Len(s)
  PROVE  /\ Group(s, i) \in Texts
         /\ Len(Group(s, i)) = (GroupEnd(s, i) + 1) - i
         /\ \A k \in i..GroupEnd(s, i) : Group(s, i)[(k + 1) - i] = s[k]
<1> DEFINE e == GroupEnd(s, i)
           g == SubSeq(s, i, e)
<1>1. e \in i..Len(s) /\ Len(s) \in Nat /\ s \in Seq(Characters)
  BY GroupEnds DEF Texts
<1> HIDE DEF e
<1>2. g \in Seq(Characters) /\ Len(g) = (e + 1) - i
  BY <1>1
<1>3. ASSUME NEW k \in i..e PROVE g[(k + 1) - i] = s[k]
  <2>1. (k + 1) - i \in 1..((e + 1) - i) /\ i + ((k + 1) - i) - 1 = k
    BY <1>1
  <2>2. g[(k + 1) - i] = s[i + ((k + 1) - i) - 1]
    BY <1>1, <2>1
  <2> QED
    BY <2>1, <2>2
<1> QED
  BY <1>2, <1>3 DEF Group, e, Texts

-----------------------------------------------------------------------------
(* The pieces of the action                                                *)

Starts == Placeholders(action)
Escapes == Dollars(action) \ Placeholders(action)

ArgsTyped == action \in Texts /\ line \in Texts /\ matches \in Seq(Texts)

\* Behind one of the dollars in R, in its group.
Inside(R, x) == \E j \in R : j < x /\ x <= GroupEnd(action, j)

\* The text of one character.
LEMMA OneCharacter ==
  ASSUME NEW c \in Characters
  PROVE  <<c>> \in Texts /\ Len(<<c>>) = 1 /\ \A i \in 1..Len(<<c>>) : <<c>>[i] = c
<1>1. <<c>> \in Seq(Characters)
  OBVIOUS
<1>2. Len(<<c>>) = 1
  OBVIOUS
<1>3. \A i \in 1..Len(<<c>>) : <<c>>[i] = c
  OBVIOUS
<1> QED
  BY <1>1, <1>2, <1>3 DEF Texts

\* What replaces a group is a text, and plain if the line and the matches are.
LEMMA TextsOfGroups ==
  ASSUME ArgsTyped, NEW g
  PROVE  TextFor(g) \in Texts /\ (PlainTexts => Plain(TextFor(g)))
<1> DEFINE n == atoi(Tail(g)) + 1
<1>1. CASE Tail(g) = <<"@">>
  BY <1>1 DEF TextFor, PlainTexts, ArgsTyped
<1>2. CASE Tail(g) # <<"@">> /\ n \in DOMAIN matches
  <2>1. TextFor(g) = matches[n]
    BY <1>2 DEF TextFor
  <2> HIDE DEF n
  <2>2. n \in 1..Len(matches) /\ matches[n] \in Texts
    BY <1>2 DEF ArgsTyped
  <2> QED
    BY <2>1, <2>2 DEF PlainTexts
<1>3. CASE Tail(g) # <<"@">> /\ n \notin DOMAIN matches
  <2>1. TextFor(g) = <<" ">>
    BY <1>3 DEF TextFor
  <2>2. <<" ">> \in Texts /\ Plain(<<" ">>)
    <3>1. " " \in Characters
      BY TextsAssumption
    <3>2. <<" ">> \in Texts /\ \A i \in 1..Len(<<" ">>) : <<" ">>[i] = " "
      BY <3>1, OneCharacter
    <3> QED
      BY <3>2, GroupCharacters DEF Plain
  <2> QED
    BY <2>1, <2>2
<1> QED
  BY <1>1, <1>2, <1>3

\* Pieces by the kind of their character.
LEMMA PieceOf ==
  ASSUME NEW R, NEW U, NEW x \in 1..Len(action)
  PROVE  /\ x \in R => Pieces(R, U)[x] = TextFor(Group(action, x))
         /\ x \notin R /\ Inside(R, x) => Pieces(R, U)[x] = <<>>
         /\ x \notin R /\ ~Inside(R, x) /\ action[x] = "\\" /\ x + 1 \in U => Pieces(R, U)[x] = <<>>
         /\ x \notin R /\ ~Inside(R, x) /\ ~(action[x] = "\\" /\ x + 1 \in U) => Pieces(R, U)[x] = <<action[x]>>
BY DEF Pieces, Inside

\* There is a piece for each character.
LEMMA PiecesTyped ==
  ASSUME ArgsTyped, NEW R, NEW U
  PROVE  Pieces(R, U) \in Seq(Texts) /\ Len(Pieces(R, U)) = Len(action)
<1>1. Len(action) \in Nat
  BY DEF ArgsTyped, Texts
<1>2. ASSUME NEW x \in 1..Len(action) PROVE Pieces(R, U)[x] \in Texts
  <2>1. TextFor(Group(action, x)) \in Texts
    BY TextsOfGroups
  <2>2. <<>> \in Texts
    BY DEF Texts
  <2>3. <<action[x]>> \in Texts
    <3>1. action[x] \in Characters
      BY DEF ArgsTyped, Texts
    <3> QED
      BY <3>1 DEF Texts
  <2> QED
    BY <2>1, <2>2, <2>3, PieceOf
<1>3. Pieces(R, U) = [x \in 1..Len(action) |-> Pieces(R, U)[x]]
  BY DEF Pieces
<1> QED
  BY <1>1, <1>2, <1>3

\* Inside a group are digits and @.
LEMMA InsideGroup ==
  ASSUME ArgsTyped, NEW R \in SUBSET Starts, NEW x \in 1..Len(action), Inside(R, x)
  PROVE  action[x] \in GroupChars
<1>1. PICK j \in R : j < x /\ x <= GroupEnd(action, j)
  BY DEF Inside
<1>2. j \in 1..Len(action) /\ action \in Texts /\ Len(action) \in Nat
  BY DEF Starts, Placeholders, Dollars, ArgsTyped, Texts
<1>3. x \in (j + 1)..GroupEnd(action, j)
  BY <1>1, <1>2, GroupEnds
<1> QED
  BY <1>2, <1>3, GroupEnds

\* What has not been replaced stands in the text as it is written, to the end of
\* its group and one character further.
LEMMA KeptGroup ==
  ASSUME ArgsTyped, NEW R \in SUBSET Starts, NEW U,
         NEW m \in Dollars(action), m \notin R
  PROVE  /\ \A x \in m..GroupEnd(action, m) : Pieces(R, U)[x] = <<action[x]>>
         /\ LET y == GroupEnd(action, m) + 1
            IN y <= Len(action) /\ y \notin R /\ U = {} => Pieces(R, U)[y] = <<action[y]>>
<1> DEFINE e == GroupEnd(action, m)
<1>1. m \in 1..Len(action) /\ action[m] = "$" /\ action \in Texts /\ Len(action) \in Nat
  BY DEF Dollars, ArgsTyped, Texts
<1>2. /\ e \in m..Len(action)
      /\ \A k \in (m + 1)..e : action[k] \in GroupChars
      /\ e = Len(action) \/ action[e + 1] \notin GroupChars
  BY <1>1, GroupEnds
<1> HIDE DEF e
<1>3. ASSUME NEW j \in R PROVE action[j] = "$" /\ j \in 1..Len(action)
  BY DEF Starts, Placeholders, Dollars
<1>4. ASSUME NEW x \in m..e PROVE Pieces(R, U)[x] = <<action[x]>>
  <2>1. x \in 1..Len(action) /\ (x = m \/ x \in (m + 1)..e)
    BY <1>1, <1>2
  <2>2. x \notin R /\ action[x] # "\\"
    BY <1>1, <1>2, <1>3, <2>1, GroupCharacters
  <2>3. ~Inside(R, x)
    <3> SUFFICES ASSUME NEW j \in R, j < x, x <= GroupEnd(action, j) PROVE FALSE
      BY DEF Inside
    <3>1. j \in 1..Len(action) /\ action[j] = "$"
      BY <1>3
    <3>2. \A k \in (j + 1)..GroupEnd(action, j) : action[k] \in GroupChars
      BY <1>1, <3>1, GroupEnds
    <3>3. j # m
      OBVIOUS
    <3>4. CASE j < m
      <4>1. m \in (j + 1)..GroupEnd(action, j)
        BY <1>1, <3>1, <3>4, <2>1, GroupEnds
      <4> QED
        BY <1>1, <3>2, <4>1, GroupCharacters
    <3>5. CASE m < j
      <4>1. j \in (m + 1)..e
        BY <1>1, <1>2, <3>1, <3>5
      <4> QED
        BY <1>2, <3>1, <4>1, GroupCharacters
    <3> QED
      BY <1>1, <3>1, <3>3, <3>4, <3>5
  <2> QED
    BY <2>1, <2>2, <2>3, PieceOf
<1>5. ASSUME e + 1 <= Len(action), e + 1 \notin R, U = {}
      PROVE  Pieces(R, U)[e + 1] = <<action[e + 1]>>
  <2>1. e + 1 \in 1..Len(action) /\ action[e + 1] \notin GroupChars
    BY <1>1, <1>2, <1>5
  <2>2. ~Inside(R, e + 1)
    BY <2>1, InsideGroup
  <2> QED
    BY <1>5, <2>1, <2>2, PieceOf
<1> QED
  BY <1>4, <1>5 DEF e

-----------------------------------------------------------------------------
(* Where the characters of the action stand in the text                    *)

\* The hypotheses of SubstitutesAsDocumented.
Ready == ArgsTyped /\ Proper(action) /\ PlainTexts

\* The p-th character of the text is the m-th of the action.
StandsAt(R, U, off, p, m) ==
  /\ m \in 1..Len(action) /\ m \notin R /\ p = off[m] + 1
  /\ Pieces(R, U)[m] = <<action[m]>>

Stands(R, U, s, off, p) == \E m \in 1..Len(action) : StandsAt(R, U, off, p, m) /\ action[m] = s[p]

\* A dollar or a backslash in the text is one of the action's.
LEMMA SpecialAt ==
  ASSUME Ready, NEW R \in SUBSET Starts, NEW U, NEW s \in Texts, NEW off,
         LaidOut(s, Pieces(R, U), off), NEW p \in 1..Len(s), s[p] \in {"$", "\\"}
  PROVE  Stands(R, U, s, off, p)
<1> DEFINE P == Pieces(R, U)
<1>1. ArgsTyped /\ PlainTexts
  BY DEF Ready
<1>2. P \in Seq(Texts) /\ Len(P) = Len(action)
  BY <1>1, PiecesTyped
<1>3. LaidOut(s, P, off)
  OBVIOUS
<1> HIDE DEF P
<1>4. PICK m \in 1..Len(P) : \E k \in 1..Len(P[m]) : p = off[m] + k
  BY <1>2, <1>3, Covered
<1>5. PICK k \in 1..Len(P[m]) : p = off[m] + k
  BY <1>4
<1>6. s[p] = P[m][k]
  BY <1>3, <1>5 DEF LaidOut
<1>7. m \notin R
  <2>1. SUFFICES ASSUME m \in R PROVE FALSE
    OBVIOUS
  <2>2. P[m] = TextFor(Group(action, m))
    BY <1>2, <2>1, PieceOf DEF P
  <2>3. Plain(P[m])
    BY <1>1, <2>2, TextsOfGroups
  <2> QED
    BY <1>6, <2>3 DEF Plain
<1>8. P[m] # <<>>
  <2>1. Len(<<>>) = 0
    OBVIOUS
  <2> QED
    BY <2>1
<1>9. P[m] = <<action[m]>>
  BY <1>2, <1>7, <1>8, PieceOf DEF P
<1>10. k = 1 /\ P[m][k] = action[m]
  <2>1. action[m] \in Characters
    BY <1>1, <1>2 DEF ArgsTyped, Texts
  <2>2. Len(P[m]) = 1 /\ \A i \in 1..Len(P[m]) : P[m][i] = action[m]
    BY <1>9, <2>1, OneCharacter
  <2> QED
    BY <2>2
<1> QED
  BY <1>2, <1>5, <1>6, <1>7, <1>9, <1>10 DEF P, Stands, StandsAt

\* A character that stands as it is written is one character of the text.
LEMMA SingleAt ==
  ASSUME ArgsTyped, NEW R, NEW U, NEW s, NEW off, LaidOut(s, Pieces(R, U), off),
         NEW m \in 1..Len(action), Pieces(R, U)[m] = <<action[m]>>
  PROVE  /\ off[m] \in Nat /\ off[m + 1] = off[m] + 1
         /\ s[off[m] + 1] = action[m]
         /\ off[m + 1] <= Len(s)
<1> DEFINE P == Pieces(R, U)
<1>1. P \in Seq(Texts) /\ Len(P) = Len(action) /\ Len(action) \in Nat
  BY PiecesTyped DEF ArgsTyped, Texts
<1>2. action[m] \in Characters
  BY DEF ArgsTyped, Texts
<1>3. Len(P[m]) = 1 /\ \A i \in 1..Len(P[m]) : P[m][i] = action[m]
  BY <1>2, OneCharacter
<1>4. LaidOut(s, P, off)
  OBVIOUS
<1> HIDE DEF P
<1>5. Offsets(P, off) /\ Len(s) = off[Len(P) + 1]
  BY <1>4 DEF LaidOut
<1>6. m \in 1..Len(P) /\ m \in 1..(Len(P) + 1) /\ m + 1 \in 1..(Len(P) + 1)
      /\ Len(P) + 1 \in 1..(Len(P) + 1) /\ m + 1 <= Len(P) + 1
  BY <1>1
<1>7. off[m] \in Nat /\ off[m + 1] = off[m] + 1
  BY <1>3, <1>5, <1>6 DEF Offsets
<1>8. off[m + 1] <= Len(s)
  BY <1>1, <1>5, <1>6, OffsetsGrow
<1>9. s[off[m] + 1] = P[m][1]
  BY <1>3, <1>4, <1>6 DEF LaidOut
<1> QED
  BY <1>3, <1>7, <1>8, <1>9

\* Offsets for characters of the action that follow each other.
LEMMA OffsetsOrdered ==
  ASSUME ArgsTyped, NEW R, NEW U, NEW s, NEW off, LaidOut(s, Pieces(R, U), off),
         NEW i \in 1..(Len(action) + 1), NEW j \in 1..(Len(action) + 1), i <= j
  PROVE  off[i] \in Nat /\ off[j] \in Nat /\ off[i] <= off[j]
<1>1. Pieces(R, U) \in Seq(Texts) /\ Len(Pieces(R, U)) = Len(action)
  BY PiecesTyped
<1>2. Offsets(Pieces(R, U), off)
  BY DEF LaidOut
<1>3. off[i] <= off[j]
  BY <1>1, <1>2, OffsetsGrow
<1> QED
  BY <1>1, <1>2, <1>3 DEF Offsets

\* A backslash of the action that is not removed, and no replaced character,
\* stands as it is written.
LEMMA BackslashKept ==
  ASSUME ArgsTyped, NEW R \in SUBSET Starts, NEW U,
         NEW m \in 1..Len(action), action[m] = "\\", m + 1 \notin U
  PROVE  Pieces(R, U)[m] = <<action[m]>>
<1>1. m \notin R
  BY GroupCharacters DEF Starts, Placeholders, Dollars
<1>2. ~Inside(R, m)
  BY GroupCharacters, InsideGroup
<1> QED
  BY <1>1, <1>2, PieceOf

\* What follows a backslash stands as it is written, unless it is a backslash
\* that has been removed.
LEMMA AfterBackslash ==
  ASSUME ArgsTyped, NEW R \in SUBSET Starts, NEW U,
         NEW m \in 1..Len(action), action[m] = "\\", m + 1 \in 1..Len(action),
         ~(action[m + 1] = "\\" /\ (m + 1) + 1 \in U)
  PROVE  Pieces(R, U)[m + 1] = <<action[m + 1]>>
<1>1. m + 1 \notin R
  <2>1. m + 1 > 1 /\ (m + 1) - 1 = m
    OBVIOUS
  <2> QED
    BY <2>1 DEF Starts, Placeholders, IsEscaped
<1>2. ~Inside(R, m + 1)
  <2> SUFFICES ASSUME NEW j \in R, j < m + 1, m + 1 <= GroupEnd(action, j) PROVE FALSE
    BY DEF Inside
  <2>1. j \in 1..Len(action) /\ action[j] = "$"
    BY DEF Starts, Placeholders, Dollars
  <2>2. j # m
    BY <2>1, GroupCharacters
  <2>3. j < m /\ m <= GroupEnd(action, j)
    <3>1. GroupEnd(action, j) \in Nat
      BY <2>1, GroupEnds DEF ArgsTyped, Texts
    <3> QED
      BY <2>1, <2>2, <3>1
  <2>4. action[m] \in GroupChars
    BY <2>3, InsideGroup DEF Inside
  <2> QED
    BY <2>4, GroupCharacters
<1> QED
  BY <1>1, <1>2, PieceOf

\* The group that starts at i stands in the text.
GroupAt(s, off, i) ==
  LET e == GroupEnd(action, i)
  IN /\ i \in 1..Len(action) /\ e \in i..Len(action) /\ off[i] \in Nat
     /\ \A x \in i..e : s[(off[i] + 1) + (x - i)] = action[x]
     /\ off[e + 1] = off[i] + ((e + 1) - i)
     /\ off[e + 1] <= Len(s)

\* The group of a dollar that has not been replaced is still there.
LEMMA GroupStillThere ==
  ASSUME ArgsTyped, NEW R \in SUBSET Starts, NEW U, NEW s \in Texts, NEW off,
         LaidOut(s, Pieces(R, U), off), NEW i \in Dollars(action), i \notin R
  PROVE  GroupAt(s, off, i)
<1> DEFINE e == GroupEnd(action, i)
           P == Pieces(R, U)
<1>1. i \in 1..Len(action) /\ action \in Texts /\ Len(action) \in Nat
  BY DEF Dollars, ArgsTyped, Texts
<1>2. e \in i..Len(action)
  BY <1>1, GroupEnds
<1>3. \A x \in i..e : P[x] = <<action[x]>>
  BY KeptGroup
<1>4. P \in Seq(Texts) /\ Len(P) = Len(action) /\ Offsets(P, off)
  BY PiecesTyped DEF LaidOut
<1>5. ASSUME NEW x \in i..e
      PROVE  x \in 1..Len(action) /\ off[x + 1] <= Len(s) /\ s[off[x] + 1] = action[x] /\ Len(P[x]) = 1
  <2>1. x \in 1..Len(action)
    BY <1>1, <1>2
  <2>2. action[x] \in Characters
    BY <2>1 DEF ArgsTyped, Texts
  <2>3. P[x] = <<action[x]>>
    BY <1>3
  <2>4. Len(P[x]) = 1
    BY <2>2, <2>3, OneCharacter
  <2> QED
    BY <2>1, <2>3, <2>4, SingleAt
<1> HIDE DEF e, P
<1>6. \A x \in i..(e + 1) : off[x] = off[i] + (x - i)
  <2>1. \A x \in i..e : Len(P[x]) = 1
    BY <1>5
  <2> QED
    <3>1. i \in 1..Len(P) /\ e \in i..Len(P)
      BY <1>1, <1>2, <1>4
    <3> QED
      BY <1>4, <2>1, <3>1, InARow
<1>7. off[i] \in Nat
  BY <1>1, <1>4 DEF Offsets
<1>8. ASSUME NEW x \in i..e PROVE s[(off[i] + 1) + (x - i)] = action[x]
  <2>1. off[x] = off[i] + (x - i) /\ s[off[x] + 1] = action[x]
    BY <1>1, <1>2, <1>5, <1>6
  <2>2. (off[i] + 1) + (x - i) = (off[i] + (x - i)) + 1
    BY <1>1, <1>2, <1>7
  <2> QED
    BY <2>1, <2>2
<1>9. e + 1 \in i..(e + 1) /\ e \in i..e
  BY <1>1, <1>2
<1> QED
  BY <1>1, <1>2, <1>5, <1>6, <1>7, <1>8, <1>9 DEF e, GroupAt

\* With a placeholder all equal ones have been replaced, and the first of them
\* stood before every placeholder that has not been replaced.
Done(R) ==
  \A j \in R :
    /\ \A k \in Starts : Group(action, k) = Group(action, j) => k \in R
    /\ \E k \in R : Group(action, k) = Group(action, j) /\ \A l \in Starts \ R : k < l

\* No placeholder that stands right behind another is replaced before it.
LEMMA NextIsKept ==
  ASSUME Ready, NEW R \in SUBSET Starts, Done(R), NEW i \in Starts, i \notin R
  PROVE  GroupEnd(action, i) + 1 \notin R
<1> DEFINE j == GroupEnd(action, i) + 1
<1>1. SUFFICES ASSUME j \in R PROVE FALSE
  OBVIOUS
<1>2. j \in Starts /\ i \in Dollars(action)
  BY <1>1 DEF Starts, Placeholders
<1>3. PICK k \in R : Group(action, k) = Group(action, j) /\ \A l \in Starts \ R : k < l
  BY <1>1 DEF Done
<1>4. \E l \in Starts : l <= k /\ Group(action, l) = Group(action, i)
  BY <1>2, <1>3 DEF Ready, Proper, NoneJoined, Starts
<1>5. PICK l \in Starts : l <= k /\ Group(action, l) = Group(action, i)
  BY <1>4
<1>6. k \in Nat /\ l \in Nat
  BY DEF Starts, Placeholders, Dollars
<1>7. l \in R
  BY <1>3, <1>5, <1>6
<1> QED
  BY <1>5, <1>7 DEF Done

\* In the text the group of a placeholder ends where it ends in the action.
LEMMA GroupInText ==
  ASSUME Ready, NEW R \in SUBSET Starts, Done(R), NEW s \in Texts, NEW off,
         LaidOut(s, Pieces(R, {}), off), NEW i \in Starts, i \notin R
  PROVE  /\ off[i] + 1 \in 1..Len(s) /\ s[off[i] + 1] = "$"
         /\ GroupEnd(s, off[i] + 1) > off[i] + 1
         /\ Group(s, off[i] + 1) = Group(action, i)
<1> DEFINE e == GroupEnd(action, i)
           p == off[i] + 1
           d == p + (e - i)
<1>1. i \in Dollars(action) /\ action[i] = "$" /\ ArgsTyped /\ action \in Texts /\ Len(action) \in Nat /\ Len(s) \in Nat
  BY DEF Starts, Placeholders, Dollars, Ready, ArgsTyped, Texts
<1>2. /\ i \in 1..Len(action) /\ e \in i..Len(action) /\ off[i] \in Nat
      /\ \A x \in i..e : s[p + (x - i)] = action[x]
      /\ off[e + 1] = off[i] + ((e + 1) - i)
      /\ off[e + 1] <= Len(s)
  <2>1. GroupAt(s, off, i)
    BY <1>1, GroupStillThere
  <2> QED
    BY <2>1 DEF GroupAt
<1>3. /\ \A k \in (i + 1)..e : action[k] \in GroupChars
      /\ e = Len(action) \/ action[e + 1] \notin GroupChars
  BY <1>1, <1>2, GroupEnds
<1>4. e > i
  <2>1. \/ Group(action, i) = <<"$", "@">>
        \/ e > i
    BY DEF Ready, Proper, WellWritten, Starts
  <2>2. ASSUME Group(action, i) = <<"$", "@">> PROVE e > i
    <3>1. Len(<<"$", "@">>) = 2
      OBVIOUS
    <3>2. (e + 1) - i = 2
      BY <1>1, <1>2, <2>2, <3>1, GroupText
    <3> QED
      BY <1>2, <3>2
  <2> QED
    BY <2>1, <2>2
<1>5. e + 1 \notin R
  BY NextIsKept
<1>6. ASSUME e # Len(action) PROVE s[d + 1] = action[e + 1]
  <2>1. e + 1 \in 1..Len(action)
    BY <1>1, <1>2, <1>6
  <2>2. Pieces(R, {})[e + 1] = <<action[e + 1]>>
    BY <1>1, <1>5, <2>1, KeptGroup
  <2>3. s[off[e + 1] + 1] = action[e + 1]
    BY <1>1, <2>1, <2>2, SingleAt
  <2>4. off[e + 1] + 1 = d + 1
    BY <1>1, <1>2
  <2> QED
    BY <2>3, <2>4
<1>7. ASSUME e = Len(action) PROVE d = Len(s)
  <2>1. Len(Pieces(R, {})) = Len(action)
    BY <1>1, PiecesTyped
  <2>2. Len(s) = off[e + 1]
    BY <1>7, <2>1 DEF LaidOut
  <2> QED
    BY <1>1, <1>2, <2>2
<1>8. i \in Nat /\ e \in Nat /\ i <= e /\ off[i] \in Nat
  BY <1>1, <1>2
<1> HIDE DEF e
<1>9. p \in 1..Len(s) /\ d \in p..Len(s) /\ s[p] = "$" /\ d > p
  <2>1. d = off[e + 1] /\ p \in Nat /\ d \in Nat /\ p <= d /\ d > p
    <3>1. \A a, b, c \in Nat : b < c => /\ (a + 1) + (c - b) = a + ((c + 1) - b)
                                       /\ (a + 1) + (c - b) \in Nat /\ (a + 1) + (c - b) > a + 1
      OBVIOUS
    <3>2. i < e
      BY <1>4, <1>8
    <3>3. d = off[i] + ((e + 1) - i) /\ d \in Nat /\ d > p
      BY <1>8, <3>1, <3>2
    <3>4. p \in Nat
      BY <1>8
    <3> HIDE DEF p, d
    <3> QED
      BY <1>2, <3>3, <3>4
  <2>2. i \in i..e /\ p + (i - i) = p
    BY <1>8
  <2>3. s[p] = "$"
    BY <1>1, <1>2, <2>2
  <2>4. off[e + 1] <= Len(s) /\ Len(s) \in Nat /\ p >= 1
    BY <1>1, <1>2, <1>8
  <2> HIDE DEF p, d
  <2>5. p \in 1..Len(s) /\ d \in p..Len(s)
    BY <2>1, <2>4
  <2> QED
    BY <2>1, <2>3, <2>5
<1>10. ASSUME NEW k \in p..d PROVE (k - p) + i \in i..e /\ s[k] = action[(k - p) + i]
  <2>1. (k - p) + i \in i..e /\ p + (((k - p) + i) - i) = k
    BY <1>8
  <2> QED
    BY <1>2, <2>1
<1> HIDE DEF p, d
<1>11. \A k \in (p + 1)..d : s[k] \in GroupChars
  <2> SUFFICES ASSUME NEW k \in (p + 1)..d PROVE s[k] \in GroupChars
    OBVIOUS
  <2>1. k \in p..d /\ (k - p) + i \in (i + 1)..e
    BY <1>8, <1>9, <1>10
  <2> QED
    BY <1>3, <1>10, <2>1
<1>12. d = Len(s) \/ s[d + 1] \notin GroupChars
  BY <1>3, <1>6, <1>7
<1>13. GroupEnd(s, p) = d
  BY <1>9, <1>11, <1>12, GroupEndsOnce
<1>14. Group(s, p) = Group(action, i)
  <2>1. /\ Group(s, p) \in Texts /\ Len(Group(s, p)) = (d + 1) - p
        /\ \A k \in p..d : Group(s, p)[(k + 1) - p] = s[k]
    BY <1>9, <1>13, GroupText
  <2>2. /\ Group(action, i) \in Texts /\ Len(Group(action, i)) = (e + 1) - i
        /\ \A k \in i..e : Group(action, i)[(k + 1) - i] = action[k]
    BY <1>1, <1>2, GroupText DEF e
  <2>3. Len(Group(s, p)) = Len(Group(action, i))
    BY <1>8, <2>1, <2>2 DEF d, p
  <2>4. ASSUME NEW k \in 1..Len(Group(s, p)) PROVE Group(s, p)[k] = Group(action, i)[k]
    <3>1. /\ (k + p) - 1 \in p..d /\ (((k + p) - 1) + 1) - p = k
          /\ (((k + p) - 1) - p) + i = (k + i) - 1
          /\ (((k + i) - 1) + 1) - i = k
      BY <1>8, <1>9, <2>1
    <3>2. s[(k + p) - 1] = action[(k + i) - 1] /\ (k + i) - 1 \in i..e
      BY <1>10, <3>1
    <3> QED
      BY <2>1, <2>2, <3>1, <3>2
  <2> QED
    BY <2>1, <2>2, <2>3, <2>4, SameText
<1> QED
  BY <1>9, <1>13, <1>14 DEF p

\* A placeholder has a character before it in the text, and no backslash.
LEMMA BeforeStart ==
  ASSUME Ready, NEW R \in SUBSET Starts, NEW s \in Texts, NEW off,
         LaidOut(s, Pieces(R, {}), off), NEW i \in Starts
  PROVE  off[i] \in Nat /\ off[i] >= 1 /\ s[off[i]] # "\\"
<1>1. /\ i \in 1..Len(action) /\ action[i] = "$" /\ ~IsEscaped(action, i)
      /\ ArgsTyped /\ action \in Texts /\ Len(action) \in Nat
  BY DEF Starts, Placeholders, Dollars, Ready, ArgsTyped, Texts
<1>2. action[1] # "$" /\ 1 \in 1..Len(action) /\ 2 \in 1..(Len(action) + 1) /\ 2 <= i /\ i \in 1..(Len(action) + 1)
  <2>1. action # <<>>
    BY <1>1
  <2>2. action[1] # "$"
    BY <2>1 DEF Ready, Proper
  <2> QED
    BY <1>1, <2>2
<1>3. off[i] \in Nat /\ off[i] >= 1
  <2>1. 1 \notin R
    BY <1>2 DEF Starts, Placeholders, Dollars
  <2>2. ~Inside(R, 1)
    BY DEF Inside, Starts, Placeholders, Dollars
  <2>3. Pieces(R, {})[1] = <<action[1]>>
    BY <1>2, <2>1, <2>2, PieceOf
  <2>4. off[1] \in Nat /\ off[1 + 1] = off[1] + 1
    BY <1>1, <1>2, <2>3, SingleAt
  <2>5. off[2] <= off[i] /\ off[i] \in Nat
    BY <1>1, <1>2, OffsetsOrdered
  <2>6. off[2] = off[1] + 1
    BY <2>4
  <2> QED
    BY <2>4, <2>5, <2>6
<1>4. ASSUME s[off[i]] = "\\" PROVE FALSE
  <2>1. off[i] \in 1..Len(s)
    <3>1. Pieces(R, {}) \in Seq(Texts) /\ Len(Pieces(R, {})) = Len(action)
      BY <1>1, PiecesTyped
    <3>2. Len(s) = off[Len(action) + 1]
      BY <3>1 DEF LaidOut
    <3>3. Len(action) + 1 \in 1..(Len(action) + 1) /\ i <= Len(action) + 1
      BY <1>1
    <3>4. off[i] <= off[Len(action) + 1] /\ off[Len(action) + 1] \in Nat
      BY <1>1, <1>2, <3>3, OffsetsOrdered
    <3> QED
      BY <1>3, <3>2, <3>4
  <2>2. PICK m \in 1..Len(action) : /\ m \notin R /\ action[m] = "\\" /\ off[i] = off[m] + 1
                                    /\ Pieces(R, {})[m] = <<action[m]>>
    <3>1. s[off[i]] \in {"$", "\\"}
      BY <1>4
    <3>2. Stands(R, {}, s, off, off[i])
      BY <2>1, <3>1, SpecialAt
    <3> QED
      BY <1>4, <3>2 DEF Stands, StandsAt
  <2>3. off[m] \in Nat /\ off[m + 1] = off[m] + 1
    BY <1>1, <2>2, SingleAt
  <2>4. m < i
    <3>1. m \in 1..(Len(action) + 1)
      BY <1>1
    <3>2. ASSUME i <= m PROVE off[i] <= off[m]
      BY <1>1, <1>2, <3>1, <3>2, OffsetsOrdered
    <3> QED
      BY <1>1, <2>2, <2>3, <3>2
  <2>5. m + 1 # i
    BY <1>1, <2>2 DEF IsEscaped
  <2>6. m + 1 \in 1..Len(action) /\ (m + 1) + 1 \in 1..(Len(action) + 1) /\ (m + 1) + 1 <= i
    BY <1>1, <2>4, <2>5
  <2>7. Pieces(R, {})[m + 1] = <<action[m + 1]>>
    BY <1>1, <2>2, <2>6, AfterBackslash
  <2>8. off[(m + 1) + 1] = off[m + 1] + 1
    BY <1>1, <2>6, <2>7, SingleAt
  <2>9. off[(m + 1) + 1] <= off[i]
    BY <1>1, <1>2, <2>6, OffsetsOrdered
  <2> QED
    BY <1>3, <2>2, <2>3, <2>8, <2>9
<1> QED
  BY <1>3, <1>4

\* The groups found in the text are the placeholders not yet replaced.
LEMMA StartsOfText ==
  ASSUME Ready, NEW R \in SUBSET Starts, Done(R), NEW s \in Texts, NEW off,
         LaidOut(s, Pieces(R, {}), off)
  PROVE  GroupStarts(s) = {off[i] + 1 : i \in Starts \ R}
<1>1. ASSUME NEW i \in Starts \ R PROVE off[i] + 1 \in GroupStarts(s)
  <2>1. /\ off[i] + 1 \in 1..Len(s) /\ s[off[i] + 1] = "$"
        /\ GroupEnd(s, off[i] + 1) > off[i] + 1
    BY GroupInText
  <2>2. off[i] \in Nat /\ off[i] >= 1 /\ s[off[i]] # "\\"
    BY BeforeStart
  <2>3. off[i] + 1 \in 2..Len(s) /\ (off[i] + 1) - 1 = off[i]
    BY <2>1, <2>2
  <2> QED
    BY <2>1, <2>2, <2>3 DEF GroupStarts
<1>2. ASSUME NEW p \in GroupStarts(s) PROVE \E i \in Starts \ R : p = off[i] + 1
  <2>1. p \in 2..Len(s) /\ p \in 1..Len(s) /\ s[p] = "$" /\ s[p - 1] # "\\"
    BY DEF GroupStarts
  <2>2. PICK m \in 1..Len(action) : m \notin R /\ action[m] = "$" /\ p = off[m] + 1
    <3>1. Stands(R, {}, s, off, p)
      BY <2>1, SpecialAt
    <3> QED
      BY <2>1, <3>1 DEF Stands, StandsAt
  <2>3. ArgsTyped /\ Len(action) \in Nat
    BY DEF Ready, ArgsTyped, Texts
  <2>4. m \in Starts
    <3>1. SUFFICES ASSUME IsEscaped(action, m) PROVE FALSE
      BY <2>2 DEF Starts, Placeholders, Dollars
    <3>2. m - 1 \in 1..Len(action) /\ action[m - 1] = "\\" /\ (m - 1) + 1 = m
      BY <2>2, <2>3, <3>1 DEF IsEscaped
    <3>3. Pieces(R, {})[m - 1] = <<action[m - 1]>>
      BY <2>3, <3>2, BackslashKept
    <3>4. off[m - 1] \in Nat /\ off[m] = off[m - 1] + 1 /\ s[off[m - 1] + 1] = "\\"
      BY <2>3, <3>2, <3>3, SingleAt
    <3>5. p - 1 = off[m - 1] + 1
      BY <2>2, <3>4
    <3> QED
      BY <2>1, <3>4, <3>5
  <2> QED
    BY <2>2, <2>4
<1> QED
  BY <1>1, <1>2

\* The group found first is the first placeholder not yet replaced.
LEMMA FirstGroup ==
  ASSUME Ready, NEW R \in SUBSET Starts, Done(R), NEW s \in Texts, NEW off,
         LaidOut(s, Pieces(R, {}), off)
  PROVE  /\ GroupStarts(s) = {} => R = Starts
         /\ GroupStarts(s) # {} =>
              \E i \in Starts \ R : /\ Group(s, First(GroupStarts(s))) = Group(action, i)
                                    /\ \A l \in Starts \ R : i <= l
<1>1. GroupStarts(s) = {off[i] + 1 : i \in Starts \ R}
  BY StartsOfText
<1>2. GroupStarts(s) = {} => R = Starts
  BY <1>1
<1>3. ASSUME GroupStarts(s) # {}
      PROVE  \E i \in Starts \ R : /\ Group(s, First(GroupStarts(s))) = Group(action, i)
                                   /\ \A l \in Starts \ R : i <= l
  <2>1. GroupStarts(s) \in SUBSET Nat
    BY DEF GroupStarts
  <2>2. First(GroupStarts(s)) \in GroupStarts(s) /\ \A p \in GroupStarts(s) : First(GroupStarts(s)) <= p
    BY <1>3, <2>1, LeastMember
  <2>3. PICK i \in Starts \ R : First(GroupStarts(s)) = off[i] + 1
    BY <1>1, <2>2
  <2>4. Group(s, First(GroupStarts(s))) = Group(action, i)
    BY <2>3, GroupInText
  <2>5. ArgsTyped /\ Len(action) \in Nat
    BY DEF Ready, ArgsTyped, Texts
  <2>6. ASSUME NEW l \in Starts \ R PROVE i <= l
    <3>1. SUFFICES ASSUME l < i PROVE FALSE
      BY DEF Starts, Placeholders, Dollars
    <3>2. off[i] + 1 <= off[l] + 1
      BY <1>1, <2>2, <2>3
    <3>3. l \in 1..Len(action) /\ i \in 1..(Len(action) + 1) /\ l + 1 \in 1..(Len(action) + 1) /\ l + 1 <= i
      BY <2>5, <3>1 DEF Starts, Placeholders, Dollars
    <3>4. off[l + 1] <= off[i] /\ off[i] \in Nat
      BY <2>5, <3>3, OffsetsOrdered
    <3>5. Pieces(R, {})[l] = <<action[l]>>
      <4>1. l \in Dollars(action) /\ l \in l..GroupEnd(action, l)
        BY <2>5, <3>3, GroupEnds DEF Starts, Placeholders, ArgsTyped
      <4> QED
        BY <2>5, <4>1, KeptGroup
    <3>6. off[l] \in Nat /\ off[l + 1] = off[l] + 1
      BY <2>5, <3>3, <3>5, SingleAt
    <3> QED
      BY <3>2, <3>4, <3>6
  <2> QED
    BY <2>4, <2>6
<1> QED
  BY <1>2, <1>3

\* All placeholders like the first one not yet replaced may come next.
LEMMA DoneNext ==
  ASSUME NEW R \in SUBSET Starts, Done(R), NEW i \in Starts \ R, \A l \in Starts \ R : i <= l
  PROVE  Done(R \cup {k \in Starts : Group(action, k) = Group(action, i)})
<1> DEFINE C == {k \in Starts : Group(action, k) = Group(action, i)}
<1>1. ASSUME NEW j \in R \cup C, NEW k \in Starts, Group(action, k) = Group(action, j)
      PROVE  k \in R \cup C
  BY <1>1 DEF Done
<1>2. ASSUME NEW j \in R
      PROVE  \E k \in R \cup C : Group(action, k) = Group(action, j) /\ \A l \in Starts \ (R \cup C) : k < l
  BY DEF Done
<1>3. ASSUME NEW j \in C
      PROVE  \E k \in R \cup C : Group(action, k) = Group(action, j) /\ \A l \in Starts \ (R \cup C) : k < l
  <2>1. i \in R \cup C /\ Group(action, i) = Group(action, j)
    OBVIOUS
  <2>2. ASSUME NEW l \in Starts \ (R \cup C) PROVE i < l
    <3>1. i <= l /\ i # l
      BY <2>1, <2>2
    <3>2. i \in Nat /\ l \in Nat
      BY DEF Starts, Placeholders, Dollars
    <3> QED
      BY <3>1, <3>2
  <2> QED
    BY <2>1, <2>2
<1> QED
  BY <1>1, <1>2, <1>3 DEF Done

-----------------------------------------------------------------------------
(* What a replacement does                                                 *)

\* Where a text occurs in another.
LEMMA OccurrenceText ==
  ASSUME NEW w \in Texts, NEW t \in Texts, NEW p \in Nat, p >= 1, p + Len(w) <= Len(t) + 1
  PROVE  p \in Occurrences(w, t) <=> \A k \in 1..Len(w) : t[(p + k) - 1] = w[k]
<1> DEFINE u == SubSeq(t, p, p + Len(w) - 1)
<1>1. /\ t \in Seq(Characters) /\ w \in Seq(Characters)
      /\ Len(w) \in Nat /\ Len(t) \in Nat /\ p \in 1..(Len(t) - Len(w) + 1)
  BY DEF Texts
<1>2. p \in Occurrences(w, t) <=> u = w
  BY <1>1 DEF Occurrences
<1>3. /\ u \in Seq(Characters) /\ Len(u) = Len(w)
      /\ \A k \in 1..Len(w) : u[k] = t[(p + k) - 1]
  <2>1. ASSUME NEW x \in p..(p + Len(w) - 1) PROVE t[x] \in Characters
    BY <1>1
  <2>2. u \in Seq(Characters) /\ Len(u) = (p + Len(w) - 1) - p + 1
    BY <1>1, <2>1
  <2>3. \A k \in 1..Len(u) : u[k] = t[p + k - 1]
    BY <1>1, <2>2
  <2>4. Len(u) = Len(w)
    BY <1>1, <2>2
  <2> QED
    BY <1>1, <2>2, <2>3, <2>4
<1> HIDE DEF u
<1>4. ASSUME \A k \in 1..Len(w) : t[(p + k) - 1] = w[k] PROVE u = w
  <2>1. \A k \in 1..Len(u) : u[k] = w[k]
    BY <1>3, <1>4
  <2> QED
    BY <1>1, <1>3, <2>1, SameText DEF Texts
<1> QED
  BY <1>2, <1>3, <1>4

\* Only inside the text.
LEMMA OccurrenceInside ==
  ASSUME NEW w \in Texts, NEW t \in Texts, NEW p \in Occurrences(w, t)
  PROVE  p \in Nat /\ p >= 1 /\ p + Len(w) <= Len(t) + 1
<1>1. Len(w) \in Nat /\ Len(t) \in Nat
  BY DEF Texts
<1>2. p \in 1..(Len(t) - Len(w) + 1)
  BY DEF Occurrences
<1> QED
  BY <1>1, <1>2

\* A text that begins with the characters of another.
LEMMA PrefixText ==
  ASSUME NEW g \in Texts, NEW t \in Texts, Len(g) <= Len(t), \A k \in 1..Len(g) : g[k] = t[k]
  PROVE  IsPrefix(g, t)
<1>1. g \in Seq(Characters) /\ t \in Seq(Characters) /\ Len(g) \in Nat /\ Len(t) \in Nat
  BY DEF Texts
<1> DEFINE u == SubSeq(t, 1, Len(g))
<1>2. u \in Seq(Characters) /\ Len(u) = Len(g) /\ \A k \in 1..Len(g) : u[k] = t[k]
  BY <1>1
<1>3. SubSeq(g, 1, Len(g)) = g
  BY <1>1
<1> HIDE DEF u
<1>4. g = u
  BY <1>1, <1>2, SameText DEF Texts
<1> QED
  BY <1>3, <1>4 DEF IsPrefix, u

\* A group of the action begins with a dollar, and goes on with digits and @.
LEMMA GroupShape ==
  ASSUME ArgsTyped, NEW i \in Dollars(action)
  PROVE  /\ Group(action, i) \in Texts /\ Len(Group(action, i)) \in Nat /\ Len(Group(action, i)) >= 1
         /\ Len(Group(action, i)) = (GroupEnd(action, i) + 1) - i
         /\ Group(action, i)[1] = "$"
         /\ \A k \in 2..Len(Group(action, i)) : Group(action, i)[k] \in GroupChars
         /\ \A k \in 1..Len(Group(action, i)) : Group(action, i)[k] = action[(i + k) - 1]
<1> DEFINE e == GroupEnd(action, i)
           G == Group(action, i)
<1>1. i \in 1..Len(action) /\ action \in Texts /\ Len(action) \in Nat /\ action[i] = "$"
  BY DEF ArgsTyped, Dollars, Texts
<1>2. e \in i..Len(action) /\ \A k \in (i + 1)..e : action[k] \in GroupChars
  BY <1>1, GroupEnds
<1>3. G \in Texts /\ Len(G) = (e + 1) - i /\ \A k \in i..e : G[(k + 1) - i] = action[k]
  BY <1>1, GroupText
<1> HIDE DEF e, G
<1>4. Len(G) \in Nat /\ Len(G) >= 1
  BY <1>1, <1>2, <1>3
<1>5. ASSUME NEW k \in 1..Len(G) PROVE G[k] = action[(i + k) - 1] /\ (i + k) - 1 \in i..e
  <2>1. (i + k) - 1 \in i..e /\ (((i + k) - 1) + 1) - i = k
    BY <1>1, <1>2, <1>3
  <2> QED
    BY <1>3, <2>1
<1>6. G[1] = "$"
  <2>1. 1 \in 1..Len(G) /\ (i + 1) - 1 = i
    BY <1>1, <1>4
  <2> QED
    BY <1>1, <1>5, <2>1
<1>7. ASSUME NEW k \in 2..Len(G) PROVE G[k] \in GroupChars
  <2>1. k \in 1..Len(G) /\ (i + k) - 1 # i
    BY <1>1, <1>4
  <2>2. (i + k) - 1 \in (i + 1)..e
    BY <1>1, <1>2, <1>5, <2>1
  <2> QED
    BY <1>2, <1>5, <2>1, <2>2
<1> QED
  BY <1>3, <1>4, <1>5, <1>6, <1>7 DEF e, G

\* Where a placeholder occurs in the text, it is one of the action that has not
\* been replaced.
LEMMA OccurrenceIsPlaceholder ==
  ASSUME Ready, NEW R \in SUBSET Starts, NEW s \in Texts, NEW off,
         LaidOut(s, Pieces(R, {}), off), NEW i \in Starts,
         NEW p \in Occurrences(Group(action, i), s)
  PROVE  \E m \in Starts \ R : Group(action, m) = Group(action, i) /\ p = off[m] + 1
<1> DEFINE G == Group(action, i)
<1>1. i \in Dollars(action) /\ ArgsTyped /\ Len(action) \in Nat /\ Len(s) \in Nat
  BY DEF Starts, Placeholders, Ready, ArgsTyped, Texts
<1>2. /\ G \in Texts /\ Len(G) \in Nat /\ Len(G) >= 1 /\ G[1] = "$"
      /\ \A k \in 2..Len(G) : G[k] \in GroupChars
  BY <1>1, GroupShape
<1>3. p \in Nat /\ p >= 1 /\ p + Len(G) <= Len(s) + 1 /\ \A k \in 1..Len(G) : s[(p + k) - 1] = G[k]
  <2>1. p \in Occurrences(G, s)
    OBVIOUS
  <2> HIDE DEF G
  <2>2. p \in Nat /\ p >= 1 /\ p + Len(G) <= Len(s) + 1
    BY <1>2, <2>1, OccurrenceInside
  <2> QED
    BY <1>2, <2>1, <2>2, OccurrenceText
<1> HIDE DEF G
<1>4. p \in 1..Len(s) /\ s[p] = "$"
  <2>1. 1 \in 1..Len(G) /\ (p + 1) - 1 = p
    BY <1>2, <1>3
  <2> QED
    BY <1>1, <1>2, <1>3, <2>1
<1>5. PICK m \in 1..Len(action) : m \notin R /\ action[m] = "$" /\ p = off[m] + 1
  <2>1. Stands(R, {}, s, off, p)
    BY <1>4, SpecialAt
  <2> QED
    BY <1>4, <2>1 DEF Stands, StandsAt
<1> DEFINE H == Group(action, m)
           e == GroupEnd(action, m)
<1>6. m \in Dollars(action)
  BY <1>5 DEF Dollars
<1>7. /\ H \in Texts /\ Len(H) \in Nat /\ Len(H) >= 1 /\ Len(H) = (e + 1) - m
      /\ \A k \in 1..Len(H) : H[k] = action[(m + k) - 1]
  BY <1>1, <1>6, GroupShape
<1>8. /\ e \in m..Len(action) /\ off[m] \in Nat
      /\ \A x \in m..e : s[p + (x - m)] = action[x]
      /\ off[e + 1] = off[m] + ((e + 1) - m)
      /\ off[e + 1] <= Len(s)
  <2>1. ArgsTyped /\ m \notin R /\ m \in Dollars(action)
    BY <1>1, <1>5, <1>6
  <2>2. GroupAt(s, off, m)
    BY <2>1, GroupStillThere
  <2> QED
    BY <1>5, <2>2 DEF GroupAt
<1>9. e = Len(action) \/ action[e + 1] \notin GroupChars
  <2>1. action \in Texts
    BY <1>1 DEF ArgsTyped
  <2> QED
    BY <1>5, <2>1, GroupEnds
<1>10. /\ m \in Starts => (IsPrefix(H, G) => G = H)
       /\ IsPrefix(G, H) => m \in Starts /\ H = G
  BY <1>1, <1>6 DEF Ready, Proper, NoneExtended, Starts, G
<1> HIDE DEF H, e
<1>11. ASSUME NEW k \in 1..Len(H) PROVE H[k] = s[(p + k) - 1]
  <2>1. (m + k) - 1 \in m..e /\ p + (((m + k) - 1) - m) = (p + k) - 1
    BY <1>1, <1>3, <1>5, <1>7, <1>8
  <2> QED
    BY <1>7, <1>8, <2>1
<1>12. CASE Len(G) <= Len(H)
  <2>1. ASSUME NEW k \in 1..Len(G) PROVE G[k] = H[k]
    <3>1. k \in 1..Len(H)
      BY <1>2, <1>7, <1>12
    <3> QED
      BY <1>3, <1>11, <3>1
  <2>2. IsPrefix(G, H)
    BY <1>2, <1>7, <1>12, <2>1, PrefixText
  <2> QED
    BY <1>5, <1>10, <2>2 DEF G, H
<1>13. CASE Len(G) > Len(H)
  <2>1. ASSUME NEW k \in 1..Len(H) PROVE H[k] = G[k]
    <3>1. k \in 1..Len(G)
      BY <1>2, <1>7, <1>13
    <3> QED
      BY <1>3, <1>11, <3>1
  <2>2. IsPrefix(H, G)
    BY <1>2, <1>7, <1>13, <2>1, PrefixText
  <2>3. m \notin Starts
    BY <1>2, <1>7, <1>10, <1>13, <2>2
  <2>4. off[e + 1] + 1 <= Len(s) /\ s[off[e + 1] + 1] \in GroupChars
    <3>1. off[e + 1] = off[m] + Len(H) /\ off[m] \in Nat
      BY <1>7, <1>8
    <3>2. Len(H) + 1 \in 2..Len(G) /\ Len(H) + 1 \in 1..Len(G)
      BY <1>2, <1>7, <1>13
    <3>3. (p + (Len(H) + 1)) - 1 = off[e + 1] + 1
      <4>1. \A a, b \in Nat : ((a + 1) + (b + 1)) - 1 = (a + b) + 1
        OBVIOUS
      <4> QED
        BY <1>5, <1>7, <3>1, <4>1
    <3>4. s[(p + (Len(H) + 1)) - 1] = G[Len(H) + 1]
      BY <1>3, <3>2
    <3>5. off[e + 1] + 1 <= Len(s)
      <4>1. p + Len(G) <= Len(s) + 1
        BY <1>3
      <4>2. p = off[m] + 1 /\ Len(H) < Len(G)
        BY <1>2, <1>5, <1>7, <1>13
      <4> QED
        BY <1>1, <1>2, <1>7, <3>1, <4>1, <4>2
    <3> QED
      BY <1>2, <3>2, <3>4, <3>5, <3>3
  <2>5. e # Len(action)
    <3>1. SUFFICES ASSUME e = Len(action) PROVE FALSE
      OBVIOUS
    <3>2. Len(s) = off[e + 1]
      BY <1>1, <3>1, PiecesTyped DEF LaidOut
    <3> QED
      BY <1>1, <2>4, <3>2
  <2>6. e + 1 \in 1..Len(action) /\ m \in 1..Len(action) /\ e + 1 <= Len(action)
    BY <1>1, <1>5, <1>8, <2>5
  <2>7. e + 1 \in R
    <3>1. SUFFICES ASSUME e + 1 \notin R PROVE FALSE
      OBVIOUS
    <3>2. Pieces(R, {})[e + 1] = <<action[e + 1]>>
      BY <1>1, <1>5, <1>6, <2>6, <3>1, KeptGroup DEF e
    <3>3. s[off[e + 1] + 1] = action[e + 1]
      BY <1>1, <2>6, <3>2, SingleAt
    <3> QED
      BY <1>9, <2>4, <2>5, <3>3
  <2>8. \A k \in Starts : ~IsPrefix(H, Group(action, k))
    <3>1. e + 1 \in Starts
      BY <2>7
    <3> QED
      BY <1>6, <2>3, <3>1 DEF Ready, Proper, NoneJoined, Starts, H, e
  <2> QED
    BY <2>2, <2>8 DEF G
<1> QED
  BY <1>2, <1>7, <1>12, <1>13

\* A placeholder that has not been replaced occurs in the text.
LEMMA PlaceholderOccurs ==
  ASSUME ArgsTyped, NEW R \in SUBSET Starts, NEW s \in Texts, NEW off,
         LaidOut(s, Pieces(R, {}), off), NEW m \in Starts \ R
  PROVE  off[m] + 1 \in Occurrences(Group(action, m), s)
<1> DEFINE G == Group(action, m)
           e == GroupEnd(action, m)
<1>1. m \in Dollars(action) /\ m \notin R /\ Len(s) \in Nat /\ Len(action) \in Nat
  BY DEF Starts, Placeholders, ArgsTyped, Texts
<1>2. GroupAt(s, off, m)
  BY <1>1, GroupStillThere
<1>3. /\ m \in 1..Len(action) /\ e \in m..Len(action) /\ off[m] \in Nat
      /\ \A x \in m..e : s[(off[m] + 1) + (x - m)] = action[x]
      /\ off[e + 1] = off[m] + ((e + 1) - m)
      /\ off[e + 1] <= Len(s)
  BY <1>2 DEF GroupAt
<1>4. /\ G \in Texts /\ Len(G) \in Nat /\ Len(G) >= 1 /\ Len(G) = (e + 1) - m
      /\ \A k \in 1..Len(G) : G[k] = action[(m + k) - 1]
  BY <1>1, GroupShape
<1> HIDE DEF G, e
<1>5. off[m] + 1 \in Nat /\ off[m] + 1 >= 1 /\ (off[m] + 1) + Len(G) <= Len(s) + 1
  <2>1. off[m] + Len(G) <= Len(s)
    BY <1>3, <1>4
  <2> QED
    BY <1>1, <1>3, <1>4, <2>1
<1>6. ASSUME NEW k \in 1..Len(G) PROVE s[((off[m] + 1) + k) - 1] = G[k]
  <2>1. (m + k) - 1 \in m..e
    BY <1>1, <1>3, <1>4
  <2>2. (off[m] + 1) + (((m + k) - 1) - m) = ((off[m] + 1) + k) - 1
    BY <1>1, <1>3, <1>4
  <2> QED
    BY <1>3, <1>4, <2>1, <2>2
<1>7. off[m] + 1 \in Occurrences(G, s)
  BY <1>4, <1>5, <1>6, OccurrenceText
<1> QED
  BY <1>7 DEF G

\* Replacing a placeholder in the text replaces it among the pieces.
LEMMA PlaceholderReplaced ==
  ASSUME ArgsTyped, NEW R \in SUBSET Starts, NEW s \in Texts, NEW off,
         LaidOut(s, Pieces(R, {}), off), NEW m \in Starts \ R
  PROVE  LET t == ReplaceSubSeqAt(off[m] + 1, TextFor(Group(action, m)), Group(action, m), s)
         IN t \in Texts /\ \E off2 : LaidOut(t, Pieces(R \cup {m}, {}), off2)
<1> DEFINE G == Group(action, m)
           e == GroupEnd(action, m)
           P == Pieces(R, {})
           Q == Pieces(R \cup {m}, {})
<1>1. m \in Dollars(action) /\ m \notin R /\ Len(action) \in Nat /\ m \in 1..Len(action) /\ action[m] = "$"
      /\ action \in Texts
  BY DEF Starts, Placeholders, Dollars, ArgsTyped, Texts
<1>2. GroupAt(s, off, m)
  BY <1>1, GroupStillThere
<1>3. e \in m..Len(action) /\ off[m] \in Nat /\ off[e + 1] = off[m] + ((e + 1) - m)
  BY <1>2 DEF GroupAt
<1>4. G \in Texts /\ Len(G) = (e + 1) - m
  BY <1>1, GroupShape
<1>5. \A x \in (m + 1)..e : action[x] \in GroupChars
  BY <1>1, GroupEnds
<1>6. /\ P \in Seq(Texts) /\ Len(P) = Len(action)
      /\ Q \in Seq(Texts) /\ Len(Q) = Len(action)
  BY PiecesTyped
<1>7. Q[m] = TextFor(G)
  BY <1>1, PieceOf
<1> HIDE DEF e
<1>8. ASSUME NEW x \in m..e, x # m PROVE Q[x] = <<>>
  <2>1. x \in 1..Len(action) /\ x \in (m + 1)..e
    BY <1>1, <1>3, <1>8
  <2>2. x \notin R \cup {m}
    BY <1>5, <1>8, <2>1, GroupCharacters DEF Starts, Placeholders, Dollars
  <2>3. Inside(R \cup {m}, x)
    <3>1. m < x /\ x <= GroupEnd(action, m)
      BY <1>1, <1>3, <2>1 DEF e
    <3> QED
      BY <3>1 DEF Inside
  <2> QED
    BY <2>1, <2>2, <2>3, PieceOf
<1>9. ASSUME NEW x \in 1..Len(action), x \notin m..e PROVE Q[x] = P[x]
  <2>1. x # m
    BY <1>1, <1>3, <1>9
  <2>2. ~(m < x /\ x <= GroupEnd(action, m))
    BY <1>1, <1>3, <1>9 DEF e
  <2>3. (x \in R \cup {m} <=> x \in R) /\ (Inside(R \cup {m}, x) <=> Inside(R, x))
    BY <2>1, <2>2 DEF Inside
  <2> QED
    BY <2>3 DEF Pieces, Inside
<1> HIDE DEF G, P, Q
<1>10. Differ(P, Q, m, e, m)
  BY <1>1, <1>3, <1>6, <1>8, <1>9 DEF Differ
<1>11. off[m] + Len(G) = off[e + 1]
  BY <1>3, <1>4
<1>12. LaidOut(s, P, off)
  BY DEF P
<1>13. LET t == ReplaceSubSeqAt(off[m] + 1, Q[m], G, s)
       IN t \in Texts /\ \E off2 : LaidOut(t, Q, off2)
  BY <1>4, <1>6, <1>10, <1>11, <1>12, PiecesReplaced
<1> QED
  BY <1>7, <1>13 DEF G, Q

\* The text of an escaped dollar.
LEMMA EscapedText ==
  /\ Escaped \in Texts /\ Len(Escaped) = 2 /\ Escaped[1] = "\\" /\ Escaped[2] = "$"
<1>1. ASSUME NEW c \in Characters, NEW d \in Characters
      PROVE  <<c, d>> \in Seq(Characters) /\ Len(<<c, d>>) = 2 /\ <<c, d>>[1] = c /\ <<c, d>>[2] = d
  OBVIOUS
<1>2. "\\" \in Characters /\ "$" \in Characters
  BY TextsAssumption
<1> QED
  BY <1>1, <1>2 DEF Escaped, Texts

\* Where an escaped dollar occurs in the text, it is one of the action's whose
\* escape has not been removed.
LEMMA OccurrenceIsEscape ==
  ASSUME Ready, NEW U \in SUBSET Escapes, NEW s \in Texts, NEW off,
         LaidOut(s, Pieces(Starts, U), off), NEW p \in Occurrences(Escaped, s)
  PROVE  \E m \in 1..Len(action) :
           /\ m + 1 \in Escapes \ U /\ action[m] = "\\" /\ p = off[m] + 1
<1>1. ArgsTyped /\ Len(action) \in Nat /\ Len(s) \in Nat /\ action \in Texts
  BY DEF Ready, ArgsTyped, Texts
<1>2. p \in 1..Len(s) /\ p + 1 \in 1..Len(s) /\ s[p] = "\\" /\ s[p + 1] = "$" /\ p \in Nat
  <2>1. p \in Nat /\ p >= 1 /\ p + 2 <= Len(s) + 1
    BY EscapedText, OccurrenceInside
  <2>2. \A k \in 1..2 : s[(p + k) - 1] = Escaped[k]
    <3>1. Escaped \in Texts /\ Len(Escaped) = 2
      BY EscapedText
    <3>2. \A k \in 1..Len(Escaped) : s[(p + k) - 1] = Escaped[k]
      BY <2>1, <3>1, OccurrenceText
    <3> QED
      BY <3>1, <3>2
  <2>3. (p + 1) - 1 = p /\ (p + 2) - 1 = p + 1
    BY <2>1
  <2> QED
    BY <1>1, <2>1, <2>2, <2>3, EscapedText
<1>3. PICK m \in 1..Len(action) : StandsAt(Starts, U, off, p, m) /\ action[m] = "\\"
  <2>1. Stands(Starts, U, s, off, p)
    BY <1>2, SpecialAt
  <2> QED
    BY <1>2, <2>1 DEF Stands
<1>4. PICK n \in 1..Len(action) : StandsAt(Starts, U, off, p + 1, n) /\ action[n] = "$"
  <2>1. Stands(Starts, U, s, off, p + 1)
    BY <1>2, SpecialAt
  <2> QED
    BY <1>2, <2>1 DEF Stands
<1>5. off[m] \in Nat /\ off[m + 1] = off[m] + 1 /\ p = off[m] + 1
  BY <1>1, <1>3, SingleAt DEF StandsAt
<1>6. off[n] \in Nat /\ off[n + 1] = off[n] + 1 /\ off[n] = off[m + 1]
  <2>1. off[n] \in Nat /\ off[n + 1] = off[n] + 1
    BY <1>1, <1>4, SingleAt DEF StandsAt
  <2>2. p + 1 = off[n] + 1
    BY <1>4 DEF StandsAt
  <2>3. \A a, b \in Nat : (a + 1) + 1 = b + 1 => b = a + 1
    OBVIOUS
  <2>4. off[n] = off[m] + 1
    BY <1>5, <2>1, <2>2, <2>3
  <2> QED
    BY <1>5, <2>1, <2>4
<1>7. m < n
  <2>1. SUFFICES ASSUME n <= m PROVE FALSE
    OBVIOUS
  <2>2. off[n] <= off[m]
    BY <1>1, <2>1, OffsetsOrdered
  <2> QED
    BY <1>5, <1>6, <2>2
<1>8. n \in Escapes /\ n > 1 /\ action[n - 1] = "\\"
  BY <1>4 DEF StandsAt, Escapes, Starts, Placeholders, Dollars, IsEscaped
<1>9. n = m + 1
  <2>1. SUFFICES ASSUME m + 1 < n PROVE FALSE
    BY <1>7
  <2>2. /\ m + 1 \in 1..Len(action) /\ (m + 1) + 1 \in 1..(Len(action) + 1)
        /\ n \in 1..(Len(action) + 1) /\ (m + 1) + 1 <= n
    BY <1>1, <2>1
  <2>3. action[m + 1] # "\\"
    <3>1. SUFFICES ASSUME action[m + 1] = "\\" PROVE FALSE
      OBVIOUS
    <3> DEFINE w == <<"\\", "\\">>
    <3>2. w \in Texts /\ Len(w) = 2 /\ w[1] = "\\" /\ w[2] = "\\"
      <4>1. ASSUME NEW c \in Characters
            PROVE  <<c, c>> \in Seq(Characters) /\ Len(<<c, c>>) = 2 /\ <<c, c>>[1] = c /\ <<c, c>>[2] = c
        OBVIOUS
      <4> QED
        BY <4>1, TextsAssumption DEF Texts
    <3> HIDE DEF w
    <3>3. \A k \in 1..Len(w) : action[(m + k) - 1] = w[k]
      <4>1. (m + 1) - 1 = m /\ (m + 2) - 1 = m + 1
        OBVIOUS
      <4> QED
        BY <1>3, <3>1, <3>2, <4>1
    <3>4. m \in Nat /\ m >= 1 /\ m + Len(w) <= Len(action) + 1
      BY <1>1, <2>2, <3>2
    <3>5. m \in Occurrences(w, action)
      BY <1>1, <3>2, <3>3, <3>4, OccurrenceText
    <3> QED
      BY <3>5 DEF Ready, Proper, WellWritten, w
  <2>4. Pieces(Starts, U)[m + 1] = <<action[m + 1]>>
    BY <1>1, <1>3, <2>2, <2>3, AfterBackslash
  <2>5. off[(m + 1) + 1] = off[m + 1] + 1
    BY <1>1, <2>2, <2>4, SingleAt
  <2>6. off[(m + 1) + 1] <= off[n]
    BY <1>1, <2>2, OffsetsOrdered
  <2> QED
    BY <1>5, <1>6, <2>5, <2>6
<1>10. m + 1 \notin U
  <2>1. SUFFICES ASSUME m + 1 \in U PROVE FALSE
    OBVIOUS
  <2>2. m \notin Starts /\ ~Inside(Starts, m)
    BY <1>1, <1>3, GroupCharacters, InsideGroup DEF StandsAt
  <2>3. Pieces(Starts, U)[m] = <<>>
    BY <1>3, <2>1, <2>2, PieceOf
  <2>4. \A c : <<c>> # <<>>
    OBVIOUS
  <2>5. Pieces(Starts, U)[m] = <<action[m]>>
    BY <1>3 DEF StandsAt
  <2> QED
    BY <2>3, <2>4, <2>5, Zenon
<1> QED
  BY <1>3, <1>5, <1>8, <1>9, <1>10

\* An escape that has not been removed stands in the text.
LEMMA EscapeOccurs ==
  ASSUME ArgsTyped, NEW U \in SUBSET Escapes, NEW s \in Texts, NEW off,
         LaidOut(s, Pieces(Starts, U), off),
         NEW m \in 1..Len(action), m + 1 \in Escapes \ U
  PROVE  /\ off[m] + 1 \in Occurrences(Escaped, s)
         /\ off[m] \in Nat /\ off[(m + 1) + 1] = off[m] + 2
         /\ action[m] = "\\" /\ m + 1 \in 1..Len(action) /\ action[m + 1] = "$"
<1>1. /\ m + 1 \in 1..Len(action) /\ action[m + 1] = "$" /\ action[m] = "\\"
      /\ action[m + 1] # "\\" /\ Len(action) \in Nat /\ Len(s) \in Nat
  <2>1. (m + 1) - 1 = m
    OBVIOUS
  <2> QED
    BY <2>1, GroupCharacters DEF Escapes, Placeholders, Dollars, IsEscaped, ArgsTyped, Texts
<1>2. Pieces(Starts, U)[m] = <<action[m]>>
  BY <1>1, BackslashKept
<1>3. Pieces(Starts, U)[m + 1] = <<action[m + 1]>>
  BY <1>1, AfterBackslash
<1>4. off[m] \in Nat /\ off[m + 1] = off[m] + 1 /\ s[off[m] + 1] = "\\"
  BY <1>1, <1>2, SingleAt
<1>5. off[(m + 1) + 1] = off[m + 1] + 1 /\ s[off[m + 1] + 1] = "$" /\ off[(m + 1) + 1] <= Len(s)
  BY <1>1, <1>3, SingleAt
<1>6. off[m] + 1 \in Occurrences(Escaped, s)
  <2>1. off[m] + 1 \in Nat /\ off[m] + 1 >= 1 /\ (off[m] + 1) + Len(Escaped) <= Len(s) + 1
    <3>1. Len(Escaped) = 2 /\ off[m] \in Nat /\ Len(s) \in Nat
      BY <1>1, <1>4, EscapedText
    <3>2. off[(m + 1) + 1] = off[m] + 2
      BY <1>4, <1>5
    <3>3. \A a, l \in Nat : a + 2 <= l => a + 1 \in Nat /\ a + 1 >= 1 /\ (a + 1) + 2 <= l + 1
      OBVIOUS
    <3> QED
      BY <1>5, <3>1, <3>2, <3>3
  <2>2. \A k \in 1..Len(Escaped) : s[((off[m] + 1) + k) - 1] = Escaped[k]
    <3>1. ((off[m] + 1) + 1) - 1 = off[m] + 1 /\ ((off[m] + 1) + 2) - 1 = off[m + 1] + 1
      BY <1>4
    <3>2. \A k \in 1..2 : k = 1 \/ k = 2
      OBVIOUS
    <3> QED
      BY <1>4, <1>5, <3>1, <3>2, EscapedText
  <2> QED
    BY <2>1, <2>2, EscapedText, OccurrenceText
<1>7. off[(m + 1) + 1] = off[m] + 2
  BY <1>4, <1>5
<1> QED
  BY <1>1, <1>4, <1>6, <1>7

\* Removing an escape from the text removes it among the pieces.
LEMMA EscapeRemoved ==
  ASSUME ArgsTyped, NEW U \in SUBSET Escapes, NEW s \in Texts, NEW off,
         LaidOut(s, Pieces(Starts, U), off),
         NEW m \in 1..Len(action), m + 1 \in Escapes \ U
  PROVE  LET t == ReplaceSubSeqAt(off[m] + 1, <<"$">>, Escaped, s)
         IN t \in Texts /\ \E off2 : LaidOut(t, Pieces(Starts, U \cup {m + 1}), off2)
<1> DEFINE P == Pieces(Starts, U)
           Q == Pieces(Starts, U \cup {m + 1})
<1>1. /\ off[m] \in Nat /\ off[(m + 1) + 1] = off[m] + 2
      /\ action[m] = "\\" /\ m + 1 \in 1..Len(action) /\ action[m + 1] = "$" /\ action[m + 1] # "\\"
  BY EscapeOccurs, GroupCharacters
<1>2. /\ P \in Seq(Texts) /\ Len(P) = Len(action)
      /\ Q \in Seq(Texts) /\ Len(Q) = Len(action)
  BY PiecesTyped
<1>3. Q[m + 1] = <<"$">>
  <2>1. Q[m + 1] = <<action[m + 1]>>
    BY <1>1, AfterBackslash
  <2> QED
    BY <1>1, <2>1
<1>4. Q[m] = <<>>
  <2>1. m \notin Starts /\ ~Inside(Starts, m)
    BY <1>1, GroupCharacters, InsideGroup DEF Starts, Placeholders, Dollars
  <2> QED
    BY <1>1, <2>1, PieceOf
<1>5. ASSUME NEW x \in 1..Len(action), x \notin m..(m + 1) PROVE Q[x] = P[x]
  <2>1. x + 1 # m + 1
    BY <1>5
  <2>2. x + 1 \in U \cup {m + 1} <=> x + 1 \in U
    BY <2>1
  <2> QED
    BY <2>2 DEF Pieces
<1> HIDE DEF P, Q
<1>6. Differ(P, Q, m, m + 1, m + 1)
  <2>1. m + 1 \in m..(m + 1) /\ m \in 1..Len(P) /\ m + 1 \in m..Len(P)
    BY <1>1, <1>2
  <2>2. ASSUME NEW x \in m..(m + 1), x # m + 1 PROVE Q[x] = <<>>
    <3>1. x = m
      BY <2>2
    <3> QED
      BY <1>4, <3>1
  <2> QED
    BY <1>2, <1>5, <2>1, <2>2 DEF Differ
<1>7. Escaped \in Texts /\ off[m] + Len(Escaped) = off[(m + 1) + 1]
  BY <1>1, EscapedText
<1>8. LaidOut(s, P, off)
  BY DEF P
<1>9. LET t == ReplaceSubSeqAt(off[m] + 1, Q[m + 1], Escaped, s)
      IN t \in Texts /\ \E off2 : LaidOut(t, Q, off2)
  BY <1>2, <1>6, <1>7, <1>8, PiecesReplaced
<1> QED
  BY <1>3, <1>9 DEF Q

-----------------------------------------------------------------------------
(* The inductive invariant                                                 *)

\* The text is the action with the placeholders in R replaced and the dollars
\* in U unescaped.
Spells(s, R, U) == s \in Texts /\ \E off : LaidOut(s, Pieces(R, U), off)

\* Before and between the replacements, during one, while the escapes are
\* removed, and at the end.
Matching(s) == \E R \in SUBSET Starts : Done(R) /\ Spells(s, R, {})

Replacing(s, g, r) ==
  \E R \in SUBSET Starts : \E i \in Starts :
    /\ g = Group(action, i) /\ r = TextFor(g)
    /\ Done(R \cup {k \in Starts : Group(action, k) = g})
    /\ Spells(s, R, {})

Unescaping(s, g, r) ==
  /\ g = Escaped /\ r = <<"$">>
  /\ \E U \in SUBSET Escapes : Spells(s, Starts, U)

Phase(c, s, g, r) ==
  \/ c = "match" /\ Matching(s)
  \/ c = "replace" /\ Replacing(s, g, r)
  \/ c = "unescape" /\ Unescaping(s, g, r)
  \/ c = "done" /\ Spells(s, Starts, Escapes)

TextInv ==
  ArgsTyped /\ ((Proper(action) /\ PlainTexts) => Phase(pc, result, search, replace))

\* FindGroup starts with the first placeholder that is left, or with the escapes.
LEMMA FindGroupPhase ==
  ASSUME Ready, pc = "match", Phase(pc, result, search, replace), FindGroup
  PROVE  Phase(pc', result', search', replace')
<1>1. PICK R \in SUBSET Starts : Done(R) /\ Spells(result, R, {})
  BY DEF Phase, Matching
<1>2. PICK off : LaidOut(result, Pieces(R, {}), off)
  BY <1>1 DEF Spells
<1>3. result \in Texts /\ result' = result
  BY <1>1 DEF Spells, FindGroup
<1>4. CASE GroupStarts(result) # {}
  <2>1. /\ search' = Group(result, First(GroupStarts(result)))
        /\ replace' = TextFor(search') /\ pc' = "replace"
    BY <1>4 DEF FindGroup
  <2>2. PICK i \in Starts \ R : /\ search' = Group(action, i)
                                /\ \A l \in Starts \ R : i <= l
    BY <1>1, <1>2, <1>3, <1>4, <2>1, FirstGroup
  <2>3. Done(R \cup {k \in Starts : Group(action, k) = search'})
    BY <1>1, <2>2, DoneNext
  <2>4. Replacing(result', search', replace')
    BY <1>1, <1>3, <2>1, <2>2, <2>3 DEF Replacing
  <2> QED
    BY <2>1, <2>4 DEF Phase
<1>5. CASE GroupStarts(result) = {}
  <2>1. search' = Escaped /\ replace' = <<"$">> /\ pc' = "unescape"
    BY <1>5 DEF FindGroup
  <2>2. R = Starts
    BY <1>1, <1>2, <1>3, <1>5, FirstGroup
  <2>3. Unescaping(result', search', replace')
    BY <1>1, <1>3, <2>1, <2>2 DEF Unescaping
  <2> QED
    BY <2>1, <2>3 DEF Phase
<1> QED
  BY <1>4, <1>5

\* ReplaceOne replaces a placeholder, or removes an escape.
LEMMA ReplaceOnePhase ==
  ASSUME Ready, Phase(pc, result, search, replace), ReplaceOne
  PROVE  Phase(pc', result', search', replace')
<1> DEFINE p == First(Occurrences(search, result))
<1>1. p \in Occurrences(search, result)
  <2>1. Occurrences(search, result) \in SUBSET Nat /\ Occurrences(search, result) # {}
    BY DEF Occurrences, ReplaceOne
  <2> QED
    BY <2>1, LeastMember
<1>2. /\ pc \in {"replace", "unescape"} /\ pc' = pc /\ search' = search /\ replace' = replace
      /\ result' = ReplaceSubSeqAt(p, replace, search, result)
  BY DEF ReplaceOne
<1>3. ArgsTyped
  BY DEF Ready
<1> HIDE DEF p
<1>4. CASE pc = "replace"
  <2>1. Replacing(result, search, replace)
    BY <1>4 DEF Phase
  <2>2. PICK R \in SUBSET Starts, i \in Starts :
          /\ search = Group(action, i) /\ replace = TextFor(search)
          /\ Done(R \cup {k \in Starts : Group(action, k) = search})
          /\ Spells(result, R, {})
    BY <2>1 DEF Replacing
  <2>3. PICK off : LaidOut(result, Pieces(R, {}), off)
    BY <2>2 DEF Spells
  <2>4. result \in Texts
    BY <2>2 DEF Spells
  <2>5. PICK m \in Starts \ R : Group(action, m) = search /\ p = off[m] + 1
    BY <1>1, <2>2, <2>3, <2>4, OccurrenceIsPlaceholder
  <2>6. result' = ReplaceSubSeqAt(off[m] + 1, TextFor(Group(action, m)), Group(action, m), result)
    BY <1>2, <2>2, <2>5
  <2>7. Spells(result', R \cup {m}, {})
    BY <1>3, <2>3, <2>4, <2>6, PlaceholderReplaced DEF Spells
  <2>8. (R \cup {m}) \cup {k \in Starts : Group(action, k) = search}
          = R \cup {k \in Starts : Group(action, k) = search}
    BY <2>5
  <2>9. Replacing(result', search, replace)
    BY <2>2, <2>5, <2>7, <2>8 DEF Replacing
  <2> QED
    BY <1>2, <1>4, <2>9 DEF Phase
<1>5. CASE pc = "unescape"
  <2>1. PICK U \in SUBSET Escapes : Spells(result, Starts, U)
    BY <1>5 DEF Phase, Unescaping
  <2>2. search = Escaped /\ replace = <<"$">>
    BY <1>5 DEF Phase, Unescaping
  <2>3. PICK off : LaidOut(result, Pieces(Starts, U), off)
    BY <2>1 DEF Spells
  <2>4. result \in Texts
    BY <2>1 DEF Spells
  <2>5. PICK m \in 1..Len(action) : m + 1 \in Escapes \ U /\ p = off[m] + 1
    BY <1>1, <2>2, <2>3, <2>4, OccurrenceIsEscape
  <2>6. Spells(result', Starts, U \cup {m + 1})
    BY <1>2, <1>3, <2>2, <2>3, <2>4, <2>5, EscapeRemoved DEF Spells
  <2>7. Unescaping(result', search, replace)
    BY <2>2, <2>5, <2>6 DEF Unescaping
  <2> QED
    BY <1>2, <1>5, <2>7 DEF Phase
<1> QED
  BY <1>2, <1>4, <1>5

\* When nothing is left to be replaced, every equal placeholder or every escape
\* has been.
LEMMA ReplaceReturnsPhase ==
  ASSUME Ready, Phase(pc, result, search, replace), ReplaceReturns
  PROVE  Phase(pc', result', search', replace')
<1>1. /\ pc \in {"replace", "unescape"} /\ Occurrences(search, result) = {}
      /\ pc' = IF pc = "replace" THEN "match" ELSE "done"
      /\ search' = search /\ replace' = replace /\ result' = result
  BY DEF ReplaceReturns
<1>2. ArgsTyped
  BY DEF Ready
<1>3. CASE pc = "replace"
  <2>1. Replacing(result, search, replace)
    BY <1>3 DEF Phase
  <2>2. PICK R \in SUBSET Starts, i \in Starts :
          /\ search = Group(action, i) /\ replace = TextFor(search)
          /\ Done(R \cup {k \in Starts : Group(action, k) = search})
          /\ Spells(result, R, {})
    BY <2>1 DEF Replacing
  <2>3. PICK off : LaidOut(result, Pieces(R, {}), off)
    BY <2>2 DEF Spells
  <2>4. result \in Texts
    BY <2>2 DEF Spells
  <2>5. ASSUME NEW k \in Starts, Group(action, k) = search, k \notin R PROVE FALSE
    <3>1. off[k] + 1 \in Occurrences(Group(action, k), result)
      BY <1>2, <2>3, <2>4, <2>5, PlaceholderOccurs
    <3> QED
      BY <1>1, <2>5, <3>1
  <2>6. R \cup {k \in Starts : Group(action, k) = search} = R
    BY <2>5
  <2>7. Matching(result)
    BY <2>2, <2>6 DEF Matching
  <2> QED
    BY <1>1, <1>3, <2>7 DEF Phase
<1>4. CASE pc = "unescape"
  <2>1. PICK U \in SUBSET Escapes : Spells(result, Starts, U)
    BY <1>4 DEF Phase, Unescaping
  <2>2. search = Escaped
    BY <1>4 DEF Phase, Unescaping
  <2>3. PICK off : LaidOut(result, Pieces(Starts, U), off)
    BY <2>1 DEF Spells
  <2>4. result \in Texts
    BY <2>1 DEF Spells
  <2>5. ASSUME NEW k \in Escapes, k \notin U PROVE FALSE
    <3>1. k - 1 \in 1..Len(action) /\ (k - 1) + 1 = k
      BY <1>2 DEF Escapes, Placeholders, Dollars, IsEscaped, ArgsTyped, Texts
    <3>2. off[k - 1] + 1 \in Occurrences(Escaped, result)
      BY <1>2, <2>3, <2>4, <2>5, <3>1, EscapeOccurs
    <3> QED
      BY <1>1, <2>2, <3>2
  <2>6. U = Escapes
    BY <2>5
  <2> QED
    BY <1>1, <1>4, <2>1, <2>6 DEF Phase
<1> QED
  BY <1>1, <1>3, <1>4

\* What is said of the pieces depends on the arguments only.
LEMMA SameArgs ==
  ASSUME args' = args
  PROVE  /\ ArgsTyped' = ArgsTyped /\ (Proper(action) /\ PlainTexts)' = (Proper(action) /\ PlainTexts)
         /\ Starts' = Starts /\ Escapes' = Escapes
<1>1. action' = action /\ line' = line /\ matches' = matches
  BY DEF args
<1>2. Starts' = Starts /\ Escapes' = Escapes
  BY <1>1 DEF Starts, Escapes
<1>3. ArgsTyped' = ArgsTyped
  BY <1>1 DEF ArgsTyped
<1>4. (Proper(action) /\ PlainTexts)' = (Proper(action) /\ PlainTexts)
  BY <1>1 DEF PlainTexts
<1> QED
  BY <1>2, <1>3, <1>4

\* So do the pieces, and which placeholders may have been replaced.
LEMMA SamePieces ==
  ASSUME args' = args, NEW CONSTANT R, NEW CONSTANT U
  PROVE  Pieces(R, U)' = Pieces(R, U) /\ Done(R)' = Done(R)
<1>1. action' = action /\ line' = line /\ matches' = matches
  BY DEF args
<1>2. Pieces(R, U)' = Pieces(R, U)
  <2>1. ASSUME NEW CONSTANT x PROVE TextFor(Group(action, x))' = TextFor(Group(action, x))
    BY <1>1 DEF TextFor
  <2> QED
    BY <1>1, <2>1 DEF Pieces
<1>3. Done(R)' = Done(R)
  BY <1>1, SameArgs DEF Done
<1> QED
  BY <1>2, <1>3

\* A step that keeps the arguments and leads from one phase to another keeps
\* the invariant.
LEMMA PhaseKept ==
  ASSUME Ready, args' = args, Phase(pc', result', search', replace')
  PROVE  TextInv'
<1>1. Ready /\ ArgsTyped'
  BY SameArgs DEF Ready
<1>2. /\ \A R, U : Pieces(R, U)' = Pieces(R, U) /\ Done(R)' = Done(R)
      /\ Starts' = Starts /\ Escapes' = Escapes
  BY SamePieces, SameArgs
<1>3. action' = action /\ line' = line /\ matches' = matches
  BY DEF args
<1>4. CASE pc' = "match" /\ Matching(result')
  <2>1. PICK R \in SUBSET Starts : Done(R) /\ Spells(result', R, {})
    BY <1>4 DEF Matching
  <2>2. Done(R)' /\ Spells(result, R, {})'
    BY <1>2, <2>1 DEF Spells
  <2>3. Matching(result)'
    BY <1>2, <2>2 DEF Matching
  <2> QED
    BY <1>1, <1>4, <2>3 DEF TextInv, Phase
<1>5. CASE pc' = "replace" /\ Replacing(result', search', replace')
  <2>1. PICK R \in SUBSET Starts, i \in Starts :
          /\ search' = Group(action, i) /\ replace' = TextFor(search')
          /\ Done(R \cup {k \in Starts : Group(action, k) = search'})
          /\ Spells(result', R, {})
    BY <1>5 DEF Replacing
  <2>2. Spells(result, R, {})' /\ Done(R \cup {k \in Starts : Group(action, k) = search})'
    BY <1>2, <1>3, <2>1 DEF Spells
  <2>3. (search = Group(action, i) /\ replace = TextFor(search))'
    BY <1>3, <2>1 DEF TextFor
  <2>4. Replacing(result, search, replace)'
    BY <1>2, <2>2, <2>3 DEF Replacing
  <2> QED
    BY <1>1, <1>5, <2>4 DEF TextInv, Phase
<1>6. CASE pc' = "unescape" /\ Unescaping(result', search', replace')
  <2>1. PICK U \in SUBSET Escapes : Spells(result', Starts, U)
    BY <1>6 DEF Unescaping
  <2>2. Spells(result, Starts, U)'
    BY <1>2, <2>1 DEF Spells
  <2>3. Unescaping(result, search, replace)'
    BY <1>2, <1>6, <2>2 DEF Unescaping
  <2> QED
    BY <1>1, <1>6, <2>3 DEF TextInv, Phase
<1>7. CASE pc' = "done" /\ Spells(result', Starts, Escapes)
  <2>1. Spells(result, Starts, Escapes)'
    BY <1>2, <1>7 DEF Spells
  <2> QED
    BY <1>1, <1>7, <2>1 DEF TextInv, Phase
<1> QED
  BY <1>4, <1>5, <1>6, <1>7 DEF Phase

-----------------------------------------------------------------------------
(* The theorems                                                            *)

\* The arguments are texts.
LEMMA InitTyped == Init => ArgsTyped
BY TextsAssumption DEF Init, ArgsTyped, Texts

\* At first the text is the action.
LEMMA InitTextInv == Init => TextInv
<1> SUFFICES ASSUME Init PROVE TextInv
  OBVIOUS
<1>1. ArgsTyped /\ pc = "match" /\ result = action
  BY InitTyped DEF Init
<1> DEFINE P == Pieces({}, {})
           off == [i \in 1..(Len(P) + 1) |-> i - 1]
<1>2. P \in Seq(Texts) /\ Len(P) = Len(action) /\ Len(action) \in Nat /\ action \in Texts
  BY <1>1, PiecesTyped DEF ArgsTyped, Texts
<1>3. ASSUME NEW x \in 1..Len(action)
      PROVE  Len(P[x]) = 1 /\ \A k \in 1..Len(P[x]) : P[x][k] = action[x]
  <2>1. P[x] = <<action[x]>>
    BY PieceOf DEF Inside
  <2>2. action[x] \in Characters
    BY <1>2 DEF Texts
  <2>3. Len(<<action[x]>>) = 1 /\ \A k \in 1..Len(<<action[x]>>) : <<action[x]>>[k] = action[x]
    BY <2>2, OneCharacter
  <2> QED
    BY <2>1, <2>3
<1> HIDE DEF P
<1>4. off \in [1..(Len(P) + 1) -> Nat] /\ \A i \in 1..(Len(P) + 1) : off[i] = i - 1
  BY <1>2
<1> HIDE DEF off
<1>5. Offsets(P, off)
  <2>1. off[1] = 0
    BY <1>2, <1>4
  <2>2. ASSUME NEW i \in 1..Len(P) PROVE off[i + 1] = off[i] + Len(P[i])
    <3>1. off[i + 1] = i /\ off[i] = i - 1
      BY <1>2, <1>4
    <3>2. Len(P[i]) = 1
      BY <1>2, <1>3
    <3> QED
      BY <1>2, <3>1, <3>2
  <2> QED
    BY <1>4, <2>1, <2>2 DEF Offsets
<1>6. \A i \in 1..Len(P) : \A k \in 1..Len(P[i]) : action[off[i] + k] = P[i][k]
  BY <1>2, <1>3, <1>4
<1>7. LaidOut(action, P, off)
  BY <1>2, <1>5, <1>6, <1>4 DEF LaidOut
<1>8. Spells(result, {}, {}) /\ Done({})
  BY <1>1, <1>2, <1>7 DEF Spells, Done, P
<1>9. Matching(result)
  BY <1>8 DEF Matching
<1> QED
  BY <1>1, <1>9 DEF TextInv, Phase

\* Every step keeps the invariant.
LEMMA NextTextInv == TextInv /\ [Next]_vars => TextInv'
<1> SUFFICES ASSUME TextInv, [Next]_vars PROVE TextInv'
  OBVIOUS
<1>1. args' = args
  BY DEF Next, FindGroup, ReplaceOne, ReplaceReturns, vars, args
<1>2. ArgsTyped /\ ArgsTyped'
  BY <1>1, SameArgs DEF TextInv
<1>3. CASE ~(Proper(action) /\ PlainTexts)
  BY <1>1, <1>2, <1>3, SameArgs DEF TextInv
<1>4. CASE Proper(action) /\ PlainTexts
  <2>1. Ready /\ Phase(pc, result, search, replace)
    BY <1>4 DEF TextInv, Ready
  <2>2. Phase(pc', result', search', replace')
    <3>1. CASE FindGroup
      BY <2>1, <3>1, FindGroupPhase DEF FindGroup
    <3>2. CASE ReplaceOne
      BY <2>1, <3>2, ReplaceOnePhase
    <3>3. CASE ReplaceReturns
      BY <2>1, <3>3, ReplaceReturnsPhase
    <3>4. CASE UNCHANGED vars
      BY <2>1, <3>4 DEF vars
    <3> QED
      BY <3>1, <3>2, <3>3, <3>4 DEF Next
  <2> QED
    BY <1>1, <2>1, <2>2, PhaseKept
<1> QED
  BY <1>3, <1>4

\* Of a proper action with plain texts the text is, at every moment, the
\* action with some placeholders replaced and some dollars unescaped: no
\* replacement finds anything in what an earlier one has put there.
THEOREM TextInvariant == Spec => []TextInv
<1>1. Init => TextInv
  BY InitTextInv
<1>2. TextInv /\ [Next]_vars => TextInv'
  BY NextTextInv
<1> QED
  BY <1>1, <1>2, PTL DEF Spec

\* A proper action comes out as README says: every placeholder replaced by its
\* text, every escaped dollar without its backslash, nothing else changed.
THEOREM SubstitutionDocumented == Spec => []SubstitutesAsDocumented
<1>1. TextInv => SubstitutesAsDocumented
  <2> SUFFICES ASSUME TextInv, pc = "done", Proper(action), PlainTexts
               PROVE  result = Documented
    BY DEF SubstitutesAsDocumented
  <2>1. Spells(result, Starts, Escapes)
    BY DEF TextInv, Phase
  <2>2. PICK off : LaidOut(result, Pieces(Starts, Escapes), off)
    BY <2>1 DEF Spells
  <2>3. result \in Texts /\ Pieces(Starts, Escapes) \in Seq(Texts)
    BY <2>1, PiecesTyped DEF Spells, TextInv
  <2>4. result = FlattenSeq(Pieces(Starts, Escapes))
    BY <2>2, <2>3, FlattenPieces
  <2> QED
    BY <2>4 DEF Documented, Starts, Escapes
<1> QED
  BY <1>1, TextInvariant, PTL

-----------------------------------------------------------------------------
(* Each step leaves less to do                                             *)

\* How many dollars there are is a number.
LEMMA DollarsCounted ==
  ASSUME NEW s \in Texts
  PROVE  IsFiniteSet(Dollars(s)) /\ Cardinality(Dollars(s)) \in Nat
<1>1. Len(s) \in Nat /\ Dollars(s) \subseteq 1..Len(s)
  BY DEF Dollars, Texts
<1>2. IsFiniteSet(1..Len(s))
  BY <1>1, FS_Interval
<1>3. IsFiniteSet(Dollars(s))
  BY <1>1, <1>2, FS_Subset
<1> QED
  BY <1>3, FS_CardinalityType

\* Replacing a text that begins with a dollar by one without leaves fewer.
LEMMA FewerDollars ==
  ASSUME NEW t \in Texts, NEW r \in Texts, NEW w \in Texts, NEW p \in Occurrences(w, t),
         Len(w) > 0, w[1] = "$", Dollars(r) = {}
  PROVE  /\ ReplaceSubSeqAt(p, r, w, t) \in Texts
         /\ Cardinality(Dollars(ReplaceSubSeqAt(p, r, w, t))) < Cardinality(Dollars(t))
<1> DEFINE u == ReplaceSubSeqAt(p, r, w, t)
           c == p - 1
           W == Len(w)
           R == Len(r)
           T == Len(t)
           f == [i \in Dollars(u) |-> IF i <= c THEN i ELSE (i + W) - R]
<1>1. /\ c \in Nat /\ W \in Nat /\ R \in Nat /\ T \in Nat /\ c + W <= T /\ 1 <= W
      /\ p = c + 1 /\ p \in 1..T
  <2>1. p \in Nat /\ p >= 1 /\ p + W <= T + 1
    BY OccurrenceInside
  <2>2. W \in Nat /\ R \in Nat /\ T \in Nat
    BY DEF Texts
  <2> QED
    BY <2>1, <2>2
<1>2. t[p] = "$"
  <2>1. p \in Nat /\ p >= 1 /\ p + Len(w) <= Len(t) + 1
    BY OccurrenceInside
  <2>2. \A k \in 1..Len(w) : t[(p + k) - 1] = w[k]
    BY <2>1, OccurrenceText
  <2>3. 1 \in 1..Len(w) /\ (p + 1) - 1 = p
    BY <1>1
  <2> QED
    BY <2>2, <2>3
<1>3. ReplacedIn(u, c, r, w, t)
  BY <1>1, Replaced
<1>4. /\ u \in Texts /\ Len(u) = c + R + (T - (c + W))
      /\ \A k \in 1..c : u[k] = t[k]
      /\ \A k \in 1..R : u[c + k] = r[k]
      /\ \A k \in 1..(T - (c + W)) : u[c + R + k] = t[c + W + k]
  <2> HIDE DEF u, c
  <2> QED
    BY <1>3 DEF ReplacedIn
<1> HIDE DEF u, c, W, R, T
<1>5. ASSUME NEW i \in Dollars(u)
      PROVE  /\ i \in Nat /\ (i <= c \/ c + R < i)
             /\ i <= c => i \in Dollars(t)
             /\ c + R < i => (i + W) - R \in Dollars(t) /\ (i + W) - R > c + W
  <2>1. i \in 1..Len(u) /\ u[i] = "$" /\ i \in Nat /\ i >= 1 /\ i <= c + R + (T - (c + W))
    BY <1>1, <1>4 DEF Dollars
  <2>2. i <= c \/ c + R < i
    <3>1. SUFFICES ASSUME c < i, i <= c + R PROVE FALSE
      BY <1>1, <2>1
    <3>2. i - c \in 1..R /\ c + (i - c) = i
      BY <1>1, <2>1, <3>1
    <3>3. r[i - c] = "$"
      BY <1>4, <2>1, <3>2
    <3> QED
      BY <3>2, <3>3 DEF Dollars, R
  <2>3. ASSUME i <= c PROVE i \in Dollars(t)
    <3>1. i \in 1..c /\ i \in 1..T
      BY <1>1, <2>1, <2>3
    <3>2. t[i] = "$"
      BY <1>4, <2>1, <3>1
    <3> QED
      BY <3>1, <3>2 DEF Dollars, T
  <2>4. ASSUME c + R < i PROVE (i + W) - R \in Dollars(t) /\ (i + W) - R > c + W
    <3> DEFINE k == i - (c + R)
    <3>1. /\ k \in 1..(T - (c + W)) /\ c + R + k = i /\ c + W + k = (i + W) - R
          /\ (i + W) - R > c + W /\ (i + W) - R \in 1..T
      BY <1>1, <2>1, <2>4
    <3> HIDE DEF k
    <3>2. t[(i + W) - R] = "$"
      BY <1>4, <2>1, <3>1
    <3> QED
      BY <3>1, <3>2 DEF Dollars, T
  <2> QED
    BY <2>1, <2>2, <2>3, <2>4
<1>6. ASSUME NEW i \in Dollars(u)
      PROVE  f[i] \in Dollars(t) /\ f[i] # p
  <2>1. f[i] = IF i <= c THEN i ELSE (i + W) - R
    OBVIOUS
  <2>2. CASE i <= c
    BY <1>1, <1>5, <2>1, <2>2
  <2>3. CASE c + R < i
    <3>1. ~(i <= c)
      BY <1>1, <1>5, <2>3
    <3> QED
      BY <1>1, <1>5, <2>1, <2>3, <3>1
  <2> QED
    BY <1>5, <2>2, <2>3
<1>7. ASSUME NEW i \in Dollars(u), NEW j \in Dollars(u), f[i] = f[j] PROVE i = j
  <2>1. /\ f[i] = IF i <= c THEN i ELSE (i + W) - R
        /\ f[j] = IF j <= c THEN j ELSE (j + W) - R
    OBVIOUS
  <2> HIDE DEF f
  <2>2. /\ i \in Nat /\ j \in Nat
        /\ i <= c \/ (i + W) - R > c + W
        /\ j <= c \/ (j + W) - R > c + W
    BY <1>5
  <2>3. CASE i <= c /\ j <= c
    BY <1>7, <2>1, <2>3
  <2>4. CASE ~(i <= c) /\ ~(j <= c)
    <3>1. (i + W) - R = (j + W) - R
      BY <1>7, <2>1, <2>4
    <3> QED
      BY <1>1, <2>2, <3>1
  <2>5. CASE i <= c /\ ~(j <= c)
    <3>1. i = (j + W) - R /\ (j + W) - R > c + W
      BY <1>7, <2>1, <2>2, <2>5
    <3> QED
      BY <1>1, <2>2, <2>5, <3>1
  <2>6. CASE ~(i <= c) /\ j <= c
    <3>1. j = (i + W) - R /\ (i + W) - R > c + W
      BY <1>7, <2>1, <2>2, <2>6
    <3> QED
      BY <1>1, <2>2, <2>6, <3>1
  <2> QED
    BY <2>3, <2>4, <2>5, <2>6
<1>8. f \in Injection(Dollars(u), Dollars(t)) /\ f \notin Surjection(Dollars(u), Dollars(t))
  <2>1. f \in [Dollars(u) -> Dollars(t)]
    BY <1>6
  <2> HIDE DEF f
  <2>2. p \in Dollars(t)
    BY <1>1, <1>2 DEF Dollars, T
  <2> QED
    BY <1>6, <1>7, <2>1, <2>2 DEF Injection, Surjection, IsInjective
<1>9. /\ Cardinality(Dollars(u)) <= Cardinality(Dollars(t))
      /\ Cardinality(Dollars(u)) # Cardinality(Dollars(t))
  <2>1. IsFiniteSet(Dollars(t))
    BY DollarsCounted
  <2> HIDE DEF f
  <2> QED
    BY <1>8, <2>1, FS_Injection
<1>10. Cardinality(Dollars(u)) \in Nat /\ Cardinality(Dollars(t)) \in Nat
  BY <1>4, DollarsCounted
<1> QED
  BY <1>4, <1>9, <1>10 DEF u

\* Removing the backslash of an escape leaves a shorter text.
LEMMA ShorterText ==
  ASSUME NEW t \in Texts, NEW p \in Occurrences(Escaped, t)
  PROVE  /\ ReplaceSubSeqAt(p, <<"$">>, Escaped, t) \in Texts
         /\ Len(ReplaceSubSeqAt(p, <<"$">>, Escaped, t)) < Len(t)
<1> DEFINE u == ReplaceSubSeqAt(p, <<"$">>, Escaped, t)
           c == p - 1
<1>1. Escaped \in Texts /\ Len(Escaped) = 2 /\ <<"$">> \in Texts /\ Len(<<"$">>) = 1
  BY EscapedText, OneCharacter, TextsAssumption
<1>2. c \in Nat /\ p = c + 1 /\ c + 2 <= Len(t) /\ Len(t) \in Nat
  <2>1. p \in Nat /\ p >= 1 /\ p + Len(Escaped) <= Len(t) + 1
    BY <1>1, OccurrenceInside
  <2>2. Len(t) \in Nat
    BY DEF Texts
  <2> QED
    BY <1>1, <2>1, <2>2
<1>3. ReplacedIn(u, c, <<"$">>, Escaped, t)
  BY <1>1, <1>2, Replaced
<1> HIDE DEF u, c
<1>4. u \in Texts /\ Len(u) = c + 1 + (Len(t) - (c + 2))
  BY <1>1, <1>3 DEF ReplacedIn
<1> QED
  BY <1>2, <1>4 DEF u

\* No text holds a dollar.
NoDollars == Dollars(line) = {} /\ \A k \in 1..Len(matches) : Dollars(matches[k]) = {}

\* What the loops replace, and what they replace it with.
LoopInv ==
  /\ ArgsTyped /\ result \in Texts
  /\ pc \in {"match", "replace", "unescape", "done"}
  /\ pc = "replace" =>
       /\ search \in Texts /\ Len(search) > 0 /\ search[1] = "$"
       /\ replace \in Texts /\ (NoDollars => Dollars(replace) = {})
  /\ pc = "unescape" => search = Escaped /\ replace = <<"$">>

\* The loop of run is two stages before the end, the last replaceString one.
Stage == IF pc = "done" THEN 0 ELSE IF pc = "unescape" THEN 1 ELSE 2

\* A placeholder that was found is replaced before the next match.
Turn == IF pc = "match" THEN 1 ELSE IF Occurrences(search, result) = {} THEN 2 ELSE 0

\* What is left to do in a stage.
Left == IF Stage = 2 THEN 3 * Cardinality(Dollars(result)) + Turn ELSE Len(result)

Advances ==
  \/ Stage' < Stage
  \/ Stage' = Stage /\ Left \in Nat /\ Left' \in Nat /\ Left' < Left

\* What replaces a group holds no dollar.
LEMMA NoDollarReplaces ==
  ASSUME ArgsTyped, NEW g
  PROVE  TextFor(g) \in Texts /\ (NoDollars => Dollars(TextFor(g)) = {})
<1>1. TextFor(g) \in Texts
  BY TextsOfGroups
<1> DEFINE n == atoi(Tail(g)) + 1
<1>2. CASE Tail(g) = <<"@">>
  BY <1>1, <1>2 DEF TextFor, NoDollars
<1>3. CASE Tail(g) # <<"@">> /\ n \in DOMAIN matches
  <2>1. TextFor(g) = matches[n]
    BY <1>3 DEF TextFor
  <2> HIDE DEF n
  <2>2. n \in 1..Len(matches)
    BY <1>3 DEF ArgsTyped
  <2> QED
    BY <1>1, <2>1, <2>2 DEF NoDollars
<1>4. CASE Tail(g) # <<"@">> /\ n \notin DOMAIN matches
  <2>1. TextFor(g) = <<" ">>
    BY <1>4 DEF TextFor
  <2>2. \A i \in 1..Len(<<" ">>) : <<" ">>[i] = " "
    BY OneCharacter, TextsAssumption
  <2>3. Dollars(<<" ">>) = {}
    BY <2>2, GroupCharacters DEF Dollars
  <2> QED
    BY <1>1, <2>1, <2>3
<1> QED
  BY <1>2, <1>3, <1>4

\* The group that is found is there and begins with a dollar.
LEMMA GroupFound ==
  ASSUME NEW s \in Texts, GroupStarts(s) # {}
  PROVE  LET g == Group(s, First(GroupStarts(s)))
         IN g \in Texts /\ Len(g) > 0 /\ g[1] = "$" /\ Occurrences(g, s) # {}
<1> DEFINE i == First(GroupStarts(s))
           e == GroupEnd(s, i)
           g == Group(s, i)
<1>1. Len(s) \in Nat
  BY DEF Texts
<1>2. i \in GroupStarts(s)
  <2>1. GroupStarts(s) \in SUBSET Nat
    BY <1>1 DEF GroupStarts
  <2> QED
    BY <2>1, LeastMember
<1>3. i \in 1..Len(s) /\ s[i] = "$" /\ e \in i..Len(s) /\ i \in Nat
  <2>1. i \in 1..Len(s) /\ s[i] = "$"
    BY <1>1, <1>2 DEF GroupStarts
  <2> HIDE DEF i
  <2> QED
    BY <1>1, <2>1, GroupEnds
<1> HIDE DEF i
<1>4. g \in Texts /\ Len(g) = (e + 1) - i /\ \A k \in i..e : g[(k + 1) - i] = s[k]
  BY <1>3, GroupText
<1> HIDE DEF e, g
<1>5. Len(g) > 0 /\ i + Len(g) <= Len(s) + 1
  BY <1>1, <1>3, <1>4
<1>6. g[1] = "$"
  <2>1. i \in i..e /\ (i + 1) - i = 1
    BY <1>3
  <2> QED
    BY <1>3, <1>4, <2>1
<1>7. i \in Occurrences(g, s)
  <2>1. ASSUME NEW k \in 1..Len(g) PROVE s[(i + k) - 1] = g[k]
    <3>1. (i + k) - 1 \in i..e /\ (((i + k) - 1) + 1) - i = k
      BY <1>3, <1>4
    <3> QED
      BY <1>4, <3>1
  <2>2. i >= 1
    BY <1>3
  <2> QED
    BY <1>3, <1>4, <1>5, <2>1, <2>2, OccurrenceText
<1> QED
  BY <1>4, <1>5, <1>6, <1>7 DEF g, i

\* The texts, and what is replaced, stay what the loops need.
LEMMA NextLoopInv == LoopInv /\ [Next]_vars => LoopInv'
<1> SUFFICES ASSUME LoopInv, [Next]_vars PROVE LoopInv'
  OBVIOUS
<1>1. args' = args /\ action' = action /\ line' = line /\ matches' = matches
  BY DEF Next, FindGroup, ReplaceOne, ReplaceReturns, vars, args
<1>2. ArgsTyped' /\ NoDollars' = NoDollars
  BY <1>1, SameArgs DEF LoopInv, NoDollars
<1>3. CASE FindGroup
  <2>1. result' = result /\ result \in Texts
    BY <1>3 DEF FindGroup, LoopInv
  <2>2. CASE GroupStarts(result) # {}
    <3>1. /\ search' = Group(result, First(GroupStarts(result)))
          /\ replace' = TextFor(search') /\ pc' = "replace"
      BY <1>3, <2>2 DEF FindGroup
    <3>2. search' \in Texts /\ Len(search') > 0 /\ search'[1] = "$"
      BY <2>1, <2>2, <3>1, GroupFound
    <3>3. replace' \in Texts /\ (NoDollars => Dollars(replace') = {})
      BY <3>1, NoDollarReplaces DEF LoopInv
    <3> QED
      BY <1>2, <2>1, <3>1, <3>2, <3>3 DEF LoopInv
  <2>3. CASE GroupStarts(result) = {}
    BY <1>2, <1>3, <2>1, <2>3 DEF FindGroup, LoopInv
  <2> QED
    BY <2>2, <2>3
<1>4. CASE ReplaceOne
  <2> DEFINE p == First(Occurrences(search, result))
  <2>1. p \in Occurrences(search, result)
    <3>1. Occurrences(search, result) \in SUBSET Nat /\ Occurrences(search, result) # {}
      BY <1>4 DEF Occurrences, ReplaceOne
    <3> QED
      BY <3>1, LeastMember
  <2>2. /\ pc \in {"replace", "unescape"} /\ pc' = pc /\ search' = search /\ replace' = replace
        /\ result' = ReplaceSubSeqAt(p, replace, search, result)
    BY <1>4 DEF ReplaceOne
  <2> HIDE DEF p
  <2>3. search \in Texts /\ replace \in Texts /\ result \in Texts
    <3>1. CASE pc = "replace"
      BY <3>1 DEF LoopInv
    <3>2. CASE pc = "unescape"
      <4>1. "$" \in Characters
        BY TextsAssumption
      <4>2. <<"$">> \in Texts
        BY <4>1, OneCharacter
      <4> QED
        BY <3>2, <4>2, EscapedText DEF LoopInv
    <3> QED
      BY <2>2, <3>1, <3>2 DEF LoopInv
  <2>4. result' \in Texts
    <3>1. /\ p - 1 \in Nat /\ (p - 1) + Len(search) <= Len(result) /\ p = (p - 1) + 1
      <4>1. p \in Nat /\ p >= 1 /\ p + Len(search) <= Len(result) + 1
        BY <2>1, <2>3, OccurrenceInside
      <4>2. Len(search) \in Nat /\ Len(result) \in Nat
        BY <2>3 DEF Texts
      <4> QED
        BY <4>1, <4>2
    <3> DEFINE c == p - 1
    <3>2. c \in Nat /\ c + Len(search) <= Len(result) /\ p = c + 1
      BY <3>1
    <3> HIDE DEF c
    <3>3. ReplacedIn(ReplaceSubSeqAt(c + 1, replace, search, result), c, replace, search, result)
      BY <2>3, <3>2, Replaced
    <3> QED
      BY <2>2, <3>2, <3>3 DEF ReplacedIn
  <2> QED
    BY <1>2, <2>2, <2>4 DEF LoopInv
<1>5. CASE ReplaceReturns
  BY <1>2, <1>5 DEF ReplaceReturns, LoopInv
<1>6. CASE UNCHANGED vars
  BY <1>2, <1>6 DEF vars, LoopInv
<1> QED
  BY <1>3, <1>4, <1>5, <1>6 DEF Next

\* Every step of the loops leaves less to do.
LEMMA NextAdvances == LoopInv /\ LoopInv' /\ NoDollars /\ Next => Advances
<1> SUFFICES ASSUME LoopInv, LoopInv', NoDollars, Next PROVE Advances
  OBVIOUS
<1>1. /\ result \in Texts /\ result' \in Texts
      /\ pc \in {"match", "replace", "unescape", "done"}
  BY DEF LoopInv
<1> DEFINE d == Cardinality(Dollars(result))
           d2 == Cardinality(Dollars(result'))
<1>2. d \in Nat /\ d2 \in Nat /\ Len(result) \in Nat /\ Len(result') \in Nat
  BY <1>1, DollarsCounted DEF Texts
<1>3. CASE FindGroup
  <2>1. pc = "match" /\ result' = result /\ Stage = 2
    BY <1>3 DEF FindGroup, Stage
  <2>2. CASE GroupStarts(result) # {}
    <3>1. search' = Group(result, First(GroupStarts(result))) /\ pc' = "replace"
      BY <1>3, <2>2 DEF FindGroup
    <3>2. Occurrences(search', result') # {}
      BY <1>1, <2>1, <2>2, <3>1, GroupFound
    <3>3. Turn = 1 /\ Turn' = 0 /\ Stage' = 2
      BY <2>1, <3>1, <3>2 DEF Turn, Stage
    <3>4. Left = 3 * d + 1 /\ Left' = 3 * d + 0
      BY <2>1, <3>3 DEF Left
    <3> HIDE DEF d
    <3> QED
      BY <1>2, <2>1, <3>3, <3>4 DEF Advances
  <2>3. CASE GroupStarts(result) = {}
    BY <1>3, <2>1, <2>3 DEF FindGroup, Stage, Advances
  <2> QED
    BY <2>2, <2>3
<1>4. CASE ReplaceOne
  <2> DEFINE p == First(Occurrences(search, result))
  <2>1. p \in Occurrences(search, result)
    <3>1. Occurrences(search, result) \in SUBSET Nat /\ Occurrences(search, result) # {}
      BY <1>4 DEF Occurrences, ReplaceOne
    <3> QED
      BY <3>1, LeastMember
  <2>2. /\ pc \in {"replace", "unescape"} /\ pc' = pc
        /\ result' = ReplaceSubSeqAt(p, replace, search, result)
    BY <1>4 DEF ReplaceOne
  <2> HIDE DEF p
  <2>3. CASE pc = "replace"
    <3>1. /\ search \in Texts /\ Len(search) > 0 /\ search[1] = "$"
          /\ replace \in Texts /\ Dollars(replace) = {}
      BY <2>3 DEF LoopInv
    <3>2. d2 < d
      BY <1>1, <2>1, <2>2, <3>1, FewerDollars
    <3>3. Stage = 2 /\ Stage' = 2 /\ Turn \in {0, 2} /\ Turn' \in {0, 2}
      BY <2>2, <2>3 DEF Stage, Turn
    <3>4. Left = 3 * d + Turn /\ Left' = 3 * d2 + Turn'
      BY <3>3 DEF Left
    <3>5. Turn = 0
      BY <1>4, <2>3 DEF ReplaceOne, Turn
    <3> HIDE DEF d, d2
    <3>6. Left \in Nat /\ Left' \in Nat /\ Left' < Left
      <4>1. \A a, b \in Nat : b < a => /\ 3 * a + 0 \in Nat /\ 3 * b + 0 \in Nat /\ 3 * b + 2 \in Nat
                                       /\ 3 * b + 0 < 3 * a + 0 /\ 3 * b + 2 < 3 * a + 0
        OBVIOUS
      <4>2. Left = 3 * d + 0 /\ (Left' = 3 * d2 + 0 \/ Left' = 3 * d2 + 2)
        BY <3>3, <3>4, <3>5
      <4> QED
        BY <1>2, <3>2, <4>1, <4>2
    <3> QED
      BY <3>3, <3>6 DEF Advances
  <2>4. CASE pc = "unescape"
    <3>1. search = Escaped /\ replace = <<"$">>
      BY <2>4 DEF LoopInv
    <3>2. Len(result') < Len(result)
      BY <1>1, <2>1, <2>2, <3>1, ShorterText
    <3>3. Stage = 1 /\ Stage' = 1
      BY <2>2, <2>4 DEF Stage
    <3>4. Left = Len(result) /\ Left' = Len(result')
      BY <3>3 DEF Left
    <3> QED
      BY <1>2, <3>2, <3>3, <3>4 DEF Advances
  <2> QED
    BY <2>2, <2>3, <2>4
<1>5. CASE ReplaceReturns
  <2>1. CASE pc = "replace"
    <3>1. pc' = "match" /\ result' = result /\ Occurrences(search, result) = {}
      BY <1>5, <2>1 DEF ReplaceReturns
    <3>2. Stage = 2 /\ Stage' = 2 /\ Turn = 2 /\ Turn' = 1
      BY <2>1, <3>1 DEF Stage, Turn
    <3>3. Left = 3 * d + 2 /\ Left' = 3 * d + 1
      BY <3>1, <3>2 DEF Left
    <3> HIDE DEF d
    <3> QED
      BY <1>2, <3>2, <3>3 DEF Advances
  <2>2. CASE pc = "unescape"
    BY <1>5, <2>2 DEF ReplaceReturns, Stage, Advances
  <2> QED
    BY <1>5, <2>1, <2>2 DEF ReplaceReturns
<1> QED
  BY <1>3, <1>4, <1>5 DEF Next

\* If neither the line nor a match holds a dollar, every step of the nested
\* loops, for every action, leaves fewer dollars, a shorter text or a stage
\* less: they cannot go on for ever.
THEOREM SubstitutionAdvances == Spec => [][NoDollars => Advances]_vars
<1>1. Init => LoopInv
  BY InitTyped, EscapedText DEF Init, LoopInv, ArgsTyped
<1>2. LoopInv /\ [Next]_vars => LoopInv'
  BY NextLoopInv
<1>3. LoopInv /\ LoopInv' /\ [Next]_vars => [NoDollars => Advances]_vars
  BY NextAdvances
<1> QED
  BY <1>1, <1>2, <1>3, PTL DEF Spec

=============================================================================
