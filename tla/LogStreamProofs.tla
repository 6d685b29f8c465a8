--------------------------- MODULE LogStreamProofs ---------------------------
(***************************************************************************)
(* Proofs about the log stream, for queues of any size and streams of any  *)
(* length.                                                                 *)
(*                                                                         *)
(* The lines. The receiver's loop is a recursion over bytes. It is shown   *)
(* to give the lines of a byte string (SplitLines), and the same ones when *)
(* the bytes come in parts and what a part leaves is put before the next   *)
(* (SplitInParts).                                                         *)
(*                                                                         *)
(* The state. There is a receiver from the moment the context is open, it  *)
(* is cancelled only by a context that joins it, and nothing revives one   *)
(* that is cancelled or done (ReceiverInv). Nothing is put behind an error *)
(* (ErrorEndsLog), and the log, with what the receiver has still to put,   *)
(* is all the lines of the stream until a cancelled receiver gives some up *)
(* (Complete).                                                             *)
(***************************************************************************)
EXTENDS LogStream, Induction

-----------------------------------------------------------------------------
(* The lines of bytes *)

\* A stripped line is a line.
LEMMA StripType ==
    ASSUME NEW line \in Line
    PROVE  Strip(line) \in Line
<1> DEFINE V == {i \in 1..Len(line) : line[i] # Blank}
<1>1. CASE V = {}
      BY <1>1 DEF Strip, Line
<1>2. CASE V # {}
      <2>1. Len(line) \in Nat /\ V \in SUBSET Nat /\ V \in SUBSET (0..Len(line))
            BY DEF Line
      <2>2. Min(V) \in V
            <3>1. \E m \in V : \A k \in V : m <= k
                  <4> HIDE DEF V
                  <4> QED BY <1>2, <2>1, LeastElement
            <3> QED BY <3>1 DEF Min
      <2>3. Max(V) \in V
            <3>1. \E m \in V : \A k \in V : k <= m
                  <4> HIDE DEF V
                  <4> QED BY <1>2, <2>1, GreatestElement
            <3>2. \E m \in V : \A k \in V : m >= k
                  BY <2>1, <3>1
            <3> QED BY <3>2 DEF Max
      <2>4. SubSeq(line, Min(V), Max(V)) \in Line
            <3>1. Min(V) \in 1..Len(line) /\ Max(V) \in 1..Len(line)
                  BY <2>2, <2>3
            <3>2. \A i \in Min(V)..Max(V) : line[i] \in Text
                  <4>1. \A i \in 1..Len(line) : line[i] \in Text
                        BY DEF Line
                  <4> HIDE DEF V
                  <4> QED BY <2>1, <3>1, <4>1
            <3> HIDE DEF V
            <3> QED BY <3>1, <3>2, SubSeqProperties DEF Line
      <2> QED BY <1>2, <2>4 DEF Strip
<1> QED BY <1>1, <1>2

-----------------------------------------------------------------------------
(* Splitting *)

Unbroken(bytes) == \A i \in 1..Len(bytes) : bytes[i] # Newline

\* What is before the first newline, stripped, and what is behind it.
FirstLine(bytes)  == Strip(SubSeq(bytes, 1, FirstNewline(bytes) - 1))
Remainder(bytes) == SubSeq(bytes, FirstNewline(bytes) + 1, Len(bytes))

\* The result of splitting, from the first line and the result for what follows.
Prepend(line, after) ==
    [lines |-> IF line = <<>> THEN after.lines ELSE <<line>> \o after.lines,
     rest  |-> after.rest]

Pieces == [lines : Seq(Line), rest : Line]

\* Putting a line before what follows it.
LEMMA Prepended ==
    ASSUME NEW line \in Line, NEW after \in Pieces
    PROVE  /\ Prepend(line, after) \in Pieces
           /\ Prepend(line, after).rest = after.rest
           /\ line = <<>> => Prepend(line, after).lines = after.lines
           /\ line # <<>> => Prepend(line, after).lines = <<line>> \o after.lines
<1>1. after.lines \in Seq(Line) /\ after.rest \in Line
      BY DEF Pieces
<1> DEFINE longer == <<line>> \o after.lines
<1>2. longer \in Seq(Line)
      <2> HIDE DEF Line
      <2> QED BY <1>1
<1> HIDE DEF longer, Line
<1>3. Prepend(line, after) = [lines |-> IF line = <<>> THEN after.lines ELSE longer,
                              rest |-> after.rest]
      BY DEF Prepend, longer
<1>4. /\ Prepend(line, after) \in Pieces
      /\ Prepend(line, after).rest = after.rest
      /\ Prepend(line, after).lines = IF line = <<>> THEN after.lines ELSE longer
      BY <1>1, <1>2, <1>3 DEF Pieces
<1> QED BY <1>4 DEF longer

\* There is a first newline, with unbroken text before it.
LEMMA FirstNewlineIs ==
    ASSUME NEW bytes \in Seq(Bytes), ~Unbroken(bytes)
    PROVE  /\ FirstNewline(bytes) \in 1..Len(bytes)
           /\ bytes[FirstNewline(bytes)] = Newline
           /\ \A j \in 1..(FirstNewline(bytes) - 1) : bytes[j] # Newline
<1> DEFINE A == {i \in 1..Len(bytes) : bytes[i] = Newline}
<1>1. A # {} /\ A \in SUBSET Nat
      BY DEF Unbroken
<1>2. PICK m \in A : \A k \in A : m <= k
      <2> HIDE DEF A
      <2> QED BY <1>1, LeastElement
<1>3. ASSUME NEW j \in 1..(m - 1)
      PROVE  bytes[j] # Newline
      <2>1. j \in 1..Len(bytes) /\ ~(m <= j)
            OBVIOUS
      <2> QED BY <1>2, <2>1
<1> QED BY <1>3 DEF FirstNewline

\* The pieces at the first newline: a line, and shorter bytes.
LEMMA FirstPieces ==
    ASSUME NEW bytes \in Seq(Bytes), ~Unbroken(bytes)
    PROVE  /\ FirstLine(bytes) \in Line
           /\ Remainder(bytes) \in Seq(Bytes)
           /\ Len(Remainder(bytes)) = Len(bytes) - FirstNewline(bytes)
           /\ \A i \in 1..Len(Remainder(bytes)) :
                 Remainder(bytes)[i] = bytes[FirstNewline(bytes) + i]
<1> DEFINE f == FirstNewline(bytes)
           n == Len(bytes)
<1>1. f \in 1..n /\ n \in Nat /\ \A j \in 1..(f - 1) : bytes[j] # Newline
      BY FirstNewlineIs
<1>2. \A i \in 1..n : bytes[i] \in Bytes
      OBVIOUS
<1> HIDE DEF f, n
<1>3. SubSeq(bytes, 1, f - 1) \in Line
      <2>1. \A j \in 1..(f - 1) : bytes[j] \in Text
            BY <1>1, <1>2 DEF Bytes
      <2>2. f - 1 \in Int
            BY <1>1
      <2> QED BY <2>1, <2>2, SubSeqProperties DEF Line
<1>4. /\ SubSeq(bytes, f + 1, n) \in Seq(Bytes)
      /\ Len(SubSeq(bytes, f + 1, n)) = n - f
      /\ \A i \in 1..(n - f) : SubSeq(bytes, f + 1, n)[i] = bytes[f + i]
      <2>1. \A i \in (f + 1)..n : bytes[i] \in Bytes
            BY <1>1, <1>2
      <2>2. f + 1 \in Int /\ n \in Int
            BY <1>1
      <2>3. /\ SubSeq(bytes, f + 1, n) \in Seq(Bytes)
            /\ Len(SubSeq(bytes, f + 1, n)) = IF f + 1 <= n THEN n - (f + 1) + 1 ELSE 0
            /\ \A i \in 1..(n - (f + 1) + 1) : SubSeq(bytes, f + 1, n)[i] = bytes[f + 1 + i - 1]
            BY <2>1, <2>2, SubSeqProperties
      <2>4. n - (f + 1) + 1 = n - f /\ \A i \in Nat : f + 1 + i - 1 = f + i
            BY <1>1
      <2> QED BY <1>1, <2>3, <2>4
<1> QED BY <1>3, <1>4, StripType DEF FirstLine, Remainder, f, n

\* Splitting satisfies its equation, for strings of any length: it gives lines,
\* and a rest without a newline.
LEMMA SplitPieces ==
    /\ Split \in [Seq(Bytes) -> Pieces]
    /\ \A bytes \in Seq(Bytes) :
          Split[bytes] = IF Unbroken(bytes) THEN [lines |-> <<>>, rest |-> bytes]
                         ELSE Prepend(FirstLine(bytes), Split[Remainder(bytes)])
<1> DEFINE D == Seq(Bytes)
           B == {b \in D : Unbroken(b)}
           size == [b \in D |-> Len(b)]
           base == [b \in D |-> [lines |-> <<>>, rest |-> b]]
           prev == [b \in D |-> Remainder(b)]
           step == [b \in D |-> [p \in Pieces |-> Prepend(FirstLine(b), p)]]
           Solves(f) == f = [b \in D |-> IF Unbroken(b) THEN [lines |-> <<>>, rest |-> b]
                                         ELSE Prepend(FirstLine(b), f[Remainder(b)])]
<1>1. ASSUME NEW b \in D
      PROVE  /\ size[b] = Len(b) /\ base[b] = [lines |-> <<>>, rest |-> b]
             /\ prev[b] = Remainder(b)
             /\ b \in B <=> Unbroken(b)
             /\ \A p \in Pieces : step[b][p] = Prepend(FirstLine(b), p)
      OBVIOUS
<1>2. size \in [D -> Nat]
      OBVIOUS
<1>3. ASSUME NEW b \in D, Unbroken(b)
      PROVE  [lines |-> <<>>, rest |-> b] \in Pieces
      <2>1. \A i \in 1..Len(b) : b[i] \in Text
            BY <1>3 DEF Unbroken, Bytes
      <2>2. b \in Line
            BY <2>1 DEF Line
      <2>3. <<>> \in Seq(Line)
            OBVIOUS
      <2> QED BY <2>2, <2>3 DEF Pieces
<1>4. ASSUME NEW l \in Line, NEW p \in Pieces
      PROVE  Prepend(l, p) \in Pieces
      BY Prepended
<1>5. ASSUME NEW b \in D, ~Unbroken(b)
      PROVE  Remainder(b) \in D /\ Len(Remainder(b)) < Len(b) /\ FirstLine(b) \in Line
      BY <1>5, FirstPieces, FirstNewlineIs
<1> HIDE DEF D, B, size, base, prev, step, Pieces, Line
<1>6. WellDefined(D, Pieces, size, B, base, prev, step)
      <2>1. \A b \in D \cap B : base[b] \in Pieces
            BY <1>1, <1>3
      <2>2. ASSUME NEW b \in D \ B
            PROVE  /\ prev[b] \in D /\ size[prev[b]] < size[b]
                   /\ \A p \in Pieces : step[b][p] \in Pieces
            <3>1. ~Unbroken(b)
                  BY <1>1
            <3>2. Remainder(b) \in D /\ Len(Remainder(b)) < Len(b) /\ FirstLine(b) \in Line
                  BY <1>5, <3>1
            <3>3. prev[b] \in D /\ size[prev[b]] < size[b]
                  BY <1>1, <3>2
            <3>4. \A p \in Pieces : step[b][p] \in Pieces
                  BY <1>1, <1>4, <3>2
            <3> QED BY <3>3, <3>4
      <2> QED BY <1>2, <2>1, <2>2 DEF WellDefined
<1>7. ASSUME NEW f, Solves(f)
      PROVE  Solution(f, D, Pieces, B, base, prev, step)
      <2>1. \A b \in D \cap B : f[b] = base[b]
            BY <1>1, <1>7
      <2>2. \A b \in D \ B : f[prev[b]] \in Pieces => f[b] = step[b][f[prev[b]]]
            BY <1>1, <1>7
      <2>3. f = [b \in D |-> f[b]]
            BY <1>7
      <2> QED BY <2>1, <2>2, <2>3 DEF Solution
<1>8. ASSUME NEW f, f \in [D -> Pieces], Solution(f, D, Pieces, B, base, prev, step)
      PROVE  Solves(f)
      <2>1. ASSUME NEW b \in D, Unbroken(b)
            PROVE  f[b] = [lines |-> <<>>, rest |-> b]
            BY <1>1, <1>8, <2>1 DEF Solution
      <2>2. ASSUME NEW b \in D, ~Unbroken(b)
            PROVE  f[b] = Prepend(FirstLine(b), f[Remainder(b)])
            <3>1. b \notin B /\ prev[b] = Remainder(b) /\ f[prev[b]] \in Pieces
                  BY <1>1, <1>5, <1>8, <2>2
            <3>2. f[b] = step[b][f[prev[b]]]
                  BY <1>8, <3>1 DEF Solution
            <3> QED BY <1>1, <3>1, <3>2
      <2> QED BY <1>8, <2>1, <2>2
<1>9. \E f : Solves(f)
      <2> HIDE DEF Solves
      <2> QED BY <1>6, <1>8, Recursion, RecursionType
<1>10. Solves(Split)
       BY <1>9 DEF Split, Unbroken, Prepend, FirstLine, Remainder, D
<1>11. Split \in [D -> Pieces]
       <2> HIDE DEF Solves
       <2> QED BY <1>6, <1>7, <1>10, RecursionType
<1> QED BY <1>10, <1>11 DEF D

\* The first newline is the only one with unbroken text before it.
LEMMA FirstNewlineUnique ==
    ASSUME NEW bytes \in Seq(Bytes), NEW i \in 1..Len(bytes), bytes[i] = Newline,
           \A j \in 1..(i - 1) : bytes[j] # Newline
    PROVE  ~Unbroken(bytes) /\ FirstNewline(bytes) = i
<1>1. ~Unbroken(bytes)
      BY DEF Unbroken
<1> DEFINE f == FirstNewline(bytes)
<1>2. f \in 1..Len(bytes) /\ bytes[f] = Newline /\ \A j \in 1..(f - 1) : bytes[j] # Newline
      BY <1>1, FirstNewlineIs
<1> HIDE DEF f
<1>3. ~(i < f) /\ ~(f < i)
      BY <1>2
<1> QED BY <1>1, <1>2, <1>3 DEF f

\* More bytes behind a broken string leave its first line, and go to its remainder.
LEMMA MoreBehind ==
    ASSUME NEW a \in Seq(Bytes), NEW c \in Seq(Bytes), ~Unbroken(a)
    PROVE  /\ ~Unbroken(a \o c)
           /\ FirstLine(a \o c) = FirstLine(a)
           /\ Remainder(a \o c) = Remainder(a) \o c
<1> DEFINE f == FirstNewline(a)
           b == a \o c
<1>1. /\ b \in Seq(Bytes) /\ Len(b) = Len(a) + Len(c)
      /\ \A i \in 1..Len(b) : b[i] = IF i <= Len(a) THEN a[i] ELSE c[i - Len(a)]
      BY ConcatProperties
<1>2. f \in 1..Len(a) /\ a[f] = Newline /\ \A j \in 1..(f - 1) : a[j] # Newline
      BY FirstNewlineIs
<1>3. Len(a) \in Nat /\ Len(c) \in Nat
      OBVIOUS
<1> HIDE DEF f, b
<1>4. f \in 1..Len(b) /\ b[f] = Newline /\ \A j \in 1..(f - 1) : b[j] # Newline
      BY <1>1, <1>2, <1>3
<1>5. ~Unbroken(b) /\ FirstNewline(b) = f
      BY <1>1, <1>4, FirstNewlineUnique
<1>6. SubSeq(b, 1, f - 1) = SubSeq(a, 1, f - 1)
      <2>1. CASE f = 1
            BY <2>1, SubSeqEmpty
      <2>2. CASE f # 1
            <3>1. 1 \in 1..Len(a) /\ f - 1 \in 1..Len(a)
                  BY <1>2, <1>3, <2>2
            <3> QED BY <3>1, SubSeqOfConcat1 DEF b
      <2> QED BY <2>1, <2>2
<1>7. Remainder(b) = Remainder(a) \o c
      <2> DEFINE r == Remainder(b)
                 s == Remainder(a)
      <2>1. /\ r \in Seq(Bytes) /\ Len(r) = Len(b) - f
            /\ \A i \in 1..Len(r) : r[i] = b[f + i]
            BY <1>1, <1>5, FirstPieces
      <2>2. /\ s \in Seq(Bytes) /\ Len(s) = Len(a) - f
            /\ \A i \in 1..Len(s) : s[i] = a[f + i]
            BY FirstPieces DEF f
      <2> HIDE DEF r, s
      <2>3. /\ s \o c \in Seq(Bytes) /\ Len(s \o c) = Len(s) + Len(c)
            /\ \A i \in 1..(Len(s) + Len(c)) :
                  (s \o c)[i] = IF i <= Len(s) THEN s[i] ELSE c[i - Len(s)]
            BY <2>2, ConcatProperties
      <2>4. Len(r) = Len(s \o c)
            BY <1>1, <1>2, <1>3, <2>1, <2>2, <2>3
      <2>5. ASSUME NEW i \in 1..Len(r)
            PROVE  r[i] = (s \o c)[i]
            <3> DEFINE j == f + i
            <3>1. i \in 1..(Len(s) + Len(c)) /\ j \in 1..Len(b) /\ j = f + i
                  BY <1>1, <1>2, <1>3, <2>1, <2>2, <2>3, <2>4
            <3>2. r[i] = b[j]
                  BY <2>1
            <3> HIDE DEF j
            <3>3. r[i] = IF j <= Len(a) THEN a[j] ELSE c[j - Len(a)]
                  BY <1>1, <3>1, <3>2
            <3>4. CASE i <= Len(s)
                  <4>1. j <= Len(a) /\ i \in 1..Len(s)
                        BY <1>2, <1>3, <2>2, <3>1, <3>4
                  <4>2. s[i] = a[j]
                        BY <2>2, <3>1, <4>1
                  <4> QED BY <2>3, <3>1, <3>3, <3>4, <4>1, <4>2
            <3>5. CASE ~(i <= Len(s))
                  <4>1. ~(j <= Len(a)) /\ j - Len(a) = i - Len(s)
                        BY <1>2, <1>3, <2>2, <3>1, <3>5
                  <4> QED BY <2>3, <3>1, <3>3, <3>5, <4>1
            <3> QED BY <3>4, <3>5
      <2>6. r = s \o c
            BY <2>1, <2>3, <2>4, <2>5, SeqEqual
      <2> QED BY <2>6 DEF r, s
<1> QED BY <1>5, <1>6, <1>7 DEF FirstLine, f, b

\* Concatenation of lines associates.
LEMMA LinesRegroup ==
    \A x, y, z \in Seq(Line) : (x \o y) \o z = x \o (y \o z)
<1>1. ASSUME NEW S, NEW x \in Seq(S), NEW y \in Seq(S), NEW z \in Seq(S)
      PROVE  (x \o y) \o z = x \o (y \o z)
      BY ConcatAssociative
<1> DEFINE S == Line
<1>2. S = Line
      OBVIOUS
<1> HIDE DEF S
<1>3. \A x, y, z \in Seq(S) : (x \o y) \o z = x \o (y \o z)
      BY <1>1
<1> QED BY <1>2, <1>3

\* Bytes may be split as they arrive: what is left of the earlier ones goes before
\* the later ones, and the lines of these follow the lines already split off.
LEMMA SplitInParts ==
    ASSUME NEW a \in Seq(Bytes), NEW c \in Seq(Bytes)
    PROVE  LET part == Split[Split[a].rest \o c]
           IN  Split[a \o c] = [lines |-> Split[a].lines \o part.lines, rest |-> part.rest]
<1> DEFINE Parts(x, y) ==
              Split[x \o y] = [lines |-> Split[x].lines \o Split[Split[x].rest \o y].lines,
                               rest  |-> Split[Split[x].rest \o y].rest]
           A == {n \in Nat : \A x, y \in Seq(Bytes) : Len(x) = n => Parts(x, y)}
<1>0. ASSUME NEW p \in Pieces
      PROVE  /\ p.lines \in Seq(Line) /\ p.rest \in Line /\ p.rest \in Seq(Bytes)
             /\ p = [lines |-> p.lines, rest |-> p.rest]
      <2>1. p.lines \in Seq(Line) /\ p.rest \in Line /\ p = [lines |-> p.lines, rest |-> p.rest]
            BY DEF Pieces
      <2>2. Text \subseteq Bytes
            BY DEF Bytes
      <2>3. p.rest \in Seq(Bytes)
            BY <2>1, <2>2, SeqMonotonic DEF Line
      <2> QED BY <2>1, <2>3
<1>1. \A x \in Seq(Bytes) : Split[x] \in Pieces
      BY SplitPieces
<1>2. ASSUME NEW n \in Nat, \A k \in Nat : k < n => k \in A
      PROVE  n \in A
      <2> SUFFICES ASSUME NEW x \in Seq(Bytes), NEW y \in Seq(Bytes), Len(x) = n
                   PROVE  Parts(x, y)
          OBVIOUS
      <2>1. x \o y \in Seq(Bytes)
            BY ConcatProperties
      <2>2. CASE Unbroken(x)
            <3>1. Split[x] = [lines |-> <<>>, rest |-> x]
                  BY <2>2, SplitPieces
            <3>2. Split[x \o y].lines \in Seq(Line)
                  BY <1>0, <1>1, <2>1
            <3>3. <<>> \o Split[x \o y].lines = Split[x \o y].lines
                  BY <3>2, ConcatEmptySeq
            <3>4. Split[x \o y] = [lines |-> Split[x \o y].lines, rest |-> Split[x \o y].rest]
                  BY <1>0, <1>1, <2>1
            <3> QED BY <3>1, <3>3, <3>4
      <2>3. CASE ~Unbroken(x)
            <3> DEFINE l == FirstLine(x)
                       r == Remainder(x)
                       q == Split[r]
                       t == Split[q.rest \o y]
            <3>1. /\ l \in Line /\ r \in Seq(Bytes) /\ Len(r) \in Nat /\ Len(r) < n
                  BY <2>3, FirstPieces, FirstNewlineIs
            <3>2. Split[x] = Prepend(l, q)
                  BY <2>3, SplitPieces
            <3>3. Split[x \o y] = Prepend(l, Split[r \o y])
                  BY <2>1, <2>3, MoreBehind, SplitPieces
            <3>4. Split[r \o y] = [lines |-> q.lines \o t.lines, rest |-> t.rest]
                  <4>1. Len(r) \in A
                        BY <1>2, <3>1
                  <4>2. Parts(r, y)
                        BY <3>1, <4>1
                  <4> QED BY <4>2
            <3>5. q \in Pieces
                  BY <1>1, <3>1
            <3>6. t \in Pieces
                  <4>1. q.rest \o y \in Seq(Bytes)
                        BY <1>0, <3>5, ConcatProperties
                  <4> QED BY <1>1, <4>1
            <3> HIDE DEF l, r, q
            <3>12. Split[r \o y] \in Pieces
                  BY <1>1, <3>1, ConcatProperties
            <3>7. /\ Split[x].rest = q.rest
                  /\ l = <<>> => Split[x].lines = q.lines
                  /\ l # <<>> => Split[x].lines = <<l>> \o q.lines
                  BY <3>1, <3>2, <3>5, Prepended
            <3> HIDE DEF t
            <3>8. /\ Split[x \o y].rest = t.rest
                  /\ l = <<>> => Split[x \o y].lines = q.lines \o t.lines
                  /\ l # <<>> => Split[x \o y].lines = <<l>> \o (q.lines \o t.lines)
                  <4> DEFINE u == Split[r \o y]
                  <4>1. u \in Pieces /\ u.lines = q.lines \o t.lines /\ u.rest = t.rest
                        <5>1. u \in Pieces
                              BY <3>12
                        <5>2. u = [lines |-> q.lines \o t.lines, rest |-> t.rest]
                              BY <3>4
                        <5> HIDE DEF u
                        <5> QED BY <5>1, <5>2
                  <4>2. Split[x \o y] = Prepend(l, u)
                        BY <3>3
                  <4> HIDE DEF u
                  <4>3. /\ Prepend(l, u).rest = u.rest
                        /\ l = <<>> => Prepend(l, u).lines = u.lines
                        /\ l # <<>> => Prepend(l, u).lines = <<l>> \o u.lines
                        BY <3>1, <4>1, Prepended
                  <4> QED BY <4>1, <4>2, <4>3
            <3>9. Split[x \o y].lines = Split[x].lines \o t.lines
                  <4>1. CASE l = <<>>
                        BY <3>7, <3>8, <4>1
                  <4>2. CASE l # <<>>
                        <5> DEFINE s == <<l>>
                        <5>1. /\ Split[x].lines = s \o q.lines
                              /\ Split[x \o y].lines = s \o (q.lines \o t.lines)
                              BY <3>7, <3>8, <4>2
                        <5>2. s \in Seq(Line)
                              BY <3>1
                        <5> HIDE DEF s
                        <5>3. q.lines \in Seq(Line) /\ t.lines \in Seq(Line)
                              BY <1>0, <3>5, <3>6
                        <5>4. (s \o q.lines) \o t.lines = s \o (q.lines \o t.lines)
                              BY <5>2, <5>3, LinesRegroup
                        <5> QED BY <5>1, <5>4
                  <4> QED BY <4>1, <4>2
            <3>10. Split[x \o y] = [lines |-> Split[x \o y].lines, rest |-> Split[x \o y].rest]
                   BY <1>0, <1>1, <2>1
            <3>11. Split[Split[x].rest \o y] = t
                   BY <3>7 DEF t
            <3> QED BY <3>8, <3>9, <3>10, <3>11
      <2> QED BY <2>2, <2>3
<1>3. A = Nat
      <2> HIDE DEF A
      <2> QED BY <1>2, SetInduction DEF A
<1>4. Len(a) \in A
      <2>1. Len(a) \in Nat
            OBVIOUS
      <2> HIDE DEF A
      <2> QED BY <1>3, <2>1
<1>5. Parts(a, c)
      <2> HIDE DEF Parts
      <2> QED BY <1>4
<1> QED BY <1>5

-----------------------------------------------------------------------------
(* The lines by their ends *)

\* Where the line that ends at e begins.
StartsAt(s, bytes, e) ==
    /\ s \in 1..e
    /\ s = 1 \/ bytes[s - 1] = Newline
    /\ \A i \in s..(e - 1) : bytes[i] # Newline

\* There is one such place.
LEMMA LineStartIs ==
    ASSUME NEW bytes, NEW e \in Nat \ {0}
    PROVE  StartsAt(LineStart(bytes, e), bytes, e)
<1> DEFINE A == {0} \cup {i \in 1..(e - 1) : bytes[i] = Newline}
<1>1. A \in SUBSET (0..e) /\ A # {} /\ e \in Nat
      OBVIOUS
<1>2. PICK m \in A : \A k \in A : k <= m
      <2> HIDE DEF A
      <2> QED BY <1>1, GreatestElement
<1>3. StartsAt(m + 1, bytes, e)
      <2>1. m \in 0..(e - 1) /\ (m = 0 \/ bytes[m] = Newline)
            OBVIOUS
      <2>2. ASSUME NEW i \in (m + 1)..(e - 1)
            PROVE  bytes[i] # Newline
            <3>1. i \in 1..(e - 1) /\ ~(i <= m)
                  BY <2>1
            <3> QED BY <1>2, <3>1
      <2> QED BY <2>1, <2>2 DEF StartsAt
<1>4. LineStart(bytes, e) = CHOOSE s \in 1..e : StartsAt(s, bytes, e)
      BY DEF LineStart, StartsAt
<1>5. \E s \in 1..e : StartsAt(s, bytes, e)
      BY <1>3 DEF StartsAt
<1> QED BY <1>4, <1>5

\* A line has one beginning.
LEMMA LineStartUnique ==
    ASSUME NEW bytes, NEW e \in Nat \ {0}, NEW s, StartsAt(s, bytes, e)
    PROVE  LineStart(bytes, e) = s
<1> DEFINE t == LineStart(bytes, e)
<1>1. StartsAt(t, bytes, e)
      BY LineStartIs
<1> HIDE DEF t
<1>2. ASSUME NEW u, NEW v, StartsAt(u, bytes, e), StartsAt(v, bytes, e), u < v
      PROVE  FALSE
      <2>1. v - 1 \in u..(e - 1) /\ bytes[v - 1] = Newline
            BY <1>2 DEF StartsAt
      <2> QED BY <1>2, <2>1 DEF StartsAt
<1>3. s \in Nat /\ t \in Nat
      BY <1>1 DEF StartsAt
<1>4. ~(s < t) /\ ~(t < s)
      BY <1>1, <1>2
<1> QED BY <1>3, <1>4 DEF t

\* Bytes that agree up to an end, one of them behind other bytes that end with a
\* newline, have the same line there.
LEMMA SameLine ==
    ASSUME NEW b \in Seq(Bytes), NEW c \in Seq(Bytes), NEW d \in Nat,
           NEW e \in 1..Len(c), d + e <= Len(b), d = 0 \/ b[d] = Newline,
           \A i \in 1..e : c[i] = b[d + i]
    PROVE  LineTo(b, d + e) = LineTo(c, e)
<1> DEFINE s == LineStart(c, e)
<1>1. StartsAt(s, c, e)
      BY LineStartIs
<1> HIDE DEF s
<1>2. s \in 1..e /\ Len(c) \in Nat /\ Len(b) \in Nat /\ e \in Nat /\ e <= Len(c)
      BY <1>1 DEF StartsAt
<1>3. StartsAt(d + s, b, d + e)
      <2>1. d + s \in 1..(d + e)
            BY <1>2
      <2>2. d + s = 1 \/ b[(d + s) - 1] = Newline
            <3>1. CASE s = 1
                  BY <3>1
            <3>2. CASE s # 1
                  <4>1. s - 1 \in 1..e /\ c[s - 1] = Newline
                        BY <1>1, <1>2, <3>2 DEF StartsAt
                  <4>2. d + (s - 1) = (d + s) - 1
                        BY <1>2
                  <4> QED BY <4>1, <4>2
            <3> QED BY <3>1, <3>2
      <2>3. ASSUME NEW i \in (d + s)..((d + e) - 1)
            PROVE  b[i] # Newline
            <3>1. i - d \in s..(e - 1) /\ i - d \in 1..e /\ d + (i - d) = i
                  BY <1>2
            <3>2. c[i - d] # Newline /\ c[i - d] = b[d + (i - d)]
                  BY <1>1, <3>1 DEF StartsAt
            <3> QED BY <3>1, <3>2
      <2> QED BY <2>1, <2>2, <2>3 DEF StartsAt
<1>4. LineStart(b, d + e) = d + s
      <2>1. d + e \in Nat \ {0}
            BY <1>2
      <2> QED BY <1>3, <2>1, LineStartUnique
<1>5. SubSeq(b, d + s, (d + e) - 1) = SubSeq(c, s, e - 1)
      <2> DEFINE x == SubSeq(b, d + s, (d + e) - 1)
                 y == SubSeq(c, s, e - 1)
                 n == IF s <= e - 1 THEN e - s ELSE 0
      <2>1. /\ x \in Seq(Bytes) /\ Len(x) = n
            /\ \A i \in 1..n : x[i] = b[d + ((s + i) - 1)]
            <3> DEFINE p == d + s
                       q == (d + e) - 1
            <3>1. /\ p \in Int /\ q \in Int /\ p \in Nat
                  /\ \A i \in p..q : i \in 1..Len(b)
                  BY <1>2
            <3>2. \A i \in p..q : b[i] \in Bytes
                  BY <3>1
            <3> HIDE DEF p, q
            <3>3. /\ SubSeq(b, p, q) \in Seq(Bytes)
                  /\ Len(SubSeq(b, p, q)) = IF p <= q THEN q - p + 1 ELSE 0
                  /\ \A i \in 1..(q - p + 1) : SubSeq(b, p, q)[i] = b[p + i - 1]
                  BY <3>1, <3>2, SubSeqProperties
            <3>4. /\ n = IF p <= q THEN q - p + 1 ELSE 0
                  /\ \A i \in 1..n : i \in 1..(q - p + 1) /\ p + i - 1 = d + ((s + i) - 1)
                  BY <1>2 DEF p, q
            <3>5. x = SubSeq(b, p, q)
                  BY DEF p, q
            <3> HIDE DEF x, n
            <3> QED BY <3>3, <3>4, <3>5
      <2>2. /\ y \in Seq(Bytes) /\ Len(y) = n
            /\ \A i \in 1..n : y[i] = c[(s + i) - 1]
            <3> DEFINE q == e - 1
            <3>1. /\ s \in Int /\ q \in Int
                  /\ \A i \in s..q : i \in 1..Len(c)
                  BY <1>2
            <3>2. \A i \in s..q : c[i] \in Bytes
                  BY <3>1
            <3> HIDE DEF q
            <3>3. /\ SubSeq(c, s, q) \in Seq(Bytes)
                  /\ Len(SubSeq(c, s, q)) = IF s <= q THEN q - s + 1 ELSE 0
                  /\ \A i \in 1..(q - s + 1) : SubSeq(c, s, q)[i] = c[s + i - 1]
                  BY <3>1, <3>2, SubSeqProperties
            <3>4. /\ n = IF s <= q THEN q - s + 1 ELSE 0
                  /\ \A i \in 1..n : i \in 1..(q - s + 1) /\ s + i - 1 = (s + i) - 1
                  BY <1>2 DEF q
            <3>5. y = SubSeq(c, s, q)
                  BY DEF q
            <3> HIDE DEF y, n
            <3> QED BY <3>3, <3>4, <3>5
      <2>3. \A i \in 1..n : (s + i) - 1 \in 1..e
            BY <1>2
      <2> HIDE DEF x, y, n
      <2>4. \A i \in 1..n : x[i] = y[i]
            BY <2>1, <2>2, <2>3
      <2>5. x = y
            BY <2>1, <2>2, <2>4, SeqEqual
      <2> QED BY <2>5 DEF x, y
<1> QED BY <1>4, <1>5 DEF LineTo, s

\* The first line of broken bytes is the one that ends at the first newline.
LEMMA FirstLineEnds ==
    ASSUME NEW b \in Seq(Bytes), ~Unbroken(b)
    PROVE  LineTo(b, FirstNewline(b)) = FirstLine(b)
<1> DEFINE f == FirstNewline(b)
<1>1. /\ f \in 1..Len(b) /\ b[f] = Newline
      /\ \A j \in 1..(f - 1) : b[j] # Newline
      BY FirstNewlineIs
<1> HIDE DEF f
<1>2. StartsAt(1, b, f) /\ f \in Nat \ {0}
      BY <1>1 DEF StartsAt
<1>3. LineStart(b, f) = 1
      BY <1>2, LineStartUnique
<1> QED BY <1>3 DEF LineTo, FirstLine, f

\* The lines of broken bytes are the first one, unless it is blank, and those of
\* the remainder.
LEMMA EndsBehind ==
    ASSUME NEW b \in Seq(Bytes), ~Unbroken(b)
    PROVE  LET f == FirstNewline(b)
               r == Remainder(b)
           IN  /\ \A e \in LineEnds(r) : /\ f + e \in LineEnds(b)
                                         /\ LineTo(b, f + e) = LineTo(r, e)
               /\ FirstLine(b) # <<>> => f \in LineEnds(b) /\ LineTo(b, f) = FirstLine(b)
               /\ \A e \in LineEnds(b) : \/ e = f /\ FirstLine(b) # <<>>
                                         \/ e - f \in LineEnds(r)
<1> DEFINE f == FirstNewline(b)
           r == Remainder(b)
<1>1. /\ f \in 1..Len(b) /\ b[f] = Newline
      /\ \A j \in 1..(f - 1) : b[j] # Newline
      BY FirstNewlineIs
<1>2. /\ r \in Seq(Bytes) /\ Len(r) = Len(b) - f
      /\ \A i \in 1..Len(r) : r[i] = b[f + i]
      BY FirstPieces
<1>3. LineTo(b, f) = FirstLine(b)
      BY FirstLineEnds
<1>4. Len(b) \in Nat
      OBVIOUS
<1> HIDE DEF f, r
<1>5. ASSUME NEW e \in 1..Len(r)
      PROVE  /\ f + e \in 1..Len(b) /\ b[f + e] = r[e]
             /\ LineTo(b, f + e) = LineTo(r, e)
      <2>1. /\ f + e \in 1..Len(b) /\ f + e <= Len(b) /\ f \in Nat
            /\ \A i \in 1..e : i \in 1..Len(r)
            BY <1>1, <1>2, <1>4
      <2> QED BY <1>1, <1>2, <2>1, SameLine
<1>6. \A e \in LineEnds(r) : f + e \in LineEnds(b) /\ LineTo(b, f + e) = LineTo(r, e)
      BY <1>5 DEF LineEnds
<1>7. FirstLine(b) # <<>> => f \in LineEnds(b) /\ LineTo(b, f) = FirstLine(b)
      BY <1>1, <1>3 DEF LineEnds
<1>8. ASSUME NEW e \in LineEnds(b)
      PROVE  \/ e = f /\ FirstLine(b) # <<>>
             \/ e - f \in LineEnds(r)
      <2>1. e \in 1..Len(b) /\ b[e] = Newline /\ LineTo(b, e) # <<>>
            BY DEF LineEnds
      <2>2. ~(e < f)
            BY <1>1, <2>1
      <2>3. CASE e = f
            BY <1>3, <2>1, <2>3
      <2>4. CASE e > f
            <3>1. e - f \in 1..Len(r) /\ f + (e - f) = e
                  BY <1>1, <1>2, <1>4, <2>1, <2>4
            <3>2. r[e - f] = Newline /\ LineTo(r, e - f) # <<>>
                  BY <1>5, <2>1, <3>1
            <3> QED BY <3>1, <3>2 DEF LineEnds
      <2> QED BY <1>1, <2>1, <2>2, <2>3, <2>4
<1> QED BY <1>6, <1>7, <1>8 DEF f, r

\* "ends" has the end of each of the lines.
Aligned(ends, lines, bytes) ==
    /\ ends \in [1..Len(lines) -> LineEnds(bytes)]
    /\ \A j, k \in 1..Len(lines) : j < k => ends[j] < ends[k]
    /\ \A e \in LineEnds(bytes) : \E k \in 1..Len(lines) : ends[k] = e
    /\ \A k \in 1..Len(lines) : lines[k] = LineTo(bytes, ends[k])

\* The lines of bytes are those aligned with its newlines.
LEMMA AlignedLines ==
    ASSUME NEW lines, NEW bytes
    PROVE  AreLinesOf(lines, bytes) <=> \E ends : Aligned(ends, lines, bytes)
BY DEF AreLinesOf, Aligned

\* Without a newline there is no line.
LEMMA NoLines ==
    ASSUME NEW b \in Seq(Bytes), Unbroken(b)
    PROVE  AreLinesOf(<<>>, b)
<1>1. LineEnds(b) = {}
      BY DEF LineEnds, Unbroken
<1>2. Aligned([k \in 1..0 |-> 0], <<>>, b)
      BY <1>1 DEF Aligned
<1> QED BY <1>2, AlignedLines

\* A first line before the lines of the remainder.
LEMMA LinesBehind ==
    ASSUME NEW b \in Seq(Bytes), ~Unbroken(b), NEW after \in Pieces,
           AreLinesOf(after.lines, Remainder(b))
    PROVE  AreLinesOf(Prepend(FirstLine(b), after).lines, b)
<1> DEFINE f == FirstNewline(b)
           r == Remainder(b)
           l == FirstLine(b)
           a == after.lines
           p == Prepend(l, after).lines
<1>1. PICK ends : Aligned(ends, a, r)
      BY AlignedLines
<1>2. /\ l \in Line /\ a \in Seq(Line)
      /\ l = <<>> => p = a
      /\ l # <<>> => p = <<l>> \o a
      BY FirstPieces, Prepended DEF Pieces
<1>3. /\ \A e \in LineEnds(r) : f + e \in LineEnds(b) /\ LineTo(b, f + e) = LineTo(r, e)
      /\ l # <<>> => f \in LineEnds(b) /\ LineTo(b, f) = l
      /\ \A e \in LineEnds(b) : (e = f /\ l # <<>>) \/ e - f \in LineEnds(r)
      BY EndsBehind
<1>4. f \in Nat
      BY FirstNewlineIs
<1>5. LineEnds(r) \subseteq Nat \ {0} /\ LineEnds(b) \subseteq Nat \ {0}
      BY DEF LineEnds
<1>6. Len(a) \in Nat
      BY <1>2
<1> HIDE DEF f, r, l, a, p
<1>7. /\ \A k \in 1..Len(a) : ends[k] \in LineEnds(r) /\ a[k] = LineTo(r, ends[k])
      /\ \A j, k \in 1..Len(a) : j < k => ends[j] < ends[k]
      /\ \A e \in LineEnds(r) : \E k \in 1..Len(a) : ends[k] = e
      BY <1>1 DEF Aligned
<1>8. CASE l = <<>>
      <2> DEFINE g == [k \in 1..Len(a) |-> f + ends[k]]
      <2>1. \A k \in 1..Len(a) : /\ g[k] = f + ends[k] /\ g[k] \in LineEnds(b)
                                 /\ a[k] = LineTo(b, g[k])
            BY <1>3, <1>7
      <2>2. g \in [1..Len(a) -> LineEnds(b)]
            BY <2>1
      <2> HIDE DEF g
      <2>3. ASSUME NEW j \in 1..Len(a), NEW k \in 1..Len(a), j < k
            PROVE  g[j] < g[k]
            <3>1. ends[j] \in Nat /\ ends[k] \in Nat /\ ends[j] < ends[k]
                  BY <1>5, <1>7, <2>3
            <3>2. g[j] = f + ends[j] /\ g[k] = f + ends[k]
                  BY <2>1
            <3> QED BY <1>4, <3>1, <3>2
      <2>4. ASSUME NEW e \in LineEnds(b)
            PROVE  \E k \in 1..Len(a) : g[k] = e
            <3>1. e - f \in LineEnds(r)
                  BY <1>3, <1>8
            <3>2. PICK k \in 1..Len(a) : ends[k] = e - f
                  BY <1>7, <3>1
            <3> QED BY <1>4, <1>5, <2>1, <3>2
      <2>5. Aligned(g, a, b)
            BY <2>1, <2>2, <2>3, <2>4 DEF Aligned
      <2> QED BY <1>2, <1>8, <2>5, AlignedLines DEF p, l
<1>9. CASE l # <<>>
      <2>1. /\ p = <<l>> \o a /\ Len(p) = Len(a) + 1 /\ p[1] = l
            /\ \A k \in 2..Len(p) : p[k] = a[k - 1]
            <3> DEFINE s == <<l>>
            <3>1. s \in Seq(Line) /\ Len(s) = 1 /\ s[1] = l
                  BY <1>2
            <3>2. p = s \o a
                  BY <1>2, <1>9
            <3> HIDE DEF s, Line
            <3>3. /\ Len(s \o a) = Len(s) + Len(a)
                  /\ \A i \in 1..(Len(s) + Len(a)) :
                        (s \o a)[i] = IF i <= Len(s) THEN s[i] ELSE a[i - Len(s)]
                  BY <1>2, <3>1, ConcatProperties
            <3> QED BY <1>6, <3>1, <3>2, <3>3 DEF s
      <2> DEFINE g == [k \in 1..Len(p) |-> IF k = 1 THEN f ELSE f + ends[k - 1]]
      <2>2. g[1] = f /\ \A k \in 2..Len(p) : g[k] = f + ends[k - 1] /\ k - 1 \in 1..Len(a)
            BY <1>6, <2>1
      <2>3. \A k \in 1..Len(p) : g[k] \in LineEnds(b) /\ p[k] = LineTo(b, g[k])
            BY <1>3, <1>7, <1>9, <2>1, <2>2
      <2>4. g \in [1..Len(p) -> LineEnds(b)]
            BY <2>3
      <2> HIDE DEF g
      <2>5. ASSUME NEW j \in 1..Len(p), NEW k \in 1..Len(p), j < k
            PROVE  g[j] < g[k]
            <3>1. k \in 2..Len(p)
                  BY <2>5
            <3>2. g[k] = f + ends[k - 1] /\ ends[k - 1] \in Nat \ {0}
                  BY <1>5, <1>7, <2>2, <3>1
            <3>3. CASE j = 1
                  BY <1>4, <2>2, <3>2, <3>3
            <3>4. CASE j # 1
                  <4>1. j \in 2..Len(p) /\ j - 1 < k - 1
                        BY <2>5, <3>4
                  <4>2. ends[j - 1] < ends[k - 1] /\ g[j] = f + ends[j - 1]
                        /\ ends[j - 1] \in Nat
                        BY <1>5, <1>7, <2>2, <3>1, <4>1
                  <4> QED BY <1>4, <3>2, <4>2
            <3> QED BY <3>3, <3>4
      <2>6. ASSUME NEW e \in LineEnds(b)
            PROVE  \E k \in 1..Len(p) : g[k] = e
            <3>1. CASE e = f
                  <4>1. 1 \in 1..Len(p)
                        BY <1>6, <2>1
                  <4> QED BY <2>2, <3>1, <4>1
            <3>2. CASE e # f
                  <4>1. PICK k \in 1..Len(a) : ends[k] = e - f
                        BY <1>3, <1>7, <3>2
                  <4>2. k + 1 \in 2..Len(p) /\ (k + 1) - 1 = k
                        BY <1>6, <2>1
                  <4>3. g[k + 1] = f + (e - f)
                        BY <2>2, <4>1, <4>2
                  <4>4. f + (e - f) = e
                        BY <1>4, <1>5
                  <4> QED BY <4>2, <4>3, <4>4
            <3> QED BY <3>1, <3>2
      <2>7. Aligned(g, p, b)
            BY <2>3, <2>4, <2>5, <2>6 DEF Aligned
      <2> QED BY <2>7, AlignedLines DEF p, l
<1> QED BY <1>8, <1>9

\* The receiver's loop splits off the lines of the bytes, whatever they are.
LEMMA SplitLines ==
    ASSUME NEW bytes \in Seq(Bytes)
    PROVE  AreLinesOf(Split[bytes].lines, bytes)
<1> DEFINE Meets(b) == AreLinesOf(Split[b].lines, b)
           A == {n \in Nat : \A b \in Seq(Bytes) : Len(b) = n => Meets(b)}
<1>1. ASSUME NEW n \in Nat, \A k \in Nat : k < n => k \in A
      PROVE  n \in A
      <2> SUFFICES ASSUME NEW b \in Seq(Bytes), Len(b) = n
                   PROVE  Meets(b)
          OBVIOUS
      <2>1. CASE Unbroken(b)
            <3>1. Split[b].lines = <<>>
                  BY <2>1, SplitPieces
            <3> QED BY <2>1, <3>1, NoLines
      <2>2. CASE ~Unbroken(b)
            <3> DEFINE r == Remainder(b)
            <3>1. r \in Seq(Bytes) /\ Len(r) \in Nat /\ Len(r) < n
                  BY <2>2, FirstPieces, FirstNewlineIs
            <3>2. Meets(r)
                  <4>1. Len(r) \in A
                        BY <1>1, <3>1
                  <4> HIDE DEF Meets
                  <4> QED BY <3>1, <4>1
            <3>3. Split[r] \in Pieces
                  BY <3>1, SplitPieces
            <3>4. Split[b] = Prepend(FirstLine(b), Split[r])
                  BY <2>2, SplitPieces
            <3> QED BY <2>2, <3>2, <3>3, <3>4, LinesBehind
      <2> QED BY <2>1, <2>2
<1>2. A = Nat
      <2> HIDE DEF A
      <2> QED BY <1>1, SetInduction DEF A
<1>3. Len(bytes) \in A
      <2>1. Len(bytes) \in Nat
            OBVIOUS
      <2> HIDE DEF A
      <2> QED BY <1>2, <2>1
<1>4. Meets(bytes)
      <2> HIDE DEF Meets
      <2> QED BY <1>3
<1> QED BY <1>4

-----------------------------------------------------------------------------
(* A part of the lines *)

\* The first of the lines are those of the bytes up to the last of them.
LEMMA LinesUpTo ==
    ASSUME NEW b \in Seq(Bytes), NEW lines \in Seq(Line), AreLinesOf(lines, b),
           NEW m \in 0..Len(lines)
    PROVE  \E n \in 0..Len(b) : AreLinesOf(SubSeq(lines, 1, m), SubSeq(b, 1, n))
<1>1. PICK ends : Aligned(ends, lines, b)
      BY AlignedLines
<1>2. /\ \A k \in 1..Len(lines) : ends[k] \in LineEnds(b) /\ lines[k] = LineTo(b, ends[k])
      /\ \A j, k \in 1..Len(lines) : j < k => ends[j] < ends[k]
      /\ \A e \in LineEnds(b) : \E k \in 1..Len(lines) : ends[k] = e
      BY <1>1 DEF Aligned
<1>3. Len(b) \in Nat /\ Len(lines) \in Nat /\ m \in Nat
      OBVIOUS
<1>4. CASE m = 0
      <2>1. SubSeq(lines, 1, m) = <<>> /\ SubSeq(b, 1, 0) = <<>>
            BY <1>4, SubSeqEmpty
      <2>2. <<>> \in Seq(Bytes) /\ Unbroken(<<>>)
            BY DEF Unbroken
      <2>3. AreLinesOf(<<>>, <<>>)
            BY <2>2, NoLines
      <2>4. 0 \in 0..Len(b)
            BY <1>3
      <2> QED BY <2>1, <2>3, <2>4
<1>5. CASE m # 0
      <2> DEFINE n == ends[m]
                 c == SubSeq(b, 1, n)
                 s == SubSeq(lines, 1, m)
      <2>1. m \in 1..Len(lines) /\ n \in 1..Len(b)
            BY <1>2, <1>3, <1>5 DEF LineEnds
      <2>2. /\ c \in Seq(Bytes) /\ Len(c) = n
            /\ \A i \in 1..n : c[i] = b[i]
            <3> DEFINE p == n
            <3>1. p \in 1..Len(b)
                  BY <2>1
            <3> HIDE DEF p
            <3>2. 1 \in Int /\ p \in Int /\ \A i \in 1..p : b[i] \in Bytes
                  BY <1>3, <3>1
            <3>3. /\ SubSeq(b, 1, p) \in Seq(Bytes)
                  /\ Len(SubSeq(b, 1, p)) = IF 1 <= p THEN p - 1 + 1 ELSE 0
                  /\ \A i \in 1..(p - 1 + 1) : SubSeq(b, 1, p)[i] = b[1 + i - 1]
                  BY <3>2, SubSeqProperties
            <3>4. 1 <= p /\ p - 1 + 1 = p /\ \A i \in 1..p : 1 + i - 1 = i
                  BY <3>1
            <3>5. c = SubSeq(b, 1, p)
                  BY DEF p
            <3> HIDE DEF c
            <3> QED BY <3>3, <3>4, <3>5 DEF p
      <2>3. Len(s) = m /\ \A k \in 1..m : s[k] = lines[k]
            <3>1. 1 \in Int /\ m \in Int /\ \A i \in 1..m : lines[i] \in Line
                  BY <1>3, <2>1
            <3> HIDE DEF Line
            <3>2. /\ Len(SubSeq(lines, 1, m)) = IF 1 <= m THEN m - 1 + 1 ELSE 0
                  /\ \A i \in 1..(m - 1 + 1) : SubSeq(lines, 1, m)[i] = lines[1 + i - 1]
                  BY <3>1, SubSeqProperties
            <3>3. 1 <= m /\ m - 1 + 1 = m /\ \A i \in 1..m : 1 + i - 1 = i
                  BY <2>1
            <3> QED BY <3>2, <3>3
      <2> HIDE DEF n, c, s
      <2>4. ASSUME NEW e \in 1..n
            PROVE  LineTo(b, e) = LineTo(c, e) /\ c[e] = b[e] /\ e \in 1..Len(b)
            <3>1. e \in 1..Len(c) /\ 0 + e <= Len(b) /\ e \in 1..Len(b) /\ 0 \in Nat /\ 0 + e = e
                  /\ \A i \in 1..e : i \in 1..n /\ 0 + i = i
                  BY <1>3, <2>1, <2>2
            <3>2. \A i \in 1..e : c[i] = b[0 + i]
                  BY <2>2, <3>1
            <3>3. LineTo(b, 0 + e) = LineTo(c, e)
                  BY <2>2, <3>1, <3>2, SameLine
            <3> QED BY <2>2, <3>1, <3>3
      <2>5. \A e \in 1..n : e \in LineEnds(c) <=> e \in LineEnds(b)
            BY <2>2, <2>4 DEF LineEnds
      <2>6. LineEnds(c) \subseteq 1..n /\ LineEnds(b) \subseteq 1..Len(b)
            BY <2>2 DEF LineEnds
      <2>7. ASSUME NEW k \in 1..m
            PROVE  k \in 1..Len(lines) /\ ends[k] \in 1..n
            <3>1. k \in 1..Len(lines)
                  BY <2>1
            <3>2. ends[k] \in 1..Len(b)
                  BY <1>2, <2>6, <3>1
            <3>3. ends[k] <= n
                  <4>1. CASE k = m
                        BY <2>1, <4>1 DEF n
                  <4>2. CASE k < m
                        <5>1. ends[k] < n
                              BY <1>2, <2>1, <3>1, <4>2 DEF n
                        <5> QED BY <2>1, <3>2, <5>1
                  <4> QED BY <2>1, <4>1, <4>2
            <3> QED BY <2>1, <3>1, <3>2, <3>3
      <2> DEFINE g == [k \in 1..m |-> ends[k]]
      <2>8. \A k \in 1..m : g[k] = ends[k]
            OBVIOUS
      <2>9. g \in [1..m -> LineEnds(c)]
            BY <1>2, <2>5, <2>7
      <2> HIDE DEF g
      <2>10. \A j, k \in 1..m : j < k => g[j] < g[k]
             BY <1>2, <2>7, <2>8
      <2>11. ASSUME NEW e \in LineEnds(c)
             PROVE  \E k \in 1..m : g[k] = e
             <3>1. e \in 1..n /\ e \in LineEnds(b)
                   BY <2>5, <2>6
             <3>2. PICK k \in 1..Len(lines) : ends[k] = e
                   BY <1>2, <3>1
             <3>3. ~(m < k)
                   <4>1. ASSUME m < k PROVE n < e
                         BY <1>2, <2>1, <3>2, <4>1 DEF n
                   <4> QED BY <2>1, <3>1, <4>1
             <3>4. k \in 1..m
                   BY <2>1, <3>3
             <3> QED BY <2>8, <3>2, <3>4
      <2>12. \A k \in 1..m : s[k] = LineTo(c, g[k])
             BY <1>2, <2>3, <2>4, <2>7, <2>8
      <2>13. Aligned(g, s, c)
             BY <2>3, <2>9, <2>10, <2>11, <2>12 DEF Aligned
      <2>14. AreLinesOf(s, c)
             BY <2>13, AlignedLines
      <2>15. n \in 0..Len(b)
             BY <2>1
      <2> QED BY <2>14, <2>15 DEF s, c
<1> QED BY <1>4, <1>5

-----------------------------------------------------------------------------
(* The receiver and its context *)

\* Where the receiver may be for each place of the context.
ReceiverInv ==
    /\ context \in Contexts /\ receiver \in Receivers
    /\ receiver = "none" <=> context \in {"new", "failed"}
    /\ receiver = "cancelled" => context = "joining"
    /\ context = "joining" => receiver \in {"cancelled", "done"}
    /\ context = "closed" => receiver = "done"

\* A step of the receiver leaves the context alone and begins while it is
\* neither joined nor closed, except for its last step after cancel().
LEMMA ReceiverMoves ==
    ASSUME \/ \E line : ReceiveMessage(line)
           \/ \E chunk : ReceiveChunk(chunk)
           \/ PutResumes \/ StreamEnds \/ StreamTerminates \/ StreamFails
           \/ ReceiverCancelled
    PROVE  /\ UNCHANGED context
           /\ \/ receiver \in {"receiving", "putting"}
                 /\ receiver' \in {"receiving", "putting", "done"}
              \/ receiver = "cancelled" /\ receiver' = "done"
BY DEF ReceiveMessage, ReceiveChunk, PutResumes, StreamEnds, StreamTerminates,
       StreamFails, ReceiverCancelled, Put

\* The discipline of context and receiver is inductive.
THEOREM ReceiverDiscipline == Spec => []ReceiverInv
<1>1. Init => ReceiverInv
      BY DEF Init, ReceiverInv, Contexts, Receivers
<1>2. ReceiverInv /\ [Next]_vars => ReceiverInv'
      <2> SUFFICES ASSUME ReceiverInv, [Next]_vars
                   PROVE  ReceiverInv'
          OBVIOUS
      <2> USE DEF ReceiverInv, Contexts, Receivers
      <2>1. CASE Open
            BY <2>1 DEF Open
      <2>2. CASE ManagerCollected \/ Read
            BY <2>2 DEF ManagerCollected, Read
      <2>3. CASE Exit
            BY <2>3 DEF Exit
      <2>4. CASE CancelReceiver
            BY <2>4 DEF CancelReceiver
      <2>5. CASE Joined
            BY <2>5 DEF Joined
      <2>6. CASE \/ \E line : ReceiveMessage(line)
                 \/ \E chunk : ReceiveChunk(chunk)
                 \/ PutResumes \/ StreamEnds \/ StreamTerminates \/ StreamFails
                 \/ ReceiverCancelled
            <3>1. UNCHANGED context
                  BY <2>6, ReceiverMoves
            <3>2. CASE receiver = "cancelled" /\ receiver' = "done"
                  BY <3>1, <3>2
            <3>3. CASE receiver \in {"receiving", "putting"}
                       /\ receiver' \in {"receiving", "putting", "done"}
                  BY <3>1, <3>3
            <3> QED BY <2>6, <3>2, <3>3, ReceiverMoves
      <2>7. CASE UNCHANGED vars
            BY <2>7 DEF vars
      <2> QED BY <2>1, <2>2, <2>3, <2>4, <2>5, <2>6, <2>7 DEF Next
<1> QED BY <1>1, <1>2, PTL DEF Spec

\* Once the context is closed no receiver is left, also if it was waiting for
\* room in a queue that nobody reads any more.
THEOREM ReceiverEnds == Spec => []NoOrphanReceiver
<1>1. ReceiverInv => NoOrphanReceiver
      BY DEF ReceiverInv, NoOrphanReceiver
<1> QED BY <1>1, ReceiverDiscipline, PTL

-----------------------------------------------------------------------------
(* The queue *)

Item == Line \cup {NodeAPIError}

\* The smaller of two numbers.
LEMMA Smaller ==
    ASSUME NEW m \in Nat, NEW n \in Nat
    PROVE  Min({m, n}) = IF m <= n THEN m ELSE n
<1>1. CASE m <= n
      <2>1. \A k \in {m, n} : (\A j \in {m, n} : k <= j) <=> k = m
            BY <1>1
      <2> QED BY <1>1, <2>1 DEF Min
<1>2. CASE ~(m <= n)
      <2>1. \A k \in {m, n} : (\A j \in {m, n} : k <= j) <=> k = n
            BY <1>2
      <2> QED BY <1>2, <2>1 DEF Min
<1> QED BY <1>1, <1>2

\* Lines cut in two.
LEMMA Cut ==
    ASSUME NEW lines \in Seq(Line), NEW n \in 0..Len(lines)
    PROVE  /\ SubSeq(lines, 1, n) \in Seq(Line)
           /\ SubSeq(lines, n + 1, Len(lines)) \in Seq(Line)
           /\ Len(SubSeq(lines, 1, n)) = n
           /\ n = Len(lines) => SubSeq(lines, n + 1, Len(lines)) = <<>>
           /\ SubSeq(lines, 1, n) \o SubSeq(lines, n + 1, Len(lines)) = lines
<1> DEFINE S == Line
           last == Len(lines)
<1>1. lines \in Seq(S) /\ last = Len(lines) /\ last \in Nat /\ n \in 0..last
      OBVIOUS
<1> HIDE DEF S, last
<1>2. \A i \in 1..last : lines[i] \in S
      BY <1>1
<1>3. SubSeq(lines, 1, n) \in Seq(S) /\ Len(SubSeq(lines, 1, n)) = n
      <2>1. 1 \in Int /\ n \in Int /\ \A i \in 1..n : lines[i] \in S
            BY <1>1, <1>2
      <2>2. /\ SubSeq(lines, 1, n) \in Seq(S)
            /\ Len(SubSeq(lines, 1, n)) = IF 1 <= n THEN n - 1 + 1 ELSE 0
            BY <2>1, SubSeqProperties
      <2> QED BY <1>1, <2>2
<1>4. SubSeq(lines, n + 1, last) \in Seq(S)
      <2>1. n + 1 \in Int /\ last \in Int /\ \A i \in (n + 1)..last : lines[i] \in S
            BY <1>1, <1>2
      <2> QED BY <2>1, SubSeqProperties
<1>5. n = last => SubSeq(lines, n + 1, last) = <<>>
      <2>1. n + 1 \in Int /\ last \in Int /\ (n = last => last < n + 1)
            BY <1>1
      <2> QED BY <2>1, SubSeqEmpty
<1>6. SubSeq(lines, 1, n) \o SubSeq(lines, n + 1, last) = lines
      <2>1. /\ 1 \in 1..(last + 1) /\ n \in (1 - 1)..last /\ last \in n..last
            BY <1>1
      <2>2. SubSeq(lines, 1, n) \o SubSeq(lines, n + 1, last) = SubSeq(lines, 1, last)
            BY <1>1, <2>1, ConcatAdjacentSubSeq
      <2>3. SubSeq(lines, 1, last) = lines
            BY <1>1, SubSeqFull
      <2> QED BY <2>2, <2>3
<1> QED BY <1>3, <1>4, <1>5, <1>6 DEF S, last

\* put() moves the first of the lines to the end of the queue, without going
\* beyond its size; the others wait in the receiver.
LEMMA PutMoves ==
    ASSUME logQueue \in Seq(Item), Len(logQueue) <= MaxQueueSize,
           NEW lines \in Seq(Line), Put(lines)
    PROVE  /\ logQueue' \in Seq(Item) /\ Len(logQueue') <= MaxQueueSize
           /\ unput' \in Seq(Line)
           /\ receiver' \in {"receiving", "putting"}
           /\ receiver' = "receiving" => unput' = <<>>
           /\ \E first \in Seq(Line) : /\ logQueue' = logQueue \o first
                                       /\ first \o unput' = lines
<1> DEFINE free == MaxQueueSize - Len(logQueue)
           fit == Min({free, Len(lines)})
           first == SubSeq(lines, 1, fit)
           rest == SubSeq(lines, fit + 1, Len(lines))
<1>1. free \in Nat /\ Len(lines) \in Nat /\ Len(logQueue) \in Nat /\ MaxQueueSize \in Nat
      BY QueueAssumption DEF QueueAssumption
<1>2. fit \in 0..Len(lines) /\ fit <= free
      <2> HIDE DEF free
      <2>1. fit = IF free <= Len(lines) THEN free ELSE Len(lines)
            BY <1>1, Smaller
      <2> QED BY <1>1, <2>1
<1>3. /\ logQueue' = logQueue \o first /\ unput' = rest
      /\ receiver' = IF fit = Len(lines) THEN "receiving" ELSE "putting"
      BY DEF Put
<1>4. free = MaxQueueSize - Len(logQueue)
      OBVIOUS
<1> HIDE DEF fit, free
<1>5. /\ first \in Seq(Line) /\ rest \in Seq(Line) /\ Len(first) = fit
      /\ fit = Len(lines) => rest = <<>>
      /\ first \o rest = lines
      BY <1>2, Cut
<1> HIDE DEF first, rest
<1>6. first \in Seq(Item)
      <2>1. Line \subseteq Item
            BY DEF Item
      <2> HIDE DEF Line, Item
      <2> QED BY <1>5, <2>1, SeqMonotonic
<1>7. logQueue \o first \in Seq(Item) /\ Len(logQueue \o first) = Len(logQueue) + fit
      <2> HIDE DEF Item
      <2> QED BY <1>5, <1>6, ConcatProperties
<1>8. Len(logQueue') <= MaxQueueSize
      BY <1>1, <1>2, <1>3, <1>4, <1>7
<1> QED BY <1>3, <1>5, <1>7, <1>8

\* What a step may be given.
LEMMA ReceivedTypes ==
    /\ \A line \in {<<>>} \cup {<<b>> : b \in Ink} : line \in Line
    /\ \A chunk \in BoundedSeq(Bytes, MaxArrived) : chunk \in Seq(Bytes)
<1>1. ASSUME NEW line \in {<<>>} \cup {<<b>> : b \in Ink}
      PROVE  line \in Line
      <2>1. CASE line = <<>>
            BY <2>1 DEF Line
      <2>2. ASSUME NEW b \in Ink, line = <<b>>
            PROVE  line \in Line
            <3>1. b \in Text
                  BY DEF Text
            <3> QED BY <2>2, <3>1 DEF Line
      <2> QED BY <2>1, <2>2
<1>2. ASSUME NEW chunk \in BoundedSeq(Bytes, MaxArrived)
      PROVE  chunk \in Seq(Bytes)
      <2>1. PICK n \in 0..MaxArrived : chunk \in [1..n -> Bytes]
            BY DEF BoundedSeq, SeqOf
      <2>2. n \in Nat
            BY QueueAssumption DEF QueueAssumption
      <2> HIDE DEF Bytes
      <2> QED BY <2>1, <2>2, SeqDef
<1> QED BY <1>1, <1>2

\* The lines of a chunk are assembled with what was left of the chunks before.
LEMMA AssembleTypes ==
    ASSUME buffer \in Line, NEW chunk \in Seq(Bytes)
    PROVE  Assemble(chunk) \in Pieces
<1>1. buffer \in Seq(Bytes)
      <2>1. Text \subseteq Bytes
            BY DEF Bytes
      <2> QED BY <2>1, SeqMonotonic DEF Line
<1>2. buffer \o chunk \in Seq(Bytes)
      <2> HIDE DEF Bytes
      <2> QED BY <1>1, ConcatProperties
<1> QED BY <1>2, SplitPieces DEF Assemble

\* Type correctness.
THEOREM LogTypes == Spec => []TypeOK
<1>1. Init => TypeOK
      <2> SUFFICES ASSUME Init
                   PROVE  TypeOK
          OBVIOUS
      <2>1. \A S : <<>> \in Seq(S)
            OBVIOUS
      <2>2. buffer \in Line /\ unput \in Seq(Line)
            BY <2>1 DEF Init, Line
      <2>3. /\ logQueue \in Seq(Line \cup {NodeAPIError})
            /\ taken \in Seq(Line \cup {NodeAPIError})
            BY <2>1 DEF Init
      <2>4. Len(logQueue) <= MaxQueueSize
            BY QueueAssumption DEF Init, QueueAssumption
      <2>5. arrived \in IF transport = "rest" THEN Seq(Bytes) ELSE Seq(Line)
            BY <2>1 DEF Init
      <2> QED BY <2>2, <2>3, <2>4, <2>5 DEF Init, TypeOK, Contexts, Receivers
<1>2. TypeOK /\ [Next]_vars => TypeOK'
      <2> SUFFICES ASSUME TypeOK, [Next]_vars
                   PROVE  TypeOK'
          OBVIOUS
      <2>1. /\ transport \in {"grpc", "rest"} /\ context \in Contexts
            /\ streamOpen \in BOOLEAN /\ receiver \in Receivers
            /\ buffer \in Line /\ unput \in Seq(Line)
            /\ logQueue \in Seq(Item) /\ Len(logQueue) <= MaxQueueSize
            /\ taken \in Seq(Item) /\ broken \in BOOLEAN
            /\ arrived \in IF transport = "rest" THEN Seq(Bytes) ELSE Seq(Line)
            BY DEF TypeOK, Item
      <2>2. (/\ transport' \in {"grpc", "rest"} /\ context' \in Contexts
             /\ streamOpen' \in BOOLEAN /\ receiver' \in Receivers
             /\ buffer' \in Line /\ unput' \in Seq(Line)
             /\ logQueue' \in Seq(Item) /\ Len(logQueue') <= MaxQueueSize
             /\ taken' \in Seq(Item) /\ broken' \in BOOLEAN
             /\ arrived' \in IF transport' = "rest" THEN Seq(Bytes) ELSE Seq(Line))
            => TypeOK'
            BY DEF TypeOK, Item
      <2> HIDE DEF TypeOK, Line, Item, Bytes
      <2>3. CASE Open \/ ManagerCollected \/ Exit \/ CancelReceiver \/ Joined
            BY <2>1, <2>2, <2>3 DEF Open, ManagerCollected, Exit, CancelReceiver, Joined,
                                    Contexts, Receivers
      <2>4. CASE Read
            <3>1. /\ Head(logQueue) \in Item /\ Tail(logQueue) \in Seq(Item)
                  /\ Len(Tail(logQueue)) = Len(logQueue) - 1
                  BY <2>1, <2>4, HeadTailProperties DEF Read
            <3>2. /\ taken' \in Seq(Item) /\ logQueue' \in Seq(Item)
                  /\ Len(logQueue') <= MaxQueueSize
                  BY <2>1, <2>4, <3>1, QueueAssumption DEF Read, QueueAssumption
            <3> QED BY <2>1, <2>2, <2>4, <3>2 DEF Read
      <2>5. ASSUME NEW line \in Line, ReceiveMessage(line)
            PROVE  TypeOK'
            <3>1. <<line>> \in Seq(Line) /\ Put(<<line>>)
                  BY <2>5 DEF ReceiveMessage
            <3>2. /\ logQueue' \in Seq(Item) /\ Len(logQueue') <= MaxQueueSize
                  /\ unput' \in Seq(Line) /\ receiver' \in {"receiving", "putting"}
                  BY <2>1, <3>1, PutMoves
            <3>3. /\ arrived' \in Seq(Line) /\ transport = "grpc"
                  /\ UNCHANGED <<transport, context, streamOpen, buffer, taken, broken>>
                  BY <2>1, <2>5 DEF ReceiveMessage
            <3> QED BY <2>1, <2>2, <3>2, <3>3 DEF Receivers
      <2>6. ASSUME NEW chunk \in Seq(Bytes), ReceiveChunk(chunk)
            PROVE  TypeOK'
            <3>1. Assemble(chunk).lines \in Seq(Line) /\ Assemble(chunk).rest \in Line
                  BY <2>1, AssembleTypes DEF Pieces
            <3>2. /\ logQueue' \in Seq(Item) /\ Len(logQueue') <= MaxQueueSize
                  /\ unput' \in Seq(Line) /\ receiver' \in {"receiving", "putting"}
                  <4>1. Put(Assemble(chunk).lines)
                        BY <2>6 DEF ReceiveChunk
                  <4> QED BY <2>1, <3>1, <4>1, PutMoves
            <3>3. arrived' \in Seq(Bytes)
                  BY <2>1, <2>6, ConcatProperties DEF ReceiveChunk
            <3>4. /\ buffer' = Assemble(chunk).rest /\ transport = "rest"
                  /\ UNCHANGED <<transport, context, streamOpen, taken, broken>>
                  BY <2>6 DEF ReceiveChunk
            <3> QED BY <2>1, <2>2, <3>1, <3>2, <3>3, <3>4 DEF Receivers
      <2>7. CASE PutResumes
            <3>1. /\ Put(unput)
                  /\ UNCHANGED <<transport, context, streamOpen, buffer, taken, arrived, broken>>
                  BY <2>7 DEF PutResumes
            <3>2. /\ logQueue' \in Seq(Item) /\ Len(logQueue') <= MaxQueueSize
                  /\ unput' \in Seq(Line) /\ receiver' \in {"receiving", "putting"}
                  BY <2>1, <3>1, PutMoves
            <3> QED BY <2>1, <2>2, <3>1, <3>2 DEF Receivers
      <2>8. CASE StreamEnds \/ StreamTerminates
            BY <2>1, <2>2, <2>8 DEF StreamEnds, StreamTerminates, Receivers
      <2>9. CASE StreamFails
            <3>1. NodeAPIError \in Item
                  BY DEF Item
            <3>2. logQueue' \in Seq(Item) /\ Len(logQueue') <= MaxQueueSize
                  BY <2>1, <2>9, <3>1, QueueAssumption DEF StreamFails, QueueAssumption
            <3> QED BY <2>1, <2>2, <2>9, <3>2 DEF StreamFails, Receivers
      <2>10. CASE ReceiverCancelled
             <3>1. <<>> \in Seq(Line)
                   OBVIOUS
             <3> QED BY <2>1, <2>2, <2>10, <3>1 DEF ReceiverCancelled, Receivers
      <2>11. CASE UNCHANGED vars
             BY <2>1, <2>2, <2>11 DEF vars
      <2> QED BY <2>3, <2>4, <2>5, <2>6, <2>7, <2>8, <2>9, <2>10, <2>11, ReceivedTypes DEF Next
<1> QED BY <1>1, <1>2, PTL DEF Spec

-----------------------------------------------------------------------------
(* The log and its error *)

\* An error is no line.
LEMMA ErrorIsNoLine == NodeAPIError \notin Line
BY ItemAssumption DEF ItemAssumption, Line, Text, Blank

\* Items may be put together in any order.
LEMMA Regroup ==
    \A x, y, z \in Seq(Item) : (x \o y) \o z = x \o (y \o z)
<1>1. ASSUME NEW S, NEW x \in Seq(S), NEW y \in Seq(S), NEW z \in Seq(S)
      PROVE  (x \o y) \o z = x \o (y \o z)
      BY ConcatAssociative
<1> DEFINE S == Item
<1>2. S = Item
      OBVIOUS
<1> HIDE DEF S
<1>3. \A x, y, z \in Seq(S) : (x \o y) \o z = x \o (y \o z)
      BY <1>1
<1> QED BY <1>2, <1>3

\* A sequence of lines is one of items.
LEMMA LinesAreItems == Seq(Line) \subseteq Seq(Item)
<1>1. Line \subseteq Item
      BY DEF Item
<1> HIDE DEF Line, Item
<1> QED BY <1>1, SeqMonotonic

\* Lines add no error.
LEMMA LinesAdded ==
    ASSUME NEW j \in Seq(Item), NEW first \in Seq(Line),
           \A i \in 1..Len(j) : j[i] # NodeAPIError
    PROVE  /\ j \o first \in Seq(Item)
           /\ \A i \in 1..Len(j \o first) : (j \o first)[i] # NodeAPIError
<1> DEFINE k == j \o first
<1>1. \A i \in 1..Len(first) : first[i] # NodeAPIError
      <2>1. \A i \in 1..Len(first) : first[i] \in Line
            <3> HIDE DEF Line
            <3> QED OBVIOUS
      <2> QED BY <2>1, ErrorIsNoLine
<1>2. first \in Seq(Item)
      BY LinesAreItems
<1> HIDE DEF Item
<1>3. /\ k \in Seq(Item) /\ Len(k) = Len(j) + Len(first)
      /\ \A i \in 1..(Len(j) + Len(first)) :
            k[i] = IF i <= Len(j) THEN j[i] ELSE first[i - Len(j)]
      BY <1>2, ConcatProperties
<1>4. Len(j) \in Nat /\ Len(first) \in Nat
      BY <1>2
<1> HIDE DEF k
<1>5. ASSUME NEW i \in 1..Len(k)
      PROVE  k[i] # NodeAPIError
      <2>1. CASE i <= Len(j)
            BY <1>3, <1>4, <2>1
      <2>2. CASE ~(i <= Len(j))
            <3>1. i - Len(j) \in 1..Len(first)
                  BY <1>3, <1>4, <2>2
            <3> QED BY <1>1, <1>3, <2>2, <3>1
      <2> QED BY <2>1, <2>2
<1> QED BY <1>3, <1>5 DEF k

\* An error behind items that are none is the last, and what is before it are
\* these items.
LEMMA ErrorAdded ==
    ASSUME NEW j \in Seq(Item), \A i \in 1..Len(j) : j[i] # NodeAPIError
    PROVE  LET k == j \o <<NodeAPIError>>
           IN  /\ k # <<>> /\ k[Len(k)] = NodeAPIError
               /\ SubSeq(k, 1, Len(k) - 1) = j
               /\ \A i \in 1..Len(k) : k[i] = NodeAPIError => i = Len(k)
<1> DEFINE e == <<NodeAPIError>>
           k == j \o e
<1>1. e \in Seq(Item) /\ Len(e) = 1 /\ e[1] = NodeAPIError
      BY DEF Item
<1> HIDE DEF e, Item
<1>2. /\ k \in Seq(Item) /\ Len(k) = Len(j) + Len(e)
      /\ \A i \in 1..(Len(j) + Len(e)) : k[i] = IF i <= Len(j) THEN j[i] ELSE e[i - Len(j)]
      BY <1>1, ConcatProperties
<1>3. Len(j) \in Nat
      OBVIOUS
<1> HIDE DEF k
<1>4. k[Len(k)] = NodeAPIError /\ k # <<>>
      BY <1>1, <1>2, <1>3
<1>5. \A i \in 1..Len(k) : k[i] = NodeAPIError => i = Len(k)
      BY <1>1, <1>2, <1>3
<1>6. SubSeq(k, 1, Len(k) - 1) = j
      <2> DEFINE s == SubSeq(k, 1, Len(j))
      <2>1. 1 \in Int /\ Len(j) \in Int /\ \A i \in 1..Len(j) : k[i] \in Item
            BY <1>1, <1>2, <1>3
      <2>2. /\ s \in Seq(Item) /\ Len(s) = IF 1 <= Len(j) THEN Len(j) - 1 + 1 ELSE 0
            /\ \A i \in 1..(Len(j) - 1 + 1) : s[i] = k[1 + i - 1]
            BY <2>1, SubSeqProperties
      <2>3. Len(k) - 1 = Len(j)
            BY <1>1, <1>2, <1>3
      <2> HIDE DEF s
      <2>4. Len(s) = Len(j) /\ \A i \in 1..Len(s) : s[i] = j[i]
            BY <1>1, <1>2, <1>3, <2>2
      <2>5. s = j
            BY <2>2, <2>4, SeqEqual
      <2> QED BY <2>3, <2>5 DEF s
<1> QED BY <1>4, <1>5, <1>6 DEF k, e

LogInv == TypeOK /\ ReceiverInv /\ ErrorEndsLog

\* While the receiver is not done, the log has no error.
LEMMA NoErrorYet ==
    ASSUME LogInv, receiver # "done"
    PROVE  /\ Items \in Seq(Item)
           /\ \A i \in 1..Len(Items) : Items[i] # NodeAPIError
           /\ Logged = Items
<1>1. Items \in Seq(Item)
      <2>1. taken \in Seq(Item) /\ logQueue \in Seq(Item)
            BY DEF LogInv, TypeOK, Item
      <2> HIDE DEF Item
      <2> QED BY <2>1, ConcatProperties DEF Items
<1>2. \A i \in 1..Len(Items) : Items[i] # NodeAPIError
      BY DEF LogInv, ErrorEndsLog
<1> HIDE DEF Items, Item
<1>3. Items # <<>> => Len(Items) \in 1..Len(Items)
      BY <1>1
<1> QED BY <1>1, <1>2, <1>3 DEF Logged

\* Reading an item leaves the log as it is.
LEMMA ReadKeeps ==
    ASSUME TypeOK, Read
    PROVE  Items' = Items
<1>1. taken \in Seq(Item) /\ logQueue \in Seq(Item) /\ logQueue # <<>>
      BY DEF TypeOK, Item, Read
<1> DEFINE h == Head(logQueue)
           t == Tail(logQueue)
<1>2. h \in Item /\ t \in Seq(Item) /\ logQueue = <<h>> \o t
      <2> HIDE DEF Item
      <2> QED BY <1>1
<1>3. taken' = taken \o <<h>> /\ logQueue' = t
      <2> HIDE DEF Item
      <2> QED BY <1>1, <1>2 DEF Read
<1> DEFINE s == <<h>>
<1>4. s \in Seq(Item)
      <2> HIDE DEF Item, h
      <2> QED BY <1>2
<1> HIDE DEF Item, h, t
<1>5. logQueue = s \o t /\ taken' = taken \o s
      BY <1>2, <1>3
<1> HIDE DEF s
<1>6. (taken \o s) \o t = taken \o (s \o t)
      BY <1>1, <1>2, <1>4, ConcatAssociative
<1> QED BY <1>3, <1>5, <1>6 DEF Items

\* What is put into the queue makes the log longer, by lines.
LEMMA PutAdds ==
    ASSUME LogInv, receiver # "done", taken' = taken,
           NEW lines \in Seq(Line), Put(lines)
    PROVE  /\ \A i \in 1..Len(Items') : Items'[i] # NodeAPIError
           /\ Logged' \in Seq(Item) /\ unput' \in Seq(Item)
           /\ Logged' \o unput' = Logged \o lines
           /\ receiver' = "receiving" => unput' = <<>>
           /\ receiver' \in {"receiving", "putting"}
<1>1. /\ Items \in Seq(Item) /\ Logged = Items
      /\ \A i \in 1..Len(Items) : Items[i] # NodeAPIError
      BY NoErrorYet
<1>2. /\ taken \in Seq(Item) /\ logQueue \in Seq(Item) /\ Len(logQueue) <= MaxQueueSize
      BY DEF LogInv, TypeOK, Item
<1>3. /\ unput' \in Seq(Line)
      /\ receiver' = "receiving" => unput' = <<>>
      /\ receiver' \in {"receiving", "putting"}
      BY <1>2, PutMoves
<1>4. PICK first \in Seq(Line) : logQueue' = logQueue \o first /\ first \o unput' = lines
      BY <1>2, PutMoves
<1>5. first \in Seq(Item) /\ unput' \in Seq(Item)
      BY <1>3, LinesAreItems
<1>6. Items' = Items \o first
      <2>1. (taken \o logQueue) \o first = taken \o (logQueue \o first)
            BY <1>2, <1>5, Regroup
      <2> QED BY <1>4, <2>1 DEF Items
<1> HIDE DEF Items, Item
<1>7. /\ Items' \in Seq(Item) /\ (Items' # <<>> => Len(Items') \in 1..Len(Items'))
      /\ \A i \in 1..Len(Items') : Items'[i] # NodeAPIError
      <2> DEFINE j == Items
                 k == Items \o first
      <2>1. k = j \o first /\ j \in Seq(Item) /\ \A i \in 1..Len(j) : j[i] # NodeAPIError
            BY <1>1
      <2> HIDE DEF j, k
      <2>2. k \in Seq(Item) /\ \A i \in 1..Len(k) : k[i] # NodeAPIError
            BY <2>1, LinesAdded
      <2>3. k # <<>> => Len(k) \in 1..Len(k)
            BY <2>2
      <2> QED BY <1>6, <2>2, <2>3 DEF k
<1>8. Logged' = Items'
      BY <1>7 DEF Logged
<1>9. (Items \o first) \o unput' = Items \o (first \o unput')
      BY <1>1, <1>5, Regroup
<1>10. Logged' \o unput' = Logged \o lines
       BY <1>1, <1>4, <1>6, <1>8, <1>9
<1> QED BY <1>3, <1>5, <1>7, <1>8, <1>10

\* An error is added to a log without one.
LEMMA FailAdds ==
    ASSUME LogInv, StreamFails
    PROVE  ErrorEndsLog' /\ Logged' = Logged
<1>1. /\ Items \in Seq(Item) /\ Logged = Items
      /\ \A i \in 1..Len(Items) : Items[i] # NodeAPIError
      BY NoErrorYet DEF StreamFails
<1>2. taken \in Seq(Item) /\ logQueue \in Seq(Item) /\ taken' = taken /\ receiver' = "done"
      BY DEF LogInv, TypeOK, Item, StreamFails
<1>3. CASE logQueue' = logQueue
      <2>1. Items' = Items
            BY <1>2, <1>3 DEF Items
      <2> QED BY <1>1, <1>2, <2>1 DEF ErrorEndsLog, Logged
<1>4. CASE logQueue' = Append(logQueue, NodeAPIError)
      <2> DEFINE e == <<NodeAPIError>>
                 k == Items \o e
      <2>1. e \in Seq(Item)
            BY DEF Item
      <2>2. logQueue' = logQueue \o e
            <3> HIDE DEF Item
            <3> QED BY <1>2, <1>4
      <2>3. Items' = k
            <3> HIDE DEF e
            <3>1. (taken \o logQueue) \o e = taken \o (logQueue \o e)
                  BY <1>2, <2>1, Regroup
            <3> QED BY <1>2, <2>2, <3>1 DEF Items
      <2>4. /\ k # <<>> /\ k[Len(k)] = NodeAPIError
            /\ SubSeq(k, 1, Len(k) - 1) = Items
            /\ \A i \in 1..Len(k) : k[i] = NodeAPIError => i = Len(k)
            BY <1>1, ErrorAdded
      <2> HIDE DEF k
      <2>5. Logged' = Items
            BY <2>3, <2>4 DEF Logged
      <2>6. ErrorEndsLog'
            BY <1>2, <2>3, <2>4 DEF ErrorEndsLog
      <2> QED BY <1>1, <2>5, <2>6
<1> QED BY <1>3, <1>4 DEF StreamFails

\* A log that does not change, nor the end of the receiver, keeps its error.
LEMMA LogKept ==
    ASSUME ErrorEndsLog, Items' = Items, receiver = "done" => receiver' = "done"
    PROVE  ErrorEndsLog' /\ Logged' = Logged
BY DEF ErrorEndsLog, Logged

\* The lines of the stream so far.
Whole == IF transport = "rest" THEN Split[arrived].lines ELSE arrived

\* The log, and what the receiver still has to put, are the lines of the stream,
\* except those that a cancelled receiver has given up.
Complete ==
    /\ receiver \in {"none", "receiving", "done"} => unput = <<>>
    /\ transport = "rest" => buffer = Split[arrived].rest
    /\ \E lost \in Seq(Line) : /\ Whole = (Logged \o unput) \o lost
                               /\ context \notin {"joining", "closed"} => lost = <<>>
\* Lines that arrive follow those that are kept.
LEMMA Arrives ==
    ASSUME LogInv, Complete, receiver = "receiving",
           NEW lines \in Seq(Line), Put(lines), Whole' = Whole \o lines,
           UNCHANGED <<context, taken>>,
           transport' = "rest" => buffer' = Split[arrived'].rest
    PROVE  ErrorEndsLog' /\ Complete'
<1>1. /\ \A i \in 1..Len(Items') : Items'[i] # NodeAPIError
      /\ Logged' \in Seq(Item) /\ unput' \in Seq(Item)
      /\ Logged' \o unput' = Logged \o lines
      /\ receiver' = "receiving" => unput' = <<>>
      /\ receiver' \in {"receiving", "putting"}
      BY PutAdds
<1>2. Logged \in Seq(Item)
      BY NoErrorYet
<1>3. Whole = Logged
      <2>1. context \notin {"joining", "closed"} /\ unput = <<>>
            BY DEF LogInv, ReceiverInv, Complete
      <2>2. Whole = (Logged \o <<>>) \o <<>>
            BY <2>1 DEF Complete
      <2>3. Logged \o <<>> = Logged
            <3> HIDE DEF Logged, Item
            <3> QED BY <1>2, ConcatEmptySeq
      <2> QED BY <2>2, <2>3
<1>4. Whole' = Logged' \o unput'
      BY <1>1, <1>3
<1>5. Logged' \o unput' \in Seq(Item)
      BY <1>1, ConcatProperties
<1>6. <<>> \in Seq(Line) /\ Whole' = (Logged' \o unput') \o <<>>
      <2> HIDE DEF Item
      <2> QED BY <1>4, <1>5, ConcatEmptySeq
<1>7. ErrorEndsLog'
      BY <1>1 DEF ErrorEndsLog
<1> QED BY <1>1, <1>6, <1>7 DEF Complete

\* The lines of a chunk are those of all bytes that those before it did not have.
LEMMA ChunkLines ==
    ASSUME TypeOK, Complete, NEW chunk \in Seq(Bytes), ReceiveChunk(chunk)
    PROVE  /\ Whole' = Whole \o Assemble(chunk).lines
           /\ buffer' = Split[arrived'].rest
<1>1. transport = "rest" /\ transport' = "rest" /\ arrived' = arrived \o chunk
      /\ buffer' = Assemble(chunk).rest
      BY DEF ReceiveChunk
<1>2. arrived \in Seq(Bytes) /\ buffer = Split[arrived].rest
      BY <1>1 DEF TypeOK, Complete
<1>3. Split[arrived \o chunk] = [lines |-> Split[arrived].lines \o Assemble(chunk).lines,
                                 rest |-> Assemble(chunk).rest]
      BY <1>2, SplitInParts DEF Assemble
<1>4. /\ Split[arrived'].lines = Split[arrived].lines \o Assemble(chunk).lines
      /\ Split[arrived'].rest = Assemble(chunk).rest
      <2> DEFINE u == Split[arrived']
                 v == Split[arrived].lines \o Assemble(chunk).lines
                 w == Assemble(chunk).rest
      <2>1. u = [lines |-> v, rest |-> w]
            BY <1>1, <1>3
      <2> HIDE DEF u, v, w
      <2>2. u.lines = v /\ u.rest = w
            BY <2>1
      <2> QED BY <2>2 DEF u, v, w
<1>5. Whole = Split[arrived].lines /\ Whole' = Split[arrived'].lines
      BY <1>1 DEF Whole
<1> QED BY <1>1, <1>4, <1>5

\* The rest of the lines of a full queue are put, or wait further.
LEMMA Resumes ==
    ASSUME LogInv, Complete, PutResumes
    PROVE  ErrorEndsLog' /\ Complete'
<1>1. /\ receiver = "putting" /\ Put(unput)
      /\ UNCHANGED <<transport, context, buffer, taken, arrived>>
      BY DEF PutResumes
<1>2. unput \in Seq(Line)
      BY DEF LogInv, TypeOK
<1>3. /\ \A i \in 1..Len(Items') : Items'[i] # NodeAPIError
      /\ Logged' \o unput' = Logged \o unput
      /\ receiver' = "receiving" => unput' = <<>>
      /\ receiver' \in {"receiving", "putting"}
      BY <1>1, <1>2, PutAdds
<1>4. Whole' = Whole
      BY <1>1 DEF Whole
<1>5. ErrorEndsLog'
      BY <1>3 DEF ErrorEndsLog
<1>6. Complete'
      BY <1>1, <1>3, <1>4 DEF Complete
<1> QED BY <1>5, <1>6

\* A cancelled receiver gives up what it has not put.
LEMMA GivesUp ==
    ASSUME LogInv, Complete, ReceiverCancelled
    PROVE  ErrorEndsLog' /\ Complete'
<1>1. /\ receiver = "cancelled" /\ receiver' = "done" /\ unput' = <<>> /\ context = "joining"
      /\ UNCHANGED <<transport, context, buffer, logQueue, taken, arrived>>
      BY DEF LogInv, ReceiverInv, ReceiverCancelled
<1>2. ErrorEndsLog' /\ Logged' = Logged
      <2>1. Items' = Items
            BY <1>1 DEF Items
      <2> QED BY <1>1, <2>1, LogKept DEF LogInv
<1>3. PICK lost \in Seq(Line) : Whole = (Logged \o unput) \o lost
      BY DEF Complete
<1>4. unput \in Seq(Line) /\ unput \o lost \in Seq(Line)
      <2>1. unput \in Seq(Line)
            BY DEF LogInv, TypeOK
      <2> HIDE DEF Line
      <2> QED BY <2>1, ConcatProperties
<1>5. Logged \in Seq(Item) /\ unput \in Seq(Item) /\ lost \in Seq(Item)
      BY <1>1, <1>4, LinesAreItems, NoErrorYet
<1>6. (Logged \o unput) \o lost = Logged \o (unput \o lost)
      BY <1>5, Regroup
<1>7. Logged \o <<>> = Logged
      BY <1>5, ConcatEmptySeq
<1>8. Whole' = (Logged' \o unput') \o (unput \o lost)
      <2>1. Whole' = Whole
            BY <1>1 DEF Whole
      <2> QED BY <1>1, <1>2, <1>3, <1>6, <1>7, <2>1
<1>9. Complete'
      BY <1>1, <1>4, <1>8 DEF Complete
<1> QED BY <1>2, <1>9

\* A step that leaves the stream, the lines and the log as they are.
LEMMA CompleteKept ==
    ASSUME Complete, Logged' = Logged, UNCHANGED <<transport, arrived, buffer, unput>>,
           \/ unput = <<>>
           \/ receiver' \in {"none", "receiving", "done"}
                => receiver \in {"none", "receiving", "done"},
           context' \notin {"joining", "closed"} => context \notin {"joining", "closed"}
    PROVE  Complete'
<1>1. Whole' = Whole
      BY DEF Whole
<1> QED BY <1>1 DEF Complete

\* The log is complete.
THEOREM LogComplete == Spec => [](ErrorEndsLog /\ Complete)
<1>1. Init => ErrorEndsLog /\ Complete
      <2> SUFFICES ASSUME Init
                   PROVE  ErrorEndsLog /\ Complete
          OBVIOUS
      <2>1. /\ receiver = "none" /\ buffer = <<>> /\ unput = <<>> /\ logQueue = <<>>
            /\ taken = <<>> /\ arrived = <<>>
            BY DEF Init
      <2>2. \A S : <<>> \in Seq(S)
            OBVIOUS
      <2>3. <<>> \o <<>> = <<>>
            BY <2>2, ConcatEmptySeq
      <2>4. Items = <<>>
            BY <2>1, <2>3 DEF Items
      <2>5. Logged = <<>>
            BY <2>4 DEF Logged
      <2>6. Split[<<>>] = [lines |-> <<>>, rest |-> <<>>]
            <3>1. <<>> \in Seq(Bytes) /\ Unbroken(<<>>)
                  BY DEF Unbroken
            <3> QED BY <3>1, SplitPieces
      <2>7. Whole = <<>> /\ buffer = Split[arrived].rest
            BY <2>1, <2>6 DEF Whole
      <2>8. ErrorEndsLog
            BY <2>4 DEF ErrorEndsLog
      <2>9. Complete
            BY <2>1, <2>2, <2>3, <2>5, <2>7 DEF Complete
      <2> QED BY <2>8, <2>9
<1>2. TypeOK /\ ReceiverInv /\ ErrorEndsLog /\ Complete /\ [Next]_vars
        => ErrorEndsLog' /\ Complete'
      <2> SUFFICES ASSUME TypeOK, ReceiverInv, ErrorEndsLog, Complete, [Next]_vars
                   PROVE  ErrorEndsLog' /\ Complete'
          OBVIOUS
      <2>0. LogInv
            BY DEF LogInv
      <2>1. CASE Open
            <3>1. /\ receiver = "none" /\ context = "new" /\ unput = <<>>
                  /\ Items' = Items
                  /\ UNCHANGED <<transport, arrived, buffer, unput>>
                  BY <2>1 DEF Open, Complete, ReceiverInv, Items
            <3>2. ErrorEndsLog' /\ Logged' = Logged
                  BY <3>1, LogKept
            <3> QED BY <3>1, <3>2, CompleteKept
      <2>2. CASE ManagerCollected \/ Exit
            <3>1. /\ Items' = Items /\ context = "open"
                  /\ UNCHANGED <<transport, arrived, buffer, unput, receiver>>
                  BY <2>2 DEF ManagerCollected, Exit, Items
            <3>2. ErrorEndsLog' /\ Logged' = Logged
                  BY <3>1, LogKept
            <3> QED BY <3>1, <3>2, CompleteKept
      <2>3. CASE Read
            <3>1. Items' = Items
                  BY <2>3, ReadKeeps
            <3>2. UNCHANGED <<transport, context, arrived, buffer, unput, receiver>>
                  BY <2>3 DEF Read
            <3>3. ErrorEndsLog' /\ Logged' = Logged
                  BY <3>1, <3>2, LogKept
            <3> QED BY <3>2, <3>3, CompleteKept
      <2>4. CASE CancelReceiver
            <3>1. /\ Items' = Items /\ context = "closing"
                  /\ UNCHANGED <<transport, arrived, buffer, unput>>
                  /\ receiver' \in {"done", "cancelled"}
                  /\ receiver' = "done" <=> receiver = "done"
                  BY <2>4 DEF CancelReceiver, Items
            <3>2. ErrorEndsLog' /\ Logged' = Logged
                  BY <3>1, LogKept
            <3> QED BY <3>1, <3>2, CompleteKept
      <2>5. CASE Joined
            <3>1. /\ Items' = Items /\ context = "joining" /\ context' = "closed"
                  /\ UNCHANGED <<transport, arrived, buffer, unput, receiver>>
                  BY <2>5 DEF Joined, Items
            <3>2. ErrorEndsLog' /\ Logged' = Logged
                  BY <3>1, LogKept
            <3> QED BY <3>1, <3>2, CompleteKept
      <2>6. ASSUME NEW line \in Line, ReceiveMessage(line)
            PROVE  ErrorEndsLog' /\ Complete'
            <3>1. /\ transport = "grpc" /\ receiver = "receiving" /\ Put(<<line>>)
                  /\ arrived' = Append(arrived, line)
                  /\ UNCHANGED <<transport, context, taken>>
                  BY <2>6 DEF ReceiveMessage
            <3>2. <<line>> \in Seq(Line)
                  <4> HIDE DEF Line
                  <4> QED OBVIOUS
            <3>3. Whole' = Whole \o <<line>>
                  <4>1. arrived \in Seq(Line)
                        BY <3>1 DEF TypeOK
                  <4>2. arrived' = arrived \o <<line>>
                        <5> HIDE DEF Line
                        <5> QED BY <3>1, <4>1
                  <4> QED BY <3>1, <4>2 DEF Whole
            <3> QED BY <2>0, <3>1, <3>2, <3>3, Arrives
      <2>7. ASSUME NEW chunk \in Seq(Bytes), ReceiveChunk(chunk)
            PROVE  ErrorEndsLog' /\ Complete'
            <3>1. /\ receiver = "receiving" /\ Put(Assemble(chunk).lines)
                  /\ UNCHANGED <<context, taken>>
                  BY <2>7 DEF ReceiveChunk
            <3>2. Assemble(chunk).lines \in Seq(Line)
                  BY AssembleTypes DEF TypeOK, Pieces
            <3>3. Whole' = Whole \o Assemble(chunk).lines /\ buffer' = Split[arrived'].rest
                  BY <2>7, ChunkLines
            <3> QED BY <2>0, <3>1, <3>2, <3>3, Arrives
      <2>8. CASE PutResumes
            BY <2>0, <2>8, Resumes
      <2>9. CASE StreamEnds \/ StreamTerminates
            <3>1. /\ Items' = Items /\ receiver = "receiving" /\ receiver' = "done"
                  /\ UNCHANGED <<transport, context, arrived, buffer, unput>>
                  BY <2>9 DEF StreamEnds, StreamTerminates, Items
            <3>2. ErrorEndsLog' /\ Logged' = Logged
                  BY <3>1, LogKept
            <3> QED BY <3>1, <3>2, CompleteKept
      <2>10. CASE StreamFails
             <3>1. /\ receiver = "receiving"
                   /\ UNCHANGED <<transport, context, arrived, buffer, unput>>
                   BY <2>10 DEF StreamFails
             <3>2. ErrorEndsLog' /\ Logged' = Logged
                   BY <2>0, <2>10, FailAdds
             <3> QED BY <3>1, <3>2, CompleteKept
      <2>11. CASE ReceiverCancelled
             BY <2>0, <2>11, GivesUp
      <2>12. CASE UNCHANGED vars
             <3>1. /\ Items' = Items
                   /\ UNCHANGED <<transport, context, arrived, buffer, unput, receiver>>
                   BY <2>12 DEF vars, Items
             <3>2. ErrorEndsLog' /\ Logged' = Logged
                   BY <3>1, LogKept
             <3> QED BY <3>1, <3>2, CompleteKept
      <2> QED BY <2>1, <2>2, <2>3, <2>4, <2>5, <2>6, <2>7, <2>8, <2>9, <2>10, <2>11,
                 <2>12, ReceivedTypes DEF Next
<1> QED BY <1>1, <1>2, LogTypes, ReceiverDiscipline, PTL DEF Spec

\* An error is the last item of the log.
THEOREM ErrorLast == Spec => []ErrorEndsLog
BY LogComplete, PTL

\* What is kept are the first of the lines of the stream.
LEMMA KeptFirst ==
    ASSUME NEW kept \in Seq(Item), NEW lost \in Seq(Line), NEW whole \in Seq(Line),
           whole = kept \o lost
    PROVE  Len(kept) \in 0..Len(whole) /\ kept = SubSeq(whole, 1, Len(kept))
<1>1. lost \in Seq(Item)
      BY LinesAreItems
<1> HIDE DEF Item, Line
<1>2. Len(whole) = Len(kept) + Len(lost)
      BY <1>1, ConcatProperties
<1>3. Len(kept) \in Nat /\ Len(lost) \in Nat
      OBVIOUS
<1>4. CASE Len(kept) = 0
      <2>1. kept = <<>> /\ SubSeq(whole, 1, Len(kept)) = <<>>
            BY <1>4, SubSeqEmpty, EmptySeq
      <2> QED BY <1>2, <1>3, <2>1
<1>5. CASE Len(kept) # 0
      <2>1. 1 \in 1..Len(kept) /\ Len(kept) \in 1..Len(kept)
            BY <1>3, <1>5
      <2>2. SubSeq(kept \o lost, 1, Len(kept)) = SubSeq(kept, 1, Len(kept))
            BY <1>1, <2>1, SubSeqOfConcat1
      <2>3. SubSeq(kept, 1, Len(kept)) = kept
            BY SubSeqFull
      <2> QED BY <1>2, <1>3, <2>2, <2>3
<1> QED BY <1>4, <1>5

\* The lines in the log and in the receiver are the lines of the stream, each
\* once and in order.
THEOREM LinesKept == Spec => []LinesIntact
<1>1. TypeOK /\ ReceiverInv /\ ErrorEndsLog /\ Complete => LinesIntact
      <2> SUFFICES ASSUME TypeOK, ReceiverInv, ErrorEndsLog, Complete
                   PROVE  LinesIntact
          OBVIOUS
      <2> DEFINE kept == Logged \o unput
      <2>1. PICK lost \in Seq(Line) : /\ Whole = kept \o lost
                                      /\ context = "open" => lost = <<>>
            BY DEF Complete
      <2>2. kept \in Seq(Item)
            <3>1. taken \in Seq(Item) /\ logQueue \in Seq(Item) /\ unput \in Seq(Item)
                  BY LinesAreItems DEF TypeOK, Item
            <3>2. Items \in Seq(Item)
                  <4> HIDE DEF Item
                  <4> QED BY <3>1, ConcatProperties DEF Items
            <3>3. Logged \in Seq(Item)
                  <4>1. CASE Logged = Items
                        BY <3>2, <4>1
                  <4>2. CASE Logged = SubSeq(Items, 1, Len(Items) - 1)
                        <5> HIDE DEF Item, Items
                        <5>1. /\ 1 \in Int /\ Len(Items) - 1 \in Int
                              /\ \A i \in 1..(Len(Items) - 1) : Items[i] \in Item
                              BY <3>2
                        <5>2. SubSeq(Items, 1, Len(Items) - 1) \in Seq(Item)
                              BY <5>1, SubSeqProperties
                        <5> QED BY <4>2, <5>2
                  <4> QED BY <4>1, <4>2 DEF Logged
            <3> HIDE DEF Item, Logged
            <3> QED BY <3>1, <3>3, ConcatProperties
      <2> HIDE DEF kept
      <2>3. CASE transport = "rest"
            <3>1. arrived \in Seq(Bytes) /\ Whole = Split[arrived].lines
                  BY <2>3 DEF TypeOK, Whole
            <3>2. Whole \in Seq(Line) /\ AreLinesOf(Whole, arrived)
                  BY <3>1, SplitPieces, SplitLines DEF Pieces
            <3>3. Len(kept) \in 0..Len(Whole) /\ kept = SubSeq(Whole, 1, Len(kept))
                  <4> HIDE DEF Item, Line, Whole
                  <4> QED BY <2>1, <2>2, <3>2, KeptFirst
            <3>4. CASE context = "open"
                  <4>1. Whole = kept
                        <5>1. kept \o <<>> = kept
                              <6> HIDE DEF Item
                              <6> QED BY <2>2, ConcatEmptySeq
                        <5> QED BY <2>1, <3>4, <5>1
                  <4>2. SubSeq(arrived, 1, Len(arrived)) = arrived /\ Len(arrived) \in Nat
                        <5> HIDE DEF Bytes
                        <5> QED BY <3>1, SubSeqFull
                  <4>3. AreLinesOf(kept, SubSeq(arrived, 1, Len(arrived)))
                        <5> HIDE DEF Whole
                        <5> QED BY <3>2, <4>1, <4>2
                  <4>4. Len(arrived) \in 0..Len(arrived)
                        BY <4>2
                  <4> QED BY <2>3, <4>3, <4>4 DEF LinesIntact, kept
            <3>5. CASE context # "open"
                  <4>1. PICK n \in 0..Len(arrived) :
                           AreLinesOf(SubSeq(Whole, 1, Len(kept)), SubSeq(arrived, 1, n))
                        <5> HIDE DEF Line, Whole, Bytes
                        <5> QED BY <3>1, <3>2, <3>3, LinesUpTo
                  <4> QED BY <2>3, <3>3, <3>5, <4>1 DEF LinesIntact, kept
            <3> QED BY <3>4, <3>5
      <2>4. CASE transport # "rest"
            <3>1. arrived \in Seq(Line) /\ Whole = arrived
                  BY <2>4 DEF TypeOK, Whole
            <3>2. Len(kept) \in 0..Len(arrived) /\ kept = SubSeq(arrived, 1, Len(kept))
                  <4> HIDE DEF Item, Line, Whole
                  <4> QED BY <2>1, <2>2, <3>1, KeptFirst
            <3>3. context = "open" => Len(kept) = Len(arrived)
                  <4>1. kept \o <<>> = kept
                        <5> HIDE DEF Item
                        <5> QED BY <2>2, ConcatEmptySeq
                  <4> QED BY <2>1, <3>1, <4>1
            <3> QED BY <2>4, <3>2, <3>3 DEF LinesIntact, kept
      <2> QED BY <2>3, <2>4
<1> QED BY <1>1, LogTypes, ReceiverDiscipline, LogComplete, PTL
=============================================================================
