--------------------------- MODULE HostFormatProofs ---------------------------
(***************************************************************************)
(* That the URL of an address names the host and the port it should        *)
(* (HostCanonical, PortUnambiguous), for any credentials, hosts and tails. *)
(*                                                                         *)
(* A text that is put together is cut again where it was put together:     *)
(* its parts contain no delimiter that is looked for before them. So       *)
(* Authority leaves host and port (AuthorityIs), unless there is no scheme *)
(* and something else is taken for one. What NormalizeHost makes of these  *)
(* is Clear, which a reader of the URL tells from the port (UrlRead),      *)
(* unless they are a host with a single colon and no number.               *)
(***************************************************************************)
EXTENDS HostFormat, Induction

-----------------------------------------------------------------------------
(* Cutting texts *)

\* The least of a set of numbers is the one no other is below.
LEMMA MinIs ==
    ASSUME NEW A \in SUBSET Int, NEW m \in A, \A k \in A : m <= k
    PROVE  Min(A) = m
<1> DEFINE n == Min(A)
<1>1. \E x \in A : \A y \in A : x =< y
      OBVIOUS
<1>2. n \in A /\ \A y \in A : n <= y
      BY <1>1 DEF Min
<1> HIDE DEF n
<1>3. n = m
      BY <1>2
<1> QED BY <1>3 DEF n

\* The greatest is the one no other is above.
LEMMA MaxIs ==
    ASSUME NEW A \in SUBSET Int, NEW m \in A, \A k \in A : k <= m
    PROVE  Max(A) = m
<1> DEFINE n == Max(A)
<1>1. \E x \in A : \A y \in A : x >= y
      OBVIOUS
<1>2. n \in A /\ \A y \in A : n >= y
      BY <1>1 DEF Max
<1> HIDE DEF n
<1>3. n = m
      BY <1>2
<1> QED BY <1>3 DEF n

\* A part of a text is made of the same tokens.
LEMMA PartType ==
    ASSUME NEW S, NEW s \in Seq(S), NEW i \in Nat \ {0}, NEW j \in 0..Len(s)
    PROVE  SubSeq(s, i, j) \in Seq(S)
<1>1. \A k \in i..j : s[k] \in S
      BY ElementOfSeq
<1> QED BY <1>1, SubSeqProperties

\* A text is cut into the two it was put together from.
LEMMA Parted ==
    ASSUME NEW S, NEW p \in Seq(S), NEW q \in Seq(S)
    PROVE  /\ SubSeq(p \o q, 1, Len(p)) = p
           /\ SubSeq(p \o q, Len(p) + 1, Len(p \o q)) = q
<1> DEFINE s == p \o q
<1>1. /\ s \in Seq(S) /\ Len(s) = Len(p) + Len(q)
      /\ \A i \in 1..Len(p) : s[i] = p[i]
      /\ \A i \in 1..Len(q) : s[Len(p) + i] = q[i]
      <2>1. Len(p) \in Nat /\ Len(q) \in Nat
            BY LenProperties
      <2> QED BY <2>1, ConcatProperties
<1> HIDE DEF s
<1>2. Len(p) \in Nat /\ Len(q) \in Nat
      BY LenProperties
<1>3. /\ SubSeq(s, 1, Len(p)) \in Seq(S)
      /\ Len(SubSeq(s, 1, Len(p))) = Len(p)
      /\ \A i \in 1..Len(p) : SubSeq(s, 1, Len(p))[i] = p[i]
      <2>1. \A i \in 1..Len(p) : s[i] \in S
            BY <1>1, ElementOfSeq
      <2> QED BY <1>1, <1>2, <2>1, SubSeqProperties
<1>4. /\ SubSeq(s, Len(p) + 1, Len(s)) \in Seq(S)
      /\ Len(SubSeq(s, Len(p) + 1, Len(s))) = Len(q)
      /\ \A i \in 1..Len(q) : SubSeq(s, Len(p) + 1, Len(s))[i] = q[i]
      <2>1. \A i \in (Len(p) + 1)..Len(s) : s[i] \in S
            BY <1>1, <1>2, ElementOfSeq
      <2> QED BY <1>1, <1>2, <2>1, SubSeqProperties
<1>5. SubSeq(s, 1, Len(p)) = p
      BY <1>3, SeqEqual
<1>6. SubSeq(s, Len(p) + 1, Len(s)) = q
      BY <1>4, SeqEqual
<1> QED BY <1>5, <1>6 DEF s

\* The first t of a text is the one with none before it.
LEMMA FirstAt ==
    ASSUME NEW S, NEW s \in Seq(S), NEW t, NEW m \in 1..Len(s), s[m] = t,
           \A i \in 1..(m - 1) : s[i] # t
    PROVE  First(s, t) = m /\ Contains(s, t)
<1> DEFINE A == {i \in 1..Len(s) : s[i] = t}
<1>1. A \in SUBSET Int /\ m \in A /\ \A k \in A : m <= k
      BY LenProperties
<1>2. First(s, t) = Min(A)
      BY DEF First
<1>3. Contains(s, t)
      BY DEF Contains
<1> HIDE DEF A
<1>4. Min(A) = m
      BY <1>1, MinIs
<1> QED BY <1>2, <1>3, <1>4

\* The last t of a text is the one with none after it.
LEMMA FinalAt ==
    ASSUME NEW S, NEW s \in Seq(S), NEW t, NEW m \in 1..Len(s), s[m] = t,
           \A i \in (m + 1)..Len(s) : s[i] # t
    PROVE  Final(s, t) = m /\ Contains(s, t)
<1> DEFINE A == {i \in 1..Len(s) : s[i] = t}
<1>1. A \in SUBSET Int /\ m \in A /\ \A k \in A : k <= m
      BY LenProperties
<1>2. Final(s, t) = Max(A)
      BY DEF Final
<1>3. Contains(s, t)
      BY DEF Contains
<1> HIDE DEF A
<1>4. Max(A) = m
      BY <1>1, MaxIs
<1> QED BY <1>2, <1>3, <1>4

\* A text that contains t has a first and a last one.
LEMMA FirstFinal ==
    ASSUME NEW S, NEW s \in Seq(S), NEW t, Contains(s, t)
    PROVE  /\ First(s, t) \in 1..Len(s) /\ s[First(s, t)] = t
           /\ \A i \in 1..(First(s, t) - 1) : s[i] # t
           /\ Final(s, t) \in 1..Len(s) /\ s[Final(s, t)] = t
           /\ \A i \in (Final(s, t) + 1)..Len(s) : s[i] # t
<1> DEFINE A == {i \in 1..Len(s) : s[i] = t}
<1>1. Len(s) \in Nat /\ A \in SUBSET Nat /\ A \in SUBSET (0..Len(s)) /\ A # {}
      BY LenProperties DEF Contains
<1>2. PICK m \in A : \A k \in A : m <= k
      BY <1>1, LeastElement
<1>3. PICK n \in A : \A k \in A : k <= n
      BY <1>1, GreatestElement
<1>4. First(s, t) = Min(A) /\ Final(s, t) = Max(A) /\ A \in SUBSET Int
      BY <1>1 DEF First, Final
<1>5. First(s, t) = m /\ Final(s, t) = n
      <2> HIDE DEF A
      <2> QED BY <1>2, <1>3, <1>4, MinIs, MaxIs
<1> QED BY <1>1, <1>2, <1>3, <1>5

\* A text with one token in front.
Fronted(t, s) == <<t>> \o s

\* Two texts around a token.
Around(u, t, v) == u \o Fronted(t, v)

\* A text is cut at the t in front of which there is none.
LEMMA CutFirst ==
    ASSUME NEW S, NEW u \in Seq(S), NEW v \in Seq(S), NEW t \in S, ~Contains(u, t),
           NEW s, s = Around(u, t, v)
    PROVE  /\ Contains(s, t) /\ First(s, t) = Len(u) + 1
           /\ UpTo(s, t) = u
           /\ Before(s, First(s, t)) = u /\ After(s, First(s, t)) = v
<1> DEFINE w == <<t>> \o v
<1>0. s = u \o w
      BY DEF Fronted, Around
<1>1. w \in Seq(S) /\ Len(w) = Len(v) + 1 /\ w[1] = t /\ Len(u) \in Nat /\ Len(v) \in Nat
      BY ConcatProperties, LenProperties
<1>2. /\ s \in Seq(S) /\ Len(s) = Len(u) + Len(v) + 1
      /\ \A i \in 1..Len(u) : s[i] = u[i]
      /\ s[Len(u) + 1] = t
      <2> HIDE DEF w
      <2>1. /\ u \o w \in Seq(S) /\ Len(u \o w) = Len(u) + Len(w)
            /\ \A i \in 1..(Len(u) + Len(w)) :
                 (u \o w)[i] = IF i <= Len(u) THEN u[i] ELSE w[i - Len(u)]
            BY <1>1, ConcatProperties
      <2> QED BY <1>0, <1>1, <2>1
<1>3. First(s, t) = Len(u) + 1 /\ Contains(s, t)
      <2>1. \A i \in 1..Len(u) : s[i] # t
            BY <1>2 DEF Contains
      <2>2. Len(u) + 1 \in 1..Len(s)
            BY <1>1, <1>2
      <2>3. \A i \in 1..((Len(u) + 1) - 1) : s[i] # t
            BY <1>1, <2>1
      <2> QED BY <1>2, <2>2, <2>3, FirstAt
<1>4. Before(s, First(s, t)) = u
      <2>1. SubSeq(s, 1, Len(u)) = u
            <3> HIDE DEF w
            <3> QED BY <1>0, <1>1, Parted
      <2> QED BY <1>1, <1>3, <2>1 DEF Before
<1>5. After(s, First(s, t)) = v
      <2> DEFINE p == u \o <<t>>
      <2>1. p \in Seq(S) /\ Len(p) = Len(u) + 1
            BY <1>1, ConcatProperties
      <2>2. s = p \o v
            <3>1. <<t>> \in Seq(S)
                  OBVIOUS
            <3> QED BY <1>0, <3>1, ConcatAssociative
      <2>3. SubSeq(p \o v, Len(p) + 1, Len(p \o v)) = v
            <3> HIDE DEF p
            <3> QED BY <2>1, Parted
      <2> HIDE DEF p
      <2> QED BY <1>1, <1>3, <2>1, <2>2, <2>3 DEF After
<1>6. UpTo(s, t) = u
      BY <1>3, <1>4 DEF UpTo
<1> QED BY <1>3, <1>4, <1>5, <1>6

\* A text without a t stays as it is.
LEMMA NotCut ==
    ASSUME NEW s, NEW t, ~Contains(s, t)
    PROVE  UpTo(s, t) = s /\ BeyondLast(s, t) = s
BY DEF UpTo, BeyondLast

\* What is cut off from a text begins as the text does, and is empty if t was first.
LEMMA UpToBegins ==
    ASSUME NEW S, NEW s \in Seq(S), NEW t, s # <<>>
    PROVE  /\ UpTo(s, t) \in Seq(S)
           /\ s[1] = t => UpTo(s, t) = <<>>
           /\ s[1] # t => UpTo(s, t) # <<>> /\ UpTo(s, t)[1] = s[1]
<1>1. Len(s) \in Nat \ {0}
      BY EmptySeq
<1>2. CASE ~Contains(s, t)
      BY <1>1, <1>2 DEF UpTo, Contains
<1>3. CASE Contains(s, t)
      <2> DEFINE f == First(s, t)
      <2>1. f \in 1..Len(s) /\ s[f] = t /\ \A i \in 1..(f - 1) : s[i] # t
            BY <1>3, FirstFinal
      <2>2. UpTo(s, t) = SubSeq(s, 1, f - 1)
            BY <1>3 DEF UpTo, Before
      <2> HIDE DEF f
      <2>3. UpTo(s, t) \in Seq(S)
            BY <1>1, <2>1, <2>2, PartType
      <2>4. CASE s[1] = t
            <3>1. f = 1
                  BY <1>1, <2>1, <2>4
            <3> QED BY <2>2, <2>3, <2>4, <3>1, SubSeqEmpty
      <2>5. CASE s[1] # t
            <3>1. f > 1
                  BY <2>1, <2>5
            <3>2. \A k \in 1..(f - 1) : s[k] \in S
                  BY <1>1, <2>1, ElementOfSeq
            <3>3. Len(UpTo(s, t)) = f - 1 /\ UpTo(s, t)[1] = s[1]
                  BY <2>1, <2>2, <3>1, <3>2, SubSeqProperties
            <3>4. UpTo(s, t) # <<>>
                  BY <2>1, <2>3, <3>1, <3>3, EmptySeq
            <3> QED BY <2>3, <2>5, <3>3, <3>4
      <2> QED BY <2>3, <2>4, <2>5
<1> QED BY <1>2, <1>3

-----------------------------------------------------------------------------
(* The host *)

\* The tokens of a host without brackets.
PlainTokens == Tokens \ {"[", "]"}

\* What NormalizeHost makes of the text without brackets.
PortLast(host) ==
    /\ Count(host, ":") > 0 /\ Final(host, ":") = Len(host) - 1
    /\ host[Len(host)] \in Digits
Portless(host) == Before(host, Final(host, ":"))
Resolved(host) ==
    IF IsIP(host) THEN Compressed(host)
    ELSE IF Count(host, ":") >= 2
         THEN IF PortLast(host) /\ IsIP(Portless(host)) THEN Compressed(Portless(host)) ELSE host
         ELSE IF PortLast(host) THEN Portless(host) ELSE host

\* What FormatHostForUrl makes of it.
Bracketed(host) ==
    IF IsV6(host) \/ Count(host, ":") >= 2 THEN <<"[">> \o host \o <<"]">> ELSE host

\* FormatHostForUrl, by its steps.
LEMMA HostIs ==
    ASSUME NEW text
    PROVE  FormatHostForUrl(text) = Bracketed(Resolved(Unbracketed(Authority(text))))
BY DEF FormatHostForUrl, NormalizeHost, Resolved, Bracketed, PortLast, Portless

\* What may stand in a URL without its colons being misread.
Clear(host) ==
    /\ host \in Seq(PlainTokens)
    /\ IsV6(host) \/ Count(host, ":") >= 2 \/ ~Contains(host, ":")

\* The number of a token in a text.
LEMMA Counts ==
    ASSUME NEW S, NEW s \in Seq(S), NEW t
    PROVE  /\ Count(s, t) \in Nat
           /\ Count(s, t) = 0 <=> ~Contains(s, t)
           /\ Count(s, t) = 1 => \A i \in 1..Len(s) : s[i] = t => i = Final(s, t)
<1> DEFINE A == {i \in 1..Len(s) : s[i] = t}
<1>1. IsFiniteSet(A) /\ Cardinality(A) \in Nat
      <2>1. IsFiniteSet(1..Len(s))
            BY LenProperties, FS_Interval
      <2>2. IsFiniteSet(A)
            BY <2>1, FS_Subset
      <2> HIDE DEF A
      <2> QED BY <2>2, FS_CardinalityType
<1>2. Count(s, t) = Cardinality(A)
      BY DEF Count
<1>3. A = {} <=> ~Contains(s, t)
      BY DEF Contains
<1>4. Contains(s, t) => Final(s, t) \in A
      BY FirstFinal
<1>5. Cardinality(A) = 0 <=> A = {}
      <2> HIDE DEF A
      <2> QED BY <1>1, FS_EmptySet
<1>6. ASSUME Cardinality(A) = 1
      PROVE  \A i \in A : i = Final(s, t)
      <2>1. \E x : A = {x}
            <3> HIDE DEF A
            <3> QED BY <1>1, <1>6, FS_Singleton
      <2>2. Final(s, t) \in A
            BY <1>3, <1>4, <2>1
      <2> HIDE DEF A
      <2> QED BY <2>1, <2>2
<1>7. Cardinality(A) = 1 => \A i \in 1..Len(s) : s[i] = t => i = Final(s, t)
      BY <1>6
<1> HIDE DEF A
<1> QED BY <1>1, <1>2, <1>3, <1>5, <1>7

\* Capitals do not matter to ip_address.
LEMMA CompressedIs ==
    ASSUME NEW S, "x" \in S, NEW s \in Seq(S)
    PROVE  /\ Compressed(s) \in Seq(S)
           /\ IsV6(s) => IsV6(Compressed(s))
<1> DEFINE c == Compressed(s)
<1>1. /\ c \in Seq(S) /\ Len(c) = Len(s) /\ Len(s) \in Nat
      /\ \A i \in 1..Len(s) : c[i] = IF s[i] = "X" THEN "x" ELSE s[i]
      <2>1. Len(s) \in Nat /\ \A i \in 1..Len(s) : s[i] \in S
            BY LenProperties, ElementOfSeq
      <2>2. c = [i \in 1..Len(s) |-> IF s[i] = "X" THEN "x" ELSE s[i]]
            BY DEF Compressed
      <2>3. c \in Seq(S)
            BY <2>1, <2>2
      <2> HIDE DEF c
      <2> QED BY <2>1, <2>2, <2>3, LenProperties
<1> HIDE DEF c
<1>2. \A i \in 1..Len(s) : /\ c[i] = ":" <=> s[i] = ":"
                           /\ c[i] \in Hex <=> s[i] \in Hex
                           /\ c[i] \in Hex \cup {":"} <=> s[i] \in Hex \cup {":"}
      BY <1>1 DEF Hex
<1>3. {i \in 1..Len(c) : c[i] \in Hex} = {i \in 1..Len(s) : s[i] \in Hex}
      BY <1>1, <1>2
<1>4. \A i \in 1..(Len(s) - 1) : i \in 1..Len(s) /\ i + 1 \in 1..Len(s)
      BY <1>1
<1>5. {i \in 1..(Len(c) - 1) : c[i] = ":" /\ c[i + 1] = ":"}
         = {i \in 1..(Len(s) - 1) : s[i] = ":" /\ s[i + 1] = ":"}
      BY <1>1, <1>2, <1>4
<1>6. ASSUME IsV6(s) PROVE IsV6(c)
      <2>1. s # <<>> /\ Len(s) \in 1..Len(s) /\ 1 \in 1..Len(s)
            BY <1>1, <1>6, EmptySeq DEF IsV6
      <2>2. c # <<>> /\ \A i \in 1..Len(c) : c[i] \in Hex \cup {":"}
            BY <1>1, <1>2, <1>6, <2>1, EmptySeq DEF IsV6
      <2>3. \A i \in 1..(Len(c) - 1) : c[i] = ":" \/ c[i + 1] = ":"
            BY <1>1, <1>2, <1>4, <1>6 DEF IsV6
      <2>4. /\ c[1] = ":" <=> s[1] = ":"
            /\ c[Len(c)] = ":" <=> s[Len(s)] = ":"
            BY <1>1, <1>2, <2>1
      <2> QED BY <1>1, <1>3, <1>5, <1>6, <2>2, <2>3, <2>4 DEF IsV6
<1> QED BY <1>1, <1>6 DEF c

\* The result of NormalizeHost is clear, unless a single colon is left.
LEMMA ResolvedClear ==
    ASSUME NEW host \in Seq(PlainTokens), Count(host, ":") = 1 => PortLast(host)
    PROVE  Clear(Resolved(host))
<1>1. \A s \in Seq(PlainTokens) : IsIP(s) => Clear(Compressed(s))
      <2> SUFFICES ASSUME NEW s \in Seq(PlainTokens), IsIP(s) PROVE Clear(Compressed(s))
          OBVIOUS
      <2>1. "x" \in PlainTokens
            BY DEF PlainTokens, Tokens, Labels, Hex
      <2>2. Compressed(s) \in Seq(PlainTokens) /\ (IsV6(s) => IsV6(Compressed(s)))
            BY <2>1, CompressedIs
      <2>3. CASE s = <<"v4">>
            <3>1. ~Contains(Compressed(s), ":")
                  BY <2>3 DEF Compressed, Contains
            <3> QED BY <2>2, <3>1 DEF Clear
      <2> QED BY <2>2, <2>3 DEF Clear, IsIP
<1>2. Count(host, ":") \in Nat /\ (Count(host, ":") = 0 <=> ~Contains(host, ":"))
      BY Counts
<1>3. ASSUME PortLast(host)
      PROVE  /\ Portless(host) \in Seq(PlainTokens)
             /\ Count(host, ":") = 1 => ~Contains(Portless(host), ":")
      <2> DEFINE f == Final(host, ":")
      <2>1. f \in 1..Len(host) /\ Len(host) \in Nat
            BY <1>2, <1>3, FirstFinal, LenProperties DEF PortLast
      <2>2. Count(host, ":") = 1 => \A i \in 1..Len(host) : host[i] = ":" => i = f
            BY Counts
      <2>3. Portless(host) = SubSeq(host, 1, f - 1)
            BY DEF Portless, Before
      <2> HIDE DEF f
      <2>4. \A i \in 1..(f - 1) : host[i] \in PlainTokens
            BY <2>1, ElementOfSeq
      <2>5. /\ Portless(host) \in Seq(PlainTokens) /\ Len(Portless(host)) = f - 1
            /\ \A i \in 1..(f - 1) : Portless(host)[i] = host[i]
            <3> HIDE DEF PlainTokens
            <3> QED BY <2>1, <2>3, <2>4, SubSeqProperties
      <2> QED BY <2>1, <2>2, <2>5 DEF Contains
<1>4. CASE IsIP(host)
      BY <1>1, <1>4 DEF Resolved
<1>5. CASE ~IsIP(host) /\ Count(host, ":") >= 2
      <2>1. Clear(host)
            BY <1>5 DEF Clear
      <2> QED BY <1>1, <1>3, <1>5, <2>1 DEF Resolved
<1>6. CASE ~IsIP(host) /\ ~(Count(host, ":") >= 2)
      <2>1. Count(host, ":") = 0 => ~PortLast(host)
            BY DEF PortLast
      <2>2. Count(host, ":") \in {0, 1}
            BY <1>2, <1>6
      <2> QED BY <1>2, <1>3, <1>6, <2>1, <2>2 DEF Resolved, Clear
<1> QED BY <1>4, <1>5, <1>6

-----------------------------------------------------------------------------
(* The URL *)

\* The port the application gives apart from the address.
Port == <<":", "65535">>

\* The first token, and what is behind it.
LEMMA FrontedIs ==
    ASSUME NEW S, NEW t \in S, NEW s \in Seq(S), NEW w, w = Fronted(t, s)
    PROVE  w \in Seq(S) /\ w[1] = t /\ w # <<>> /\ Tail(w) = s
<1> DEFINE p == <<t>>
<1>1. p \in Seq(S) /\ Len(p) = 1 /\ p[1] = t
      OBVIOUS
<1>0. w = p \o s
      BY DEF Fronted
<1> HIDE DEF p
<1>2. Len(s) \in Nat /\ 1 \in 1..(Len(p) + Len(s))
      BY <1>1, LenProperties
<1>7. /\ p \o s \in Seq(S) /\ Len(p \o s) = Len(p) + Len(s)
      /\ \A i \in 1..(Len(p) + Len(s)) : (p \o s)[i] = IF i <= Len(p) THEN p[i] ELSE s[i - Len(p)]
      BY <1>1, ConcatProperties
<1>3. p \o s \in Seq(S) /\ Len(p \o s) = 1 + Len(s) /\ (p \o s)[1] = t
      BY <1>1, <1>2, <1>7
<1>4. p \o s # <<>>
      BY <1>2, <1>3, EmptySeq
<1>5. Tail(p \o s) = SubSeq(p \o s, 2, Len(p \o s))
      BY <1>3, <1>4, TailIsSubSeq
<1>6. SubSeq(p \o s, 2, Len(p \o s)) = s
      <2>1. SubSeq(p \o s, Len(p) + 1, Len(p \o s)) = s
            BY <1>1, Parted
      <2> QED BY <1>1, <2>1
<1> QED BY <1>0, <1>3, <1>4, <1>5, <1>6

\* Four texts in a row, grouped from either side or in pairs.
LEMMA FourParts ==
    ASSUME NEW S, NEW a \in Seq(S), NEW h \in Seq(S), NEW b \in Seq(S), NEW p \in Seq(S)
    PROVE  /\ ((a \o h) \o b) \o p = (a \o h) \o (b \o p)
           /\ (a \o h) \o (b \o p) = a \o (h \o (b \o p))
<1>1. ASSUME NEW c \in Seq(S)
      PROVE  (c \o b) \o p = c \o (b \o p)
      BY ConcatAssociative, SMTT(60)
<1>2. ASSUME NEW d \in Seq(S)
      PROVE  (a \o h) \o d = a \o (h \o d)
      BY ConcatAssociative, SMTT(60)
<1>3. a \o h \in Seq(S) /\ b \o p \in Seq(S)
      BY ConcatProperties
<1>4. ((a \o h) \o b) \o p = (a \o h) \o (b \o p)
      BY <1>1, <1>3, Zenon
<1>5. (a \o h) \o (b \o p) = a \o (h \o (b \o p))
      BY <1>2, <1>3, Zenon
<1> QED BY <1>4, <1>5

\* A reader of the URL finds the host and the port.
LEMMA UrlRead ==
    ASSUME NEW host, Clear(host), url = Bracketed(host) \o Port
    PROVE  UrlHost = host /\ UrlPort = Port
<1> DEFINE S == Tokens
<1>1. /\ host \in Seq(S) /\ ~Contains(host, "]") /\ ~Contains(host, "[")
      /\ \A i \in 1..Len(host) : host[i] # "["
      <2>1. \A i \in 1..Len(host) : host[i] \in PlainTokens
            BY ElementOfSeq DEF Clear
      <2>2. host \in Seq(S)
            BY SeqMonotonic DEF Clear, PlainTokens
      <2> QED BY <2>1, <2>2 DEF Contains, PlainTokens
<1>2. /\ "[" \in S /\ "]" \in S /\ ":" \in S /\ "65535" \in S
      /\ Port \in Seq(S) /\ Port = Fronted(":", <<"65535">>) /\ Port[1] = ":" /\ <<"65535">> \in Seq(S)
      BY DEF Tokens, Labels, Delimiters, Digits, Port, Fronted
<1> HIDE DEF S
<1>3. CASE IsV6(host) \/ Count(host, ":") >= 2
      <2> DEFINE end == Fronted("]", Port)
                 rest == host \o end
                 front == Fronted("[", host)
      <2>1. end \in Seq(S) /\ rest \in Seq(S) /\ front \in Seq(S)
            BY <1>1, <1>2, FrontedIs, ConcatProperties
      <2>2. url = (<<"[">> \o host \o <<"]">>) \o Port
            BY <1>3 DEF Bracketed
      <2>3. url = front \o end /\ url = Fronted("[", rest)
            <3>1. <<"[">> \in Seq(S) /\ <<"]">> \in Seq(S)
                  BY <1>2
            <3>2. ((<<"[">> \o host) \o <<"]">>) \o Port = (<<"[">> \o host) \o (<<"]">> \o Port)
                  BY <1>1, <1>2, <3>1, FourParts
            <3>3. (<<"[">> \o host) \o (<<"]">> \o Port) = <<"[">> \o (host \o (<<"]">> \o Port))
                  BY <1>1, <1>2, <3>1, FourParts
            <3> QED BY <2>2, <3>2, <3>3 DEF Fronted
      <2> HIDE DEF end, rest, front
      <2>4. url[1] = "[" /\ Tail(url) = rest
            BY <1>2, <2>1, <2>3, FrontedIs, ZenonT(30)
      <2>5. Before(rest, First(rest, "]")) = host
            <3>1. rest = Around(host, "]", Port)
                  BY DEF rest, end, Around
            <3> QED BY <1>1, <1>2, <3>1, CutFirst
      <2>6. ~Contains(front, "]")
            <3>1. \A i \in 1..Len(host) : host[i] # "]"
                  BY <1>1 DEF Contains
            <3>2. /\ Len(front) = 1 + Len(host) /\ Len(host) \in Nat
                  /\ \A i \in 1..(1 + Len(host)) : front[i] = IF i <= 1 THEN "[" ELSE host[i - 1]
                  <4>1. <<"[">> \in Seq(S)
                        BY <1>2
                  <4> QED BY <1>1, <4>1, ConcatProperties, LenProperties DEF front, Fronted
            <3> QED BY <3>1, <3>2 DEF Contains
      <2>7. After(url, First(url, "]")) = Port
            <3>1. url = Around(front, "]", Port)
                  BY <2>3 DEF end, Around
            <3> DEFINE s == Around(front, "]", Port)
            <3>2. After(s, First(s, "]")) = Port
                  BY <1>2, <2>1, <2>6, CutFirst
            <3> QED BY <3>1, <3>2
      <2> QED BY <2>4, <2>5, <2>7 DEF UrlHost, UrlPort
<1>4. CASE ~(IsV6(host) \/ Count(host, ":") >= 2)
      <2>1. url = host \o Port /\ ~Contains(host, ":")
            BY <1>4 DEF Bracketed, Clear
      <2>2. UpTo(url, ":") = host /\ First(url, ":") = Len(host) + 1
            <3>1. url = Around(host, ":", <<"65535">>)
                  BY <1>2, <2>1 DEF Around
            <3> DEFINE v == <<"65535">>
            <3>2. v \in Seq(S) /\ url = Around(host, ":", v)
                  BY <1>2, <3>1
            <3> DEFINE s == Around(host, ":", v)
            <3> HIDE DEF v
            <3>3. UpTo(s, ":") = host /\ First(s, ":") = Len(host) + 1
                  BY <1>1, <1>2, <2>1, <3>2, CutFirst
            <3> QED BY <3>2, <3>3
      <2>3. After(url, Len(host)) = Port
            BY <1>1, <1>2, <2>1, Parted DEF After
      <2>4. url[1] # "["
            <3>1. /\ Len(host) \in Nat /\ Len(Port) \in Nat \ {0}
                  BY <1>1, <1>2, LenProperties, EmptySeq DEF Port
            <3>2. url[1] = IF 1 <= Len(host) THEN host[1] ELSE Port[1 - Len(host)]
                  BY <1>1, <1>2, <2>1, <3>1, ConcatProperties
            <3> QED BY <1>1, <1>2, <3>1, <3>2
      <2>5. First(url, ":") - 1 = Len(host)
            BY <1>1, <2>2, LenProperties
      <2> QED BY <2>2, <2>3, <2>4, <2>5 DEF UrlHost, UrlPort
<1> QED BY <1>3, <1>4

-----------------------------------------------------------------------------
(* The authority *)

\* Concatenation as an operator of its own.
Cat(u, v) == u \o v

\* Its length and its elements.
LEMMA CatIs ==
    ASSUME NEW S, NEW u \in Seq(S), NEW v \in Seq(S)
    PROVE  /\ Cat(u, v) \in Seq(S) /\ Len(Cat(u, v)) = Len(u) + Len(v)
           /\ Len(u) \in Nat /\ Len(v) \in Nat
           /\ \A i \in 1..Len(u) : Cat(u, v)[i] = u[i]
           /\ \A i \in (Len(u) + 1)..(Len(u) + Len(v)) : Cat(u, v)[i] = v[i - Len(u)]
<1>1. Len(u) \in Nat /\ Len(v) \in Nat
      BY LenProperties
<1>2. /\ u \o v \in Seq(S) /\ Len(u \o v) = Len(u) + Len(v)
      /\ \A i \in 1..(Len(u) + Len(v)) : (u \o v)[i] = IF i <= Len(u) THEN u[i] ELSE v[i - Len(u)]
      BY ConcatProperties
<1> DEFINE c == u \o v
<1>3. Cat(u, v) = c
      BY DEF Cat
<1>4. /\ c \in Seq(S) /\ Len(c) = Len(u) + Len(v)
      /\ \A i \in 1..(Len(u) + Len(v)) : c[i] = IF i <= Len(u) THEN u[i] ELSE v[i - Len(u)]
      BY <1>2
<1> HIDE DEF c
<1>5. \A i \in 1..Len(u) : c[i] = u[i]
      BY <1>1, <1>4
<1>7. \A i \in (Len(u) + 1)..(Len(u) + Len(v)) : c[i] = v[i - Len(u)]
      BY <1>1, <1>4
<1> QED BY <1>1, <1>3, <1>4, <1>5, <1>7

\* It is associative.
LEMMA CatAssociative ==
    ASSUME NEW S, NEW u \in Seq(S), NEW v \in Seq(S), NEW w \in Seq(S)
    PROVE  Cat(Cat(u, v), w) = Cat(u, Cat(v, w))
BY ConcatAssociative, SMTT(30) DEF Cat

\* The parts of an address in their order.
InOrder(b, s, u, h, p, t) == b \o s \o u \o h \o p \o t \o b

\* The parts of an address, grouped as NormalizeHost takes them apart.
LEMMA Regroup ==
    ASSUME NEW S, NEW b \in Seq(S), NEW s \in Seq(S), NEW u \in Seq(S), NEW h \in Seq(S),
           NEW p \in Seq(S), NEW t \in Seq(S)
    PROVE  InOrder(b, s, u, h, p, t)
              = Cat(Cat(b, Cat(s, Cat(Cat(u, Cat(h, p)), t))), b)
<1> USE CatIs, CatAssociative
<1>1. Cat(Cat(Cat(b, s), u), h) = Cat(b, Cat(s, Cat(u, h)))
      <2>1. Cat(Cat(b, s), u) = Cat(b, Cat(s, u)) /\ Cat(s, u) \in Seq(S)
            OBVIOUS
      <2>2. Cat(Cat(b, Cat(s, u)), h) = Cat(b, Cat(Cat(s, u), h))
            BY <2>1
      <2> QED BY <2>1, <2>2
<1>2. Cat(Cat(Cat(Cat(b, s), u), h), p) = Cat(b, Cat(s, Cat(u, Cat(h, p))))
      <2>1. Cat(u, h) \in Seq(S) /\ Cat(s, Cat(u, h)) \in Seq(S)
            OBVIOUS
      <2>2. Cat(Cat(b, Cat(s, Cat(u, h))), p) = Cat(b, Cat(Cat(s, Cat(u, h)), p))
            BY <2>1
      <2>3. Cat(Cat(s, Cat(u, h)), p) = Cat(s, Cat(Cat(u, h), p))
            BY <2>1
      <2>4. Cat(Cat(u, h), p) = Cat(u, Cat(h, p))
            OBVIOUS
      <2> QED BY <1>1, <2>2, <2>3, <2>4
<1>3. Cat(Cat(Cat(Cat(Cat(b, s), u), h), p), t) = Cat(b, Cat(s, Cat(Cat(u, Cat(h, p)), t)))
      <2> DEFINE c == Cat(u, Cat(h, p))
      <2>1. c \in Seq(S) /\ Cat(s, c) \in Seq(S)
            OBVIOUS
      <2> HIDE DEF c
      <2>2. Cat(Cat(b, Cat(s, c)), t) = Cat(b, Cat(Cat(s, c), t))
            BY <2>1
      <2>3. Cat(Cat(s, c), t) = Cat(s, Cat(c, t))
            BY <2>1
      <2> QED BY <1>2, <2>2, <2>3 DEF c
<1>4. InOrder(b, s, u, h, p, t)
         = Cat(Cat(Cat(Cat(Cat(Cat(b, s), u), h), p), t), b)
      BY ZenonT(30) DEF Cat, InOrder
<1> QED BY <1>3, <1>4

\* What is around an address.
Blanks == {<<>>, <<"blank">>}

\* Blanks around a text are stripped.
LEMMA StrippedIs ==
    ASSUME NEW S, NEW b \in Seq(S), b \in Blanks, NEW w \in Seq(S), w # <<>>,
           \A i \in 1..Len(w) : w[i] # "blank"
    PROVE  Stripped(Cat(Cat(b, w), b)) = w
<1> DEFINE c == Cat(b, w)
           s == Cat(c, b)
           k == Len(b)
           n == Len(w)
<1>1. /\ k \in Nat /\ n \in Nat \ {0} /\ \A i \in 1..k : b[i] = "blank"
      BY EmptySeq DEF Blanks
<1>2. /\ c \in Seq(S) /\ Len(c) = k + n
      /\ \A i \in 1..k : c[i] = b[i]
      /\ \A i \in (k + 1)..(k + n) : c[i] = w[i - k]
      BY CatIs
<1>3. /\ s \in Seq(S) /\ Len(s) = (k + n) + k
      /\ \A i \in 1..(k + n) : s[i] = c[i]
      /\ \A i \in (k + n + 1)..((k + n) + k) : s[i] = b[i - (k + n)]
      <2> HIDE DEF c, k, n
      <2>0. s = Cat(c, b)
            OBVIOUS
      <2> HIDE DEF s
      <2>1. /\ s \in Seq(S) /\ Len(s) = Len(c) + Len(b)
            /\ \A i \in 1..Len(c) : s[i] = c[i]
            /\ \A i \in (Len(c) + 1)..(Len(c) + Len(b)) : s[i] = b[i - Len(c)]
            BY <1>2, <2>0, CatIs, ZenonT(30)
      <2> QED BY <1>2, <2>1 DEF k
<1> HIDE DEF c, s, k, n
<1>4. /\ \A i \in 1..k : s[i] = "blank"
      /\ \A i \in (k + 1)..(k + n) : s[i] = w[i - k]
      /\ \A i \in (k + n + 1)..((k + n) + k) : s[i] = "blank"
      <2>1. \A i \in (k + n + 1)..((k + n) + k) : i - (k + n) \in 1..k
            BY <1>1
      <2>2. \A i \in 1..k : i \in 1..(k + n)
            BY <1>1
      <2>3. \A i \in (k + 1)..(k + n) : i \in 1..(k + n)
            BY <1>1
      <2> QED BY <1>1, <1>2, <1>3, <2>1, <2>2, <2>3
<1>5. Others(s, "blank") = (k + 1)..(k + n)
      <2>1. \A i \in (k + 1)..(k + n) : s[i] # "blank"
            <3>1. \A i \in (k + 1)..(k + n) : i - k \in 1..n
                  BY <1>1
            <3> QED BY <1>4, <3>1 DEF n
      <2>2. \A i \in 1..((k + n) + k) :
               i \in 1..k \/ i \in (k + 1)..(k + n) \/ i \in (k + n + 1)..((k + n) + k)
            BY <1>1
      <2>3. \A i \in (k + 1)..(k + n) : i \in 1..((k + n) + k)
            BY <1>1
      <2> QED BY <1>3, <1>4, <2>1, <2>2, <2>3 DEF Others
<1>6. /\ Others(s, "blank") # {} /\ Min(Others(s, "blank")) = k + 1 /\ Max(Others(s, "blank")) = k + n
      <2> DEFINE A == (k + 1)..(k + n)
      <2>1. A \in SUBSET Int /\ k + 1 \in A /\ k + n \in A /\ \A i \in A : k + 1 <= i /\ i <= k + n
            BY <1>1
      <2>2. Others(s, "blank") = A
            BY <1>5
      <2> HIDE DEF A
      <2> QED BY <2>1, <2>2, MinIs, MaxIs
<1>7. Stripped(s) = SubSeq(s, k + 1, k + n)
      BY <1>6 DEF Stripped
<1>8. SubSeq(s, k + 1, k + n) = w
      <2>1. \A i \in (k + 1)..(k + n) : s[i] \in S
            BY <1>1, <1>3, ElementOfSeq
      <2>2. /\ SubSeq(s, k + 1, k + n) \in Seq(S) /\ Len(SubSeq(s, k + 1, k + n)) = n
            /\ \A i \in 1..n : SubSeq(s, k + 1, k + n)[i] = s[k + 1 + i - 1]
            BY <1>1, <2>1, SubSeqProperties
      <2>3. \A i \in 1..n : k + 1 + i - 1 \in (k + 1)..(k + n) /\ (k + 1 + i - 1) - k = i
            BY <1>1
      <2>4. \A i \in 1..n : SubSeq(s, k + 1, k + n)[i] = w[i]
            BY <1>4, <2>2, <2>3
      <2> QED BY <2>2, <2>4, SeqEqual DEF n
<1> QED BY <1>7, <1>8 DEF s, c

\* What is in front of a text, if it is t only, is stripped from its left.
LEMMA LeftStrippedIs ==
    ASSUME NEW S, NEW p \in Seq(S), NEW w \in Seq(S), NEW t, \A i \in 1..Len(p) : p[i] = t,
           w # <<>>, w[1] # t
    PROVE  LeftStripped(Cat(p, w), t) = w
<1> DEFINE s == Cat(p, w)
           m == Len(p) + 1
           A == Others(s, t)
<1>1. /\ s \in Seq(S) /\ Len(s) = Len(p) + Len(w) /\ Len(p) \in Nat /\ Len(w) \in Nat \ {0}
      /\ \A i \in 1..Len(p) : s[i] = p[i]
      /\ s[Len(p) + 1] = w[1]
      <2>1. Len(w) \in Nat \ {0}
            BY EmptySeq
      <2>2. /\ s \in Seq(S) /\ Len(s) = Len(p) + Len(w) /\ Len(p) \in Nat
            /\ \A i \in 1..Len(p) : s[i] = p[i]
            /\ \A i \in (Len(p) + 1)..(Len(p) + Len(w)) : s[i] = w[i - Len(p)]
            BY CatIs, ZenonT(30)
      <2> HIDE DEF s
      <2> QED BY <2>1, <2>2
<1>2. s[m] = w[1] /\ m \in 1..Len(s)
      <2> HIDE DEF s
      <2> QED BY <1>1
<1> HIDE DEF s
<1>3. A \in SUBSET Int /\ m \in A /\ \A i \in A : m <= i
      <2>1. \A i \in A : i \in 1..Len(s) /\ i \notin 1..Len(p)
            BY <1>1 DEF Others
      <2>2. A \in SUBSET Int /\ m \in A
            BY <1>1, <1>2 DEF Others
      <2> QED BY <1>1, <2>1, <2>2
<1>4. Min(A) = m /\ A # {}
      <2> HIDE DEF A, m
      <2> QED BY <1>3, MinIs
<1>5. LeftStripped(s, t) = SubSeq(s, Len(p) + 1, Len(s))
      BY <1>4 DEF LeftStripped
<1> QED BY <1>5, Parted DEF s, Cat

\* Cutting a text adds no tokens.
LEMMA CutsType ==
    ASSUME NEW S, NEW s \in Seq(S), NEW t
    PROVE  UpTo(s, t) \in Seq(S) /\ BeyondLast(s, t) \in Seq(S) /\ LeftStripped(s, t) \in Seq(S)
<1>1. Len(s) \in Nat /\ SubSeq(s, 1, 0) \in Seq(S)
      BY LenProperties, EmptySeq, SubSeqEmpty
<1>2. UpTo(s, t) \in Seq(S)
      BY <1>1, FirstFinal, PartType DEF UpTo, Before
<1>3. BeyondLast(s, t) \in Seq(S)
      BY <1>1, FirstFinal, PartType DEF BeyondLast, After
<1>4. LeftStripped(s, t) \in Seq(S)
      <2>1. CASE Others(s, t) = {}
            BY <2>1, EmptySeq DEF LeftStripped
      <2>2. CASE Others(s, t) # {}
            <3> DEFINE A == Others(s, t)
            <3>1. A \in SUBSET Nat /\ A \in SUBSET Int /\ A # {} /\ \A i \in A : i \in Nat \ {0}
                  BY <1>1, <2>2 DEF Others
            <3>2. Min(A) \in A
                  <4> HIDE DEF A
                  <4>1. PICK m \in A : \A i \in A : m <= i
                        BY <3>1, LeastElement
                  <4> QED BY <3>1, <4>1, MinIs
            <3>3. LeftStripped(s, t) = SubSeq(s, Min(A), Len(s))
                  BY <2>2 DEF LeftStripped
            <3>4. Min(A) \in Nat \ {0}
                  BY <3>1, <3>2
            <3>5. Len(s) \in 0..Len(s)
                  BY <1>1
            <3> HIDE DEF A
            <3> QED BY <3>3, <3>4, <3>5, PartType
      <2> QED BY <2>1, <2>2
<1> QED BY <1>2, <1>3, <1>4

\* A cut leaves what is in front of the first t.
LEMMA UpToPast ==
    ASSUME NEW S, NEW p \in Seq(S), NEW q \in Seq(S), NEW t, ~Contains(p, t)
    PROVE  UpTo(Cat(p, q), t) = Cat(p, UpTo(q, t))
<1> DEFINE s == Cat(p, q)
<1>1. /\ s \in Seq(S) /\ Len(s) = Len(p) + Len(q) /\ Len(p) \in Nat /\ Len(q) \in Nat
      /\ \A i \in 1..Len(p) : s[i] = p[i]
      /\ \A i \in (Len(p) + 1)..(Len(p) + Len(q)) : s[i] = q[i - Len(p)]
      BY CatIs
<1>0. s = Cat(p, q)
      OBVIOUS
<1> HIDE DEF s
<1>2. \A i \in 1..Len(p) : s[i] # t
      BY <1>1 DEF Contains
<1>3. CASE ~Contains(q, t)
      <2>1. \A i \in 1..Len(s) : s[i] # t
            <3>1. \A i \in 1..Len(s) : i \in 1..Len(p) \/ (i \in (Len(p) + 1)..(Len(p) + Len(q)) /\ i - Len(p) \in 1..Len(q))
                  BY <1>1
            <3> QED BY <1>1, <1>2, <1>3, <3>1 DEF Contains
      <2> QED BY <1>0, <1>3, <2>1 DEF UpTo, Contains
<1>4. CASE Contains(q, t)
      <2> DEFINE f == First(q, t)
                 g == Len(p) + f
                 u == SubSeq(q, 1, f - 1)
                 v == SubSeq(s, 1, g - 1)
      <2>1. f \in 1..Len(q) /\ q[f] = t /\ \A i \in 1..(f - 1) : q[i] # t
            BY <1>4, FirstFinal
      <2>2. UpTo(q, t) = u
            BY <1>4 DEF UpTo, Before
      <2> HIDE DEF f
      <2>3. g \in 1..Len(s) /\ s[g] = t
            <3>1. g \in (Len(p) + 1)..(Len(p) + Len(q)) /\ g - Len(p) = f
                  BY <1>1, <2>1
            <3> QED BY <1>1, <2>1, <3>1
      <2>4. \A i \in 1..(g - 1) : s[i] # t
            <3>1. \A i \in 1..(g - 1) : i \in 1..Len(p) \/ (i \in (Len(p) + 1)..(Len(p) + Len(q)) /\ i - Len(p) \in 1..(f - 1))
                  BY <1>1, <2>1
            <3> QED BY <1>1, <1>2, <2>1, <3>1
      <2>5. First(s, t) = g /\ Contains(s, t)
            <3> HIDE DEF g
            <3> QED BY <1>1, <2>3, <2>4, FirstAt
      <2>6. UpTo(s, t) = v
            BY <2>5 DEF UpTo, Before
      <2>7. /\ u \in Seq(S) /\ Len(u) = f - 1
            /\ \A i \in 1..(f - 1) : u[i] = q[i]
            <3>1. \A i \in 1..(f - 1) : q[i] \in S
                  BY <1>1, <2>1, ElementOfSeq
            <3> QED BY <1>1, <2>1, <3>1, SubSeqProperties
      <2>8. /\ v \in Seq(S) /\ Len(v) = g - 1
            /\ \A i \in 1..(g - 1) : v[i] = s[i]
            <3>1. \A i \in 1..(g - 1) : s[i] \in S
                  BY <1>1, <2>1, ElementOfSeq
            <3>2. 1 \in Int /\ g - 1 \in Int /\ g - 1 >= 0
                  BY <1>1, <2>1
            <3> HIDE DEF g
            <3> QED BY <3>1, <3>2, SubSeqProperties
      <2> HIDE DEF u, v
      <2> DEFINE w == Cat(p, u)
      <2>9. /\ w \in Seq(S) /\ Len(w) = Len(p) + Len(u)
            /\ \A i \in 1..Len(p) : w[i] = p[i]
            /\ \A i \in (Len(p) + 1)..(Len(p) + Len(u)) : w[i] = u[i - Len(p)]
            BY <2>7, CatIs
      <2>10. w = Cat(p, u)
            OBVIOUS
      <2> HIDE DEF w
      <2>11. Len(v) = Len(w) /\ \A i \in 1..Len(v) : v[i] = w[i]
            <3>1. Len(v) = Len(w)
                  BY <1>1, <2>1, <2>7, <2>8, <2>9
            <3>2. \A i \in 1..Len(p) : i \in 1..(g - 1) /\ v[i] = w[i]
                  BY <1>1, <2>1, <2>8, <2>9
            <3>3. \A i \in (Len(p) + 1)..(g - 1) :
                     /\ i \in (Len(p) + 1)..(Len(p) + Len(q)) /\ i \in (Len(p) + 1)..(Len(p) + Len(u))
                     /\ i - Len(p) \in 1..(f - 1) /\ i \in 1..(g - 1)
                  BY <1>1, <2>1, <2>7
            <3>4. \A i \in (Len(p) + 1)..(g - 1) : v[i] = w[i]
                  BY <1>1, <2>7, <2>8, <2>9, <3>3
            <3>5. \A i \in 1..Len(v) : i \in 1..Len(p) \/ i \in (Len(p) + 1)..(g - 1)
                  BY <1>1, <2>1, <2>8
            <3> QED BY <3>1, <3>2, <3>4, <3>5
      <2>12. v = w
            BY <2>8, <2>9, <2>11, SeqEqual
      <2> QED BY <1>0, <2>2, <2>6, <2>10, <2>12
<1> QED BY <1>3, <1>4

\* Without fragment, query and path.
Cleared(s) == UpTo(UpTo(UpTo(s, "#"), "?"), "/")

\* Of a text whose tail begins with one of the three, the tail is dropped.
LEMMA ClearedIs ==
    ASSUME NEW S, NEW p \in Seq(S), NEW q \in Seq(S),
           \A i \in 1..Len(p) : p[i] \notin {"#", "?", "/"},
           q = <<>> \/ q[1] \in {"#", "?", "/"}
    PROVE  Cleared(Cat(p, q)) = p
<1> DEFINE a == UpTo(q, "#")
           b == UpTo(a, "?")
           c == UpTo(b, "/")
<1>1. a \in Seq(S) /\ b \in Seq(S) /\ c \in Seq(S)
      <2>1. a \in Seq(S)
            BY CutsType
      <2>2. b \in Seq(S)
            <3> HIDE DEF a
            <3> QED BY <2>1, CutsType
      <2>3. c \in Seq(S)
            <3> HIDE DEF b
            <3> QED BY <2>2, CutsType
      <2> QED BY <2>1, <2>2, <2>3
<1>2. ~Contains(p, "#") /\ ~Contains(p, "?") /\ ~Contains(p, "/")
      BY DEF Contains
<1>3. Cleared(Cat(p, q)) = Cat(p, c)
      <2>1. UpTo(Cat(p, q), "#") = Cat(p, a)
            BY <1>2, UpToPast
      <2>2. UpTo(Cat(p, a), "?") = Cat(p, b)
            <3> HIDE DEF a
            <3> QED BY <1>1, <1>2, UpToPast
      <2>3. UpTo(Cat(p, b), "/") = Cat(p, c)
            <3> HIDE DEF b
            <3> QED BY <1>1, <1>2, UpToPast
      <2> HIDE DEF a, b, c
      <2> QED BY <2>1, <2>2, <2>3 DEF Cleared
<1>4. \A t : UpTo(<<>>, t) = <<>>
      BY EmptySeq DEF UpTo, Contains
<1>5. \A s \in Seq(S) : \A t :
         s # <<>> => /\ s[1] = t => UpTo(s, t) = <<>>
                     /\ s[1] # t => UpTo(s, t) # <<>> /\ UpTo(s, t)[1] = s[1]
      BY UpToBegins
<1>6. c = <<>>
      <2>1. a = <<>> \/ (a[1] \in {"?", "/"} /\ a # <<>>)
            BY <1>4, <1>5
      <2> HIDE DEF a
      <2>2. b = <<>> \/ (b[1] = "/" /\ b # <<>>)
            BY <1>1, <1>4, <1>5, <2>1
      <2> HIDE DEF b
      <2> QED BY <1>1, <1>4, <1>5, <2>2
<1>7. Cat(p, <<>>) = p
      BY ConcatEmptySeq DEF Cat
<1> HIDE DEF c
<1> QED BY <1>3, <1>6, <1>7

\* Credentials are dropped, also if they contain one more "@".
LEMMA CredentialsDropped ==
    ASSUME NEW S, NEW u \in Seq(S), NEW c \in Seq(S), u = <<>> \/ u[Len(u)] = "@",
           \A i \in 1..Len(c) : c[i] # "@"
    PROVE  BeyondLast(Cat(u, c), "@") = c
<1>1. CASE u = <<>>
      <2>1. Cat(u, c) = c
            BY <1>1, ConcatEmptySeq DEF Cat
      <2>2. ~Contains(c, "@")
            BY DEF Contains
      <2> QED BY <2>1, <2>2, NotCut
<1>2. CASE u # <<>>
      <2> DEFINE s == Cat(u, c)
      <2>1. /\ s \in Seq(S) /\ Len(s) = Len(u) + Len(c) /\ Len(u) \in Nat \ {0} /\ Len(c) \in Nat
            /\ \A i \in 1..Len(u) : s[i] = u[i]
            /\ \A i \in (Len(u) + 1)..(Len(u) + Len(c)) : s[i] = c[i - Len(u)]
            <3>1. Len(u) \in Nat \ {0}
                  BY <1>2, EmptySeq
            <3> QED BY <3>1, CatIs
      <2>0. s = u \o c
            BY DEF Cat
      <2> HIDE DEF s
      <2>2. \A i \in (Len(u) + 1)..Len(s) : s[i] # "@"
            <3>1. \A i \in (Len(u) + 1)..Len(s) : i - Len(u) \in 1..Len(c)
                  BY <2>1
            <3> QED BY <2>1, <3>1
      <2>3. Len(u) \in 1..Len(s) /\ s[Len(u)] = "@"
            BY <1>2, <2>1
      <2>4. Final(s, "@") = Len(u) /\ Contains(s, "@")
            BY <2>1, <2>2, <2>3, FinalAt
      <2>5. SubSeq(s, Len(u) + 1, Len(s)) = c
            BY <2>0, Parted
      <2>6. BeyondLast(s, "@") = c
            BY <2>4, <2>5 DEF BeyondLast, After
      <2> QED BY <2>6 DEF s
<1> QED BY <1>1, <1>2

-----------------------------------------------------------------------------
(* The parts of an address *)

\* What may precede an authority.
Schemes == {<<>>, Scheme, <<"/", "/">>}

\* The tokens of credentials and of tails.
UserTokens == Tokens \ {"blank", "/", "?", "#"}
TailTokens == Tokens \ {"blank"}

\* What the assumption says of credentials and tails, token by token.
LEMMA PartsAre ==
    ASSUME NEW u \in Users, NEW t \in Tails
    PROVE  /\ u \in Seq(Tokens) /\ (u = <<>> \/ u[Len(u)] = "@")
           /\ \A i \in 1..Len(u) : u[i] \notin {"blank", "/", "?", "#"}
           /\ t \in Seq(Tokens) /\ (t = <<>> \/ t[1] \in {"#", "?", "/"})
           /\ \A i \in 1..Len(t) : t[i] # "blank"
<1>1. u \in Seq(UserTokens) /\ (u = <<>> \/ u[Len(u)] = "@")
      BY PartsAssumption DEF PartsAssumption, UserTokens
<1>2. t \in Seq(TailTokens) /\ (t = <<>> \/ t[1] \in {"#", "?", "/"})
      BY PartsAssumption DEF PartsAssumption, TailTokens
<1>3. UserTokens \subseteq Tokens /\ TailTokens \subseteq Tokens
      BY DEF UserTokens, TailTokens
<1>4. u \in Seq(Tokens) /\ t \in Seq(Tokens)
      BY <1>1, <1>2, <1>3, SeqMonotonic
<1>5. \A i \in 1..Len(u) : u[i] \notin {"blank", "/", "?", "#"}
      <2>1. \A i \in 1..Len(u) : u[i] \in UserTokens
            BY <1>1, ElementOfSeq
      <2> QED BY <2>1 DEF UserTokens
<1>6. \A i \in 1..Len(t) : t[i] # "blank"
      <2>1. \A i \in 1..Len(t) : t[i] \in TailTokens
            BY <1>2, ElementOfSeq
      <2> QED BY <2>1 DEF TailTokens
<1> QED BY <1>1, <1>2, <1>4, <1>5, <1>6

\* Two texts without a token make one without it.
LEMMA NoneInCat ==
    ASSUME NEW S, NEW u \in Seq(S), NEW v \in Seq(S), NEW T,
           \A i \in 1..Len(u) : u[i] \notin T, \A i \in 1..Len(v) : v[i] \notin T
    PROVE  \A i \in 1..Len(Cat(u, v)) : Cat(u, v)[i] \notin T
<1> DEFINE s == Cat(u, v)
<1>1. /\ s \in Seq(S) /\ Len(s) = Len(u) + Len(v) /\ Len(u) \in Nat /\ Len(v) \in Nat
      /\ \A i \in 1..Len(u) : s[i] = u[i]
      /\ \A i \in (Len(u) + 1)..(Len(u) + Len(v)) : s[i] = v[i - Len(u)]
      BY CatIs
<1> HIDE DEF s
<1>2. \A i \in 1..Len(s) : i \in 1..Len(u) \/ (i \in (Len(u) + 1)..(Len(u) + Len(v)) /\ i - Len(u) \in 1..Len(v))
      BY <1>1
<1>3. \A i \in 1..Len(s) : s[i] \notin T
      BY <1>1, <1>2
<1> QED BY <1>3 DEF s

\* The schemes.
LEMMA SchemesAre ==
    ASSUME NEW s \in Schemes
    PROVE  /\ s \in Seq(Tokens) /\ \A i \in 1..Len(s) : s[i] # "blank"
           /\ s # Scheme => \A i \in 1..Len(s) : s[i] = "/"
<1>1. "name" \in Tokens /\ ":" \in Tokens /\ "/" \in Tokens
      BY DEF Tokens, Labels, Delimiters
<1>2. CASE s = <<>>
      BY <1>2
<1>3. CASE s = Scheme
      BY <1>1, <1>3 DEF Scheme
<1>4. CASE s = <<"/", "/">>
      BY <1>1, <1>4
<1> QED BY <1>2, <1>3, <1>4 DEF Schemes

\* The scheme is cut off, and nothing else is where there is no "://".
LEMMA SchemeCut ==
    ASSUME NEW s \in Schemes, NEW body \in Seq(Tokens), s = Scheme \/ SchemeEnds(body) = {}
    PROVE  BeyondScheme(Cat(s, body)) = IF s = Scheme THEN body ELSE Cat(s, body)
<1> DEFINE w == Cat(s, body)
<1>1. s \in Seq(Tokens)
      BY SchemesAre
<1>2. /\ w \in Seq(Tokens) /\ Len(w) = Len(s) + Len(body) /\ Len(s) \in Nat /\ Len(body) \in Nat
      /\ \A i \in 1..Len(s) : w[i] = s[i]
      /\ \A i \in (Len(s) + 1)..(Len(s) + Len(body)) : w[i] = body[i - Len(s)]
      BY <1>1, CatIs
<1>0. w = s \o body
      BY DEF Cat
<1> HIDE DEF w
<1>3. CASE s = Scheme
      <2>1. Len(s) = 4 /\ s[1] = "name" /\ s[2] = ":" /\ s[3] = "/" /\ s[4] = "/"
            BY <1>3 DEF Scheme
      <2>2. w[1] = "name" /\ w[2] = ":" /\ w[3] = "/" /\ w[4] = "/" /\ Len(w) >= 4
            BY <1>2, <2>1
      <2> DEFINE A == SchemeEnds(w)
      <2>3. A \in SUBSET Int /\ 2 \in A /\ \A k \in A : 2 <= k
            BY <1>2, <2>2 DEF SchemeEnds
      <2>4. Min(A) = 2 /\ A # {}
            <3> HIDE DEF A
            <3> QED BY <2>3, MinIs
      <2>5. BeyondScheme(w) = SubSeq(w, Len(s) + 1, Len(w))
            BY <2>1, <2>4 DEF BeyondScheme
      <2>6. SubSeq(w, Len(s) + 1, Len(w)) = body
            BY <1>0, <1>1, Parted
      <2> QED BY <1>3, <2>5, <2>6 DEF w
<1>4. CASE s # Scheme
      <2>1. \A i \in 1..Len(s) : s[i] = "/"
            BY <1>4, SchemesAre
      <2>2. SchemeEnds(body) = {}
            BY <1>4
      <2>3. ASSUME NEW i \in 1..(Len(w) - 2), w[i] = ":", w[i + 1] = "/", w[i + 2] = "/"
            PROVE  FALSE
            <3>1. i \notin 1..Len(s)
                  BY <1>2, <2>1, <2>3
            <3> DEFINE j == i - Len(s)
            <3>2. j \in 1..(Len(body) - 2)
                  BY <1>2, <3>1
            <3>3. body[j] = ":" /\ body[j + 1] = "/" /\ body[j + 2] = "/"
                  <4>1. /\ i \in (Len(s) + 1)..(Len(s) + Len(body))
                        /\ i + 1 \in (Len(s) + 1)..(Len(s) + Len(body)) /\ (i + 1) - Len(s) = j + 1
                        /\ i + 2 \in (Len(s) + 1)..(Len(s) + Len(body)) /\ (i + 2) - Len(s) = j + 2
                        BY <1>2, <3>1
                  <4> QED BY <1>2, <2>3, <4>1
            <3> QED BY <2>2, <3>2, <3>3 DEF SchemeEnds
      <2>4. SchemeEnds(w) = {}
            BY <2>3 DEF SchemeEnds
      <2> QED BY <1>4, <2>4 DEF BeyondScheme, w
<1> QED BY <1>3, <1>4

\* What the address is between its blanks.
Inside(s, u, c, t) == Cat(s, Cat(Cat(u, c), t))

\* Authority, by its steps.
LEMMA AuthoritySteps ==
    ASSUME NEW text
    PROVE  Authority(text) = BeyondLast(Cleared(LeftStripped(BeyondScheme(Stripped(text)), "/")), "@")
BY DEF Authority, Cleared

\* Host and port, after the credentials and before the tail.
LEMMA BodyIs ==
    ASSUME NEW u \in Users, NEW c \in Seq(Tokens), c # <<>>,
           \A i \in 1..Len(c) : c[i] \notin {"blank", "/", "?", "#"}, NEW t \in Tails
    PROVE  LET p == Cat(u, c)
               body == Cat(p, t)
           IN  /\ p \in Seq(Tokens) /\ body \in Seq(Tokens)
               /\ \A i \in 1..Len(p) : p[i] \notin {"blank", "/", "?", "#"}
               /\ \A i \in 1..Len(body) : body[i] # "blank"
               /\ body # <<>> /\ body[1] # "/"
<1> DEFINE p == Cat(u, c)
           body == Cat(p, t)
           Out == {"blank", "/", "?", "#"}
<1>1. u \in Seq(Tokens) /\ t \in Seq(Tokens)
      BY PartsAre
<1>2. p \in Seq(Tokens) /\ Len(p) = Len(u) + Len(c) /\ Len(u) \in Nat
      BY <1>1, CatIs
<1>3. \A i \in 1..Len(u) : u[i] \notin Out
      BY PartsAre
<1>4. \A i \in 1..Len(p) : p[i] \notin Out
      <2> HIDE DEF Out
      <2>1. \A i \in 1..Len(c) : c[i] \notin Out
            BY DEF Out
      <2> QED BY <1>1, <1>3, <2>1, NoneInCat
<1>5. Len(c) \in Nat \ {0}
      BY EmptySeq
<1>6. \A i \in 1..Len(p) : p[i] # "blank"
      BY <1>4
<1> HIDE DEF p
<1>7. /\ body \in Seq(Tokens) /\ Len(body) = Len(p) + Len(t) /\ Len(t) \in Nat
      /\ \A i \in 1..Len(p) : body[i] = p[i]
      <2>1. t \in Seq(Tokens) /\ p \in Seq(Tokens)
            BY <1>1, <1>2
      <2> QED BY <2>1, CatIs
<1>8. \A i \in 1..Len(body) : body[i] \notin {"blank"}
      <2> DEFINE T == {"blank"}
      <2>1. \A i \in 1..Len(p) : p[i] \notin T
            BY <1>6
      <2>2. \A i \in 1..Len(t) : t[i] \notin T
            BY PartsAre
      <2> HIDE DEF T
      <2>3. \A i \in 1..Len(body) : body[i] \notin T
            BY <1>1, <1>2, <2>1, <2>2, NoneInCat
      <2> QED BY <2>3 DEF T
<1> HIDE DEF body
<1>9. body # <<>> /\ body[1] # "/"
      <2>1. 1 \in 1..Len(p) /\ Len(body) # 0
            BY <1>2, <1>5, <1>7
      <2>2. body[1] # "/"
            BY <1>4, <1>7, <2>1
      <2> QED BY <2>1, <2>2, EmptySeq
<1> QED BY <1>2, <1>4, <1>7, <1>8, <1>9 DEF p, body

\* What is between the blanks of an address.
LEMMA InsideIs ==
    ASSUME NEW b \in Blanks, NEW s \in Schemes, NEW u \in Users,
           NEW c \in Seq(Tokens), c # <<>>,
           \A i \in 1..Len(c) : c[i] \notin {"blank", "/", "?", "#", "@"}, NEW t \in Tails
    PROVE  /\ Inside(s, u, c, t) \in Seq(Tokens)
           /\ Stripped(Cat(Cat(b, Inside(s, u, c, t)), b)) = Inside(s, u, c, t)
<1> DEFINE body == Cat(Cat(u, c), t)
           w == Cat(s, body)
<1>1. /\ body \in Seq(Tokens) /\ body # <<>>
      /\ \A i \in 1..Len(body) : body[i] # "blank"
      BY BodyIs
<1>2. b \in Seq(Tokens)
      <2>1. "blank" \in Tokens
            BY DEF Tokens, Delimiters
      <2>2. CASE b = <<>>
            BY <2>2
      <2>3. CASE b = <<"blank">>
            BY <2>1, <2>3
      <2> QED BY <2>2, <2>3 DEF Blanks
<1>5. Inside(s, u, c, t) = w
      BY DEF Inside
<1> HIDE DEF body
<1>6. w \in Seq(Tokens) /\ w # <<>> /\ \A i \in 1..Len(w) : w[i] # "blank"
      <2>1. s \in Seq(Tokens) /\ \A i \in 1..Len(s) : s[i] # "blank"
            BY SchemesAre
      <2>2. w \in Seq(Tokens) /\ Len(w) = Len(s) + Len(body) /\ Len(s) \in Nat
            BY <1>1, <2>1, CatIs
      <2>3. Len(body) \in Nat \ {0}
            BY <1>1, EmptySeq
      <2> DEFINE T == {"blank"}
      <2>4. /\ \A i \in 1..Len(s) : s[i] \notin T
            /\ \A i \in 1..Len(body) : body[i] \notin T
            BY <1>1, <2>1
      <2> HIDE DEF T
      <2>5. \A i \in 1..Len(w) : w[i] \notin T
            BY <1>1, <2>1, <2>4, NoneInCat
      <2> HIDE DEF w
      <2>6. w # <<>>
            BY <2>2, <2>3, EmptySeq
      <2> QED BY <2>2, <2>5, <2>6 DEF T
<1>7. Stripped(Cat(Cat(b, w), b)) = w
      <2> HIDE DEF w
      <2> QED BY <1>2, <1>6, StrippedIs
<1> HIDE DEF w
<1> QED BY <1>5, <1>6, <1>7

\* The authority of an address is host and port.
LEMMA AuthorityIs ==
    ASSUME NEW b \in Blanks, NEW s \in Schemes, NEW u \in Users,
           NEW c \in Seq(Tokens), c # <<>>,
           \A i \in 1..Len(c) : c[i] \notin {"blank", "/", "?", "#", "@"},
           NEW t \in Tails, s = Scheme \/ SchemeEnds(Cat(Cat(u, c), t)) = {}
    PROVE  Authority(Cat(Cat(b, Inside(s, u, c, t)), b)) = c
<1> DEFINE p == Cat(u, c)
           body == Cat(p, t)
           w == Cat(s, body)
<1>1. /\ p \in Seq(Tokens) /\ body \in Seq(Tokens)
      /\ \A i \in 1..Len(p) : p[i] \notin {"blank", "/", "?", "#"}
      /\ \A i \in 1..Len(body) : body[i] # "blank"
      /\ body # <<>> /\ body[1] # "/"
      BY BodyIs
<1>0. u \in Seq(Tokens) /\ t \in Seq(Tokens)
      BY PartsAre
<1>3. Cleared(body) = p
      <2>1. t = <<>> \/ t[1] \in {"#", "?", "/"}
            BY PartsAre
      <2>2. \A i \in 1..Len(p) : p[i] \notin {"#", "?", "/"}
            BY <1>1
      <2> HIDE DEF p
      <2> QED BY <1>0, <1>1, <2>1, <2>2, ClearedIs
<1>4. BeyondLast(p, "@") = c
      <2>1. u = <<>> \/ u[Len(u)] = "@"
            BY PartsAre
      <2>2. \A i \in 1..Len(c) : c[i] # "@"
            OBVIOUS
      <2> QED BY <1>0, <2>1, <2>2, CredentialsDropped
<1>5. Inside(s, u, c, t) = w
      BY DEF Inside
<1>7. Stripped(Cat(Cat(b, w), b)) = w
      BY <1>5, InsideIs
<1> HIDE DEF p, body
<1>8. LeftStripped(BeyondScheme(w), "/") = body
      <2>1. CASE s = Scheme
            <3> DEFINE e == <<>>
            <3>1. e \in Seq(Tokens) /\ \A i \in 1..Len(e) : e[i] = "/"
                  OBVIOUS
            <3>2. Cat(e, body) = body
                  BY <1>1, ConcatEmptySeq DEF Cat
            <3> HIDE DEF e
            <3>3. LeftStripped(Cat(e, body), "/") = body
                  BY <1>1, <3>1, LeftStrippedIs
            <3>4. BeyondScheme(w) = body
                  BY <1>1, <2>1, SchemeCut
            <3> QED BY <3>2, <3>3, <3>4
      <2>2. CASE s # Scheme
            <3>1. s \in Seq(Tokens) /\ \A i \in 1..Len(s) : s[i] = "/"
                  BY <2>2, SchemesAre
            <3>2. SchemeEnds(body) = {}
                  BY <2>2 DEF body, p
            <3>3. BeyondScheme(w) = w
                  BY <1>1, <2>2, <3>2, SchemeCut
            <3>4. LeftStripped(Cat(s, body), "/") = body
                  BY <1>1, <3>1, LeftStrippedIs
            <3> QED BY <3>3, <3>4
      <2> QED BY <2>1, <2>2
<1> HIDE DEF w
<1> QED BY <1>3, <1>4, <1>5, <1>7, <1>8, AuthoritySteps

-----------------------------------------------------------------------------
(* From an address to its host *)

\* The ports, and the tokens of hosts.
Ports == {<<>>, <<":", "1">>, <<":", "65535">>}
HostTokens == Labels \cup {":"}

\* What host and port contain nothing of.
Separators == {"blank", "/", "?", "#", "@"}

\* What the assumption says of hosts.
LEMMA HostsAre ==
    ASSUME NEW h \in Hosts
    PROVE  /\ h \in Seq(PlainTokens) /\ h \in Seq(Tokens) /\ h # <<>>
           /\ \A i \in 1..Len(h) : h[i] \notin Separators
           /\ \A i \in 1..(Len(h) - 1) : h[i] = ":" \/ h[i + 1] = ":"
<1>1. h \in Seq(HostTokens) /\ h # <<>> /\ \A i \in 1..(Len(h) - 1) : h[i] = ":" \/ h[i + 1] = ":"
      BY PartsAssumption DEF PartsAssumption, HostTokens
<1>2. HostTokens \subseteq PlainTokens /\ PlainTokens \subseteq Tokens
      BY DEF HostTokens, PlainTokens, Tokens, Labels, Delimiters, Digits, Hex
<1>3. h \in Seq(PlainTokens) /\ h \in Seq(Tokens)
      BY <1>1, <1>2, SeqMonotonic
<1>4. \A i \in 1..Len(h) : h[i] \in HostTokens
      BY <1>1, ElementOfSeq
<1>5. \A i \in 1..Len(h) : h[i] \notin Separators
      BY <1>4 DEF HostTokens, Labels, Digits, Hex, Separators
<1> QED BY <1>1, <1>3, <1>5

\* The ports an address may end with.
LEMMA PortsAre ==
    ASSUME NEW p \in Ports
    PROVE  /\ p \in Seq(PlainTokens) /\ p \in Seq(Tokens)
           /\ \A i \in 1..Len(p) : p[i] \notin Separators
           /\ p # <<>> => Len(p) = 2 /\ p[1] = ":" /\ p[2] \in Digits
<1>1. ":" \in PlainTokens /\ "1" \in PlainTokens /\ "65535" \in PlainTokens
      BY DEF PlainTokens, Tokens, Labels, Delimiters, Digits
<1>2. ":" \in Tokens /\ "1" \in Tokens /\ "65535" \in Tokens
      BY <1>1 DEF PlainTokens
<1>3. CASE p = <<>>
      BY <1>3
<1>4. CASE p = <<":", "1">>
      <2>1. \A i \in 1..Len(p) : p[i] \notin Separators
            BY <1>4 DEF Separators
      <2> QED BY <1>1, <1>2, <1>4, <2>1 DEF Digits
<1>5. CASE p = <<":", "65535">>
      <2>1. \A i \in 1..Len(p) : p[i] \notin Separators
            BY <1>5 DEF Separators
      <2> QED BY <1>1, <1>2, <1>5, <2>1 DEF Digits
<1> QED BY <1>3, <1>4, <1>5 DEF Ports

\* A host with a colon has two with a port.
LEMMA TwoColons ==
    ASSUME NEW h \in Seq(Tokens), Contains(h, ":"), NEW p \in Ports, p # <<>>
    PROVE  Count(Cat(h, p), ":") >= 2
<1> DEFINE x == Cat(h, p)
<1>1. p \in Seq(Tokens) /\ Len(p) = 2 /\ p[1] = ":"
      BY PortsAre
<1>2. /\ x \in Seq(Tokens) /\ Len(x) = Len(h) + Len(p) /\ Len(h) \in Nat
      /\ \A i \in 1..Len(h) : x[i] = h[i]
      /\ \A i \in (Len(h) + 1)..(Len(h) + Len(p)) : x[i] = p[i - Len(h)]
      BY <1>1, CatIs
<1> HIDE DEF x
<1>3. PICK i \in 1..Len(h) : h[i] = ":"
      BY DEF Contains
<1> DEFINE j == Len(h) + 1
<1>4. i \in 1..Len(x) /\ x[i] = ":" /\ j \in 1..Len(x) /\ x[j] = ":" /\ i # j
      <2>1. j \in (Len(h) + 1)..(Len(h) + Len(p)) /\ j - Len(h) = 1
            BY <1>1, <1>2
      <2> QED BY <1>1, <1>2, <1>3, <2>1
<1> HIDE DEF j
<1>5. /\ Count(x, ":") \in Nat
      /\ Count(x, ":") = 0 <=> ~Contains(x, ":")
      /\ Count(x, ":") = 1 => \A k \in 1..Len(x) : x[k] = ":" => k = Final(x, ":")
      BY <1>2, Counts
<1>6. Count(x, ":") # 0
      BY <1>4, <1>5 DEF Contains
<1>7. Count(x, ":") # 1
      BY <1>4, <1>5
<1> QED BY <1>5, <1>6, <1>7 DEF x

\* An IPv6 address has a colon: it has more groups than one, or a double colon.
LEMMA V6HasColon ==
    ASSUME NEW h \in Seq(Tokens), IsV6(h)
    PROVE  Contains(h, ":")
<1> SUFFICES ASSUME ~Contains(h, ":") PROVE FALSE
    OBVIOUS
<1>1. Len(h) \in Nat \ {0} /\ \A i \in 1..Len(h) : h[i] # ":"
      BY EmptySeq DEF IsV6, Contains
<1>2. Len(h) = 1
      <2>1. \A i \in 1..(Len(h) - 1) : i \in 1..Len(h) /\ i + 1 \in 1..Len(h)
            BY <1>1
      <2>2. \A i \in 1..(Len(h) - 1) : FALSE
            BY <1>1, <2>1 DEF IsV6
      <2>3. Len(h) # 1 => 1 \in 1..(Len(h) - 1)
            BY <1>1
      <2> QED BY <2>2, <2>3
<1> DEFINE A == {i \in 1..Len(h) : h[i] \in Hex}
<1>3. A = {1}
      <2>1. h[1] \in Hex
            BY <1>1, <1>2 DEF IsV6
      <2> QED BY <1>2, <2>1
<1>4. Cardinality(A) = 1
      <2> HIDE DEF A
      <2> QED BY <1>3, FS_Singleton
<1>5. Groups = Cardinality(A)
      BY <1>1, <1>2 DEF IsV6
<1> QED BY <1>4, <1>5, GroupsAssumption DEF GroupsAssumption

\* A host with one colon and a number behind it ends with a port.
LEMMA NumberIsPort ==
    ASSUME NEW h \in Hosts, Count(h, ":") = 1, h[Len(h)] \in Digits
    PROVE  PortLast(h)
<1>1. h \in Seq(Tokens) /\ \A i \in 1..(Len(h) - 1) : h[i] = ":" \/ h[i + 1] = ":"
      BY HostsAre
<1>2. /\ Contains(h, ":")
      /\ \A i \in 1..Len(h) : h[i] = ":" => i = Final(h, ":")
      BY <1>1, Counts
<1>3. h[Len(h)] # ":" /\ Len(h) \in Nat
      BY <1>1, LenProperties DEF Digits
<1>4. PICK i \in 1..Len(h) : h[i] = ":"
      BY <1>2 DEF Contains
<1>5. Len(h) - 1 \in 1..(Len(h) - 1) /\ Len(h) - 1 \in 1..Len(h) /\ (Len(h) - 1) + 1 = Len(h)
      BY <1>3, <1>4
<1>6. h[Len(h) - 1] = ":"
      BY <1>1, <1>3, <1>5
<1>7. Final(h, ":") = Len(h) - 1
      BY <1>2, <1>5, <1>6
<1> QED BY <1>7 DEF PortLast

\* The host between brackets is what they hold.
LEMMA UnbracketedIs ==
    ASSUME NEW h \in Seq(PlainTokens), NEW p \in Seq(Tokens)
    PROVE  /\ <<"[">> \o h \o <<"]">> \in Seq(Tokens)
           /\ Cat(<<"[">> \o h \o <<"]">>, p) # <<>>
           /\ Unbracketed(Cat(<<"[">> \o h \o <<"]">>, p)) = h
<1> DEFINE a == <<"[">>
           b == <<"]">>
           inner == Around(h, "]", p)
           c == Cat((a \o h) \o b, p)
<1>1. /\ h \in Seq(Tokens) /\ "[" \in Tokens /\ "]" \in Tokens
      /\ a \in Seq(Tokens) /\ b \in Seq(Tokens)
      <2>1. "[" \in Tokens /\ "]" \in Tokens
            BY DEF Tokens, Delimiters
      <2>2. h \in Seq(Tokens)
            BY SeqMonotonic DEF PlainTokens
      <2> QED BY <2>1, <2>2
<1>2. ~Contains(h, "]")
      <2>1. \A i \in 1..Len(h) : h[i] \in PlainTokens
            BY ElementOfSeq
      <2> QED BY <2>1 DEF PlainTokens, Contains
<1>3. (a \o h) \o b \in Seq(Tokens) /\ inner \in Seq(Tokens)
      <2> HIDE DEF a, b
      <2> DEFINE x == a \o h
                 y == b \o p
      <2>1. x \in Seq(Tokens) /\ y \in Seq(Tokens)
            BY <1>1, ConcatProperties
      <2>2. inner = h \o y
            BY DEF Around, Fronted, b
      <2> HIDE DEF x, y
      <2>3. x \o b \in Seq(Tokens) /\ h \o y \in Seq(Tokens)
            BY <1>1, <2>1, ConcatProperties
      <2> QED BY <2>2, <2>3 DEF x
<1>4. c = Fronted("[", inner)
      <2>1. c = ((a \o h) \o b) \o p
            BY DEF Cat
      <2> DEFINE x == a \o h
                 y == b \o p
      <2>2. x \in Seq(Tokens) /\ y \in Seq(Tokens)
            <3> HIDE DEF a, b
            <3> QED BY <1>1, ConcatProperties
      <2>3. (x \o b) \o p = x \o (b \o p)
            <3> HIDE DEF x, a, b
            <3> QED BY <1>1, <2>2, ConcatAssociative, SMTT(30)
      <2>4. (a \o h) \o y = a \o (h \o y)
            <3> HIDE DEF a, b, y
            <3> QED BY <1>1, <2>2, ConcatAssociative, SMTT(30)
      <2> QED BY <2>1, <2>3, <2>4 DEF Fronted, Around
<1> HIDE DEF c, inner
<1>5. c # <<>> /\ c[1] = "[" /\ Tail(c) = inner
      BY <1>1, <1>3, <1>4, FrontedIs
<1>6. UpTo(inner, "]") = h
      BY <1>1, <1>2, CutFirst DEF inner
<1>7. Unbracketed(c) = h
      BY <1>5, <1>6 DEF Unbracketed
<1> QED BY <1>3, <1>5, <1>7 DEF c, a, b

\* A text that begins with no bracket stays as it is.
LEMMA NotBracketed ==
    ASSUME NEW s \in Seq(PlainTokens)
    PROVE  Unbracketed(s) = s
<1>1. s # <<>> => s[1] \in PlainTokens
      BY EmptySeq, ElementOfSeq
<1> QED BY <1>1 DEF Unbracketed, PlainTokens

\* A host and its port.
LEMMA HostAndPort ==
    ASSUME NEW h \in Hosts, NEW p \in Ports
    PROVE  LET x == Cat(h, p)
           IN  /\ x \in Seq(PlainTokens) /\ x \in Seq(Tokens) /\ x # <<>>
               /\ \A i \in 1..Len(x) : x[i] \notin Separators
               /\ p = <<>> => x = h
               /\ p # <<>> => PortLast(x) /\ Portless(x) = h /\ x # <<"v4">>
<1> DEFINE x == Cat(h, p)
<1>1. /\ h \in Seq(PlainTokens) /\ h \in Seq(Tokens) /\ h # <<>>
      /\ p \in Seq(PlainTokens) /\ p \in Seq(Tokens)
      BY HostsAre, PortsAre
<1>2. /\ x \in Seq(PlainTokens) /\ Len(x) = Len(h) + Len(p) /\ Len(h) \in Nat \ {0} /\ Len(p) \in Nat
      /\ \A i \in 1..Len(h) : x[i] = h[i]
      /\ \A i \in (Len(h) + 1)..(Len(h) + Len(p)) : x[i] = p[i - Len(h)]
      <2>1. Len(h) \in Nat \ {0}
            BY <1>1, EmptySeq
      <2>2. /\ x \in Seq(PlainTokens) /\ Len(x) = Len(h) + Len(p) /\ Len(p) \in Nat
            /\ \A i \in 1..Len(h) : x[i] = h[i]
            /\ \A i \in (Len(h) + 1)..(Len(h) + Len(p)) : x[i] = p[i - Len(h)]
            BY <1>1, CatIs
      <2> QED BY <2>1, <2>2
<1>3. x \in Seq(Tokens) /\ \A i \in 1..Len(x) : x[i] \notin Separators
      BY <1>1, HostsAre, PortsAre, CatIs, NoneInCat
<1>4. x # <<>>
      <2> HIDE DEF x
      <2> QED BY <1>2, EmptySeq
<1>5. p = <<>> => x = h
      BY <1>1, ConcatEmptySeq DEF Cat
<1>6. ASSUME p # <<>>
      PROVE  PortLast(x) /\ Portless(x) = h /\ x # <<"v4">>
      <2>1. Len(p) = 2 /\ p[1] = ":" /\ p[2] \in Digits
            BY <1>6, PortsAre
      <2>2. SubSeq(x, 1, Len(h)) = h
            BY <1>1, Parted DEF Cat
      <2> DEFINE m == Len(h) + 1
      <2> HIDE DEF x
      <2>3. m \in 1..Len(x) /\ Len(x) = m + 1
            BY <1>2, <2>1
      <2>4. x[m] = ":" /\ x[m + 1] \in Digits
            <3>1. /\ m \in (Len(h) + 1)..(Len(h) + Len(p)) /\ m - Len(h) = 1
                  /\ m + 1 \in (Len(h) + 1)..(Len(h) + Len(p)) /\ (m + 1) - Len(h) = 2
                  BY <1>2, <2>1
            <3> QED BY <1>2, <2>1, <3>1
      <2>5. \A i \in (m + 1)..Len(x) : x[i] # ":"
            <3>1. x[m + 1] # ":"
                  BY <2>4 DEF Digits
            <3> QED BY <2>3, <3>1
      <2> HIDE DEF m
      <2>6. Final(x, ":") = m /\ Contains(x, ":")
            BY <1>2, <2>3, <2>4, <2>5, FinalAt
      <2>7. Count(x, ":") > 0
            <3>1. Count(x, ":") \in Nat /\ Count(x, ":") # 0
                  BY <1>2, <2>6, Counts
            <3> QED BY <3>1
      <2>8. m = Len(x) - 1 /\ Len(x) = m + 1 /\ m - 1 = Len(h) /\ Len(x) > 1
            BY <1>2, <2>1, <2>3 DEF m
      <2>9. PortLast(x)
            BY <2>4, <2>6, <2>7, <2>8 DEF PortLast
      <2>10. Portless(x) = h
            BY <2>2, <2>6, <2>8 DEF Portless, Before
      <2>11. x # <<"v4">>
            BY <2>8
      <2> QED BY <2>9, <2>10, <2>11
<1> HIDE DEF x
<1> QED BY <1>2, <1>3, <1>4, <1>5, <1>6 DEF x

\* A text without capitals is its compressed form.
LEMMA CompressedSame ==
    ASSUME NEW S, NEW s \in Seq(S), \A i \in 1..Len(s) : s[i] # "X"
    PROVE  Compressed(s) = s
<1>1. \A i \in 1..Len(s) : s[i] = IF s[i] = "X" THEN "x" ELSE s[i]
      OBVIOUS
<1>2. s = [i \in 1..Len(s) |-> s[i]]
      BY LenProperties
<1> QED BY <1>1, <1>2 DEF Compressed

\* The hosts of one label that is no group.
Names == {<<"name">>, <<"v4">>}

\* A name or a dotted quad has no colon, and is no IPv6 address, with a port
\* after it or without.
LEMMA NamesAre ==
    ASSUME NEW h \in Names, NEW p \in Ports
    PROVE  /\ Compressed(h) = h /\ ~IsV6(Cat(h, p)) /\ ~IsV6(h)
           /\ Count(h, ":") = 0 /\ Count(Cat(h, p), ":") < 2
<1>1. h \in Seq(Tokens) /\ Len(h) = 1 /\ h[1] \in {"name", "v4"}
      <2>1. "name" \in Tokens /\ "v4" \in Tokens
            BY DEF Tokens, Labels
      <2>2. CASE h = <<"name">>
            BY <2>1, <2>2
      <2>3. CASE h = <<"v4">>
            BY <2>1, <2>3
      <2> QED BY <2>2, <2>3 DEF Names
<1>2. Compressed(h) = h
      BY <1>1, CompressedSame
<1>3. \A s : s[1] \in {"name", "v4"} /\ Len(s) \in Nat \ {0} => ~IsV6(s)
      <2> SUFFICES ASSUME NEW s, s[1] \in {"name", "v4"}, Len(s) \in Nat \ {0}, IsV6(s) PROVE FALSE
          OBVIOUS
      <2>1. s[1] \in Hex \cup {":"}
            BY DEF IsV6
      <2> QED BY <2>1 DEF Hex
<1>4. Count(h, ":") = 0
      <2>1. ~Contains(h, ":")
            BY <1>1 DEF Contains
      <2> QED BY <1>1, <2>1, Counts
<1> DEFINE x == Cat(h, p)
<1>5. /\ x \in Seq(Tokens) /\ Len(x) = 1 + Len(p) /\ Len(p) \in Nat
      /\ x[1] = h[1] /\ \A i \in 2..(1 + Len(p)) : x[i] = p[i - 1]
      <2>1. /\ x \in Seq(Tokens) /\ Len(x) = Len(h) + Len(p) /\ Len(p) \in Nat
            /\ \A i \in 1..Len(h) : x[i] = h[i]
            /\ \A i \in (Len(h) + 1)..(Len(h) + Len(p)) : x[i] = p[i - Len(h)]
            <3>1. p \in Seq(Tokens) /\ h \in Seq(Tokens)
                  BY <1>1, PortsAre
            <3> QED BY <3>1, CatIs
      <2> HIDE DEF x
      <2> QED BY <1>1, <2>1
<1> HIDE DEF x
<1>6. Count(x, ":") < 2
      <2> DEFINE A == {i \in 1..Len(x) : x[i] = ":"}
      <2>1. A \subseteq {2}
            <3> SUFFICES ASSUME NEW i \in 1..Len(x), x[i] = ":" PROVE i = 2
                OBVIOUS
            <3>1. i # 1
                  BY <1>1, <1>5
            <3>2. p # <<>> /\ x[i] = p[i - 1] /\ i - 1 \in 1..Len(p)
                  BY <1>5, <3>1
            <3>3. Len(p) = 2 /\ p[2] \in Digits
                  BY <3>2, PortsAre
            <3>4. i - 1 = 1
                  BY <3>2, <3>3 DEF Digits
            <3> QED BY <3>4
      <2>2. IsFiniteSet({2}) /\ Cardinality({2}) = 1
            BY FS_Singleton
      <2>3. Cardinality(A) <= 1
            <3> HIDE DEF A
            <3> QED BY <2>1, <2>2, FS_Subset
      <2>4. Count(x, ":") = Cardinality(A) /\ Count(x, ":") \in Nat
            BY <1>5, Counts DEF Count
      <2> QED BY <2>3, <2>4
<1>7. ~IsV6(x) /\ ~IsV6(h)
      BY <1>1, <1>3, <1>5
<1> QED BY <1>2, <1>4, <1>6, <1>7 DEF x

\* The compressed form of what is an IP address, or a name, is clear.
LEMMA CompressedClear ==
    ASSUME NEW h \in Hosts, IsIP(h) \/ h = <<"name">>
    PROVE  Clear(Compressed(h))
<1>1. h \in Seq(PlainTokens)
      BY HostsAre
<1>2. "x" \in PlainTokens
      BY DEF PlainTokens, Tokens, Labels, Hex
<1>3. Compressed(h) \in Seq(PlainTokens) /\ (IsV6(h) => IsV6(Compressed(h)))
      BY <1>1, <1>2, CompressedIs
<1>4. h \in Names => ~Contains(Compressed(h), ":")
      BY DEF Names, Compressed, Contains
<1> QED BY <1>3, <1>4 DEF Clear, IsIP, Names

\* Host and port resolve to the host, unless the port belongs to it, and to what
\* is clear, unless they are a single colon with no number behind it.
LEMMA ResolvedHost ==
    ASSUME NEW h \in Hosts, NEW p \in Ports
    PROVE  LET x == Cat(h, p)
           IN  /\ (p = <<>> /\ Count(h, ":") = 1 => h[Len(h)] \in Digits) => Clear(Resolved(x))
               /\ (~(IsV6(h) /\ p # <<>> /\ IsV6(x)) /\ (IsIP(h) \/ h = <<"name">>))
                     => Resolved(x) = Compressed(h)
<1> DEFINE x == Cat(h, p)
<1>1. /\ x \in Seq(PlainTokens)
      /\ p = <<>> => x = h
      /\ p # <<>> => PortLast(x) /\ Portless(x) = h /\ x # <<"v4">>
      BY HostAndPort
<1>2. h \in Seq(Tokens)
      BY HostsAre
<1>3. h \in Names => /\ Compressed(h) = h /\ ~IsV6(x) /\ ~IsV6(h)
                      /\ Count(h, ":") = 0 /\ Count(x, ":") < 2
      BY NamesAre
<1>4. IsV6(h) /\ p # <<>> => Count(x, ":") >= 2
      BY <1>2, V6HasColon, TwoColons
<1> HIDE DEF x
<1>5. ASSUME p = <<>> /\ Count(h, ":") = 1 => h[Len(h)] \in Digits
      PROVE  Clear(Resolved(x))
      <2>1. Count(x, ":") = 1 => PortLast(x)
            BY <1>1, <1>5, NumberIsPort
      <2> QED BY <1>1, <2>1, ResolvedClear
<1>6. ASSUME ~(IsV6(h) /\ p # <<>> /\ IsV6(x)), IsIP(h) \/ h = <<"name">>
      PROVE  Resolved(x) = Compressed(h)
      <2>1. CASE p = <<>>
            <3>1. CASE IsIP(h)
                  BY <1>1, <2>1, <3>1 DEF Resolved
            <3>2. CASE ~IsIP(h)
                  <4>1. h \in Names /\ ~PortLast(h)
                        BY <1>3, <1>6, <3>2 DEF PortLast, Names
                  <4> QED BY <1>1, <1>3, <2>1, <3>2, <4>1 DEF Resolved
            <3> QED BY <3>1, <3>2
      <2>2. CASE p # <<>>
            <3>1. h \in Names \/ IsV6(h)
                  BY <1>6 DEF IsIP, Names
            <3>2. ~IsIP(x)
                  BY <1>1, <1>3, <1>6, <2>2, <3>1 DEF IsIP
            <3>3. CASE h \in Names
                  <4>1. ~(Count(x, ":") >= 2)
                        <5>1. Count(x, ":") \in Nat
                              BY <1>1, Counts
                        <5> QED BY <1>3, <3>3, <5>1
                  <4> QED BY <1>1, <1>3, <2>2, <3>2, <3>3, <4>1 DEF Resolved
            <3>4. CASE IsV6(h)
                  BY <1>1, <1>4, <2>2, <3>2, <3>4 DEF Resolved, IsIP
            <3> QED BY <3>1, <3>3, <3>4
      <2> QED BY <2>1, <2>2
<1> QED BY <1>5, <1>6 DEF x

\* The addresses that are put together: brackets are around colons.
Proper(a) == a \in Addresses /\ (a.bracket => Count(a.host, ":") >= 2)

\* The host the URL is built with.
HostRead(a) == Resolved(Unbracketed(Authority(Text(a))))

\* The parts of an address are those of the lemmas above.
LEMMA AddressIs ==
    ASSUME NEW a, Proper(a)
    PROVE  /\ a.blank \in Blanks /\ a.scheme \in Schemes /\ a.user \in Users
           /\ a.host \in Hosts /\ a.port \in Ports /\ a.tail \in Tails
BY DEF Proper, Addresses, Blanks, Schemes, Ports

\* Host and port of an address, and what NormalizeHost takes for the host.
LEMMA CoreIs ==
    ASSUME NEW a, Proper(a)
    PROVE  LET c == Cat(HostPart(a), a.port)
           IN  /\ HostPart(a) \in Seq(Tokens) /\ c \in Seq(Tokens) /\ c # <<>>
               /\ \A i \in 1..Len(c) : c[i] \notin Separators
               /\ a.bracket => Unbracketed(c) = a.host /\ Count(a.host, ":") >= 2
               /\ ~a.bracket => Unbracketed(c) = Cat(a.host, a.port)
<1> DEFINE h == a.host
           p == a.port
           k == HostPart(a)
           c == Cat(k, p)
<1>1. h \in Hosts /\ p \in Ports
      BY AddressIs
<1> HIDE DEF h, p
<1>2. CASE ~a.bracket
      <2>1. k = h
            BY <1>2, Zenon DEF HostPart, h
      <2> HIDE DEF k
      <2>2. /\ c \in Seq(PlainTokens) /\ c \in Seq(Tokens) /\ c # <<>>
            /\ \A i \in 1..Len(c) : c[i] \notin Separators
            BY <1>1, <2>1, HostAndPort
      <2>3. k \in Seq(Tokens)
            BY <1>1, <2>1, HostsAre
      <2>4. Unbracketed(c) = c
            <3> HIDE DEF c
            <3> QED BY <2>2, NotBracketed
      <2>5. c = Cat(h, p)
            BY <2>1
      <2> HIDE DEF c
      <2> QED BY <1>2, <2>2, <2>3, <2>4, <2>5, Zenon DEF k, c, h, p
<1>3. CASE a.bracket
      <2>1. k = <<"[">> \o h \o <<"]">>
            BY <1>3, Zenon DEF HostPart, h
      <2>2. Count(h, ":") >= 2
            BY <1>3 DEF Proper, h
      <2>4. h \in Seq(PlainTokens) /\ h \in Seq(Tokens) /\ \A i \in 1..Len(h) : h[i] \notin Separators
            BY <1>1, HostsAre
      <2>5. p \in Seq(Tokens) /\ \A i \in 1..Len(p) : p[i] \notin Separators
            BY <1>1, PortsAre
      <2> HIDE DEF k
      <2>6. k \in Seq(Tokens) /\ c # <<>> /\ Unbracketed(c) = h
            BY <2>1, <2>4, <2>5, UnbracketedIs
      <2>7. \A i \in 1..Len(k) : k[i] \notin Separators
            <3> DEFINE x == <<"[">>
                       y == <<"]">>
                       xh == Cat(x, h)
            <3>1. x \in Seq(Tokens) /\ y \in Seq(Tokens)
                  BY DEF Tokens, Delimiters
            <3>2. /\ \A i \in 1..Len(x) : x[i] \notin Separators
                  /\ \A i \in 1..Len(y) : y[i] \notin Separators
                  BY DEF Separators
            <3>3. k = Cat(xh, y)
                  BY <2>1 DEF Cat
            <3> HIDE DEF x, y
            <3>4. xh \in Seq(Tokens) /\ \A i \in 1..Len(xh) : xh[i] \notin Separators
                  BY <2>4, <3>1, <3>2, CatIs, NoneInCat
            <3> HIDE DEF xh
            <3> QED BY <3>1, <3>2, <3>3, <3>4, NoneInCat
      <2>8. c \in Seq(Tokens) /\ \A i \in 1..Len(c) : c[i] \notin Separators
            BY <2>5, <2>6, <2>7, CatIs, NoneInCat
      <2> HIDE DEF c
      <2> QED BY <1>3, <2>2, <2>6, <2>8, Zenon DEF k, c, h, p
<1> QED BY <1>2, <1>3

\* NormalizeHost finds the address' own host in those addresses HostCanonical
\* speaks of, and a clear one in those PortUnambiguous speaks of.
LEMMA HostFound ==
    ASSUME NEW a, Proper(a), ~SchemeMistaken(a)
    PROVE  /\ (~PortTaken(a) /\ (IsIP(a.host) \/ a.host = <<"name">>))
                  => HostRead(a) = Compressed(a.host)
           /\ ~ColonKept(a) => Clear(HostRead(a))
<1> DEFINE b == a.blank
           s == a.scheme
           u == a.user
           h == a.host
           k == HostPart(a)
           p == a.port
           t == a.tail
           c == Cat(k, p)
           text == Cat(Cat(b, Inside(s, u, c, t)), b)
<1>1. b \in Blanks /\ s \in Schemes /\ u \in Users /\ h \in Hosts /\ p \in Ports /\ t \in Tails
      BY AddressIs
<1>2. /\ k \in Seq(Tokens) /\ c \in Seq(Tokens) /\ c # <<>>
      /\ \A i \in 1..Len(c) : c[i] \notin Separators
      BY CoreIs
<1>3. a.bracket => Unbracketed(c) = h /\ Count(h, ":") >= 2
      BY CoreIs
<1>4. ~a.bracket => Unbracketed(c) = Cat(h, p)
      BY CoreIs
<1>5. Text(a) = text
      <2>1. b \in Seq(Tokens) /\ s \in Seq(Tokens) /\ u \in Seq(Tokens) /\ p \in Seq(Tokens) /\ t \in Seq(Tokens)
            <3>1. b \in Seq(Tokens)
                  <4>1. "blank" \in Tokens
                        BY DEF Tokens, Delimiters
                  <4>2. <<>> \in Seq(Tokens) /\ <<"blank">> \in Seq(Tokens)
                        BY <4>1
                  <4> HIDE DEF b
                  <4> QED BY <1>1, <4>2 DEF Blanks
            <3> HIDE DEF b, s, u, p, t
            <3> QED BY <1>1, <3>1, SchemesAre, PartsAre, PortsAre
      <2>2. Text(a) = InOrder(b, s, u, k, p, t)
            BY DEF Text, InOrder
      <2> HIDE DEF b, s, u, k, p, t
      <2>3. InOrder(b, s, u, k, p, t) = Cat(Cat(b, Cat(s, Cat(Cat(u, Cat(k, p)), t))), b)
            BY <1>2, <2>1, Regroup, SMTT(30)
      <2> QED BY <2>2, <2>3 DEF Inside
<1>6. ~PortTaken(a) /\ ~a.bracket => ~(IsV6(h) /\ p # <<>> /\ IsV6(Cat(h, p)))
      BY DEF PortTaken, Cat
<1>9. ~ColonKept(a) => (p = <<>> /\ Count(h, ":") = 1 => h[Len(h)] \in Digits)
      BY DEF ColonKept
<1>10. s = Scheme \/ SchemeEnds(Cat(Cat(u, c), t)) = {}
      <2>1. s = Scheme \/ SchemeEnds(Cat(Cat(Cat(u, k), p), t)) = {}
            BY DEF SchemeMistaken, Cat
      <2>2. u \in Seq(Tokens) /\ k \in Seq(Tokens) /\ p \in Seq(Tokens)
            <3> HIDE DEF u, k, p
            <3> QED BY <1>1, <1>2, PartsAre, PortsAre
      <2>3. Cat(Cat(u, k), p) = Cat(u, c)
            <3> HIDE DEF u, k, p
            <3> QED BY <2>2, CatAssociative
      <2> HIDE DEF u, k, p, t, c, s
      <2> QED BY <2>1, <2>3
<1> HIDE DEF b, s, u, h, k, p, t, c
<1>7. \A i \in 1..Len(c) : c[i] \notin {"blank", "/", "?", "#", "@"}
      BY <1>2 DEF Separators
<1>8. HostRead(a) = Resolved(Unbracketed(c))
      <2>1. Authority(text) = c
            BY <1>1, <1>2, <1>7, <1>10, AuthorityIs
      <2> QED BY <1>5, <2>1 DEF HostRead
<1>11. CASE a.bracket
      <2>1. h \in Seq(PlainTokens) /\ Unbracketed(c) = h
            BY <1>1, <1>3, <1>11, HostsAre
      <2>2. Clear(Resolved(h))
            BY <1>3, <1>11, <2>1, ResolvedClear
      <2>3. IsIP(h) \/ h = <<"name">> => Resolved(h) = Compressed(h)
            <3>1. <<>> \in Ports
                  BY DEF Ports
            <3>2. h \in Names => Count(h, ":") = 0
                  BY <3>1, NamesAre
            <3>3. h # <<"name">>
                  BY <1>3, <1>11, <3>2 DEF Names
            <3> QED BY <3>3 DEF Resolved
      <2> QED BY <1>8, <2>1, <2>2, <2>3 DEF h
<1>12. CASE ~a.bracket
      <2>1. Unbracketed(c) = Cat(h, p)
            BY <1>4, <1>12
      <2>2. /\ (p = <<>> /\ Count(h, ":") = 1 => h[Len(h)] \in Digits) => Clear(Resolved(Cat(h, p)))
            /\ (~(IsV6(h) /\ p # <<>> /\ IsV6(Cat(h, p))) /\ (IsIP(h) \/ h = <<"name">>))
                  => Resolved(Cat(h, p)) = Compressed(h)
            BY <1>1, ResolvedHost
      <2> QED BY <1>6, <1>8, <1>9, <1>12, <2>1, <2>2 DEF h
<1> QED BY <1>11, <1>12

-----------------------------------------------------------------------------
(* The URL of an address *)

\* The URL is empty or the one of the given address.
Built ==
    /\ Proper(given)
    /\ url = <<>> \/ url = Bracketed(HostRead(given)) \o Port

\* Nothing but the URL of the address that was given is ever built.
THEOREM UrlsBuilt == Spec => []Built
<1>1. Init => Built
      BY DEF Init, Built, Proper
<1>2. Built /\ [Next]_vars => Built'
      <2> SUFFICES ASSUME Built, [Next]_vars PROVE Built'
          OBVIOUS
      <2>1. CASE Construct
            <3>1. given' = given /\ url' = FormatHostForUrl(Text(given)) \o <<":", "65535">>
                  BY <2>1 DEF Construct
            <3>2. FormatHostForUrl(Text(given)) = Bracketed(HostRead(given))
                  BY HostIs DEF HostRead
            <3> QED BY <3>1, <3>2 DEF Built, Port
      <2>2. CASE UNCHANGED vars
            BY <2>2 DEF vars, Built
      <2> QED BY <2>1, <2>2 DEF Next
<1> QED BY <1>1, <1>2, PTL DEF Spec

\* The host of the URL is the host of the address (HostCanonical), if that is an
\* IP address or a name, for every choice of credentials, hosts and tails, and
\* any number of groups; but for a mistaken scheme and a port that is a group.
THEOREM HostKept == Spec => []HostCanonical
<1>1. Built => HostCanonical
      <2> SUFFICES ASSUME Built, url # <<>>, ~SchemeMistaken(given), ~PortTaken(given),
                          IsIP(given.host) \/ given.host = <<"name">>
                   PROVE  UrlHost = Compressed(given.host)
          BY DEF HostCanonical
      <2>1. Proper(given) /\ url = Bracketed(HostRead(given)) \o Port
            BY DEF Built
      <2>2. HostRead(given) = Compressed(given.host)
            BY <2>1, HostFound
      <2>3. Clear(HostRead(given))
            BY <2>1, <2>2, AddressIs, CompressedClear
      <2> QED BY <2>1, <2>2, <2>3, UrlRead
<1> QED BY <1>1, UrlsBuilt, PTL

\* The port of the URL is the one that was given (PortUnambiguous), for every
\* choice of credentials, hosts and tails, the hosts well formed or not; but for a
\* mistaken scheme and a host with a single colon and no number behind it.
THEOREM PortKept == Spec => []PortUnambiguous
<1>1. Built => PortUnambiguous
      <2> SUFFICES ASSUME Built, url # <<>>, ~SchemeMistaken(given), ~ColonKept(given)
                   PROVE  UrlPort = <<":", "65535">>
          BY DEF PortUnambiguous
      <2>1. Proper(given) /\ url = Bracketed(HostRead(given)) \o Port
            BY DEF Built
      <2>2. Clear(HostRead(given))
            BY <2>1, HostFound
      <2>3. UrlPort = Port
            BY <2>1, <2>2, UrlRead
      <2> QED BY <2>3 DEF Port
<1> QED BY <1>1, UrlsBuilt, PTL
=============================================================================
