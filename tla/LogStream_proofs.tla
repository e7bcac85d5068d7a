-------------------------- MODULE LogStream_proofs --------------------------
(***************************************************************************)
(* However the container's output is cut into chunks, the hub gets its     *)
(* lines: for output of any length, buffers of any size and any streams.   *)
(***************************************************************************)
EXTENDS LogStream, SequenceTheorems, WellFoundedInduction, TLAPS

-----------------------------------------------------------------------------
(***************************************************************************)
(* Induction, over sets of numbers and sets of texts                       *)
(***************************************************************************)

\* A set of naturals that holds 0 and every successor of its members holds all of them.
LEMMA SetInduction ==
    ASSUME NEW T \in SUBSET Nat, 0 \in T, \A n \in T : n + 1 \in T
    PROVE  T = Nat
<1> DEFINE R == {pair \in Nat \X Nat : pair[1] < pair[2]}
<1>1. IsWellFoundedOn(R, Nat)
  BY NatLessThanWellFounded DEF OpToRel
<1>2. SUFFICES ASSUME Nat \ T # {} PROVE FALSE
  OBVIOUS
<1>3. PICK m \in Nat \ T : \A n \in Nat \ T : ~(<<n, m>> \in R)
  <2> HIDE DEF R
  <2> QED
    BY <1>1, <1>2, WFMin
<1>4. m - 1 \in Nat \ T
  BY <1>3
<1>5. <<m - 1, m>> \in R
  BY <1>4
<1> QED
  BY <1>3, <1>4, <1>5

\* A sequence that is not empty is all but its last element, and that element.
LEMMA AllButLast ==
    ASSUME NEW S, NEW s \in Seq(S), NEW n \in Nat, Len(s) = n + 1
    PROVE  s = Append(SubSeq(s, 1, n), s[n + 1])
<1> DEFINE u == SubSeq(s, 1, n)
           c == s[n + 1]
<1>1. /\ u \in Seq(S) /\ Len(u) = n /\ c \in S
      /\ \A i \in 1..n : u[i] = s[i]
  OBVIOUS
<1> HIDE DEF u, c
<1>2. /\ Append(u, c) \in Seq(S) /\ Len(Append(u, c)) = n + 1
      /\ \A i \in 1..n : Append(u, c)[i] = u[i]
      /\ Append(u, c)[n + 1] = c
  BY <1>1, AppendProperties
<1>3. ASSUME NEW i \in 1..(n + 1) PROVE Append(u, c)[i] = s[i]
  <2>1. i \in 1..n \/ i = n + 1
    OBVIOUS
  <2> QED
    BY <1>1, <1>2, <2>1 DEF c
<1>4. s = Append(u, c)
  BY <1>2, <1>3, SeqEqual
<1> QED
  BY <1>4 DEF u, c

\* A set of sequences that holds the empty one and every member extended by an element
\* holds all of them.
LEMMA SeqInduction ==
    ASSUME NEW S, NEW T \in SUBSET Seq(S), <<>> \in T,
           \A s \in T : \A c \in S : Append(s, c) \in T
    PROVE  T = Seq(S)
<1> DEFINE N == {n \in Nat : \A s \in Seq(S) : Len(s) = n => s \in T}
<1>1. 0 \in N
  BY Z3
<1>2. ASSUME NEW n \in N PROVE n + 1 \in N
  <2>1. SUFFICES ASSUME NEW s \in Seq(S), Len(s) = n + 1 PROVE s \in T
    OBVIOUS
  <2>2. SubSeq(s, 1, n) \in Seq(S) /\ Len(SubSeq(s, 1, n)) = n /\ s[n + 1] \in S
    BY <2>1
  <2>3. s = Append(SubSeq(s, 1, n), s[n + 1])
    BY <2>1, AllButLast
  <2> QED
    BY <2>2, <2>3
<1>3. N = Nat
  <2>1. N \in SUBSET Nat
    OBVIOUS
  <2> HIDE DEF N
  <2> QED
    BY <1>1, <1>2, <2>1, SetInduction
<1> QED
  <2>1. \A s \in Seq(S) : Len(s) \in Nat
    OBVIOUS
  <2> QED
    BY <1>3, <2>1

\* Appending to a sequence appends to what follows one of its indices.
LEMMA SubSeqOfAppend ==
    ASSUME NEW S, NEW s \in Seq(S), NEW x \in S, NEW m \in 0..Len(s)
    PROVE  SubSeq(Append(s, x), m + 1, Len(s) + 1) = Append(SubSeq(s, m + 1, Len(s)), x)
<1> DEFINE n == Len(s)
           longer == SubSeq(Append(s, x), m + 1, n + 1)
           tail == SubSeq(s, m + 1, n)
           t == Append(s, x)
<1>1. /\ n \in Nat /\ m \in 0..n /\ t[n + 1] = x
      /\ \A i \in 1..n : t[i] = s[i]
  OBVIOUS
<1>2. /\ longer \in Seq(S) /\ Len(longer) = n - m + 1
      /\ \A i \in 1..(n - m + 1) : longer[i] = t[m + i]
  BY <1>1
<1>3. /\ tail \in Seq(S) /\ Len(tail) = n - m
      /\ \A i \in 1..(n - m) : tail[i] = s[m + i]
  BY <1>1
<1> HIDE DEF longer, tail, n, t
<1>4. Append(tail, x) \in Seq(S) /\ Len(Append(tail, x)) = n - m + 1
  BY <1>3
<1>5. ASSUME NEW i \in 1..(n - m + 1) PROVE Append(tail, x)[i] = t[m + i]
  <2>1. CASE i = n - m + 1
    <3>1. Append(tail, x)[i] = x /\ m + i = n + 1
      BY <1>1, <1>3, <2>1
    <3> QED
      BY <1>1, <3>1
  <2>2. CASE i \in 1..(n - m)
    <3>1. Append(tail, x)[i] = tail[i] /\ m + i \in 1..n
      BY <1>1, <1>3, <2>2
    <3> QED
      BY <1>1, <1>3, <2>2, <3>1
  <2>3. i = n - m + 1 \/ i \in 1..(n - m)
    <3>1. n \in Int /\ m \in Int
      BY <1>1
    <3> QED
      BY <3>1
  <2> QED
    BY <2>1, <2>2, <2>3
<1>6. longer = Append(tail, x)
  BY <1>2, <1>4, <1>5, SeqEqual
<1> QED
  BY <1>6 DEF longer, tail, n, t

\* A set of indices that is not empty has a greatest member.
LEMMA MaxIsMember ==
    ASSUME NEW n \in Nat, NEW I \in SUBSET (1..n), I # {}
    PROVE  Max(I) \in I /\ \A i \in I : Max(I) >= i
<1> DEFINE N == {k \in Nat : \A J \in SUBSET (1..k) :
                               J # {} => \E m \in J : \A i \in J : m >= i}
<1>1. 0 \in N
  <2>1. 1..0 = {}
    OBVIOUS
  <2> QED
    BY <2>1
<1>2. ASSUME NEW k \in N PROVE k + 1 \in N
  <2>1. SUFFICES ASSUME NEW J \in SUBSET (1..(k + 1)), J # {}
                 PROVE  \E m \in J : \A i \in J : m >= i
    OBVIOUS
  <2>2. CASE k + 1 \in J
    BY <2>2
  <2>3. CASE k + 1 \notin J
    <3>1. J \in SUBSET (1..k)
      BY <2>3
    <3> QED
      BY <2>1, <3>1
  <2> QED
    BY <2>2, <2>3
<1>3. N = Nat
  <2>1. N \in SUBSET Nat
    OBVIOUS
  <2> HIDE DEF N
  <2> QED
    BY <1>1, <1>2, <2>1, SetInduction
<1>4. \E m \in I : \A i \in I : m >= i
  BY <1>3
<1> QED
  BY <1>4 DEF Max

-----------------------------------------------------------------------------
(***************************************************************************)
(* Splitting a text at its line feeds                                      *)
(***************************************************************************)

\* f computes the pieces of the first characters of a text, up to the m-th.
CutsUp(f, text, m) ==
    f = [n \in 0..m |-> IF n = 0 THEN << <<>> >> ELSE Cut(f[n - 1], text[n])]

\* There is such an f for every length.
LEMMA CutsUpExists ==
    ASSUME NEW text, NEW m \in Nat
    PROVE  \E f : CutsUp(f, text, m)
<1> DEFINE N == {k \in Nat : \E f : CutsUp(f, text, k)}
<1>1. 0 \in N
  <2>1. CutsUp([n \in 0..0 |-> << <<>> >>], text, 0)
    BY DEF CutsUp
  <2> QED
    BY <2>1
<1>2. ASSUME NEW k \in N PROVE k + 1 \in N
  <2>1. PICK f : CutsUp(f, text, k)
    OBVIOUS
  <2> DEFINE g == [n \in 0..(k + 1) |-> IF n = k + 1 THEN Cut(f[k], text[k + 1]) ELSE f[n]]
  <2>2. \A n \in 0..k : f[n] = IF n = 0 THEN << <<>> >> ELSE Cut(f[n - 1], text[n])
    BY <2>1 DEF CutsUp
  <2>3. ASSUME NEW n \in 0..(k + 1)
        PROVE  g[n] = IF n = 0 THEN << <<>> >> ELSE Cut(g[n - 1], text[n])
    <3>1. CASE n = k + 1
      BY <3>1
    <3>2. CASE n \in 0..k
      <4>1. g[n] = f[n] /\ (n # 0 => g[n - 1] = f[n - 1])
        BY <3>2
      <4> QED
        BY <2>2, <3>2, <4>1
    <3> QED
      BY <3>1, <3>2
  <2>4. CutsUp(g, text, k + 1)
    BY <2>3, Zenon DEF CutsUp
  <2> QED
    BY <2>4
<1>3. N = Nat
  <2>1. N \in SUBSET Nat
    OBVIOUS
  <2> HIDE DEF N
  <2> QED
    BY <1>1, <1>2, <2>1, SetInduction
<1> QED
  BY <1>3

\* What it computes for the first characters depends on those alone.
LEMMA CutsUpUnique ==
    ASSUME NEW text, NEW other, NEW n \in Nat, NEW f, NEW g,
           CutsUp(f, text, n), CutsUp(g, other, n + 1),
           \A i \in 1..n : text[i] = other[i]
    PROVE  f[n] = g[n]
<1> DEFINE N == {j \in Nat : j <= n => f[j] = g[j]}
<1>0. /\ \A j \in 0..n : f[j] = IF j = 0 THEN << <<>> >> ELSE Cut(f[j - 1], text[j])
      /\ \A j \in 0..(n + 1) : g[j] = IF j = 0 THEN << <<>> >> ELSE Cut(g[j - 1], other[j])
  BY DEF CutsUp
<1>1. 0 \in N
  BY <1>0
<1>2. ASSUME NEW j \in N PROVE j + 1 \in N
  <2>1. SUFFICES ASSUME j + 1 <= n PROVE f[j + 1] = g[j + 1]
    OBVIOUS
  <2>2. f[j] = g[j] /\ text[j + 1] = other[j + 1]
    BY <2>1
  <2>3. f[j + 1] = Cut(f[j], text[j + 1]) /\ g[j + 1] = Cut(g[j], other[j + 1])
    BY <1>0, <2>1
  <2> QED
    BY <2>2, <2>3
<1>3. N = Nat
  <2>1. N \in SUBSET Nat
    OBVIOUS
  <2> HIDE DEF N
  <2> QED
    BY <1>1, <1>2, <2>1, SetInduction
<1> QED
  BY <1>3

\* Split is what such an f ends in.
LEMMA SplitComputed ==
    ASSUME NEW text \in Texts
    PROVE  \E f : CutsUp(f, text, Len(text)) /\ Split(text) = f[Len(text)]
<1> DEFINE f == CHOOSE f : CutsUp(f, text, Len(text))
<1>1. CutsUp(f, text, Len(text))
  <2>1. Len(text) \in Nat
    BY DEF Texts
  <2> QED
    BY <2>1, CutsUpExists, Zenon
<1>2. Split(text) = f[Len(text)]
  BY DEF Split, CutsUp
<1> QED
  BY <1>1, <1>2

\* A text is split from left to right.
LEMMA SplitLaw ==
    /\ Split(<<>>) = << <<>> >>
    /\ \A text \in Texts : \A c \in Chars : Split(Append(text, c)) = Cut(Split(text), c)
<1>1. Split(<<>>) = << <<>> >>
  <2>1. <<>> \in Texts /\ Len(<<>>) = 0
    BY DEF Texts
  <2>2. PICK f : CutsUp(f, <<>>, 0) /\ Split(<<>>) = f[0]
    BY <2>1, SplitComputed
  <2> QED
    BY <2>2 DEF CutsUp
<1>2. ASSUME NEW text \in Texts, NEW c \in Chars
      PROVE  Split(Append(text, c)) = Cut(Split(text), c)
  <2> DEFINE longer == Append(text, c)
             n == Len(text)
  <2>1. /\ longer \in Texts /\ n \in Nat /\ Len(longer) = n + 1
        /\ longer[n + 1] = c /\ \A i \in 1..n : text[i] = longer[i]
    BY DEF Texts
  <2>2. PICK f : CutsUp(f, text, n) /\ Split(text) = f[n]
    BY SplitComputed
  <2>3. PICK g : CutsUp(g, longer, n + 1) /\ Split(longer) = g[n + 1]
    BY <2>1, SplitComputed
  <2> HIDE DEF longer, n
  <2>4. f[n] = g[n]
    <3>1. n \in Nat /\ \A i \in 1..n : text[i] = longer[i]
      BY <2>1
    <3>2. CutsUp(f, text, n) /\ CutsUp(g, longer, n + 1)
      BY <2>2, <2>3
    <3> QED
      BY <3>1, <3>2, CutsUpUnique, SMTT(60)
  <2>5. g[n + 1] = Cut(g[n], longer[n + 1])
    BY <2>1, <2>3 DEF CutsUp
  <2> QED
    BY <2>1, <2>2, <2>3, <2>4, <2>5 DEF longer
<1> QED
  BY <1>1, <1>2

-----------------------------------------------------------------------------
(***************************************************************************)
(* Draining a text                                                         *)
(***************************************************************************)

\* Where the last line feed of a text is, 0 if it has none.
LastLF(text) == SelectLastInSeq(text, IsLF)

\* It is a line feed, and none comes after it.
LEMMA LastLFIs ==
    ASSUME NEW text \in Texts
    PROVE  /\ LastLF(text) \in 0..Len(text)
           /\ LastLF(text) # 0 => IsLF(text[LastLF(text)])
           /\ \A i \in 1..Len(text) : IsLF(text[i]) => i <= LastLF(text)
<1> DEFINE I == {i \in 1..Len(text) : IsLF(text[i])}
<1>1. Len(text) \in Nat
  BY DEF Texts
<1>2. LastLF(text) = IF I # {} THEN Max(I) ELSE 0
  BY DEF LastLF, SelectLastInSeq
<1>3. CASE I = {}
  BY <1>1, <1>2, <1>3
<1>4. CASE I # {}
  <2>1. Max(I) \in I /\ \A i \in I : Max(I) >= i
    BY <1>1, <1>4, MaxIsMember
  <2> QED
    BY <1>1, <1>2, <1>4, <2>1
<1> QED
  BY <1>3, <1>4

\* It is the only such place.
LEMMA LastLFUnique ==
    ASSUME NEW text \in Texts, NEW n \in 0..Len(text),
           n # 0 => IsLF(text[n]),
           \A i \in 1..Len(text) : IsLF(text[i]) => i <= n
    PROVE  LastLF(text) = n
BY LastLFIs DEF Texts

\* Trimming a line leaves a text.
LEMMA TrimEndType ==
    ASSUME NEW text \in Texts
    PROVE  TrimEnd(text) \in Texts
<1> DEFINE I == {i \in 1..Len(text) : text[i].ch # "CR"}
           last == SelectLastInSeq(text, LAMBDA c : c.ch # "CR")
<1>1. Len(text) \in Nat
  BY DEF Texts
<1>2. last = IF I # {} THEN Max(I) ELSE 0
  BY DEF SelectLastInSeq
<1>3. last \in 0..Len(text)
  <2>1. CASE I = {}
    BY <1>1, <1>2, <2>1
  <2>2. CASE I # {}
    <3>1. Max(I) \in I
      BY <1>1, <2>2, MaxIsMember
    <3> QED
      BY <1>1, <1>2, <2>2, <3>1
  <2> QED
    BY <2>1, <2>2
<1> HIDE DEF last
<1>4. SubSeq(text, 1, last) \in Texts
  BY <1>1, <1>3 DEF Texts
<1> QED
  BY <1>4 DEF TrimEnd, last

\* Splitting gives at least one piece.
LEMMA SplitType ==
    ASSUME NEW text \in Texts
    PROVE  Split(text) \in Seq(Texts) /\ Split(text) # <<>>
<1> DEFINE T == {t \in Texts : Split(t) \in Seq(Texts) /\ Split(t) # <<>>}
<1>0. <<>> \in Texts
  BY DEF Texts
<1>1. <<>> \in T
  <2>1. << <<>> >> \in Seq(Texts) /\ << <<>> >> # <<>>
    BY <1>0
  <2> QED
    BY <1>0, <2>1, SplitLaw
<1>2. ASSUME NEW t \in T, NEW c \in Chars PROVE Append(t, c) \in T
  <2>1. Append(t, c) \in Texts /\ Split(Append(t, c)) = Cut(Split(t), c)
    BY SplitLaw DEF Texts
  <2>2. CASE IsLF(c)
    <3>1. Split(Append(t, c)) = Append(Split(t), <<>>)
      BY <2>1, <2>2 DEF Cut
    <3>2. Append(Split(t), <<>>) \in Seq(Texts) /\ Append(Split(t), <<>>) # <<>>
      BY <1>0
    <3> QED
      BY <2>1, <3>1, <3>2
  <2>3. CASE ~IsLF(c)
    <3> DEFINE n == Len(Split(t))
    <3>1. n \in 1..Len(Split(t))
      BY EmptySeq
    <3>2. Append(Split(t)[n], c) \in Texts
      BY <3>1 DEF Texts
    <3>3. Cut(Split(t), c) = [Split(t) EXCEPT ![n] = Append(Split(t)[n], c)]
      BY <2>3 DEF Cut
    <3> QED
      <4>1. /\ Cut(Split(t), c) \in Seq(Texts)
            /\ Len(Cut(Split(t), c)) = Len(Split(t))
        BY <3>1, <3>2, <3>3, ExceptSeq
      <4>2. Cut(Split(t), c) # <<>>
        BY <3>1, <4>1
      <4> QED
        BY <2>1, <4>1, <4>2
  <2> QED
    BY <2>2, <2>3
<1>3. T = Texts
  <2>1. T \in SUBSET Texts
    OBVIOUS
  <2> HIDE DEF T
  <2> QED
    BY <1>1, <1>2, <2>1, SeqInduction DEF Texts
<1> QED
  BY <1>3

\* The last piece is what follows the last line feed; the others are the pieces of what
\* precedes it.
PiecesOf(text) ==
    IF LastLF(text) = 0 THEN <<text>>
    ELSE Append(Split(SubSeq(text, 1, LastLF(text) - 1)),
                SubSeq(text, LastLF(text) + 1, Len(text)))

\* Split cuts there last.
LEMMA SplitAtLast ==
    ASSUME NEW text \in Texts
    PROVE  Split(text) = PiecesOf(text)
<1> DEFINE T == {t \in Texts : Split(t) = PiecesOf(t)}
<1>1. <<>> \in T
  <2>1. <<>> \in Texts /\ Len(<<>>) = 0
    BY DEF Texts
  <2>2. LastLF(<<>>) = 0
    BY <2>1, LastLFIs
  <2> QED
    BY <2>1, <2>2, SplitLaw DEF PiecesOf
<1>2. ASSUME NEW t \in T, NEW c \in Chars PROVE Append(t, c) \in T
  <2> DEFINE u == Append(t, c)
             n == Len(t)
             m == LastLF(t)
  <2>1. /\ t \in Texts /\ u \in Texts /\ n \in Nat /\ Len(u) = n + 1
        /\ u[n + 1] = c /\ \A i \in 1..n : t[i] = u[i]
    BY DEF Texts
  <2>2. Split(u) = Cut(Split(t), c)
    BY <2>1, SplitLaw
  <2>3. m \in 0..n /\ (m # 0 => IsLF(t[m])) /\ \A i \in 1..n : IsLF(t[i]) => i <= m
    BY <2>1, LastLFIs
  <2>4. Split(t) = PiecesOf(t)
    OBVIOUS
  <2>5. CASE IsLF(c)
    <3> HIDE DEF u, n, m
    <3>1. LastLF(u) = n + 1
      BY <2>1, <2>5, LastLFUnique
    <3>2. SubSeq(u, 1, n) = t
      BY <2>1 DEF Texts, u, n
    <3>3. SubSeq(u, n + 2, n + 1) = <<>>
      BY <2>1, SubSeqEmpty
    <3>4. PiecesOf(u) = Append(Split(t), <<>>)
      <4>1. LastLF(u) # 0 /\ LastLF(u) - 1 = n /\ LastLF(u) + 1 = n + 2
        BY <2>1, <3>1
      <4> QED
        BY <2>1, <3>2, <3>3, <4>1 DEF PiecesOf
    <3>5. Split(u) = PiecesOf(u)
      BY <2>2, <2>5, <3>4 DEF Cut
    <3> QED
      BY <2>1, <3>5 DEF u
  <2>6. CASE ~IsLF(c)
    <3> HIDE DEF u, n, m
    <3>1. LastLF(u) = m
      BY <2>1, <2>3, <2>6, LastLFUnique
    <3>2. CASE m = 0
      <4>1. Split(t) = <<t>> /\ PiecesOf(u) = <<u>>
        BY <2>4, <3>1, <3>2 DEF m, PiecesOf
      <4>2. Cut(<<t>>, c) = <<u>>
        BY <2>6 DEF Cut, u
      <4>3. Split(u) = PiecesOf(u)
        BY <2>2, <4>1, <4>2
      <4> QED
        BY <2>1, <4>3 DEF u
    <3>3. CASE m # 0
      <4> DEFINE before == Split(SubSeq(t, 1, m - 1))
                 after == SubSeq(t, m + 1, n)
                 longer == SubSeq(u, m + 1, n + 1)
      <4>1. Split(t) = Append(before, after)
        BY <2>4, <3>3 DEF m, n, PiecesOf
      <4>2. SubSeq(u, 1, m - 1) = SubSeq(t, 1, m - 1)
        BY <2>1, <2>3, <3>3 DEF Texts
      <4>3. before \in Seq(Texts) /\ after \in Texts
        <5>1. SubSeq(t, 1, m - 1) \in Texts /\ after \in Texts
          BY <2>1, <2>3, <3>3 DEF Texts, n
        <5> QED
          BY <5>1, SplitType
      <4>4. longer = Append(after, c)
        <5>1. t \in Seq(Chars) /\ m \in 0..Len(t)
          BY <2>1, <2>3 DEF Texts, n
        <5> QED
          BY <5>1, SubSeqOfAppend DEF u, n
      <4> HIDE DEF before, after, longer
      <4>5. Cut(Append(before, after), c) = Append(before, Append(after, c))
        <5> DEFINE k == Len(before) + 1
                   s == Append(before, after)
                   x == Append(after, c)
        <5>1. /\ k \in 1..Len(s) /\ Len(s) = k /\ s[k] = after /\ s \in Seq(Texts)
              /\ \A i \in 1..(k - 1) : s[i] = before[i]
          BY <4>3
        <5>2. x \in Texts
          BY <4>3 DEF Texts
        <5>3. Cut(s, c) = [s EXCEPT ![k] = x]
          BY <2>6, <5>1 DEF Cut
        <5>4. /\ Append(before, x) \in Seq(Texts) /\ Len(Append(before, x)) = k
              /\ \A i \in 1..k : Append(before, x)[i] = IF i = k THEN x ELSE before[i]
          BY <4>3, <5>2
        <5> HIDE DEF s, x, k
        <5>5. /\ [s EXCEPT ![k] = x] \in Seq(Texts) /\ Len([s EXCEPT ![k] = x]) = k
              /\ \A i \in 1..k : [s EXCEPT ![k] = x][i] = IF i = k THEN x ELSE s[i]
          BY <5>1, <5>2, ExceptSeq
        <5>6. [s EXCEPT ![k] = x] = Append(before, x)
          <6>1. \A i \in 1..k : [s EXCEPT ![k] = x][i] = Append(before, x)[i]
            BY <5>1, <5>4, <5>5
          <6> QED
            BY <5>4, <5>5, <6>1, SeqEqual
        <5> QED
          BY <5>3, <5>6 DEF s, x
      <4>6. PiecesOf(u) = Append(before, longer)
        BY <2>1, <3>1, <3>3, <4>2 DEF PiecesOf, before, longer
      <4>7. Split(u) = PiecesOf(u)
        BY <2>2, <4>1, <4>4, <4>5, <4>6
      <4> QED
        BY <2>1, <4>7 DEF u
    <3> QED
      BY <3>2, <3>3
  <2> QED
    BY <2>5, <2>6
<1>3. T = Texts
  <2>1. T \in SUBSET Texts
    OBVIOUS
  <2> HIDE DEF T
  <2> QED
    BY <1>1, <1>2, <2>1, SeqInduction DEF Texts
<1> QED
  BY <1>3

\* An image of the last element is appended to the images of the others.
LEMMA MapAppend ==
    ASSUME NEW s \in Seq(Texts), NEW x \in Texts
    PROVE  [k \in DOMAIN Append(s, x) |-> TrimEnd(Append(s, x)[k])]
             = Append([k \in DOMAIN s |-> TrimEnd(s[k])], TrimEnd(x))
<1> DEFINE n == Len(s)
           images == [k \in DOMAIN s |-> TrimEnd(s[k])]
           all == [k \in DOMAIN Append(s, x) |-> TrimEnd(Append(s, x)[k])]
<1>1. /\ n \in Nat /\ DOMAIN s = 1..n /\ DOMAIN Append(s, x) = 1..(n + 1)
      /\ Append(s, x)[n + 1] = x
      /\ \A i \in 1..n : Append(s, x)[i] = s[i] /\ s[i] \in Texts
  OBVIOUS
<1>2. TrimEnd(x) \in Texts /\ \A i \in 1..n : TrimEnd(s[i]) \in Texts
  BY <1>1, TrimEndType
<1>3. images \in Seq(Texts) /\ Len(images) = n /\ \A i \in 1..n : images[i] = TrimEnd(s[i])
  <2>1. images \in [1..n -> Texts]
    BY <1>1, <1>2
  <2> QED
    BY <1>1, <2>1
<1>4. /\ all \in [1..(n + 1) -> Texts]
      /\ \A i \in 1..(n + 1) : all[i] = IF i = n + 1 THEN TrimEnd(x) ELSE images[i]
  BY <1>1, <1>2
<1>5. all \in Seq(Texts) /\ Len(all) = n + 1
  BY <1>1, <1>4
<1> HIDE DEF n, images, all
<1>6. /\ Append(images, TrimEnd(x)) \in Seq(Texts) /\ Len(Append(images, TrimEnd(x))) = n + 1
      /\ \A i \in 1..(n + 1) :
           Append(images, TrimEnd(x))[i] = IF i = n + 1 THEN TrimEnd(x) ELSE images[i]
  BY <1>1, <1>2, <1>3
<1>7. all = Append(images, TrimEnd(x))
  BY <1>4, <1>5, <1>6, SeqEqual
<1> QED
  BY <1>7 DEF images, all

\* What a text is drained into.
LEMMA DrainedType ==
    ASSUME NEW text \in Texts
    PROVE  CompleteLines(text) \in Seq(Texts) /\ Unfinished(text) \in Texts
<1> DEFINE m == LastLF(text)
<1>1. m \in 0..Len(text) /\ Len(text) \in Nat
  BY LastLFIs DEF Texts
<1>2. CASE m = 0
  <2>1. CompleteLines(text) = <<>> /\ Unfinished(text) = text
    BY <1>2 DEF CompleteLines, Unfinished, Drained, LastLF
  <2> QED
    BY <2>1
<1>3. CASE m # 0
  <2> DEFINE pieces == Split(SubSeq(text, 1, m - 1))
  <2>1. SubSeq(text, 1, m - 1) \in Texts /\ SubSeq(text, m + 1, Len(text)) \in Texts
    BY <1>1, <1>3 DEF Texts
  <2>2. pieces \in Seq(Texts)
    BY <2>1, SplitType
  <2>3. /\ CompleteLines(text) = [k \in DOMAIN pieces |-> TrimEnd(pieces[k])]
        /\ Unfinished(text) = SubSeq(text, m + 1, Len(text))
    BY <1>3 DEF CompleteLines, Unfinished, Drained, LastLF
  <2> HIDE DEF pieces
  <2>4. Len(pieces) \in Nat /\ DOMAIN pieces = 1..Len(pieces)
        /\ \A k \in 1..Len(pieces) : pieces[k] \in Texts
    BY <2>2
  <2>5. [k \in DOMAIN pieces |-> TrimEnd(pieces[k])] \in [1..Len(pieces) -> Texts]
    BY <2>4, TrimEndType
  <2> QED
    BY <2>1, <2>3, <2>4, <2>5, SeqDef
<1> QED
  BY <1>2, <1>3

\* A line feed completes the unfinished line; any other character is added to it.
LEMMA DrainedStep ==
    ASSUME NEW text \in Texts, NEW c \in Chars
    PROVE  /\ CompleteLines(Append(text, c)) =
                 IF IsLF(c) THEN Append(CompleteLines(text), TrimEnd(Unfinished(text)))
                 ELSE CompleteLines(text)
           /\ Unfinished(Append(text, c)) =
                 IF IsLF(c) THEN <<>> ELSE Append(Unfinished(text), c)
<1> DEFINE u == Append(text, c)
           n == Len(text)
           m == LastLF(text)
<1>1. /\ u \in Texts /\ n \in Nat /\ Len(u) = n + 1
      /\ u[n + 1] = c /\ \A i \in 1..n : text[i] = u[i]
  BY DEF Texts
<1>2. m \in 0..n /\ (m # 0 => IsLF(text[m])) /\ \A i \in 1..n : IsLF(text[i]) => i <= m
  BY LastLFIs
<1> HIDE DEF u, n, m
<1>3. CASE IsLF(c)
  <2> DEFINE pieces == Split(text)
  <2>1. LastLF(u) = n + 1
    BY <1>1, <1>3, LastLFUnique
  <2>2. LastLF(u) # 0 /\ LastLF(u) - 1 = n /\ LastLF(u) + 1 = n + 2
    BY <1>1, <2>1
  <2>3. SubSeq(u, 1, n) = text
    BY <1>1 DEF Texts, u, n
  <2>4. SubSeq(u, n + 2, n + 1) = <<>>
    BY <1>1, SubSeqEmpty
  <2>5. /\ CompleteLines(u) = [k \in DOMAIN pieces |-> TrimEnd(pieces[k])]
        /\ Unfinished(u) = <<>>
    BY <1>1, <2>2, <2>3, <2>4 DEF CompleteLines, Unfinished, Drained, LastLF
  <2>6. pieces = PiecesOf(text)
    BY SplitAtLast
  <2>7. CASE m = 0
    <3>1. CompleteLines(text) = <<>> /\ Unfinished(text) = text
      BY <2>7 DEF CompleteLines, Unfinished, Drained, LastLF, m
    <3>2. pieces = <<text>>
      BY <2>6, <2>7 DEF PiecesOf, m
    <3>3. TrimEnd(text) \in Texts
      BY TrimEndType
    <3> HIDE DEF pieces
    <3>4. [k \in DOMAIN pieces |-> TrimEnd(pieces[k])] = <<TrimEnd(text)>>
      BY <3>2
    <3> QED
      BY <1>3, <2>5, <3>1, <3>4 DEF u
  <2>8. CASE m # 0
    <3> DEFINE before == Split(SubSeq(text, 1, m - 1))
               after == SubSeq(text, m + 1, n)
    <3>1. /\ CompleteLines(text) = [k \in DOMAIN before |-> TrimEnd(before[k])]
          /\ Unfinished(text) = after
      BY <2>8 DEF CompleteLines, Unfinished, Drained, LastLF, m, n
    <3>2. pieces = Append(before, after)
      BY <2>6, <2>8 DEF PiecesOf, m, n
    <3>3. before \in Seq(Texts) /\ after \in Texts
      <4>1. SubSeq(text, 1, m - 1) \in Texts /\ after \in Texts
        BY <1>1, <1>2, <2>8 DEF Texts, n
      <4> QED
        BY <4>1, SplitType
    <3> HIDE DEF pieces, before, after
    <3>4. [k \in DOMAIN Append(before, after) |-> TrimEnd(Append(before, after)[k])]
            = Append([k \in DOMAIN before |-> TrimEnd(before[k])], TrimEnd(after))
      BY <3>3, MapAppend
    <3> QED
      BY <1>3, <2>5, <3>1, <3>2, <3>4 DEF u
  <2> QED
    BY <2>7, <2>8
<1>4. CASE ~IsLF(c)
  <2>1. LastLF(u) = m
    BY <1>1, <1>2, <1>4, LastLFUnique
  <2>2. CASE m = 0
    <3>1. /\ CompleteLines(text) = <<>> /\ Unfinished(text) = text
          /\ CompleteLines(u) = <<>> /\ Unfinished(u) = u
      BY <2>1, <2>2 DEF CompleteLines, Unfinished, Drained, LastLF, m
    <3> QED
      BY <1>4, <3>1 DEF u
  <2>3. CASE m # 0
    <3>1. SubSeq(u, 1, m - 1) = SubSeq(text, 1, m - 1)
      BY <1>1, <1>2, <2>3 DEF Texts
    <3>2. SubSeq(u, m + 1, n + 1) = Append(SubSeq(text, m + 1, n), c)
      <4>1. text \in Seq(Chars) /\ m \in 0..Len(text)
        BY <1>2 DEF Texts, n
      <4> QED
        BY <4>1, SubSeqOfAppend DEF u, n
    <3>3. CompleteLines(u) = CompleteLines(text)
      BY <2>1, <2>3, <3>1 DEF CompleteLines, Drained, LastLF, m
    <3>4. Unfinished(text) = SubSeq(text, m + 1, n)
      BY <2>3 DEF Unfinished, Drained, LastLF, m, n
    <3>5. Unfinished(u) = SubSeq(u, m + 1, n + 1)
      BY <1>1, <2>1, <2>3 DEF Unfinished, Drained, LastLF
    <3> QED
      BY <1>4, <3>2, <3>3, <3>4, <3>5 DEF u
  <2> QED
    BY <2>2, <2>3
<1> QED
  BY <1>3, <1>4 DEF u

\* What is left has no line feed: draining it again yields nothing.
LEMMA UnfinishedIsOpen ==
    ASSUME NEW text \in Texts
    PROVE  /\ CompleteLines(Unfinished(text)) = <<>>
           /\ Unfinished(Unfinished(text)) = Unfinished(text)
<1> DEFINE rest == Unfinished(text)
           m == LastLF(text)
<1>1. rest \in Texts /\ Len(text) \in Nat
  BY DrainedType DEF Texts
<1>2. /\ m \in 0..Len(text) /\ rest = SubSeq(text, m + 1, Len(text))
      /\ \A i \in 1..Len(text) : IsLF(text[i]) => i <= m
  <2>1. /\ m \in 0..Len(text)
        /\ \A i \in 1..Len(text) : IsLF(text[i]) => i <= m
    BY LastLFIs
  <2>2. CASE m = 0
    <3>1. rest = text
      BY <2>2 DEF Unfinished, Drained, LastLF
    <3>2. SubSeq(text, 1, Len(text)) = text
      BY DEF Texts
    <3> QED
      BY <2>1, <2>2, <3>1, <3>2
  <2>3. CASE m # 0
    BY <2>1, <2>3 DEF Unfinished, Drained, LastLF
  <2> QED
    BY <2>2, <2>3
<1> HIDE DEF rest, m
<1>3. \A i \in 1..Len(rest) : ~IsLF(rest[i])
  <2>1. \A i \in 1..Len(rest) : rest[i] = text[m + i] /\ m + i \in 1..Len(text) /\ ~(m + i <= m)
    BY <1>1, <1>2 DEF Texts
  <2> QED
    BY <1>2, <2>1
<1>4. LastLF(rest) = 0
  <2>1. Len(rest) \in Nat
    BY <1>1 DEF Texts
  <2> QED
    BY <1>1, <1>3, <2>1, LastLFUnique
<1> QED
  BY <1>4 DEF CompleteLines, Unfinished, Drained, LastLF, rest

\* Draining what is pending together with what is new yields what draining everything at
\* once would have yielded beyond what was drained before.
LEMMA DrainedConcat ==
    ASSUME NEW old \in Texts, NEW new \in Texts
    PROVE  /\ CompleteLines(old \o new) =
                 CompleteLines(old) \o CompleteLines(Unfinished(old) \o new)
           /\ Unfinished(old \o new) = Unfinished(Unfinished(old) \o new)
<1> DEFINE rest == Unfinished(old)
           Law(t) == /\ CompleteLines(old \o t) = CompleteLines(old) \o CompleteLines(rest \o t)
                     /\ Unfinished(old \o t) = Unfinished(rest \o t)
           T == {t \in Texts : Law(t)}
<1>0. CompleteLines(old) \in Seq(Texts) /\ rest \in Texts
  BY DrainedType
<1>1. <<>> \in T
  <2>1. old \o <<>> = old /\ rest \o <<>> = rest /\ <<>> \in Texts
    BY <1>0 DEF Texts
  <2>2. CompleteLines(rest) = <<>> /\ Unfinished(rest) = rest
    BY UnfinishedIsOpen
  <2>3. CompleteLines(old) \o <<>> = CompleteLines(old)
    BY <1>0
  <2> QED
    BY <2>1, <2>2, <2>3
<1>2. ASSUME NEW t \in T, NEW c \in Chars PROVE Append(t, c) \in T
  <2>1. t \in Texts /\ Law(t) /\ Append(t, c) \in Texts
    BY DEF Texts
  <2>2. /\ old \o t \in Texts /\ rest \o t \in Texts
        /\ old \o Append(t, c) = Append(old \o t, c)
        /\ rest \o Append(t, c) = Append(rest \o t, c)
    BY <1>0, <2>1, SMTT(40) DEF Texts
  <2>3. CompleteLines(rest \o t) \in Seq(Texts) /\ Unfinished(rest \o t) \in Texts
    BY <2>2, DrainedType
  <2> HIDE DEF rest
  <2>4. Law(Append(t, c))
    <3>1. CASE IsLF(c)
      <4>1. TrimEnd(Unfinished(rest \o t)) \in Texts
        BY <2>3, TrimEndType
      <4>2. CompleteLines(old) \o Append(CompleteLines(rest \o t), TrimEnd(Unfinished(rest \o t)))
              = Append(CompleteLines(old) \o CompleteLines(rest \o t), TrimEnd(Unfinished(rest \o t)))
        <5> DEFINE a == CompleteLines(old)
                   b == CompleteLines(rest \o t)
                   line == TrimEnd(Unfinished(rest \o t))
        <5>1. a \in Seq(Texts) /\ b \in Seq(Texts) /\ line \in Texts
          BY <1>0, <2>3, <4>1
        <5> HIDE DEF a, b, line
        <5>2. a \o Append(b, line) = Append(a \o b, line)
          BY <5>1
        <5> QED
          BY <5>2 DEF a, b, line
      <4>3. /\ CompleteLines(old \o Append(t, c)) =
                   Append(CompleteLines(old \o t), TrimEnd(Unfinished(old \o t)))
            /\ CompleteLines(rest \o Append(t, c)) =
                   Append(CompleteLines(rest \o t), TrimEnd(Unfinished(rest \o t)))
            /\ Unfinished(old \o Append(t, c)) = <<>>
            /\ Unfinished(rest \o Append(t, c)) = <<>>
        BY <2>2, <3>1, DrainedStep
      <4> QED
        BY <2>1, <4>2, <4>3
    <3>2. CASE ~IsLF(c)
      <4>1. /\ CompleteLines(old \o Append(t, c)) = CompleteLines(old \o t)
            /\ CompleteLines(rest \o Append(t, c)) = CompleteLines(rest \o t)
            /\ Unfinished(old \o Append(t, c)) = Append(Unfinished(old \o t), c)
            /\ Unfinished(rest \o Append(t, c)) = Append(Unfinished(rest \o t), c)
        BY <2>2, <3>2, DrainedStep
      <4> QED
        BY <2>1, <4>1
    <3> QED
      BY <3>1, <3>2
  <2> QED
    BY <2>1, <2>4
<1>3. T = Texts
  <2>1. T \in SUBSET Texts
    OBVIOUS
  <2> HIDE DEF T
  <2> QED
    BY <1>1, <1>2, <2>1, SeqInduction DEF Texts
<1> QED
  BY <1>3

-----------------------------------------------------------------------------
(***************************************************************************)
(* Decoding                                                                *)
(***************************************************************************)

\* f decodes the first bytes, up to the m-th.
DecodesUp(f, bytes, m) ==
    f = [n \in 0..m |-> IF n = 0 THEN <<>> ELSE Decode(bytes, f[n - 1], n)]

\* There is such an f for every length.
LEMMA DecodesUpExists ==
    ASSUME NEW bytes, NEW m \in Nat
    PROVE  \E f : DecodesUp(f, bytes, m)
<1> DEFINE N == {k \in Nat : \E f : DecodesUp(f, bytes, k)}
<1>1. 0 \in N
  <2>1. DecodesUp([n \in 0..0 |-> <<>>], bytes, 0)
    BY DEF DecodesUp
  <2> QED
    BY <2>1
<1>2. ASSUME NEW k \in N PROVE k + 1 \in N
  <2>1. PICK f : DecodesUp(f, bytes, k)
    OBVIOUS
  <2> DEFINE g == [n \in 0..(k + 1) |-> IF n = k + 1 THEN Decode(bytes, f[k], k + 1) ELSE f[n]]
  <2>2. \A n \in 0..k : f[n] = IF n = 0 THEN <<>> ELSE Decode(bytes, f[n - 1], n)
    BY <2>1 DEF DecodesUp
  <2>3. ASSUME NEW n \in 0..(k + 1)
        PROVE  g[n] = IF n = 0 THEN <<>> ELSE Decode(bytes, g[n - 1], n)
    <3>1. CASE n = k + 1
      BY <3>1
    <3>2. CASE n \in 0..k
      <4>1. g[n] = f[n] /\ (n # 0 => g[n - 1] = f[n - 1])
        BY <3>2
      <4> QED
        BY <2>2, <3>2, <4>1
    <3> QED
      BY <3>1, <3>2
  <2>4. DecodesUp(g, bytes, k + 1)
    BY <2>3, Zenon DEF DecodesUp
  <2> QED
    BY <2>4
<1>3. N = Nat
  <2>1. N \in SUBSET Nat
    OBVIOUS
  <2> HIDE DEF N
  <2> QED
    BY <1>1, <1>2, <2>1, SetInduction
<1> QED
  BY <1>3

\* What the container writes.
OutputBytes == [byte : Alphabet, from : Streams]

\* GetString is what such an f ends in.
LEMMA GetStringComputed ==
    ASSUME NEW bytes \in Seq(OutputBytes)
    PROVE  \E f : DecodesUp(f, bytes, Len(bytes)) /\ GetString(bytes) = f[Len(bytes)]
<1> DEFINE f == CHOOSE f : DecodesUp(f, bytes, Len(bytes))
<1>1. DecodesUp(f, bytes, Len(bytes))
  <2>1. Len(bytes) \in Nat
    OBVIOUS
  <2> QED
    BY <2>1, DecodesUpExists, Zenon
<1>2. GetString(bytes) = f[Len(bytes)]
  BY DEF GetString, DecodesUp
<1> QED
  BY <1>1, <1>2

\* Whatever the bytes are, a chunk decodes to a text.
LEMMA GetStringType ==
    ASSUME NEW bytes \in Seq(OutputBytes)
    PROVE  GetString(bytes) \in Texts
<1>1. PICK f : DecodesUp(f, bytes, Len(bytes)) /\ GetString(bytes) = f[Len(bytes)]
  BY GetStringComputed
<1>2. \A n \in 0..Len(bytes) : f[n] = IF n = 0 THEN <<>> ELSE Decode(bytes, f[n - 1], n)
  BY <1>1 DEF DecodesUp
<1>0. Len(bytes) \in Nat /\ f[0] = <<>>
  BY <1>2
<1> DEFINE N == {n \in Nat : n <= Len(bytes) => f[n] \in Texts}
<1>3. 0 \in N
  <2>1. <<>> \in Texts
    BY DEF Texts
  <2> QED
    BY <1>0, <2>1
<1>4. ASSUME NEW n \in N PROVE n + 1 \in N
  <2>1. SUFFICES ASSUME n + 1 <= Len(bytes) PROVE f[n + 1] \in Texts
    OBVIOUS
  <2>2. f[n] \in Texts /\ f[n + 1] = Decode(bytes, f[n], n + 1) /\ bytes[n + 1] \in OutputBytes
    BY <1>0, <1>2, <2>1
  <2>3. Char(bytes, n + 1) \in Chars
    <3>1. bytes[n + 1].byte \in Bytes /\ bytes[n + 1].from \in Streams
      BY <2>2, LogAssumption DEF OutputBytes
    <3> QED
      BY <3>1 DEF Char, Chars, Bytes
  <2>4. f[n + 1] \in {f[n], Append(f[n], Char(bytes, n + 1))}
    BY <2>2 DEF Decode
  <2>5. Append(f[n], Char(bytes, n + 1)) \in Texts
    BY <2>2, <2>3 DEF Texts
  <2> QED
    BY <2>2, <2>4, <2>5
<1>5. N = Nat
  <2>1. N \in SUBSET Nat
    OBVIOUS
  <2> HIDE DEF N
  <2> QED
    BY <1>3, <1>4, <2>1, SetInduction
<1> QED
  BY <1>0, <1>1, <1>5

\* Every character the container writes is one byte long.
SingleByte == Alphabet \subseteq {"x", "LF", "CR"}

\* Then a chunk is decoded byte by byte.
LEMMA GetStringPlain ==
    ASSUME SingleByte, NEW bytes \in Seq(OutputBytes)
    PROVE  /\ Len(GetString(bytes)) = Len(bytes)
           /\ \A i \in 1..Len(bytes) :
                GetString(bytes)[i] = [ch |-> bytes[i].byte, from |-> bytes[i].from]
<1> DEFINE Plain(b) == [ch |-> b.byte, from |-> b.from]
<1>1. PICK f : DecodesUp(f, bytes, Len(bytes)) /\ GetString(bytes) = f[Len(bytes)]
  BY GetStringComputed
<1>2. \A n \in 0..Len(bytes) : f[n] = IF n = 0 THEN <<>> ELSE Decode(bytes, f[n - 1], n)
  BY <1>1 DEF DecodesUp
<1>0. Len(bytes) \in Nat /\ f[0] = <<>>
  BY <1>2
<1>3. ASSUME NEW b \in OutputBytes
      PROVE  /\ b.byte \notin {"lead", "trail"} /\ Plain(b) \in Chars
  BY DEF OutputBytes, SingleByte, Chars
<1> DEFINE Done(n) == /\ f[n] \in Seq(Chars) /\ Len(f[n]) = n
                      /\ \A i \in 1..n : f[n][i] = Plain(bytes[i])
           N == {n \in Nat : n <= Len(bytes) => Done(n)}
<1>4. 0 \in N
  <2>1. <<>> \in Seq(Chars) /\ Len(<<>>) = 0 /\ 1..0 = {}
    OBVIOUS
  <2> QED
    BY <1>0, <2>1
<1>5. ASSUME NEW n \in N PROVE n + 1 \in N
  <2>1. SUFFICES ASSUME n + 1 <= Len(bytes) PROVE Done(n + 1)
    OBVIOUS
  <2>2. /\ n \in Nat /\ Done(n) /\ f[n + 1] = Decode(bytes, f[n], n + 1)
        /\ bytes[n + 1] \in OutputBytes /\ (n > 0 => bytes[n] \in OutputBytes)
    BY <1>0, <1>2, <2>1
  <2>3. Decode(bytes, f[n], n + 1) = Append(f[n], Plain(bytes[n + 1]))
    <3>1. bytes[n + 1].byte \notin {"lead", "trail"} /\ (n > 0 => bytes[n].byte # "lead")
      BY <1>3, <2>2
    <3>2. (n + 1) - 1 = n /\ (n + 1 > 1 => n > 0)
      BY <2>2
    <3> QED
      BY <3>1, <3>2 DEF Decode, Char, Pair
  <2>4. Plain(bytes[n + 1]) \in Chars
    BY <1>3, <2>2
  <2> HIDE DEF Plain
  <2> QED
    BY <2>2, <2>3, <2>4, SMTT(40)
<1>6. N = Nat
  <2>1. N \in SUBSET Nat
    OBVIOUS
  <2> HIDE DEF N
  <2> QED
    BY <1>4, <1>5, <2>1, SetInduction
<1> QED
  BY <1>0, <1>1, <1>6

\* And a chunk can be cut anywhere.
LEMMA GetStringConcat ==
    ASSUME SingleByte, NEW a \in Seq(OutputBytes), NEW b \in Seq(OutputBytes)
    PROVE  GetString(a \o b) = GetString(a) \o GetString(b)
<1> DEFINE m == Len(a)
           n == Len(b)
<1>1. /\ a \o b \in Seq(OutputBytes) /\ m \in Nat /\ n \in Nat /\ Len(a \o b) = m + n
      /\ \A i \in 1..(m + n) : (a \o b)[i] = IF i <= m THEN a[i] ELSE b[i - m]
  OBVIOUS
<1>2. /\ GetString(a) \in Seq(Chars) /\ GetString(b) \in Seq(Chars)
      /\ GetString(a \o b) \in Seq(Chars)
  BY <1>1, GetStringType DEF Texts
<1>3. /\ Len(GetString(a)) = m /\ Len(GetString(b)) = n /\ Len(GetString(a \o b)) = m + n
      /\ \A i \in 1..m : GetString(a)[i] = [ch |-> a[i].byte, from |-> a[i].from]
      /\ \A i \in 1..n : GetString(b)[i] = [ch |-> b[i].byte, from |-> b[i].from]
      /\ \A i \in 1..(m + n) : GetString(a \o b)[i] =
           [ch |-> (a \o b)[i].byte, from |-> (a \o b)[i].from]
  BY <1>1, GetStringPlain
<1> HIDE DEF m, n
<1>4. ASSUME NEW i \in 1..(m + n)
      PROVE  GetString(a \o b)[i] = (GetString(a) \o GetString(b))[i]
  <2>1. (GetString(a) \o GetString(b))[i] =
          IF i <= m THEN GetString(a)[i] ELSE GetString(b)[i - m]
    <3> DEFINE left == GetString(a)
               right == GetString(b)
    <3>1. /\ left \in Seq(Chars) /\ Len(left) = m /\ m \in Nat
          /\ right \in Seq(Chars) /\ Len(right) = n /\ n \in Nat
      BY <1>1, <1>2, <1>3
    <3> HIDE DEF left, right
    <3>2. (left \o right)[i] = IF i <= m THEN left[i] ELSE right[i - m]
      BY <3>1
    <3> QED
      BY <3>2 DEF left, right
  <2>2. CASE i <= m
    <3>1. i \in 1..m
      BY <1>1, <2>2
    <3>2. (a \o b)[i] = a[i]
      BY <1>1, <2>2
    <3>3. GetString(a)[i] = [ch |-> a[i].byte, from |-> a[i].from]
      BY <1>3, <3>1
    <3>4. GetString(a \o b)[i] = [ch |-> (a \o b)[i].byte, from |-> (a \o b)[i].from]
      BY <1>3
    <3> QED
      BY <2>1, <2>2, <3>2, <3>3, <3>4
  <2>3. CASE ~(i <= m)
    <3>1. i - m \in 1..n
      BY <1>1, <2>3
    <3>2. (a \o b)[i] = b[i - m]
      BY <1>1, <2>3
    <3>3. GetString(b)[i - m] = [ch |-> b[i - m].byte, from |-> b[i - m].from]
      BY <1>3, <3>1
    <3>4. GetString(a \o b)[i] = [ch |-> (a \o b)[i].byte, from |-> (a \o b)[i].from]
      BY <1>3
    <3> QED
      BY <2>1, <2>3, <3>2, <3>3, <3>4
  <2> QED
    BY <2>2, <2>3
<1>5. /\ GetString(a) \o GetString(b) \in Seq(Chars)
      /\ Len(GetString(a) \o GetString(b)) = m + n
  BY <1>2, <1>3, ConcatProperties
<1> QED
  BY <1>2, <1>3, <1>4, <1>5, SeqEqual

-----------------------------------------------------------------------------
(***************************************************************************)
(* The type invariant                                                      *)
(***************************************************************************)

\* A chunk is part of the output.
LEMMA ChunkIsOutput ==
    ASSUME TypeOK, NEW n \in 1..BufferSize, consumed + n <= Len(output)
    PROVE  /\ consumed \in Nat /\ n \in Nat /\ consumed + n \in 0..Len(output)
           /\ Chunk(n) \in Seq(OutputBytes)
           /\ SubSeq(output, 1, consumed) \in Seq(OutputBytes)
           /\ SubSeq(output, 1, consumed + n) = SubSeq(output, 1, consumed) \o Chunk(n)
<1>1. /\ output \in Seq(OutputBytes) /\ Len(output) \in Nat /\ consumed \in 0..Len(output)
      /\ n \in Nat /\ n > 0
  BY LogAssumption DEF TypeOK, OutputBytes
<1>2. consumed \in Nat /\ consumed + n \in 0..Len(output)
  BY <1>1
<1> DEFINE a == SubSeq(output, 1, consumed)
           b == SubSeq(output, consumed + 1, consumed + n)
           c == SubSeq(output, 1, consumed + n)
<1>3. /\ a \in Seq(OutputBytes) /\ Len(a) = consumed
      /\ \A i \in 1..consumed : a[i] = output[i]
  BY <1>1, <1>2
<1>4. /\ b \in Seq(OutputBytes) /\ Len(b) = n
      /\ \A i \in 1..n : b[i] = output[consumed + i]
  BY <1>1, <1>2
<1>5. /\ c \in Seq(OutputBytes) /\ Len(c) = consumed + n
      /\ \A i \in 1..(consumed + n) : c[i] = output[i]
  BY <1>1, <1>2
<1> HIDE DEF a, b, c
<1>6. /\ a \o b \in Seq(OutputBytes) /\ Len(a \o b) = consumed + n
      /\ \A i \in 1..(consumed + n) :
           (a \o b)[i] = IF i <= consumed THEN a[i] ELSE b[i - consumed]
  BY <1>3, <1>4, ConcatProperties
<1>7. ASSUME NEW i \in 1..(consumed + n) PROVE c[i] = (a \o b)[i]
  <2>1. CASE i <= consumed
    <3>1. i \in 1..consumed
      BY <1>2, <2>1
    <3> QED
      BY <1>3, <1>5, <1>6, <2>1, <3>1
  <2>2. CASE ~(i <= consumed)
    <3>1. i - consumed \in 1..n /\ consumed + (i - consumed) = i
      BY <1>1, <1>2, <2>2
    <3> QED
      BY <1>4, <1>5, <1>6, <2>2, <3>1
  <2> QED
    BY <2>1, <2>2
<1>8. c = a \o b
  BY <1>5, <1>6, <1>7, SeqEqual
<1> QED
  BY <1>1, <1>2, <1>3, <1>4, <1>8 DEF a, b, c, Chunk

\* Lines are ready just while they are being handed out.
ReadyIsYielding == pc = "yielding" <=> ready # <<>>

LEMMA InitTypeOK == Init => TypeOK /\ ReadyIsYielding
<1> SUFFICES ASSUME Init PROVE TypeOK /\ ReadyIsYielding
  OBVIOUS
<1>2. output \in BoundedSeq([byte : Alphabet, from : Streams], MaxBytes)
  BY DEF Init
<1>3. PICK m \in 0..MaxBytes : output \in [1..m -> OutputBytes]
  BY <1>2, Zenon DEF BoundedSeq, SeqOf, OutputBytes
<1>4. output \in Seq(OutputBytes) /\ Len(output) \in Nat
  <2>1. m \in Nat
    BY LogAssumption
  <2>2. output \in Seq(OutputBytes)
    BY <1>3, <2>1
  <2> QED
    BY <2>2
<1>5. <<>> \in Texts /\ <<>> \in Seq(Texts)
  BY DEF Texts
<1>6. /\ consumed = 0 /\ pending = <<>> /\ ready = <<>> /\ lines = <<>>
      /\ pc = "reading" /\ cancelled = FALSE
  BY DEF Init
<1>7. consumed \in 0..Len(output)
  BY <1>4, <1>6
<1>8. output \in Seq([byte : Alphabet, from : Streams])
  BY <1>4 DEF OutputBytes
<1>9. pending \in Texts /\ ready \in Seq(Texts) /\ lines \in Seq(Texts)
  BY <1>5, <1>6
<1> QED
  BY <1>6, <1>7, <1>8, <1>9 DEF TypeOK, ReadyIsYielding

LEMMA StepTypeOK ==
    ASSUME TypeOK, ReadyIsYielding, [Next]_vars
    PROVE  TypeOK' /\ ReadyIsYielding'
<1>1. CASE ReadChunk
  <2>1. PICK n \in 1..BufferSize :
          LET drained == Drained(pending \o GetString(Chunk(n)))
          IN  /\ consumed + n <= Len(output)
              /\ consumed' = consumed + n
              /\ pending' = drained.rest
              /\ ready' = drained.lines
              /\ pc' = IF drained.lines = <<>> THEN "reading" ELSE "yielding"
    BY <1>1 DEF ReadChunk
  <2>2. Chunk(n) \in Seq(OutputBytes) /\ consumed + n \in 0..Len(output)
    BY <2>1, ChunkIsOutput
  <2>3. pending \o GetString(Chunk(n)) \in Texts
    BY <2>2, GetStringType DEF TypeOK, Texts
  <2>4. ready' \in Seq(Texts) /\ pending' \in Texts
    BY <2>1, <2>3, DrainedType DEF CompleteLines, Unfinished
  <2> QED
    BY <1>1, <2>1, <2>2, <2>4 DEF TypeOK, ReadChunk, ReadyIsYielding
<1>2. CASE YieldLine
  <2>1. ready # <<>> /\ ready \in Seq(Texts) /\ lines \in Seq(Texts)
    BY <1>2 DEF TypeOK, ReadyIsYielding, YieldLine
  <2>2. /\ Head(ready) \in Texts /\ Tail(ready) \in Seq(Texts)
        /\ (Len(ready) = 1 <=> Tail(ready) = <<>>)
    <3>1. /\ Head(ready) \in Texts /\ Tail(ready) \in Seq(Texts)
          /\ Len(Tail(ready)) = Len(ready) - 1 /\ Len(ready) \in Nat
      BY <2>1, HeadTailProperties
    <3>2. Len(Tail(ready)) = 0 <=> Tail(ready) = <<>>
      BY <3>1, EmptySeq
    <3> QED
      BY <3>1, <3>2
  <2>3. lines' \in Seq(Texts) /\ ready' \in Seq(Texts)
    BY <1>2, <2>1, <2>2 DEF YieldLine
  <2> QED
    BY <1>2, <2>2, <2>3 DEF TypeOK, YieldLine, ReadyIsYielding
<1>3. CASE Flush
  <2>1. lines' \in Seq(Texts)
    BY <1>3 DEF TypeOK, Flush
  <2> QED
    BY <1>3, <2>1 DEF TypeOK, Flush, LoopEnds, ReadyIsYielding
<1>4. CASE Await \/ ReadFails \/ Finish \/ Cancel \/ UNCHANGED vars
  BY <1>4 DEF TypeOK, Await, ReadFails, Finish, Cancel, vars, ReadyIsYielding
<1> QED
  BY <1>1, <1>2, <1>3, <1>4 DEF Next

-----------------------------------------------------------------------------
(***************************************************************************)
(* The inductive invariant                                                 *)
(***************************************************************************)

StreamInv == TypeOK /\ ReadyIsYielding /\ ChunksInvisible /\ EndDeliversAll

LEMMA InitStreamInv == Init => StreamInv
<1> SUFFICES ASSUME Init PROVE ChunksInvisible /\ EndDeliversAll
  BY InitTypeOK DEF StreamInv
<1>2. SubSeq(output, 1, 0) = <<>>
  BY SubSeqEmpty
<1>3. GetString(<<>>) = <<>>
  <2>1. <<>> \in Seq(OutputBytes) /\ Len(<<>>) = 0
    OBVIOUS
  <2>2. PICK f : DecodesUp(f, <<>>, 0) /\ GetString(<<>>) = f[0]
    BY <2>1, GetStringComputed
  <2> QED
    BY <2>2 DEF DecodesUp
<1>4. CompleteLines(<<>>) = <<>> /\ Unfinished(<<>>) = <<>>
  <2>1. <<>> \in Texts /\ Len(<<>>) = 0
    BY DEF Texts
  <2>2. LastLF(<<>>) = 0
    BY <2>1, LastLFIs
  <2> QED
    BY <2>2 DEF CompleteLines, Unfinished, Drained, LastLF
<1>5. SoFar = <<>>
  BY <1>2, <1>3 DEF Init, SoFar
<1> QED
  BY <1>4, <1>5 DEF Init, ChunksInvisible, EndDeliversAll

\* The hub's next chunk.
LEMMA ReadChunkStep ==
    ASSUME SingleByte, StreamInv, ReadChunk
    PROVE  ChunksInvisible'
<1>1. PICK n \in 1..BufferSize :
        /\ consumed + n <= Len(output)
        /\ consumed' = consumed + n
        /\ pending' = Unfinished(pending \o GetString(Chunk(n)))
        /\ ready' = CompleteLines(pending \o GetString(Chunk(n)))
  BY DEF ReadChunk, CompleteLines, Unfinished
<1>2. output' = output /\ lines' = lines /\ pc = "awaiting"
  BY DEF ReadChunk
<1>3. /\ Chunk(n) \in Seq(OutputBytes)
      /\ SubSeq(output, 1, consumed) \in Seq(OutputBytes)
      /\ SubSeq(output, 1, consumed + n) = SubSeq(output, 1, consumed) \o Chunk(n)
  BY <1>1, ChunkIsOutput DEF StreamInv
<1> DEFINE new == GetString(Chunk(n))
<1>4. SoFar' = SoFar \o new
  BY <1>1, <1>2, <1>3, GetStringConcat DEF SoFar
<1>5. SoFar \in Texts /\ new \in Texts
  BY <1>3, GetStringType DEF SoFar
<1>6. /\ ready = <<>> /\ lines \in Seq(Texts)
      /\ lines \o ready = CompleteLines(SoFar) /\ pending = Unfinished(SoFar)
  BY <1>2 DEF StreamInv, ReadyIsYielding, ChunksInvisible, TypeOK
<1>7. lines = CompleteLines(SoFar)
  BY <1>6
<1> HIDE DEF new
<1>8. /\ CompleteLines(SoFar \o new) = lines \o CompleteLines(pending \o new)
      /\ Unfinished(SoFar \o new) = Unfinished(pending \o new)
  BY <1>5, <1>6, <1>7, DrainedConcat
<1>9. /\ lines' \o ready' = CompleteLines(SoFar')
      /\ pending' = Unfinished(SoFar')
  BY <1>1, <1>2, <1>4, <1>8 DEF new
<1> QED
  BY <1>9 DEF ChunksInvisible

\* The hub pulls a line that was ready.
LEMMA YieldLineStep ==
    ASSUME StreamInv, YieldLine
    PROVE  ChunksInvisible'
<1>1. ready # <<>> /\ ready \in Seq(Texts) /\ lines \in Seq(Texts)
  BY DEF StreamInv, TypeOK, ReadyIsYielding, YieldLine
<1>2. Append(lines, Head(ready)) \o Tail(ready) = lines \o ready
  BY <1>1
<1>3. lines' \o ready' = lines \o ready /\ pending' = pending /\ SoFar' = SoFar
  BY <1>2 DEF YieldLine, SoFar
<1> QED
  BY <1>3 DEF StreamInv, YieldLine, ChunksInvisible

LEMMA StepStreamInv ==
    ASSUME SingleByte, StreamInv, [Next]_vars
    PROVE  StreamInv'
<1>1. TypeOK' /\ ReadyIsYielding'
  BY StepTypeOK DEF StreamInv
<1>2. CASE ReadChunk
  BY <1>1, <1>2, ReadChunkStep DEF StreamInv, EndDeliversAll, ReadChunk
<1>3. CASE YieldLine
  BY <1>1, <1>3, YieldLineStep DEF StreamInv, EndDeliversAll, YieldLine
<1>4. CASE Flush
  <2>1. /\ lines \in Seq(Texts) /\ pending \in Texts /\ ready = <<>>
        /\ lines \o ready = CompleteLines(SoFar) /\ pending = Unfinished(SoFar)
    BY <1>4 DEF StreamInv, TypeOK, ReadyIsYielding, ChunksInvisible, Flush, LoopEnds
  <2>2. lines = CompleteLines(SoFar) /\ lines \o <<>> = lines
        /\ lines \o <<pending>> = Append(lines, pending)
    BY <2>1
  <2>3. SoFar' = SoFar /\ pc' = "flushed"
        /\ lines' = IF pending # <<>> THEN Append(lines, pending) ELSE lines
    BY <1>4 DEF Flush, SoFar
  <2> QED
    BY <1>1, <2>1, <2>2, <2>3 DEF StreamInv, ChunksInvisible, EndDeliversAll
<1>5. CASE ReadFails \/ Finish
  BY <1>1, <1>5 DEF StreamInv, ReadFails, Finish, ChunksInvisible, EndDeliversAll
<1>6. CASE Await
  <2>1. SoFar' = SoFar /\ UNCHANGED <<lines, ready, pending>> /\ pc = "reading" /\ pc' = "awaiting"
    BY <1>6 DEF Await, SoFar
  <2> QED
    BY <1>1, <2>1 DEF StreamInv, ChunksInvisible, EndDeliversAll
<1>7. CASE Cancel \/ UNCHANGED vars
  <2>1. SoFar' = SoFar /\ UNCHANGED <<pc, lines, ready, pending>>
    BY <1>7 DEF Cancel, vars, SoFar
  <2> QED
    BY <1>1, <2>1 DEF StreamInv, ChunksInvisible, EndDeliversAll
<1> QED
  BY <1>2, <1>3, <1>4, <1>5, <1>6, <1>7 DEF Next

-----------------------------------------------------------------------------
(***************************************************************************)
(* The theorems                                                            *)
(***************************************************************************)

\* Whatever bytes arrive in whatever chunks, also halves of characters, pending text,
\* ready lines and handed out lines are texts, and lines are ready just while the hub is
\* pulling them.
THEOREM StreamTyping == Spec => [](TypeOK /\ ReadyIsYielding)
<1>1. TypeOK /\ ReadyIsYielding /\ [Next]_vars => (TypeOK /\ ReadyIsYielding)'
  BY StepTypeOK
<1> QED
  BY InitTypeOK, <1>1, PTL DEF Spec

\* The invariant holds throughout, if no character is more than one byte long.
THEOREM StreamInvariance == ASSUME SingleByte PROVE Spec => []StreamInv
<1>1. StreamInv /\ [Next]_vars => StreamInv'
  BY StepStreamInv
<1> QED
  BY InitStreamInv, <1>1, PTL DEF Spec

\* StreamLogsAsync and DrainLines: if no character of the output is more than one byte
\* long, the lines are those of the whole output, wherever it was cut into chunks.
THEOREM LinesAreTheOutputs == ASSUME SingleByte PROVE Spec => []ChunksInvisible
<1>1. StreamInv => ChunksInvisible
  BY DEF StreamInv
<1> QED
  BY <1>1, StreamInvariance, PTL

\* When StreamLogsAsync has left its loop, at the end of the output or cancelled between two
\* reads, the hub has been given every line of what was read, and the rest as a last line.
THEOREM NothingIsLeftBehind == ASSUME SingleByte PROVE Spec => []EndDeliversAll
<1>1. StreamInv => EndDeliversAll
  BY DEF StreamInv
<1> QED
  BY <1>1, StreamInvariance, PTL
=============================================================================
