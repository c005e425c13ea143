------------------------------ MODULE LinkProofs -----------------------------
(***************************************************************************)
(* Theorems about SendQueue and Link for every set of writers and of sizes, *)
(* every limit on the sends of a call and on the bytes of the queue, and any *)
(* number of messages: the bytes go out in the order of the messages, and   *)
(* what one process writes is what the other hands to its application, up   *)
(* to the first message whose rest ungetq drops.                            *)
(***************************************************************************)
EXTENDS Link, ParsePkgProofs, WellFoundedInduction

----------------------------------------------------------------------------
(* Sequences of sequences.                                                  *)

\* Induction on the numbers, for sets: the smallest number outside S would be the
\* successor of one inside.
LEMMA NatSet ==
  ASSUME NEW S \in SUBSET Nat, 0 \in S, \A n \in S : n + 1 \in S
  PROVE  S = Nat
<1> DEFINE R == {ss \in Nat \X Nat : ss[1] < ss[2]}
           T == Nat \ S
<1>1. IsWellFoundedOn(R, Nat)
  BY NatLessThanWellFounded DEF OpToRel
<1>2. SUFFICES ASSUME T # {} PROVE FALSE
  OBVIOUS
<1> HIDE DEF R
<1>3. PICK x \in T : \A y \in T : <<y, x>> \notin R
  <2>1. T \subseteq Nat
    OBVIOUS
  <2> QED  BY <1>1, <1>2, <2>1, WFMin
<1>4. x \in Nat /\ x \notin S /\ x # 0
  OBVIOUS
<1>5. x - 1 \in Nat /\ x = (x - 1) + 1
  BY <1>4
<1>6. x - 1 \notin S
  BY <1>4, <1>5
<1>7. <<x - 1, x>> \in R
  BY <1>4, <1>5 DEF R
<1> QED  BY <1>3, <1>5, <1>6, <1>7

\* g holds the concatenations of the first 1, 2, ... n members of ss.
IsFlat(g, ss, n) == \A i \in 1..n : g[i] = IF i = 1 THEN ss[i] ELSE g[i - 1] \o ss[i]

\* There is such a function, and FlattenSeq chooses one.
LEMMA FlatExists ==
  ASSUME NEW E, NEW ss \in Seq(Seq(E))
  PROVE  \E g \in [1..Len(ss) -> Seq(E)] : IsFlat(g, ss, Len(ss))
<1> DEFINE P(n) == n <= Len(ss) => \E g \in [1..n -> Seq(E)] : IsFlat(g, ss, n)
           A == {n \in Nat : P(n)}
<1>1. P(0)
  <2> DEFINE g == [i \in 1..0 |-> <<>>]
  <2>1. g \in [1..0 -> Seq(E)]
    OBVIOUS
  <2>2. IsFlat(g, ss, 0)
    BY DEF IsFlat
  <2> QED  BY <2>1, <2>2
<1>2. ASSUME NEW n \in Nat, P(n), n + 1 <= Len(ss)
      PROVE  \E g \in [1..(n + 1) -> Seq(E)] : IsFlat(g, ss, n + 1)
  <2>1. PICK g \in [1..n -> Seq(E)] : IsFlat(g, ss, n)
    BY <1>2
  <2> DEFINE h == [i \in 1..(n + 1) |-> IF i <= n THEN g[i]
                      ELSE IF i = 1 THEN ss[i] ELSE g[i - 1] \o ss[i]]
  <2>2. ASSUME NEW i \in 1..(n + 1) PROVE h[i] \in Seq(E)
    <3>1. ss[i] \in Seq(E)
      BY <1>2
    <3>2. CASE i <= n  BY <3>2
    <3>3. CASE i = n + 1 /\ i = 1  BY <3>1, <3>3
    <3>4. CASE i = n + 1 /\ i # 1
      <4>1. g[i - 1] \in Seq(E)
        BY <3>4
      <4> QED  BY <3>1, <3>4, <4>1, ConcatProperties
    <3> QED  BY <3>2, <3>3, <3>4
  <2>3. ASSUME NEW i \in 1..(n + 1)
        PROVE  h[i] = IF i = 1 THEN ss[i] ELSE h[i - 1] \o ss[i]
    <3>1. CASE i <= n
      <4>1. h[i] = g[i] /\ (i # 1 => h[i - 1] = g[i - 1])
        BY <3>1
      <4>2. i \in 1..n
        BY <3>1
      <4>3. g[i] = IF i = 1 THEN ss[i] ELSE g[i - 1] \o ss[i]
        <5> HIDE DEF h
        <5> QED  BY <2>1, <4>2 DEF IsFlat
      <4> HIDE DEF h
      <4> QED  BY <4>1, <4>3
    <3>2. CASE i = n + 1
      <4>1. i # 1 => h[i - 1] = g[i - 1]
        BY <3>2
      <4>2. h[i] = IF i = 1 THEN ss[i] ELSE g[i - 1] \o ss[i]
        BY <3>2
      <4> HIDE DEF h
      <4> QED  BY <4>1, <4>2
    <3> QED  BY <3>1, <3>2
  <2>4. h \in [1..(n + 1) -> Seq(E)]
    BY <2>2
  <2> HIDE DEF h
  <2> QED  BY <2>3, <2>4 DEF IsFlat
<1>3. A = Nat
  <2>1. 0 \in A  BY <1>1
  <2>2. \A n \in A : n + 1 \in A  BY <1>2
  <2> HIDE DEF A
  <2>3. A \subseteq Nat  BY DEF A
  <2> QED  BY <2>1, <2>2, <2>3, NatSet
<1> QED  BY <1>3

LEMMA FlattenIsFlat ==
  ASSUME NEW E, NEW ss \in Seq(Seq(E)), ss # <<>>
  PROVE  \E g \in [1..Len(ss) -> Seq(E)] : IsFlat(g, ss, Len(ss)) /\ FlattenSeq(ss) = g[Len(ss)]
<1> DEFINE Q(g) == g = [i \in 1..Len(ss) |-> IF i = 1 THEN ss[i] ELSE g[i - 1] \o ss[i]]
           c == CHOOSE g : Q(g)
<1>1. PICK g \in [1..Len(ss) -> Seq(E)] : IsFlat(g, ss, Len(ss))
  BY FlatExists
<1>2. Q(g)
  BY <1>1 DEF IsFlat
<1>3. Q(c)
  <2> HIDE DEF Q
  <2> QED  BY <1>2
<1>4. FlattenSeq(ss) = c[Len(ss)]
  BY DEF FlattenSeq
<1>5. ASSUME NEW i \in 1..Len(ss)
      PROVE  c[i] = IF i = 1 THEN ss[i] ELSE c[i - 1] \o ss[i]
  BY <1>3
<1>6. \A n \in 0..Len(ss) : \A i \in 1..n : c[i] \in Seq(E)
  <2> DEFINE A == {n \in Nat : n <= Len(ss) => \A i \in 1..n : c[i] \in Seq(E)}
  <2> HIDE DEF c
  <2>1. 0 \in A
    OBVIOUS
  <2>2. ASSUME NEW n \in A PROVE n + 1 \in A
    <3>1. CASE n + 1 <= Len(ss)
      <4>1. n + 1 \in 1..Len(ss) /\ ss[n + 1] \in Seq(E)
        BY <3>1
      <4>2. \A i \in 1..n : c[i] \in Seq(E)
        BY <3>1
      <4>3. CASE n = 0
        BY <4>1, <4>2, <4>3, <1>5
      <4>4. CASE n # 0
        <5>1. c[n + 1] = c[(n + 1) - 1] \o ss[n + 1]
          <6>1. n + 1 # 1
            BY <4>4
          <6> HIDE DEF A, Q
          <6> QED  BY <4>1, <6>1, <1>5
        <5>3. (n + 1) - 1 = n /\ n \in 1..n
          BY <4>4
        <5>4. c[n + 1] = c[n] \o ss[n + 1] /\ c[n] \in Seq(E)
          BY <5>1, <5>3, <4>2
        <5>2. c[n + 1] \in Seq(E)
          BY <5>4, <4>1, ConcatProperties
        <5> QED  BY <4>2, <5>2
      <4> QED  BY <4>3, <4>4
    <3> QED  BY <3>1
  <2> HIDE DEF A
  <2>3. A \subseteq Nat  BY DEF A
  <2>4. A = Nat  BY <2>1, <2>2, <2>3, NatSet
  <2>5. \A n \in Nat : n <= Len(ss) => \A i \in 1..n : c[i] \in Seq(E)
    BY <2>4 DEF A
  <2> QED  BY <2>5
<1> DEFINE f == [i \in 1..Len(ss) |-> c[i]]
<1>7. f \in [1..Len(ss) -> Seq(E)]
  <2>1. \A i \in 1..Len(ss) : c[i] \in Seq(E)
    <3> HIDE DEF c
    <3>1. Len(ss) \in 0..Len(ss)
      OBVIOUS
    <3> QED  BY <1>6, <3>1
  <2> HIDE DEF c
  <2> QED  BY <2>1
<1>8. IsFlat(f, ss, Len(ss))
  <2>1. ASSUME NEW i \in 1..Len(ss)
        PROVE  f[i] = IF i = 1 THEN ss[i] ELSE f[i - 1] \o ss[i]
    <3>1. f[i] = c[i] /\ (i # 1 => f[i - 1] = c[i - 1])
      <4> HIDE DEF c
      <4> QED  OBVIOUS
    <3> HIDE DEF f, c
    <3> QED  BY <3>1, <1>5
  <2> HIDE DEF f
  <2> QED  BY <2>1 DEF IsFlat
<1>9. f[Len(ss)] = c[Len(ss)]
  <2> HIDE DEF c
  <2> QED BY EmptySeq
<1> HIDE DEF f
<1> QED  BY <1>4, <1>7, <1>8, <1>9

\* Two functions agree on 1..n; what holds the concatenations is unique.
Agree(ss, tt, n) == \A i \in 1..n : ss[i] = tt[i]

LEMMA FlatUnique ==
  ASSUME NEW g, NEW h, NEW ss, NEW tt, NEW n \in Nat,
         IsFlat(g, ss, n), IsFlat(h, tt, n), Agree(ss, tt, n)
  PROVE  Agree(g, h, n)
<1> DEFINE A == {m \in Nat : m \in 1..n => g[m] = h[m]}
<1>1. 0 \in A
  OBVIOUS
<1>2. ASSUME NEW m \in A PROVE m + 1 \in A
  <2>1. CASE m + 1 \in 1..n
    <3>1. /\ g[m + 1] = IF m + 1 = 1 THEN ss[m + 1] ELSE g[(m + 1) - 1] \o ss[m + 1]
          /\ h[m + 1] = IF m + 1 = 1 THEN tt[m + 1] ELSE h[(m + 1) - 1] \o tt[m + 1]
      BY <2>1 DEF IsFlat
    <3>2. m \in Nat /\ (m + 1) - 1 = m /\ (m + 1 # 1 => m \in 1..n) /\ ss[m + 1] = tt[m + 1]
      BY <2>1 DEF Agree
    <3>3. g[m + 1] = h[m + 1]
      BY <3>1, <3>2
    <3> QED  BY <3>2, <3>3
  <2> QED  BY <2>1
<1>3. A \subseteq Nat
  OBVIOUS
<1> HIDE DEF A
<1>4. A = Nat
  BY <1>1, <1>2, <1>3, NatSet
<1> QED  BY <1>4 DEF A, Agree

\* The concatenation of a sequence of sequences, read from its ends.
LEMMA FlattenEmpty == FlattenSeq(<<>>) = <<>>
BY DEF FlattenSeq

LEMMA FlattenType ==
  ASSUME NEW E, NEW ss \in Seq(Seq(E))
  PROVE  FlattenSeq(ss) \in Seq(E)
<1>1. CASE ss = <<>>
  <2>1. FlattenSeq(ss) = ss
    BY <1>1, FlattenEmpty
  <2>2. ss \in Seq(E)
    BY <1>1
  <2> QED  BY <2>1, <2>2
<1>2. CASE ss # <<>>
  <2>1. PICK g \in [1..Len(ss) -> Seq(E)] : FlattenSeq(ss) = g[Len(ss)]
    BY <1>2, FlattenIsFlat
  <2>2. Len(ss) \in 1..Len(ss)
    BY <1>2, EmptySeq
  <2> QED  BY <2>1, <2>2
<1> QED  BY <1>1, <1>2

LEMMA FlattenAppend ==
  ASSUME NEW E, NEW ss \in Seq(Seq(E)), NEW s \in Seq(E)
  PROVE  FlattenSeq(Append(ss, s)) = FlattenSeq(ss) \o s
<1> DEFINE n == Len(ss)
           tt == Append(ss, s)
<1>1. /\ tt \in Seq(Seq(E)) /\ Len(tt) = n + 1 /\ tt[n + 1] = s /\ tt # <<>>
      /\ \A i \in 1..n : tt[i] = ss[i]
  BY AppendProperties
<1>2. n \in Nat
  OBVIOUS
<1> HIDE DEF tt
<1>3. PICK h \in [1..Len(tt) -> Seq(E)] :
        IsFlat(h, tt, Len(tt)) /\ FlattenSeq(tt) = h[Len(tt)]
  BY <1>1, FlattenIsFlat
<1>4. CASE ss = <<>>
  <2>1. n = 0
    BY <1>4
  <2>2. h[1] = tt[1]
    BY <1>1, <1>3, <2>1 DEF IsFlat
  <2>3. FlattenSeq(tt) = s
    BY <1>1, <1>3, <2>1, <2>2
  <2> HIDE DEF n
  <2> QED  BY <1>4, <2>3, FlattenEmpty, ConcatEmptySeq DEF tt
<1>5. CASE ss # <<>>
  <2>1. PICK g \in [1..n -> Seq(E)] : IsFlat(g, ss, n) /\ FlattenSeq(ss) = g[n]
    BY <1>5, FlattenIsFlat
  <2>2. n # 0
    BY <1>5, EmptySeq
  <2> HIDE DEF n
  <2>3. IsFlat(h, tt, n)
    <3>1. 1..n \subseteq 1..Len(tt)
      BY <1>1, <1>2
    <3> QED  BY <1>3, <3>1 DEF IsFlat
  <2>4. g[n] = h[n]
    <3>1. Agree(ss, tt, n)
      BY <1>1 DEF Agree
    <3>2. Agree(g, h, n)
      BY <1>2, <2>1, <2>3, <3>1, FlatUnique
    <3> QED  BY <1>2, <2>2, <3>2 DEF Agree
  <2>5. h[n + 1] = h[(n + 1) - 1] \o tt[n + 1]
    <3>1. n + 1 \in 1..Len(tt) /\ n + 1 # 1
      BY <1>1, <1>2, <2>2
    <3> QED  BY <1>3, <3>1 DEF IsFlat
  <2>6. (n + 1) - 1 = n
    BY <1>2
  <2> QED  BY <1>1, <1>3, <2>1, <2>4, <2>5, <2>6 DEF tt
<1> QED  BY <1>4, <1>5

LEMMA FlattenCons ==
  ASSUME NEW E, NEW ss \in Seq(Seq(E)), NEW s \in Seq(E)
  PROVE  FlattenSeq(<<s>> \o ss) = s \o FlattenSeq(ss)
<1> DEFINE n == Len(ss)
           tt == <<s>> \o ss
<1>1. /\ tt \in Seq(Seq(E)) /\ Len(tt) = n + 1 /\ tt[1] = s /\ tt # <<>>
      /\ \A i \in 1..n : tt[i + 1] = ss[i]
  <2> DEFINE one == <<s>>
  <2>1. one \in Seq(Seq(E)) /\ Len(one) = 1 /\ one[1] = s
    OBVIOUS
  <2> HIDE DEF one
  <2>2. /\ one \o ss \in Seq(Seq(E)) /\ Len(one \o ss) = Len(one) + n
        /\ \A i \in 1..(Len(one) + n) :
              (one \o ss)[i] = IF i <= Len(one) THEN one[i] ELSE ss[i - Len(one)]
    BY <2>1, ConcatProperties
  <2>3. (one \o ss)[1] = s /\ \A i \in 1..n : (one \o ss)[i + 1] = ss[i]
    BY <2>1, <2>2
  <2>4. one \o ss # <<>>
    BY <2>1, <2>2, EmptySeq
  <2>5. Len(one \o ss) = n + 1
    BY <2>1, <2>2
  <2> QED  BY <2>2, <2>3, <2>4, <2>5 DEF one
<1>2. n \in Nat
  OBVIOUS
<1> HIDE DEF tt
<1>3. PICK h \in [1..Len(tt) -> Seq(E)] :
        IsFlat(h, tt, Len(tt)) /\ FlattenSeq(tt) = h[Len(tt)]
  BY <1>1, FlattenIsFlat
<1>4. h[1] = s
  BY <1>1, <1>2, <1>3 DEF IsFlat
<1>5. CASE ss = <<>>
  <2>1. n = 0
    BY <1>5
  <2>2. FlattenSeq(tt) = s
    BY <1>1, <1>3, <1>4, <2>1
  <2> HIDE DEF n
  <2> QED  BY <1>5, <2>2, FlattenEmpty, ConcatEmptySeq DEF tt
<1>6. CASE ss # <<>>
  <2>1. PICK g \in [1..n -> Seq(E)] : IsFlat(g, ss, n) /\ FlattenSeq(ss) = g[n]
    BY <1>6, FlattenIsFlat
  <2>2. n # 0
    BY <1>6, EmptySeq
  <2> DEFINE A == {m \in Nat : m \in 1..n => h[m + 1] = s \o g[m]}
  <2> HIDE DEF n
  <2>3. 0 \in A
    OBVIOUS
  <2>4. ASSUME NEW m \in A PROVE m + 1 \in A
    <3>1. CASE m + 1 \in 1..n
      <4> DEFINE k == m + 1
      <4>1. m \in Nat /\ k \in 1..n /\ k + 1 \in 1..Len(tt) /\ k + 1 # 1 /\ (k + 1) - 1 = k
        BY <1>1, <1>2, <3>1
      <4>2. h[k + 1] = h[k] \o ss[k]
        <5> HIDE DEF k, A
        <5>1. h[k + 1] = h[(k + 1) - 1] \o tt[k + 1]
          BY <1>3, <4>1 DEF IsFlat
        <5> QED  BY <1>1, <4>1, <5>1
      <4>3. CASE m = 0
        <5>1. k = 1
          BY <4>3
        <5>2. g[1] = ss[1]
          BY <2>1, <4>1, <5>1 DEF IsFlat
        <5>3. h[k + 1] = s \o g[k]
          <6> HIDE DEF k, A
          <6> QED  BY <1>4, <4>2, <5>1, <5>2
        <5> QED  BY <4>1, <5>3
      <4>4. CASE m # 0
        <5>1. m \in 1..n /\ k - 1 = m /\ k # 1
          <6> HIDE DEF A
          <6> QED  BY <4>1, <4>4, <1>2
        <5>2. h[k] = s \o g[m]
          BY <5>1
        <5>3. g[k] = g[m] \o ss[k]
          <6> HIDE DEF k, A
          <6> QED  BY <2>1, <4>1, <5>1 DEF IsFlat
        <5>4. h[k + 1] = s \o g[k]
          <6> HIDE DEF k, A
          <6>1. g[m] \in Seq(E)
            BY <2>1, <5>1
          <6>3. ss[k] \in Seq(E)
            BY <4>1 DEF n
          <6>2. \A u \in Seq(E) : \A v \in Seq(E) : (s \o u) \o v = s \o (u \o v)
            BY ConcatAssociative
          <6>4. (s \o g[m]) \o ss[k] = s \o (g[m] \o ss[k])
            BY <6>1, <6>2, <6>3
          <6> QED  BY <4>2, <5>2, <5>3, <6>4
        <5> QED  BY <4>1, <5>4
      <4> QED  BY <4>3, <4>4
    <3> QED  BY <3>1
  <2>5. A \subseteq Nat
    OBVIOUS
  <2> HIDE DEF A
  <2>6. A = Nat
    BY <2>3, <2>4, <2>5, NatSet
  <2>7. h[n + 1] = s \o g[n]
    <3>1. \A m \in Nat : m \in 1..n => h[m + 1] = s \o g[m]
      BY <2>6 DEF A
    <3> QED  BY <1>2, <2>2, <3>1
  <2> QED  BY <1>1, <1>3, <2>1, <2>7 DEF tt
<1> QED  BY <1>5, <1>6

\* Putting an element in front.
LEMMA PutInFront ==
  ASSUME NEW E, NEW e \in E, NEW q \in Seq(E)
  PROVE  /\ <<e>> \o q \in Seq(E) /\ Len(<<e>> \o q) = Len(q) + 1
         /\ (<<e>> \o q)[1] = e
         /\ \A n \in 1..Len(q) : (<<e>> \o q)[n + 1] = q[n]
<1> DEFINE one == <<e>>
<1>1. one \in Seq(E) /\ Len(one) = 1 /\ one[1] = e
  OBVIOUS
<1> HIDE DEF one
<1>2. /\ one \o q \in Seq(E) /\ Len(one \o q) = Len(one) + Len(q)
      /\ \A i \in 1..(Len(one) + Len(q)) :
            (one \o q)[i] = IF i <= Len(one) THEN one[i] ELSE q[i - Len(one)]
  BY <1>1, ConcatProperties
<1>3. (one \o q)[1] = e /\ \A i \in 1..Len(q) : (one \o q)[i + 1] = q[i]
  BY <1>1, <1>2
<1>4. Len(one \o q) = Len(q) + 1
  BY <1>1, <1>2
<1> QED  BY <1>2, <1>3, <1>4 DEF one

\* IsPrefix, element by element.
LEMMA PrefixByElement ==
  ASSUME NEW E, NEW s \in Seq(E), NEW t \in Seq(E)
  PROVE  IsPrefix(s, t) <=> Len(s) <= Len(t) /\ \A i \in 1..Len(s) : t[i] = s[i]
<1> DEFINE n == Len(s)
           a == SubSeq(s, 1, n)
           b == SubSeq(t, 1, n)
<1>1. n \in Nat /\ Len(t) \in Nat
  OBVIOUS
<1>2. /\ a \in Seq(E) /\ Len(a) = n /\ \A i \in 1..n : a[i] = s[i]
  <2>1. /\ a \in Seq(E)
        /\ Len(a) = IF 1 <= n THEN n - 1 + 1 ELSE 0
        /\ \A i \in 1..(n - 1 + 1) : a[i] = s[1 + i - 1]
    BY <1>1, SubSeqProperties
  <2> HIDE DEF a, n
  <2>2. Len(a) = n
    BY <1>1, <2>1
  <2>3. \A i \in 1..n : i \in 1..(n - 1 + 1) /\ 1 + i - 1 = i
    BY <1>1
  <2> QED  BY <2>1, <2>2, <2>3
<1>3. ASSUME n <= Len(t)
      PROVE  /\ b \in Seq(E) /\ Len(b) = n /\ \A i \in 1..n : b[i] = t[i]
  <2>1. /\ b \in Seq(E)
        /\ Len(b) = IF 1 <= n THEN n - 1 + 1 ELSE 0
        /\ \A i \in 1..(n - 1 + 1) : b[i] = t[1 + i - 1]
    BY <1>1, <1>3, SubSeqProperties
  <2> HIDE DEF b, n
  <2>2. Len(b) = n
    BY <1>1, <2>1
  <2>3. \A i \in 1..n : i \in 1..(n - 1 + 1) /\ 1 + i - 1 = i
    BY <1>1
  <2> QED  BY <2>1, <2>2, <2>3
<1>4. IsPrefix(s, t) <=> n <= Len(t) /\ a = b
  BY DEF IsPrefix
<1> HIDE DEF n, a, b
<1>5. ASSUME n <= Len(t), \A i \in 1..n : t[i] = s[i] PROVE a = b
  BY <1>2, <1>3, <1>5, SeqEqual
<1> QED  BY <1>2, <1>3, <1>4, <1>5 DEF n

----------------------------------------------------------------------------
(* The messages as bytes.                                                   *)

\* Messages of which something is left to send.
Waiting == {m \in Msg : Rest(m) > 0}
WireByte == {b \in [id : 1..MaxMsgs, size : Sizes, pos : Nat] : b.pos \in 1..b.size}

LEMMA MsgFields ==
  ASSUME NEW m \in Msg
  PROVE  /\ m.id \in 1..MaxMsgs /\ m.size \in Sizes /\ m.size \in Nat /\ m.off \in Nat
         /\ Rest(m) \in Int /\ Rest(m) = m.size - m.off
<1>1. m.id \in 1..MaxMsgs /\ m.size \in Sizes /\ m.off \in Nat
  BY DEF Msg
<1>2. m.size \in Nat
  BY <1>1, SizesAssumption
<1> QED  BY <1>1, <1>2 DEF Rest

LEMMA BytesOf ==
  ASSUME NEW m \in Waiting
  PROVE  /\ Bytes(m) \in Seq(WireByte) /\ Rest(m) \in Nat /\ Len(Bytes(m)) = Rest(m)
         /\ \A k \in 1..Rest(m) :
              Bytes(m)[k] = [id |-> m.id, size |-> m.size, pos |-> m.off + k]
<1>1. m \in Msg /\ Rest(m) \in Nat
  BY MsgFields DEF Waiting
<1>2. ASSUME NEW k \in 1..Rest(m)
      PROVE  [id |-> m.id, size |-> m.size, pos |-> m.off + k] \in WireByte
  <2>1. m.off + k \in 1..m.size
    BY <1>1, MsgFields
  <2>2. m.off + k \in Nat
    BY <1>1, MsgFields
  <2> QED  BY <1>1, <2>1, <2>2, MsgFields DEF WireByte
<1>3. Bytes(m) \in [1..Rest(m) -> WireByte]
  BY <1>2 DEF Bytes
<1>4. Bytes(m) \in Seq(WireByte) /\ Len(Bytes(m)) = Rest(m)
  BY <1>1, <1>3, SeqDef, LenProperties
<1> QED  BY <1>1, <1>4 DEF Bytes

LEMMA NoBytes == Bytes(NoMsg) = <<>>
BY DEF Bytes, Rest, NoMsg

\* What AllBytes concatenates.
Parts(q) == [n \in DOMAIN q |-> Bytes(q[n])]

LEMMA PartsType ==
  ASSUME NEW q \in Seq(Waiting)
  PROVE  /\ Parts(q) \in Seq(Seq(WireByte)) /\ Len(Parts(q)) = Len(q)
         /\ \A n \in 1..Len(q) : Parts(q)[n] = Bytes(q[n])
         /\ AllBytes(q) = FlattenSeq(Parts(q))
         /\ AllBytes(q) \in Seq(WireByte)
<1>1. DOMAIN q = 1..Len(q) /\ Len(q) \in Nat
  OBVIOUS
<1>2. \A n \in 1..Len(q) : Bytes(q[n]) \in Seq(WireByte)
  BY BytesOf, ElementOfSeq
<1>3. Parts(q) \in [1..Len(q) -> Seq(WireByte)]
  BY <1>1, <1>2 DEF Parts
<1>4. Parts(q) \in Seq(Seq(WireByte)) /\ Len(Parts(q)) = Len(q)
  BY <1>1, <1>3, SeqDef, LenProperties
<1>5. AllBytes(q) = FlattenSeq(Parts(q))
  BY DEF AllBytes, Parts
<1> QED  BY <1>1, <1>4, <1>5, FlattenType DEF Parts

LEMMA AllBytesEmpty == AllBytes(<<>>) = <<>>
<1>1. Parts(<<>>) = <<>>
  BY DEF Parts
<1> QED  BY <1>1, FlattenEmpty DEF AllBytes, Parts

LEMMA AllBytesAppend ==
  ASSUME NEW q \in Seq(Waiting), NEW m \in Waiting
  PROVE  AllBytes(Append(q, m)) = AllBytes(q) \o Bytes(m)
<1> DEFINE r == Append(q, m)
           u == Append(Parts(q), Bytes(m))
<1>1. /\ r \in Seq(Waiting) /\ Len(r) = Len(q) + 1 /\ r[Len(q) + 1] = m
      /\ \A n \in 1..Len(q) : r[n] = q[n]
  BY AppendProperties
<1>2. /\ Parts(q) \in Seq(Seq(WireByte)) /\ Bytes(m) \in Seq(WireByte)
      /\ Len(Parts(q)) = Len(q) /\ Len(q) \in Nat
  BY PartsType, BytesOf
<1>3. /\ u \in Seq(Seq(WireByte)) /\ Len(u) = Len(q) + 1 /\ u[Len(q) + 1] = Bytes(m)
      /\ \A n \in 1..Len(q) : u[n] = Parts(q)[n]
  BY <1>2, AppendProperties
<1> HIDE DEF r, u
<1>4. /\ Parts(r) \in Seq(Seq(WireByte)) /\ Len(Parts(r)) = Len(r)
      /\ \A n \in 1..Len(r) : Parts(r)[n] = Bytes(r[n])
  BY <1>1, PartsType
<1>5. ASSUME NEW n \in 1..Len(u) PROVE Parts(r)[n] = u[n]
  <2>1. CASE n \in 1..Len(q)
    BY <1>1, <1>2, <1>3, <1>4, <2>1, PartsType
  <2>2. CASE n = Len(q) + 1
    BY <1>1, <1>2, <1>3, <1>4, <2>2
  <2> QED  BY <1>2, <1>3, <2>1, <2>2
<1>6. Parts(r) = u
  BY <1>1, <1>3, <1>4, <1>5, SeqEqual
<1>7. FlattenSeq(u) = FlattenSeq(Parts(q)) \o Bytes(m)
  BY <1>2, FlattenAppend DEF u
<1> QED  BY <1>1, <1>6, <1>7, PartsType DEF r

LEMMA AllBytesCons ==
  ASSUME NEW q \in Seq(Waiting), NEW m \in Waiting
  PROVE  <<m>> \o q \in Seq(Waiting) /\ AllBytes(<<m>> \o q) = Bytes(m) \o AllBytes(q)
<1> DEFINE r == <<m>> \o q
           u == <<Bytes(m)>> \o Parts(q)
<1>2. /\ Parts(q) \in Seq(Seq(WireByte)) /\ Bytes(m) \in Seq(WireByte)
      /\ Len(Parts(q)) = Len(q) /\ Len(q) \in Nat
  BY PartsType, BytesOf
<1>1. /\ r \in Seq(Waiting) /\ Len(r) = Len(q) + 1 /\ r[1] = m
      /\ \A n \in 1..Len(q) : r[n + 1] = q[n]
  BY PutInFront
<1>3. /\ u \in Seq(Seq(WireByte)) /\ Len(u) = Len(q) + 1 /\ u[1] = Bytes(m)
      /\ \A n \in 1..Len(q) : u[n + 1] = Parts(q)[n]
  BY <1>2, PutInFront
<1> HIDE DEF r, u
<1>4. /\ Parts(r) \in Seq(Seq(WireByte)) /\ Len(Parts(r)) = Len(r)
      /\ \A n \in 1..Len(r) : Parts(r)[n] = Bytes(r[n])
  BY <1>1, PartsType
<1>5. ASSUME NEW n \in 1..Len(u) PROVE Parts(r)[n] = u[n]
  <2>1. CASE n = 1
    BY <1>1, <1>2, <1>3, <1>4, <2>1
  <2>2. CASE n # 1
    <3>1. PICK k \in 1..Len(q) : n = k + 1
      <4>1. n - 1 \in 1..Len(q) /\ n = (n - 1) + 1
        BY <1>2, <1>3, <2>2
      <4> QED  BY <4>1
    <3>2. Parts(r)[n] = Bytes(q[k])
      BY <1>1, <1>3, <1>4, <3>1
    <3> QED  BY <1>3, <3>1, <3>2, PartsType
  <2> QED  BY <2>1, <2>2
<1>6. Parts(r) = u
  BY <1>1, <1>3, <1>4, <1>5, SeqEqual
<1>7. FlattenSeq(u) = Bytes(m) \o FlattenSeq(Parts(q))
  BY <1>2, FlattenCons DEF u
<1> QED  BY <1>1, <1>6, <1>7, PartsType DEF r

LEMMA SplitBytes ==
  ASSUME NEW m \in Waiting, NEW k \in Nat, 1 <= k, k < Rest(m)
  PROVE  LET r == [m EXCEPT !.off = @ + k]
         IN  /\ r \in Waiting
             /\ SubSeq(Bytes(m), 1, k) \in Seq(WireByte)
             /\ SubSeq(Bytes(m), 1, k) \o Bytes(r) = Bytes(m)
<1> DEFINE r == [m EXCEPT !.off = @ + k]
           b == Bytes(m)
           front == SubSeq(b, 1, k)
<1>1. /\ b \in Seq(WireByte) /\ Rest(m) \in Nat /\ Len(b) = Rest(m)
      /\ \A j \in 1..Rest(m) : b[j] = [id |-> m.id, size |-> m.size, pos |-> m.off + j]
  BY BytesOf
<1>2. m \in Msg
  BY DEF Waiting
<1>3. r.id = m.id /\ r.size = m.size /\ r.off = m.off + k /\ r \in Msg
  <2>1. m.off + k \in Nat
    BY <1>2, MsgFields
  <2> QED  BY <1>2, <2>1 DEF Msg
<1> HIDE DEF r, b
<1>4. Rest(r) = Rest(m) - k /\ Rest(r) > 0
  BY <1>1, <1>2, <1>3, MsgFields DEF Rest
<1>5. r \in Waiting
  BY <1>3, <1>4 DEF Waiting
<1>6. /\ Bytes(r) \in Seq(WireByte) /\ Len(Bytes(r)) = Rest(r) /\ Rest(r) \in Nat
      /\ \A j \in 1..Rest(r) :
           Bytes(r)[j] = [id |-> m.id, size |-> m.size, pos |-> (m.off + k) + j]
  BY <1>3, <1>5, BytesOf
<1>7. /\ front \in Seq(WireByte) /\ Len(front) = k
      /\ \A j \in 1..k : front[j] = b[j]
  <2>1. /\ front \in Seq(WireByte)
        /\ Len(front) = IF 1 <= k THEN k - 1 + 1 ELSE 0
        /\ \A j \in 1..(k - 1 + 1) : front[j] = b[1 + j - 1]
    BY <1>1, SubSeqProperties
  <2>2. \A j \in 1..k : j \in 1..(k - 1 + 1) /\ 1 + j - 1 = j
    OBVIOUS
  <2>3. Len(front) = k
    BY <2>1
  <2> HIDE DEF front
  <2> QED  BY <2>1, <2>2, <2>3
<1> HIDE DEF front
<1> DEFINE c == front \o Bytes(r)
<1>8. /\ c \in Seq(WireByte) /\ Len(c) = k + Rest(r)
      /\ \A j \in 1..(k + Rest(r)) :
           c[j] = IF j <= k THEN front[j] ELSE Bytes(r)[j - k]
  <2>1. /\ c \in Seq(WireByte) /\ Len(c) = Len(front) + Len(Bytes(r))
        /\ \A j \in 1..(Len(front) + Len(Bytes(r))) :
             c[j] = IF j <= Len(front) THEN front[j] ELSE Bytes(r)[j - Len(front)]
    BY <1>6, <1>7, ConcatProperties
  <2> HIDE DEF c
  <2> QED  BY <1>6, <1>7, <2>1
<1> HIDE DEF c
<1>9. Len(c) = Len(b)
  BY <1>1, <1>4, <1>8
<1>10. ASSUME NEW j \in 1..Len(c) PROVE c[j] = b[j]
  <2>1. j \in Nat /\ j \in 1..(k + Rest(r)) /\ j \in 1..Rest(m)
    BY <1>1, <1>4, <1>8, <1>9
  <2>2. CASE j <= k
    BY <1>7, <1>8, <2>1, <2>2
  <2>3. CASE j > k
    <3>1. j - k \in 1..Rest(r) /\ m.off \in Nat
      BY <1>2, <1>4, <2>1, <2>3, MsgFields
    <3>2. (m.off + k) + (j - k) = m.off + j
      BY <2>1, <3>1
    <3>3. c[j] = Bytes(r)[j - k]
      BY <1>8, <2>1, <2>3
    <3> QED  BY <1>1, <1>6, <2>1, <3>1, <3>2, <3>3
  <2> QED  BY <2>1, <2>2, <2>3
<1>11. c = b
  BY <1>1, <1>8, <1>9, <1>10, SeqEqual
<1> QED  BY <1>5, <1>7, <1>11 DEF c, r, b, front

LEMMA PrefixOfItself ==
  ASSUME NEW E, NEW s \in Seq(E)
  PROVE  IsPrefix(s, s)
BY DEF IsPrefix

\* A prefix stays one when something is appended.
LEMMA PrefixOf ==
  ASSUME NEW E, NEW s \in Seq(E), NEW t \in Seq(E)
  PROVE  IsPrefix(s, s \o t)
<1> DEFINE c == s \o t
<1>1. /\ c \in Seq(E) /\ Len(c) = Len(s) + Len(t)
      /\ \A i \in 1..(Len(s) + Len(t)) : c[i] = IF i <= Len(s) THEN s[i] ELSE t[i - Len(s)]
  BY ConcatProperties
<1>2. Len(s) \in Nat /\ Len(t) \in Nat
  OBVIOUS
<1> HIDE DEF c
<1>3. Len(s) <= Len(c) /\ \A i \in 1..Len(s) : c[i] = s[i]
  BY <1>1, <1>2
<1> QED  BY <1>1, <1>3, PrefixByElement DEF c

LEMMA PrefixExtends ==
  ASSUME NEW E, NEW s \in Seq(E), NEW t \in Seq(E), NEW u \in Seq(E), IsPrefix(s, t)
  PROVE  IsPrefix(s, t \o u)
<1> DEFINE c == t \o u
<1>1. /\ c \in Seq(E) /\ Len(c) = Len(t) + Len(u)
      /\ \A i \in 1..(Len(t) + Len(u)) : c[i] = IF i <= Len(t) THEN t[i] ELSE u[i - Len(t)]
  BY ConcatProperties
<1>2. Len(s) \in Nat /\ Len(t) \in Nat /\ Len(u) \in Nat
  OBVIOUS
<1>3. Len(s) <= Len(t) /\ \A i \in 1..Len(s) : t[i] = s[i]
  BY PrefixByElement
<1> HIDE DEF c
<1>4. Len(s) <= Len(c) /\ \A i \in 1..Len(s) : c[i] = s[i]
  BY <1>1, <1>2, <1>3
<1> QED  BY <1>1, <1>4, PrefixByElement DEF c

\* An element of a concatenation of three comes from the outer two, or the middle one.
LEMMA WithoutMiddle ==
  ASSUME NEW E, NEW a \in Seq(E), NEW g \in Seq(E), NEW c \in Seq(E)
  PROVE  /\ a \o c \in Seq(E) /\ a \o (g \o c) \in Seq(E)
         /\ Len(a \o c) \in Nat /\ Len(g) \in Nat /\ Len(a) \in Nat
         /\ Len(a \o (g \o c)) = Len(a \o c) + Len(g)
         /\ \A i \in 1..Len(a \o c) :
              (a \o c)[i] = (a \o (g \o c))[IF i <= Len(a) THEN i ELSE i + Len(g)]
<1> DEFINE gc == g \o c
           ac == a \o c
           agc == a \o gc
<1>1. /\ gc \in Seq(E) /\ Len(gc) = Len(g) + Len(c)
      /\ \A i \in 1..(Len(g) + Len(c)) : gc[i] = IF i <= Len(g) THEN g[i] ELSE c[i - Len(g)]
  BY ConcatProperties
<1>2. /\ ac \in Seq(E) /\ Len(ac) = Len(a) + Len(c)
      /\ \A i \in 1..(Len(a) + Len(c)) : ac[i] = IF i <= Len(a) THEN a[i] ELSE c[i - Len(a)]
  BY ConcatProperties
<1> HIDE DEF gc, ac
<1>a. a \in Seq(E) /\ gc \in Seq(E)
  BY <1>1
<1>3. /\ agc \in Seq(E) /\ Len(agc) = Len(a) + Len(gc)
      /\ \A i \in 1..(Len(a) + Len(gc)) : agc[i] = IF i <= Len(a) THEN a[i] ELSE gc[i - Len(a)]
  BY <1>a, ConcatProperties
<1> HIDE DEF agc
<1>4. Len(a) \in Nat /\ Len(g) \in Nat /\ Len(c) \in Nat
  OBVIOUS
<1>5. ASSUME NEW i \in 1..Len(ac)
      PROVE  ac[i] = agc[IF i <= Len(a) THEN i ELSE i + Len(g)]
  <2>1. CASE i <= Len(a)
    <3>1. i \in 1..(Len(a) + Len(c)) /\ i \in 1..(Len(a) + Len(gc))
      BY <1>1, <1>2, <1>4, <2>1
    <3>2. ac[i] = a[i] /\ agc[i] = a[i]
      BY <1>2, <1>3, <2>1, <3>1
    <3> QED  BY <2>1, <3>2
  <2>2. CASE ~(i <= Len(a))
    <3>1. /\ i + Len(g) \in 1..(Len(a) + Len(gc)) /\ ~(i + Len(g) <= Len(a))
          /\ (i + Len(g)) - Len(a) \in 1..(Len(g) + Len(c))
          /\ ~((i + Len(g)) - Len(a) <= Len(g))
          /\ ((i + Len(g)) - Len(a)) - Len(g) = i - Len(a)
          /\ i \in 1..(Len(a) + Len(c))
      BY <1>1, <1>2, <1>4, <2>2
    <3>2. agc[i + Len(g)] = gc[(i + Len(g)) - Len(a)]
      BY <1>3, <3>1
    <3>3. gc[(i + Len(g)) - Len(a)] = c[i - Len(a)]
      BY <1>1, <3>1
    <3>4. ac[i] = c[i - Len(a)]
      BY <1>2, <2>2, <3>1
    <3> QED  BY <2>2, <3>2, <3>3, <3>4
  <2> QED  BY <2>1, <2>2
<1>6. Len(agc) = Len(ac) + Len(g) /\ Len(ac) \in Nat
  BY <1>1, <1>2, <1>3, <1>4
<1> QED  BY <1>2, <1>3, <1>4, <1>5, <1>6 DEF agc, ac, gc

\* What comes before something is a prefix of it, and of all it is a prefix of.
LEMMA PrefixOfLonger ==
  ASSUME NEW E, NEW s \in Seq(E), NEW t \in Seq(E), NEW u \in Seq(E),
         IsPrefix(s, u), IsPrefix(t, u), Len(s) <= Len(t)
  PROVE  IsPrefix(s, t)
<1>1. /\ Len(s) <= Len(u) /\ \A i \in 1..Len(s) : u[i] = s[i]
      /\ Len(t) <= Len(u) /\ \A i \in 1..Len(t) : u[i] = t[i]
  BY PrefixByElement
<1>2. \A i \in 1..Len(s) : i \in 1..Len(t)
  OBVIOUS
<1> QED  BY <1>1, <1>2, PrefixByElement

\* All elements.
LEMMA FrontOfItself ==
  ASSUME NEW E, NEW q \in Seq(E)
  PROVE  SubSeq(q, 1, Len(q)) = q
<1> DEFINE n == Len(q)
           a == SubSeq(q, 1, n)
<1>1. n \in Nat /\ \A i \in 1..n : q[i] \in E
  BY ElementOfSeq
<1>2. /\ a \in Seq(E) /\ Len(a) = (IF 1 <= n THEN n - 1 + 1 ELSE 0)
      /\ \A i \in 1..(n - 1 + 1) : a[i] = q[1 + i - 1]
  BY <1>1, SubSeqProperties
<1>3. \A i \in 1..n : i \in 1..(n - 1 + 1) /\ 1 + i - 1 = i
  BY <1>1
<1> HIDE DEF a, n
<1>4. Len(a) = n /\ \A i \in 1..n : a[i] = q[i]
  BY <1>1, <1>2, <1>3
<1>5. a = q
  BY <1>2, <1>4, SeqEqual DEF n
<1> QED  BY <1>5 DEF a, n

\* The first n elements of a sequence are the same after something is appended.
LEMMA FrontOfAppend ==
  ASSUME NEW E, NEW q \in Seq(E), NEW e \in E, NEW n \in 1..Len(q)
  PROVE  SubSeq(Append(q, e), 1, n) = SubSeq(q, 1, n)
<1> DEFINE r == Append(q, e)
           a == SubSeq(r, 1, n)
           b == SubSeq(q, 1, n)
<1>1. /\ r \in Seq(E) /\ Len(r) = Len(q) + 1 /\ \A i \in 1..Len(q) : r[i] = q[i]
      /\ n \in Nat /\ Len(q) \in Nat
  BY AppendProperties
<1> HIDE DEF r
<1>2. \A i \in 1..n : /\ r[i] \in E /\ q[i] \in E /\ r[i] = q[i]
                     /\ i \in 1..(n - 1 + 1) /\ 1 + i - 1 = i
  BY <1>1
<1>3. /\ a \in Seq(E) /\ Len(a) = IF 1 <= n THEN n - 1 + 1 ELSE 0
      /\ \A i \in 1..(n - 1 + 1) : a[i] = r[1 + i - 1]
  BY <1>1, <1>2, SubSeqProperties
<1>4. /\ b \in Seq(E) /\ Len(b) = IF 1 <= n THEN n - 1 + 1 ELSE 0
      /\ \A i \in 1..(n - 1 + 1) : b[i] = q[1 + i - 1]
  BY <1>1, <1>2, SubSeqProperties
<1> HIDE DEF a, b
<1>5. Len(a) = n /\ Len(b) = n
  BY <1>1, <1>3, <1>4
<1>6. \A i \in 1..n : a[i] = b[i]
  BY <1>2, <1>3, <1>4
<1>7. a = b
  BY <1>3, <1>4, <1>5, <1>6, SeqEqual
<1> QED  BY <1>7 DEF a, b, r

\* The beginning of a beginning.
LEMMA FrontOfFront ==
  ASSUME NEW E, NEW q \in Seq(E), NEW n \in Nat, n <= Len(q)
  PROVE  /\ SubSeq(q, 1, n) \in Seq(E) /\ Len(SubSeq(q, 1, n)) = n
         /\ \A i \in 1..n : SubSeq(q, 1, n)[i] = q[i]
         /\ \A i \in 1..n : SubSeq(SubSeq(q, 1, n), 1, i) = SubSeq(q, 1, i)
<1> DEFINE a == SubSeq(q, 1, n)
<1>1. Len(q) \in Nat /\ \A i \in 1..n : q[i] \in E
  BY ElementOfSeq
<1>2. /\ a \in Seq(E) /\ Len(a) = (IF 1 <= n THEN n - 1 + 1 ELSE 0)
      /\ \A i \in 1..(n - 1 + 1) : a[i] = q[1 + i - 1]
  BY <1>1, SubSeqProperties
<1>3. \A i \in 1..n : i \in 1..(n - 1 + 1) /\ 1 + i - 1 = i
  OBVIOUS
<1> HIDE DEF a
<1>4. Len(a) = n /\ \A i \in 1..n : a[i] = q[i]
  BY <1>2, <1>3
<1>5. ASSUME NEW i \in 1..n PROVE SubSeq(a, 1, i) = SubSeq(q, 1, i)
  <2> DEFINE b == SubSeq(a, 1, i)
             c == SubSeq(q, 1, i)
  <2>1. \A k \in 1..i : k \in 1..n /\ k \in 1..(i - 1 + 1) /\ 1 + k - 1 = k
    OBVIOUS
  <2>2. \A k \in 1..i : a[k] \in E /\ q[k] \in E /\ a[k] = q[k]
    BY <1>1, <1>4, <2>1
  <2>3. /\ b \in Seq(E) /\ Len(b) = (IF 1 <= i THEN i - 1 + 1 ELSE 0)
        /\ \A k \in 1..(i - 1 + 1) : b[k] = a[1 + k - 1]
    BY <1>2, <2>2, SubSeqProperties
  <2>4. /\ c \in Seq(E) /\ Len(c) = (IF 1 <= i THEN i - 1 + 1 ELSE 0)
        /\ \A k \in 1..(i - 1 + 1) : c[k] = q[1 + k - 1]
    BY <2>2, SubSeqProperties
  <2> HIDE DEF b, c
  <2>5. Len(b) = i /\ Len(c) = i /\ \A k \in 1..i : b[k] = c[k]
    BY <2>1, <2>2, <2>3, <2>4
  <2>6. b = c
    BY <2>3, <2>4, <2>5, SeqEqual
  <2> QED  BY <2>6 DEF b, c
<1> QED  BY <1>2, <1>4, <1>5 DEF a

\* The first n elements, and one more.
LEMMA FrontGrows ==
  ASSUME NEW E, NEW q \in Seq(E), NEW n \in Nat, n + 1 <= Len(q)
  PROVE  /\ SubSeq(q, 1, n) \in Seq(E) /\ q[n + 1] \in E
         /\ SubSeq(q, 1, n + 1) = Append(SubSeq(q, 1, n), q[n + 1])
<1> DEFINE a == SubSeq(q, 1, n)
           b == SubSeq(q, 1, n + 1)
           c == Append(a, q[n + 1])
<1>1. Len(q) \in Nat /\ n + 1 \in 1..Len(q) /\ \A i \in 1..(n + 1) : q[i] \in E
  BY ElementOfSeq
<1>2. /\ a \in Seq(E) /\ Len(a) = (IF 1 <= n THEN n - 1 + 1 ELSE 0)
      /\ \A i \in 1..(n - 1 + 1) : a[i] = q[1 + i - 1]
  BY <1>1, SubSeqProperties
<1>3. /\ b \in Seq(E) /\ Len(b) = (IF 1 <= n + 1 THEN (n + 1) - 1 + 1 ELSE 0)
      /\ \A i \in 1..((n + 1) - 1 + 1) : b[i] = q[1 + i - 1]
  BY <1>1, SubSeqProperties
<1>4. \A i \in 1..(n + 1) : 1 + i - 1 = i /\ i \in 1..((n + 1) - 1 + 1)
  OBVIOUS
<1>5. \A i \in 1..n : i \in 1..(n - 1 + 1) /\ i \in 1..(n + 1)
  OBVIOUS
<1> HIDE DEF a, b
<1>6. Len(a) = n /\ \A i \in 1..n : a[i] = q[i]
  BY <1>2, <1>4, <1>5
<1>7. Len(b) = n + 1 /\ \A i \in 1..(n + 1) : b[i] = q[i]
  BY <1>3, <1>4
<1>8. /\ c \in Seq(E) /\ Len(c) = n + 1 /\ c[n + 1] = q[n + 1]
      /\ \A i \in 1..n : c[i] = a[i]
  BY <1>1, <1>2, <1>6, AppendProperties
<1> HIDE DEF c
<1>9. \A i \in 1..(n + 1) : b[i] = c[i]
  <2> SUFFICES ASSUME NEW i \in 1..(n + 1) PROVE b[i] = c[i]
    OBVIOUS
  <2>1. CASE i = n + 1  BY <1>7, <1>8, <2>1
  <2>2. CASE i # n + 1
    <3>1. i \in 1..n
      BY <2>2
    <3> QED  BY <1>6, <1>7, <1>8, <3>1
  <2> QED  BY <2>1, <2>2
<1>10. b = c
  BY <1>3, <1>7, <1>8, <1>9, SeqEqual
<1> QED  BY <1>1, <1>2, <1>10 DEF a, b, c

----------------------------------------------------------------------------
(* The first messages of a sequence.                                        *)

\* The numbers of messages, or of bytes.
Ids(ms) == {ms[n].id : n \in 1..Len(ms)}

\* The bytes of the first n messages have their numbers and come first; those of
\* the first n come before those of the first k.
LEMMA FrontBytes ==
  ASSUME NEW q \in Seq(Waiting), NEW n \in Nat, n <= Len(q)
  PROVE  /\ SubSeq(q, 1, n) \in Seq(Waiting) /\ AllBytes(SubSeq(q, 1, n)) \in Seq(WireByte)
         /\ \A i \in 1..Len(AllBytes(SubSeq(q, 1, n))) :
              \E j \in 1..n : AllBytes(SubSeq(q, 1, n))[i].id = q[j].id
         /\ \A k \in n..Len(q) : IsPrefix(AllBytes(SubSeq(q, 1, n)), AllBytes(SubSeq(q, 1, k)))
<1> DEFINE F(k) == AllBytes(SubSeq(q, 1, k))
           Named(k) == \A i \in 1..Len(F(k)) : \E j \in 1..k : F(k)[i].id = q[j].id
           P(k) == k <= Len(q) => Named(k)
           A == {k \in Nat : P(k)}
           R(k) == n <= k /\ k <= Len(q) => IsPrefix(F(n), F(k))
           B == {k \in Nat : R(k)}
<1>0. Len(q) \in Nat
  OBVIOUS
<1>1. ASSUME NEW k \in Nat, k <= Len(q)
      PROVE  SubSeq(q, 1, k) \in Seq(Waiting) /\ F(k) \in Seq(WireByte)
  <2>1. \A i \in 1..k : q[i] \in Waiting
    BY <1>0, <1>1, ElementOfSeq
  <2>2. SubSeq(q, 1, k) \in Seq(Waiting)
    BY <1>1, <2>1, SubSeqProperties
  <2> QED  BY <2>2, PartsType
<1>2. ASSUME NEW k \in Nat, k + 1 <= Len(q)
      PROVE  /\ q[k + 1] \in Waiting /\ F(k + 1) = F(k) \o Bytes(q[k + 1])
             /\ F(k) \in Seq(WireByte) /\ Bytes(q[k + 1]) \in Seq(WireByte)
  <2>1. /\ SubSeq(q, 1, k) \in Seq(Waiting) /\ q[k + 1] \in Waiting
        /\ SubSeq(q, 1, k + 1) = Append(SubSeq(q, 1, k), q[k + 1])
    BY <1>2, FrontGrows
  <2>2. F(k) \in Seq(WireByte)
    BY <2>1, PartsType
  <2> QED  BY <2>1, <2>2, AllBytesAppend, BytesOf
<1>3. P(0)
  <2>1. SubSeq(q, 1, 0) = <<>>
    OBVIOUS
  <2>2. F(0) = <<>>
    BY <2>1, AllBytesEmpty
  <2>3. Len(F(0)) = 0
    BY <2>2
  <2> HIDE DEF F
  <2> QED  BY <2>3
<1>4. ASSUME NEW k \in Nat, P(k) PROVE P(k + 1)
  <2> SUFFICES ASSUME k + 1 <= Len(q), NEW i \in 1..Len(F(k + 1))
               PROVE  \E j \in 1..(k + 1) : F(k + 1)[i].id = q[j].id
    OBVIOUS
  <2> DEFINE f == F(k)
             b == Bytes(q[k + 1])
             fb == f \o b
  <2>1. q[k + 1] \in Waiting /\ F(k + 1) = fb /\ f \in Seq(WireByte) /\ b \in Seq(WireByte)
    BY <1>2
  <2>2. Named(k)
    BY <1>0, <1>4
  <2>3. /\ Len(b) = Rest(q[k + 1]) /\ \A l \in 1..Len(b) : b[l].id = q[k + 1].id
    <3> DEFINE m == q[k + 1]
    <3>1. m \in Waiting
      BY <2>1
    <3> HIDE DEF m
    <3>2. /\ Len(Bytes(m)) = Rest(m)
          /\ \A l \in 1..Rest(m) :
               Bytes(m)[l] = [id |-> m.id, size |-> m.size, pos |-> m.off + l]
      BY <3>1, BytesOf
    <3>3. \A l \in 1..Len(Bytes(m)) : Bytes(m)[l].id = m.id
      BY <3>2
    <3> QED  BY <3>2, <3>3 DEF m
  <2>4. \A l \in 1..Len(f) : \E j \in 1..k : f[l].id = q[j].id
    BY <2>2
  <2> HIDE DEF F, f, b
  <2>5. /\ Len(fb) = Len(f) + Len(b) /\ Len(f) \in Nat /\ Len(b) \in Nat
        /\ \A l \in 1..(Len(f) + Len(b)) :
             fb[l] = IF l <= Len(f) THEN f[l] ELSE b[l - Len(f)]
    BY <2>1, ConcatProperties
  <2> HIDE DEF fb
  <2>6. CASE i <= Len(f)
    <3>1. fb[i] = f[i] /\ i \in 1..Len(f)
      BY <2>1, <2>5, <2>6
    <3>2. PICK j \in 1..k : f[i].id = q[j].id
      BY <2>4, <3>1
    <3>3. j \in 1..(k + 1)
      OBVIOUS
    <3> QED  BY <2>1, <3>1, <3>2, <3>3
  <2>7. CASE ~(i <= Len(f))
    <3>1. fb[i] = b[i - Len(f)] /\ i - Len(f) \in 1..Len(b)
      BY <2>1, <2>5, <2>7
    <3>2. fb[i].id = q[k + 1].id
      BY <2>3, <3>1
    <3>3. k + 1 \in 1..(k + 1)
      OBVIOUS
    <3> QED  BY <2>1, <3>2, <3>3
  <2> QED  BY <2>6, <2>7
<1>5. A = Nat
  <2>1. 0 \in A /\ \A k \in A : k + 1 \in A
    <3> HIDE DEF P
    <3> QED  BY <1>3, <1>4
  <2> HIDE DEF P
  <2>2. A \subseteq Nat
    OBVIOUS
  <2> HIDE DEF A
  <2> QED  BY <2>1, <2>2, NatSet
<1>6. Named(n)
  <2>1. P(n)
    <3> HIDE DEF P
    <3> QED  BY <1>5
  <2> QED  BY <2>1
<1>7. R(0)
  <2>1. n <= 0 => n = 0
    OBVIOUS
  <2>2. IsPrefix(F(0), F(0))
    BY <1>0, <1>1, PrefixOfItself
  <2> HIDE DEF F
  <2> QED  BY <2>1, <2>2
<1>8. ASSUME NEW k \in Nat, R(k) PROVE R(k + 1)
  <2> SUFFICES ASSUME n <= k + 1, k + 1 <= Len(q) PROVE IsPrefix(F(n), F(k + 1))
    OBVIOUS
  <2>1. F(n) \in Seq(WireByte)
    BY <1>1
  <2>2. CASE n = k + 1
    BY <2>1, <2>2, PrefixOfItself
  <2>3. CASE n # k + 1
    <3>1. IsPrefix(F(n), F(k))
      BY <1>0, <1>8, <2>3
    <3>2. F(k + 1) = F(k) \o Bytes(q[k + 1]) /\ F(k) \in Seq(WireByte)
          /\ Bytes(q[k + 1]) \in Seq(WireByte)
      BY <1>2
    <3> HIDE DEF F
    <3> QED  BY <2>1, <3>1, <3>2, PrefixExtends
  <2> QED  BY <2>2, <2>3
<1>9. B = Nat
  <2> HIDE DEF R
  <2>1. 0 \in B /\ \A k \in B : k + 1 \in B
    BY <1>7, <1>8
  <2>2. B \subseteq Nat
    OBVIOUS
  <2> HIDE DEF B
  <2> QED  BY <2>1, <2>2, NatSet
<1>10. \A k \in n..Len(q) : IsPrefix(F(n), F(k))
  <2> SUFFICES ASSUME NEW k \in n..Len(q) PROVE IsPrefix(F(n), F(k))
    OBVIOUS
  <2>1. R(k)
    <3> HIDE DEF R
    <3>1. k \in Nat
      BY <1>0
    <3> QED  BY <1>9, <3>1
  <2> QED  BY <1>0, <2>1
<1> QED  BY <1>1, <1>6, <1>10

----------------------------------------------------------------------------
(* The inductive invariant of the sender.                                   *)

OutputPcs == {"idle", "getq", "send", "is_empty", "wakeup", "close"}

FieldsOK ==
  /\ queue \in Seq(Waiting)
  /\ wakeup \in BOOLEAN /\ open \in BOOLEAN /\ missed \in BOOLEAN /\ fault \in BOOLEAN
  /\ output.pc \in OutputPcs /\ output.mb \in Msg \cup {NoMsg}
  /\ output.iCount \in 0..(MAX_SEND_NUM + 1) /\ output.empty \in BOOLEAN
  /\ output = [pc |-> output.pc, mb |-> output.mb, iCount |-> output.iCount,
               empty |-> output.empty]
  /\ DOMAIN writer = Writers
  /\ \A w \in Writers :
       /\ writer[w] = [pc |-> writer[w].pc, msg |-> writer[w].msg]
       /\ writer[w].pc \in {"idle", "putq", "register"}
  /\ written \in 0..MaxMsgs
  /\ lost \subseteq 1..MaxMsgs
  /\ accepted \in Seq(Waiting)
  /\ sent \in Seq(WireByte)

\* A message is in hand during a send, and a call ends with the send after the
\* last that MAX_SEND_NUM allows.
OutputOK ==
  /\ output.pc = "send" => output.mb \in Waiting
  /\ output.pc # "send" => output.mb = NoMsg
  /\ output.pc \in {"getq", "send"} => output.iCount <= MAX_SEND_NUM
  /\ output.pc = "idle" => output.iCount = 0
  /\ ~open => output.pc = "idle"

\* What a writer puts on the queue has not been sent from, and after the end of
\* the connection nobody puts anything.
WritersOK ==
  /\ \A w \in Writers : InPutq(w) => writer[w].msg \in Waiting /\ writer[w].msg.off = 0
  /\ \A w \in Writers : ~open => writer[w].pc = "idle"
  /\ \A n \in 1..Len(accepted) : accepted[n].off = 0

\* The one writer that may be in putq has the latest message; what was dropped is
\* of messages that putq took.
NumbersOK ==
  ~fault =>
    /\ \A n \in 1..Len(accepted) : accepted[n].id <= written
    /\ \A w \in Writers : InPutq(w) =>
         /\ writer[w].msg.id = written
         /\ \A n \in 1..Len(accepted) : accepted[n].id < written
         /\ \A v \in Writers : InPutq(v) => v = w
    /\ lost \subseteq Ids(accepted)

\* The bytes sent and those that wait, in their order.
Before(a, b) == a.id < b.id \/ (a.id = b.id /\ a.pos < b.pos)
Ascending(s) == \A i, j \in 1..Len(s) : i < j => Before(s[i], s[j])
Line == sent \o Pending
LineOK == ~fault => Ascending(Line) /\ \A i \in 1..Len(Line) : Line[i].id \in Ids(accepted)

SendInv == FieldsOK /\ OutputOK /\ WritersOK /\ NumbersOK /\ LineOK /\ StreamIntact

----------------------------------------------------------------------------
(* Ascending sequences of bytes.                                            *)

LEMMA AscendingConcat ==
  ASSUME NEW s \in Seq(WireByte), NEW t \in Seq(WireByte), Ascending(s), Ascending(t),
         \A i \in 1..Len(s), j \in 1..Len(t) : Before(s[i], t[j])
  PROVE  Ascending(s \o t)
<1> DEFINE c == s \o t
<1>1. /\ Len(c) = Len(s) + Len(t) /\ Len(s) \in Nat /\ Len(t) \in Nat
      /\ \A i \in 1..(Len(s) + Len(t)) : c[i] = IF i <= Len(s) THEN s[i] ELSE t[i - Len(s)]
  BY ConcatProperties
<1> HIDE DEF c
<1> SUFFICES ASSUME NEW i \in 1..Len(c), NEW j \in 1..Len(c), i < j
             PROVE  Before(c[i], c[j])
  BY DEF Ascending, c
<1>2. CASE j <= Len(s)
  <2>1. i \in 1..Len(s) /\ j \in 1..Len(s) /\ c[i] = s[i] /\ c[j] = s[j]
    BY <1>1, <1>2
  <2> QED  BY <2>1 DEF Ascending
<1>3. CASE ~(i <= Len(s))
  <2>1. /\ i - Len(s) \in 1..Len(t) /\ j - Len(s) \in 1..Len(t) /\ i - Len(s) < j - Len(s)
        /\ c[i] = t[i - Len(s)] /\ c[j] = t[j - Len(s)]
    BY <1>1, <1>3
  <2> QED  BY <2>1 DEF Ascending
<1>4. CASE i <= Len(s) /\ ~(j <= Len(s))
  <2>1. i \in 1..Len(s) /\ j - Len(s) \in 1..Len(t) /\ c[i] = s[i] /\ c[j] = t[j - Len(s)]
    BY <1>1, <1>4
  <2> QED  BY <2>1
<1> QED  BY <1>2, <1>3, <1>4

LEMMA AscendingWithout ==
  ASSUME NEW a \in Seq(WireByte), NEW g \in Seq(WireByte), NEW c \in Seq(WireByte),
         Ascending(a \o (g \o c))
  PROVE  /\ Ascending(a \o c)
         /\ \A i \in 1..Len(a \o c) :
              \E j \in 1..Len(a \o (g \o c)) : (a \o c)[i] = (a \o (g \o c))[j]
<1> DEFINE s == a \o c
           t == a \o (g \o c)
           At2(i) == IF i <= Len(a) THEN i ELSE i + Len(g)
<1>1. /\ Len(s) \in Nat /\ Len(g) \in Nat /\ Len(a) \in Nat /\ Len(t) = Len(s) + Len(g)
      /\ \A i \in 1..Len(s) : s[i] = t[At2(i)]
  BY WithoutMiddle
<1>2. Ascending(t)
  OBVIOUS
<1> HIDE DEF s, t
<1>3. \A i \in 1..Len(s) : At2(i) \in 1..Len(t)
  BY <1>1
<1>4. \A i, j \in 1..Len(s) : i < j => At2(i) < At2(j)
  BY <1>1
<1> HIDE DEF At2
<1>5. Ascending(s)
  BY <1>1, <1>2, <1>3, <1>4 DEF Ascending
<1> QED  BY <1>1, <1>3, <1>5 DEF s, t

LEMMA RegroupBytes ==
  \A x, y, z \in Seq(WireByte) : (x \o y) \o z = x \o (y \o z)
BY ConcatAssociative

LEMMA BytesAscend ==
  ASSUME NEW m \in Waiting
  PROVE  /\ Ascending(Bytes(m)) /\ \A i \in 1..Len(Bytes(m)) : Bytes(m)[i].id = m.id
         /\ Bytes(m) \in Seq(WireByte) /\ Len(Bytes(m)) \in Nat /\ 1 <= Len(Bytes(m))
<1> DEFINE b == Bytes(m)
<1>1. /\ b \in Seq(WireByte) /\ Rest(m) \in Nat /\ Len(b) = Rest(m)
      /\ \A k \in 1..Rest(m) : b[k] = [id |-> m.id, size |-> m.size, pos |-> m.off + k]
  BY BytesOf
<1>2. m.off \in Nat /\ Rest(m) > 0
  BY MsgFields DEF Waiting
<1> HIDE DEF b
<1>3. \A k \in 1..Rest(m) : b[k].id = m.id /\ b[k].pos = m.off + k
  BY <1>1
<1>4. ASSUME NEW i \in 1..Len(b), NEW j \in 1..Len(b), i < j PROVE Before(b[i], b[j])
  <2>1. b[i].id = b[j].id /\ b[i].pos < b[j].pos
    BY <1>1, <1>2, <1>3, <1>4
  <2> QED  BY <2>1 DEF Before
<1> QED  BY <1>1, <1>2, <1>3, <1>4 DEF Ascending, b

\* The numbers of the messages.
LEMMA IdsOf ==
  ASSUME NEW q \in Seq(Waiting)
  PROVE  /\ Ids(q) \subseteq 1..MaxMsgs
         /\ \A i \in Ids(q) : \E n \in 1..Len(q) : i = q[n].id
         /\ \A m \in Waiting : Ids(Append(q, m)) = Ids(q) \cup {m.id}
<1>1. \A n \in 1..Len(q) : q[n].id \in 1..MaxMsgs
  BY ElementOfSeq, MsgFields DEF Waiting
<1>2. ASSUME NEW m \in Waiting PROVE Ids(Append(q, m)) = Ids(q) \cup {m.id}
  <2> DEFINE r == Append(q, m)
  <2>1. /\ Len(r) = Len(q) + 1 /\ r[Len(q) + 1] = m /\ Len(q) \in Nat
        /\ \A n \in 1..Len(q) : r[n] = q[n]
    BY AppendProperties
  <2> HIDE DEF r
  <2>2. 1..Len(r) = (1..Len(q)) \cup {Len(q) + 1}
    BY <2>1
  <2> QED  BY <2>1, <2>2 DEF Ids, r
<1> QED  BY <1>1, <1>2 DEF Ids

----------------------------------------------------------------------------
(* The line, when something moves on it, goes off it or comes behind it.    *)

\* What the parts of a stream are.
LEMMA StreamTypes ==
  ASSUME FieldsOK, OutputOK
  PROVE  /\ Bytes(output.mb) \in Seq(WireByte)
         /\ AllBytes(queue) \in Seq(WireByte) /\ AllBytes(accepted) \in Seq(WireByte)
         /\ Pending \in Seq(WireByte)
<1>1. Bytes(output.mb) \in Seq(WireByte)
  <2>1. CASE output.pc = "send"
    BY <2>1, BytesOf DEF OutputOK
  <2>2. CASE output.pc # "send"
    <3>1. Bytes(output.mb) = <<>>
      BY <2>2, NoBytes DEF OutputOK
    <3> QED  BY <3>1
  <2> QED  BY <2>1, <2>2
<1>2. AllBytes(queue) \in Seq(WireByte) /\ AllBytes(accepted) \in Seq(WireByte)
  BY PartsType DEF FieldsOK
<1> QED  BY <1>1, <1>2, ConcatProperties DEF Pending

LEMMA SameLine ==
  ASSUME SendInv, UNCHANGED <<accepted, lost, sent>>, Pending' = Pending,
         fault' = fault,
         open' /\ output'.pc # "close" => open /\ output.pc # "close"
  PROVE  LineOK' /\ StreamIntact'
<1>1. LineOK'
  BY DEF SendInv, LineOK, Line
<1>2. StreamIntact'
  BY DEF SendInv, StreamIntact, Kept
<1> QED  BY <1>1, <1>2

\* Bytes go from those that wait to those sent.
LEMMA Moved ==
  ASSUME SendInv, NEW f \in Seq(WireByte), NEW c \in Seq(WireByte),
         UNCHANGED <<accepted, lost>>, ~fault, open, output.pc # "close",
         Pending = f \o c, sent' = sent \o f, Pending' = c
  PROVE  sent' \in Seq(WireByte) /\ LineOK' /\ StreamIntact'
<1>1. sent \in Seq(WireByte) /\ accepted \in Seq(Waiting)
  BY DEF SendInv, FieldsOK
<1>2. sent' \in Seq(WireByte)
  BY <1>1, ConcatProperties
<1>3. Line' = Line
  <2>1. (sent \o f) \o c = sent \o (f \o c)
    BY <1>1, ConcatAssociative
  <2> QED  BY <2>1 DEF Line
<1>4. LineOK'
  BY <1>3 DEF SendInv, LineOK
<1>5. lost = {} => IsPrefix(sent', AllBytes(accepted)) /\ sent' \o Pending' = AllBytes(accepted)
  <2>1. IsPrefix(sent', sent' \o Pending')
    BY <1>2, PrefixOf
  <2> QED  BY <1>3, <2>1 DEF SendInv, StreamIntact, Line
<1>6. ASSUME lost # {}, NEW n \in DOMAIN accepted, Kept(n)
      PROVE  IsPrefix(AllBytes(SubSeq(accepted, 1, n)), sent')
  <2> DEFINE x == AllBytes(SubSeq(accepted, 1, n))
  <2>1. n \in Nat /\ n <= Len(accepted)
    BY <1>1
  <2>2. x \in Seq(WireByte)
    BY <1>1, <2>1, FrontBytes
  <2>3. IsPrefix(x, sent)
    BY <1>6 DEF SendInv, StreamIntact
  <2> HIDE DEF x
  <2>4. IsPrefix(x, sent \o f)
    BY <1>1, <2>2, <2>3, PrefixExtends
  <2> QED  BY <2>4 DEF x
<1>7. StreamIntact'
  BY <1>5, <1>6 DEF StreamIntact, Kept
<1> QED  BY <1>2, <1>4, <1>7

\* A message comes behind all others.
LEMMA Joined ==
  ASSUME SendInv, NEW m \in Waiting, ~fault, open,
         queue' = Append(queue, m), accepted' = Append(accepted, m),
         UNCHANGED <<open, output, lost, sent, fault>>,
         \A n \in 1..Len(accepted) : accepted[n].id < m.id,
         lost \subseteq Ids(accepted)
  PROVE  LineOK' /\ StreamIntact'
<1> DEFINE b == Bytes(m)
           old == AllBytes(accepted)
           waits == AllBytes(queue)
           hand == Bytes(output.mb)
<1>1. accepted \in Seq(Waiting) /\ queue \in Seq(Waiting) /\ sent \in Seq(WireByte)
  BY DEF SendInv, FieldsOK
<1>2. AllBytes(accepted') = old \o b /\ AllBytes(queue') = waits \o b
  BY <1>1, AllBytesAppend
<1>3. /\ b \in Seq(WireByte) /\ hand \in Seq(WireByte) /\ old \in Seq(WireByte)
      /\ waits \in Seq(WireByte) /\ Pending = hand \o waits /\ Pending \in Seq(WireByte)
  BY BytesOf, StreamTypes DEF SendInv, Pending
<1>4. Pending' = Pending \o b
  <2>1. Pending' = hand \o AllBytes(queue')
    BY DEF Pending
  <2> HIDE DEF b, waits, hand
  <2>2. (hand \o waits) \o b = hand \o (waits \o b)
    BY <1>3, RegroupBytes
  <2> QED  BY <1>2, <1>3, <2>1, <2>2
<1>5. Line' = Line \o b /\ Line \in Seq(WireByte)
  <2>1. (sent \o Pending) \o b = sent \o (Pending \o b)
    BY <1>1, <1>3, RegroupBytes
  <2>2. sent \o Pending \in Seq(WireByte)
    BY <1>1, <1>3, ConcatProperties
  <2> QED  BY <1>4, <2>1, <2>2 DEF Line
<1>6. LineOK'
  <2>1. Ascending(Line) /\ \A i \in 1..Len(Line) : Line[i].id \in Ids(accepted)
    BY DEF SendInv, LineOK
  <2>2. Ascending(b) /\ \A i \in 1..Len(b) : b[i].id = m.id
    BY BytesAscend
  <2>3. Ids(accepted') = Ids(accepted) \cup {m.id}
    BY <1>1, IdsOf
  <2>4. \A i \in Ids(accepted) : i < m.id
    BY DEF Ids
  <2> DEFINE l == Line
             c == l \o b
  <2> HIDE DEF b, l, c
  <2>5. Ascending(c)
    <3>1. \A i \in 1..Len(l), j \in 1..Len(b) : Before(l[i], b[j])
      BY <2>1, <2>2, <2>4 DEF Before, l
    <3> QED  BY <1>3, <1>5, <2>1, <2>2, <3>1, AscendingConcat DEF c, l
  <2>6. ASSUME NEW i \in 1..Len(c) PROVE c[i].id \in Ids(accepted')
    <3>1. /\ Len(c) = Len(l) + Len(b) /\ Len(l) \in Nat /\ Len(b) \in Nat
          /\ \A k \in 1..(Len(l) + Len(b)) : c[k] = IF k <= Len(l) THEN l[k] ELSE b[k - Len(l)]
      <4>1. l \in Seq(WireByte) /\ b \in Seq(WireByte)
        BY <1>3, <1>5 DEF l
      <4> QED  BY <4>1, ConcatProperties DEF c
    <3>2. CASE i <= Len(l)
      <4>1. c[i] = l[i] /\ i \in 1..Len(l)
        BY <3>1, <3>2
      <4> QED  BY <2>1, <2>3, <4>1 DEF l
    <3>3. CASE ~(i <= Len(l))
      <4>1. c[i] = b[i - Len(l)] /\ i - Len(l) \in 1..Len(b)
        BY <3>1, <3>3
      <4> QED  BY <2>2, <2>3, <4>1
    <3> QED  BY <3>2, <3>3
  <2>7. Line' = c
    BY <1>5 DEF c, l
  <2>8. Ids(accepted)' = Ids(accepted')
    BY DEF Ids
  <2>9. Ascending(Line') /\ \A i \in 1..Len(Line') : Line'[i].id \in Ids(accepted')
    BY <2>5, <2>6, <2>7
  <2> QED  BY <2>8, <2>9 DEF LineOK, Ascending
<1>7. StreamIntact'
  <2> HIDE DEF b, old, waits, hand
  <2>1. ASSUME lost = {}
        PROVE  /\ IsPrefix(sent, old \o b)
               /\ output.pc # "close" => sent \o Pending' = old \o b
    <3>1. IsPrefix(sent, old) /\ (output.pc # "close" => Line = old)
      BY <2>1 DEF SendInv, StreamIntact, old, Line
    <3>2. IsPrefix(sent, old \o b)
      BY <1>1, <1>3, <3>1, PrefixExtends
    <3>3. sent \o Pending' = Line'
      BY DEF Line
    <3> QED  BY <1>5, <3>1, <3>2, <3>3
  <2>2. ASSUME lost # {}, NEW n \in DOMAIN accepted', Kept(n)'
        PROVE  IsPrefix(AllBytes(SubSeq(accepted', 1, n)), sent)
    <3>1. /\ Len(accepted) \in Nat /\ Len(accepted') = Len(accepted) + 1
          /\ \A i \in 1..Len(accepted) : accepted'[i] = accepted[i]
          /\ accepted' \in Seq(Waiting)
      BY <1>1, AppendProperties
    <3>2. n \in 1..(Len(accepted) + 1)
      BY <3>1
    <3>3. \A i \in 1..n : accepted'[i].id \notin lost
      BY <2>2 DEF Kept
    <3>4. n \in 1..Len(accepted)
      <4> SUFFICES ASSUME n = Len(accepted) + 1 PROVE FALSE
        BY <3>1, <3>2
      <4>1. PICK i \in lost : i \in Ids(accepted)
        BY <2>2
      <4>2. PICK k \in 1..Len(accepted) : accepted[k].id = i
        BY <4>1 DEF Ids
      <4>3. k \in 1..n
        BY <3>1
      <4> QED  BY <3>1, <3>3, <4>1, <4>2, <4>3
    <3>5. Kept(n)
      <4>1. \A i \in 1..n : i \in 1..Len(accepted)
        BY <3>1, <3>4
      <4> QED  BY <3>1, <3>3, <4>1 DEF Kept
    <3>6. SubSeq(accepted', 1, n) = SubSeq(accepted, 1, n)
      BY <1>1, <3>4, FrontOfAppend
    <3>7. n \in DOMAIN accepted
      BY <1>1, <3>4
    <3> QED  BY <2>2, <3>5, <3>6, <3>7 DEF SendInv, StreamIntact
  <2> QED  BY <1>2, <2>1, <2>2 DEF StreamIntact, Line
<1> QED  BY <1>6, <1>7

\* The rest g of the message in hand is dropped.
LEMMA Dropped ==
  ASSUME SendInv, NEW f \in Seq(WireByte), NEW g \in Seq(WireByte), NEW c \in Seq(WireByte),
         NEW id, 1 <= Len(g), g[1].id = id,
         accepted' = accepted, lost' = lost \cup {id}, ~fault, open, output.pc # "close",
         Pending = f \o (g \o c), sent' = sent \o f, Pending' = c
  PROVE  sent' \in Seq(WireByte) /\ LineOK' /\ StreamIntact'
<1> DEFINE gc == g \o c
           a == sent \o f
           all == AllBytes(accepted)
<1>0. Len(g) \in Nat /\ 1 \in 1..Len(g)
  OBVIOUS
<1>1. sent \in Seq(WireByte) /\ accepted \in Seq(Waiting) /\ gc \in Seq(WireByte)
      /\ all \in Seq(WireByte)
  BY PartsType, ConcatProperties DEF SendInv, FieldsOK
<1>2. a \in Seq(WireByte)
  BY <1>1, ConcatProperties
<1> HIDE DEF gc
<1>3. Line = a \o gc
  <2>0. sent \in Seq(WireByte) /\ f \in Seq(WireByte) /\ gc \in Seq(WireByte)
    BY <1>1
  <2>1. (sent \o f) \o gc = sent \o (f \o gc)
    BY <2>0, RegroupBytes
  <2> QED  BY <2>1 DEF Line, gc
<1>4. Line' = a \o c
  BY DEF Line
<1> HIDE DEF a
<1>5. LineOK'
  <2>1. Ascending(a \o gc) /\ \A i \in 1..Len(a \o gc) : (a \o gc)[i].id \in Ids(accepted)
    BY <1>3 DEF SendInv, LineOK
  <2>2. Ascending(a \o c)
    BY <1>2, <2>1, AscendingWithout DEF gc
  <2>3. ASSUME NEW i \in 1..Len(a \o c) PROVE (a \o c)[i].id \in Ids(accepted)
    <3>1. PICK j \in 1..Len(a \o gc) : (a \o c)[i] = (a \o gc)[j]
      BY <1>2, <2>1, AscendingWithout DEF gc
    <3> QED  BY <2>1, <3>1
  <2> QED  BY <1>4, <2>2, <2>3 DEF LineOK, Ids
<1>6. ASSUME NEW n \in DOMAIN accepted, Kept(n)'
      PROVE  IsPrefix(AllBytes(SubSeq(accepted, 1, n)), a)
  <2> DEFINE x == AllBytes(SubSeq(accepted, 1, n))
  <2>1. n \in Nat /\ n <= Len(accepted) /\ Len(accepted) \in Nat
    BY <1>1
  <2>2. /\ x \in Seq(WireByte)
        /\ \A i \in 1..Len(x) : \E j \in 1..n : x[i].id = accepted[j].id
    BY <1>1, <2>1, FrontBytes
  <2>k. \A i \in 1..n : accepted[i].id \notin lost /\ accepted[i].id # id
    BY <1>6 DEF Kept
  <2>3. CASE lost # {}
    <3>1. IsPrefix(x, sent)
      BY <2>3, <2>k DEF SendInv, StreamIntact, Kept
    <3> HIDE DEF x
    <3>2. IsPrefix(x, sent \o f)
      BY <1>1, <2>2, <3>1, PrefixExtends
    <3> QED  BY <3>2 DEF x, a
  <2>4. CASE lost = {}
    <3>1. all = a \o gc
      BY <1>3, <2>4 DEF SendInv, StreamIntact, Line
    <3>2. IsPrefix(x, all)
      <4>1. Len(accepted) \in n..Len(accepted)
        BY <2>1
      <4>2. IsPrefix(x, AllBytes(SubSeq(accepted, 1, Len(accepted))))
        BY <1>1, <2>1, <4>1, FrontBytes
      <4>3. SubSeq(accepted, 1, Len(accepted)) = accepted
        BY <1>1, FrontOfItself
      <4> QED  BY <4>2, <4>3
    <3> HIDE DEF x, all
    <3>3. IsPrefix(a, all)
      BY <1>1, <1>2, <3>1, PrefixOf
    <3>4. Len(x) <= Len(a)
      <4> SUFFICES ASSUME ~(Len(x) <= Len(a)) PROVE FALSE
        OBVIOUS
      <4>1. Len(x) \in Nat /\ Len(a) \in Nat /\ Len(gc) \in Nat
        BY <1>1, <1>2, <2>2
      <4> DEFINE i == Len(a) + 1
      <4>2. i \in 1..Len(x) /\ ~(i <= Len(a)) /\ i - Len(a) = 1
        BY <4>1
      <4>3. all[i] = x[i] /\ Len(x) <= Len(all)
        BY <1>1, <2>2, <3>2, <4>2, PrefixByElement
      <4>4. /\ Len(all) = Len(a) + Len(gc)
            /\ \A k \in 1..(Len(a) + Len(gc)) :
                 all[k] = IF k <= Len(a) THEN a[k] ELSE gc[k - Len(a)]
        BY <1>1, <1>2, <3>1, ConcatProperties
      <4>5. i \in 1..(Len(a) + Len(gc))
        BY <4>1, <4>2, <4>3, <4>4
      <4> HIDE DEF i
      <4>6. all[i] = gc[1]
        BY <4>2, <4>4, <4>5
      <4>7. gc[1] = g[1]
        <5>1. /\ Len(g) \in Nat /\ Len(c) \in Nat
              /\ \A k \in 1..(Len(g) + Len(c)) : gc[k] = IF k <= Len(g) THEN g[k] ELSE c[k - Len(g)]
          BY ConcatProperties DEF gc
        <5>2. 1 \in 1..(Len(g) + Len(c)) /\ 1 <= Len(g)
          BY <5>1
        <5> QED  BY <5>1, <5>2
      <4>8. x[i].id = id
        BY <4>3, <4>6, <4>7
      <4>9. PICK j \in 1..n : x[i].id = accepted[j].id
        BY <2>2, <4>2
      <4> QED  BY <2>k, <4>8, <4>9
    <3> QED  BY <1>1, <1>2, <2>2, <3>2, <3>3, <3>4, PrefixOfLonger DEF x
  <2> QED  BY <2>3, <2>4
<1>7. StreamIntact'
  <2>1. sent' = a /\ lost' # {}
    BY DEF a
  <2> QED  BY <1>6, <2>1 DEF StreamIntact
<1> QED  BY <1>2, <1>5, <1>7 DEF a

----------------------------------------------------------------------------
(* The steps of the sender.                                                 *)

LEMMA InitSend == Init => SendInv
<1> SUFFICES ASSUME Init PROVE SendInv
  OBVIOUS
<1>1. FieldsOK
  <2>1. queue \in Seq(Waiting) /\ accepted \in Seq(Waiting) /\ sent \in Seq(WireByte)
    BY DEF Init
  <2>2. MAX_SEND_NUM \in Nat /\ MaxMsgs \in Nat
    BY SizesAssumption
  <2>3. 0 \in 0..(MAX_SEND_NUM + 1) /\ written \in 0..MaxMsgs
    BY <2>2 DEF Init
  <2>4. output = [pc |-> "idle", mb |-> NoMsg, iCount |-> 0, empty |-> FALSE]
    BY DEF Init, NoCall
  <2>5. /\ output.pc = "idle" /\ output.mb = NoMsg /\ output.iCount = 0
        /\ output.empty = FALSE
    BY <2>4
  <2>6. DOMAIN writer = Writers /\ \A w \in Writers : writer[w] = [pc |-> "idle", msg |-> NoMsg]
    BY DEF Init
  <2>7. \A w \in Writers : writer[w].pc = "idle" /\ writer[w].msg = NoMsg
    BY <2>6
  <2>8. /\ wakeup \in BOOLEAN /\ open \in BOOLEAN /\ missed \in BOOLEAN /\ fault \in BOOLEAN
        /\ lost \subseteq 1..MaxMsgs
    BY DEF Init
  <2> QED  BY <2>1, <2>3, <2>4, <2>5, <2>6, <2>7, <2>8 DEF FieldsOK, OutputPcs
<1>2. OutputOK
  BY SizesAssumption DEF Init, OutputOK, NoCall
<1>0. Len(accepted) = 0
  BY DEF Init
<1>3. WritersOK /\ NumbersOK
  BY <1>0 DEF Init, WritersOK, NumbersOK, InPutq
<1>5. sent = <<>> /\ AllBytes(accepted) = <<>> /\ Pending = <<>>
  BY AllBytesEmpty, NoBytes DEF Init, Pending, NoCall
<1>4. StreamIntact
  <2>2. IsPrefix(<<>>, <<>>)
    <3>1. <<>> \in Seq(WireByte)
      OBVIOUS
    <3> QED  BY <3>1, PrefixOfItself
  <2>3. lost = {}
    BY DEF Init
  <2> QED  BY <1>5, <2>2, <2>3 DEF StreamIntact
<1>6. LineOK
  <2>1. Line = <<>>
    BY <1>5 DEF Line
  <2>2. Len(Line) = 0
    BY <2>1
  <2> QED  BY <2>2 DEF LineOK, Ascending
<1> QED  BY <1>1, <1>2, <1>3, <1>4, <1>6 DEF SendInv

\* A thread takes a message to the queue.
LEMMA PutqSend ==
  ASSUME SendInv, NEW w \in Writers, NEW n \in Sizes, Putq(w, n)
  PROVE  SendInv'
<1> DEFINE m == [id |-> written + 1, size |-> n, off |-> 0]
<1>0. PICK k \in Nat : k = written /\ k + 1 \in 1..MaxMsgs
  <2>1. written \in 0..MaxMsgs /\ written < MaxMsgs
    BY DEF SendInv, FieldsOK, Putq
  <2> QED  BY <2>1, SizesAssumption
<1>1. m \in Msg /\ m.off = 0 /\ m.size = n /\ m.id = written + 1
  <2>1. n \in Sizes
    OBVIOUS
  <2> QED  BY <1>0, <2>1 DEF Msg
<1>2. m \in Waiting
  <2>1. n \in Nat /\ n > 0
    BY SizesAssumption
  <2> HIDE DEF m
  <2> QED  BY <1>1, <2>1 DEF Waiting, Rest
<1> HIDE DEF m
<1>3. /\ writer' = [writer EXCEPT ![w] = [pc |-> "putq", msg |-> m]]
      /\ written' = written + 1 /\ fault' = ~Quiet /\ ~fault /\ open
      /\ UNCHANGED <<queue, wakeup, open, output, accepted, lost, sent, missed>>
  BY DEF Putq, m
<1>w. \A v \in Writers :
        writer'[v] = IF v = w THEN [pc |-> "putq", msg |-> m] ELSE writer[v]
  BY <1>3 DEF SendInv, FieldsOK
<1>4. FieldsOK'
  <2>1. DOMAIN writer' = Writers
    BY <1>3 DEF SendInv, FieldsOK
  <2>2. ASSUME NEW v \in Writers
        PROVE  /\ writer'[v] = [pc |-> writer'[v].pc, msg |-> writer'[v].msg]
               /\ writer'[v].pc \in {"idle", "putq", "register"}
    <3>1. CASE v = w
      <4>1. writer'[v] = [pc |-> "putq", msg |-> m]
        BY <1>w, <3>1
      <4> QED  BY <4>1
    <3>2. CASE v # w
      BY <1>w, <3>2 DEF SendInv, FieldsOK
    <3> QED  BY <3>1, <3>2
  <2>3. written' \in 0..MaxMsgs
    BY <1>0, <1>3, SizesAssumption
  <2>4. fault' \in BOOLEAN
    BY <1>3
  <2> QED  BY <1>3, <2>1, <2>2, <2>3, <2>4 DEF SendInv, FieldsOK
<1>5. OutputOK'
  BY <1>3 DEF SendInv, OutputOK
<1>6. WritersOK'
  <2>1. ASSUME NEW v \in Writers, InPutq(v)'
        PROVE  writer'[v].msg \in Waiting /\ writer'[v].msg.off = 0
    <3>1. CASE v = w
      BY <1>1, <1>2, <1>w, <3>1
    <3>2. CASE v # w
      BY <1>w, <2>1, <3>2 DEF SendInv, WritersOK, InPutq
    <3> QED  BY <3>1, <3>2
  <2> QED  BY <1>3, <2>1 DEF SendInv, WritersOK
<1>a. NumbersOK'
  <2> SUFFICES ASSUME ~fault' PROVE NumbersOK'
    BY DEF NumbersOK
  <2>1. \A v \in Writers : InPutq(v)' => v = w
    BY <1>3, <1>w DEF Quiet, InPutq
  <2>2. writer'[w].msg.id = written'
    <3>1. writer'[w] = [pc |-> "putq", msg |-> m]
      BY <1>w
    <3> QED  BY <1>1, <1>3, <3>1
  <2>3. /\ \A i \in 1..Len(accepted) : accepted[i].id <= written
        /\ lost \subseteq Ids(accepted)
    BY <1>3 DEF SendInv, NumbersOK
  <2>4. \A i \in 1..Len(accepted) : accepted[i].id \in Nat
    BY ElementOfSeq, MsgFields DEF SendInv, FieldsOK, Waiting
  <2>5. \A i \in 1..Len(accepted) : accepted[i].id < written' /\ accepted[i].id <= written'
    BY <1>0, <1>3, <2>3, <2>4
  <2>6. (lost \subseteq Ids(accepted))'
    BY <1>3, <2>3 DEF Ids
  <2> QED  BY <1>3, <2>1, <2>2, <2>5, <2>6 DEF NumbersOK
<1>7. StreamIntact'
  BY <1>3 DEF SendInv, StreamIntact, Pending, Kept
<1>8. LineOK'
  BY <1>3 DEF SendInv, LineOK, Line, Pending, Ids
<1> QED  BY <1>4, <1>5, <1>6, <1>7, <1>8, <1>a DEF SendInv

\* A writer leaves putq, and nothing else happens to the queue.
LEMMA WriterLeaves ==
  ASSUME SendInv, NEW w \in Writers, NEW to \in {"idle", "register"}, NEW m, ~fault, open,
         writer' = [writer EXCEPT ![w] = [pc |-> to, msg |-> m]]
  PROVE  /\ DOMAIN writer' = Writers
         /\ \A v \in Writers :
              /\ writer'[v] = [pc |-> writer'[v].pc, msg |-> writer'[v].msg]
              /\ writer'[v].pc \in {"idle", "putq", "register"}
              /\ InPutq(v)' => InPutq(v) /\ v # w /\ writer'[v] = writer[v]
<1>1. DOMAIN writer = Writers
  BY DEF SendInv, FieldsOK
<1>2. \A v \in Writers : writer'[v] = IF v = w THEN [pc |-> to, msg |-> m] ELSE writer[v]
  BY <1>1
<1>3. ASSUME NEW v \in Writers
      PROVE  /\ writer'[v] = [pc |-> writer'[v].pc, msg |-> writer'[v].msg]
             /\ writer'[v].pc \in {"idle", "putq", "register"}
             /\ InPutq(v)' => InPutq(v) /\ v # w /\ writer'[v] = writer[v]
  <2>1. CASE v = w
    <3>1. writer'[v] = [pc |-> to, msg |-> m]
      BY <1>2, <2>1
    <3>2. writer'[v].pc = to /\ writer'[v].msg = m
      BY <3>1
    <3> QED  BY <3>1, <3>2 DEF InPutq
  <2>2. CASE v # w
    BY <1>2, <2>2 DEF SendInv, FieldsOK, InPutq
  <2> QED  BY <2>1, <2>2
<1> QED  BY <1>1, <1>3

LEMMA NumbersStay ==
  ASSUME SendInv, UNCHANGED <<written, accepted, lost, fault>>,
         \A v \in Writers : InPutq(v)' => InPutq(v) /\ writer'[v] = writer[v]
  PROVE  NumbersOK'
<1> SUFFICES ASSUME ~fault' PROVE NumbersOK'
  BY DEF NumbersOK
<1>1. /\ \A n \in 1..Len(accepted) : accepted[n].id <= written
      /\ lost \subseteq Ids(accepted)
      /\ \A w \in Writers : InPutq(w) =>
           /\ writer[w].msg.id = written
           /\ \A n \in 1..Len(accepted) : accepted[n].id < written
           /\ \A v \in Writers : InPutq(v) => v = w
  BY DEF SendInv, NumbersOK
<1>2. ASSUME NEW w \in Writers, InPutq(w)'
      PROVE  /\ writer'[w].msg.id = written
             /\ \A n \in 1..Len(accepted) : accepted[n].id < written
             /\ \A v \in Writers : InPutq(v)' => v = w
  BY <1>1, <1>2
<1>3. (lost \subseteq Ids(accepted))'
  BY <1>1 DEF Ids
<1> QED  BY <1>1, <1>2, <1>3 DEF NumbersOK

\* putq takes the message.
LEMMA PutqReturnsSend ==
  ASSUME SendInv, NEW w \in Writers, PutqReturns(w)
  PROVE  SendInv'
<1>0. PICK m \in Waiting : m = writer[w].msg /\ m.off = 0
  BY DEF SendInv, WritersOK, PutqReturns
<1>1. /\ queue' = Append(queue, m) /\ accepted' = Append(accepted, m)
      /\ writer' = [writer EXCEPT ![w] = [pc |-> "register", msg |-> NoMsg]]
      /\ ~fault /\ InPutq(w)
      /\ UNCHANGED <<wakeup, open, output, written, lost, sent, missed, fault>>
  BY <1>0 DEF PutqReturns
<1>o. open
  BY <1>1 DEF SendInv, WritersOK, InPutq
<1>2. /\ accepted \in Seq(Waiting) /\ queue \in Seq(Waiting) /\ sent \in Seq(WireByte)
      /\ queue' \in Seq(Waiting) /\ accepted' \in Seq(Waiting)
      /\ Len(accepted) \in Nat
      /\ Len(accepted') = Len(accepted) + 1 /\ accepted'[Len(accepted) + 1] = m
      /\ \A n \in 1..Len(accepted) : accepted'[n] = accepted[n]
  BY <1>1, AppendProperties DEF SendInv, FieldsOK
<1>w. /\ DOMAIN writer' = Writers
      /\ \A v \in Writers :
           /\ writer'[v] = [pc |-> writer'[v].pc, msg |-> writer'[v].msg]
           /\ writer'[v].pc \in {"idle", "putq", "register"}
           /\ InPutq(v)' => InPutq(v) /\ v # w /\ writer'[v] = writer[v]
  BY <1>1, <1>o, WriterLeaves
<1>4. FieldsOK'
  BY <1>1, <1>2, <1>w DEF SendInv, FieldsOK
<1>5. OutputOK'
  BY <1>1 DEF SendInv, OutputOK
<1>6. WritersOK'
  <2>1. \A v \in Writers : InPutq(v)' => writer'[v].msg \in Waiting /\ writer'[v].msg.off = 0
    BY <1>w DEF SendInv, WritersOK
  <2>2. \A n \in 1..Len(accepted') : accepted'[n].off = 0
    <3> SUFFICES ASSUME NEW n \in 1..Len(accepted') PROVE accepted'[n].off = 0
      OBVIOUS
    <3>2. CASE n \in 1..Len(accepted)
      BY <1>2, <3>2 DEF SendInv, WritersOK
    <3>3. CASE n = Len(accepted) + 1
      BY <1>0, <1>2, <3>3
    <3> QED  BY <1>2, <3>2, <3>3
  <2> QED  BY <1>1, <1>o, <2>1, <2>2 DEF WritersOK
<1>n. /\ m.id = written /\ written \in Nat
      /\ \A n \in 1..Len(accepted) : accepted[n].id < written
      /\ \A v \in Writers : InPutq(v) => v = w
      /\ lost \subseteq Ids(accepted)
  BY <1>0, <1>1 DEF SendInv, NumbersOK, FieldsOK
<1>i. Ids(accepted') = Ids(accepted) \cup {m.id}
  BY <1>1, <1>2, IdsOf
<1>7. NumbersOK'
  <2>1. \A v \in Writers : ~InPutq(v)'
    BY <1>w, <1>n
  <2>2. \A n \in 1..Len(accepted') : accepted'[n].id <= written
    <3> SUFFICES ASSUME NEW n \in 1..Len(accepted') PROVE accepted'[n].id <= written
      OBVIOUS
    <3>1. CASE n \in 1..Len(accepted)
      <4>1. accepted[n].id \in Nat
        BY <1>2, <3>1, ElementOfSeq, MsgFields DEF Waiting
      <4> QED  BY <1>2, <1>n, <3>1, <4>1
    <3>2. CASE n = Len(accepted) + 1
      BY <1>2, <1>n, <3>2
    <3> QED  BY <1>2, <3>1, <3>2
  <2>3. lost' \subseteq Ids(accepted')
    BY <1>1, <1>i, <1>n
  <2>4. (lost \subseteq Ids(accepted))'
    BY <2>3
  <2> QED  BY <1>1, <2>1, <2>2, <2>4 DEF NumbersOK
<1>8. LineOK' /\ StreamIntact'
  BY <1>1, <1>2, <1>n, <1>i, <1>o, Joined
<1> QED  BY <1>4, <1>5, <1>6, <1>7, <1>8 DEF SendInv

\* putq takes no message: its writer forgets it.
LEMMA PutqRefusedSend ==
  ASSUME SendInv, NEW w \in Writers, PutqRefused(w)
  PROVE  SendInv'
<1>1. /\ writer' = [writer EXCEPT ![w] = [pc |-> "idle", msg |-> NoMsg]]
      /\ ~fault /\ InPutq(w)
      /\ UNCHANGED <<queue, wakeup, open, output, written, accepted, lost, sent, missed, fault>>
  BY DEF PutqRefused
<1>o. open
  BY <1>1 DEF SendInv, WritersOK, InPutq
<1>w. /\ DOMAIN writer' = Writers
      /\ \A v \in Writers :
           /\ writer'[v] = [pc |-> writer'[v].pc, msg |-> writer'[v].msg]
           /\ writer'[v].pc \in {"idle", "putq", "register"}
           /\ InPutq(v)' => InPutq(v) /\ v # w /\ writer'[v] = writer[v]
  BY <1>1, <1>o, WriterLeaves
<1>2. FieldsOK'
  BY <1>1, <1>w DEF SendInv, FieldsOK
<1>3. OutputOK'
  BY <1>1 DEF SendInv, OutputOK
<1>4. WritersOK'
  BY <1>1, <1>o, <1>w DEF SendInv, WritersOK
<1>5. NumbersOK'
  BY <1>1, <1>w, NumbersStay
<1>6. LineOK' /\ StreamIntact'
  BY <1>1, SameLine DEF Pending
<1> QED  BY <1>2, <1>3, <1>4, <1>5, <1>6 DEF SendInv

\* register_handler: the writer is done, and the reactor watches the socket.
LEMMA RegisterSend ==
  ASSUME SendInv, NEW w \in Writers, Register(w)
  PROVE  SendInv'
<1>1. /\ writer' = [writer EXCEPT ![w].pc = "idle"] /\ wakeup' = TRUE
      /\ writer[w].pc = "register" /\ ~fault
      /\ UNCHANGED <<queue, open, output, written, accepted, lost, sent, missed, fault>>
  BY DEF Register
<1>2. writer[w] = [pc |-> writer[w].pc, msg |-> writer[w].msg] /\ DOMAIN writer = Writers
  BY DEF SendInv, FieldsOK
<1>o. open
  BY <1>1 DEF SendInv, WritersOK
<1>3. writer' = [writer EXCEPT ![w] = [pc |-> "idle", msg |-> writer[w].msg]]
  <2>1. writer' = [writer EXCEPT ![w] = [writer[w] EXCEPT !.pc = "idle"]]
    BY <1>1
  <2>2. [writer[w] EXCEPT !.pc = "idle"] = [pc |-> "idle", msg |-> writer[w].msg]
    BY <1>2
  <2> QED  BY <2>1, <2>2
<1>w. /\ DOMAIN writer' = Writers
      /\ \A v \in Writers :
           /\ writer'[v] = [pc |-> writer'[v].pc, msg |-> writer'[v].msg]
           /\ writer'[v].pc \in {"idle", "putq", "register"}
           /\ InPutq(v)' => InPutq(v) /\ v # w /\ writer'[v] = writer[v]
  <2>1. "idle" \in {"idle", "register"}
    OBVIOUS
  <2> QED  BY <1>1, <1>3, <1>o, <2>1, WriterLeaves
<1>4. FieldsOK'
  BY <1>1, <1>w DEF SendInv, FieldsOK
<1>5. OutputOK'
  BY <1>1 DEF SendInv, OutputOK
<1>6. WritersOK'
  BY <1>1, <1>o, <1>w DEF SendInv, WritersOK
<1>7. NumbersOK'
  BY <1>1, <1>w, NumbersStay
<1>8. LineOK' /\ StreamIntact'
  BY <1>1, SameLine DEF Pending
<1> QED  BY <1>4, <1>5, <1>6, <1>7, <1>8 DEF SendInv

\* Steps of handle_output that move no message.
LEMMA NoMessageMoves ==
  ASSUME SendInv, NEW to \in OutputPcs \ {"send", "close"}, NEW i, NEW e,
         output.pc \notin {"send", "close"}, ~fault,
         open \/ to = "idle",
         UNCHANGED <<queue, open, writer, written, accepted, lost, sent>>,
         wakeup' \in BOOLEAN, missed' \in BOOLEAN, fault' = fault,
         output' = [pc |-> to, mb |-> output.mb, iCount |-> i, empty |-> e],
         (i = output.iCount /\ to \notin {"idle", "getq"}) \/ i = 0, e \in BOOLEAN
  PROVE  SendInv'
<1>0. output'.pc = to /\ output'.mb = output.mb /\ output'.iCount = i /\ output'.empty = e
  OBVIOUS
<1>1. output'.iCount \in 0..(MAX_SEND_NUM + 1)
      /\ (to = "getq" => output'.iCount <= MAX_SEND_NUM)
  BY <1>0, SizesAssumption DEF SendInv, FieldsOK
<1>2. FieldsOK'
  <2>1. output' = [pc |-> output'.pc, mb |-> output'.mb, iCount |-> output'.iCount,
                   empty |-> output'.empty]
    BY <1>0
  <2> QED  BY <1>0, <1>1, <2>1 DEF SendInv, FieldsOK
<1>3. OutputOK'
  BY <1>0, <1>1 DEF SendInv, OutputOK
<1>4. WritersOK'
  BY DEF SendInv, WritersOK, InPutq
<1>5. NumbersOK'
  BY NumbersStay DEF InPutq
<1>6. LineOK' /\ StreamIntact'
  <2>1. Pending' = Pending
    BY <1>0 DEF Pending
  <2> QED  BY <2>1, SameLine
<1> QED  BY <1>2, <1>3, <1>4, <1>5, <1>6 DEF SendInv

LEMMA QuietSend ==
  ASSUME SendInv,
         Dispatch \/ IsEmpty \/ CancelWakeup \/ ScheduleWakeup \/ (Getq /\ queue = <<>>)
  PROVE  SendInv'
<1>0. /\ output = [pc |-> output.pc, mb |-> output.mb, iCount |-> output.iCount,
                    empty |-> output.empty]
      /\ wakeup \in BOOLEAN /\ missed \in BOOLEAN /\ output.empty \in BOOLEAN
      /\ (output.pc = "idle" => output.iCount = 0) /\ (~open => output.pc = "idle")
      /\ (output.pc # "send" => output.mb = NoMsg)
  BY DEF SendInv, FieldsOK, OutputOK
<1>1. CASE Dispatch
  <2>1. /\ output' = [output EXCEPT !.pc = "getq"] /\ open
        /\ output.pc = "idle" /\ ~fault
        /\ UNCHANGED <<queue, wakeup, open, writer, written, accepted, lost, sent, missed, fault>>
    BY <1>1 DEF Dispatch, At
  <2>2. output' = [pc |-> "getq", mb |-> output.mb, iCount |-> 0, empty |-> output.empty]
    BY <1>0, <2>1
  <2> QED  BY <1>0, <2>1, <2>2, NoMessageMoves DEF OutputPcs
<1>2. CASE IsEmpty
  <2>1. /\ output' = [output EXCEPT !.pc = "wakeup", !.empty = (queue = <<>>)]
        /\ output.pc = "is_empty" /\ ~fault
        /\ UNCHANGED <<queue, wakeup, open, writer, written, accepted, lost, sent, missed, fault>>
    BY <1>2 DEF IsEmpty, At
  <2> DEFINE e == (queue = <<>>)
  <2>e. e \in BOOLEAN
    OBVIOUS
  <2> HIDE DEF e
  <2>2. output' = [pc |-> "wakeup", mb |-> output.mb, iCount |-> output.iCount,
                   empty |-> e]
    BY <1>0, <2>1 DEF e
  <2> QED  BY <1>0, <2>1, <2>2, <2>e, NoMessageMoves DEF OutputPcs
<1>3. CASE CancelWakeup \/ ScheduleWakeup
  <2>1. /\ output' = NoCall /\ wakeup' \in BOOLEAN
        /\ output.pc = "wakeup" /\ ~fault /\ missed' \in BOOLEAN
        /\ UNCHANGED <<queue, open, writer, written, accepted, lost, sent, fault>>
    BY <1>0, <1>3 DEF CancelWakeup, ScheduleWakeup, At
  <2>2. output' = [pc |-> "idle", mb |-> output.mb, iCount |-> 0, empty |-> FALSE]
    BY <1>0, <2>1 DEF NoCall
  <2> QED  BY <1>0, <2>1, <2>2, NoMessageMoves DEF OutputPcs
<1>4. CASE Getq /\ queue = <<>>
  <2>1. /\ output' = [output EXCEPT !.pc = "is_empty"]
        /\ output.pc = "getq" /\ ~fault
        /\ UNCHANGED <<queue, wakeup, open, writer, written, accepted, lost, sent, missed, fault>>
    BY <1>4 DEF Getq, At
  <2>2. output' = [pc |-> "is_empty", mb |-> output.mb, iCount |-> output.iCount,
                   empty |-> output.empty]
    BY <1>0, <2>1
  <2> QED  BY <1>0, <2>1, <2>2, NoMessageMoves DEF OutputPcs
<1> QED  BY <1>1, <1>2, <1>3, <1>4

\* The first message of the queue comes into the hand of handle_output.
LEMMA GetqSend ==
  ASSUME SendInv, Getq, queue # <<>>
  PROVE  SendInv'
<1>1. /\ output' = [output EXCEPT !.pc = "send", !.mb = Head(queue)] /\ queue' = Tail(queue)
      /\ output.pc = "getq" /\ ~fault /\ Quiet
      /\ UNCHANGED <<wakeup, open, writer, written, accepted, lost, sent, missed, fault>>
  BY DEF Getq, At
<1>2. /\ output = [pc |-> output.pc, mb |-> output.mb, iCount |-> output.iCount,
                    empty |-> output.empty]
      /\ output.iCount \in 0..(MAX_SEND_NUM + 1) /\ output.iCount <= MAX_SEND_NUM
      /\ output.mb = NoMsg /\ open /\ output.empty \in BOOLEAN
  BY <1>1 DEF SendInv, FieldsOK, OutputOK
<1>3. /\ queue \in Seq(Waiting) /\ Head(queue) \in Waiting /\ Tail(queue) \in Seq(Waiting)
      /\ queue = <<Head(queue)>> \o Tail(queue)
  BY HeadTailProperties DEF SendInv, FieldsOK
<1>4. output' = [pc |-> "send", mb |-> Head(queue), iCount |-> output.iCount,
                 empty |-> output.empty]
  BY <1>1, <1>2
<1>5. /\ output'.pc = "send" /\ output'.mb = Head(queue) /\ output'.iCount = output.iCount
      /\ output'.empty = output.empty
  BY <1>4
<1>6. FieldsOK'
  <2>1. output'.mb \in Msg \cup {NoMsg} /\ output'.pc \in OutputPcs
    BY <1>3, <1>5 DEF Waiting, OutputPcs
  <2> QED  BY <1>1, <1>2, <1>3, <1>4, <1>5, <2>1 DEF SendInv, FieldsOK
<1>7. OutputOK'
  BY <1>1, <1>2, <1>3, <1>5 DEF SendInv, OutputOK
<1>8. WritersOK'
  BY <1>1 DEF SendInv, WritersOK, InPutq
<1>9. Pending' = Pending
  <2>1. AllBytes(queue) = Bytes(Head(queue)) \o AllBytes(Tail(queue))
    BY <1>3, AllBytesCons
  <2>2. Bytes(output.mb) = <<>> /\ AllBytes(queue) \in Seq(WireByte)
    BY <1>2, NoBytes, StreamTypes DEF SendInv
  <2>3. Pending = AllBytes(queue)
    BY <2>2, ConcatEmptySeq DEF Pending
  <2>4. Pending' = AllBytes(queue)
    BY <1>1, <1>5, <2>1 DEF Pending
  <2> QED  BY <2>3, <2>4
<1>10. LineOK' /\ StreamIntact'
  BY <1>1, <1>2, <1>9, SameLine
<1>11. NumbersOK'
  BY <1>1, NumbersStay DEF InPutq
<1> QED  BY <1>6, <1>7, <1>8, <1>10, <1>11 DEF SendInv

LEMMA MessageInHand ==
  ASSUME SendInv, At("send")
  PROVE  /\ output.pc = "send" /\ ~fault /\ open
         /\ output.mb \in Waiting /\ Bytes(output.mb) \in Seq(WireByte)
         /\ queue \in Seq(Waiting) /\ AllBytes(queue) \in Seq(WireByte)
         /\ sent \in Seq(WireByte)
         /\ Pending = Bytes(output.mb) \o AllBytes(queue)
         /\ output.mb.id \in Ids(accepted) /\ output.mb.id \in 1..MaxMsgs
<1>1. output.pc = "send" /\ ~fault
  BY DEF At
<1>2. output.mb \in Waiting /\ open
  BY <1>1 DEF SendInv, OutputOK
<1>3. /\ Bytes(output.mb) \in Seq(WireByte) /\ queue \in Seq(Waiting)
      /\ AllBytes(queue) \in Seq(WireByte) /\ sent \in Seq(WireByte)
      /\ Pending \in Seq(WireByte)
  BY StreamTypes DEF SendInv, FieldsOK
<1>4. output.mb.id \in Ids(accepted)
  <2> DEFINE b == Bytes(output.mb)
             q == AllBytes(queue)
             i == Len(sent) + 1
  <2>1. /\ Len(b) \in Nat /\ 1 <= Len(b) /\ b \in Seq(WireByte)
        /\ \A k \in 1..Len(b) : b[k].id = output.mb.id
    BY <1>2, BytesAscend
  <2>2. q \in Seq(WireByte)
    BY <1>3
  <2>3. Pending = b \o q
    BY DEF Pending
  <2> HIDE DEF b, q
  <2>4. Len(Pending) = Len(b) + Len(q) /\ Len(q) \in Nat /\ Pending[1] = b[1]
    <3>1. /\ Len(b \o q) = Len(b) + Len(q) /\ Len(q) \in Nat
          /\ \A k \in 1..(Len(b) + Len(q)) : (b \o q)[k] = IF k <= Len(b) THEN b[k] ELSE q[k - Len(b)]
      BY <2>1, <2>2, ConcatProperties
    <3>2. 1 \in 1..(Len(b) + Len(q))
      BY <2>1, <3>1
    <3> QED  BY <2>1, <2>3, <3>1, <3>2
  <2>5. /\ Len(Line) = Len(sent) + Len(Pending) /\ Len(sent) \in Nat
        /\ \A k \in 1..(Len(sent) + Len(Pending)) :
             Line[k] = IF k <= Len(sent) THEN sent[k] ELSE Pending[k - Len(sent)]
    BY <1>3, ConcatProperties DEF Line
  <2>6. i \in 1..(Len(sent) + Len(Pending)) /\ ~(i <= Len(sent)) /\ i - Len(sent) = 1
    BY <2>1, <2>4, <2>5
  <2> HIDE DEF i
  <2>7. Line[i] = b[1] /\ i \in 1..Len(Line)
    BY <2>4, <2>5, <2>6
  <2>8. Line[i].id \in Ids(accepted)
    BY <1>1, <2>7 DEF SendInv, LineOK
  <2>9. 1 \in 1..Len(b)
    BY <2>1
  <2> QED  BY <2>1, <2>7, <2>8, <2>9
<1>5. Ids(accepted) \subseteq 1..MaxMsgs
  BY IdsOf DEF SendInv, FieldsOK
<1> QED  BY <1>1, <1>2, <1>3, <1>4, <1>5 DEF Pending

LEMMA AfterSendOK ==
  ASSUME SendInv, At("send"), output' = AfterSend
  PROVE  /\ output'.pc \in {"is_empty", "getq"} /\ output'.mb = NoMsg
         /\ output'.iCount \in 0..(MAX_SEND_NUM + 1)
         /\ (output'.pc = "getq" => output'.iCount <= MAX_SEND_NUM)
         /\ output'.empty = output.empty /\ output'.empty \in BOOLEAN
         /\ output' = [pc |-> output'.pc, mb |-> output'.mb, iCount |-> output'.iCount,
                       empty |-> output'.empty]
<1>1. /\ output = [pc |-> output.pc, mb |-> output.mb, iCount |-> output.iCount,
                    empty |-> output.empty]
      /\ output.iCount \in 0..(MAX_SEND_NUM + 1) /\ output.iCount <= MAX_SEND_NUM
      /\ output.empty \in BOOLEAN
  BY DEF SendInv, FieldsOK, OutputOK, At
<1>2. output.iCount \in Nat /\ output.iCount + 1 \in 0..(MAX_SEND_NUM + 1)
  BY <1>1, SizesAssumption
<1>3. PICK to : to = IF output.iCount + 1 > MAX_SEND_NUM THEN "is_empty" ELSE "getq"
  OBVIOUS
<1>4. output' = [pc |-> to, mb |-> NoMsg, iCount |-> output.iCount + 1, empty |-> output.empty]
  BY <1>1, <1>3 DEF AfterSend
<1>5. /\ output'.pc = to /\ output'.mb = NoMsg /\ output'.iCount = output.iCount + 1
      /\ output'.empty = output.empty
  BY <1>4
<1>6. to \in {"is_empty", "getq"} /\ (to = "getq" => output.iCount + 1 <= MAX_SEND_NUM)
  BY <1>2, <1>3, SizesAssumption
<1> QED  BY <1>1, <1>2, <1>4, <1>5, <1>6

\* After a step in which handle_output lets the message go: what remains to be seen
\* is what became of its bytes.
LEMMA HandEmpty ==
  ASSUME SendInv, At("send"),
         output'.pc \in {"is_empty", "getq"}, output'.mb = NoMsg,
         output'.iCount \in 0..(MAX_SEND_NUM + 1),
         output'.pc = "getq" => output'.iCount <= MAX_SEND_NUM,
         output'.empty \in BOOLEAN,
         output' = [pc |-> output'.pc, mb |-> output'.mb, iCount |-> output'.iCount,
                    empty |-> output'.empty],
         UNCHANGED <<wakeup, open, writer, written, accepted, missed, fault>>,
         queue' \in Seq(Waiting), sent' \in Seq(WireByte),
         lost' = lost \/ lost' = lost \cup {output.mb.id},
         LineOK', StreamIntact'
  PROVE  SendInv'
<1>0. lost' \subseteq 1..MaxMsgs /\ (lost \subseteq Ids(accepted) => lost' \subseteq Ids(accepted))
  BY MessageInHand DEF SendInv, FieldsOK
<1>1. FieldsOK'
  BY <1>0 DEF SendInv, FieldsOK, OutputPcs
<1>2. OutputOK'
  BY MessageInHand DEF SendInv, OutputOK
<1>3. WritersOK'
  BY DEF SendInv, WritersOK, InPutq
<1>4. NumbersOK'
  <2>1. (lost \subseteq Ids(accepted) => lost \subseteq Ids(accepted))'
    OBVIOUS
  <2>2. ~fault /\ (lost \subseteq Ids(accepted) => (lost \subseteq Ids(accepted))')
    BY <1>0, MessageInHand DEF Ids
  <2> QED  BY <2>2 DEF SendInv, NumbersOK, InPutq
<1> QED  BY <1>1, <1>2, <1>3, <1>4 DEF SendInv

\* What waits while nothing is in hand.
LEMMA OnlyQueue ==
  ASSUME output'.mb = NoMsg, queue' \in Seq(Waiting)
  PROVE  Pending' = AllBytes(queue') /\ AllBytes(queue') \in Seq(WireByte)
<1>1. Bytes(output'.mb) = <<>> /\ AllBytes(queue') \in Seq(WireByte)
  BY NoBytes, PartsType
<1> QED  BY <1>1, ConcatEmptySeq DEF Pending

\* The socket takes the whole message.
LEMMA SendAllSend ==
  ASSUME SendInv, SendAll
  PROVE  SendInv'
<1> DEFINE b == Bytes(output.mb)
           waits == AllBytes(queue)
<1>1. /\ At("send") /\ sent' = sent \o b /\ output' = AfterSend
      /\ UNCHANGED <<queue, wakeup, open, writer, written, accepted, lost, missed, fault>>
  BY DEF SendAll
<1>2. /\ b \in Seq(WireByte) /\ waits \in Seq(WireByte) /\ Pending = b \o waits
      /\ queue \in Seq(Waiting) /\ output.pc = "send" /\ ~fault /\ open
  BY <1>1, MessageInHand
<1>3. Pending' = waits
  BY <1>1, <1>2, AfterSendOK, OnlyQueue
<1> HIDE DEF b, waits
<1>4. sent' \in Seq(WireByte) /\ LineOK' /\ StreamIntact'
  <2>1. b \in Seq(WireByte) /\ waits \in Seq(WireByte)
    BY <1>2
  <2> QED  BY <1>1, <1>2, <1>3, <2>1, Moved
<1>5. queue' \in Seq(Waiting)
  BY <1>1, <1>2
<1> QED  BY <1>1, <1>4, <1>5, AfterSendOK, HandEmpty

\* f is sent of the message in hand, and m is what remains of it for ungetq.
LEMMA UngetqSend ==
  ASSUME SendInv, At("send"), NEW m \in Waiting, m.id = output.mb.id,
         NEW f \in Seq(WireByte), f \o Bytes(m) = Bytes(output.mb),
         Ungetq(m), sent' = sent \o f, output'.mb = NoMsg,
         UNCHANGED <<open, accepted, fault>>
  PROVE  /\ queue' \in Seq(Waiting) /\ sent' \in Seq(WireByte)
         /\ lost' = lost \/ lost' = lost \cup {output.mb.id}
         /\ LineOK' /\ StreamIntact'
<1> DEFINE g == Bytes(m)
           c == AllBytes(queue)
           gc == g \o c
<1>1. /\ output.pc = "send" /\ ~fault /\ open /\ queue \in Seq(Waiting)
      /\ Pending = Bytes(output.mb) \o c /\ c \in Seq(WireByte)
  BY MessageInHand
<1>2. /\ g \in Seq(WireByte) /\ 1 <= Len(g) /\ Len(g) \in Nat
      /\ \A i \in 1..Len(g) : g[i].id = m.id
  BY BytesAscend
<1>3. 1 \in 1..Len(g) /\ g[1].id = m.id
  <2>1. 1 \in 1..Len(g)
    BY <1>2
  <2> QED  BY <1>2, <2>1
<1>4. gc \in Seq(WireByte)
  BY <1>1, <1>2, ConcatProperties
<1> HIDE DEF g, c
<1>5. Pending = f \o gc
  <2>1. (f \o g) \o c = f \o (g \o c)
    BY <1>1, <1>2, RegroupBytes
  <2> QED  BY <1>1, <2>1 DEF g
<1>6. CASE Full
  <2>1. queue' = queue /\ lost' = lost \cup {m.id}
    BY <1>6 DEF Ungetq
  <2>2. Pending' = c
    BY <1>1, <2>1, OnlyQueue DEF c
  <2>3. sent' \in Seq(WireByte) /\ LineOK' /\ StreamIntact'
    <3>1. g \in Seq(WireByte) /\ c \in Seq(WireByte)
      BY <1>1, <1>2
    <3> QED  BY <1>1, <1>2, <1>3, <1>5, <2>1, <2>2, <3>1, Dropped
  <2> QED  BY <1>1, <2>1, <2>3
<1>7. CASE ~Full
  <2>1. queue' = <<m>> \o queue /\ lost' = lost
    BY <1>7 DEF Ungetq
  <2>2. queue' \in Seq(Waiting) /\ AllBytes(queue') = gc
    BY <1>1, <2>1, AllBytesCons DEF g, c
  <2>3. Pending' = gc
    BY <2>2, OnlyQueue
  <2> HIDE DEF gc
  <2>4. sent' \in Seq(WireByte) /\ LineOK' /\ StreamIntact'
    BY <1>1, <1>4, <1>5, <2>1, <2>3, Moved
  <2> QED  BY <2>1, <2>2, <2>4
<1> QED  BY <1>6, <1>7

\* It takes k bytes, and the rest goes back.
LEMMA SendPartSend ==
  ASSUME SendInv, NEW k \in Nat, 1 <= k, SendPart(k)
  PROVE  SendInv'
<1> DEFINE m == output.mb
           r == [output.mb EXCEPT !.off = @ + k]
           front == SubSeq(Bytes(output.mb), 1, k)
<1>1. /\ At("send") /\ sent' = sent \o front /\ output' = AfterSend
      /\ Ungetq(r) /\ k < Rest(m)
      /\ UNCHANGED <<wakeup, open, writer, written, accepted, missed, fault>>
  BY DEF SendPart
<1>2. m \in Waiting
  BY <1>1, MessageInHand
<1>3. r \in Waiting /\ front \in Seq(WireByte) /\ front \o Bytes(r) = Bytes(m)
  BY <1>1, <1>2, SplitBytes
<1>4. r.id = m.id
  BY <1>2 DEF Waiting, Msg
<1> HIDE DEF m, r, front
<1>5. /\ queue' \in Seq(Waiting) /\ sent' \in Seq(WireByte)
      /\ lost' = lost \/ lost' = lost \cup {output.mb.id}
      /\ LineOK' /\ StreamIntact'
  <2>1. front \in Seq(WireByte) /\ r \in Waiting
    BY <1>3
  <2> QED  BY <1>1, <1>3, <1>4, <2>1, AfterSendOK, UngetqSend DEF m
<1> QED  BY <1>1, <1>5, AfterSendOK, HandEmpty

\* It takes nothing, and the message goes back.
LEMMA WouldBlockSend ==
  ASSUME SendInv, WouldBlock
  PROVE  SendInv'
<1>1. /\ At("send") /\ Ungetq(output.mb)
      /\ output' = [output EXCEPT !.pc = "is_empty", !.mb = NoMsg]
      /\ UNCHANGED <<wakeup, open, writer, written, accepted, sent, missed, fault>>
  BY DEF WouldBlock
<1>2. /\ output.mb \in Waiting /\ sent \in Seq(WireByte)
      /\ Bytes(output.mb) \in Seq(WireByte)
  BY <1>1, MessageInHand
<1>3. /\ output = [pc |-> output.pc, mb |-> output.mb, iCount |-> output.iCount,
                    empty |-> output.empty]
      /\ output.iCount \in 0..(MAX_SEND_NUM + 1) /\ output.empty \in BOOLEAN
  BY DEF SendInv, FieldsOK
<1>4. output' = [pc |-> "is_empty", mb |-> NoMsg, iCount |-> output.iCount,
                 empty |-> output.empty]
  BY <1>1, <1>3
<1>5. /\ output'.pc = "is_empty" /\ output'.mb = NoMsg /\ output'.iCount = output.iCount
      /\ output'.empty = output.empty
  BY <1>4
<1>6. /\ queue' \in Seq(Waiting) /\ sent' \in Seq(WireByte)
      /\ lost' = lost \/ lost' = lost \cup {output.mb.id}
      /\ LineOK' /\ StreamIntact'
  <2> DEFINE f == <<>>
  <2>1. f \in Seq(WireByte) /\ f \o Bytes(output.mb) = Bytes(output.mb) /\ sent \o f = sent
    BY <1>2, ConcatEmptySeq
  <2> HIDE DEF f
  <2>2. sent' = sent \o f
    BY <1>1, <2>1
  <2> QED  BY <1>1, <1>2, <1>5, <2>1, <2>2, UngetqSend
<1> QED  BY <1>1, <1>3, <1>4, <1>5, <1>6, HandEmpty

\* An error cuts the stream off where it is.
LEMMA LineCut ==
  ASSUME SendInv, ~fault, UNCHANGED <<accepted, lost, sent, fault>>,
         ~open' \/ output'.pc = "close", Pending' = <<>> \/ Pending' = AllBytes(queue),
         output.mb = NoMsg \/ output.pc = "send"
  PROVE  LineOK' /\ StreamIntact'
<1>1. StreamIntact'
  BY DEF SendInv, StreamIntact, Kept
<1>2. sent \in Seq(WireByte) /\ Bytes(output.mb) \in Seq(WireByte) /\ AllBytes(queue) \in Seq(WireByte)
  BY StreamTypes DEF SendInv, FieldsOK
<1>3. /\ Ascending(sent \o (Bytes(output.mb) \o AllBytes(queue)))
      /\ \A i \in 1..Len(sent \o (Bytes(output.mb) \o AllBytes(queue))) :
           (sent \o (Bytes(output.mb) \o AllBytes(queue)))[i].id \in Ids(accepted)
  BY DEF SendInv, LineOK, Line, Pending
<1>4. ASSUME NEW c \in Seq(WireByte), NEW g \in Seq(WireByte),
             sent \o (g \o c) = Line, Pending' = c
      PROVE  LineOK'
  <2>1. Ascending(Line) /\ \A i \in 1..Len(Line) : Line[i].id \in Ids(accepted)
    BY DEF SendInv, LineOK
  <2>2. /\ Ascending(sent \o c)
        /\ \A i \in 1..Len(sent \o c) : \E j \in 1..Len(Line) : (sent \o c)[i] = Line[j]
    BY <1>2, <1>4, <2>1, AscendingWithout
  <2>3. Line' = sent \o c
    BY <1>4 DEF Line
  <2>4. \A i \in 1..Len(sent \o c) : (sent \o c)[i].id \in Ids(accepted)
    BY <2>1, <2>2
  <2> QED  BY <2>2, <2>3, <2>4 DEF LineOK, Ids
<1>5. LineOK'
  <2>1. CASE Pending' = AllBytes(queue)
    BY <1>2, <1>4, <2>1 DEF Line, Pending
  <2>2. CASE Pending' = <<>>
    <3>1. Pending \in Seq(WireByte) /\ Pending \o <<>> = Pending /\ <<>> \in Seq(WireByte)
      BY StreamTypes, ConcatEmptySeq DEF SendInv
    <3> QED  BY <1>4, <2>2, <3>1 DEF Line
  <2> QED  BY <2>1, <2>2
<1> QED  BY <1>1, <1>5

LEMMA SendFailsSend ==
  ASSUME SendInv, SendFails
  PROVE  SendInv'
<1>1. /\ At("send") /\ output' = [output EXCEPT !.pc = "close", !.mb = NoMsg]
      /\ UNCHANGED <<queue, wakeup, open, writer, written, accepted, lost, sent, missed, fault>>
  BY DEF SendFails
<1>2. output.pc = "send" /\ ~fault /\ open /\ queue \in Seq(Waiting)
  BY <1>1, MessageInHand
<1>3. /\ output = [pc |-> output.pc, mb |-> output.mb, iCount |-> output.iCount,
                    empty |-> output.empty]
      /\ output.iCount \in 0..(MAX_SEND_NUM + 1) /\ output.empty \in BOOLEAN
  BY DEF SendInv, FieldsOK
<1>4. output' = [pc |-> "close", mb |-> NoMsg, iCount |-> output.iCount,
                 empty |-> output.empty]
  BY <1>1, <1>3
<1>5. /\ output'.pc = "close" /\ output'.mb = NoMsg /\ output'.iCount = output.iCount
      /\ output'.empty = output.empty
  BY <1>4
<1>7. FieldsOK'
  BY <1>1, <1>3, <1>4, <1>5 DEF SendInv, FieldsOK, OutputPcs
<1>8. OutputOK'
  BY <1>1, <1>2, <1>5 DEF OutputOK
<1>9. WritersOK'
  BY <1>1 DEF SendInv, WritersOK, InPutq
<1>10. NumbersOK'
  BY <1>1, NumbersStay DEF InPutq
<1>11. LineOK' /\ StreamIntact'
  <2>1. Pending' = AllBytes(queue)
    BY <1>1, <1>2, <1>5, OnlyQueue
  <2> QED  BY <1>1, <1>2, <1>5, <2>1, LineCut
<1> QED  BY <1>7, <1>8, <1>9, <1>10, <1>11 DEF SendInv

LEMMA HandleCloseSend ==
  ASSUME SendInv, HandleClose
  PROVE  SendInv'
<1>1. /\ output' = NoCall /\ open' = FALSE /\ wakeup' = FALSE
      /\ queue' = <<>> /\ output.pc = "close" /\ ~fault
      /\ \A w \in Writers : writer[w].pc = "idle"
      /\ UNCHANGED <<writer, written, accepted, lost, sent, missed, fault>>
  BY DEF HandleClose, At
<1>4. /\ output' = [pc |-> "idle", mb |-> NoMsg, iCount |-> 0, empty |-> FALSE]
      /\ output'.pc = "idle" /\ output'.mb = NoMsg /\ output'.iCount = 0
      /\ output'.empty = FALSE
  BY <1>1 DEF NoCall
<1>5. queue' \in Seq(Waiting) /\ output.mb = NoMsg
  BY <1>1 DEF SendInv, OutputOK
<1>6. FieldsOK'
  <2>1. output' = [pc |-> output'.pc, mb |-> output'.mb, iCount |-> output'.iCount,
                   empty |-> output'.empty]
    BY <1>4
  <2>2. 0 \in 0..(MAX_SEND_NUM + 1)
    BY SizesAssumption
  <2>3. wakeup' \in BOOLEAN /\ open' \in BOOLEAN /\ output'.empty \in BOOLEAN
    BY <1>1, <1>4
  <2> QED  BY <1>1, <1>4, <1>5, <2>1, <2>2, <2>3 DEF SendInv, FieldsOK, OutputPcs
<1>7. OutputOK'
  BY <1>4, SizesAssumption DEF OutputOK
<1>8. WritersOK'
  BY <1>1 DEF SendInv, WritersOK, InPutq
<1>9. NumbersOK'
  BY <1>1, NumbersStay DEF InPutq
<1>10. LineOK' /\ StreamIntact'
  <2>1. Pending' = <<>>
    BY <1>1, <1>4, <1>5, OnlyQueue, AllBytesEmpty
  <2> QED  BY <1>1, <1>5, <2>1, LineCut
<1> QED  BY <1>6, <1>7, <1>8, <1>9, <1>10 DEF SendInv

LEMMA NextSend ==
  ASSUME SendInv, [Next]_vars
  PROVE  SendInv'
<1>1. CASE UNCHANGED vars
  <2>1. FieldsOK' /\ OutputOK' /\ WritersOK'
    BY <1>1 DEF vars, SendInv, FieldsOK, OutputOK, WritersOK, InPutq
  <2>2. NumbersOK'
    BY <1>1, NumbersStay DEF vars, InPutq
  <2>3. LineOK' /\ StreamIntact'
    BY <1>1, SameLine DEF vars, Pending
  <2> QED  BY <2>1, <2>2, <2>3 DEF SendInv
<1>2. CASE Dispatch \/ IsEmpty \/ CancelWakeup \/ ScheduleWakeup
  BY <1>2, QuietSend
<1>3. CASE Getq
  BY <1>3, QuietSend, GetqSend
<1>4. CASE SendSome
  <2>1. CASE SendAll
    BY <2>1, SendAllSend
  <2>2. ASSUME NEW k \in 1..(Rest(output.mb) - 1), SendPart(k) PROVE SendInv'
    <3>1. At("send")
      BY <2>2 DEF SendPart
    <3>2. Rest(output.mb) \in Int
      BY <3>1, MessageInHand, MsgFields DEF Waiting
    <3>3. k \in Nat /\ 1 <= k
      BY <3>2
    <3> QED  BY <2>2, <3>3, SendPartSend
  <2> QED  BY <1>4, <2>1, <2>2 DEF SendSome
<1>5. CASE WouldBlock
  BY <1>5, WouldBlockSend
<1>6. CASE SendFails
  BY <1>6, SendFailsSend
<1>7. CASE HandleClose
  BY <1>7, HandleCloseSend
<1>8. CASE Race
  <2>1. /\ fault' = TRUE
        /\ UNCHANGED <<queue, wakeup, open, output, writer, written, accepted, lost, sent, missed>>
    BY <1>8 DEF Race
  <2>2. FieldsOK' /\ OutputOK' /\ WritersOK'
    BY <2>1 DEF SendInv, FieldsOK, OutputOK, WritersOK, InPutq
  <2>3. NumbersOK' /\ LineOK' /\ StreamIntact'
    BY <2>1 DEF NumbersOK, LineOK, StreamIntact
  <2> QED  BY <2>2, <2>3 DEF SendInv
<1>9. ASSUME NEW w \in Writers, NEW n \in Sizes, Putq(w, n) PROVE SendInv'
  BY <1>9, PutqSend
<1>10. ASSUME NEW w \in Writers, WriteReturns(w) PROVE SendInv'
  BY <1>10, PutqReturnsSend, PutqRefusedSend, RegisterSend DEF WriteReturns
<1> QED
  BY <1>1, <1>2, <1>3, <1>4, <1>5, <1>6, <1>7, <1>8, <1>9, <1>10 DEF Next, HandleOutput

\* The types are part of the invariant.
LEMMA TypesHold == SendInv => TypeOK
<1> SUFFICES ASSUME SendInv PROVE TypeOK
  OBVIOUS
<1>1. \A n \in DOMAIN queue : queue[n] \in Msg /\ Rest(queue[n]) > 0
  BY DEF SendInv, FieldsOK, Waiting
<1> QED  BY <1>1 DEF SendInv, FieldsOK, OutputPcs, TypeOK

\* What is sent is the beginning of an ascending line.
LEMMA LineInOrder == SendInv => SentInOrder
<1> SUFFICES ASSUME SendInv, ~fault, NEW i \in 1..(Len(sent) - 1)
             PROVE  \/ sent[i].id < sent[i + 1].id
                    \/ sent[i].id = sent[i + 1].id /\ sent[i].pos < sent[i + 1].pos
  BY DEF SentInOrder
<1>1. sent \in Seq(WireByte) /\ Pending \in Seq(WireByte)
  BY StreamTypes DEF SendInv, FieldsOK
<1>2. /\ Len(Line) = Len(sent) + Len(Pending) /\ Len(sent) \in Nat /\ Len(Pending) \in Nat
      /\ \A k \in 1..(Len(sent) + Len(Pending)) :
           Line[k] = IF k <= Len(sent) THEN sent[k] ELSE Pending[k - Len(sent)]
  BY <1>1, ConcatProperties DEF Line
<1>3. i \in 1..Len(Line) /\ i + 1 \in 1..Len(Line) /\ i < i + 1
  BY <1>2
<1>4. Line[i] = sent[i] /\ Line[i + 1] = sent[i + 1]
  BY <1>2
<1>5. Before(Line[i], Line[i + 1])
  BY <1>3 DEF SendInv, LineOK, Ascending
<1> QED  BY <1>4, <1>5 DEF Before

\* The inductive invariant holds in every reachable state of a connection by
\* itself, whatever reads at its other end.
THEOREM SendInvariant == Spec => []SendInv
  BY InitSend, NextSend, PTL DEF Spec

----------------------------------------------------------------------------
(* The bytes on the wire.                                                   *)

\* The values of the bytes of messages, and the messages as Framing describes what
\* a peer writes.
OutOf(ms) == [n \in DOMAIN AllBytes(ms) |-> Wire(AllBytes(ms)[n])]
WriteOf(ms, n) ==
  [junk |-> FALSE, data |-> Data(ms[n].id, ms[n].size), end |-> Len(AllBytes(SubSeq(ms, 1, n)))]
WritesOf(ms) == [n \in DOMAIN ms |-> WriteOf(ms, n)]
Datas == {Data(i, n) : i \in 1..MaxMsgs, n \in Sizes}
Write == [junk : BOOLEAN, data : Datas \cup {}, end : Nat]

LEMMA SizeFits ==
  ASSUME NEW n \in Sizes
  PROVE  n \in Nat /\ MIN_PKG_SIZE <= n /\ n <= MAX_PKG_SIZE
<1>1. MIN_PKG_SIZE \in Nat /\ MAX_PKG_SIZE \in Nat
  BY SquareOfBase DEF MIN_PKG_SIZE, MAX_PKG_SIZE
<1> HIDE DEF MIN_PKG_SIZE, MAX_PKG_SIZE
<1> QED  BY <1>1, MessageSizes

LEMMA DataType ==
  ASSUME NEW i \in Nat, NEW n \in Sizes
  PROVE  Data(i, n) \in Seq(Byte) /\ Len(Data(i, n)) = n - MIN_PKG_SIZE
<1>1. n - MIN_PKG_SIZE \in Nat
  BY SizeFits DEF MIN_PKG_SIZE
<1>2. i % Base \in Byte
  BY Digits
<1>3. Data(i, n) \in [1..(n - MIN_PKG_SIZE) -> Byte]
  BY <1>2 DEF Data
<1> QED  BY <1>1, <1>3, SeqDef, LenProperties

LEMMA EncodedType ==
  ASSUME NEW m, m.id \in 1..MaxMsgs, m.size \in Sizes
  PROVE  Encoded(m) \in Seq(Byte) /\ Len(Encoded(m)) = m.size
<1>1. Data(m.id, m.size) \in Seq(Byte) /\ Len(Data(m.id, m.size)) = m.size - MIN_PKG_SIZE
  BY DataType
<1>2. Encoded(m) \in Seq(Byte) /\ Len(Encoded(m)) = (m.size - MIN_PKG_SIZE) + MIN_PKG_SIZE
  BY <1>1, MessageParts DEF Encoded
<1> QED  BY <1>2, SizeFits DEF MIN_PKG_SIZE

LEMMA WireType ==
  ASSUME NEW b \in WireByte
  PROVE  Wire(b) \in Byte
<1>1. b.id \in 1..MaxMsgs /\ b.size \in Sizes /\ b.pos \in 1..b.size
  BY DEF WireByte
<1>2. Encoded(b) \in Seq(Byte) /\ Len(Encoded(b)) = b.size
  BY <1>1, EncodedType
<1> QED  BY <1>1, <1>2 DEF Wire

LEMMA OutOfType ==
  ASSUME NEW ms \in Seq(Waiting)
  PROVE  /\ OutOf(ms) \in Seq(Byte) /\ Len(OutOf(ms)) = Len(AllBytes(ms))
         /\ \A n \in 1..Len(AllBytes(ms)) : OutOf(ms)[n] = Wire(AllBytes(ms)[n])
<1>1. AllBytes(ms) \in Seq(WireByte)
  BY PartsType
<1>2. DOMAIN AllBytes(ms) = 1..Len(AllBytes(ms)) /\ Len(AllBytes(ms)) \in Nat
      /\ \A n \in 1..Len(AllBytes(ms)) : AllBytes(ms)[n] \in WireByte
  BY <1>1
<1>3. OutOf(ms) \in [1..Len(AllBytes(ms)) -> Byte]
  BY <1>2, WireType DEF OutOf
<1> QED  BY <1>2, <1>3, SeqDef, LenProperties DEF OutOf

\* The bytes of a message nothing of which has been sent are those of mkMsg.
LEMMA OutOfAppend ==
  ASSUME NEW ms \in Seq(Waiting), NEW m \in Waiting, m.off = 0
  PROVE  OutOf(Append(ms, m)) = OutOf(ms) \o Encoded(m)
<1> DEFINE new == Append(ms, m)
           old == AllBytes(ms)
           b == Bytes(m)
           c == OutOf(ms) \o Encoded(m)
<1>1. new \in Seq(Waiting) /\ AllBytes(new) = old \o b
  BY AllBytesAppend, AppendProperties
<1>2. m \in Msg /\ m.id \in 1..MaxMsgs /\ m.size \in Sizes /\ m.size \in Nat /\ Rest(m) = m.size
  BY MsgFields DEF Waiting
<1>3. /\ b \in Seq(WireByte) /\ Len(b) = m.size
      /\ \A k \in 1..m.size : b[k] = [id |-> m.id, size |-> m.size, pos |-> k]
  <2>1. /\ b \in Seq(WireByte) /\ Len(b) = Rest(m)
        /\ \A k \in 1..Rest(m) : b[k] = [id |-> m.id, size |-> m.size, pos |-> m.off + k]
    BY BytesOf
  <2> HIDE DEF b
  <2>2. \A k \in 1..m.size : m.off + k = k
    BY <1>2
  <2> QED  BY <1>2, <2>1, <2>2
<1>4. old \in Seq(WireByte) /\ Len(old) \in Nat /\ OutOf(ms) \in Seq(Byte)
      /\ Len(OutOf(ms)) = Len(old)
      /\ \A n \in 1..Len(old) : OutOf(ms)[n] = Wire(old[n])
  BY PartsType, OutOfType
<1>5. Encoded(m) \in Seq(Byte) /\ Len(Encoded(m)) = m.size
  BY <1>2, EncodedType
<1> HIDE DEF b, old, new
<1>6. /\ Len(old \o b) = Len(old) + m.size
      /\ \A n \in 1..(Len(old) + m.size) :
           (old \o b)[n] = IF n <= Len(old) THEN old[n] ELSE b[n - Len(old)]
  <2>1. /\ Len(old \o b) = Len(old) + Len(b)
        /\ \A n \in 1..(Len(old) + Len(b)) :
             (old \o b)[n] = IF n <= Len(old) THEN old[n] ELSE b[n - Len(old)]
    <3>1. old \in Seq(WireByte) /\ b \in Seq(WireByte)
      BY <1>3, <1>4
    <3> QED  BY <3>1, ConcatProperties
  <2>2. Len(b) = m.size
    BY <1>3
  <2> QED  BY <2>1, <2>2
<1>7. /\ c \in Seq(Byte) /\ Len(c) = Len(old) + m.size
      /\ \A n \in 1..(Len(old) + m.size) :
           c[n] = IF n <= Len(old) THEN OutOf(ms)[n] ELSE Encoded(m)[n - Len(old)]
  <2>1. /\ c \in Seq(Byte) /\ Len(c) = Len(OutOf(ms)) + Len(Encoded(m))
        /\ \A n \in 1..(Len(OutOf(ms)) + Len(Encoded(m))) :
             c[n] = IF n <= Len(OutOf(ms)) THEN OutOf(ms)[n] ELSE Encoded(m)[n - Len(OutOf(ms))]
    BY <1>4, <1>5, ConcatProperties
  <2> HIDE DEF c
  <2> QED  BY <1>4, <1>5, <2>1
<1>8. /\ OutOf(new) \in Seq(Byte) /\ Len(OutOf(new)) = Len(old) + m.size
      /\ \A n \in 1..(Len(old) + m.size) : OutOf(new)[n] = Wire((old \o b)[n])
  BY <1>1, <1>6, OutOfType
<1> HIDE DEF c
<1>9. ASSUME NEW n \in 1..(Len(old) + m.size) PROVE OutOf(new)[n] = c[n]
  <2>1. CASE n <= Len(old)
    <3>1. n \in 1..Len(old)
      BY <1>4, <2>1
    <3> QED  BY <1>4, <1>6, <1>7, <1>8, <2>1, <3>1
  <2>2. CASE n > Len(old)
    <3>1. n - Len(old) \in 1..m.size /\ ~(n <= Len(old))
      BY <1>2, <1>4, <2>2
    <3>2. OutOf(new)[n] = Wire(b[n - Len(old)]) /\ c[n] = Encoded(m)[n - Len(old)]
      BY <1>6, <1>7, <1>8, <3>1
    <3>3. b[n - Len(old)] = [id |-> m.id, size |-> m.size, pos |-> n - Len(old)]
      BY <1>3, <3>1
    <3>4. Wire(b[n - Len(old)]) = Encoded(m)[n - Len(old)]
      BY <3>3 DEF Wire, Encoded
    <3> QED  BY <3>2, <3>4
  <2> QED  BY <1>4, <2>1, <2>2
<1>10. OutOf(new) = c
  <2>1. Len(OutOf(new)) = Len(c) /\ \A n \in 1..Len(OutOf(new)) : OutOf(new)[n] = c[n]
    BY <1>7, <1>8, <1>9
  <2> QED  BY <1>7, <1>8, <2>1, SeqEqual
<1> QED  BY <1>10 DEF new, c

LEMMA WriteOfType ==
  ASSUME NEW ms \in Seq(Waiting), NEW n \in 1..Len(ms)
  PROVE  WriteOf(ms, n) \in Write
<1>1. ms[n] \in Waiting
  BY ElementOfSeq
<1>2. ms[n].id \in 1..MaxMsgs /\ ms[n].size \in Sizes
  BY <1>1, MsgFields DEF Waiting
<1>3. Data(ms[n].id, ms[n].size) \in Datas
  BY <1>2 DEF Datas
<1>4. Len(AllBytes(SubSeq(ms, 1, n))) \in Nat
  <2>1. SubSeq(ms, 1, n) \in Seq(Waiting)
    <3>1. \A i \in 1..n : ms[i] \in Waiting
      BY ElementOfSeq
    <3> QED  BY <3>1, SubSeqProperties
  <2> QED  BY <2>1, PartsType
<1> QED  BY <1>3, <1>4 DEF WriteOf, Write

LEMMA WritesOfType ==
  ASSUME NEW ms \in Seq(Waiting)
  PROVE  /\ WritesOf(ms) \in Seq(Write) /\ Len(WritesOf(ms)) = Len(ms)
         /\ \A n \in 1..Len(ms) : WritesOf(ms)[n] = WriteOf(ms, n)
<1>1. DOMAIN ms = 1..Len(ms) /\ Len(ms) \in Nat
  OBVIOUS
<1>2. WritesOf(ms) \in [1..Len(ms) -> Write]
  BY <1>1, WriteOfType DEF WritesOf
<1> QED  BY <1>1, <1>2, SeqDef, LenProperties DEF WritesOf

LEMMA WritesOfAppend ==
  ASSUME NEW ms \in Seq(Waiting), NEW m \in Waiting
  PROVE  WritesOf(Append(ms, m)) =
           Append(WritesOf(ms),
                  [junk |-> FALSE, data |-> Data(m.id, m.size),
                   end |-> Len(AllBytes(Append(ms, m)))])
<1> DEFINE new == Append(ms, m)
           w == [junk |-> FALSE, data |-> Data(m.id, m.size), end |-> Len(AllBytes(new))]
           u == Append(WritesOf(ms), w)
<1>1. /\ new \in Seq(Waiting) /\ Len(new) = Len(ms) + 1 /\ new[Len(ms) + 1] = m
      /\ \A n \in 1..Len(ms) : new[n] = ms[n]
      /\ Len(ms) \in Nat
  BY AppendProperties
<1>2. \A n \in 1..Len(ms) : SubSeq(new, 1, n) = SubSeq(ms, 1, n)
  BY FrontOfAppend
<1> HIDE DEF new
<1>3. SubSeq(new, 1, Len(ms) + 1) = new
  <2>1. SubSeq(new, 1, Len(new)) = new
    BY <1>1
  <2> QED  BY <1>1, <2>1
<1>4. WriteOf(new, Len(ms) + 1) = w
  BY <1>1, <1>3 DEF WriteOf
<1>5. w \in Write
  <2>1. Len(ms) + 1 \in 1..Len(new)
    BY <1>1
  <2> QED  BY <1>1, <1>4, <2>1, WriteOfType
<1>6. /\ WritesOf(new) \in Seq(Write) /\ Len(WritesOf(new)) = Len(ms) + 1
      /\ \A n \in 1..(Len(ms) + 1) : WritesOf(new)[n] = WriteOf(new, n)
  BY <1>1, WritesOfType
<1>7. /\ WritesOf(ms) \in Seq(Write) /\ Len(WritesOf(ms)) = Len(ms)
      /\ \A n \in 1..Len(ms) : WritesOf(ms)[n] = WriteOf(ms, n)
  BY WritesOfType
<1> HIDE DEF w
<1>8. /\ u \in Seq(Write) /\ Len(u) = Len(ms) + 1 /\ u[Len(ms) + 1] = w
      /\ \A n \in 1..Len(ms) : u[n] = WritesOf(ms)[n]
  BY <1>5, <1>7, AppendProperties
<1> HIDE DEF u
<1>9. ASSUME NEW n \in 1..(Len(ms) + 1) PROVE WritesOf(new)[n] = u[n]
  <2>1. CASE n \in 1..Len(ms)
    <3>1. WriteOf(new, n) = WriteOf(ms, n)
      BY <1>1, <1>2, <2>1 DEF WriteOf
    <3> QED  BY <1>6, <1>7, <1>8, <2>1, <3>1
  <2>2. CASE n = Len(ms) + 1
    BY <1>4, <1>6, <1>8, <2>2
  <2> QED  BY <1>1, <2>1, <2>2
<1>10. WritesOf(new) = u
  <2>1. Len(WritesOf(new)) = Len(u) /\ \A n \in 1..Len(u) : WritesOf(new)[n] = u[n]
    BY <1>6, <1>8, <1>9
  <2> QED  BY <1>6, <1>8, <2>1, SeqEqual
<1> QED  BY <1>10 DEF u, w, new

\* The first messages, as writes, are the first writes.
LEMMA WritesOfFront ==
  ASSUME NEW q \in Seq(Waiting), NEW n \in Nat, n <= Len(q)
  PROVE  WritesOf(SubSeq(q, 1, n)) = SubSeq(WritesOf(q), 1, n)
<1> DEFINE f == SubSeq(q, 1, n)
           all == WritesOf(q)
           u == SubSeq(all, 1, n)
           v == WritesOf(f)
<1>1. /\ f \in Seq(Waiting) /\ Len(f) = n /\ \A i \in 1..n : f[i] = q[i]
      /\ \A i \in 1..n : SubSeq(f, 1, i) = SubSeq(q, 1, i)
  BY FrontOfFront
<1>2. all \in Seq(Write) /\ Len(all) = Len(q) /\ \A i \in 1..Len(q) : all[i] = WriteOf(q, i)
  BY WritesOfType
<1>3. u \in Seq(Write) /\ Len(u) = n /\ \A i \in 1..n : u[i] = all[i]
  <2> HIDE DEF all
  <2>1. n <= Len(all) /\ all \in Seq(Write)
    BY <1>2
  <2> QED  BY <2>1, FrontOfFront
<1>4. v \in Seq(Write) /\ Len(v) = n /\ \A i \in 1..n : v[i] = WriteOf(f, i)
  <2> HIDE DEF f
  <2> QED  BY <1>1, WritesOfType
<1> HIDE DEF f, all, u, v
<1>5. ASSUME NEW i \in 1..n PROVE v[i] = u[i]
  <2>1. WriteOf(f, i) = WriteOf(q, i)
    BY <1>1 DEF WriteOf
  <2>2. i \in 1..Len(q)
    OBVIOUS
  <2> QED  BY <1>2, <1>3, <1>4, <2>1, <2>2
<1>6. v = u
  BY <1>3, <1>4, <1>5, SeqEqual
<1> QED  BY <1>6 DEF u, v, f, all

----------------------------------------------------------------------------
(* The messages whose bytes arrive for certain.                             *)

\* How many messages there are before the first that lost its rest.
First(n) == SubSeq(accepted, 1, n)
IsCount(c) ==
  c \in 0..Len(accepted) /\ Kept(c) /\ (c < Len(accepted) => accepted[c + 1].id \in lost)
KeptCount == CHOOSE c : IsCount(c)
CountOK ==
  /\ KeptCount \in 0..Len(accepted)
  /\ \A n \in 0..Len(accepted) : Kept(n) <=> n <= KeptCount

LEMMA CountIs == FieldsOK => CountOK
<1> SUFFICES ASSUME FieldsOK PROVE CountOK
  OBVIOUS
<1>0. Len(accepted) \in Nat
  BY DEF FieldsOK
<1>1. \E c : IsCount(c)
  <2> DEFINE A == {n \in Nat : n <= Len(accepted) /\ Kept(n)}
  <2>1. 0 \in A
    BY <1>0 DEF Kept
  <2>2. A # Nat
    <3>1. Len(accepted) + 1 \in Nat /\ ~(Len(accepted) + 1 <= Len(accepted))
      BY <1>0
    <3>2. Len(accepted) + 1 \notin A
      BY <3>1
    <3> QED  BY <3>1, <3>2
  <2>3. A \subseteq Nat
    OBVIOUS
  <2>4. PICK n \in A : n + 1 \notin A
    <3> HIDE DEF A
    <3> QED  BY <2>1, <2>2, <2>3, NatSet
  <2>5. IsCount(n)
    <3>1. n \in 0..Len(accepted) /\ Kept(n)
      BY <1>0
    <3>2. ASSUME n < Len(accepted) PROVE accepted[n + 1].id \in lost
      <4>1. n + 1 \in Nat /\ n + 1 <= Len(accepted) /\ ~Kept(n + 1)
        BY <1>0, <2>4, <3>2
      <4>2. PICK i \in 1..(n + 1) : accepted[i].id \in lost
        BY <4>1 DEF Kept
      <4>3. i \notin 1..n
        BY <3>1, <4>2 DEF Kept
      <4>4. i = n + 1
        BY <4>2, <4>3
      <4> QED  BY <4>2, <4>4
    <3> QED  BY <3>1, <3>2 DEF IsCount
  <2> QED  BY <2>5
<1>2. IsCount(KeptCount)
  <2> HIDE DEF IsCount
  <2> QED  BY <1>1 DEF KeptCount
<1> DEFINE c == KeptCount
<1>3. c \in 0..Len(accepted) /\ Kept(c) /\ (c < Len(accepted) => accepted[c + 1].id \in lost)
  BY <1>2 DEF IsCount
<1> HIDE DEF c
<1>4. ASSUME NEW n \in 0..Len(accepted) PROVE Kept(n) <=> n <= c
  <2>1. ASSUME n <= c PROVE Kept(n)
    BY <1>0, <1>3, <2>1 DEF Kept
  <2>2. ASSUME ~(n <= c) PROVE ~Kept(n)
    <3>1. c + 1 \in 1..n /\ c < Len(accepted)
      BY <1>0, <1>3, <2>2
    <3> QED  BY <1>3, <3>1 DEF Kept
  <2> QED  BY <2>1, <2>2
<1> QED  BY <1>3, <1>4 DEF CountOK, c

LEMMA CountIsNext == (FieldsOK => CountOK)'
BY CountIs, PTL

\* Without a loss all are kept.
LEMMA AllKept ==
  ASSUME FieldsOK, lost = {}
  PROVE  KeptCount = Len(accepted) /\ First(KeptCount) = accepted
<1>1. accepted \in Seq(Waiting) /\ Len(accepted) \in Nat /\ Len(accepted) \in 0..Len(accepted)
  BY DEF FieldsOK
<1>2. Kept(Len(accepted))
  BY DEF Kept
<1>3. KeptCount = Len(accepted)
  BY <1>1, <1>2, CountIs DEF CountOK
<1>4. SubSeq(accepted, 1, Len(accepted)) = accepted
  BY <1>1, FrontOfItself
<1> QED  BY <1>3, <1>4 DEF First

LEMMA AllKeptNext ==
  (FieldsOK /\ lost = {} => KeptCount = Len(accepted) /\ First(KeptCount) = accepted)'
<1>1. FieldsOK /\ lost = {} => KeptCount = Len(accepted) /\ First(KeptCount) = accepted
  BY AllKept
<1> QED  BY <1>1, PTL

----------------------------------------------------------------------------
(* The receiver of a Link, as Framing with a peer whose writes are in the   *)
(* stream as soon as putq took them.  That some of their bytes have not been *)
(* sent yet only makes recv give fewer.  Once a rest was dropped, the writes *)
(* are those before it, and something else follows them in the stream.      *)

Arriving == IF lost = {} THEN OutOf(accepted) ELSE stream
Promised == WritesOf(First(KeptCount))

Whole ==
  INSTANCE FramingProofs WITH
    Msgs <- Datas, Junk <- {}, MaxWrites <- MaxMsgs,
    stream <- Arriving, written <- Promised,
    ended <- ~open, queue <- requests

\* What Whole assumes of its constants.
LEMMA WholeAssumptions ==
  /\ Whole!ByteAssumption
  /\ Whole!InputAssumption
<1>1. Whole!ByteAssumption
  BY ByteAssumption DEF Whole!ByteAssumption, Whole!PKG_TAIL, PKG_TAIL
<1>2. Byte = Whole!Byte
  BY DEF Byte, Whole!Byte
<1>3. Datas \subseteq Seq(Byte)
  BY DataType DEF Datas
<1> QED  BY <1>1, <1>2, <1>3, SizesAssumption DEF Whole!InputAssumption

\* The operators of ParsePkg are the same in all three.
LEMMA SameFormat ==
  /\ MIN_PKG_SIZE = Whole!MIN_PKG_SIZE /\ MAX_PKG_SIZE = Whole!MAX_PKG_SIZE
  /\ \A d : mkMsg(d) = Whole!mkMsg(d)
  /\ \A m : (Receiver!Finished(m) <=> Whole!Finished(m))
            /\ (Receiver!Invalid(m) <=> Whole!Invalid(m))
            /\ Receiver!BlockSize(m) = Whole!BlockSize(m)
  /\ Receiver!NewBlock = Whole!NewBlock
  /\ (Receiver!InRecv <=> Whole!InRecv)
  /\ Receiver!Space = Whole!Space
BY DEF MIN_PKG_SIZE, Whole!MIN_PKG_SIZE, Receiver!MIN_PKG_SIZE,
       MAX_PKG_SIZE, Whole!MAX_PKG_SIZE,
       PKG_HEAD, Whole!PKG_HEAD, Receiver!PKG_HEAD,
       PKG_TAIL, Whole!PKG_TAIL, Receiver!PKG_TAIL,
       mkMsg, Whole!mkMsg, Receiver!Finished, Whole!Finished,
       Receiver!HasLen, Whole!HasLen, Receiver!HeadOK, Whole!HeadOK,
       Receiver!MsgLen, Whole!MsgLen, Receiver!Invalid, Whole!Invalid,
       Receiver!BlockSize, Whole!BlockSize, Receiver!NewBlock, Whole!NewBlock,
       Receiver!InRecv, Whole!InRecv, Receiver!Space, Whole!Space

----------------------------------------------------------------------------
(* The inductive invariant of a Link.                                       *)

\* Even when two threads met in the queue, what was sent before is a prefix, and
\* the stream is what was sent.
StreamOK ==
  /\ lost = {} => IsPrefix(sent, AllBytes(accepted))
  /\ lost # {} =>
       \A n \in DOMAIN accepted : Kept(n) => IsPrefix(AllBytes(First(n)), sent)
  /\ stream \in Seq(Byte) /\ DOMAIN stream = DOMAIN sent
  /\ \A n \in 1..Len(sent) : stream[n] = Wire(sent[n])

LinkInv ==
  /\ SendInv /\ StreamOK /\ recvd <= Len(stream)
  /\ Whole!PInv /\ (lost = {} => Whole!NothingElse)

\* What has been sent is the beginning of what arrives.
StreamArrives ==
  /\ Len(stream) = Len(sent) /\ Len(sent) \in Nat /\ stream \in Seq(Byte)
  /\ Arriving \in Seq(Byte) /\ Len(stream) <= Len(Arriving) /\ Len(Arriving) \in Nat
  /\ \A n \in 1..Len(stream) : Arriving[n] = stream[n]

\* And so are the first kept messages.
FrontArrives ==
  \A n \in 0..Len(accepted) :
    Kept(n) =>
      /\ AllBytes(First(n)) \in Seq(WireByte)
      /\ Len(AllBytes(First(n))) <= Len(Arriving)
      /\ \A k \in 1..Len(AllBytes(First(n))) : Arriving[k] = Wire(AllBytes(First(n))[k])

LEMMA WhatArrives == FieldsOK /\ StreamOK => StreamArrives /\ FrontArrives
<1> SUFFICES ASSUME FieldsOK, StreamOK PROVE StreamArrives /\ FrontArrives
  OBVIOUS
<1> DEFINE all == AllBytes(accepted)
<1>1. accepted \in Seq(Waiting) /\ sent \in Seq(WireByte) /\ Len(accepted) \in Nat
  BY DEF FieldsOK
<1>2. all \in Seq(WireByte)
  BY <1>1, PartsType
<1>3. /\ OutOf(accepted) \in Seq(Byte) /\ Len(OutOf(accepted)) = Len(all)
      /\ \A n \in 1..Len(all) : OutOf(accepted)[n] = Wire(all[n])
  BY <1>1, OutOfType
<1>4. /\ Len(stream) = Len(sent) /\ Len(sent) \in Nat /\ stream \in Seq(Byte)
      /\ \A n \in 1..Len(sent) : stream[n] = Wire(sent[n])
  <2>1. DOMAIN stream = 1..Len(sent) /\ Len(sent) \in Nat /\ stream \in Seq(Byte)
    BY <1>1 DEF StreamOK
  <2> QED  BY <2>1 DEF StreamOK
<1>5. ASSUME NEW n \in 0..Len(accepted)
      PROVE  /\ AllBytes(First(n)) \in Seq(WireByte)
             /\ IsPrefix(AllBytes(First(n)), all)
             /\ n = 0 => AllBytes(First(n)) = <<>>
  <2>1. n \in Nat /\ n <= Len(accepted) /\ Len(accepted) \in n..Len(accepted)
    BY <1>1
  <2>2. SubSeq(accepted, 1, Len(accepted)) = accepted
    BY <1>1, FrontOfItself
  <2>3. /\ AllBytes(SubSeq(accepted, 1, n)) \in Seq(WireByte)
        /\ IsPrefix(AllBytes(SubSeq(accepted, 1, n)), AllBytes(SubSeq(accepted, 1, Len(accepted))))
    BY <1>1, <2>1, FrontBytes
  <2>4. n = 0 => SubSeq(accepted, 1, n) = <<>>
    OBVIOUS
  <2> QED  BY <2>2, <2>3, <2>4, AllBytesEmpty DEF First
<1>6. CASE lost = {}
  <2>1. Arriving = OutOf(accepted)
    BY <1>6 DEF Arriving
  <2>2. Len(sent) <= Len(all) /\ \A n \in 1..Len(sent) : all[n] = sent[n]
    BY <1>1, <1>2, <1>6, PrefixByElement DEF StreamOK
  <2>3. StreamArrives
    <3>1. \A n \in 1..Len(stream) : n \in 1..Len(all) /\ n \in 1..Len(sent)
      BY <1>2, <1>4, <2>2
    <3>2. \A n \in 1..Len(stream) : Arriving[n] = stream[n]
      BY <1>3, <1>4, <2>1, <2>2, <3>1
    <3> QED  BY <1>2, <1>3, <1>4, <2>1, <2>2, <3>2 DEF StreamArrives
  <2>4. ASSUME NEW n \in 0..Len(accepted)
        PROVE  /\ Len(AllBytes(First(n))) <= Len(Arriving)
               /\ \A k \in 1..Len(AllBytes(First(n))) : Arriving[k] = Wire(AllBytes(First(n))[k])
    <3> DEFINE x == AllBytes(First(n))
    <3>1. x \in Seq(WireByte) /\ IsPrefix(x, all)
      BY <1>5
    <3> HIDE DEF x, all
    <3>2. Len(x) <= Len(all) /\ \A k \in 1..Len(x) : all[k] = x[k]
      BY <1>2, <3>1, PrefixByElement
    <3>3. \A k \in 1..Len(x) : k \in 1..Len(all)
      BY <1>2, <3>1, <3>2
    <3> QED  BY <1>3, <2>1, <3>2, <3>3 DEF x
  <2> QED  BY <1>5, <2>3, <2>4 DEF FrontArrives
<1>7. CASE lost # {}
  <2>1. Arriving = stream
    BY <1>7 DEF Arriving
  <2>2. StreamArrives
    BY <1>4, <2>1 DEF StreamArrives
  <2>4. ASSUME NEW n \in 0..Len(accepted), Kept(n)
        PROVE  /\ Len(AllBytes(First(n))) <= Len(Arriving)
               /\ \A k \in 1..Len(AllBytes(First(n))) : Arriving[k] = Wire(AllBytes(First(n))[k])
    <3> DEFINE x == AllBytes(First(n))
    <3>1. x \in Seq(WireByte) /\ (n = 0 => x = <<>>)
      BY <1>5
    <3>2. IsPrefix(x, sent) \/ x = <<>>
      <4>1. CASE n = 0
        BY <3>1, <4>1
      <4>2. CASE n # 0
        <5>1. n \in DOMAIN accepted
          BY <1>1, <4>2
        <5> QED  BY <1>7, <2>4, <5>1 DEF StreamOK
      <4> QED  BY <4>1, <4>2
    <3> HIDE DEF x
    <3>3. Len(x) <= Len(sent) /\ \A k \in 1..Len(x) : sent[k] = x[k]
      <4>1. CASE IsPrefix(x, sent)
        BY <1>1, <3>1, <4>1, PrefixByElement
      <4>2. CASE x = <<>>
        <5>1. Len(x) = 0
          BY <4>2
        <5> QED  BY <1>4, <5>1
      <4> QED  BY <3>2, <4>1, <4>2
    <3>4. \A k \in 1..Len(x) : k \in 1..Len(sent)
      BY <1>4, <3>1, <3>3
    <3> QED  BY <1>4, <2>1, <3>3, <3>4 DEF x
  <2> QED  BY <1>5, <2>2, <2>4 DEF FrontArrives
<1> QED  BY <1>6, <1>7

LEMMA WhatArrivesNext == (FieldsOK /\ StreamOK => StreamArrives /\ FrontArrives)'
BY WhatArrives, PTL

LEMMA InitLink == LinkInit => LinkInv
<1> SUFFICES ASSUME LinkInit PROVE LinkInv
  OBVIOUS
<1>1. SendInv
  BY InitSend DEF LinkInit
<1>2. Init /\ Receiver!Init
  BY DEF LinkInit
<1>3. AllBytes(accepted) = <<>> /\ sent = <<>> /\ accepted = <<>> /\ lost = {}
      /\ First(KeptCount) = accepted
  BY <1>1, <1>2, AllBytesEmpty, AllKept DEF Init, SendInv
<1>0. stream = <<>> /\ recvd = 0
  BY <1>2 DEF Receiver!Init
<1>4. StreamOK
  <2>2. IsPrefix(sent, AllBytes(accepted))
    BY <1>2, <1>1, <1>3 DEF SendInv, StreamIntact, Init
  <2>3. Len(sent) = 0 /\ stream \in Seq(Byte)
    BY <1>3, <1>0
  <2> QED  BY <1>3, <1>0, <2>2, <2>3 DEF StreamOK
<1>5. Whole!Init
  <2>1. Arriving = <<>>
    BY <1>3 DEF OutOf, Arriving
  <2>2. Promised = <<>>
    <3>1. WritesOf(<<>>) = <<>>
      BY DEF WritesOf
    <3> QED  BY <1>3, <3>1 DEF Promised
  <2>3. open = TRUE
    BY <1>2 DEF Init
  <2>4. /\ recvd = 0 /\ block = Receiver!NewBlock /\ pc = "wait" /\ errno = "other"
        /\ requests = <<>>
    BY <1>2 DEF Receiver!Init
  <2> QED  BY <2>1, <2>2, <2>3, <2>4, SameFormat DEF Whole!Init
<1>6. Whole!PInv /\ Whole!NothingElse
  <2>1. Whole!IInv
    BY <1>5, WholeAssumptions, Whole!InitIInv
  <2> QED  BY <2>1 DEF Whole!IInv
<1>7. recvd <= Len(stream)
  <2>1. Len(stream) = 0
    BY <1>0
  <2> QED  BY <1>0, <2>1
<1> QED  BY <1>1, <1>4, <1>6, <1>7 DEF LinkInv

\* What the receiver needs of the sender stays as it is.
LEMMA SenderStands ==
  ASSUME LinkInv, UNCHANGED <<sendVars, stream>>
  PROVE  /\ SendInv' /\ StreamOK'
         /\ UNCHANGED <<Arriving, Promised, open, lost>>
<1>1. SendInv'
  BY NextSend DEF LinkInv, sendVars
<1>2. UNCHANGED <<accepted, lost, open, sent, stream>>
  BY DEF sendVars, vars
<1>3. StreamOK'
  BY <1>2 DEF LinkInv, StreamOK, Kept, First
<1>4. KeptCount' = KeptCount
  <2>1. CountOK /\ CountOK' /\ Len(accepted) \in Nat
    BY <1>1, CountIs, CountIsNext DEF LinkInv, SendInv, FieldsOK
  <2> DEFINE c == KeptCount
             d == KeptCount'
  <2>2. c \in 0..Len(accepted) /\ d \in 0..Len(accepted)
    BY <1>2, <2>1 DEF CountOK
  <2>3. \A n \in 0..Len(accepted) : Kept(n)' <=> Kept(n)
    BY <1>2 DEF Kept
  <2>4. /\ \A n \in 0..Len(accepted) : Kept(n) <=> n <= c
        /\ \A n \in 0..Len(accepted) : Kept(n)' <=> n <= d
    BY <1>2, <2>1 DEF CountOK
  <2> HIDE DEF c, d
  <2>5. c <= d /\ d <= c
    BY <2>1, <2>2, <2>3, <2>4
  <2> QED  BY <2>1, <2>2, <2>5 DEF c, d
<1>5. Arriving' = Arriving
  BY <1>2 DEF Arriving
<1>6. Promised' = Promised
  BY <1>2, <1>4 DEF Promised, First
<1> QED  BY <1>1, <1>2, <1>3, <1>5, <1>6

\* A recv of the Link is one of Whole.
LEMMA RecvOfWhole ==
  ASSUME LinkInv, UNCHANGED <<sendVars, stream>>,
         NEW n \in 1..Receiver!Space, Receiver!Recv(n)
  PROVE  /\ Whole!Recv(n) /\ Receiver!After(n) = Whole!After(n) /\ n \in 1..Whole!Space
         /\ recvd' <= Len(stream')
<1>1. /\ Receiver!InRecv /\ n <= Receiver!Space /\ n <= Len(stream) - recvd
      /\ recvd' = recvd + n /\ errno' = errno
  BY DEF Receiver!Recv
<1>2. /\ Len(stream) \in Nat /\ Len(Arriving) \in Nat /\ Len(stream) <= Len(Arriving)
      /\ Arriving \in Seq(Byte)
      /\ \A k \in 1..Len(stream) : Arriving[k] = stream[k]
  BY WhatArrives DEF LinkInv, SendInv, StreamArrives
<1>3. /\ recvd \in Nat /\ block.bytes \in Seq(Byte) /\ Receiver!Space \in Int
  <2>1. recvd \in 0..Len(Arriving)
    BY DEF LinkInv, Whole!PInv, Whole!TypeOK
  <2>2. block \in [size : Whole!MIN_PKG_SIZE..Whole!MAX_PKG_SIZE, bytes : Seq(Whole!Byte)]
    BY DEF LinkInv, Whole!PInv, Whole!TypeOK
  <2>3. block.bytes \in Seq(Byte) /\ block.size \in Int
    <3>1. Byte = Whole!Byte
      BY DEF Byte, Whole!Byte
    <3> QED  BY <2>2, <3>1
  <2>4. Receiver!Space \in Int
    BY <2>3 DEF Receiver!Space
  <2> QED  BY <1>2, <2>1, <2>3, <2>4
<1>4. n \in Nat /\ 1 <= n
  BY <1>3
<1>5. n <= Len(Arriving) - recvd
  BY <1>1, <1>2, <1>3, <1>4
<1>6. UNCHANGED <<Arriving, Promised, ~open>>
  BY SenderStands
<1>7. Whole!Recv(n)
  BY <1>1, <1>5, <1>6, SameFormat DEF Whole!Recv, Whole!peerVars
<1>8. SubSeq(stream, recvd + 1, recvd + n) = SubSeq(Arriving, recvd + 1, recvd + n)
  <2> DEFINE a == SubSeq(stream, recvd + 1, recvd + n)
             b == SubSeq(Arriving, recvd + 1, recvd + n)
  <2>1. \A i \in (recvd + 1)..(recvd + n) :
          /\ i \in 1..Len(stream) /\ i \in 1..Len(Arriving)
          /\ stream[i] = Arriving[i]
          /\ Arriving[i] \in Byte
    BY <1>1, <1>2, <1>3, <1>4, ElementOfSeq
  <2>2. recvd + 1 \in Int /\ recvd + n \in Int /\ recvd + 1 <= recvd + n
    BY <1>3, <1>4
  <2>3. /\ a \in Seq(Byte)
        /\ Len(a) = IF recvd + 1 <= recvd + n THEN (recvd + n) - (recvd + 1) + 1 ELSE 0
        /\ \A i \in 1..((recvd + n) - (recvd + 1) + 1) : a[i] = stream[(recvd + 1) + i - 1]
    BY <2>1, <2>2, SubSeqProperties
  <2>4. /\ b \in Seq(Byte)
        /\ Len(b) = IF recvd + 1 <= recvd + n THEN (recvd + n) - (recvd + 1) + 1 ELSE 0
        /\ \A i \in 1..((recvd + n) - (recvd + 1) + 1) :
             b[i] = Arriving[(recvd + 1) + i - 1]
    BY <2>1, <2>2, SubSeqProperties
  <2> HIDE DEF a, b
  <2>5. \A i \in 1..((recvd + n) - (recvd + 1) + 1) :
          (recvd + 1) + i - 1 \in (recvd + 1)..(recvd + n)
    BY <1>3, <1>4
  <2>6. Len(a) = (recvd + n) - (recvd + 1) + 1 /\ Len(b) = (recvd + n) - (recvd + 1) + 1
    BY <2>2, <2>3, <2>4
  <2>7. \A i \in 1..((recvd + n) - (recvd + 1) + 1) : a[i] = b[i]
    BY <2>1, <2>3, <2>4, <2>5
  <2>8. a = b
    BY <2>3, <2>4, <2>6, <2>7, SeqEqual
  <2> QED  BY <2>8 DEF a, b
<1>9. Receiver!After(n) = Whole!After(n)
  BY <1>8 DEF Receiver!After, Whole!After
<1>10. recvd' <= Len(stream')
  BY <1>1, <1>2, <1>3, <1>4
<1> QED  BY <1>4, <1>7, <1>9, <1>10, SameFormat

\* What a step of the receiver does, seen in Whole, keeps its part of the invariant.
WholeOK == Whole!PInv /\ (lost = {} => Whole!NothingElse)

LEMMA WholeSteps ==
  ASSUME WholeOK, UNCHANGED lost
  PROVE  /\ \A n \in 1..Whole!Space :
              Whole!PutMessage(n) \/ Whole!RefuseData(n) \/ Whole!KeepReading(n) => WholeOK'
         /\ /\ UNCHANGED <<Arriving, Promised, recvd, block, requests>>
            /\ (~open)' \in BOOLEAN /\ errno' \in {"ETIME", "other"}
            /\ pc' \in {"wait", "first", "again", "closed"} /\ (pc = "closed" => pc' = "closed")
            => WholeOK'
<1>1. Whole!PInv /\ (lost = {} => Whole!IInv)
  BY DEF WholeOK, Whole!IInv
<1>2. Whole!PInv' /\ (lost = {} => Whole!IInv') => WholeOK'
  BY DEF WholeOK, Whole!IInv
<1>3. ASSUME NEW n \in 1..Whole!Space, Whole!PutMessage(n) PROVE WholeOK'
  <2>1. Whole!PInv'
    BY <1>1, <1>3, WholeAssumptions, Whole!PutMessagePInv
  <2>2. ASSUME lost = {} PROVE Whole!IInv'
    BY <1>1, <1>3, <2>2, WholeAssumptions, Whole!PutMessageIInv
  <2> QED  BY <1>2, <2>1, <2>2
<1>4. ASSUME NEW n \in 1..Whole!Space, Whole!RefuseData(n) PROVE WholeOK'
  <2>1. Whole!PInv'
    BY <1>1, <1>4, WholeAssumptions, Whole!RefuseDataPInv
  <2>2. ASSUME lost = {} PROVE Whole!IInv'
    BY <1>1, <1>4, <2>2, WholeAssumptions, Whole!RefuseDataIInv
  <2> QED  BY <1>2, <2>1, <2>2
<1>5. ASSUME NEW n \in 1..Whole!Space, Whole!KeepReading(n) PROVE WholeOK'
  <2>1. Whole!PInv'
    BY <1>1, <1>5, WholeAssumptions, Whole!KeepReadingPInv
  <2>2. ASSUME lost = {} PROVE Whole!IInv'
    BY <1>1, <1>5, <2>2, WholeAssumptions, Whole!KeepReadingIInv
  <2> QED  BY <1>2, <2>1, <2>2
<1>6. ASSUME UNCHANGED <<Arriving, Promised, recvd, block, requests>>,
             (~open)' \in BOOLEAN, errno' \in {"ETIME", "other"},
             pc' \in {"wait", "first", "again", "closed"}, pc = "closed" => pc' = "closed"
      PROVE  WholeOK'
  <2>1. Whole!PInv'
    BY <1>1, <1>6, WholeAssumptions, Whole!QuietPInv
  <2>2. ASSUME lost = {} PROVE Whole!IInv'
    BY <1>1, <1>6, <2>2, WholeAssumptions, Whole!QuietIInv
  <2> QED  BY <1>2, <2>1, <2>2
<1> QED  BY <1>3, <1>4, <1>5, <1>6

\* The receiver reads on while the sender stands still.
LEMMA ReceiverStepLink ==
  ASSUME LinkInv, ReceiverStep
  PROVE  LinkInv'
<1>1. UNCHANGED sendVars /\ stream' = stream
  BY DEF ReceiverStep, Receives, RecvFails, Receiver!Receiver, Receiver!HandleInput,
         Receiver!RecvSome, Receiver!PutMessage, Receiver!RefuseData, Receiver!KeepReading,
         Receiver!Recv, Receiver!TimedOut, Receiver!EndOfStream, Receiver!RecvFails,
         Receiver!peerVars
<1>2. /\ SendInv' /\ StreamOK'
      /\ UNCHANGED <<Arriving, Promised, open, lost>>
  BY <1>1, SenderStands
<1>3. WholeOK
  BY DEF LinkInv, WholeOK
<1>5. /\ pc \in {"wait", "first", "again", "closed"} /\ errno \in {"ETIME", "other"}
  BY DEF LinkInv, Whole!PInv, Whole!TypeOK
<1>6. ASSUME NEW n \in 1..Receiver!Space,
             Receiver!PutMessage(n) \/ Receiver!RefuseData(n) \/ Receiver!KeepReading(n)
      PROVE  WholeOK' /\ recvd' <= Len(stream')
  <2>1. Receiver!Recv(n)
    BY <1>6 DEF Receiver!PutMessage, Receiver!RefuseData, Receiver!KeepReading
  <2>2. /\ Whole!Recv(n) /\ Receiver!After(n) = Whole!After(n) /\ n \in 1..Whole!Space
        /\ recvd' <= Len(stream')
    BY <1>1, <2>1, RecvOfWhole
  <2>3. Whole!PutMessage(n) \/ Whole!RefuseData(n) \/ Whole!KeepReading(n)
    <3>3. CASE Receiver!PutMessage(n)
      BY <2>2, <3>3, SameFormat DEF Receiver!PutMessage, Whole!PutMessage
    <3>4. CASE Receiver!RefuseData(n)
      BY <2>2, <3>4, SameFormat DEF Receiver!RefuseData, Whole!RefuseData
    <3>5. CASE Receiver!KeepReading(n)
      BY <2>2, <3>5, SameFormat DEF Receiver!KeepReading, Whole!KeepReading
    <3> QED  BY <1>6, <3>3, <3>4, <3>5
  <2> QED  BY <1>2, <1>3, <2>2, <2>3, WholeSteps
<1>7. ASSUME Receiver!HandleInput \/ Receiver!TimedOut \/ Receiver!EndOfStream
             \/ Receiver!RecvFails
      PROVE  WholeOK' /\ recvd' <= Len(stream')
  <2>1. /\ UNCHANGED <<recvd, block, requests>>
        /\ errno' \in {"ETIME", "other"} /\ pc' \in {"wait", "first", "again", "closed"}
        /\ pc # "closed"
    BY <1>5, <1>7 DEF Receiver!HandleInput, Receiver!TimedOut, Receiver!EndOfStream,
                     Receiver!RecvFails, Receiver!InRecv
  <2>2. (~open)' \in BOOLEAN
    OBVIOUS
  <2>3. WholeOK'
    BY <1>2, <1>3, <2>1, <2>2, WholeSteps
  <2> QED  BY <1>1, <2>1, <2>3 DEF LinkInv
<1>8. WholeOK' /\ recvd' <= Len(stream')
  BY <1>6, <1>7 DEF ReceiverStep, Receives, RecvFails, Receiver!Receiver, Receiver!RecvSome
<1> QED  BY <1>2, <1>8 DEF LinkInv, WholeOK

\* What was sent stays sent, what was dropped stays dropped, and a data race leaves
\* all of it alone.
LEMMA SentGrows ==
  ASSUME SendInv, Next
  PROVE  /\ Len(sent) <= Len(sent') /\ \A n \in 1..Len(sent) : sent'[n] = sent[n]
         /\ lost \subseteq lost'
         /\ fault' => UNCHANGED <<accepted, sent, lost>>
<1>1. /\ sent \in Seq(WireByte) /\ Len(sent) \in Nat
  BY DEF SendInv, FieldsOK
<1>2. ASSUME NEW b \in Seq(WireByte), sent' = sent \o b
      PROVE  Len(sent) <= Len(sent') /\ \A n \in 1..Len(sent) : sent'[n] = sent[n]
  <2> DEFINE c == sent \o b
  <2>1. /\ Len(c) = Len(sent) + Len(b) /\ Len(b) \in Nat
        /\ \A n \in 1..(Len(sent) + Len(b)) :
             c[n] = IF n <= Len(sent) THEN sent[n] ELSE b[n - Len(sent)]
    BY <1>1, ConcatProperties
  <2> HIDE DEF c
  <2>2. Len(sent) <= Len(c) /\ \A n \in 1..Len(sent) : c[n] = sent[n]
    BY <1>1, <2>1
  <2> QED  BY <1>2, <2>2 DEF c
<1>3. CASE SendSome
  <2>1. At("send") /\ fault' = fault /\ ~fault
    BY <1>3 DEF SendSome, SendAll, SendPart, At
  <2>2. output.mb \in Waiting /\ Bytes(output.mb) \in Seq(WireByte)
    BY <2>1, MessageInHand
  <2>3. PICK b \in Seq(WireByte) : sent' = sent \o b
    <3>1. CASE SendAll
      BY <2>2, <3>1 DEF SendAll
    <3>2. ASSUME NEW k \in 1..(Rest(output.mb) - 1), SendPart(k)
          PROVE  \E b \in Seq(WireByte) : sent' = sent \o b
      <4>1. k \in Nat /\ 1 <= k /\ k < Rest(output.mb)
            /\ sent' = sent \o SubSeq(Bytes(output.mb), 1, k)
        BY <3>2 DEF SendPart
      <4>2. SubSeq(Bytes(output.mb), 1, k) \in Seq(WireByte)
        BY <2>2, <4>1, SplitBytes
      <4> QED  BY <4>1, <4>2
    <3> QED  BY <1>3, <3>1, <3>2 DEF SendSome
  <2>4. lost \subseteq lost'
    BY <1>3 DEF SendSome, SendAll, SendPart, Ungetq
  <2> QED  BY <1>2, <2>1, <2>3, <2>4
<1>4. CASE ~SendSome
  <2>1. CASE WouldBlock
    BY <1>1, <2>1 DEF WouldBlock, Ungetq, At
  <2>2. CASE ~WouldBlock
    BY <1>1, <1>4, <2>2
    DEF Next, HandleOutput, WriteReturns, Dispatch, Getq, SendFails, HandleClose, IsEmpty,
        CancelWakeup, ScheduleWakeup, Race, Putq, PutqReturns, PutqRefused, Register, At
  <2> QED  BY <2>1, <2>2
<1> QED  BY <1>3, <1>4

\* Only putq adds to the messages, while the connection is open; it drops nothing.
LEMMA AcceptedChanges ==
  ASSUME SendInv, Next
  PROVE  /\ open' \in BOOLEAN
         /\ \/ accepted' = accepted
            \/ /\ open' = open /\ lost' = lost /\ ~fault
               /\ \E m \in Waiting : m.off = 0 /\ accepted' = Append(accepted, m)
<1>1. open' \in BOOLEAN
  BY NextSend DEF SendInv, FieldsOK
<1>2. ASSUME NEW w \in Writers, PutqReturns(w)
      PROVE  /\ open' = open /\ lost' = lost /\ ~fault
             /\ \E m \in Waiting : m.off = 0 /\ accepted' = Append(accepted, m)
  BY <1>2 DEF PutqReturns, SendInv, WritersOK
<1>3. ASSUME \A w \in Writers : ~PutqReturns(w) PROVE accepted' = accepted
  BY <1>1, <1>3 DEF Next, HandleOutput, WriteReturns, SendSome, SendAll, SendPart, Dispatch, Getq,
              WouldBlock, SendFails, HandleClose, IsEmpty, CancelWakeup, ScheduleWakeup, Race,
              Putq, PutqRefused, Register
<1> QED  BY <1>1, <1>2, <1>3

\* The stream has the values of what was sent.
LEMMA StreamOfSent ==
  ASSUME LinkInv, SenderStep
  PROVE  /\ SendInv' /\ StreamOK' /\ recvd <= Len(stream')
         /\ Len(stream) <= Len(stream') /\ \A k \in 1..Len(stream) : stream'[k] = stream[k]
<1>1. /\ Next /\ UNCHANGED <<recvd, block, pc, errno, requests>>
      /\ stream' = [n \in DOMAIN sent' |->
                      IF n \in DOMAIN stream THEN stream[n] ELSE Wire(sent'[n])]
  BY DEF SenderStep, recvVars
<1>2. SendInv'
  BY <1>1, NextSend DEF LinkInv
<1>3. /\ sent \in Seq(WireByte) /\ Len(sent) \in Nat /\ DOMAIN sent = 1..Len(sent)
      /\ sent' \in Seq(WireByte) /\ Len(sent') \in Nat /\ DOMAIN sent' = 1..Len(sent')
      /\ \A n \in 1..Len(sent') : sent'[n] \in WireByte
      /\ Len(accepted) \in Nat /\ DOMAIN accepted = 1..Len(accepted)
  <2>1. sent \in Seq(WireByte) /\ sent' \in Seq(WireByte) /\ accepted \in Seq(Waiting)
    BY <1>2 DEF LinkInv, SendInv, FieldsOK
  <2> QED  BY <2>1
<1>4. /\ Len(sent) <= Len(sent') /\ \A n \in 1..Len(sent) : sent'[n] = sent[n]
      /\ fault' => UNCHANGED <<accepted, sent, lost>>
  BY <1>1, SentGrows DEF LinkInv
<1>5. /\ stream \in Seq(Byte) /\ Len(stream) = Len(sent) /\ DOMAIN stream = 1..Len(sent)
      /\ \A n \in 1..Len(sent) : stream[n] = Wire(sent[n])
      /\ \A n \in 1..Len(sent) : stream[n] \in Byte
  BY <1>3, ElementOfSeq DEF LinkInv, StreamOK
<1>6. ASSUME NEW n \in 1..Len(sent')
      PROVE  /\ stream'[n] = Wire(sent'[n]) /\ stream'[n] \in Byte
             /\ n \in 1..Len(stream) => stream'[n] = stream[n]
  <2>1. stream'[n] = IF n \in DOMAIN stream THEN stream[n] ELSE Wire(sent'[n])
    BY <1>1, <1>3
  <2>2. Wire(sent'[n]) \in Byte
    BY <1>3, WireType
  <2> QED  BY <1>4, <1>5, <2>1, <2>2
<1>7. DOMAIN stream' = 1..Len(sent')
  BY <1>1, <1>3
<1>8. stream' \in [1..Len(sent') -> Byte]
  BY <1>1, <1>3, <1>6, <1>7
<1>9. stream' \in Seq(Byte) /\ Len(stream') = Len(sent')
  BY <1>3, <1>8, SeqDef, LenProperties
<1>10. StreamOK'
  <2>1. /\ lost' = {} => IsPrefix(sent', AllBytes(accepted'))
        /\ lost' # {} =>
             \A n \in DOMAIN accepted' : Kept(n)' => IsPrefix(AllBytes(First(n)'), sent')
    <3>1. CASE fault'
      <4>1. UNCHANGED <<accepted, sent, lost>>
        BY <1>4, <3>1
      <4> QED  BY <4>1 DEF LinkInv, StreamOK, Kept, First
    <3>2. CASE ~fault'
      BY <1>2, <3>2 DEF SendInv, StreamIntact, First
    <3> QED  BY <3>1, <3>2
  <2> QED  BY <1>3, <1>6, <1>7, <1>9, <2>1 DEF StreamOK
<1>11. recvd <= Len(stream')
  <2>1. recvd \in 0..Len(Arriving)
    BY DEF LinkInv, Whole!PInv, Whole!TypeOK
  <2>2. recvd \in Int
    BY <2>1
  <2> QED  BY <1>3, <1>4, <1>5, <1>9, <2>2 DEF LinkInv
<1> QED  BY <1>2, <1>3, <1>4, <1>5, <1>6, <1>9, <1>10, <1>11

\* As long as no rest was dropped, the stream grows by whole messages.
LEMMA StreamGrowsLink ==
  ASSUME LinkInv, SenderStep, lost' = {}
  PROVE  Whole!PInv' /\ Whole!NothingElse'
<1>1. /\ Next /\ UNCHANGED <<recvd, block, pc, errno, requests>>
  BY DEF SenderStep, recvVars
<1>2. lost = {}
  BY <1>1, SentGrows DEF LinkInv
<1>3. Whole!IInv
  BY <1>2 DEF LinkInv, Whole!IInv
<1>4. FieldsOK /\ FieldsOK'
  BY <1>1, NextSend DEF LinkInv, SendInv
<1>5. Arriving = OutOf(accepted) /\ Promised = WritesOf(accepted)
  BY <1>2, <1>4, AllKept DEF Arriving, Promised
<1>6. Arriving' = OutOf(accepted') /\ Promised' = WritesOf(accepted')
  <2>1. First(KeptCount)' = accepted'
    BY <1>4, AllKeptNext
  <2> QED  BY <2>1 DEF Arriving, Promised
<1>7. Whole!IInv'
  <2>0. /\ open' \in BOOLEAN
        /\ pc \in {"wait", "first", "again", "closed"} /\ errno \in {"ETIME", "other"}
    BY <1>1, AcceptedChanges DEF LinkInv, Whole!PInv, Whole!TypeOK
  <2>1. CASE accepted' = accepted
    <3>1. UNCHANGED <<Arriving, Promised>>
      BY <1>5, <1>6, <2>1
    <3>2. (~open)' \in BOOLEAN
      OBVIOUS
    <3> QED  BY <1>1, <1>3, <2>0, <3>1, <3>2, WholeAssumptions, Whole!QuietIInv
  <2>2. ASSUME NEW m \in Waiting, m.off = 0, accepted' = Append(accepted, m), open' = open
        PROVE  Whole!IInv'
    <3> DEFINE w == [junk |-> FALSE, data |-> Data(m.id, m.size),
                     end |-> Len(AllBytes(Append(accepted, m)))]
    <3>1. accepted \in Seq(Waiting)
      BY <1>4 DEF FieldsOK
    <3>2. /\ OutOf(Append(accepted, m)) = OutOf(accepted) \o Encoded(m)
          /\ WritesOf(Append(accepted, m)) = Append(WritesOf(accepted), w)
      BY <2>2, <3>1, OutOfAppend, WritesOfAppend
    <3>3. /\ m.id \in 1..MaxMsgs /\ m.size \in Sizes
      BY MsgFields DEF Waiting
    <3>4. /\ Encoded(m) \in Seq(Byte) /\ OutOf(accepted) \in Seq(Byte)
          /\ AllBytes(Append(accepted, m)) \in Seq(WireByte)
          /\ Len(OutOf(Append(accepted, m))) = Len(AllBytes(Append(accepted, m)))
      <4>1. Append(accepted, m) \in Seq(Waiting)
        BY <3>1, AppendProperties
      <4> QED  BY <3>1, <3>3, <4>1, EncodedType, OutOfType, PartsType
    <3>5. Whole!Bytes(w) = Encoded(m)
      BY SameFormat DEF Whole!Bytes, Encoded
    <3>6. w.end = Len(OutOf(accepted)) + Len(Encoded(m))
      <4>1. Len(OutOf(accepted) \o Encoded(m)) = Len(OutOf(accepted)) + Len(Encoded(m))
        BY <3>4, ConcatProperties
      <4> QED  BY <3>2, <3>4, <4>1
    <3>7. w \in [junk : BOOLEAN, data : Datas \cup {}, end : Nat]
      <4>1. Data(m.id, m.size) \in Datas
        BY <3>3 DEF Datas
      <4>2. Len(AllBytes(Append(accepted, m))) \in Nat
        BY <3>4
      <4> QED  BY <4>1, <4>2
    <3> HIDE DEF w
    <3>8. /\ Arriving' = Arriving \o Encoded(m) /\ Promised' = Append(Promised, w)
          /\ w.end = Len(Arriving) + Len(Encoded(m))
      BY <1>5, <1>6, <2>2, <3>2, <3>6
    <3>9. Whole!Comes(w)
      BY <1>1, <2>2, <3>5, <3>8 DEF Whole!Comes
    <3> QED
      BY <1>3, <3>5, <3>7, <3>8, <3>9, WholeAssumptions, Whole!StreamGrows
  <2> QED  BY <1>1, <2>1, <2>2, AcceptedChanges DEF LinkInv
<1> QED  BY <1>7 DEF Whole!IInv

\* The messages kept after a step were kept before it, the same ones.
LEMMA FrontStays ==
  ASSUME LinkInv, Next, lost' # {}, NEW c, c = KeptCount'
  PROVE  /\ c \in Nat /\ c <= Len(accepted) /\ c <= KeptCount
         /\ Kept(c) /\ Kept(c)' /\ c \in 0..Len(accepted')
         /\ SubSeq(accepted', 1, c) = SubSeq(accepted, 1, c)
<1>1. SendInv /\ SendInv' /\ FieldsOK /\ FieldsOK'
  BY NextSend DEF LinkInv, SendInv
<1>2. /\ accepted \in Seq(Waiting) /\ Len(accepted) \in Nat
      /\ accepted' \in Seq(Waiting) /\ Len(accepted') \in Nat
  BY <1>1 DEF FieldsOK
<1>3. CountOK /\ CountOK'
  BY <1>1, CountIs, CountIsNext
<1>4. /\ c \in 0..Len(accepted') /\ Kept(c)' /\ c \in Nat
  <2>1. /\ KeptCount' \in 0..Len(accepted')
        /\ \A n \in 0..Len(accepted') : Kept(n)' <=> n <= KeptCount'
    BY <1>3 DEF CountOK
  <2>2. c \in 0..Len(accepted') /\ (Kept(c)' <=> c <= c)
    BY <2>1
  <2> QED  BY <1>2, <2>2
<1>5. \A i \in 1..c : accepted'[i].id \notin lost'
  BY <1>4 DEF Kept
<1>6. lost \subseteq lost'
  BY <1>1, SentGrows
<1>7. /\ c <= Len(accepted) /\ \A i \in 1..c : accepted'[i] = accepted[i]
      /\ SubSeq(accepted', 1, c) = SubSeq(accepted, 1, c)
  <2>1. CASE accepted' = accepted
    BY <1>2, <1>4, <2>1
  <2>2. ASSUME NEW m \in Waiting, accepted' = Append(accepted, m), lost' = lost, ~fault
        PROVE  /\ c <= Len(accepted) /\ \A i \in 1..c : accepted'[i] = accepted[i]
               /\ SubSeq(accepted', 1, c) = SubSeq(accepted, 1, c)
    <3>1. Len(accepted') = Len(accepted) + 1 /\ \A i \in 1..Len(accepted) : accepted'[i] = accepted[i]
      BY <1>2, <2>2, AppendProperties
    <3>2. PICK i \in 1..Len(accepted) : accepted[i].id \in lost
      BY <1>1, <2>2 DEF SendInv, NumbersOK, Ids
    <3>3. c <= Len(accepted)
      <4>1. i \notin 1..c
        BY <1>5, <2>2, <3>1, <3>2
      <4>2. i \in Nat /\ 1 <= i /\ i <= Len(accepted) /\ ~(i <= c)
        BY <1>2, <1>4, <3>2, <4>1
      <4> QED  BY <1>2, <1>4, <4>2
    <3>4. SubSeq(accepted', 1, c) = SubSeq(accepted, 1, c)
      <4>1. CASE c = 0
        <5>1. \A s : SubSeq(s, 1, 0) = <<>>
          OBVIOUS
        <5> QED  BY <4>1, <5>1
      <4>2. CASE c # 0
        <5>1. c \in 1..Len(accepted)
          BY <1>4, <3>3, <4>2
        <5> QED  BY <1>2, <2>2, <5>1, FrontOfAppend
      <4> QED  BY <4>1, <4>2
    <3>5. \A j \in 1..c : j \in 1..Len(accepted)
      BY <1>2, <1>4, <3>3
    <3>6. \A j \in 1..c : accepted'[j] = accepted[j]
      BY <3>1, <3>5
    <3> QED  BY <3>3, <3>4, <3>6
  <2> QED  BY <1>1, <2>1, <2>2, AcceptedChanges
<1>8. Kept(c)
  <2>1. \A i \in 1..c : accepted[i].id \notin lost
    BY <1>5, <1>6, <1>7
  <2> QED  BY <2>1 DEF Kept
<1>9. c <= KeptCount
  <2>1. c \in 0..Len(accepted)
    BY <1>2, <1>4, <1>7
  <2> QED  BY <1>3, <1>8, <2>1 DEF CountOK
<1> QED  BY <1>4, <1>7, <1>8, <1>9

\* Once a rest was dropped, the writes are those of the messages before it.
LEMMA FrontPromised ==
  ASSUME LinkInv, Next, lost' # {}, NEW c, c = KeptCount'
  PROVE  /\ Promised' = SubSeq(Promised, 1, c) /\ c \in 0..Len(Promised)
         /\ \A i \in 1..c : Promised[i] = WriteOf(accepted, i)
<1>1. /\ c \in Nat /\ c <= Len(accepted) /\ c <= KeptCount
      /\ SubSeq(accepted', 1, c) = SubSeq(accepted, 1, c)
  BY FrontStays
<1>2. /\ accepted \in Seq(Waiting) /\ Len(accepted) \in Nat
      /\ KeptCount \in 0..Len(accepted)
  <2>1. FieldsOK
    BY DEF LinkInv, SendInv
  <2> QED  BY <2>1, CountIs DEF CountOK, FieldsOK
<1> DEFINE d == KeptCount
           all == WritesOf(accepted)
<1>3. d \in Nat /\ d <= Len(accepted) /\ c <= d
  BY <1>1, <1>2
<1>4. /\ all \in Seq(Write) /\ Len(all) = Len(accepted)
      /\ \A n \in 1..Len(accepted) : all[n] = WriteOf(accepted, n)
  BY <1>2, WritesOfType
<1>5. Promised = SubSeq(all, 1, d)
  <2>1. WritesOf(SubSeq(accepted, 1, d)) = SubSeq(WritesOf(accepted), 1, d)
    BY <1>2, <1>3, WritesOfFront
  <2> QED  BY <2>1 DEF Promised, First
<1>6. Promised' = SubSeq(all, 1, c)
  <2>1. Promised' = WritesOf(SubSeq(accepted', 1, c))
    BY DEF Promised, First, WritesOf, WriteOf
  <2>2. WritesOf(SubSeq(accepted, 1, c)) = SubSeq(WritesOf(accepted), 1, c)
    BY <1>1, <1>2, WritesOfFront
  <2> QED  BY <1>1, <2>1, <2>2
<1> HIDE DEF d, all
<1>7. /\ Promised \in Seq(Write) /\ Len(Promised) = d
      /\ \A i \in 1..d : Promised[i] = all[i]
      /\ \A i \in 1..d : SubSeq(Promised, 1, i) = SubSeq(all, 1, i)
  <2>1. all \in Seq(Write) /\ d \in Nat /\ d <= Len(all)
    BY <1>3, <1>4
  <2> QED  BY <1>5, <2>1, FrontOfFront
<1>8. SubSeq(Promised, 1, c) = SubSeq(all, 1, c)
  <2>1. CASE c = 0
    <3>1. \A s : SubSeq(s, 1, 0) = <<>>
      OBVIOUS
    <3> QED  BY <2>1, <3>1
  <2>2. CASE c # 0
    <3>1. c \in 1..d
      BY <1>1, <1>3, <2>2
    <3> QED  BY <1>7, <3>1
  <2> QED  BY <2>1, <2>2
<1>9. \A i \in 1..c : i \in 1..d /\ i \in 1..Len(accepted)
  BY <1>1, <1>2, <1>3
<1>10. c \in 0..Len(Promised)
  BY <1>1, <1>3, <1>7
<1> QED  BY <1>4, <1>6, <1>7, <1>8, <1>9, <1>10

\* Then anything may follow in the stream.
LEMMA StreamCut ==
  ASSUME LinkInv, SenderStep, lost' # {}
  PROVE  Whole!PInv'
<1>1. Next /\ UNCHANGED <<recvd, block, pc, errno, requests>>
  BY DEF SenderStep, recvVars
<1>2. PICK c : c = KeptCount'
  OBVIOUS
<1>3. /\ c \in Nat /\ c <= Len(accepted)
      /\ Kept(c) /\ Kept(c)' /\ c \in 0..Len(accepted')
      /\ SubSeq(accepted', 1, c) = SubSeq(accepted, 1, c)
  BY <1>1, <1>2, FrontStays
<1>4. /\ Promised' = SubSeq(Promised, 1, c) /\ c \in 0..Len(Promised)
      /\ \A i \in 1..c : Promised[i] = WriteOf(accepted, i)
  BY <1>1, <1>2, FrontPromised
<1>5. /\ FieldsOK /\ StreamOK /\ FieldsOK' /\ StreamOK'
      /\ Len(stream) <= Len(stream') /\ \A k \in 1..Len(stream) : stream'[k] = stream[k]
  BY StreamOfSent DEF LinkInv, SendInv
<1>6. /\ StreamArrives /\ FrontArrives /\ StreamArrives' /\ FrontArrives'
      /\ accepted \in Seq(Waiting) /\ Len(accepted) \in Nat
  BY <1>5, WhatArrives, WhatArrivesNext DEF FieldsOK
<1>7. /\ Len(stream) \in Nat /\ Len(stream') \in Nat
      /\ Len(stream) <= Len(Arriving) /\ Len(stream') <= Len(Arriving')
      /\ Len(Arriving) \in Nat /\ Len(Arriving') \in Nat /\ Arriving' \in Seq(Byte)
      /\ \A k \in 1..Len(stream) : Arriving[k] = stream[k]
      /\ \A k \in 1..Len(stream') : Arriving'[k] = stream'[k]
  BY <1>6 DEF StreamArrives
<1>8. recvd \in Nat /\ recvd <= Len(stream)
  <2>1. recvd \in 0..Len(Arriving)
    BY DEF LinkInv, Whole!PInv, Whole!TypeOK
  <2> QED  BY <1>7, <2>1 DEF LinkInv
<1>9. recvd <= Len(Arriving') /\ \A k \in 1..recvd : Arriving'[k] = Arriving[k]
  <2>1. \A k \in 1..recvd : k \in 1..Len(stream) /\ k \in 1..Len(stream')
    BY <1>5, <1>7, <1>8
  <2> QED  BY <1>5, <1>7, <1>8, <2>1
<1> DEFINE x == AllBytes(SubSeq(accepted, 1, c))
<1>10. /\ x \in Seq(WireByte) /\ Len(x) <= Len(Arriving)
       /\ \A k \in 1..Len(x) : Arriving[k] = Wire(x[k])
  <2>1. c \in 0..Len(accepted)
    BY <1>3, <1>6
  <2> QED  BY <1>3, <1>6, <2>1 DEF FrontArrives, First
<1>11. /\ Len(x) <= Len(Arriving') /\ \A k \in 1..Len(x) : Arriving'[k] = Wire(x[k])
  <2>1. \A n \in 0..Len(accepted') :
          Kept(n)' =>
            /\ Len(AllBytes(SubSeq(accepted', 1, n))) <= Len(Arriving')
            /\ \A k \in 1..Len(AllBytes(SubSeq(accepted', 1, n))) :
                 Arriving'[k] = Wire(AllBytes(SubSeq(accepted', 1, n))[k])
    BY <1>6 DEF FrontArrives, First, AllBytes, Bytes, Rest, Wire, Encoded, Data
  <2> QED  BY <1>3, <2>1
<1>12. ASSUME NEW i \in 1..c PROVE Promised[i].end <= Len(x)
  <2>1. Promised[i].end = Len(AllBytes(SubSeq(accepted, 1, i)))
    <3>1. WriteOf(accepted, i).end = Len(AllBytes(SubSeq(accepted, 1, i)))
      BY DEF WriteOf
    <3> HIDE DEF x
    <3> QED  BY <1>4, <3>1
  <2>2. i \in Nat /\ i <= Len(accepted) /\ c \in i..Len(accepted)
    BY <1>3, <1>6
  <2>3. /\ AllBytes(SubSeq(accepted, 1, i)) \in Seq(WireByte)
        /\ IsPrefix(AllBytes(SubSeq(accepted, 1, i)), AllBytes(SubSeq(accepted, 1, c)))
    BY <1>6, <2>2, FrontBytes
  <2> QED  BY <1>10, <2>1, <2>3, PrefixByElement
<1> HIDE DEF x
<1>13. ASSUME NEW i \in 1..c
       PROVE  /\ Promised[i].end <= Len(Arriving')
              /\ \A k \in 1..Len(Whole!Bytes(Promised[i])) :
                   Arriving'[Whole!Start(i) + k] = Whole!Bytes(Promised[i])[k]
  <2>0. i \in 1..Len(Promised) /\ Len(Promised) \in Nat /\ Promised \in Seq(Write)
    <3>1. Promised \in Seq(Write)
      BY DEF LinkInv, Whole!PInv, Whole!TypeOK, Write, Byte, Whole!Byte
    <3> QED  BY <1>3, <1>4, <3>1
  <2>1. /\ Promised[i].end = Whole!Start(i) + Len(Whole!Bytes(Promised[i]))
        /\ \A k \in 1..Len(Whole!Bytes(Promised[i])) :
             Arriving[Whole!Start(i) + k] = Whole!Bytes(Promised[i])[k]
    BY <2>0 DEF LinkInv, Whole!PInv, Whole!WrittenOK
  <2>2. Whole!Start(i) \in Nat
    <3>1. CASE i = 1
      BY <3>1 DEF Whole!Start
    <3>2. CASE i # 1
      <4>1. i - 1 \in 1..Len(Promised)
        BY <2>0, <3>2
      <4>2. Promised[i - 1] \in Write
        BY <2>0, <4>1, ElementOfSeq
      <4> QED  BY <3>2, <4>2 DEF Whole!Start, Write
    <3> QED  BY <3>1, <3>2
  <2>3. Len(Whole!Bytes(Promised[i])) \in Nat
    <3>1. Promised[i] \in [junk : BOOLEAN, data : Datas \cup {}, end : Nat]
      BY <2>0, ElementOfSeq DEF Write
    <3>2. Whole!Bytes(Promised[i]) \in Seq(Whole!Byte)
      BY <3>1, WholeAssumptions, Whole!BytesType
    <3> QED  BY <3>2
  <2>4. Promised[i].end <= Len(x) /\ Len(x) \in Nat /\ Promised[i].end \in Nat
    BY <1>10, <1>12, <2>1, <2>2, <2>3
  <2>5. \A k \in 1..Len(Whole!Bytes(Promised[i])) : Whole!Start(i) + k \in 1..Len(x)
    BY <2>1, <2>2, <2>3, <2>4
  <2> QED  BY <1>7, <1>10, <1>11, <2>1, <2>4, <2>5
<1>14. (~open)' \in BOOLEAN
  OBVIOUS
<1>15. Byte = Whole!Byte
  BY DEF Byte, Whole!Byte
<1> QED
  BY <1>1, <1>4, <1>7, <1>9, <1>13, <1>14, <1>15, WholeAssumptions, Whole!OtherStream DEF LinkInv

LEMMA SenderStepLink ==
  ASSUME LinkInv, SenderStep
  PROVE  LinkInv'
<1>1. recvd' = recvd /\ SendInv' /\ StreamOK' /\ recvd <= Len(stream')
  BY StreamOfSent DEF SenderStep, recvVars
<1> QED  BY <1>1, StreamGrowsLink, StreamCut DEF LinkInv

LEMMA NextLink ==
  ASSUME LinkInv, [LinkNext]_linkVars
  PROVE  LinkInv'
<1>1. CASE UNCHANGED linkVars
  <2>1. /\ SendInv' /\ StreamOK'
        /\ UNCHANGED <<Arriving, Promised, open, lost>>
    BY <1>1, SenderStands DEF linkVars
  <2>2. WholeOK
    BY DEF LinkInv, WholeOK
  <2>3. /\ UNCHANGED <<recvd, block, requests>> /\ (~open)' \in BOOLEAN
        /\ errno' \in {"ETIME", "other"}
        /\ pc' \in {"wait", "first", "again", "closed"} /\ pc' = pc
    BY <1>1 DEF LinkInv, Whole!PInv, Whole!TypeOK, linkVars, recvVars
  <2>4. WholeOK'
    BY <2>1, <2>2, <2>3, WholeSteps
  <2>5. recvd' <= Len(stream')
    BY <1>1 DEF LinkInv, linkVars, recvVars
  <2> QED  BY <2>1, <2>4, <2>5 DEF LinkInv, WholeOK
<1> QED  BY <1>1, SenderStepLink, ReceiverStepLink DEF LinkNext

----------------------------------------------------------------------------
(* The theorems about a Link.                                               *)

\* The inductive invariant holds in every reachable state of a Link.
THEOREM LinkInvariant == LinkSpec => []LinkInv
  BY InitLink, NextLink, PTL DEF LinkSpec

\* The sender's variables have the declared types: no message without bytes to send
\* is on the queue, and a call makes at most MAX_SEND_NUM + 1 sends
\* (dasvchandler.cpp:161).
THEOREM LinkTyping == LinkSpec => []TypeOK
<1>1. LinkInv => TypeOK
  BY TypesHold DEF LinkInv
<1> QED  BY <1>1, LinkInvariant, PTL

\* As long as ungetq drops nothing, the bytes sent and those that wait are the
\* messages in the order of putq (dasvchandler.cpp:120), whoever reads them; else
\* all of them up to the first whose rest is dropped (dasvchandler.cpp:139, 153) go out.
THEOREM LinkInOrder == LinkSpec => []StreamIntact
<1>1. LinkInv => StreamIntact
  BY DEF LinkInv, SendInv
<1> QED  BY <1>1, LinkInvariant, PTL

\* No byte goes out twice or after one of a later message, also where ungetq drops
\* rests (dasvchandler.cpp:139, 153).
THEOREM LinkAscending == LinkSpec => []SentInOrder
<1>1. LinkInv => SentInOrder
  BY LineInOrder DEF LinkInv
<1> QED  BY <1>1, LinkInvariant, PTL

\* The requests of the receiver are the first messages of the sender, whole and in
\* order (dasvchandler.cpp:45 and 120), for every split of the stream by either
\* socket and every break: all before the first whose rest was dropped.
THEOREM LinkDelivers == LinkSpec => []RequestsAreMessages
<1>1. LinkInv => RequestsAreMessages
  <2> SUFFICES ASSUME LinkInv PROVE RequestsAreMessages
    OBVIOUS
  <2> DEFINE d == KeptCount
  <2>1. /\ accepted \in Seq(Waiting) /\ Len(accepted) \in Nat
        /\ d \in Nat /\ d <= Len(accepted)
        /\ \A n \in 0..Len(accepted) : Kept(n) <=> n <= d
        /\ lost = {} => d = Len(accepted)
    <3>1. FieldsOK
      BY DEF LinkInv, SendInv
    <3>2. CountOK /\ (lost = {} => d = Len(accepted))
      BY <3>1, CountIs, AllKept
    <3> QED  BY <3>1, <3>2 DEF CountOK, FieldsOK
  <2>2. /\ Len(Promised) = d
        /\ \A n \in 1..d :
             /\ Promised[n].junk = FALSE
             /\ Promised[n].data = Data(accepted[n].id, accepted[n].size)
    <3> DEFINE f == SubSeq(accepted, 1, d)
    <3>1. f \in Seq(Waiting) /\ Len(f) = d /\ \A i \in 1..d : f[i] = accepted[i]
      <4> HIDE DEF d
      <4> QED  BY <2>1, FrontOfFront
    <3>2. Promised = WritesOf(f)
      BY DEF Promised, First
    <3> HIDE DEF d, f
    <3>3. Len(Promised) = d /\ \A n \in 1..d : Promised[n] = WriteOf(f, n)
      BY <3>1, <3>2, WritesOfType
    <3>4. \A n \in 1..d : /\ WriteOf(f, n).junk = FALSE
                          /\ WriteOf(f, n).data = Data(f[n].id, f[n].size)
      BY DEF WriteOf
    <3> QED  BY <3>1, <3>3, <3>4
  <2> HIDE DEF d
  <2>3. ASSUME NEW n \in 1..d
        PROVE  Len(Data(accepted[n].id, accepted[n].size)) + MIN_PKG_SIZE <= MAX_PKG_SIZE
    <3>1. accepted[n] \in Waiting
      BY <2>1, ElementOfSeq
    <3>2. accepted[n].id \in Nat /\ accepted[n].size \in Sizes
      BY <3>1, MsgFields DEF Waiting
    <3> QED  BY <3>2, DataType, SizeFits DEF MIN_PKG_SIZE
  <2>4. ASSUME NEW i, i <= d, i \in Nat PROVE Whole!Sound(i)
    BY <2>1, <2>2, <2>3, <2>4, SameFormat DEF Whole!Sound, Whole!Fits
  <2>5. requests \in Seq(Seq(Whole!Byte)) /\ Len(requests) \in Nat
    BY DEF LinkInv, Whole!PInv, Whole!TypeOK
  <2>6. lost = {} => Len(requests) <= Len(accepted)
    BY <2>1, <2>2, <2>4 DEF LinkInv, Whole!NothingElse
  <2>7. ASSUME NEW n \in 1..Len(requests), n <= Len(accepted), Kept(n)
        PROVE  requests[n] = Encoded(accepted[n])
    <3>1. n \in Nat /\ n <= d /\ n \in 1..d
      <4>1. n \in 0..Len(accepted)
        BY <2>1, <2>5, <2>7
      <4>2. n <= d
        BY <2>1, <2>7, <4>1
      <4> QED  BY <2>1, <2>5, <4>2
    <3>2. Whole!Known(n)
      BY <2>2, <2>4, <3>1 DEF Whole!Known
    <3>3. requests[n] = Whole!mkMsg(Promised[n].data)
      BY <3>2 DEF LinkInv, Whole!PInv, Whole!QueueOK
    <3> QED  BY <2>2, <3>1, <3>3, SameFormat DEF Encoded
  <2>8. DOMAIN requests = 1..Len(requests)
    BY <2>5
  <2> QED  BY <2>6, <2>7, <2>8 DEF RequestsAreMessages
<1> QED  BY <1>1, LinkInvariant, PTL

=============================================================================
