--------------------------- MODULE SequenceFacts ---------------------------
(***************************************************************************)
(* Facts about sequences that the other proofs use: what concatenation and *)
(* SubSeq do to a stream, induction over numbers and sequences in a form   *)
(* that needs no operator parameter, and what Flatten computes.         *)
(***************************************************************************)
EXTENDS SequenceOps, SequenceTheorems, WellFoundedInduction, TLAPS

\* Concatenation, and a sequence without its first n elements, as operators
\* of which only the facts below are known.
Joined(s, t) == s \o t

Start(s, n) == SubSeq(s, 1, n)

Rest(s, n) == SubSeq(s, n + 1, Len(s))

\* The two sequences have the same first n elements.
Agree(s, t, n) == \A i \in 1 .. n : s[i] = t[i]

\* The elements of j are those of s, then those of t.
JoinedAt(j, s, t) ==
  /\ \A i \in 1 .. Len(s) : j[i] = s[i]
  /\ \A i \in 1 .. Len(t) : j[Len(s) + i] = t[i]

\* The elements of r are those of s from the n-th on.
RestAt(r, s, n) == \A i \in 1 .. Len(s) - n : r[i] = s[n + i]

\* Only the empty sequence has length 0.
LEMMA SeqLen ==
  ASSUME NEW S, NEW s \in Seq(S)
  PROVE  /\ Len(s) \in Nat
         /\ Len(s) = 0 <=> s = << >>
  BY LenProperties, EmptySeq

\* The type, length and elements of a concatenation.
LEMMA JoinedFacts ==
  ASSUME NEW S, NEW s \in Seq(S), NEW t \in Seq(S)
  PROVE  /\ Joined(s, t) \in Seq(S)
         /\ Len(Joined(s, t)) = Len(s) + Len(t)
         /\ JoinedAt(Joined(s, t), s, t)
<1>1. PICK u : u = s \o t
  BY Zenon
<1>2. /\ u \in Seq(S) /\ Len(u) = Len(s) + Len(t)
      /\ \A i \in 1 .. Len(s) + Len(t) : u[i] = IF i <= Len(s) THEN s[i] ELSE t[i - Len(s)]
  BY <1>1, ConcatProperties
<1>3. Len(s) \in Nat /\ Len(t) \in Nat
  BY LenProperties
<1>4. \A i \in 1 .. Len(s) : u[i] = s[i]
  BY <1>2, <1>3
<1>5. ASSUME NEW i \in 1 .. Len(t) PROVE u[Len(s) + i] = t[i]
  <2>1. PICK j \in 1 .. Len(s) + Len(t) : j = Len(s) + i /\ ~ (j <= Len(s)) /\ j - Len(s) = i
    BY <1>3
  <2>2. u[j] = t[j - Len(s)]
    BY <1>2, <2>1
  <2> QED BY <2>1, <2>2
<1> QED BY <1>1, <1>2, <1>4, <1>5 DEF Joined, JoinedAt

\* The empty sequence is neutral.
LEMMA JoinedEmpty ==
  ASSUME NEW S, NEW s \in Seq(S)
  PROVE  Joined(s, << >>) = s /\ Joined(<< >>, s) = s
  BY ConcatEmptySeq DEF Joined

\* Concatenation is associative.
LEMMA JoinedAssoc ==
  ASSUME NEW S, NEW s \in Seq(S), NEW t \in Seq(S), NEW u \in Seq(S)
  PROVE  Joined(Joined(s, t), u) = Joined(s, Joined(t, u))
  BY ConcatAssociative DEF Joined

\* The type, length and elements of what follows the first n.
LEMMA RestFacts ==
  ASSUME NEW S, NEW s \in Seq(S), NEW n \in 0 .. Len(s)
  PROVE  /\ Rest(s, n) \in Seq(S)
         /\ Len(Rest(s, n)) = Len(s) - n
         /\ RestAt(Rest(s, n), s, n)
<1>1. Len(s) \in Nat /\ n \in Nat /\ n <= Len(s)
  BY LenProperties
<1>2. \A i \in n + 1 .. Len(s) : s[i] \in S
  BY <1>1, ElementOfSeq
<1>3. PICK r : r = SubSeq(s, n + 1, Len(s))
  BY Zenon
<1>4. /\ r \in Seq(S)
      /\ Len(r) = IF n + 1 <= Len(s) THEN Len(s) - (n + 1) + 1 ELSE 0
      /\ \A i \in 1 .. Len(s) - (n + 1) + 1 : r[i] = s[n + 1 + i - 1]
  BY <1>1, <1>2, <1>3, SubSeqProperties
<1>5. Len(r) = Len(s) - n
  BY <1>1, <1>4
<1>6. ASSUME NEW i \in 1 .. Len(s) - n PROVE r[i] = s[n + i]
  <2>1. i \in 1 .. Len(s) - (n + 1) + 1 /\ n + 1 + i - 1 = n + i
    BY <1>1
  <2>2. r[i] = s[n + 1 + i - 1]
    BY <1>4, <2>1
  <2> QED BY <2>1, <2>2, Zenon
<1> QED BY <1>3, <1>4, <1>5, <1>6 DEF Rest, RestAt

\* The type, length and elements of the first n.
LEMMA StartFacts ==
  ASSUME NEW S, NEW s \in Seq(S), NEW n \in 0 .. Len(s)
  PROVE  /\ Start(s, n) \in Seq(S)
         /\ Len(Start(s, n)) = n
         /\ \A i \in 1 .. n : Start(s, n)[i] = s[i]
<1>1. Len(s) \in Nat /\ n \in Nat /\ n <= Len(s)
  BY LenProperties
<1>2. \A i \in 1 .. n : s[i] \in S
  BY <1>1, ElementOfSeq
<1>3. PICK r : r = SubSeq(s, 1, n)
  BY Zenon
<1>4. /\ r \in Seq(S) /\ Len(r) = IF 1 <= n THEN n - 1 + 1 ELSE 0
      /\ \A i \in 1 .. n - 1 + 1 : r[i] = s[1 + i - 1]
  BY <1>1, <1>2, <1>3, SubSeqProperties
<1>5. Len(r) = n
  BY <1>1, <1>4
<1>6. ASSUME NEW i \in 1 .. n PROVE r[i] = s[i]
  <2>1. i \in 1 .. n - 1 + 1 /\ 1 + i - 1 = i
    BY <1>1
  <2>2. r[i] = s[1 + i - 1]
    BY <1>4, <2>1
  <2> QED BY <2>1, <2>2
<1> QED BY <1>3, <1>4, <1>5, <1>6 DEF Start

\* Dropping nothing, and taking everything.
LEMMA RestNone ==
  ASSUME NEW S, NEW s \in Seq(S)
  PROVE  Rest(s, 0) = s /\ Start(s, Len(s)) = s
<1>1. Rest(s, 0) = SubSeq(s, 0 + 1, Len(s))
  BY DEF Rest
<1>2. SubSeq(s, 1, Len(s)) = s
  BY SubSeqFull
<1> QED BY <1>1, <1>2 DEF Start

\* Dropping everything, and taking nothing.
LEMMA RestAll ==
  ASSUME NEW S, NEW s \in Seq(S)
  PROVE  Rest(s, Len(s)) = << >> /\ Start(s, 0) = << >>
<1>1. Len(s) \in Nat /\ Len(s) \in 0 .. Len(s) /\ 0 \in 0 .. Len(s)
  BY LenProperties
<1>2. PICK r \in Seq(S), t \in Seq(S) : r = Rest(s, Len(s)) /\ t = Start(s, 0)
                                      /\ Len(r) = Len(s) - Len(s) /\ Len(t) = 0
  BY <1>1, RestFacts, StartFacts, Zenon
<1>3. Len(r) = 0
  BY <1>1, <1>2
<1> QED BY <1>2, <1>3, SeqLen

\* A sequence is its first n elements and the others.
LEMMA StartRest ==
  ASSUME NEW S, NEW s \in Seq(S), NEW n \in 0 .. Len(s)
  PROVE  Joined(Start(s, n), Rest(s, n)) = s
<1>1. Len(s) \in Nat
  BY LenProperties
<1>2. SubSeq(s, 1, n) \o SubSeq(s, n + 1, Len(s)) = SubSeq(s, 1, Len(s))
  <2>1. 1 \in 1 .. Len(s) + 1 /\ n \in 1 - 1 .. Len(s) /\ Len(s) \in n .. Len(s)
    BY <1>1
  <2> QED BY <2>1, ConcatAdjacentSubSeq, Zenon
<1>3. SubSeq(s, 1, Len(s)) = s
  BY SubSeqFull
<1> QED BY <1>2, <1>3, Zenon DEF Joined, Start, Rest

\* Dropping m, then n, drops m + n.
LEMMA RestRest ==
  ASSUME NEW S, NEW s \in Seq(S), NEW m \in 0 .. Len(s), NEW n \in 0 .. Len(s) - m
  PROVE  Rest(Rest(s, m), n) = Rest(s, m + n)
<1>1. Len(s) \in Nat
  BY LenProperties
<1>2. PICK r : r = Rest(s, m)
  OBVIOUS
<1>3. /\ r \in Seq(S) /\ Len(r) = Len(s) - m
      /\ RestAt(r, s, m)
  BY <1>2, RestFacts, Zenon
<1>4. PICK k \in 0 .. Len(s) : k = m + n /\ n \in 0 .. Len(r)
  BY <1>1, <1>3
<1>5. PICK a, b : a = Rest(r, n) /\ b = Rest(s, k)
  OBVIOUS
<1>6. /\ a \in Seq(S) /\ Len(a) = Len(r) - n
      /\ RestAt(a, r, n)
  BY <1>3, <1>4, <1>5, RestFacts, Zenon
<1>7. /\ b \in Seq(S) /\ Len(b) = Len(s) - k
      /\ RestAt(b, s, k)
  BY <1>5, RestFacts, Zenon
<1>8. Len(a) = Len(b)
  BY <1>1, <1>3, <1>4, <1>6, <1>7
<1>9. \A i \in 1 .. Len(a) : a[i] = b[i]
  <2> TAKE i \in 1 .. Len(a)
  <2>1. /\ i \in 1 .. Len(r) - n /\ i \in 1 .. Len(s) - k
        /\ n + i \in 1 .. Len(s) - m /\ m + (n + i) = k + i
    BY <1>1, <1>3, <1>4, <1>6, <1>8
  <2>2. a[i] = r[n + i] /\ b[i] = s[k + i] /\ r[n + i] = s[m + (n + i)]
    BY <1>3, <1>6, <1>7, <2>1, Zenon DEF RestAt
  <2> QED BY <2>1, <2>2, Zenon
<1>10. a = b
  BY <1>6, <1>7, <1>8, <1>9, SeqEqual, Zenon
<1> QED BY <1>2, <1>4, <1>5, <1>10

\* Taking from the front of a concatenation takes from its first part.
LEMMA RestJoined ==
  ASSUME NEW S, NEW s \in Seq(S), NEW t \in Seq(S), NEW n \in 0 .. Len(s)
  PROVE  Rest(Joined(s, t), n) = Joined(Rest(s, n), t)
<1>1. Len(s) \in Nat /\ Len(t) \in Nat
  BY LenProperties
<1>2. PICK j, r : j = Joined(s, t) /\ r = Rest(s, n)
  OBVIOUS
<1>3. /\ j \in Seq(S) /\ Len(j) = Len(s) + Len(t)
      /\ JoinedAt(j, s, t)
  BY <1>2, JoinedFacts, Zenon
<1>4. /\ r \in Seq(S) /\ Len(r) = Len(s) - n
      /\ RestAt(r, s, n)
  BY <1>2, RestFacts, Zenon
<1>5. PICK a, b : a = Rest(j, n) /\ b = Joined(r, t)
  OBVIOUS
<1>6. n \in 0 .. Len(j)
  BY <1>1, <1>3
<1>7. /\ a \in Seq(S) /\ Len(a) = Len(j) - n
      /\ RestAt(a, j, n)
  BY <1>3, <1>5, <1>6, RestFacts, Zenon
<1>8. /\ b \in Seq(S) /\ Len(b) = Len(r) + Len(t)
      /\ JoinedAt(b, r, t)
  BY <1>4, <1>5, JoinedFacts, Zenon
<1>9. Len(a) = Len(b)
  BY <1>1, <1>3, <1>4, <1>7, <1>8
<1>10. \A i \in 1 .. Len(a) : a[i] = b[i]
  <2> TAKE i \in 1 .. Len(a)
  <2>1. i \in 1 .. Len(j) - n
    BY <1>7, Zenon
  <2>2. a[i] = j[n + i]
    BY <1>7, <2>1, Zenon DEF RestAt
  <2>3. CASE i <= Len(r)
    <3>1. i \in 1 .. Len(r) /\ i \in 1 .. Len(s) - n /\ n + i \in 1 .. Len(s)
      BY <1>1, <1>4, <2>3
    <3>2. b[i] = r[i] /\ r[i] = s[n + i] /\ j[n + i] = s[n + i]
      BY <1>3, <1>4, <1>8, <3>1, Zenon DEF RestAt, JoinedAt
    <3> QED BY <2>2, <3>2, Zenon
  <2>4. CASE ~ (i <= Len(r))
    <3>1. PICK k \in 1 .. Len(t) : i = Len(r) + k /\ n + i = Len(s) + k
      <4>1. /\ i - Len(r) \in 1 .. Len(t) /\ i = Len(r) + (i - Len(r))
            /\ n + i = Len(s) + (i - Len(r))
        BY <1>1, <1>4, <1>8, <1>9, <2>4
      <4> QED BY <4>1, Zenon
    <3>2. b[Len(r) + k] = t[k] /\ j[Len(s) + k] = t[k]
      BY <1>3, <1>8, Zenon DEF JoinedAt
    <3> QED BY <2>2, <3>1, <3>2
  <2> QED BY <2>3, <2>4, Zenon
<1>11. a = b
  BY <1>7, <1>8, <1>9, <1>10, SeqEqual, Zenon
<1> QED BY <1>2, <1>5, <1>11

\* What is left of a concatenation without its first part is the second.
LEMMA RestOfJoined ==
  ASSUME NEW S, NEW s \in Seq(S), NEW t \in Seq(S)
  PROVE  Rest(Joined(s, t), Len(s)) = t
<1>1. Len(s) \in 0 .. Len(s)
  BY LenProperties
<1>2. Rest(Joined(s, t), Len(s)) = Joined(Rest(s, Len(s)), t)
  BY <1>1, RestJoined
<1>3. Rest(s, Len(s)) = << >>
  BY RestAll
<1> QED BY <1>2, <1>3, JoinedEmpty

\* Induction over the natural numbers, for a set of them.
LEMMA NatSetInduction ==
  ASSUME NEW T, T \subseteq Nat, 0 \in T, \A n \in T : n + 1 \in T
  PROVE  T = Nat
<1> DEFINE R == OpToRel(<, Nat)
<1>1. IsWellFoundedOn(R, Nat)
  BY NatLessThanWellFounded
<1>2. \A x, y \in Nat : x < y => <<x, y>> \in R
  BY DEF OpToRel
<1> HIDE DEF R
<1>3. SUFFICES ASSUME Nat \ T # {} PROVE FALSE
  BY Zenon
<1>4. PICK x \in Nat \ T : \A y \in Nat \ T : ~ (<<y, x>> \in R)
  BY <1>1, <1>3, WFMin, Zenon
<1>5. x # 0
  OBVIOUS
<1>6. x - 1 \in Nat
  BY <1>5
<1>7. <<x - 1, x>> \in R
  <2>1. x - 1 < x
    OBVIOUS
  <2> QED BY <1>2, <1>6, <2>1, Zenon
<1>8. x - 1 \in T
  BY <1>7, <1>4, <1>6, Zenon
<1>9. x = (x - 1) + 1
  OBVIOUS
<1> QED BY <1>8, <1>9, Zenon

\* What Flatten computes on the first n of ss.
IsFlat(f, ss, n) ==
  f = [i \in 0 .. n |-> IF i = 0 THEN << >> ELSE Joined(f[i - 1], ss[i])]

\* There are concatenations of the first 0 .. n members of every ss.
LEMMA FlatExists ==
  ASSUME NEW ss, NEW n \in Nat
  PROVE  \E f : IsFlat(f, ss, n)
<1> DEFINE T == {k \in Nat : \E f : IsFlat(f, ss, k)}
<1>1. 0 \in T
  <2>1. IsFlat([i \in 0 .. 0 |-> << >>], ss, 0)
    BY DEF IsFlat
  <2> QED BY <2>1
<1>2. ASSUME NEW k \in T PROVE k + 1 \in T
  <2>1. PICK f : IsFlat(f, ss, k)
    BY Zenon
  <2> DEFINE g == [i \in 0 .. k + 1 |-> IF i <= k THEN f[i] ELSE Joined(f[i - 1], ss[i])]
  <2>2. IsFlat(g, ss, k + 1)
    <3>1. \A i \in 0 .. k : f[i] = IF i = 0 THEN << >> ELSE Joined(f[i - 1], ss[i])
      BY <2>1 DEF IsFlat
    <3>2. \A i \in 0 .. k + 1 : g[i] = IF i = 0 THEN << >> ELSE Joined(g[i - 1], ss[i])
      <4> TAKE i \in 0 .. k + 1
      <4>1. CASE i = 0
        BY <3>1, <4>1
      <4>2. CASE i # 0
        <5>1. i - 1 \in 0 .. k /\ g[i - 1] = f[i - 1]
          BY <4>2
        <5>2. g[i] = Joined(f[i - 1], ss[i])
          BY <3>1, <4>2
        <5> QED BY <4>2, <5>1, <5>2
      <4> QED BY <4>1, <4>2
    <3> HIDE DEF g
    <3>3. g = [i \in 0 .. k + 1 |-> g[i]]
      BY DEF g
    <3> QED BY <3>2, <3>3, Zenon DEF IsFlat
  <2> QED BY <2>2
<1>3. T = Nat
  <2> HIDE DEF T
  <2>1. T \subseteq Nat
    BY DEF T
  <2> QED BY <1>1, <1>2, <2>1, NatSetInduction, Zenon
<1> QED BY <1>3, Zenon

\* The recursive function of Flatten satisfies its equation.
LEMMA FlattenIs ==
  ASSUME NEW ss, Len(ss) \in Nat
  PROVE  \E f : IsFlat(f, ss, Len(ss)) /\ Flatten(ss) = f[Len(ss)]
<1> DEFINE f == CHOOSE f : IsFlat(f, ss, Len(ss))
<1>1. IsFlat(f, ss, Len(ss))
  BY FlatExists, Zenon
<1>2. Flatten(ss) = f[Len(ss)]
  BY DEF Flatten, IsFlat, Joined
<1> QED BY <1>1, <1>2, Zenon

\* Two solutions agree where their arguments do.
LEMMA FlatUnique ==
  ASSUME NEW ss, NEW tt, NEW m \in Nat, NEW n \in Nat, m <= n,
         NEW f, NEW g, IsFlat(f, ss, m), IsFlat(g, tt, n),
         Agree(ss, tt, m)
  PROVE  f[m] = g[m]
<1> DEFINE T == {k \in Nat : k <= m => f[k] = g[k]}
<1>1. 0 \in T
  BY DEF IsFlat
<1>2. ASSUME NEW k \in T PROVE k + 1 \in T
  <2> SUFFICES ASSUME k + 1 \in 1 .. m PROVE f[k + 1] = g[k + 1]
    OBVIOUS
  <2>1. /\ f[k + 1] = IF k + 1 = 0 THEN << >> ELSE Joined(f[k + 1 - 1], ss[k + 1])
        /\ g[k + 1] = IF k + 1 = 0 THEN << >> ELSE Joined(g[k + 1 - 1], tt[k + 1])
    BY DEF IsFlat
  <2>2. k + 1 - 1 = k /\ f[k] = g[k]
    OBVIOUS
  <2>3. ss[k + 1] = tt[k + 1]
    BY DEF Agree
  <2> QED BY <2>1, <2>2, <2>3, Zenon
<1>3. T = Nat
  <2> HIDE DEF T
  <2>1. T \subseteq Nat
    BY DEF T
  <2> QED BY <1>1, <1>2, <2>1, NatSetInduction, Zenon
<1> QED BY <1>3

\* Nothing to concatenate.
LEMMA FlattenEmpty == Flatten(<< >>) = << >>
<1>1. Len(<< >>) = 0
  OBVIOUS
<1>2. PICK f : IsFlat(f, << >>, 0) /\ Flatten(<< >>) = f[0]
  BY <1>1, FlattenIs
<1> QED BY <1>2 DEF IsFlat

\* One more at the end.
LEMMA FlattenAppend ==
  ASSUME NEW S, NEW ss \in Seq(Seq(S)), NEW s \in Seq(S)
  PROVE  Flatten(Append(ss, s)) = Joined(Flatten(ss), s)
<1>1. PICK tt : tt = Append(ss, s)
  BY Zenon
<1>2. /\ tt \in Seq(Seq(S)) /\ Len(ss) \in Nat /\ Len(tt) = Len(ss) + 1
      /\ \A i \in 1 .. Len(ss) : tt[i] = ss[i]
      /\ tt[Len(ss) + 1] = s
  BY <1>1, AppendProperties, LenProperties
<1>3. PICK g : IsFlat(g, tt, Len(tt)) /\ Flatten(tt) = g[Len(tt)]
  <2>1. Len(tt) \in Nat
    BY <1>2
  <2> QED BY <2>1, FlattenIs
<1>4. g[Len(tt)] = Joined(g[Len(ss)], s)
  <2>1. Len(tt) \in 0 .. Len(tt) /\ Len(tt) # 0 /\ Len(tt) - 1 = Len(ss) /\ tt[Len(tt)] = s
    BY <1>2
  <2>2. g[Len(tt)] = IF Len(tt) = 0 THEN << >> ELSE Joined(g[Len(tt) - 1], tt[Len(tt)])
    BY <1>3, <2>1, Zenon DEF IsFlat
  <2> QED BY <2>1, <2>2, Zenon
<1>5. PICK f : IsFlat(f, ss, Len(ss)) /\ Flatten(ss) = f[Len(ss)]
  BY <1>2, FlattenIs
<1>6. Len(ss) <= Len(tt) /\ Len(tt) \in Nat
  BY <1>2
<1>7. Agree(ss, tt, Len(ss))
  BY <1>2 DEF Agree
<1>8. f[Len(ss)] = g[Len(ss)]
  BY <1>2, <1>3, <1>5, <1>6, <1>7, FlatUnique
<1> QED BY <1>1, <1>3, <1>4, <1>5, <1>8, Zenon

\* Induction over sequences, for a set of them.
LEMMA SeqSetInduction ==
  ASSUME NEW S, NEW T, T \subseteq Seq(S), << >> \in T,
         \A s \in T : \A e \in S : Append(s, e) \in T
  PROVE  T = Seq(S)
<1> DEFINE N == {n \in Nat : \A s \in Seq(S) : Len(s) = n => s \in T}
<1>1. 0 \in N
  BY EmptySeq
<1>2. ASSUME NEW n \in N PROVE n + 1 \in N
  <2> SUFFICES ASSUME NEW s \in Seq(S), Len(s) = n + 1 PROVE s \in T
    OBVIOUS
  <2>1. s # << >>
    BY EmptySeq
  <2>2. PICK t \in Seq(S), e \in S : s = Append(t, e)
    BY <2>1, SequenceEmptyOrAppend, Zenon
  <2>3. Len(t) = n
    <3>1. Len(s) = Len(t) + 1 /\ Len(t) \in Nat
      BY <2>2, AppendProperties, LenProperties
    <3> QED BY <3>1
  <2> QED BY <2>2, <2>3
<1>3. N = Nat
  <2> HIDE DEF N
  <2>1. N \subseteq Nat
    BY DEF N
  <2> QED BY <1>1, <1>2, <2>1, NatSetInduction, Zenon
<1> QED BY <1>3, LenProperties, Zenon

\* What the concatenation of sequences over S is made of.
LEMMA FlattenType ==
  ASSUME NEW S, NEW ss \in Seq(Seq(S))
  PROVE  Flatten(ss) \in Seq(S)
<1> DEFINE T == {s \in Seq(Seq(S)) : Flatten(s) \in Seq(S)}
<1>1. << >> \in T
  BY FlattenEmpty, EmptySeq, Zenon
<1>2. ASSUME NEW s \in T, NEW e \in Seq(S) PROVE Append(s, e) \in T
  BY FlattenAppend, AppendProperties, JoinedFacts
<1>3. T = Seq(Seq(S))
  <2> HIDE DEF T
  <2>1. T \subseteq Seq(Seq(S))
    BY DEF T
  <2> QED BY <1>1, <1>2, <2>1, SeqSetInduction, Zenon
<1> QED BY <1>3, Zenon

\* One more at the front.
LEMMA FlattenFirst ==
  ASSUME NEW S, NEW s \in Seq(S), NEW ss \in Seq(Seq(S))
  PROVE  Flatten(Joined(<<s>>, ss)) = Joined(s, Flatten(ss))
<1>1. PICK one \in Seq(Seq(S)) : one = <<s>> /\ one = Append(<< >>, s)
  <2>1. <<s>> \in Seq(Seq(S)) /\ <<s>> = Append(<< >>, s)
    OBVIOUS
  <2> QED BY <2>1, Zenon
<1> DEFINE T == {tt \in Seq(Seq(S)) : Flatten(Joined(one, tt)) = Joined(s, Flatten(tt))}
<1>2. << >> \in T
  <2>1. Flatten(one) = Joined(<< >>, s)
    <3>1. << >> \in Seq(Seq(S))
      BY EmptySeq, Zenon
    <3>2. Flatten(Append(<< >>, s)) = Joined(Flatten(<< >>), s)
      BY <3>1, FlattenAppend, Zenon
    <3> QED BY <1>1, <3>2, FlattenEmpty, Zenon
  <2>2. Joined(<< >>, s) = s /\ Joined(s, << >>) = s /\ Joined(one, << >>) = one
        /\ << >> \in Seq(Seq(S))
    BY JoinedEmpty, EmptySeq
  <2> QED BY <2>1, <2>2, FlattenEmpty, Zenon
<1>3. ASSUME NEW tt \in T, NEW e \in Seq(S) PROVE Append(tt, e) \in T
  <2>1. PICK last \in Seq(Seq(S)) : last = <<e>>
    <3>1. <<e>> \in Seq(Seq(S))
      OBVIOUS
    <3> QED BY <3>1, Zenon
  <2>2. /\ tt \in Seq(Seq(S)) /\ Append(tt, e) \in Seq(Seq(S)) /\ Joined(one, tt) \in Seq(Seq(S))
    BY AppendProperties, JoinedFacts
  <2>3. Joined(one, Append(tt, e)) = Append(Joined(one, tt), e)
    <3>1. Append(tt, e) = Joined(tt, last) /\ Append(Joined(one, tt), e) = Joined(Joined(one, tt), last)
      BY <2>1, <2>2, AppendIsConcat, Zenon DEF Joined
    <3>2. Joined(Joined(one, tt), last) = Joined(one, Joined(tt, last))
      BY <2>2, JoinedAssoc
    <3> QED BY <3>1, <3>2, Zenon
  <2>4. Flatten(Append(Joined(one, tt), e)) = Joined(Flatten(Joined(one, tt)), e)
    BY <2>2, FlattenAppend, Zenon
  <2>5. Flatten(Append(tt, e)) = Joined(Flatten(tt), e)
    BY <2>2, FlattenAppend, Zenon
  <2>6. Flatten(tt) \in Seq(S)
    BY <2>2, FlattenType, Zenon
  <2>7. Joined(Joined(s, Flatten(tt)), e) = Joined(s, Joined(Flatten(tt), e))
    BY <2>6, JoinedAssoc
  <2> QED BY <2>2, <2>3, <2>4, <2>5, <2>7, Zenon
<1>4. T = Seq(Seq(S))
  <2> HIDE DEF T
  <2>1. T \subseteq Seq(Seq(S))
    BY DEF T
  <2> QED BY <1>2, <1>3, <2>1, SeqSetInduction, Zenon
<1> QED BY <1>1, <1>4

\* x is an element of s.
Among(x, s) == \E i \in 1 .. Len(s) : s[i] = x

\* What is in a concatenation is in one of its parts.
LEMMA AmongJoined ==
  ASSUME NEW S, NEW s \in Seq(S), NEW t \in Seq(S), NEW x
  PROVE  Among(x, Joined(s, t)) <=> Among(x, s) \/ Among(x, t)
<1>1. PICK j : j = Joined(s, t)
  BY Zenon
<1>2. Len(j) = Len(s) + Len(t) /\ JoinedAt(j, s, t) /\ Len(s) \in Nat /\ Len(t) \in Nat
  BY <1>1, JoinedFacts, LenProperties, Zenon
<1>3. /\ \A i \in 1 .. Len(s) : j[i] = s[i]
      /\ \A i \in 1 .. Len(t) : j[Len(s) + i] = t[i]
  BY <1>2, Zenon DEF JoinedAt
<1>4. ASSUME NEW i \in 1 .. Len(j), j[i] = x PROVE Among(x, s) \/ Among(x, t)
  <2>1. CASE i <= Len(s)
    BY <1>2, <1>3, <1>4, <2>1 DEF Among
  <2>2. CASE i > Len(s)
    <3>1. PICK k : k = i - Len(s)
      OBVIOUS
    <3>2. k \in 1 .. Len(t) /\ i = Len(s) + k
      BY <1>2, <2>2, <3>1
    <3> QED BY <1>3, <1>4, <3>2, Zenon DEF Among
  <2> QED BY <1>2, <2>1, <2>2
<1>5. ASSUME NEW i \in 1 .. Len(s), s[i] = x PROVE Among(x, j)
  <2>1. i \in 1 .. Len(j) /\ j[i] = x
    BY <1>2, <1>3, <1>5
  <2> QED BY <2>1, Zenon DEF Among
<1>6. ASSUME NEW i \in 1 .. Len(t), t[i] = x PROVE Among(x, j)
  <2>1. Len(s) + i \in 1 .. Len(j) /\ j[Len(s) + i] = x
    BY <1>2, <1>3, <1>6
  <2> QED BY <2>1, Zenon DEF Among
<1>7. Among(x, j) => \E i \in 1 .. Len(j) : j[i] = x
  BY Zenon DEF Among
<1>8. (Among(x, s) => \E i \in 1 .. Len(s) : s[i] = x) /\ (Among(x, t) => \E i \in 1 .. Len(t) : t[i] = x)
  BY Zenon DEF Among
<1> QED BY <1>1, <1>4, <1>5, <1>6, <1>7, <1>8

\* What Flatten returns has the elements of its arguments and no others.
LEMMA FlattenAmong ==
  ASSUME NEW S, NEW ss \in Seq(Seq(S)), NEW x
  PROVE  Among(x, Flatten(ss)) <=> \E i \in 1 .. Len(ss) : Among(x, ss[i])
<1> DEFINE Somewhere(tt) == \E i \in 1 .. Len(tt) : Among(x, tt[i])
           T == {tt \in Seq(Seq(S)) : Among(x, Flatten(tt)) <=> Somewhere(tt)}
<1>1. << >> \in T
  <2>1. ~ Among(x, Flatten(<< >>)) /\ ~ Somewhere(<< >>)
    BY FlattenEmpty, EmptySeq DEF Among
  <2> QED BY <2>1, EmptySeq, Zenon
<1>2. ASSUME NEW tt \in T, NEW e \in Seq(S) PROVE Append(tt, e) \in T
  <2>1. PICK a : a = Append(tt, e)
    BY Zenon
  <2>2. /\ a \in Seq(Seq(S)) /\ Len(a) = Len(tt) + 1 /\ Len(tt) \in Nat
        /\ \A i \in 1 .. Len(tt) : a[i] = tt[i]
        /\ a[Len(tt) + 1] = e
    BY <2>1, AppendProperties, LenProperties
  <2>3. Among(x, Flatten(a)) <=> Among(x, Flatten(tt)) \/ Among(x, e)
    BY <2>1, FlattenAppend, FlattenType, AmongJoined
  <2>4. Somewhere(a) <=> Somewhere(tt) \/ Among(x, e)
    <3>1. ASSUME Somewhere(a) PROVE Somewhere(tt) \/ Among(x, e)
      <4>1. PICK i \in 1 .. Len(a) : Among(x, a[i])
        BY <3>1, Zenon
      <4>2. CASE i = Len(tt) + 1
        BY <2>2, <4>1, <4>2, Zenon
      <4>3. CASE i # Len(tt) + 1
        <5>1. i \in 1 .. Len(tt)
          BY <2>2, <4>3
        <5> QED BY <2>2, <4>1, <5>1, Zenon
      <4> QED BY <4>2, <4>3, Zenon
    <3>2. ASSUME Somewhere(tt) PROVE Somewhere(a)
      <4>1. PICK i \in 1 .. Len(tt) : Among(x, tt[i])
        BY <3>2, Zenon
      <4>2. i \in 1 .. Len(a) /\ a[i] = tt[i]
        BY <2>2
      <4> QED BY <4>1, <4>2, Zenon
    <3>3. ASSUME Among(x, e) PROVE Somewhere(a)
      <4>1. Len(tt) + 1 \in 1 .. Len(a)
        BY <2>2
      <4> QED BY <2>2, <3>3, <4>1, Zenon
    <3> QED BY <3>1, <3>2, <3>3, Zenon
  <2>5. Among(x, Flatten(tt)) <=> Somewhere(tt)
    OBVIOUS
  <2> HIDE DEF Somewhere
  <2> QED BY <2>1, <2>2, <2>3, <2>4, <2>5, Zenon
<1>3. T = Seq(Seq(S))
  <2> HIDE DEF T
  <2>1. T \subseteq Seq(Seq(S))
    BY DEF T
  <2> QED BY <1>1, <1>2, <2>1, SeqSetInduction, Zenon
<1> QED BY <1>3, Zenon
=============================================================================
