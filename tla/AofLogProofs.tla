---------------------------- MODULE AofLogProofs ----------------------------
(***************************************************************************)
(* The file is the append-only log that aof.c's callers take it for: what  *)
(* one save adds to it and what one load takes from it are what module Aof *)
(* says of a log of whole records.                                         *)
(***************************************************************************)
EXTENDS AofFileProofs, SequenceFacts

-----------------------------------------------------------------------------
(***************************************************************************)
(* The records of a file                                                   *)
(***************************************************************************)

LogRecord == Records \cup {Torn}

\* A record begins at the n-th unit of f, and ends at the next.
StartsAt(f, n) == f[n].part = 1 /\ f[n].of \in Records

EndsAfter(f, n) == n < Len(f) /\ f[n + 1] = [of |-> f[n].of, part |-> 2]

Entries(f) == [n \in 1 .. Len(f) |-> Entry(f, n)]

EntriesAt(ee, f) == \A n \in 1 .. Len(f) : ee[n] = Entry(f, n)

\* What unit n of a file adds to the log of records.
LEMMA EntryFacts ==
  ASSUME NEW f \in Seq(Unit), NEW n \in 1 .. Len(f)
  PROVE  /\ StartsAt(f, n) /\ EndsAfter(f, n) => Entry(f, n) = <<f[n].of>>
         /\ StartsAt(f, n) /\ ~ EndsAfter(f, n) => Entry(f, n) = <<Torn>>
         /\ ~ StartsAt(f, n) => Entry(f, n) = << >>
         /\ Entry(f, n) \in Seq(LogRecord)
<1>1. f[n] \in Unit
  BY ElementOfSeq
<1>2. f[n].of \in Sections
  BY <1>1 DEF Unit
<1>3. Units(f[n].of)[2] = [of |-> f[n].of, part |-> 2]
  BY <1>2, UnitsFacts, Zenon
<1>4. StartsAt(f, n) /\ EndsAfter(f, n) => Entry(f, n) = <<f[n].of>>
  BY <1>3 DEF StartsAt, EndsAfter, Entry
<1>5. StartsAt(f, n) /\ ~ EndsAfter(f, n) => Entry(f, n) = <<Torn>>
  BY <1>3 DEF StartsAt, EndsAfter, Entry
<1>6. ~ StartsAt(f, n) => Entry(f, n) = << >>
  BY DEF StartsAt, Entry
<1>7. << >> \in Seq(LogRecord) /\ \A r \in LogRecord : <<r>> \in Seq(LogRecord)
  OBVIOUS
<1>8. StartsAt(f, n) => f[n].of \in LogRecord
  BY DEF StartsAt, LogRecord
<1>9. Torn \in LogRecord
  BY DEF LogRecord
<1> QED BY <1>4, <1>5, <1>6, <1>7, <1>8, <1>9, Zenon

\* The type, length and elements of the entries of a file.
LEMMA EntriesFacts ==
  ASSUME NEW f \in Seq(Unit)
  PROVE  /\ Entries(f) \in Seq(Seq(LogRecord))
         /\ Len(Entries(f)) = Len(f)
         /\ EntriesAt(Entries(f), f)
<1>1. PICK l \in Nat : l = Len(f)
  BY LenProperties
<1>2. \A n \in 1 .. l : Entry(f, n) \in Seq(LogRecord)
  BY <1>1, EntryFacts
<1>3. PICK ee : ee = [n \in 1 .. l |-> Entry(f, n)]
  BY Zenon
<1>4. ee \in [1 .. l -> Seq(LogRecord)]
  BY <1>2, <1>3
<1>5. ee \in Seq(Seq(LogRecord)) /\ Len(ee) = l
  BY <1>4, IsASeq
<1>6. ee = Entries(f)
  BY <1>1, <1>3 DEF Entries
<1>7. EntriesAt(ee, f)
  BY <1>1, <1>3 DEF EntriesAt
<1> QED BY <1>1, <1>5, <1>6, <1>7, Zenon

\* The log of records is the concatenation of the entries.
LEMMA LogOfIs ==
  ASSUME NEW f \in Seq(Unit)
  PROVE  LogOf(f) = Flatten(Entries(f)) /\ LogOf(f) \in Seq(LogRecord)
<1>1. LogOf(f) = Flatten(Entries(f))
  BY DEF LogOf, Entries
<1> QED BY <1>1, EntriesFacts, FlattenType

\* Membership in a sequence of one and of none.
LEMMA AmongOne ==
  ASSUME NEW x, NEW y
  PROVE  (Among(x, <<y>>) <=> x = y) /\ ~ Among(x, << >>)
<1>1. Len(<<y>>) = 1 /\ <<y>>[1] = y /\ Len(<< >>) = 0
  OBVIOUS
<1>2. 1 .. 1 = {1} /\ 1 .. 0 = {}
  OBVIOUS
<1> QED BY <1>1, <1>2 DEF Among

\* What is in the log, by where it begins.
LEMMA LogAmong ==
  ASSUME NEW f \in Seq(Unit), NEW x
  PROVE  Among(x, LogOf(f)) <=>
           \E n \in 1 .. Len(f) : /\ StartsAt(f, n)
                                  /\ EndsAfter(f, n) => x = f[n].of
                                  /\ ~ EndsAfter(f, n) => x = Torn
<1>1. PICK ee : ee = Entries(f)
  OBVIOUS
<1>2. ee \in Seq(Seq(LogRecord)) /\ Len(ee) = Len(f) /\ EntriesAt(ee, f)
  BY <1>1, EntriesFacts
<1>3. Among(x, LogOf(f)) <=> \E n \in 1 .. Len(ee) : Among(x, ee[n])
  BY <1>1, <1>2, LogOfIs, FlattenAmong, Zenon
<1>4. ASSUME NEW n \in 1 .. Len(f)
      PROVE  Among(x, ee[n]) <=> /\ StartsAt(f, n)
                                 /\ EndsAfter(f, n) => x = f[n].of
                                 /\ ~ EndsAfter(f, n) => x = Torn
  <2>1. ee[n] = Entry(f, n)
    BY <1>2 DEF EntriesAt
  <2>2. CASE StartsAt(f, n) /\ EndsAfter(f, n)
    BY <2>1, <2>2, EntryFacts, AmongOne
  <2>3. CASE StartsAt(f, n) /\ ~ EndsAfter(f, n)
    BY <2>1, <2>3, EntryFacts, AmongOne
  <2>4. CASE ~ StartsAt(f, n)
    <3>1. ee[n] = << >>
      BY <2>1, <2>4, EntryFacts
    <3> QED BY <2>4, <3>1, AmongOne, Zenon
  <2> QED BY <2>2, <2>3, <2>4
<1> QED BY <1>2, <1>3, <1>4

\* A file without records has an empty log.
LEMMA NoLog ==
  ASSUME NEW f \in Seq(Unit), \A n \in 1 .. Len(f) : f[n].of \notin Records
  PROVE  LogOf(f) = << >>
<1>1. \A x : ~ Among(x, LogOf(f))
  BY LogAmong DEF StartsAt
<1>2. LogOf(f) \in Seq(LogRecord) /\ Len(LogOf(f)) \in Nat
  BY LogOfIs, LenProperties
<1>3. Len(LogOf(f)) = 0
  <2> SUFFICES ASSUME Len(LogOf(f)) # 0 PROVE FALSE
    OBVIOUS
  <2>1. 1 \in 1 .. Len(LogOf(f))
    BY <1>2
  <2>2. Among(LogOf(f)[1], LogOf(f))
    BY <2>1 DEF Among
  <2> QED BY <1>1, <2>2
<1> QED BY <1>2, <1>3, SeqLen

\* The first unit of a record, behind any file, is a torn record.
LEMMA LogTorn ==
  ASSUME NEW f \in Seq(Unit), NEW g \in Seq(Unit), NEW s \in Records,
         Continues(g, f, [of |-> s, part |-> 1])
  PROVE  LogOf(g) = Append(LogOf(f), Torn)
<1>1. /\ Len(f) \in Nat /\ Len(g) = Len(f) + 1
      /\ \A i \in 1 .. Len(f) : g[i] = f[i]
      /\ g[Len(f) + 1] = [of |-> s, part |-> 1]
  BY LenProperties DEF Continues
<1>2. PICK ee, gg, aa : ee = Entries(f) /\ gg = Entries(g) /\ aa = Append(ee, <<Torn>>)
  BY Zenon
<1>3. ee \in Seq(Seq(LogRecord)) /\ Len(ee) = Len(f) /\ EntriesAt(ee, f)
  BY <1>2, EntriesFacts, Zenon
<1>4. gg \in Seq(Seq(LogRecord)) /\ Len(gg) = Len(g) /\ EntriesAt(gg, g)
  BY <1>2, EntriesFacts, Zenon
<1>5. <<Torn>> \in Seq(LogRecord)
  BY DEF LogRecord
<1>6. /\ aa \in Seq(Seq(LogRecord)) /\ Len(aa) = Len(f) + 1
      /\ \A i \in 1 .. Len(f) : aa[i] = ee[i]
      /\ aa[Len(f) + 1] = <<Torn>>
  BY <1>2, <1>3, <1>5, AppendProperties
<1>7. ASSUME NEW i \in 1 .. Len(f) PROVE Entry(g, i) = Entry(f, i)
  <2>1. i \in 1 .. Len(g) /\ g[i] = f[i]
    BY <1>1
  <2>2. StartsAt(g, i) <=> StartsAt(f, i)
    BY <2>1 DEF StartsAt
  <2>3. EndsAfter(g, i) <=> EndsAfter(f, i)
    <3>1. CASE i < Len(f)
      <4>1. i + 1 \in 1 .. Len(f) /\ i < Len(g)
        BY <1>1, <3>1
      <4>2. g[i + 1] = f[i + 1]
        BY <1>1, <4>1, Zenon
      <4> QED BY <2>1, <3>1, <4>1, <4>2, Zenon DEF EndsAfter
    <3>2. CASE ~ (i < Len(f))
      <4>1. i + 1 = Len(f) + 1
        BY <1>1, <3>2
      <4>2. g[i + 1].part = 1
        BY <1>1, <4>1
      <4> QED BY <3>2, <4>2 DEF EndsAfter
    <3> QED BY <3>1, <3>2, Zenon
  <2> QED BY <2>1, <2>2, <2>3, EntryFacts, Zenon
<1>8. Entry(g, Len(f) + 1) = <<Torn>>
  <2>1. Len(f) + 1 \in 1 .. Len(g) /\ ~ (Len(f) + 1 < Len(g))
    BY <1>1
  <2>2. StartsAt(g, Len(f) + 1)
    BY <1>1 DEF StartsAt
  <2> QED BY <2>1, <2>2, EntryFacts, Zenon DEF EndsAfter
<1>9. gg = aa
  <2>1. ASSUME NEW i \in 1 .. Len(f) PROVE gg[i] = aa[i]
    <3>1. i \in 1 .. Len(g)
      BY <1>1
    <3>2. gg[i] = Entry(g, i) /\ ee[i] = Entry(f, i)
      BY <1>3, <1>4, <3>1, Zenon DEF EntriesAt
    <3>3. aa[i] = ee[i]
      BY <1>6
    <3> QED BY <1>7, <3>2, <3>3, Zenon
  <2>2. gg[Len(f) + 1] = aa[Len(f) + 1]
    <3>1. Len(f) + 1 \in 1 .. Len(g)
      BY <1>1
    <3>2. gg[Len(f) + 1] = Entry(g, Len(f) + 1)
      BY <1>4, <3>1 DEF EntriesAt
    <3> QED BY <1>6, <1>8, <3>2, Zenon
  <2>3. ASSUME NEW i \in 1 .. Len(gg) PROVE gg[i] = aa[i]
    <3>1. i \in 1 .. Len(f) + 1 /\ Len(f) \in Nat
      BY <1>1, <1>4, Zenon
    <3>2. i \in 1 .. Len(f) \/ i = Len(f) + 1
      BY <3>1
    <3> QED BY <2>1, <2>2, <3>2, Zenon
  <2>4. Len(gg) = Len(aa)
    BY <1>1, <1>4, <1>6, Zenon
  <2> QED BY <1>4, <1>6, <2>3, <2>4, SeqEqual, Zenon
<1>10. Flatten(aa) = Joined(Flatten(ee), <<Torn>>)
  BY <1>2, <1>3, <1>5, FlattenAppend, Zenon
<1>11. LogOf(g) = Joined(LogOf(f), <<Torn>>)
  BY <1>2, <1>9, <1>10, LogOfIs, Zenon
<1> QED BY <1>11, LogOfIs, AppendIsConcat DEF Joined, LogRecord

\* Its second unit makes it a whole one.
LEMMA LogWhole ==
  ASSUME NEW f \in Seq(Unit), NEW g \in Seq(Unit), NEW h \in Seq(Unit), NEW s \in Records,
         Continues(g, f, [of |-> s, part |-> 1]), Continues(h, g, [of |-> s, part |-> 2])
  PROVE  LogOf(h) = Append(LogOf(f), s)
<1>1. /\ Len(f) \in Nat /\ Len(g) = Len(f) + 1 /\ Len(h) = Len(f) + 2
      /\ \A i \in 1 .. Len(f) : g[i] = f[i] /\ h[i] = f[i]
      /\ h[Len(f) + 1] = [of |-> s, part |-> 1]
      /\ h[Len(f) + 2] = [of |-> s, part |-> 2]
  BY LenProperties DEF Continues
<1>2. PICK ee, hh, aa, bb : /\ ee = Entries(f) /\ hh = Entries(h)
                            /\ aa = Append(ee, <<s>>) /\ bb = Append(aa, << >>)
  BY Zenon
<1>3. ee \in Seq(Seq(LogRecord)) /\ Len(ee) = Len(f) /\ EntriesAt(ee, f)
  BY <1>2, EntriesFacts
<1>4. hh \in Seq(Seq(LogRecord)) /\ Len(hh) = Len(h) /\ EntriesAt(hh, h)
  BY <1>2, EntriesFacts
<1>5. <<s>> \in Seq(LogRecord) /\ << >> \in Seq(LogRecord) /\ s \in LogRecord
  BY DEF LogRecord
<1>6. /\ aa \in Seq(Seq(LogRecord)) /\ Len(aa) = Len(f) + 1
      /\ \A i \in 1 .. Len(f) : aa[i] = ee[i]
      /\ aa[Len(f) + 1] = <<s>>
  BY <1>2, <1>3, <1>5, AppendProperties
<1>7. /\ bb \in Seq(Seq(LogRecord)) /\ Len(bb) = Len(f) + 2
      /\ \A i \in 1 .. Len(f) + 1 : bb[i] = aa[i]
      /\ bb[Len(f) + 2] = << >>
  <2>1. /\ bb \in Seq(Seq(LogRecord)) /\ Len(bb) = Len(aa) + 1
        /\ \A i \in 1 .. Len(aa) : bb[i] = aa[i]
        /\ bb[Len(aa) + 1] = << >>
    BY <1>2, <1>5, <1>6, AppendProperties
  <2>2. Len(aa) + 1 = Len(f) + 2
    BY <1>1, <1>6
  <2> QED BY <1>6, <2>1, <2>2, Zenon
<1>8. ASSUME NEW i \in 1 .. Len(f) PROVE Entry(h, i) = Entry(f, i)
  <2>1. i \in 1 .. Len(h) /\ h[i] = f[i]
    BY <1>1
  <2>2. StartsAt(h, i) <=> StartsAt(f, i)
    BY <2>1 DEF StartsAt
  <2>3. EndsAfter(h, i) <=> EndsAfter(f, i)
    <3>1. CASE i < Len(f)
      <4>1. i + 1 \in 1 .. Len(f) /\ i < Len(h)
        BY <1>1, <3>1
      <4>2. h[i + 1] = f[i + 1]
        BY <1>1, <4>1, Zenon
      <4> QED BY <2>1, <3>1, <4>1, <4>2, Zenon DEF EndsAfter
    <3>2. CASE ~ (i < Len(f))
      <4>1. i + 1 = Len(f) + 1
        BY <1>1, <3>2
      <4>2. h[i + 1].part = 1
        BY <1>1, <4>1
      <4> QED BY <3>2, <4>2 DEF EndsAfter
    <3> QED BY <3>1, <3>2, Zenon
  <2> QED BY <2>1, <2>2, <2>3, EntryFacts, Zenon
<1>9. Entry(h, Len(f) + 1) = <<s>>
  <2>1. Len(f) + 1 \in 1 .. Len(h) /\ Len(f) + 1 < Len(h) /\ Len(f) + 1 + 1 = Len(f) + 2
    BY <1>1
  <2>2. StartsAt(h, Len(f) + 1) /\ h[Len(f) + 1].of = s
    BY <1>1 DEF StartsAt
  <2>3. EndsAfter(h, Len(f) + 1)
    BY <1>1, <2>1, <2>2, Zenon DEF EndsAfter
  <2> QED BY <2>1, <2>2, <2>3, EntryFacts, Zenon
<1>10. Entry(h, Len(f) + 2) = << >>
  <2>1. Len(f) + 2 \in 1 .. Len(h)
    BY <1>1
  <2>2. ~ StartsAt(h, Len(f) + 2)
    BY <1>1 DEF StartsAt
  <2> QED BY <2>1, <2>2, EntryFacts, Zenon
<1>11. hh = bb
  <2>1. ASSUME NEW i \in 1 .. Len(f) PROVE hh[i] = bb[i]
    <3>1. i \in 1 .. Len(h) /\ i \in 1 .. Len(f) + 1
      BY <1>1
    <3>2. hh[i] = Entry(h, i) /\ ee[i] = Entry(f, i)
      BY <1>3, <1>4, <3>1, Zenon DEF EntriesAt
    <3>3. bb[i] = aa[i] /\ aa[i] = ee[i]
      BY <1>6, <1>7, <3>1, Zenon
    <3> QED BY <1>8, <3>2, <3>3, Zenon
  <2>2. hh[Len(f) + 1] = bb[Len(f) + 1]
    <3>1. Len(f) + 1 \in 1 .. Len(h) /\ Len(f) + 1 \in 1 .. Len(f) + 1
      BY <1>1
    <3>2. hh[Len(f) + 1] = Entry(h, Len(f) + 1)
      BY <1>4, <3>1, Zenon DEF EntriesAt
    <3>3. bb[Len(f) + 1] = aa[Len(f) + 1]
      BY <1>7, <3>1, Zenon
    <3> QED BY <1>6, <1>9, <3>2, <3>3, Zenon
  <2>3. hh[Len(f) + 2] = bb[Len(f) + 2]
    <3>1. Len(f) + 2 \in 1 .. Len(h)
      BY <1>1
    <3>2. hh[Len(f) + 2] = Entry(h, Len(f) + 2)
      BY <1>4, <3>1, Zenon DEF EntriesAt
    <3> QED BY <1>7, <1>10, <3>2, Zenon
  <2>4. ASSUME NEW i \in 1 .. Len(hh) PROVE hh[i] = bb[i]
    <3>1. i \in 1 .. Len(f) + 2 /\ Len(f) \in Nat
      BY <1>1, <1>4, Zenon
    <3>2. i \in 1 .. Len(f) \/ i = Len(f) + 1 \/ i = Len(f) + 2
      BY <3>1
    <3> QED BY <2>1, <2>2, <2>3, <3>2, Zenon
  <2>5. Len(hh) = Len(bb)
    BY <1>1, <1>4, <1>7, Zenon
  <2> QED BY <1>4, <1>7, <2>4, <2>5, SeqEqual, Zenon
<1>12. Flatten(aa) = Joined(Flatten(ee), <<s>>) /\ Flatten(bb) = Joined(Flatten(aa), << >>)
  BY <1>2, <1>3, <1>5, <1>6, FlattenAppend, Zenon
<1>13. Joined(Flatten(aa), << >>) = Flatten(aa)
  BY <1>6, FlattenType, JoinedEmpty
<1>14. LogOf(h) = Joined(LogOf(f), <<s>>)
  BY <1>2, <1>11, <1>12, <1>13, LogOfIs, Zenon
<1> QED BY <1>5, <1>14, LogOfIs, AppendIsConcat, Zenon DEF Joined

-----------------------------------------------------------------------------
(***************************************************************************)
(* The shape of the file, whatever fails                                   *)
(***************************************************************************)

\* Two whole headers, cut short at most at the end, then units of records;
\* the second unit of a record follows its first.  First units may follow
\* each other: nobody cuts off what a failing write left.
Shape(f) ==
  \A n \in 1 .. Len(f) :
    /\ n = 1 => f[n] = [of |-> Header, part |-> 1]
    /\ n = 2 => f[n] = [of |-> Header, part |-> 2]
    /\ n = 3 => f[n] = [of |-> JobHeader, part |-> 1]
    /\ n = 4 => f[n] = [of |-> JobHeader, part |-> 2]
    /\ n >= 5 => /\ f[n].of \in Records
                 /\ f[n].part = 2 => f[n - 1] = [of |-> f[n].of, part |-> 1]

\* Where the file stands while a master is at each place.
Stand(m) ==
  /\ pc[m] = "open" => file = << >> \/ Len(file) >= 4
  /\ pc[m] = "header" => Len(file) = 2 - left[m]
  /\ pc[m] = "job" => Len(file) = 4 - left[m]
  /\ pc[m] \in {"initflush", "bind", "up", "record", "recflush"} => Len(file) >= 4
  /\ pc[m] = "record" /\ left[m] = 1 =>
       Len(file) >= 5 /\ file[Len(file)] = [of |-> sec[m], part |-> 1]

ShapeInv == Shape(file) /\ \A m \in Masters : Stand(m)

\* What a power failure leaves has the shape.
LEMMA ShapePrefix ==
  ASSUME NEW f \in Seq(Unit), NEW g \in Seq(Unit), Shape(f),
         Len(g) <= Len(f), \A i \in 1 .. Len(g) : g[i] = f[i]
  PROVE  Shape(g)
<1>1. Len(f) \in Nat /\ Len(g) \in Nat
  BY LenProperties, Zenon
<1> SUFFICES ASSUME NEW n \in 1 .. Len(g)
             PROVE  /\ n = 1 => g[n] = [of |-> Header, part |-> 1]
                    /\ n = 2 => g[n] = [of |-> Header, part |-> 2]
                    /\ n = 3 => g[n] = [of |-> JobHeader, part |-> 1]
                    /\ n = 4 => g[n] = [of |-> JobHeader, part |-> 2]
                    /\ n >= 5 => /\ g[n].of \in Records
                                 /\ g[n].part = 2 => g[n - 1] = [of |-> g[n].of, part |-> 1]
  BY DEF Shape
<1>2. n \in 1 .. Len(f) /\ g[n] = f[n]
  BY <1>1
<1>3. n >= 5 => n - 1 \in 1 .. Len(g) /\ g[n - 1] = f[n - 1]
  BY <1>1
<1> QED BY <1>2, <1>3, Zenon DEF Shape

\* Each section goes where it belongs.
Fits(f, s, l) ==
  \/ s = Header /\ Len(f) = 2 - l
  \/ s = JobHeader /\ Len(f) = 4 - l
  \/ /\ s \in Records
     /\ Len(f) >= 4
     /\ l = 1 => Len(f) >= 5 /\ f[Len(f)] = [of |-> s, part |-> 1]

\* A write that fits keeps the shape of the file.
LEMMA ShapeWrite ==
  ASSUME NEW f \in Seq(Unit), NEW g \in Seq(Unit), NEW s \in Sections,
         NEW l \in 1 .. 2, NEW n \in 1 .. l, Shape(f), Wrote(g, f, s, l, n), Fits(f, s, l)
  PROVE  Shape(g)
<1>1. /\ Len(f) \in Nat /\ Len(g) = Len(f) + n
      /\ \A i \in 1 .. Len(f) : g[i] = f[i]
      /\ \A i \in 1 .. n : g[Len(f) + i] = [of |-> s, part |-> 2 - l + i]
  BY LenProperties, Zenon DEF Wrote
<1> SUFFICES ASSUME NEW i \in 1 .. Len(g)
             PROVE  /\ i = 1 => g[i] = [of |-> Header, part |-> 1]
                    /\ i = 2 => g[i] = [of |-> Header, part |-> 2]
                    /\ i = 3 => g[i] = [of |-> JobHeader, part |-> 1]
                    /\ i = 4 => g[i] = [of |-> JobHeader, part |-> 2]
                    /\ i >= 5 => /\ g[i].of \in Records
                                 /\ g[i].part = 2 => g[i - 1] = [of |-> g[i].of, part |-> 1]
  BY Zenon DEF Shape
<1>2. CASE i <= Len(f)
  <2>1. i \in 1 .. Len(f) /\ g[i] = f[i]
    BY <1>1, <1>2
  <2>2. i >= 5 => i - 1 \in 1 .. Len(f)
    BY <1>1, <2>1
  <2>3. i >= 5 => g[i - 1] = f[i - 1]
    BY <1>1, <2>2, Zenon
  <2> QED BY <2>1, <2>2, <2>3, Zenon DEF Shape
<1>3. CASE i > Len(f)
  <2>1. PICK j \in 1 .. n : i = Len(f) + j
    <3>1. i - Len(f) \in 1 .. n /\ i = Len(f) + (i - Len(f))
      BY <1>1, <1>3
    <3> QED BY <3>1
  <2>2. g[i] = [of |-> s, part |-> 2 - l + j]
    BY <1>1, <2>1, Zenon
  <2>3. CASE s = Header /\ Len(f) = 2 - l
    <3>1. i = 2 - l + j /\ i \in {1, 2}
      BY <1>1, <2>1, <2>3
    <3> QED BY <2>2, <2>3, <3>1
  <2>4. CASE s = JobHeader /\ Len(f) = 4 - l
    <3>1. i = 4 - l + j /\ i \in {3, 4}
      BY <1>1, <2>1, <2>4
    <3>2. 2 - l + j = i - 2
      BY <3>1
    <3> QED BY <2>2, <2>4, <3>1, <3>2
  <2>5. CASE /\ s \in Records
             /\ Len(f) >= 4
             /\ l = 1 => Len(f) >= 5 /\ f[Len(f)] = [of |-> s, part |-> 1]
    <3>1. i >= 5 /\ g[i].of = s /\ g[i].part = 2 - l + j
      BY <1>1, <2>1, <2>2, <2>5
    <3>2. g[i].part = 2 => g[i - 1] = [of |-> s, part |-> 1]
      <4> HAVE g[i].part = 2
      <4>1. j = l
        BY <3>1
      <4>2. CASE l = 1
        <5>1. i - 1 = Len(f) /\ Len(f) \in 1 .. Len(f)
          BY <1>1, <2>1, <2>5, <4>1, <4>2
        <5> QED BY <1>1, <2>5, <4>2, <5>1, Zenon
      <4>3. CASE l = 2
        <5>1. i - 1 = Len(f) + 1 /\ 1 \in 1 .. n /\ 2 - l + 1 = 1
          BY <1>1, <2>1, <4>1, <4>3
        <5>2. g[Len(f) + 1] = [of |-> s, part |-> 2 - l + 1]
          BY <1>1, <5>1, Zenon
        <5> QED BY <5>1, <5>2, Zenon
      <4> QED BY <4>2, <4>3
    <3> QED BY <2>5, <3>1, <3>2
  <2> QED BY <2>3, <2>4, <2>5 DEF Fits
<1> QED BY <1>1, <1>2, <1>3

\* A file that loads holds both headers.
LEMMA LoadsLong ==
  ASSUME NEW f \in Seq(Unit), "ok" \in aof_load(f)
  PROVE  Len(f) >= 4
<1>1. Len(f) \in Nat
  BY LenProperties
<1>2. ~ (Len(f) < 2) /\ Len(f) # 2 /\ Chunk(f, 2) = Units(JobHeader)
  BY Zenon DEF aof_load
<1>3. JobHeader \in Sections
  BY DEF Sections
<1>4. Len(f) # 3
  <2> SUFFICES ASSUME Len(f) = 3 PROVE FALSE
    OBVIOUS
  <2>1. Len(f) = 2 * 2 - 1 /\ 2 \in Nat
    OBVIOUS
  <2> QED BY <1>2, <1>3, <2>1, TornChunk, Zenon
<1>5. PICK n \in Nat : n = Len(f)
  BY <1>1
<1>6. ~ (n < 2) /\ n # 2 /\ n # 3
  BY <1>2, <1>4, <1>5, Zenon
<1>7. n >= 4
  BY <1>6
<1> QED BY <1>5, <1>7

\* A write by the only master puts its units where they belong.
LEMMA WriteShape ==
  ASSUME TypeInv, KnownInv, ShapeInv, OneMaster,
         NEW m \in Masters, NEW n \in {1, 2}, write_all(m, n)
  PROVE  ShapeInv'
<1>1. /\ TypeInv' /\ left[m] \in 1 .. 2 /\ n \in 1 .. left[m]
      /\ Wrote(file', file, sec[m], left[m], n)
  BY WriteTypes
<1>2. Shape(file) /\ Stand(m) /\ \A o \in Masters : o = m
  BY Zenon DEF ShapeInv, OneMaster
<1>3. /\ file \in Seq(Unit) /\ file' \in Seq(Unit) /\ sec[m] \in Sections
      /\ Len(file) \in Nat /\ Len(file') = Len(file) + n
      /\ pc \in [Masters -> Places] /\ left \in [Masters -> 0 .. 2]
      /\ sec \in [Masters -> Sections]
  BY <1>1, LenProperties, Zenon DEF TypeInv, Wrote
<1>4. pc[m] \in Writing
  BY <1>1 DEF KnownInv
<1>5. Fits(file, sec[m], left[m])
  BY <1>1, <1>2, <1>4, Zenon DEF KnownInv, Stand, Writing, Fits
<1>6. Shape(file')
  BY <1>1, <1>2, <1>3, <1>5, ShapeWrite, Zenon
<1>7. Stand(m)'
  <2>1. CASE n < left[m]
    <3>1. left' = [left EXCEPT ![m] = @ - n] /\ pc' = pc /\ sec' = sec
      BY <2>1, WriteCases, Zenon
    <3>2. n = 1 /\ left[m] = 2 /\ left'[m] = 1 /\ pc'[m] = pc[m] /\ Len(file') = Len(file) + 1
      BY <1>1, <1>3, <2>1, <3>1
    <3>3. file'[Len(file')] = [of |-> sec'[m], part |-> 1]
      <4>1. 1 \in 1 .. n /\ 2 - left[m] + 1 = 1
        BY <3>2
      <4>2. file'[Len(file) + 1] = [of |-> sec[m], part |-> 2 - left[m] + 1]
        BY <1>1, <4>1, Zenon DEF Wrote
      <4> QED BY <3>1, <3>2, <4>1, <4>2, Zenon
    <3>4. CASE pc[m] = "header"
      <4>1. Len(file) = 2 - left[m]
        BY <1>2, <3>4, Zenon DEF Stand
      <4>2. Len(file') = 2 - left'[m]
        BY <3>2, <4>1
      <4> QED BY <3>2, <3>4, <4>2, Zenon DEF Stand
    <3>5. CASE pc[m] = "job"
      <4>1. Len(file) = 4 - left[m]
        BY <1>2, <3>5, Zenon DEF Stand
      <4>2. Len(file') = 4 - left'[m]
        BY <3>2, <4>1
      <4> QED BY <3>2, <3>5, <4>2, Zenon DEF Stand
    <3>6. CASE pc[m] = "record"
      <4>1. Len(file') >= 5
        BY <1>2, <1>3, <3>2, <3>6 DEF Stand
      <4> QED BY <3>2, <3>3, <3>6, <4>1 DEF Stand
    <3> QED BY <1>4, <3>4, <3>5, <3>6, Zenon DEF Writing
  <2>2. CASE n = left[m] /\ pc[m] = "header"
    <3>1. pc' = [pc EXCEPT ![m] = "job"] /\ left' = [left EXCEPT ![m] = 2]
      BY <2>2, WriteCases, Zenon
    <3>2. pc'[m] = "job" /\ left'[m] = 2
      BY <1>3, <3>1, Zenon
    <3>3. Len(file') = 2
      BY <1>1, <1>2, <1>3, <2>2 DEF Stand
    <3> QED BY <3>2, <3>3 DEF Stand
  <2>3. CASE n = left[m] /\ pc[m] # "header"
    <3>1. pc' = [pc EXCEPT ![m] = IF pc[m] = "job" THEN "initflush" ELSE "recflush"]
      BY <2>3, WriteCases, Zenon
    <3>2. pc'[m] \in {"initflush", "recflush"}
      BY <1>3, <3>1, Zenon
    <3>3. Len(file') >= 4
      BY <1>1, <1>2, <1>3, <1>4, <2>3 DEF Stand, Writing
    <3> QED BY <3>2, <3>3, Zenon DEF Stand
  <2> QED BY <1>1, <2>1, <2>2, <2>3
<1> QED BY <1>2, <1>6, <1>7, Zenon DEF ShapeInv

\* Every step of the only master keeps the shape.
LEMMA ShapeStep ==
  ASSUME TypeInv, KnownInv, ShapeInv, OneMaster, [Next]_vars
  PROVE  ShapeInv'
<1>1. CASE PowerFailure
  <2>1. /\ TypeInv' /\ Len(file') <= Len(file)
        /\ \A i \in 1 .. Len(file') : file'[i] = file[i]
    BY <1>1, PowerTypes, Zenon
  <2>2. Shape(file')
    BY <2>1, ShapePrefix, Zenon DEF ShapeInv, TypeInv
  <2>3. \A m \in Masters : pc'[m] = "off"
    BY <1>1, Zenon DEF PowerFailure
  <2>4. \A m \in Masters : Stand(m)'
    BY <2>3, Zenon DEF Stand
  <2> QED BY <2>2, <2>4, Zenon DEF ShapeInv
<1>2. ASSUME NEW m \in Masters, MasterStep(m) \/ Killed(m) PROVE ShapeInv'
  <2> USE DEF Goto
  <2>1. /\ pc \in [Masters -> Places] /\ sec \in [Masters -> Sections]
        /\ left \in [Masters -> 0 .. 2] /\ file \in Seq(Unit)
    BY DEF TypeInv
  <2>2. Shape(file) /\ Stand(m) /\ \A o \in Masters : o = m
    BY DEF ShapeInv, OneMaster
  <2>3. ASSUME file' = file, Stand(m)' PROVE ShapeInv'
    BY <2>2, <2>3, Zenon DEF ShapeInv
  <2>4. CASE bootstrap_new(m)
    <3>1. file' = file /\ file' = << >> /\ pc'[m] = "open"
      BY <2>1, <2>4, Zenon DEF bootstrap_new
    <3> QED BY <2>3, <3>1, Zenon DEF Stand
  <2>5. ASSUME NEW o \in {"ok", "refused", "aborted"}, bootstrap_load(m, o) PROVE ShapeInv'
    <3>1. file' = file /\ o \in aof_load(file) /\ pc'[m] = IF o = "ok" THEN "open" ELSE o
      BY <2>1, <2>5, Zenon DEF bootstrap_load
    <3>2. o = "ok" => Len(file) >= 4
      BY <2>1, <3>1, LoadsLong, Zenon
    <3> QED BY <2>3, <3>1, <3>2, Zenon DEF Stand
  <2>6. CASE aof_init_new(m)
    <3>1. file' = file /\ file = << >> /\ pc'[m] = "header" /\ left'[m] = 2
      BY <2>1, <2>6, Zenon DEF aof_init_new, Emit
    <3>2. Len(file') = 0
      BY <3>1, EmptySeq, Zenon
    <3> QED BY <2>3, <3>1, <3>2 DEF Stand
  <2>7. CASE aof_init_existing(m)
    <3>1. file' = file /\ file # << >> /\ pc[m] = "open" /\ pc'[m] = "bind"
      BY <2>1, <2>7, Zenon DEF aof_init_existing
    <3> QED BY <2>2, <2>3, <3>1, Zenon DEF Stand
  <2>8. CASE server_init(m)
    <3>1. file' = file /\ pc[m] = "bind" /\ pc'[m] \in {"off", "up"}
      BY <2>1, <2>8, Zenon DEF server_init
    <3> QED BY <2>2, <2>3, <3>1, Zenon DEF Stand
  <2>9. ASSUME NEW n \in {1, 2}, write_all(m, n) PROVE ShapeInv'
    BY <2>9, WriteShape, Zenon
  <2>10. CASE write_fails(m) \/ flush_fails(m)
    <3>1. /\ file' = file
          /\ pc'[m] = IF pc[m] \in Serving THEN "up" ELSE "off"
      BY <2>1, <2>10, Zenon DEF write_fails, flush_fails, Abandon
    <3> QED BY <2>2, <2>3, <3>1, Zenon DEF Stand, Serving
  <2>11. CASE durable_flush_init(m)
    <3>1. file' = file /\ pc[m] = "initflush" /\ pc'[m] = "bind"
      BY <2>1, <2>11, Zenon DEF durable_flush_init
    <3> QED BY <2>2, <2>3, <3>1, Zenon DEF Stand
  <2>12. CASE durable_flush_record(m)
    <3>1. file' = file /\ pc[m] = "recflush" /\ pc'[m] = "up"
      BY <2>1, <2>12, Zenon DEF durable_flush_record
    <3> QED BY <2>2, <2>3, <3>1, Zenon DEF Stand
  <2>13. ASSUME NEW t \in Tasks, task_done(m, t) PROVE ShapeInv'
    <3>1. file' = file /\ pc[m] = "up" /\ pc'[m] = "record" /\ left'[m] = 2
      BY <2>1, <2>13, Zenon DEF task_done, Emit
    <3> QED BY <2>2, <2>3, <3>1 DEF Stand
  <2>14. CASE Killed(m)
    <3>1. file' = file /\ pc'[m] = "off"
      BY <2>1, <2>14, Zenon DEF Killed
    <3> QED BY <2>3, <3>1, Zenon DEF Stand
  <2> QED
    BY <1>2, <2>4, <2>5, <2>6, <2>7, <2>8, <2>9, <2>10, <2>11, <2>12, <2>13, <2>14, Zenon
    DEF MasterStep
<1>3. CASE UNCHANGED vars
  BY <1>3 DEF vars, procVars, ShapeInv, Stand
<1> QED BY <1>1, <1>2, <1>3, Zenon DEF Next

\* With one master, whatever calls fail, the file keeps its shape.
THEOREM ShapeInvariant ==
  ASSUME OneMaster
  PROVE  Spec => []ShapeInv
<1>1. Init => ShapeInv
  <2> SUFFICES ASSUME Init PROVE ShapeInv
    OBVIOUS
  <2>1. file = << >> /\ \A m \in Masters : pc[m] = "off"
    BY DEF Init
  <2>2. Len(<< >>) = 0 /\ 1 .. 0 = {}
    OBVIOUS
  <2>3. Shape(file)
    BY <2>1, <2>2, Zenon DEF Shape
  <2> QED BY <2>1, <2>3, Zenon DEF ShapeInv, Stand
<1>2. FileInv /\ ShapeInv /\ [Next]_vars => ShapeInv'
  BY ShapeStep, Zenon DEF FileInv
<1> QED BY <1>1, <1>2, FileInvariant, PTL DEF Spec

-----------------------------------------------------------------------------
(***************************************************************************)
(* The file implements the log of records                                  *)
(***************************************************************************)

\* One unit, or two.
LEMMA WroteOne ==
  ASSUME NEW f \in Seq(Unit), NEW g, NEW s \in Sections, NEW l \in 1 .. 2, Wrote(g, f, s, l, 1)
  PROVE  Continues(g, f, [of |-> s, part |-> 3 - l])
<1>1. 1 \in 1 .. 1 /\ 2 - l + 1 = 3 - l
  OBVIOUS
<1>2. g[Len(f) + 1] = [of |-> s, part |-> 2 - l + 1]
  BY <1>1, Zenon DEF Wrote
<1> QED BY <1>1, <1>2, Zenon DEF Wrote, Continues

\* Writing a whole section is writing its two units one by one.
LEMMA WroteTwo ==
  ASSUME NEW f \in Seq(Unit), NEW g, NEW s \in Sections, Wrote(g, f, s, 2, 2)
  PROVE  \E h \in Seq(Unit) : /\ Continues(h, f, [of |-> s, part |-> 1])
                              /\ Continues(g, h, [of |-> s, part |-> 2])
<1>1. 1 \in 1 .. 2 /\ 2 \in 1 .. 2 /\ 2 - 2 + 1 = 1 /\ 2 - 2 + 2 = 2
  OBVIOUS
<1>2. /\ g[Len(f) + 1] = [of |-> s, part |-> 2 - 2 + 1]
      /\ g[Len(f) + 2] = [of |-> s, part |-> 2 - 2 + 2]
  BY <1>1, Zenon DEF Wrote
<1>3. /\ g[Len(f) + 1] = [of |-> s, part |-> 1]
      /\ g[Len(f) + 2] = [of |-> s, part |-> 2]
  BY <1>1, <1>2, Zenon
<1>4. /\ Len(f) \in Nat /\ Len(g) = Len(f) + 2
      /\ \A i \in 1 .. Len(f) : g[i] = f[i]
  BY LenProperties DEF Wrote
<1>5. PICK u \in Unit : u = [of |-> s, part |-> 1]
  BY Zenon DEF Unit
<1>6. PICK h : h = Append(f, u)
  BY Zenon
<1>7. /\ h \in Seq(Unit) /\ Len(h) = Len(f) + 1
      /\ \A i \in 1 .. Len(f) : h[i] = f[i]
      /\ h[Len(f) + 1] = u
  BY <1>6, AppendProperties
<1>8. Continues(h, f, [of |-> s, part |-> 1])
  BY <1>5, <1>7, Zenon DEF Continues
<1>9. Continues(g, h, [of |-> s, part |-> 2])
  <2>1. \A i \in 1 .. Len(h) : g[i] = h[i]
    <3> SUFFICES ASSUME NEW i \in 1 .. Len(h) PROVE g[i] = h[i]
      OBVIOUS
    <3>1. i \in 1 .. Len(f) \/ i = Len(f) + 1
      BY <1>4, <1>7
    <3> QED BY <1>3, <1>4, <1>5, <1>7, <3>1, Zenon
  <2>2. Len(h) + 1 = Len(f) + 2
    BY <1>4, <1>7
  <2> QED BY <1>3, <1>4, <2>1, <2>2, Zenon DEF Continues
<1> QED BY <1>7, <1>8, <1>9, Zenon

\* A file without its last unit.
LEMMA Front ==
  ASSUME NEW f \in Seq(Unit), Len(f) >= 1
  PROVE  /\ SubSeq(f, 1, Len(f) - 1) \in Seq(Unit)
         /\ Continues(f, SubSeq(f, 1, Len(f) - 1), f[Len(f)])
<1>1. Len(f) \in Nat /\ Len(f) - 1 \in 0 .. Len(f)
  BY LenProperties
<1>2. PICK p : p = Start(f, Len(f) - 1)
  BY Zenon
<1>3. p \in Seq(Unit) /\ Len(p) = Len(f) - 1 /\ Agree(p, f, Len(f) - 1)
  BY <1>1, <1>2, StartFacts, Zenon DEF Agree
<1>4. Len(f) = Len(p) + 1
  BY <1>1, <1>3
<1>5. Continues(f, p, f[Len(f)])
  BY <1>3, <1>4, Zenon DEF Continues, Agree
<1> QED BY <1>2, <1>3, <1>5, Zenon DEF Start

\* What preceded the last unit written.
LEMMA FrontOf ==
  ASSUME NEW f \in Seq(Unit), NEW g \in Seq(Unit), NEW u, Continues(g, f, u)
  PROVE  SubSeq(g, 1, Len(g) - 1) = f
<1>1. /\ Len(f) \in Nat /\ Len(g) = Len(f) + 1
      /\ \A i \in 1 .. Len(f) : g[i] = f[i]
  BY LenProperties, Zenon DEF Continues
<1>2. Len(g) - 1 = Len(f) /\ Len(g) - 1 \in 0 .. Len(g)
  BY <1>1
<1>3. PICK p : p = Start(g, Len(g) - 1)
  OBVIOUS
<1>4. p \in Seq(Unit) /\ Len(p) = Len(g) - 1 /\ Agree(p, g, Len(g) - 1)
  BY <1>2, <1>3, StartFacts, Zenon DEF Agree
<1>5. Len(p) = Len(f) /\ \A i \in 1 .. Len(p) : p[i] = f[i]
  BY <1>1, <1>2, <1>4, Zenon DEF Agree
<1>6. p = f
  BY <1>4, <1>5, SeqEqual, Zenon
<1> QED BY <1>3, <1>6, Zenon DEF Start

\* Among the headers there are no records.
LEMMA HeadersOnly ==
  ASSUME NEW f \in Seq(Unit), Shape(f), Len(f) <= 4
  PROVE  LogOf(f) = << >>
<1>1. ASSUME NEW n \in 1 .. Len(f) PROVE f[n].of \notin Records
  <2>1. n = 1 \/ n = 2 \/ n = 3 \/ n = 4
    BY LenProperties
  <2>2. \E p \in {1, 2} : f[n] = [of |-> Header, part |-> p] \/ f[n] = [of |-> JobHeader, part |-> p]
    BY <2>1, Zenon DEF Shape
  <2>3. f[n].of = Header \/ f[n].of = JobHeader
    BY <2>2
  <2> QED BY <2>3, RecordFacts, Zenon
<1> QED BY <1>1, NoLog, Zenon

\* aof_append_completed, by outcome.
LEMMA AppendOutcome ==
  ASSUME NEW log, NEW s
  PROVE  /\ aof_append_completed(log, s, "ok") = Append(log, s)
         /\ aof_append_completed(log, s, "torn") = Append(log, Torn)
  BY Zenon DEF aof_append_completed

\* A write is an append when it ends a record, and changes nothing else.
LEMMA WriteAppends ==
  ASSUME TypeInv, KnownInv, ShapeInv, OneMaster,
         NEW m \in Masters, NEW n \in {1, 2}, write_all(m, n)
  PROVE  Log' = Log \/ (sec[m] \in Records /\ Log' = Append(Log, sec[m]))
<1>1. /\ TypeInv' /\ left[m] \in 1 .. 2 /\ n \in 1 .. left[m]
      /\ Wrote(file', file, sec[m], left[m], n)
  BY WriteTypes
<1>2. Shape(file) /\ Stand(m) /\ \A o \in Masters : o = m
  BY DEF ShapeInv, OneMaster
<1>3. /\ file \in Seq(Unit) /\ file' \in Seq(Unit) /\ sec[m] \in Sections
      /\ Len(file) \in Nat /\ Len(file') = Len(file) + n
      /\ pc \in [Masters -> Places] /\ left \in [Masters -> 0 .. 2]
  BY <1>1, LenProperties, Zenon DEF TypeInv, Wrote
<1>4. pc[m] \in Writing
  BY <1>1 DEF KnownInv
<1>5. /\ InProgress <=> pc[m] = "record" /\ left[m] = 1
      /\ InProgress' <=> pc'[m] = "record" /\ left'[m] = 1
  BY <1>2 DEF InProgress
<1>6. ShapeInv'
  BY WriteShape
<1>7. CASE pc[m] # "record"
  <2>1. Len(file) <= 4 /\ Len(file') <= 4
    BY <1>1, <1>2, <1>3, <1>4, <1>7 DEF Stand, Writing
  <2>2. pc'[m] # "record"
    <3>1. CASE n < left[m]
      BY <1>7, <3>1, WriteCases, Zenon
    <3>2. CASE n = left[m] /\ pc[m] = "header"
      <4>1. pc' = [pc EXCEPT ![m] = "job"]
        BY <3>2, WriteCases, Zenon
      <4> QED BY <1>3, <4>1, Zenon
    <3>3. CASE n = left[m] /\ pc[m] # "header"
      <4>1. pc' = [pc EXCEPT ![m] = IF pc[m] = "job" THEN "initflush" ELSE "recflush"]
        BY <3>3, WriteCases
      <4> QED BY <1>3, <4>1, Zenon
    <3> QED BY <1>1, <3>1, <3>2, <3>3
  <2>3. Settled = file /\ Settled' = file'
    BY <1>5, <1>7, <2>2, Zenon DEF Settled
  <2>4. LogOf(file) = << >>
    BY <1>2, <1>3, <2>1, HeadersOnly, Zenon
  <2>5. LogOf(file') = << >>
    BY <1>3, <1>6, <2>1, HeadersOnly, Zenon DEF ShapeInv
  <2>6. Log = << >> /\ Log' = << >>
    BY <2>3, <2>4, <2>5, Zenon DEF Log
  <2> QED BY <2>6, Zenon
<1>8. CASE pc[m] = "record"
  <2>1. sec[m] \in Records
    BY <1>8, Zenon DEF KnownInv
  <2>2. CASE left[m] = 2 /\ n = 1
    <3>1. left' = [left EXCEPT ![m] = @ - n] /\ pc' = pc
      BY <2>2, WriteCases
    <3>2. InProgress' /\ ~ InProgress
      BY <1>3, <1>5, <1>8, <2>2, <3>1
    <3>3. Wrote(file', file, sec[m], left[m], 1)
      BY <1>1, <2>2, Zenon
    <3>4. Continues(file', file, [of |-> sec[m], part |-> 3 - left[m]])
      BY <1>1, <1>3, <3>3, WroteOne, Zenon
    <3>5. SubSeq(file', 1, Len(file') - 1) = file
      BY <1>3, <3>4, FrontOf, Zenon
    <3>6. Settled' = file /\ Settled = file
      BY <3>2, <3>5, Zenon DEF Settled
    <3> QED BY <3>6, Zenon DEF Log
  <2>3. CASE n = left[m]
    <3>1. pc' = [pc EXCEPT ![m] = IF pc[m] = "job" THEN "initflush" ELSE "recflush"]
      BY <1>8, <2>3, WriteCases, Zenon
    <3>2. ~ InProgress'
      BY <1>3, <1>5, <1>8, <3>1, Zenon
    <3>3. Settled' = file'
      BY <3>2, Zenon DEF Settled
    <3>4. CASE left[m] = 2
      <4>1. Wrote(file', file, sec[m], 2, 2) /\ ~ InProgress
        BY <1>1, <1>5, <2>3, <3>4
      <4>2. PICK h \in Seq(Unit) : /\ Continues(h, file, [of |-> sec[m], part |-> 1])
                                   /\ Continues(file', h, [of |-> sec[m], part |-> 2])
        BY <1>3, <4>1, WroteTwo, Zenon
      <4>3. LogOf(file') = Append(LogOf(file), sec[m])
        BY <1>3, <2>1, <4>2, LogWhole, Zenon
      <4>4. Settled = file
        BY <4>1, Zenon DEF Settled
      <4> QED BY <2>1, <3>3, <4>3, <4>4, Zenon DEF Log
    <3>5. CASE left[m] = 1
      <4>1. Wrote(file', file, sec[m], left[m], 1) /\ InProgress
        BY <1>1, <1>5, <1>8, <2>3, <3>5, Zenon
      <4>2. Continues(file', file, [of |-> sec[m], part |-> 3 - left[m]])
        BY <1>1, <1>3, <4>1, WroteOne, Zenon
      <4>3. Continues(file', file, [of |-> sec[m], part |-> 2])
        <5>1. 3 - left[m] = 2
          BY <3>5
        <5> QED BY <4>2, <5>1, Zenon
      <4>4. Len(file) >= 1 /\ file[Len(file)] = [of |-> sec[m], part |-> 1]
        BY <1>2, <1>3, <1>8, <3>5 DEF Stand
      <4>5. PICK p : p = SubSeq(file, 1, Len(file) - 1)
        BY Zenon
      <4>6. p \in Seq(Unit) /\ Continues(file, p, [of |-> sec[m], part |-> 1])
        BY <1>3, <4>4, <4>5, Front, Zenon
      <4>7. LogOf(file') = Append(LogOf(p), sec[m])
        BY <1>3, <2>1, <4>3, <4>6, LogWhole, Zenon
      <4>8. Settled = p
        BY <4>1, <4>5, Zenon DEF Settled
      <4> QED BY <2>1, <3>3, <4>7, <4>8, Zenon DEF Log
    <3> QED BY <1>1, <3>4, <3>5
  <2> QED BY <1>1, <2>2, <2>3
<1> QED BY <1>7, <1>8, Zenon

\* Every step of the only master, seen from the log.
LEMMA LogSteps ==
  ASSUME TypeInv, KnownInv, ShapeInv, OneMaster,
         NEW m \in Masters, MasterStep(m) \/ Killed(m)
  PROVE  \/ Log' = Log
         \/ sec[m] \in Records /\ (Log' = Append(Log, sec[m]) \/ Log' = Append(Log, Torn))
<1> USE DEF Goto
<1>1. /\ pc \in [Masters -> Places] /\ left \in [Masters -> 0 .. 2]
      /\ file \in Seq(Unit)
  BY DEF TypeInv
<1>2. Stand(m) /\ \A o \in Masters : o = m
  BY Zenon DEF ShapeInv, OneMaster
<1>3. /\ InProgress <=> pc[m] = "record" /\ left[m] = 1
      /\ InProgress' <=> pc'[m] = "record" /\ left'[m] = 1
  BY <1>2, Zenon DEF InProgress
<1>4. ASSUME file' = file, pc[m] # "record", pc'[m] # "record" \/ left'[m] # 1
      PROVE  Log' = Log
  BY <1>3, <1>4, Zenon DEF Log, Settled
<1>5. ASSUME file' = file, pc'[m] # "record"
      PROVE  Log' = Log \/ (sec[m] \in Records /\ Log' = Append(Log, Torn))
  <2>1. ~ InProgress' /\ Settled' = file
    BY <1>3, <1>5, Zenon DEF Settled
  <2>2. CASE ~ InProgress
    BY <2>1, <2>2, Zenon DEF Log, Settled
  <2>3. CASE InProgress
    <3>1. sec[m] \in Records
      BY <1>3, <2>3, Zenon DEF KnownInv
    <3>2. Len(file) >= 1 /\ file[Len(file)] = [of |-> sec[m], part |-> 1]
      BY <1>1, <1>2, <1>3, <2>3, LenProperties DEF Stand
    <3>3. PICK p : p = SubSeq(file, 1, Len(file) - 1)
      BY Zenon
    <3>4. p \in Seq(Unit) /\ Continues(file, p, [of |-> sec[m], part |-> 1])
      BY <1>1, <3>2, <3>3, Front, Zenon
    <3>5. LogOf(file) = Append(LogOf(p), Torn)
      BY <1>1, <3>1, <3>4, LogTorn, Zenon
    <3>6. Settled = p
      BY <2>3, <3>3, Zenon DEF Settled
    <3> QED BY <2>1, <3>1, <3>5, <3>6, Zenon DEF Log
  <2> QED BY <2>2, <2>3, Zenon
<1>6. CASE bootstrap_new(m)
  <2>1. file' = file /\ pc[m] # "record" /\ pc'[m] = "open"
    BY <1>1, <1>6, Zenon DEF bootstrap_new, Stopped
  <2> QED BY <1>4, <2>1, Zenon
<1>7. ASSUME NEW o \in {"ok", "refused", "aborted"}, bootstrap_load(m, o) PROVE Log' = Log
  <2>1. file' = file /\ pc[m] # "record" /\ pc'[m] # "record"
    BY <1>1, <1>7, Zenon DEF bootstrap_load, Stopped
  <2> QED BY <1>4, <2>1, Zenon
<1>8. CASE aof_init_new(m)
  <2>1. file' = file /\ pc[m] # "record" /\ pc'[m] = "header"
    BY <1>1, <1>8, Zenon DEF aof_init_new, Emit
  <2> QED BY <1>4, <2>1, Zenon
<1>9. CASE aof_init_existing(m)
  <2>1. file' = file /\ pc[m] # "record" /\ pc'[m] = "bind"
    BY <1>1, <1>9, Zenon DEF aof_init_existing
  <2> QED BY <1>4, <2>1, Zenon
<1>10. CASE server_init(m)
  <2>1. file' = file /\ pc[m] # "record" /\ pc'[m] \in {"off", "up"}
    BY <1>1, <1>10, Zenon DEF server_init
  <2> QED BY <1>4, <2>1, Zenon
<1>11. ASSUME NEW n \in {1, 2}, write_all(m, n)
       PROVE  Log' = Log \/ (sec[m] \in Records /\ Log' = Append(Log, sec[m]))
  BY <1>11, WriteAppends, Zenon
<1>12. CASE write_fails(m) \/ flush_fails(m)
  <2>1. file' = file /\ pc'[m] \in {"off", "up"}
    BY <1>1, <1>12, Zenon DEF write_fails, flush_fails, Abandon
  <2> QED BY <1>5, <2>1, Zenon
<1>13. CASE durable_flush_init(m)
  <2>1. file' = file /\ pc[m] # "record" /\ pc'[m] = "bind"
    BY <1>1, <1>13, Zenon DEF durable_flush_init
  <2> QED BY <1>4, <2>1
<1>14. CASE durable_flush_record(m)
  <2>1. file' = file /\ pc[m] # "record" /\ pc'[m] = "up"
    BY <1>1, <1>14, Zenon DEF durable_flush_record
  <2> QED BY <1>4, <2>1, Zenon
<1>15. ASSUME NEW t \in Tasks, task_done(m, t) PROVE Log' = Log
  <2>1. file' = file /\ pc[m] # "record" /\ left'[m] # 1
    BY <1>1, <1>15 DEF task_done, Emit
  <2> QED BY <1>4, <2>1, Zenon
<1>16. CASE Killed(m)
  <2>1. file' = file /\ pc'[m] = "off"
    BY <1>1, <1>16, Zenon DEF Killed
  <2> QED BY <1>5, <2>1, Zenon
<1> QED
  BY <1>6, <1>7, <1>8, <1>9, <1>10, <1>11, <1>12, <1>13, <1>14, <1>15, <1>16, Zenon
  DEF MasterStep

\* With one master, every change of the file is an aof_append_completed of
\* module Aof, for every job and wherever a write fails or the process dies;
\* torn appends must be among the outcomes that Aof is told to consider.
THEOREM AppendsAsModelledAlways ==
  ASSUME OneMaster, "torn" \in AppendOutcomes
  PROVE  Spec => AppendsAsModelled
<1> DEFINE Step == \/ Log' = Log
                   \/ \E rec \in Records, outcome \in AppendOutcomes :
                        Log' = aof_append_completed(Log, rec, outcome)
                   \/ PowerFailure
<1>1. FileInv /\ ShapeInv /\ [Next]_vars => [Step]_vars
  <2> SUFFICES ASSUME FileInv, ShapeInv, Next PROVE Step
    OBVIOUS
  <2>1. CASE PowerFailure
    BY <2>1, Zenon
  <2>2. ASSUME NEW m \in Masters, MasterStep(m) \/ Killed(m) PROVE Step
    <3>1. \/ Log' = Log
          \/ sec[m] \in Records /\ (Log' = Append(Log, sec[m]) \/ Log' = Append(Log, Torn))
      BY <2>2, LogSteps, Zenon DEF FileInv
    <3>2. "ok" \in AppendOutcomes
      BY AofAssumption, Zenon
    <3>3. ASSUME sec[m] \in Records, Log' = Append(Log, sec[m]) PROVE Step
      <4>1. Log' = aof_append_completed(Log, sec[m], "ok")
        BY <3>3, AppendOutcome, Zenon
      <4> QED BY <3>2, <3>3, <4>1, Zenon
    <3>4. ASSUME sec[m] \in Records, Log' = Append(Log, Torn) PROVE Step
      <4>1. Log' = aof_append_completed(Log, sec[m], "torn")
        BY <3>4, AppendOutcome, Zenon
      <4> QED BY <3>4, <4>1, Zenon
    <3> QED BY <3>1, <3>3, <3>4, Zenon
  <2> QED BY <2>1, <2>2, Zenon DEF Next
<1> QED BY <1>1, FileInvariant, ShapeInvariant, PTL DEF Spec, AppendsAsModelled

\* The k-th read of f finds a record.
Paired(f, k) ==
  /\ 2 * k <= Len(f)
  /\ f[2 * k - 1].of \in Records
  /\ f[2 * k - 1].part = 1
  /\ f[2 * k] = [of |-> f[2 * k - 1].of, part |-> 2]

\* aof_read_record accepts a chunk exactly when both units are of one section.
LEMMA ReadsPaired ==
  ASSUME NEW f \in Seq(Unit), NEW k \in RecordChunks(f)
  PROVE  /\ aof_read_record(f, k) <=> Paired(f, k)
         /\ \A t \in Tasks : Chunk(f, k) = Units(Record(t)) <=>
              Paired(f, k) /\ f[2 * k - 1].of = Record(t)
<1>1. k \in Nat \ {0} /\ 2 * k - 1 <= Len(f) /\ 2 * k - 1 \in 1 .. Len(f) /\ Len(f) \in Nat
  BY RecordChunk, LenProperties DEF Begins
<1>2. f[2 * k - 1] \in Unit
  BY <1>1, ElementOfSeq, Zenon
<1>3. f[2 * k - 1] = [of |-> f[2 * k - 1].of, part |-> f[2 * k - 1].part]
  BY <1>2, Zenon DEF Unit
<1>4. ASSUME NEW t \in Tasks
      PROVE  Chunk(f, k) = Units(Record(t)) <=> Paired(f, k) /\ f[2 * k - 1].of = Record(t)
  <2>1. Record(t) \in Records /\ Record(t) \in Sections
    BY RecordFacts, Zenon DEF Sections
  <2>2. Chunk(f, k) = Units(Record(t)) <=> /\ 2 * k <= Len(f)
                                           /\ f[2 * k - 1] = [of |-> Record(t), part |-> 1]
                                           /\ f[2 * k] = [of |-> Record(t), part |-> 2]
    BY <1>1, <2>1, PairChunk, Zenon
  <2>3. f[2 * k - 1] = [of |-> Record(t), part |-> 1] <=>
          f[2 * k - 1].of = Record(t) /\ f[2 * k - 1].part = 1
    BY <1>3
  <2> QED BY <2>1, <2>2, <2>3, Zenon DEF Paired
<1>5. Paired(f, k) => \E t \in Tasks : f[2 * k - 1].of = Record(t)
  BY Zenon DEF Paired, Records
<1> QED BY <1>4, <1>5, Zenon DEF aof_read_record

\* A file of this shape with both headers loads if every record is a pair.
LEMMA LoadsPaired ==
  ASSUME NEW f \in Seq(Unit), Shape(f), Len(f) >= 4
  PROVE  aof_load(f) = {"ok"} <=> \A k \in RecordChunks(f) : Paired(f, k)
<1>1. Len(f) \in Nat /\ \A n \in {1, 2, 3, 4} : n \in 1 .. Len(f)
  BY LenProperties
<1>2. /\ f[1] = [of |-> Header, part |-> 1] /\ f[2] = [of |-> Header, part |-> 2]
      /\ f[3] = [of |-> JobHeader, part |-> 1] /\ f[4] = [of |-> JobHeader, part |-> 2]
  BY <1>1, Zenon DEF Shape
<1>3. Header \in Sections /\ JobHeader \in Sections
  BY Zenon DEF Sections
<1>4. Chunk(f, 1) = Units(Header)
  <2>1. 1 \in Nat \ {0} /\ 2 * 1 - 1 = 1 /\ 2 * 1 = 2 /\ 2 * 1 - 1 <= Len(f) /\ 2 * 1 <= Len(f)
    BY <1>1
  <2>2. f[2 * 1 - 1] = [of |-> Header, part |-> 1] /\ f[2 * 1] = [of |-> Header, part |-> 2]
    BY <1>2, <2>1, Zenon
  <2> QED BY <1>3, <2>1, <2>2, PairChunk, Zenon
<1>5. Chunk(f, 2) = Units(JobHeader)
  <2>1. 2 \in Nat \ {0} /\ 2 * 2 - 1 = 3 /\ 2 * 2 = 4 /\ 2 * 2 - 1 <= Len(f) /\ 2 * 2 <= Len(f)
    BY <1>1
  <2>2. f[2 * 2 - 1] = [of |-> JobHeader, part |-> 1] /\ f[2 * 2] = [of |-> JobHeader, part |-> 2]
    BY <1>2, <2>1, Zenon
  <2> QED BY <1>3, <2>1, <2>2, PairChunk, Zenon
<1>6. Chunk(f, 2) # <<Units(JobHeader)[1]>>
  <2>1. Len(Units(JobHeader)) = 2
    BY <1>3, UnitsFacts, Zenon
  <2>2. Len(<<Units(JobHeader)[1]>>) = 1
    OBVIOUS
  <2>3. 1 # 2
    OBVIOUS
  <2> QED BY <1>5, <2>1, <2>2, <2>3, Zenon
<1>7. ~ (Len(f) < 2) /\ Len(f) # 2
  <2>1. PICK n \in Nat : n = Len(f)
    BY <1>1
  <2>2. n >= 4
    BY <2>1
  <2>3. ~ (n < 2) /\ n # 2
    BY <2>2
  <2> QED BY <2>1, <2>3, Zenon
<1>8. aof_load(f) = IF \A k \in RecordChunks(f) : aof_read_record(f, k) THEN {"ok"} ELSE {"refused"}
  BY <1>4, <1>5, <1>6, <1>7, Zenon DEF aof_load
<1>9. {"ok"} # {"refused"}
  BY Zenon
<1> QED BY <1>8, <1>9, ReadsPaired, Zenon

\* Without a torn record, every read finds a record: the second unit of one
\* is followed by the first of the next.
LEMMA NoTornPaired ==
  ASSUME NEW f \in Seq(Unit), Shape(f), Len(f) >= 4, ~ Among(Torn, LogOf(f))
  PROVE  \A k \in RecordChunks(f) : Paired(f, k)
<1> DEFINE Ends(k) == 2 * (k + 2) - 1 <= Len(f) => /\ 2 * (k + 2) <= Len(f)
                                                   /\ f[2 * (k + 2)].part = 2
                                                   /\ k >= 1 => Paired(f, k + 2)
           T == {k \in Nat : Ends(k)}
<1>1. Len(f) \in Nat
  BY LenProperties, Zenon
<1>2. 0 \in T
  <2>1. 2 * (0 + 2) = 4 /\ 4 \in 1 .. Len(f)
    BY <1>1
  <2>2. f[4].part = 2
    <3>1. f[4] = [of |-> JobHeader, part |-> 2]
      BY <2>1, Zenon DEF Shape
    <3> QED BY <3>1
  <2>3. 0 \in Nat /\ 2 * (0 + 2) <= Len(f) /\ ~ (0 >= 1)
    BY <1>1
  <2> QED BY <2>1, <2>2, <2>3, Zenon
<1>3. ASSUME NEW k \in T PROVE k + 1 \in T
  <2>1. k \in Nat /\ k + 1 \in Nat /\ Ends(k)
    OBVIOUS
  <2>2. SUFFICES ASSUME 2 * (k + 1 + 2) - 1 <= Len(f)
                 PROVE  /\ 2 * (k + 1 + 2) <= Len(f)
                        /\ f[2 * (k + 1 + 2)].part = 2
                        /\ Paired(f, k + 1 + 2)
    BY <2>1, Zenon
  <2>3. PICK n \in Nat : n = 2 * (k + 1 + 2) - 1
    BY <2>1
  <2>4. /\ n \in 1 .. Len(f) /\ n >= 5 /\ n - 1 = 2 * (k + 2) /\ n + 1 = 2 * (k + 1 + 2)
        /\ 2 * (k + 2) - 1 <= Len(f)
    BY <1>1, <2>1, <2>2, <2>3
  <2>5. f[n - 1].part = 2
    BY <2>1, <2>4, Zenon
  <2>6. f[n].of \in Records /\ (f[n].part = 2 => f[n - 1] = [of |-> f[n].of, part |-> 1])
    BY <2>4, Zenon DEF Shape
  <2>7. f[n].part # 2
    BY <2>5, <2>6
  <2>8. f[n].part = 1
    <3>1. f[n] \in Unit
      BY <2>4, ElementOfSeq, Zenon
    <3>2. f[n].part \in {1, 2}
      BY <3>1, Zenon DEF Unit
    <3> QED BY <2>7, <3>2, Zenon
  <2>9. StartsAt(f, n)
    BY <2>6, <2>8, Zenon DEF StartsAt
  <2>10. EndsAfter(f, n)
    BY <2>4, <2>9, LogAmong, Zenon
  <2>11. n < Len(f) /\ f[n + 1] = [of |-> f[n].of, part |-> 2]
    BY <2>10, Zenon DEF EndsAfter
  <2>12. 2 * (k + 1 + 2) <= Len(f)
    BY <1>1, <2>4, <2>11
  <2>13. f[2 * (k + 1 + 2)] = [of |-> f[2 * (k + 1 + 2) - 1].of, part |-> 2]
    BY <2>3, <2>4, <2>11, Zenon
  <2>14. Paired(f, k + 1 + 2)
    BY <2>3, <2>6, <2>8, <2>12, <2>13, Zenon DEF Paired
  <2> QED BY <2>12, <2>13, <2>14
<1> HIDE DEF T
<1>4. T = Nat
  <2>1. T \subseteq Nat
    BY DEF T
  <2> QED BY <1>2, <1>3, <2>1, NatSetInduction, Zenon
<1> SUFFICES ASSUME NEW k \in RecordChunks(f) PROVE Paired(f, k)
  OBVIOUS
<1>5. k \in Nat /\ k >= 3 /\ 2 * k - 1 <= Len(f)
  BY RecordChunk DEF Begins
<1>6. PICK j \in Nat : j = k - 2
  BY <1>5
<1>7. j + 2 = k /\ j >= 1 /\ j \in T
  BY <1>4, <1>5, <1>6
<1> QED BY <1>5, <1>7, Zenon DEF T

\* Where every read finds a record, records begin nowhere else.
LEMMA StartsPaired ==
  ASSUME NEW f \in Seq(Unit), Shape(f), \A k \in RecordChunks(f) : Paired(f, k),
         NEW n \in 1 .. Len(f), StartsAt(f, n)
  PROVE  EndsAfter(f, n) /\ \E k \in RecordChunks(f) : n = 2 * k - 1
<1>1. Len(f) \in Nat /\ n \in Nat \ {0}
  BY LenProperties
<1>2. n >= 5
  <2> SUFFICES ASSUME n = 1 \/ n = 2 \/ n = 3 \/ n = 4 PROVE FALSE
    BY <1>1
  <2>1. \E p \in {1, 2} : f[n] = [of |-> Header, part |-> p] \/ f[n] = [of |-> JobHeader, part |-> p]
    BY Zenon DEF Shape
  <2>2. f[n].of = Header \/ f[n].of = JobHeader
    BY <2>1
  <2> QED BY <2>2, RecordFacts, Zenon DEF StartsAt
<1>3. PICK k \in Nat \ {0} : n = 2 * k - 1 \/ n = 2 * k
  BY <1>1, Parity, Zenon
<1>4. k >= 3 /\ 2 * k - 1 <= Len(f)
  BY <1>1, <1>2, <1>3
<1>5. k \in RecordChunks(f)
  BY <1>4, RecordChunk, Zenon DEF Begins
<1>6. Paired(f, k)
  BY <1>5, Zenon
<1>7. n # 2 * k
  <2> SUFFICES ASSUME n = 2 * k PROVE FALSE
    BY Zenon
  <2>1. f[n].part = 2
    BY <1>6 DEF Paired
  <2> QED BY <2>1 DEF StartsAt
<1>8. n = 2 * k - 1 /\ n + 1 = 2 * k
  BY <1>1, <1>3, <1>7
<1>9. EndsAfter(f, n)
  BY <1>1, <1>6, <1>8 DEF Paired, EndsAfter
<1> QED BY <1>5, <1>8, <1>9, Zenon

\* A torn append is no record.
LEMMA TornFacts ==
  /\ Torn \notin Records
  /\ \A r \in Records : r.kind # "TORN" /\ r.task_id \in Ids(r.kind)
  /\ Torn.kind = "TORN"
<1>1. Torn.kind = "TORN" /\ "TORN" \notin Kinds
  BY DEF Torn, Kinds
<1>2. \A r \in Records : r.task_id \in Ids(r.kind)
  <2> TAKE r \in Records
  <2>1. PICK t \in Tasks : r = Record(t)
    BY DEF Records
  <2>2. t[2] \in Ids(t[1])
    BY DEF Tasks
  <2>3. r.kind = t[1] /\ r.task_id = t[2]
    BY <2>1, Zenon DEF Record
  <2> QED BY <2>2, <2>3, Zenon
<1> QED BY <1>1, <1>2, RecordFacts, Zenon

\* What aof_loads and aof_load_tasks of module Aof make of a log.
LEMMA LogLoads ==
  ASSUME NEW log \in Seq(LogRecord)
  PROVE  /\ aof_loads(log) <=> ~ Among(Torn, log)
         /\ ~ Among(Torn, log) => \A t \in Tasks :
              aof_load_tasks(log)[t[1]][t[2]].state = "COMPLETED" <=> Among(Record(t), log)
<1>1. ASSUME NEW n \in 1 .. Len(log) PROVE log[n] \in LogRecord
  BY ElementOfSeq
<1>2. aof_loads(log) <=> ~ Among(Torn, log)
  <2>1. ASSUME aof_loads(log), Among(Torn, log) PROVE FALSE
    BY <2>1, TornFacts, Zenon DEF aof_loads, Among
  <2>2. ASSUME ~ Among(Torn, log) PROVE aof_loads(log)
    <3>1. \A n \in 1 .. Len(log) : log[n] \in Records
      BY <1>1, <2>2, Zenon DEF Among, LogRecord
    <3> QED BY <3>1, TornFacts, Zenon DEF aof_loads
  <2> QED BY <2>1, <2>2, Zenon
<1>3. ASSUME ~ Among(Torn, log), NEW t \in Tasks
      PROVE  aof_load_tasks(log)[t[1]][t[2]].state = "COMPLETED" <=> Among(Record(t), log)
  <2>1. t[1] \in Kinds /\ t[2] \in Ids(t[1]) /\ t = <<t[1], t[2]>>
    BY DEF Tasks
  <2>2. aof_load_tasks(log)[t[1]][t[2]]
          = IF Recorded(log, t[1], t[2])
            THEN [task_reset_pending EXCEPT !.state = "COMPLETED"] ELSE task_reset_pending
    BY <2>1, Zenon DEF aof_load_tasks
  <2>3. /\ [task_reset_pending EXCEPT !.state = "COMPLETED"].state = "COMPLETED"
        /\ task_reset_pending.state # "COMPLETED"
    BY DEF task_reset_pending
  <2>4. aof_load_tasks(log)[t[1]][t[2]].state = "COMPLETED" <=> Recorded(log, t[1], t[2])
    BY <2>2, <2>3, Zenon
  <2>5. ASSUME NEW n \in 1 .. Len(log)
        PROVE  log[n].kind = t[1] /\ log[n].task_id = t[2] <=> log[n] = Record(t)
    <3>1. log[n] \in Records
      BY <1>1, <1>3, Zenon DEF Among, LogRecord
    <3>2. PICK s \in Tasks : log[n] = Record(s)
      BY <3>1, Zenon DEF Records
    <3>3. s = <<s[1], s[2]>>
      BY DEF Tasks
    <3>4. /\ log[n].kind = s[1] /\ log[n].task_id = s[2]
          /\ Record(t).kind = t[1] /\ Record(t).task_id = t[2]
      BY <3>2 DEF Record
    <3> QED BY <2>1, <3>2, <3>3, <3>4, Zenon
  <2>6. Recorded(log, t[1], t[2]) <=> Among(Record(t), log)
    BY <2>5, Zenon DEF Recorded, Among
  <2> QED BY <2>4, <2>6, Zenon
<1> QED BY <1>2, <1>3, Zenon

\* The file and its log load or fail together, and fill the same tables.
LEMMA LoadsAlike ==
  ASSUME NEW f \in Seq(Unit), Shape(f), Len(f) >= 4
  PROVE  /\ aof_load(f) = {"ok"} <=> aof_loads(LogOf(f))
         /\ aof_loads(LogOf(f)) =>
              Replayed(f) = {t \in Tasks : aof_load_tasks(LogOf(f))[t[1]][t[2]].state = "COMPLETED"}
<1>1. LogOf(f) \in Seq(LogRecord)
  BY LogOfIs, Zenon
<1>2. PICK log \in Seq(LogRecord) : log = LogOf(f)
  BY <1>1, Zenon
<1>3. aof_loads(log) <=> ~ Among(Torn, log)
  BY LogLoads, Zenon
<1>4. ASSUME \A k \in RecordChunks(f) : Paired(f, k) PROVE ~ Among(Torn, log)
  <2> SUFFICES ASSUME Among(Torn, LogOf(f)) PROVE FALSE
    BY <1>2, Zenon
  <2>1. PICK n \in 1 .. Len(f) : StartsAt(f, n) /\ (EndsAfter(f, n) => Torn = f[n].of)
    BY LogAmong, Zenon
  <2>2. EndsAfter(f, n)
    BY <1>4, <2>1, StartsPaired, Zenon
  <2> QED BY <2>1, <2>2, TornFacts, Zenon DEF StartsAt
<1>5. ~ Among(Torn, log) <=> \A k \in RecordChunks(f) : Paired(f, k)
  BY <1>2, <1>4, NoTornPaired, Zenon
<1>6. aof_load(f) = {"ok"} <=> aof_loads(log)
  BY <1>3, <1>5, LoadsPaired, Zenon
<1>7. ASSUME aof_loads(log), NEW t \in Tasks
      PROVE  t \in Replayed(f) <=> aof_load_tasks(log)[t[1]][t[2]].state = "COMPLETED"
  <2>1. ~ Among(Torn, log) /\ \A k \in RecordChunks(f) : Paired(f, k)
    BY <1>3, <1>5, <1>7, Zenon
  <2>2. aof_load_tasks(log)[t[1]][t[2]].state = "COMPLETED" <=> Among(Record(t), log)
    BY <2>1, LogLoads, Zenon
  <2>3. ASSUME t \in Replayed(f) PROVE Among(Record(t), LogOf(f))
    <3>1. PICK k \in RecordChunks(f) : Chunk(f, k) = Units(Record(t))
      BY <2>3, Zenon DEF Replayed
    <3>2. Paired(f, k) /\ f[2 * k - 1].of = Record(t)
      BY <3>1, ReadsPaired, Zenon
    <3>3. k \in Nat /\ k >= 3 /\ Len(f) \in Nat
      BY RecordChunk, LenProperties, Zenon
    <3>4. PICK n \in 1 .. Len(f) : n = 2 * k - 1
      BY <3>2, <3>3 DEF Paired
    <3>5. StartsAt(f, n)
      BY <3>2, <3>4, Zenon DEF Paired, StartsAt
    <3>6. EndsAfter(f, n)
      BY <2>1, <3>5, StartsPaired, Zenon
    <3> QED BY <3>2, <3>4, <3>5, <3>6, LogAmong, Zenon
  <2>4. ASSUME Among(Record(t), LogOf(f)) PROVE t \in Replayed(f)
    <3>1. PICK n \in 1 .. Len(f) : StartsAt(f, n) /\ (EndsAfter(f, n) => Record(t) = f[n].of)
      BY <2>4, LogAmong, Zenon
    <3>2. EndsAfter(f, n)
      BY <2>1, <3>1, StartsPaired, Zenon
    <3>3. PICK k \in RecordChunks(f) : n = 2 * k - 1
      BY <2>1, <3>1, StartsPaired, Zenon
    <3>4. Chunk(f, k) = Units(Record(t))
      BY <2>1, <3>1, <3>2, <3>3, ReadsPaired, Zenon
    <3> QED BY <3>4, Zenon DEF Replayed
  <2> QED BY <1>2, <2>2, <2>3, <2>4, Zenon
<1>8. aof_loads(log) =>
        Replayed(f) = {t \in Tasks : aof_load_tasks(log)[t[1]][t[2]].state = "COMPLETED"}
  <2>1. Replayed(f) \subseteq Tasks
    BY DEF Replayed
  <2> QED BY <1>7, <2>1, Zenon
<1> QED BY <1>2, <1>6, <1>8, Zenon

\* With one master, the file loads exactly when the log of records of module
\* Aof does, and the master's tables are the ones Aof computes, for every job
\* and every sequence of failing calls, deaths and power failures.
THEOREM LoadsAsModelledAlways ==
  ASSUME OneMaster
  PROVE  Spec => []LoadsAsModelled
<1>1. FileInv /\ ShapeInv => LoadsAsModelled
  <2> SUFFICES ASSUME FileInv, ShapeInv, \A m \in Masters : pc[m] \in Stopped, Len(file) >= 4
               PROVE  /\ aof_load(file) = {"ok"} <=> aof_loads(Log)
                      /\ aof_loads(Log) =>
                           Replayed(file) = {t \in Tasks : aof_load_tasks(Log)[t[1]][t[2]].state = "COMPLETED"}
    BY Zenon DEF LoadsAsModelled
  <2>1. ~ InProgress
    BY DEF InProgress, Stopped
  <2>2. Log = LogOf(file)
    BY <2>1, Zenon DEF Log, Settled
  <2>3. file \in Seq(Unit) /\ Shape(file)
    BY DEF FileInv, TypeInv, ShapeInv
  <2> QED BY <2>2, <2>3, LoadsAlike, Zenon
<1> QED BY <1>1, FileInvariant, ShapeInvariant, PTL
=============================================================================
