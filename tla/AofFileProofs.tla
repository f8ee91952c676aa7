--------------------------- MODULE AofFileProofs ---------------------------
(***************************************************************************)
(* What the log file holds, for every job, every sequence of deaths, power *)
(* failures and failing calls.                                             *)
(***************************************************************************)
EXTENDS AofFile, SequenceTheorems, TLAPS

Unit == [of : Sections, part : {1, 2}]

Writing == {"header", "job", "record"}

Places == Stopped \cup Serving \cup {"open", "header", "job", "initflush", "bind"}

TypeInv ==
  /\ file \in Seq(Unit)
  /\ synced \in 0 .. Len(file)
  /\ pc \in [Masters -> Places]
  /\ sec \in [Masters -> Sections]
  /\ left \in [Masters -> 0 .. 2]
  /\ tab \in [Masters -> SUBSET Tasks]
  /\ begun \in SUBSET Tasks
  /\ acked \in SUBSET Tasks
  /\ failed \in BOOLEAN

\* Whatever fails and however many masters there are, what is written or
\* remembered was reported to some master.
KnownInv ==
  /\ \A m \in Masters :
       /\ left[m] > 0 <=> pc[m] \in Writing
       /\ pc[m] = "header" => sec[m] = Header
       /\ pc[m] = "job" => sec[m] = JobHeader
       /\ pc[m] \in {"record", "recflush"} => /\ sec[m] \in Records
                                              /\ TaskOf(sec[m]) \in begun
       /\ tab[m] \subseteq begun
  /\ \A n \in 1 .. Len(file) : file[n].of \in Records => TaskOf(file[n].of) \in begun

\* One process at a time uses the log.
OneMaster == \A a, b \in Masters : a = b

\* The k-th section of f is there, in whole or in part; it is whole.
Begins(f, k) == k \in Nat \ {0} /\ 2 * k - 1 <= Len(f)

Whole(f, k) == k \in Nat \ {0} /\ 2 * k <= Len(f)

SecAt(f, k) == f[2 * k - 1].of

\* The tasks of the records that end in the first n units of f.
WholeIn(f, n) ==
  {t \in Tasks : \E k \in Nat : k >= 3 /\ 2 * k <= n /\ SecAt(f, k) = Record(t)}

\* f is a prefix of the layout of aof.h.
Laid(f) ==
  /\ \A k \in Nat : Begins(f, k) =>
       /\ f[2 * k - 1].part = 1
       /\ k = 1 => SecAt(f, k) = Header
       /\ k = 2 => SecAt(f, k) = JobHeader
       /\ k >= 3 => SecAt(f, k) \in Records
  /\ \A k \in Nat : Whole(f, k) => f[2 * k] = [of |-> SecAt(f, k), part |-> 2]
  /\ \A j, k \in Nat : Begins(f, j) /\ Begins(f, k) /\ SecAt(f, j) = SecAt(f, k) => j = k
  /\ \A k \in Nat : Begins(f, k) /\ SecAt(f, k).kind = "REDUCE" =>
       \A i \in Ids("MAP") : \E j \in 3 .. k - 1 : SecAt(f, j) = Record(<<"MAP", i>>)

\* f holds both headers and a number of whole sections.
Loadable(f) == \E k \in Nat : k >= 2 /\ Len(f) = 2 * k

\* Where the file stands while a master is at each place.
PlaceInv(m) ==
  /\ pc[m] \in {"refused", "aborted"} => Len(file) % 2 = 1 \/ Len(file) = 2
  /\ pc[m] = "open" => file = << >> \/ Loadable(file)
  /\ pc[m] = "header" => Len(file) = 2 - left[m]
  /\ pc[m] = "job" => Len(file) = 4 - left[m]
  /\ pc[m] = "initflush" => Len(file) = 4
  /\ pc[m] \in {"bind", "up", "recflush"} => Loadable(file)
  /\ pc[m] \notin Stopped \cup {"record"} => tab[m] = WholeIn(file, Len(file))
  /\ pc[m] = "recflush" => TaskOf(sec[m]) \in WholeIn(file, Len(file))
  /\ pc[m] = "record" =>
       /\ \E k \in Nat : /\ k >= 2
                         /\ Len(file) = 2 * k + 2 - left[m]
                         /\ left[m] = 1 => file[2 * k + 1] = Units(sec[m])[1]
       /\ tab[m] = WholeIn(file, Len(file)) \cup {TaskOf(sec[m])}
       /\ TaskOf(sec[m]) \notin WholeIn(file, Len(file))
       /\ sec[m].kind = "REDUCE" =>
            \A i \in Ids("MAP") : <<"MAP", i>> \in WholeIn(file, Len(file))

\* As long as no call has failed, the file is laid out, what was acknowledged
\* is on stable storage, and a master's tables are what the file says.
LogInv ==
  ~ failed => /\ Laid(file)
              /\ acked \subseteq WholeIn(file, synced)
              /\ \A m \in Masters : PlaceInv(m)

FileInv == TypeInv /\ KnownInv /\ (OneMaster => LogInv)

-----------------------------------------------------------------------------
(***************************************************************************)
(* Sections, units and what a write adds                                   *)
(***************************************************************************)

\* A record determines its task, and is not one of the two headers.
LEMMA RecordFacts ==
  /\ \A t \in Tasks : /\ Record(t) \in Records
                      /\ TaskOf(Record(t)) = t
                      /\ Record(t).kind = t[1]
                      /\ t[1] \in Kinds
  /\ \A s \in Records : TaskOf(s) \in Tasks /\ s = Record(TaskOf(s)) /\ s.kind \in Kinds
  /\ Header \notin Records /\ JobHeader \notin Records /\ Header # JobHeader
  /\ Header.kind # "REDUCE" /\ JobHeader.kind # "REDUCE"
  /\ \A i \in Ids("MAP") : <<"MAP", i>> \in Tasks
<1>1. \A t \in Tasks : t = <<t[1], t[2]>> /\ t[1] \in Kinds
  BY DEF Tasks
<1>2. \A t \in Tasks : /\ Record(t) \in Records
                       /\ TaskOf(Record(t)) = t
                       /\ Record(t).kind = t[1]
  BY <1>1 DEF Record, Records, TaskOf
<1>3. \A s \in Records : TaskOf(s) \in Tasks /\ s = Record(TaskOf(s)) /\ s.kind \in Kinds
  <2> TAKE s \in Records
  <2>1. PICK t \in Tasks : s = Record(t)
    BY DEF Records
  <2> QED BY <1>1, <1>2, <2>1
<1>4. Header.kind \notin Kinds /\ JobHeader.kind \notin Kinds /\ Header # JobHeader
  BY DEF Header, JobHeader, Kinds
<1>5. Header.kind # "REDUCE" /\ JobHeader.kind # "REDUCE"
  BY DEF Header, JobHeader
<1>6. \A i \in Ids("MAP") : <<"MAP", i>> \in Tasks
  BY DEF Tasks, Kinds
<1> QED BY <1>1, <1>2, <1>3, <1>4, <1>5, <1>6, Zenon

\* The two units of a section.
LEMMA UnitsFacts ==
  ASSUME NEW s \in Sections
  PROVE  /\ Units(s) \in Seq(Unit)
         /\ Len(Units(s)) = 2
         /\ Units(s)[1] = [of |-> s, part |-> 1]
         /\ Units(s)[2] = [of |-> s, part |-> 2]
  BY DEF Units, Unit

\* g is f with n of the last l units of section s behind it.
Wrote(g, f, s, l, n) ==
  /\ g \in Seq(Unit)
  /\ Len(g) = Len(f) + n
  /\ \A i \in 1 .. Len(f) : g[i] = f[i]
  /\ \A i \in 1 .. n : g[Len(f) + i] = [of |-> s, part |-> 2 - l + i]

\* One write(2) leaves what was there alone and adds its units.
LEMMA Written ==
  ASSUME NEW f \in Seq(Unit), NEW s \in Sections, NEW l \in 1 .. 2, NEW n \in 1 .. l,
         NEW g, g = f \o SubSeq(Units(s), 3 - l, 2 - l + n)
  PROVE  Wrote(g, f, s, l, n)
<1> DEFINE u == SubSeq(Units(s), 3 - l, 2 - l + n)
<1>1. /\ Units(s) \in Seq(Unit) /\ Len(Units(s)) = 2
      /\ Units(s)[1] = [of |-> s, part |-> 1]
      /\ Units(s)[2] = [of |-> s, part |-> 2]
  BY UnitsFacts
<1>2. \A i \in 3 - l .. 2 - l + n : Units(s)[i] \in Unit
  BY <1>1 DEF Unit
<1>3. /\ u \in Seq(Unit)
      /\ Len(u) = n
      /\ \A i \in 1 .. n : u[i] = Units(s)[2 - l + i]
  <2>1. /\ u \in Seq(Unit)
        /\ Len(u) = IF 3 - l <= 2 - l + n THEN 2 - l + n - (3 - l) + 1 ELSE 0
        /\ \A i \in 1 .. 2 - l + n - (3 - l) + 1 : u[i] = Units(s)[3 - l + i - 1]
    BY <1>2, SubSeqProperties
  <2> HIDE DEF u
  <2>2. 2 - l + n - (3 - l) + 1 = n /\ 3 - l <= 2 - l + n
    OBVIOUS
  <2>3. \A i \in 1 .. n : 3 - l + i - 1 = 2 - l + i
    OBVIOUS
  <2> QED BY <2>1, <2>2, <2>3
<1>4. \A i \in 1 .. n : u[i] = [of |-> s, part |-> 2 - l + i]
  <2> TAKE i \in 1 .. n
  <2>1. 2 - l + i \in {1, 2}
    OBVIOUS
  <2> QED BY <1>1, <1>3, <2>1
<1> HIDE DEF u
<1>5. g = f \o u
  BY DEF u
<1>6. /\ g \in Seq(Unit)
      /\ Len(g) = Len(f) + n
      /\ \A i \in 1 .. Len(f) + n : g[i] = IF i <= Len(f) THEN f[i] ELSE u[i - Len(f)]
  <2>1. /\ f \o u \in Seq(Unit)
        /\ Len(f \o u) = Len(f) + Len(u)
        /\ \A i \in 1 .. Len(f) + Len(u) :
             (f \o u)[i] = IF i <= Len(f) THEN f[i] ELSE u[i - Len(f)]
    BY <1>3, ConcatProperties, Zenon
  <2> QED BY <1>3, <1>5, <2>1, Zenon
<1>7. \A i \in 1 .. n : g[Len(f) + i] = u[i]
  BY <1>6
<1> QED BY <1>4, <1>6, <1>7 DEF Wrote

\* Every position is the first or the second of its section.
LEMMA Parity ==
  ASSUME NEW n \in Nat \ {0}
  PROVE  \E k \in Nat \ {0} : n = 2 * k - 1 \/ n = 2 * k
<1>1. (n + 1) \div 2 \in Nat \ {0} /\ (n = 2 * ((n + 1) \div 2) - 1 \/ n = 2 * ((n + 1) \div 2))
  OBVIOUS
<1> QED BY <1>1

-----------------------------------------------------------------------------
(***************************************************************************)
(* Files that are laid out                                                 *)
(***************************************************************************)

\* The records in a prefix depend on that prefix only.
LEMMA SameWhole ==
  ASSUME NEW f \in Seq(Unit), NEW g \in Seq(Unit), NEW n \in Nat,
         n <= Len(f), n <= Len(g), \A i \in 1 .. n : g[i] = f[i]
  PROVE  WholeIn(g, n) = WholeIn(f, n)
<1>1. \A k \in Nat : k >= 3 /\ 2 * k <= n => SecAt(g, k) = SecAt(f, k)
  BY DEF SecAt
<1> QED BY <1>1 DEF WholeIn

\* A longer prefix holds more records.
LEMMA MoreWhole ==
  ASSUME NEW f, NEW n \in Nat, NEW p \in Nat, n <= p
  PROVE  WholeIn(f, n) \subseteq WholeIn(f, p)
  BY DEF WholeIn

\* What a power failure leaves of a file that is laid out is laid out.
LEMMA LaidPrefix ==
  ASSUME NEW f \in Seq(Unit), NEW g \in Seq(Unit), Laid(f),
         Len(g) <= Len(f), \A i \in 1 .. Len(g) : g[i] = f[i]
  PROVE  Laid(g)
<1>1. \A k \in Nat : Begins(g, k) => /\ Begins(f, k)
                                     /\ g[2 * k - 1] = f[2 * k - 1]
                                     /\ SecAt(g, k) = SecAt(f, k)
  BY DEF Begins, SecAt
<1>2. \A k \in Nat : Whole(g, k) => /\ Whole(f, k)
                                    /\ Begins(g, k)
                                    /\ g[2 * k] = f[2 * k]
  BY DEF Begins, Whole
<1>3. \A k \in Nat : Begins(g, k) => \A j \in 3 .. k - 1 : Begins(g, j)
  BY DEF Begins
<1>4. \A k \in Nat : Begins(g, k) /\ SecAt(g, k).kind = "REDUCE" =>
        \A i \in Ids("MAP") : \E j \in 3 .. k - 1 : SecAt(g, j) = Record(<<"MAP", i>>)
  <2> TAKE k \in Nat
  <2> HAVE Begins(g, k) /\ SecAt(g, k).kind = "REDUCE"
  <2> TAKE i \in Ids("MAP")
  <2>1. PICK j \in 3 .. k - 1 : SecAt(f, j) = Record(<<"MAP", i>>)
    BY <1>1 DEF Laid
  <2>2. SecAt(g, j) = SecAt(f, j)
    BY <1>1, <1>3
  <2> QED BY <2>1, <2>2
<1> QED BY <1>1, <1>2, <1>4 DEF Laid

\* g continues f by one unit.
Continues(g, f, u) ==
  /\ Len(g) = Len(f) + 1
  /\ \A i \in 1 .. Len(f) : g[i] = f[i]
  /\ g[Len(f) + 1] = u

\* The first unit of a section may follow k whole ones when the section is
\* the one the layout wants there.
LEMMA LaidFirst ==
  ASSUME NEW f \in Seq(Unit), NEW g \in Seq(Unit), NEW s \in Sections, NEW k \in Nat,
         Laid(f), Len(f) = 2 * k, Continues(g, f, [of |-> s, part |-> 1]),
         k = 0 => s = Header,
         k = 1 => s = JobHeader,
         k >= 2 => s \in Records,
         \A j \in Nat : Begins(f, j) => SecAt(f, j) # s,
         s.kind = "REDUCE" => \A i \in Ids("MAP") : <<"MAP", i>> \in WholeIn(f, Len(f))
  PROVE  Laid(g)
<1>1. /\ Len(g) = 2 * k + 1
      /\ \A i \in 1 .. 2 * k : g[i] = f[i]
      /\ g[2 * k + 1] = [of |-> s, part |-> 1]
  BY DEF Continues
<1>2. \A j \in Nat : Begins(g, j) => Begins(f, j) \/ j = k + 1
  BY <1>1 DEF Begins
<1>3. \A j \in Nat : Begins(f, j) => /\ j <= k
                                     /\ g[2 * j - 1] = f[2 * j - 1]
                                     /\ SecAt(g, j) = SecAt(f, j)
  BY <1>1 DEF Begins, SecAt
<1>4. g[2 * (k + 1) - 1] = [of |-> s, part |-> 1] /\ SecAt(g, k + 1) = s
  BY <1>1 DEF SecAt
<1>5. \A j \in Nat : Whole(g, j) => Whole(f, j) /\ Begins(f, j) /\ g[2 * j] = f[2 * j]
  BY <1>1 DEF Whole, Begins
<1>6. \A j \in Nat : Begins(g, j) =>
       /\ g[2 * j - 1].part = 1
       /\ j = 1 => SecAt(g, j) = Header
       /\ j = 2 => SecAt(g, j) = JobHeader
       /\ j >= 3 => SecAt(g, j) \in Records
  <2> SUFFICES ASSUME NEW j \in Nat, Begins(g, j)
               PROVE  /\ g[2 * j - 1].part = 1
                      /\ j = 1 => SecAt(g, j) = Header
                      /\ j = 2 => SecAt(g, j) = JobHeader
                      /\ j >= 3 => SecAt(g, j) \in Records
    OBVIOUS
  <2>1. CASE Begins(f, j)
    BY <1>3, <2>1 DEF Laid
  <2>2. CASE j = k + 1
    BY <1>4, <2>2
  <2> QED BY <1>2, <2>1, <2>2
<1>7. \A j \in Nat : Whole(g, j) => g[2 * j] = [of |-> SecAt(g, j), part |-> 2]
  BY <1>3, <1>5, Zenon DEF Laid
<1>8. \A i, j \in Nat : Begins(g, i) /\ Begins(g, j) /\ SecAt(g, i) = SecAt(g, j) => i = j
  BY <1>2, <1>3, <1>4, Zenon DEF Laid
<1>9. \A j \in Nat : Begins(g, j) /\ SecAt(g, j).kind = "REDUCE" =>
        \A i \in Ids("MAP") : \E n \in 3 .. j - 1 : SecAt(g, n) = Record(<<"MAP", i>>)
  <2> TAKE j \in Nat
  <2> HAVE Begins(g, j) /\ SecAt(g, j).kind = "REDUCE"
  <2> TAKE i \in Ids("MAP")
  <2>1. CASE Begins(f, j)
    <3>1. PICK n \in 3 .. j - 1 : SecAt(f, n) = Record(<<"MAP", i>>)
      BY <1>3, <2>1 DEF Laid
    <3>2. Begins(f, n)
      BY <2>1 DEF Begins
    <3> QED BY <1>3, <3>1, <3>2
  <2>2. CASE j = k + 1
    <3>1. <<"MAP", i>> \in WholeIn(f, Len(f))
      BY <1>4, <2>2
    <3>2. PICK n \in Nat : n >= 3 /\ 2 * n <= 2 * k /\ SecAt(f, n) = Record(<<"MAP", i>>)
      BY <3>1, Zenon DEF WholeIn
    <3>3. Begins(f, n) /\ n \in 3 .. j - 1
      BY <2>2, <3>2 DEF Begins
    <3> QED BY <1>3, <3>2, <3>3
  <2> QED BY <1>2, <2>1, <2>2, Zenon
<1> QED BY <1>6, <1>7, <1>8, <1>9 DEF Laid

\* The second unit of a section may follow its first.
LEMMA LaidSecond ==
  ASSUME NEW f \in Seq(Unit), NEW g \in Seq(Unit), NEW s \in Sections, NEW k \in Nat,
         Laid(f), Len(f) = 2 * k + 1, SecAt(f, k + 1) = s,
         Continues(g, f, [of |-> s, part |-> 2])
  PROVE  Laid(g)
<1>1. /\ Len(g) = 2 * k + 2
      /\ \A i \in 1 .. 2 * k + 1 : g[i] = f[i]
      /\ g[2 * k + 2] = [of |-> s, part |-> 2]
  BY DEF Continues
<1>2. \A j \in Nat : Begins(g, j) => /\ Begins(f, j)
                                     /\ g[2 * j - 1] = f[2 * j - 1]
                                     /\ SecAt(g, j) = SecAt(f, j)
  BY <1>1 DEF Begins, SecAt
<1>3. \A j \in Nat : Whole(g, j) => /\ Begins(g, j)
                                    /\ (Whole(f, j) /\ g[2 * j] = f[2 * j]) \/ j = k + 1
  BY <1>1 DEF Whole, Begins
<1>4. g[2 * (k + 1)] = [of |-> s, part |-> 2] /\ Begins(g, k + 1)
  BY <1>1 DEF Begins
<1>5. \A j \in Nat : Whole(g, j) => g[2 * j] = [of |-> SecAt(g, j), part |-> 2]
  BY <1>2, <1>3, <1>4, Zenon DEF Laid
<1>6. \A j \in Nat : Begins(g, j) /\ SecAt(g, j).kind = "REDUCE" =>
        \A i \in Ids("MAP") : \E n \in 3 .. j - 1 : SecAt(g, n) = Record(<<"MAP", i>>)
  <2> TAKE j \in Nat
  <2> HAVE Begins(g, j) /\ SecAt(g, j).kind = "REDUCE"
  <2> TAKE i \in Ids("MAP")
  <2>1. PICK n \in 3 .. j - 1 : SecAt(f, n) = Record(<<"MAP", i>>)
    BY <1>2 DEF Laid
  <2>2. Begins(g, n)
    BY DEF Begins
  <2> QED BY <1>2, <2>1, <2>2
<1> QED BY <1>2, <1>5, <1>6, Zenon DEF Laid

\* Writing the next section, or the rest of one, leaves the file laid out.
LEMMA LaidWrite ==
  ASSUME NEW f \in Seq(Unit), NEW g \in Seq(Unit), NEW s \in Sections,
         NEW l \in 1 .. 2, NEW n \in 1 .. l, NEW k \in Nat,
         Laid(f), Wrote(g, f, s, l, n), Len(f) = 2 * k + 2 - l,
         l = 1 => SecAt(f, k + 1) = s,
         l = 2 => /\ k = 0 => s = Header
                  /\ k = 1 => s = JobHeader
                  /\ k >= 2 => s \in Records
                  /\ \A j \in Nat : Begins(f, j) => SecAt(f, j) # s
                  /\ s.kind = "REDUCE" =>
                       \A i \in Ids("MAP") : <<"MAP", i>> \in WholeIn(f, Len(f))
  PROVE  Laid(g)
<1>1. /\ Len(g) = Len(f) + n
      /\ \A i \in 1 .. Len(f) : g[i] = f[i]
      /\ \A i \in 1 .. n : g[Len(f) + i] = [of |-> s, part |-> 2 - l + i]
      /\ Len(f) \in Nat
  BY LenProperties, Zenon DEF Wrote
<1>2. CASE l = 1
  <2>1. n = 1 /\ Len(f) = 2 * k + 1 /\ 2 - l + 1 = 2 /\ 1 \in 1 .. n
    BY <1>2
  <2>2. g[Len(f) + 1] = [of |-> s, part |-> 2 - l + 1]
    BY <1>1, <2>1, Zenon
  <2>3. Continues(g, f, [of |-> s, part |-> 2])
    BY <1>1, <2>1, <2>2, Zenon DEF Continues
  <2> QED BY <1>2, <2>1, <2>3, LaidSecond
<1>3. CASE l = 2
  <2>1. Len(f) = 2 * k /\ 2 - l + 1 = 1 /\ 2 - l + 2 = 2 /\ 1 \in 1 .. n
    BY <1>3
  <2>2. g[Len(f) + 1] = [of |-> s, part |-> 1]
    <3>1. g[Len(f) + 1] = [of |-> s, part |-> 2 - l + 1]
      BY <1>1, <2>1, Zenon
    <3> QED BY <2>1, <3>1, Zenon
  <2>3. ASSUME NEW h \in Seq(Unit), Continues(h, f, [of |-> s, part |-> 1])
        PROVE  Laid(h)
    BY <1>3, <2>1, <2>3, LaidFirst, Zenon
  <2>4. CASE n = 1
    <3>1. Continues(g, f, [of |-> s, part |-> 1])
      BY <1>1, <2>2, <2>4, Zenon DEF Continues
    <3> QED BY <2>3, <3>1, Zenon
  <2>5. CASE n = 2
    <3>1. g[Len(f) + 2] = [of |-> s, part |-> 2]
      <4>1. 2 \in 1 .. n
        BY <2>5
      <4>2. g[Len(f) + 2] = [of |-> s, part |-> 2 - l + 2]
        BY <1>1, <4>1, Zenon
      <4> QED BY <2>1, <4>2
    <3>2. PICK h \in Seq(Unit) : Continues(h, f, [of |-> s, part |-> 1])
      <4>1. PICK u \in Unit : u = [of |-> s, part |-> 1]
        BY Zenon DEF Unit
      <4>2. /\ Append(f, u) \in Seq(Unit)
            /\ Len(Append(f, u)) = Len(f) + 1
            /\ \A i \in 1 .. Len(f) : Append(f, u)[i] = f[i]
            /\ Append(f, u)[Len(f) + 1] = u
        BY AppendProperties
      <4> QED BY <4>1, <4>2, Zenon DEF Continues
    <3>3. Laid(h)
      BY <2>3, <3>2
    <3>4. Len(h) = 2 * k + 1 /\ SecAt(h, k + 1) = s
      BY <2>1, <3>2 DEF Continues, SecAt
    <3>5. Continues(g, h, [of |-> s, part |-> 2])
      <4>1. Len(h) = Len(f) + 1 /\ Len(g) = Len(f) + 2 /\ Len(f) \in Nat
        BY <1>1, <2>1, <2>5, <3>2, Zenon DEF Continues
      <4>2. Len(g) = Len(h) + 1 /\ Len(h) + 1 = Len(f) + 2
        BY <4>1
      <4>3. ASSUME NEW i \in 1 .. Len(h) PROVE g[i] = h[i]
        <5>1. i \in 1 .. Len(f) \/ i = Len(f) + 1
          BY <4>1
        <5> QED BY <1>1, <2>2, <3>2, <5>1, Zenon DEF Continues
      <4> QED BY <3>1, <4>2, <4>3, Zenon DEF Continues
    <3> QED BY <3>3, <3>4, <3>5, LaidSecond
  <2> QED BY <1>3, <2>4, <2>5
<1> QED BY <1>2, <1>3

\* The record that a write ends is the one that a file has more.
LEMMA WholeWrite ==
  ASSUME NEW f \in Seq(Unit), NEW g \in Seq(Unit), NEW s \in Records,
         NEW l \in 1 .. 2, NEW n \in 1 .. l, NEW k \in Nat,
         Wrote(g, f, s, l, n), Len(f) = 2 * k + 2 - l, k >= 2,
         l = 1 => SecAt(f, k + 1) = s
  PROVE  WholeIn(g, Len(g))
           = IF n = l THEN WholeIn(f, Len(f)) \cup {TaskOf(s)} ELSE WholeIn(f, Len(f))
<1>1. /\ Len(g) = 2 * k + 2 - l + n
      /\ \A i \in 1 .. Len(f) : g[i] = f[i]
      /\ \A i \in 1 .. n : g[Len(f) + i] = [of |-> s, part |-> 2 - l + i]
      /\ Len(f) \in Nat
  BY LenProperties, Zenon DEF Wrote
<1>2. \A j \in Nat : j >= 3 => (2 * j <= Len(f) <=> j <= k)
  OBVIOUS
<1>3. \A j \in Nat : j >= 3 =>
        (2 * j <= Len(g) <=> IF n = l THEN j <= k + 1 ELSE j <= k)
  BY <1>1
<1>4. \A j \in Nat : j >= 3 /\ j <= k => SecAt(g, j) = SecAt(f, j)
  BY <1>1 DEF SecAt
<1>5. SecAt(g, k + 1) = s
  <2>1. CASE l = 1
    BY <1>1, <2>1 DEF SecAt
  <2>2. CASE l = 2
    <3>1. 1 \in 1 .. n /\ Len(f) + 1 = 2 * (k + 1) - 1
      BY <2>2
    <3>2. g[Len(f) + 1] = [of |-> s, part |-> 2 - l + 1]
      BY <1>1, <3>1, Zenon
    <3>3. g[2 * (k + 1) - 1] = [of |-> s, part |-> 2 - l + 1]
      BY <3>1, <3>2, Zenon
    <3>4. [of |-> s, part |-> 2 - l + 1].of = s
      BY Zenon
    <3> QED BY <3>3, <3>4, Zenon DEF SecAt
  <2> QED BY <2>1, <2>2
<1>6. \A t \in Tasks : s = Record(t) <=> t = TaskOf(s)
  BY RecordFacts
<1>7. TaskOf(s) \in Tasks
  BY RecordFacts
<1>8. CASE n = l
  <2>1. WholeIn(g, Len(g)) = {t \in Tasks : \E j \in Nat : j >= 3 /\ j <= k + 1 /\ SecAt(g, j) = Record(t)}
    BY <1>3, <1>8 DEF WholeIn
  <2>2. WholeIn(f, Len(f)) = {t \in Tasks : \E j \in Nat : j >= 3 /\ j <= k /\ SecAt(f, j) = Record(t)}
    BY <1>2 DEF WholeIn
  <2>3. \A t \in Tasks : (\E j \in Nat : j >= 3 /\ j <= k + 1 /\ SecAt(g, j) = Record(t))
          <=> (\E j \in Nat : j >= 3 /\ j <= k /\ SecAt(f, j) = Record(t)) \/ t = TaskOf(s)
    <3> TAKE t \in Tasks
    <3>1. ASSUME NEW j \in Nat, j >= 3, j <= k + 1, SecAt(g, j) = Record(t)
          PROVE  (\E i \in Nat : i >= 3 /\ i <= k /\ SecAt(f, i) = Record(t)) \/ t = TaskOf(s)
      <4>1. j <= k \/ j = k + 1
        BY <3>1
      <4> QED BY <1>4, <1>5, <1>6, <3>1, <4>1, Zenon
    <3>2. ASSUME NEW j \in Nat, j >= 3, j <= k, SecAt(f, j) = Record(t)
          PROVE  \E i \in Nat : i >= 3 /\ i <= k + 1 /\ SecAt(g, i) = Record(t)
      BY <1>4, <3>2
    <3>3. ASSUME t = TaskOf(s)
          PROVE  \E i \in Nat : i >= 3 /\ i <= k + 1 /\ SecAt(g, i) = Record(t)
      BY <1>5, <1>6, <3>3
    <3> QED BY <3>1, <3>2, <3>3, Zenon
  <2> QED BY <1>7, <1>8, <2>1, <2>2, <2>3, Zenon
<1>9. CASE n # l
  BY <1>2, <1>3, <1>4, <1>9 DEF WholeIn
<1> QED BY <1>8, <1>9

\* There is no record among the headers.
LEMMA NoWhole ==
  ASSUME NEW f, NEW n \in 0 .. 5
  PROVE  WholeIn(f, n) = {}
  BY DEF WholeIn

-----------------------------------------------------------------------------
(***************************************************************************)
(* What aof_load makes of a file that is laid out                          *)
(***************************************************************************)

\* The last read of a file of odd length is short.
LEMMA TornChunk ==
  ASSUME NEW f \in Seq(Unit), NEW k \in Nat, Len(f) = 2 * k - 1, NEW s \in Sections
  PROVE  Chunk(f, k) # Units(s)
<1>1. k >= 1 /\ 2 * k - 1 \in 1 .. Len(f)
  BY LenProperties
<1>2. Chunk(f, k) = SubSeq(f, 2 * k - 1, 2 * k - 1)
  BY DEF Chunk
<1>3. \A i \in 2 * k - 1 .. 2 * k - 1 : f[i] \in Unit
  BY <1>1, ElementOfSeq
<1>4. Len(SubSeq(f, 2 * k - 1, 2 * k - 1))
        = IF 2 * k - 1 <= 2 * k - 1 THEN 2 * k - 1 - (2 * k - 1) + 1 ELSE 0
  BY <1>3, SubSeqProperties
<1>5. 2 * k - 1 - (2 * k - 1) + 1 = 1 /\ 2 * k - 1 <= 2 * k - 1
  OBVIOUS
<1>6. Len(Chunk(f, k)) = 1
  BY <1>2, <1>4, <1>5
<1>7. Len(Units(s)) = 2
  BY UnitsFacts, Zenon
<1>8. 1 # 2
  OBVIOUS
<1> QED BY <1>6, <1>7, <1>8, Zenon

\* The k-th read takes a whole section exactly when its units are there.
LEMMA PairChunk ==
  ASSUME NEW f \in Seq(Unit), NEW k \in Nat \ {0}, NEW s \in Sections, 2 * k - 1 <= Len(f)
  PROVE  Chunk(f, k) = Units(s) <=> /\ 2 * k <= Len(f)
                                    /\ f[2 * k - 1] = [of |-> s, part |-> 1]
                                    /\ f[2 * k] = [of |-> s, part |-> 2]
<1>1. Len(f) \in Nat /\ Len(f) >= 1
  BY LenProperties
<1>2. CASE 2 * k <= Len(f)
  <2>1. 2 * k - 1 \in 1 .. Len(f) /\ 2 * k \in 1 .. Len(f)
    BY <1>1, <1>2
  <2>2. PICK c : c = SubSeq(f, 2 * k - 1, 2 * k)
    BY Zenon
  <2>3. Chunk(f, k) = c
    <3>1. (IF 2 * k < Len(f) THEN 2 * k ELSE Len(f)) = 2 * k
      BY <1>1, <1>2
    <3> QED BY <2>2, <3>1, Zenon DEF Chunk
  <2>4. c \in Seq(Unit) /\ Len(c) = 2 /\ c[1] = f[2 * k - 1] /\ c[2] = f[2 * k]
    <3>1. PICK a \in Int, b \in Int : a = 2 * k - 1 /\ b = 2 * k
      OBVIOUS
    <3>2. \A i \in a .. b : f[i] \in Unit
      BY <2>1, <3>1, ElementOfSeq
    <3>3. /\ SubSeq(f, a, b) \in Seq(Unit)
          /\ Len(SubSeq(f, a, b)) = IF a <= b THEN b - a + 1 ELSE 0
          /\ \A i \in 1 .. b - a + 1 : SubSeq(f, a, b)[i] = f[a + i - 1]
      BY <3>2, SubSeqProperties
    <3>4. b - a + 1 = 2 /\ a <= b /\ a + 1 - 1 = 2 * k - 1 /\ a + 2 - 1 = 2 * k
      BY <3>1
    <3>5. SubSeq(f, a, b) = c
      BY <2>2, <3>1
    <3>6. 1 \in 1 .. b - a + 1 /\ 2 \in 1 .. b - a + 1
      BY <3>4
    <3> QED BY <3>3, <3>4, <3>5, <3>6, Zenon
  <2>5. PICK u : u = Units(s)
    OBVIOUS
  <2>6. /\ u \in Seq(Unit) /\ Len(u) = 2
        /\ u[1] = [of |-> s, part |-> 1] /\ u[2] = [of |-> s, part |-> 2]
    BY <2>5, UnitsFacts, Zenon
  <2>7. c = u <=> c[1] = u[1] /\ c[2] = u[2]
    <3> SUFFICES ASSUME c[1] = u[1], c[2] = u[2] PROVE c = u
      OBVIOUS
    <3>1. ASSUME NEW i \in 1 .. Len(c) PROVE c[i] = u[i]
      <4>1. i \in 1 .. 2
        BY <2>4
      <4>2. i = 1 \/ i = 2
        BY <4>1
      <4> QED BY <4>2
    <3> QED BY <2>4, <2>6, <3>1, SeqEqual, Zenon
  <2> QED BY <1>2, <2>3, <2>4, <2>5, <2>6, <2>7, Zenon
<1>3. CASE ~ (2 * k <= Len(f))
  <2>1. Len(f) = 2 * k - 1
    BY <1>1, <1>3
  <2> QED BY <1>3, <2>1, TornChunk, Zenon
<1> QED BY <1>2, <1>3

\* The k-th read takes the k-th section when it is whole.
LEMMA WholeChunk ==
  ASSUME NEW f \in Seq(Unit), Laid(f), NEW k \in Nat, Whole(f, k)
  PROVE  SecAt(f, k) \in Sections /\ Chunk(f, k) = Units(SecAt(f, k))
<1>1. /\ k \in Nat \ {0} /\ 2 * k - 1 \in 1 .. Len(f) /\ 2 * k <= Len(f)
      /\ 2 * k - 1 <= Len(f) /\ Begins(f, k)
  BY DEF Whole, Begins
<1>2. f[2 * k - 1] \in Unit
  BY <1>1, ElementOfSeq
<1>3. SecAt(f, k) \in Sections
  BY <1>2, Zenon DEF SecAt, Unit
<1>4. f[2 * k - 1] = [of |-> SecAt(f, k), part |-> 1]
  BY <1>1, <1>2, Zenon DEF Laid, Unit, SecAt
<1>5. f[2 * k] = [of |-> SecAt(f, k), part |-> 2]
  BY DEF Laid
<1> QED BY <1>1, <1>3, <1>4, <1>5, PairChunk, Zenon

\* The reads of the records.
LEMMA RecordChunk ==
  ASSUME NEW f \in Seq(Unit), NEW k
  PROVE  k \in RecordChunks(f) <=> k \in Nat /\ k >= 3 /\ Begins(f, k)
<1>1. Len(f) \in Nat
  BY LenProperties
<1> QED BY <1>1 DEF RecordChunks, Begins

\* A file that is laid out and not cut short loads, and its records are
\* replayed.
LEMMA LoadsWhole ==
  ASSUME NEW f \in Seq(Unit), Laid(f), Loadable(f)
  PROVE  aof_load(f) = {"ok"} /\ Replayed(f) = WholeIn(f, Len(f))
<1>1. PICK h \in Nat : h >= 2 /\ Len(f) = 2 * h
  BY DEF Loadable
<1>2. Whole(f, 1) /\ Whole(f, 2) /\ Begins(f, 1) /\ Begins(f, 2)
  BY <1>1 DEF Whole, Begins
<1>3. Chunk(f, 1) = Units(Header) /\ Chunk(f, 2) = Units(JobHeader)
  BY <1>2, WholeChunk DEF Laid
<1>4. \A k : k \in RecordChunks(f) =>
        k \in Nat /\ k >= 3 /\ 2 * k <= Len(f) /\ Whole(f, k) /\ Begins(f, k)
  BY <1>1, RecordChunk DEF Begins, Whole
<1>5. \A k \in Nat : k >= 3 /\ 2 * k <= Len(f) => k \in RecordChunks(f)
  BY <1>1, RecordChunk DEF Begins
<1>6. \A k \in RecordChunks(f) : /\ SecAt(f, k) \in Records
                                 /\ Chunk(f, k) = Units(SecAt(f, k))
  BY <1>4, WholeChunk, Zenon DEF Laid
<1>7. \A k \in RecordChunks(f) : aof_read_record(f, k)
  BY <1>6, RecordFacts DEF aof_read_record
<1>8. Chunk(f, 2) # <<Units(JobHeader)[1]>>
  <2>1. JobHeader \in Sections
    BY DEF Sections
  <2>2. Len(Units(JobHeader)) = 2
    BY <2>1, UnitsFacts, Zenon
  <2>3. Len(<<Units(JobHeader)[1]>>) = 1
    OBVIOUS
  <2> QED BY <1>3, <2>2, <2>3
<1>9. ~ (Len(f) < 2) /\ Len(f) # 2
  BY <1>1
<1>10. aof_load(f) = {"ok"}
  BY <1>3, <1>7, <1>8, <1>9, Zenon DEF aof_load
<1>11. \A t \in Tasks, k \in RecordChunks(f) :
         Chunk(f, k) = Units(Record(t)) <=> SecAt(f, k) = Record(t)
  <2> TAKE t \in Tasks, k \in RecordChunks(f)
  <2>1. Record(t) \in Sections /\ SecAt(f, k) \in Sections
    BY <1>6, RecordFacts DEF Sections
  <2>2. Units(SecAt(f, k))[1] = [of |-> SecAt(f, k), part |-> 1]
    BY <2>1, UnitsFacts, Zenon
  <2>3. Units(Record(t))[1] = [of |-> Record(t), part |-> 1]
    BY <2>1, UnitsFacts, Zenon
  <2>4. Units(SecAt(f, k)) = Units(Record(t)) => SecAt(f, k) = Record(t)
    BY <2>2, <2>3
  <2> QED BY <1>6, <2>4
<1>12. Replayed(f) = WholeIn(f, Len(f))
  BY <1>4, <1>5, <1>11 DEF Replayed, WholeIn
<1> QED BY <1>10, <1>12

\* A file that is laid out loads only if it is not cut short, and one that
\* is refused has an odd length, or lacks the job header.
LEMMA LoadsOnlyWhole ==
  ASSUME NEW f \in Seq(Unit), Laid(f), f # << >>
  PROVE  /\ "ok" \in aof_load(f) => Loadable(f)
         /\ ~ Loadable(f) => Len(f) % 2 = 1 \/ Len(f) = 2
<1>1. Len(f) \in Nat \ {0}
  BY EmptySeq, LenProperties
<1>2. PICK k \in Nat \ {0} : Len(f) = 2 * k - 1 \/ Len(f) = 2 * k
  BY <1>1, Parity, Zenon
<1>3. CASE Len(f) = 2 * k
  <2>1. k >= 2 => Loadable(f)
    BY <1>3 DEF Loadable
  <2>2. k = 1 => Len(f) = 2 /\ ~ ("ok" \in aof_load(f))
    <3> HAVE k = 1
    <3>1. Len(f) = 2 /\ ~ (Len(f) < 2)
      BY <1>3
    <3>2. aof_load(f) = {"refused", "aborted"}
      BY <3>1, Zenon DEF aof_load
    <3> QED BY <3>1, <3>2
  <2> QED BY <2>1, <2>2
<1>4. CASE Len(f) = 2 * k - 1
  <2>1. Len(f) % 2 = 1
    BY <1>4
  <2>2. \A s \in Sections : Chunk(f, k) # Units(s)
    BY <1>4, TornChunk
  <2>3. k = 1 => aof_load(f) = {"refused"}
    <3>1. k = 1 => Len(f) < 2
      BY <1>4
    <3> QED BY <3>1, Zenon DEF aof_load
  <2>4. k = 2 => Chunk(f, 2) # Units(JobHeader)
    BY <2>2 DEF Sections
  <2>5. k >= 3 => k \in RecordChunks(f) /\ ~ aof_read_record(f, k)
    <3>1. k >= 3 => k \in RecordChunks(f)
      BY <1>4, RecordChunk DEF Begins
    <3>2. ~ aof_read_record(f, k)
      BY <2>2, RecordFacts DEF aof_read_record, Sections
    <3> QED BY <3>1, <3>2
  <2>6. k = 1 \/ k = 2 \/ k >= 3
    OBVIOUS
  <2>7. "ok" \notin aof_load(f)
    BY <2>3, <2>4, <2>5, <2>6, Zenon DEF aof_load
  <2> QED BY <2>1, <2>7
<1> QED BY <1>2, <1>3, <1>4

\* A task is replayed only from a unit of its record, in any file.
LEMMA ReplayedFrom ==
  ASSUME NEW f \in Seq(Unit), NEW t \in Replayed(f)
  PROVE  t \in Tasks /\ \E i \in 1 .. Len(f) : f[i].of = Record(t)
<1>1. t \in Tasks
  BY DEF Replayed
<1>2. PICK k \in RecordChunks(f) : Chunk(f, k) = Units(Record(t))
  BY DEF Replayed
<1>3. k \in Nat /\ k >= 3 /\ 2 * k - 1 \in 1 .. Len(f) /\ Len(f) \in Nat
  BY RecordChunk, LenProperties DEF Begins
<1>4. PICK e \in Nat : /\ e >= 2 * k - 1 /\ e <= Len(f)
                       /\ Chunk(f, k) = SubSeq(f, 2 * k - 1, e)
  <2> DEFINE e == IF 2 * k < Len(f) THEN 2 * k ELSE Len(f)
  <2>1. e \in Nat /\ e >= 2 * k - 1 /\ e <= Len(f)
    BY <1>3
  <2>2. Chunk(f, k) = SubSeq(f, 2 * k - 1, e)
    BY DEF Chunk
  <2> HIDE DEF e
  <2> QED BY <2>1, <2>2, Zenon
<1>5. \A i \in 2 * k - 1 .. e : f[i] \in Unit
  BY <1>3, <1>4, ElementOfSeq
<1>6. \A i \in 1 .. e - (2 * k - 1) + 1 : SubSeq(f, 2 * k - 1, e)[i] = f[2 * k - 1 + i - 1]
  <2>1. 2 * k - 1 \in Int /\ e \in Int
    BY <1>3
  <2> QED BY <1>5, <2>1, SubSeqProperties
<1>7. SubSeq(f, 2 * k - 1, e)[1] = f[2 * k - 1]
  <2>1. 1 \in 1 .. e - (2 * k - 1) + 1 /\ 2 * k - 1 + 1 - 1 = 2 * k - 1
    BY <1>3, <1>4
  <2>2. SubSeq(f, 2 * k - 1, e)[1] = f[2 * k - 1 + 1 - 1]
    BY <1>6, <2>1, Zenon
  <2> QED BY <2>1, <2>2, Zenon
<1>8. Units(Record(t))[1] = [of |-> Record(t), part |-> 1]
  BY <1>1, RecordFacts, UnitsFacts, Zenon DEF Sections
<1>9. f[2 * k - 1] = [of |-> Record(t), part |-> 1]
  BY <1>2, <1>4, <1>7, <1>8, Zenon
<1>10. f[2 * k - 1].of = Record(t)
  BY <1>9
<1> QED BY <1>1, <1>3, <1>10

-----------------------------------------------------------------------------
(***************************************************************************)
(* Types                                                                   *)
(***************************************************************************)

\* The three ways to go on after a write.
LEMMA WriteCases ==
  ASSUME TypeInv, NEW m \in Masters, NEW n \in {1, 2}, write_all(m, n)
  PROVE  /\ n < left[m] => /\ left' = [left EXCEPT ![m] = @ - n]
                           /\ pc' = pc
                           /\ sec' = sec
         /\ n = left[m] /\ pc[m] = "header" => /\ pc' = [pc EXCEPT ![m] = "job"]
                                               /\ sec' = [sec EXCEPT ![m] = JobHeader]
                                               /\ left' = [left EXCEPT ![m] = 2]
         /\ n = left[m] /\ pc[m] # "header" =>
              /\ pc' = [pc EXCEPT ![m] = IF pc[m] = "job" THEN "initflush" ELSE "recflush"]
              /\ sec' = sec
              /\ left' = [left EXCEPT ![m] = 0]
<1> DEFINE A == /\ left' = [left EXCEPT ![m] = @ - n]
                /\ pc' = pc
                /\ sec' = sec
           B == /\ pc' = [pc EXCEPT ![m] = "job"]
                /\ sec' = [sec EXCEPT ![m] = JobHeader]
                /\ left' = [left EXCEPT ![m] = 2]
           C == /\ pc' = [pc EXCEPT ![m] = IF pc[m] = "job" THEN "initflush" ELSE "recflush"]
                /\ sec' = sec
                /\ left' = [left EXCEPT ![m] = 0]
<1>1. (CASE n < left[m] -> A
         [] n = left[m] /\ pc[m] = "header" -> B
         [] n = left[m] /\ pc[m] # "header" -> C)
  BY Zenon DEF write_all, Emit, Goto
<1>2. left[m] \in 0 .. 2
  BY DEF TypeInv
<1> HIDE DEF A, B, C
<1>3. /\ n < left[m] => A
      /\ n = left[m] /\ pc[m] = "header" => B
      /\ n = left[m] /\ pc[m] # "header" => C
  <2>1. n < left[m] => n # left[m]
    BY <1>2
  <2> QED BY <1>1, <2>1, Zenon
<1> QED BY <1>3 DEF A, B, C

\* A write changes the file, the place and the section only.
LEMMA WriteTypes ==
  ASSUME TypeInv, NEW m \in Masters, NEW n \in {1, 2}, write_all(m, n)
  PROVE  /\ TypeInv'
         /\ left[m] \in 1 .. 2 /\ n \in 1 .. left[m]
         /\ Wrote(file', file, sec[m], left[m], n)
<1> USE DEF TypeInv
<1>1. /\ left[m] \in 1 .. 2 /\ n \in 1 .. left[m] /\ sec[m] \in Sections
      /\ file' = file \o SubSeq(Units(sec[m]), 3 - left[m], 2 - left[m] + n)
  BY DEF write_all
<1>2. Wrote(file', file, sec[m], left[m], n)
  BY <1>1, Written, Zenon
<1>3. synced' \in 0 .. Len(file')
  BY <1>1, <1>2, LenProperties DEF write_all, Wrote
<1>4. /\ pc' \in [Masters -> Places]
      /\ sec' \in [Masters -> Sections]
      /\ left' \in [Masters -> 0 .. 2]
  <2>1. CASE n < left[m]
    <3>1. left' = [left EXCEPT ![m] = @ - n] /\ pc' = pc /\ sec' = sec
      BY <2>1, WriteCases
    <3>2. left[m] - n \in 0 .. 2
      BY <1>1
    <3> QED BY <3>1, <3>2, Zenon
  <2>2. CASE n = left[m] /\ pc[m] = "header"
    <3>1. /\ pc' = [pc EXCEPT ![m] = "job"]
          /\ sec' = [sec EXCEPT ![m] = JobHeader]
          /\ left' = [left EXCEPT ![m] = 2]
      BY <2>2, WriteCases
    <3>2. "job" \in Places /\ JobHeader \in Sections /\ 2 \in 0 .. 2
      BY DEF Places, Sections
    <3> QED BY <3>1, <3>2, Zenon
  <2>3. CASE n = left[m] /\ pc[m] # "header"
    <3>1. /\ pc' = [pc EXCEPT ![m] = IF pc[m] = "job" THEN "initflush" ELSE "recflush"]
          /\ sec' = sec
          /\ left' = [left EXCEPT ![m] = 0]
      BY <2>3, WriteCases, Zenon
    <3>2. "initflush" \in Places /\ "recflush" \in Places /\ 0 \in 0 .. 2
      BY DEF Places, Serving
    <3> QED BY <3>1, <3>2, Zenon
  <2>4. n < left[m] \/ n = left[m]
    BY <1>1
  <2> QED BY <2>1, <2>2, <2>3, <2>4, Zenon
<1>5. /\ tab' \in [Masters -> SUBSET Tasks]
      /\ begun' \in SUBSET Tasks
      /\ acked' \in SUBSET Tasks
      /\ failed' \in BOOLEAN
  BY Zenon DEF write_all
<1> QED BY <1>1, <1>2, <1>3, <1>4, <1>5, Zenon DEF Wrote

\* What is left after a power failure is a prefix.
LEMMA PowerTypes ==
  ASSUME TypeInv, PowerFailure
  PROVE  /\ TypeInv'
         /\ synced <= synced' /\ synced' = Len(file') /\ Len(file') <= Len(file)
         /\ \A i \in 1 .. Len(file') : file'[i] = file[i]
<1> USE DEF TypeInv
<1>1. PICK n \in synced .. Len(file) : file' = SubSeq(file, 1, n) /\ synced' = n
  BY DEF PowerFailure
<1>2. n \in Nat /\ n <= Len(file) /\ synced <= n /\ Len(file) \in Nat
  BY <1>1, LenProperties
<1>3. \A i \in 1 .. n : file[i] \in Unit
  BY <1>2, ElementOfSeq
<1>4. /\ SubSeq(file, 1, n) \in Seq(Unit)
      /\ Len(SubSeq(file, 1, n)) = n
      /\ \A i \in 1 .. n : SubSeq(file, 1, n)[i] = file[i]
  <2>1. /\ SubSeq(file, 1, n) \in Seq(Unit)
        /\ Len(SubSeq(file, 1, n)) = IF 1 <= n THEN n - 1 + 1 ELSE 0
        /\ \A i \in 1 .. n - 1 + 1 : SubSeq(file, 1, n)[i] = file[1 + i - 1]
    BY <1>2, <1>3, SubSeqProperties
  <2>2. n - 1 + 1 = n /\ \A i \in 1 .. n : 1 + i - 1 = i
    BY <1>2
  <2> QED BY <1>2, <2>1, <2>2
<1>5. /\ pc' \in [Masters -> Places]
      /\ sec' \in [Masters -> Sections]
      /\ left' \in [Masters -> 0 .. 2]
      /\ tab' \in [Masters -> SUBSET Tasks]
      /\ begun' \in SUBSET Tasks
      /\ acked' \in SUBSET Tasks
      /\ failed' \in BOOLEAN
  BY DEF PowerFailure, Places, Stopped
<1> QED BY <1>1, <1>2, <1>4, <1>5

\* Every variable keeps its type, and nothing is written or remembered that
\* was not reported.
LEMMA BaseStep == TypeInv /\ KnownInv /\ [Next]_vars => TypeInv' /\ KnownInv'
<1> SUFFICES ASSUME TypeInv, KnownInv, [Next]_vars PROVE TypeInv' /\ KnownInv'
  OBVIOUS
<1>0. /\ Len(file) \in Nat
      /\ \A l \in {"open", "bind", "off", "up", "refused", "aborted", "header", "record"} :
           l \in Places
      /\ Header \in Sections
      /\ \A t \in Tasks : Record(t) \in Sections
      /\ \A n \in 1 .. Len(file) : file[n] \in Unit
  BY RecordFacts, LenProperties, ElementOfSeq, Zenon DEF Places, Stopped, Serving, Sections, TypeInv
<1>1. CASE PowerFailure
  <2>1. /\ TypeInv'
        /\ Len(file') <= Len(file)
        /\ \A i \in 1 .. Len(file') : file'[i] = file[i]
    BY <1>1, PowerTypes, Zenon
  <2>2. Len(file') \in Nat
    BY <2>1, LenProperties, Zenon DEF TypeInv
  <2>3. \A n \in 1 .. Len(file') : file'[n].of \in Records => TaskOf(file'[n].of) \in begun'
    BY <1>0, <1>1, <2>1, <2>2, SMTT(60) DEF KnownInv, PowerFailure
  <2> QED BY <1>1, <2>1, <2>3, SMTT(60) DEF KnownInv, PowerFailure, Writing
<1>2. ASSUME NEW m \in Masters, MasterStep(m) \/ Killed(m) PROVE TypeInv' /\ KnownInv'
  <2> USE DEF Goto
  <2>3. CASE bootstrap_new(m)
    <3>1. TypeInv'
      BY <1>0, <2>3 DEF bootstrap_new, TypeInv
    <3> QED BY <2>3, <3>1, Zenon DEF bootstrap_new, KnownInv, TypeInv, Stopped, Writing
  <2>4. ASSUME NEW o \in {"ok", "refused", "aborted"}, bootstrap_load(m, o)
        PROVE  TypeInv' /\ KnownInv'
    <3>1. Replayed(file) \in SUBSET Tasks
      BY Zenon DEF Replayed
    <3>2. Replayed(file) \subseteq begun
      <4> SUFFICES ASSUME NEW t \in Replayed(file) PROVE t \in begun
        OBVIOUS
      <4>1. t \in Tasks
        BY <3>1
      <4>2. PICK i \in 1 .. Len(file) : file[i].of = Record(t)
        BY ReplayedFrom, Zenon DEF TypeInv
      <4> QED BY <4>1, <4>2, RecordFacts, SMTT(60) DEF KnownInv
    <3>3. TypeInv'
      BY <1>0, <2>4, <3>1, Zenon DEF bootstrap_load, TypeInv
    <3> QED BY <2>4, <3>2, <3>3, Zenon DEF bootstrap_load, KnownInv, TypeInv, Stopped, Writing
  <2>5. CASE aof_init_new(m)
    <3>1. TypeInv'
      BY <1>0, <2>5 DEF aof_init_new, Emit, TypeInv
    <3> QED BY <2>5, <3>1, SMTT(60) DEF aof_init_new, Emit, KnownInv, TypeInv, Writing
  <2>6. CASE aof_init_existing(m)
    <3>1. TypeInv'
      BY <1>0, <2>6 DEF aof_init_existing, TypeInv
    <3> QED BY <2>6, <3>1, Zenon DEF aof_init_existing, KnownInv, TypeInv, Writing
  <2>7. CASE server_init(m)
    <3>1. TypeInv'
      BY <1>0, <2>7, Zenon DEF server_init, TypeInv
    <3> QED BY <2>7, <3>1, Zenon DEF server_init, KnownInv, TypeInv, Writing
  <2>8. ASSUME NEW n \in {1, 2}, write_all(m, n) PROVE TypeInv' /\ KnownInv'
    <3>1. /\ TypeInv' /\ left[m] \in 1 .. 2 /\ n \in 1 .. left[m]
          /\ Wrote(file', file, sec[m], left[m], n)
      BY <2>8, WriteTypes, Zenon
    <3>2. pc[m] \in Writing
      BY <3>1, SMTT(60) DEF KnownInv
    <3>3. begun' = begun /\ tab' = tab
      BY <2>8 DEF write_all
    <3>4. sec[m] \in Records => TaskOf(sec[m]) \in begun
      BY <3>2, RecordFacts, Zenon DEF KnownInv, Writing
    <3>5. \A i \in 1 .. Len(file') : file'[i].of \in Records => TaskOf(file'[i].of) \in begun'
      <4> SUFFICES ASSUME NEW i \in 1 .. Len(file'), file'[i].of \in Records
                   PROVE  TaskOf(file'[i].of) \in begun
        BY <3>3, Zenon
      <4>1. CASE i <= Len(file)
        BY <1>0, <3>1, <4>1, SMTT(60) DEF Wrote, KnownInv
      <4>2. CASE i > Len(file)
        <5>1. i - Len(file) \in 1 .. n /\ i = Len(file) + (i - Len(file))
          BY <1>0, <3>1, <4>2 DEF Wrote
        <5>2. file'[Len(file) + (i - Len(file))]
                = [of |-> sec[m], part |-> 2 - left[m] + (i - Len(file))]
          BY <3>1, <5>1, Zenon DEF Wrote
        <5>3. file'[i].of = sec[m]
          BY <5>1, <5>2
        <5> QED BY <3>4, <5>3, Zenon
      <4> QED BY <1>0, <3>1, <4>1, <4>2 DEF Wrote
    <3>6. CASE n < left[m]
      <4>1. left' = [left EXCEPT ![m] = @ - n] /\ pc' = pc /\ sec' = sec
        BY <2>8, <3>6, WriteCases, Zenon
      <4>2. left[m] - n > 0
        BY <3>1, <3>6
      <4> QED BY <3>1, <3>2, <3>3, <3>5, <4>1, <4>2, Zenon DEF KnownInv, TypeInv
    <3>7. CASE n = left[m] /\ pc[m] = "header"
      <4>1. /\ pc' = [pc EXCEPT ![m] = "job"]
            /\ sec' = [sec EXCEPT ![m] = JobHeader]
            /\ left' = [left EXCEPT ![m] = 2]
        BY <2>8, <3>7, WriteCases, Zenon
      <4> QED BY <3>1, <3>3, <3>5, <4>1, SMTT(60) DEF KnownInv, TypeInv, Writing
    <3>8. CASE n = left[m] /\ pc[m] # "header"
      <4>1. /\ pc' = [pc EXCEPT ![m] = IF pc[m] = "job" THEN "initflush" ELSE "recflush"]
            /\ sec' = sec
            /\ left' = [left EXCEPT ![m] = 0]
        BY <2>8, <3>8, WriteCases, Zenon
      <4> QED BY <3>1, <3>2, <3>3, <3>5, <3>8, <4>1, SMTT(60) DEF KnownInv, TypeInv, Writing
    <3> QED BY <3>1, <3>6, <3>7, <3>8
  <2>9. ASSUME Abandon(m), pc[m] \in Serving => pc[m] \in {"record", "recflush"}
        PROVE  TypeInv' /\ KnownInv'
    <3>1. pc[m] \in Serving => TaskOf(sec[m]) \in Tasks
      BY <2>9, RecordFacts, Zenon DEF KnownInv
    <3>2. TypeInv'
      BY <1>0, <2>9, <3>1 DEF Abandon, TypeInv
    <3> QED BY <2>9, <3>2, SMTT(60) DEF Abandon, KnownInv, TypeInv, Writing
  <2>10. CASE write_fails(m)
    BY <2>9, <2>10, Zenon DEF write_fails, KnownInv, Writing, Serving
  <2>11. CASE flush_fails(m)
    BY <2>9, <2>11 DEF flush_fails, Serving
  <2>12. CASE durable_flush_init(m)
    <3>1. TypeInv'
      BY <1>0, <2>12 DEF durable_flush_init, TypeInv
    <3> QED BY <2>12, <3>1, Zenon DEF durable_flush_init, KnownInv, TypeInv, Writing
  <2>13. CASE durable_flush_record(m)
    <3>1. TaskOf(sec[m]) \in Tasks
      BY <2>13, RecordFacts, Zenon DEF KnownInv, durable_flush_record
    <3>2. TypeInv'
      BY <1>0, <2>13, <3>1 DEF durable_flush_record, TypeInv
    <3> QED BY <2>13, <3>2, Zenon DEF durable_flush_record, KnownInv, TypeInv, Writing
  <2>14. ASSUME NEW t \in Tasks, task_done(m, t) PROVE TypeInv' /\ KnownInv'
    <3>1. TypeInv'
      BY <1>0, <2>14 DEF task_done, Emit, TypeInv
    <3>2. Record(t) \in Records /\ TaskOf(Record(t)) = t
      BY RecordFacts, Zenon
    <3>3. 2 > 0
      OBVIOUS
    <3> QED BY <2>14, <3>1, <3>2, <3>3, ZenonT(60) DEF task_done, Emit, Goto, KnownInv, TypeInv, Writing
  <2>15. CASE Killed(m)
    <3>1. TypeInv'
      BY <1>0, <2>15 DEF Killed, TypeInv
    <3> QED BY <2>15, <3>1, SMTT(60) DEF Killed, KnownInv, TypeInv, Writing
  <2> QED
    BY <1>2, <2>3, <2>4, <2>5, <2>6, <2>7, <2>8, <2>10, <2>11, <2>12, <2>13, <2>14, <2>15, Zenon
    DEF MasterStep
<1>3. CASE UNCHANGED vars
  BY <1>3, Zenon DEF vars, procVars, TypeInv, KnownInv
<1> QED BY <1>1, <1>2, <1>3 DEF Next

-----------------------------------------------------------------------------
(***************************************************************************)
(* The log while no call fails                                             *)
(***************************************************************************)

\* Laid, read at the first two sections.
LEMMA LaidHeaders ==
  ASSUME NEW f, Laid(f)
  PROVE  /\ Begins(f, 1) => SecAt(f, 1) = Header
         /\ Begins(f, 2) => SecAt(f, 2) = JobHeader
BY SMT DEF Laid

\* A write by the only master.
LEMMA WriteLog ==
  ASSUME TypeInv, KnownInv, LogInv, OneMaster, ~ failed,
         NEW m \in Masters, NEW n \in {1, 2}, write_all(m, n)
  PROVE  LogInv'
<1>1. /\ TypeInv' /\ left[m] \in 1 .. 2 /\ n \in 1 .. left[m]
      /\ Wrote(file', file, sec[m], left[m], n)
  BY WriteTypes
<1>2. /\ Laid(file) /\ acked \subseteq WholeIn(file, synced) /\ PlaceInv(m)
      /\ \A o \in Masters : o = m
  BY Zenon DEF LogInv, OneMaster
<1>3. /\ file \in Seq(Unit) /\ file' \in Seq(Unit) /\ sec[m] \in Sections
      /\ synced \in Nat /\ synced <= Len(file) /\ Len(file) \in Nat
      /\ Len(file') = Len(file) + n
      /\ \A i \in 1 .. Len(file) : file'[i] = file[i]
  BY <1>1, LenProperties DEF TypeInv, Wrote
<1>4. /\ synced' = synced /\ acked' = acked /\ tab' = tab /\ failed' = failed
      /\ pc \in [Masters -> Places] /\ left \in [Masters -> 0 .. 2]
      /\ sec \in [Masters -> Sections]
  BY DEF write_all, TypeInv
<1>5. acked' \subseteq WholeIn(file', synced')
  <2>1. synced <= Len(file') /\ \A i \in 1 .. synced : file'[i] = file[i]
    BY <1>3
  <2>2. WholeIn(file', synced) = WholeIn(file, synced)
    BY <1>3, <2>1, SameWhole, Zenon
  <2> QED BY <1>2, <1>4, <2>2, Zenon
<1>6. SUFFICES Laid(file') /\ PlaceInv(m)'
  BY <1>2, <1>5 DEF LogInv
<1>7. pc[m] \in Writing
  <2>1. left[m] > 0
    BY <1>1
  <2> QED BY <2>1, Zenon DEF KnownInv
<1>8. CASE pc[m] = "header"
  <2>1. sec[m] = Header /\ Len(file) = 2 * 0 + 2 - left[m] /\ tab[m] = WholeIn(file, Len(file))
    <3>1. sec[m] = Header /\ Len(file) = 2 - left[m] /\ tab[m] = WholeIn(file, Len(file))
      BY <1>2, <1>8, Zenon DEF KnownInv, PlaceInv, Stopped
    <3> QED BY <1>1, <3>1
  <2>2. left[m] = 1 => SecAt(file, 0 + 1) = sec[m]
    <3>1. left[m] = 1 => Begins(file, 1)
      BY <2>1 DEF Begins
    <3>2. 0 + 1 = 1 /\ 1 + 1 = 2
      OBVIOUS
    <3> QED BY <1>2, <2>1, <3>1, <3>2, LaidHeaders, Zenon
  <2>3. left[m] = 2 => \A j \in Nat : ~ Begins(file, j)
    BY <2>1 DEF Begins
  <2>4. Laid(file')
    <3>1. sec[m].kind # "REDUCE"
      BY <2>1, RecordFacts
    <3>2. 0 \in Nat /\ ~ (0 = 1) /\ ~ (0 >= 2)
      OBVIOUS
    <3> QED BY <1>1, <1>2, <1>3, <2>1, <2>2, <2>3, <3>1, <3>2, LaidWrite, Zenon
  <2>5. WholeIn(file', Len(file')) = {} /\ WholeIn(file, Len(file)) = {}
    <3>1. Len(file') \in 0 .. 5 /\ Len(file) \in 0 .. 5
      BY <1>1, <1>3, <2>1
    <3> QED BY <3>1, NoWhole, Zenon
  <2>6. CASE n < left[m]
    <3>1. left' = [left EXCEPT ![m] = @ - n] /\ pc' = pc /\ sec' = sec
      BY <2>6, WriteCases, Zenon
    <3>2. Len(file') = 2 - left'[m]
      BY <1>1, <1>3, <1>4, <2>1, <3>1
    <3> QED BY <1>4, <1>8, <2>1, <2>4, <2>5, <3>1, <3>2, Zenon DEF PlaceInv, Stopped
  <2>7. CASE n = left[m]
    <3>1. pc' = [pc EXCEPT ![m] = "job"] /\ left' = [left EXCEPT ![m] = 2]
      BY <1>8, <2>7, WriteCases, Zenon
    <3>2. pc'[m] = "job" /\ Len(file') = 4 - left'[m]
      BY <1>1, <1>3, <1>4, <2>1, <2>7, <3>1
    <3> QED BY <1>4, <1>8, <2>1, <2>4, <2>5, <3>2, Zenon DEF PlaceInv, Stopped
  <2> QED BY <1>1, <2>6, <2>7
<1>9. CASE pc[m] = "job"
  <2>1. sec[m] = JobHeader /\ Len(file) = 2 * 1 + 2 - left[m] /\ tab[m] = WholeIn(file, Len(file))
    <3>1. sec[m] = JobHeader /\ Len(file) = 4 - left[m] /\ tab[m] = WholeIn(file, Len(file))
      BY <1>2, <1>9, Zenon DEF KnownInv, PlaceInv, Stopped
    <3> QED BY <1>1, <3>1
  <2>2. left[m] = 1 => SecAt(file, 1 + 1) = sec[m]
    <3>1. left[m] = 1 => Begins(file, 2)
      BY <2>1 DEF Begins
    <3>2. 0 + 1 = 1 /\ 1 + 1 = 2
      OBVIOUS
    <3> QED BY <1>2, <2>1, <3>1, <3>2, LaidHeaders, Zenon
  <2>3. left[m] = 2 => \A j \in Nat : Begins(file, j) => SecAt(file, j) # sec[m]
    <3>1. left[m] = 2 => \A j \in Nat : Begins(file, j) => j = 1
      BY <2>1 DEF Begins
    <3>2. left[m] = 2 => Begins(file, 1)
      BY <2>1 DEF Begins
    <3> QED BY <1>2, <2>1, <3>1, <3>2, LaidHeaders, RecordFacts, Zenon
  <2>4. Laid(file')
    <3>1. sec[m].kind # "REDUCE"
      BY <2>1, RecordFacts
    <3>2. 1 \in Nat /\ ~ (1 = 0) /\ ~ (1 >= 2)
      OBVIOUS
    <3> QED BY <1>1, <1>2, <1>3, <2>1, <2>2, <2>3, <3>1, <3>2, LaidWrite, Zenon
  <2>5. WholeIn(file', Len(file')) = {} /\ WholeIn(file, Len(file)) = {}
    <3>1. Len(file') \in 0 .. 5 /\ Len(file) \in 0 .. 5
      BY <1>1, <1>3, <2>1
    <3> QED BY <3>1, NoWhole, Zenon
  <2>6. CASE n < left[m]
    <3>1. left' = [left EXCEPT ![m] = @ - n] /\ pc' = pc /\ sec' = sec
      BY <2>6, WriteCases
    <3>2. Len(file') = 4 - left'[m]
      BY <1>1, <1>3, <1>4, <2>1, <3>1
    <3> QED BY <1>4, <1>9, <2>1, <2>4, <2>5, <3>1, <3>2, Zenon DEF PlaceInv, Stopped
  <2>7. CASE n = left[m]
    <3>1. pc' = [pc EXCEPT ![m] = "initflush"]
      BY <1>9, <2>7, WriteCases, Zenon
    <3>2. pc'[m] = "initflush" /\ Len(file') = 4
      BY <1>1, <1>3, <1>4, <2>1, <2>7, <3>1
    <3> QED BY <1>4, <1>9, <2>1, <2>4, <2>5, <3>2, Zenon DEF PlaceInv, Stopped
  <2> QED BY <1>1, <2>6, <2>7
<1>10. CASE pc[m] = "record"
  <2>1. /\ sec[m] \in Records
        /\ tab[m] = WholeIn(file, Len(file)) \cup {TaskOf(sec[m])}
        /\ TaskOf(sec[m]) \notin WholeIn(file, Len(file))
        /\ sec[m].kind = "REDUCE" =>
             \A i \in Ids("MAP") : <<"MAP", i>> \in WholeIn(file, Len(file))
    BY <1>2, <1>10, Zenon DEF KnownInv, PlaceInv
  <2>2. PICK k \in Nat : /\ k >= 2
                         /\ Len(file) = 2 * k + 2 - left[m]
                         /\ left[m] = 1 => file[2 * k + 1] = Units(sec[m])[1]
    BY <1>2, <1>10, Zenon DEF PlaceInv
  <2>3. left[m] = 1 => SecAt(file, k + 1) = sec[m]
    <3>1. Units(sec[m])[1] = [of |-> sec[m], part |-> 1]
      BY <1>3, UnitsFacts, Zenon
    <3>2. 2 * (k + 1) - 1 = 2 * k + 1
      OBVIOUS
    <3> QED BY <2>2, <3>1, <3>2 DEF SecAt
  <2>4. left[m] = 2 => \A j \in Nat : Begins(file, j) => SecAt(file, j) # sec[m]
    <3> SUFFICES ASSUME left[m] = 2, NEW j \in Nat, Begins(file, j), SecAt(file, j) = sec[m]
                 PROVE  FALSE
      OBVIOUS
    <3>1. j >= 3
      <4>1. j # 0
        BY DEF Begins
      <4>2. j # 1 /\ j # 2
        BY <1>2, <2>1, LaidHeaders, RecordFacts, Zenon
      <4> QED BY <4>1, <4>2
    <3>2. 2 * j <= Len(file)
      BY <2>2 DEF Begins
    <3>3. TaskOf(sec[m]) \in Tasks /\ sec[m] = Record(TaskOf(sec[m]))
      BY <2>1, RecordFacts, Zenon
    <3>4. TaskOf(sec[m]) \in WholeIn(file, Len(file))
      BY <3>1, <3>2, <3>3 DEF WholeIn
    <3> QED BY <2>1, <3>4, Zenon
  <2>5. Laid(file')
    <3>1. ~ (k = 0) /\ ~ (k = 1)
      BY <2>2
    <3> QED BY <1>1, <1>2, <1>3, <2>1, <2>2, <2>3, <2>4, <3>1, LaidWrite, Zenon
  <2>6. WholeIn(file', Len(file'))
          = IF n = left[m] THEN WholeIn(file, Len(file)) \cup {TaskOf(sec[m])}
            ELSE WholeIn(file, Len(file))
    BY <1>1, <1>3, <2>1, <2>2, <2>3, WholeWrite, Zenon
  <2>7. CASE n < left[m]
    <3>1. left' = [left EXCEPT ![m] = @ - n] /\ pc' = pc /\ sec' = sec
      BY <2>7, WriteCases
    <3>2. n = 1 /\ left[m] = 2 /\ left'[m] = 1
      BY <1>1, <1>4, <2>7, <3>1
    <3>3. Len(file') = 2 * k + 2 - left'[m]
      BY <1>3, <2>2, <3>2
    <3>4. file'[2 * k + 1] = Units(sec[m])[1]
      <4>1. file'[Len(file) + 1] = [of |-> sec[m], part |-> 2 - left[m] + 1]
        <5>1. 1 \in 1 .. n
          BY <3>2
        <5> QED BY <1>1, <5>1, Zenon DEF Wrote
      <4>2. Len(file) + 1 = 2 * k + 1 /\ 2 - left[m] + 1 = 1
        BY <2>2, <3>2
      <4> QED BY <1>3, <4>1, <4>2, UnitsFacts, Zenon
    <3>5. WholeIn(file', Len(file')) = WholeIn(file, Len(file))
      BY <2>6, <3>2
    <3>6. \E j \in Nat : /\ j >= 2
                         /\ Len(file') = 2 * j + 2 - left'[m]
                         /\ left'[m] = 1 => file'[2 * j + 1] = Units(sec'[m])[1]
      BY <2>2, <3>1, <3>3, <3>4, Zenon
    <3>7. pc'[m] = "record"
      BY <1>10, <3>1
    <3> QED BY <1>4, <2>1, <2>5, <3>1, <3>5, <3>6, <3>7, Zenon DEF PlaceInv, Stopped
  <2>8. CASE n = left[m]
    <3>1. pc' = [pc EXCEPT ![m] = "recflush"] /\ sec' = sec
      BY <1>10, <2>8, WriteCases
    <3>2. pc'[m] = "recflush"
      BY <1>4, <3>1, Zenon
    <3>3. k + 1 \in Nat /\ k + 1 >= 2 /\ Len(file') = 2 * (k + 1)
      BY <1>1, <1>3, <2>2, <2>8
    <3>4. Loadable(file')
      BY <3>3 DEF Loadable
    <3>5. /\ tab'[m] = WholeIn(file', Len(file'))
          /\ TaskOf(sec'[m]) \in WholeIn(file', Len(file'))
      BY <1>4, <2>1, <2>6, <2>8, <3>1, Zenon
    <3> QED BY <2>5, <3>2, <3>4, <3>5, Zenon DEF PlaceInv, Stopped
  <2> QED BY <1>1, <2>7, <2>8
<1> QED BY <1>7, <1>8, <1>9, <1>10, Zenon DEF Writing

\* Every step of the only master.
LEMMA LogStep ==
  ASSUME TypeInv, KnownInv, LogInv, OneMaster, [Next]_vars
  PROVE  LogInv'
<1> SUFFICES ASSUME ~ failed' PROVE LogInv'
  BY DEF LogInv
<1>1. CASE PowerFailure
  <2>1. ~ failed
    BY <1>1 DEF PowerFailure
  <2>2. /\ Laid(file) /\ acked \subseteq WholeIn(file, synced)
        /\ file \in Seq(Unit) /\ synced \in Nat /\ synced <= Len(file)
    BY <2>1, LenProperties DEF LogInv, TypeInv
  <2>3. /\ TypeInv'
        /\ synced <= synced' /\ synced' = Len(file') /\ Len(file') <= Len(file)
        /\ \A i \in 1 .. Len(file') : file'[i] = file[i]
    BY <1>1, PowerTypes, Zenon
  <2>4. file' \in Seq(Unit) /\ Len(file') \in Nat
    BY <2>3, LenProperties DEF TypeInv
  <2>5. Laid(file')
    BY <2>2, <2>3, <2>4, LaidPrefix, Zenon
  <2>6. WholeIn(file', synced) = WholeIn(file, synced)
    BY <2>2, <2>3, <2>4, SameWhole
  <2>7. WholeIn(file', synced) \subseteq WholeIn(file', synced')
    BY <2>2, <2>3, <2>4, MoreWhole, Zenon
  <2>8. acked' \subseteq WholeIn(file', synced')
    BY <1>1, <2>2, <2>6, <2>7, Zenon DEF PowerFailure
  <2>9. \A m \in Masters : pc'[m] = "off"
    BY <1>1 DEF PowerFailure
  <2>10. \A m \in Masters : PlaceInv(m)'
    BY <2>9, Zenon DEF PlaceInv, Stopped
  <2> QED BY <2>5, <2>8, <2>10 DEF LogInv
<1>2. ASSUME NEW m \in Masters, MasterStep(m) \/ Killed(m) PROVE LogInv'
  <2> USE DEF Goto
  <2>1. \A o \in Masters : o = m
    BY DEF OneMaster
  <2>2. /\ pc \in [Masters -> Places] /\ sec \in [Masters -> Sections]
        /\ left \in [Masters -> 0 .. 2] /\ tab \in [Masters -> SUBSET Tasks]
        /\ file \in Seq(Unit) /\ Len(file) \in Nat
        /\ synced \in Nat /\ synced <= Len(file)
    BY LenProperties DEF TypeInv
  <2>3. ~ failed => Laid(file) /\ acked \subseteq WholeIn(file, synced) /\ PlaceInv(m)
    BY DEF LogInv
  <2>4. ASSUME file' = file, synced' = synced, acked' = acked, failed' = failed, PlaceInv(m)'
        PROVE  LogInv'
    BY <2>1, <2>3, <2>4, Zenon DEF LogInv
  <2>5. CASE bootstrap_new(m)
    <3>1. WholeIn(file, Len(file)) = {}
      BY <2>2, <2>5, EmptySeq, NoWhole DEF bootstrap_new
    <3>2. pc'[m] = "open" /\ tab'[m] = {} /\ file' = << >> /\ file' = file
      BY <2>2, <2>5 DEF bootstrap_new
    <3>3. PlaceInv(m)'
      BY <3>1, <3>2, Zenon DEF PlaceInv, Stopped
    <3> QED BY <2>4, <2>5, <3>3, Zenon DEF bootstrap_new
  <2>6. ASSUME NEW o \in {"ok", "refused", "aborted"}, bootstrap_load(m, o) PROVE LogInv'
    <3>1. ~ failed /\ Laid(file) /\ file # << >> /\ file' = file /\ o \in aof_load(file)
      BY <2>3, <2>6, Zenon DEF bootstrap_load
    <3>2. o = "ok" => /\ Loadable(file)
                      /\ pc'[m] = "open"
                      /\ tab'[m] = WholeIn(file, Len(file))
      <4> HAVE o = "ok"
      <4>1. Loadable(file)
        BY <2>2, <3>1, LoadsOnlyWhole, Zenon
      <4>2. Replayed(file) = WholeIn(file, Len(file))
        BY <2>2, <3>1, <4>1, LoadsWhole, Zenon
      <4> QED BY <2>2, <2>6, <4>1, <4>2, Zenon DEF bootstrap_load
    <3>3. o # "ok" => /\ Len(file) % 2 = 1 \/ Len(file) = 2
                      /\ pc'[m] \in {"refused", "aborted"}
      <4> HAVE o # "ok"
      <4>1. ~ Loadable(file)
        BY <2>2, <3>1, LoadsWhole, Zenon
      <4>2. Len(file) % 2 = 1 \/ Len(file) = 2
        BY <2>2, <3>1, <4>1, LoadsOnlyWhole, Zenon
      <4> QED BY <2>2, <2>6, <4>2 DEF bootstrap_load
    <3>4. PlaceInv(m)'
      <4>1. CASE o = "ok"
        BY <3>1, <3>2, <4>1, Zenon DEF PlaceInv, Stopped
      <4>2. CASE o # "ok"
        BY <3>1, <3>3, <4>2, Zenon DEF PlaceInv, Stopped
      <4> QED BY <4>1, <4>2
    <3> QED BY <2>4, <2>6, <3>4, Zenon DEF bootstrap_load
  <2>7. CASE aof_init_new(m)
    <3>1. /\ pc'[m] = "header" /\ left'[m] = 2 /\ tab' = tab /\ file' = file
          /\ file = << >> /\ pc[m] = "open" /\ ~ failed
      BY <2>2, <2>7, Zenon DEF aof_init_new, Emit
    <3>2. Len(file) = 0
      BY <3>1, EmptySeq
    <3>3. PlaceInv(m)'
      <4>1. Len(file') = 2 - left'[m]
        BY <3>1, <3>2
      <4> QED BY <2>3, <3>1, <4>1, Zenon DEF PlaceInv, Stopped
    <3> QED BY <2>4, <2>7, <3>3, Zenon DEF aof_init_new
  <2>8. CASE aof_init_existing(m)
    <3>1. /\ pc'[m] = "bind" /\ tab' = tab /\ file' = file
          /\ file # << >> /\ pc[m] = "open" /\ ~ failed
      BY <2>2, <2>8 DEF aof_init_existing
    <3>2. PlaceInv(m)'
      BY <2>3, <3>1, Zenon DEF PlaceInv, Stopped
    <3> QED BY <2>4, <2>8, <3>2, Zenon DEF aof_init_existing
  <2>9. CASE server_init(m)
    <3>1. /\ pc'[m] \in {"off", "up"} /\ tab' = tab /\ file' = file
          /\ pc[m] = "bind" /\ ~ failed
      BY <2>2, <2>9 DEF server_init
    <3>2. PlaceInv(m)'
      BY <2>3, <3>1, Zenon DEF PlaceInv, Stopped
    <3> QED BY <2>4, <2>9, <3>2, Zenon DEF server_init
  <2>10. ASSUME NEW n \in {1, 2}, write_all(m, n) PROVE LogInv'
    <3>1. ~ failed
      BY <2>10, Zenon DEF write_all
    <3> QED BY <2>10, <3>1, WriteLog, Zenon
  <2>11. CASE write_fails(m) \/ flush_fails(m)
    BY <2>11, Zenon DEF write_fails, flush_fails, Abandon
  <2>12. CASE durable_flush_init(m)
    <3>1. /\ pc'[m] = "bind" /\ tab' = tab /\ file' = file /\ synced' = Len(file)
          /\ acked' = acked /\ pc[m] = "initflush" /\ ~ failed /\ failed' = failed
      BY <2>2, <2>12 DEF durable_flush_init
    <3>2. Len(file) = 4 /\ 4 = 2 * 2 /\ 2 \in Nat /\ 2 >= 2
      <4>1. Len(file) = 4
        BY <2>3, <3>1, Zenon DEF PlaceInv
      <4> QED BY <4>1
    <3>3. Loadable(file)
      BY <3>2 DEF Loadable
    <3>4. PlaceInv(m)'
      BY <2>3, <3>1, <3>3, Zenon DEF PlaceInv, Stopped
    <3>5. acked' \subseteq WholeIn(file', synced')
      BY <2>2, <2>3, <3>1, MoreWhole, Zenon
    <3> QED BY <2>1, <2>3, <3>1, <3>4, <3>5, Zenon DEF LogInv
  <2>13. CASE durable_flush_record(m)
    <3>1. /\ pc'[m] = "up" /\ tab' = tab /\ file' = file /\ synced' = Len(file)
          /\ acked' = acked \cup {TaskOf(sec[m])} /\ pc[m] = "recflush"
          /\ ~ failed /\ failed' = failed
      BY <2>2, <2>13 DEF durable_flush_record
    <3>2. TaskOf(sec[m]) \in WholeIn(file, Len(file))
      BY <2>3, <3>1, Zenon DEF PlaceInv
    <3>3. PlaceInv(m)'
      BY <2>3, <3>1, Zenon DEF PlaceInv, Stopped
    <3>4. acked' \subseteq WholeIn(file', synced')
      BY <2>2, <2>3, <3>1, <3>2, MoreWhole, Zenon
    <3> QED BY <2>1, <2>3, <3>1, <3>3, <3>4, Zenon DEF LogInv
  <2>14. ASSUME NEW t \in Tasks, task_done(m, t) PROVE LogInv'
    <3>1. /\ pc'[m] = "record" /\ left'[m] = 2 /\ sec'[m] = Record(t)
          /\ tab'[m] = tab[m] \cup {t} /\ file' = file
          /\ pc[m] = "up" /\ t \notin tab[m] /\ ~ failed
          /\ t[1] = "REDUCE" => \A i \in Ids("MAP") : <<"MAP", i>> \in tab[m]
      BY <2>2, <2>14, Zenon DEF task_done, Emit
    <3>2. TaskOf(Record(t)) = t /\ Record(t).kind = t[1]
      BY RecordFacts
    <3>3. tab[m] = WholeIn(file, Len(file)) /\ Loadable(file)
      BY <2>3, <3>1, Zenon DEF PlaceInv, Stopped
    <3>4. PICK k \in Nat : k >= 2 /\ Len(file) = 2 * k
      BY <3>3, Zenon DEF Loadable
    <3>5. Len(file') = 2 * k + 2 - left'[m] /\ left'[m] # 1
      BY <3>1, <3>4
    <3>6. PlaceInv(m)'
      BY <3>1, <3>2, <3>3, <3>4, <3>5, Zenon DEF PlaceInv, Stopped
    <3> QED BY <2>4, <2>14, <3>6, Zenon DEF task_done
  <2>15. CASE Killed(m)
    <3>1. pc'[m] = "off"
      BY <2>2, <2>15 DEF Killed
    <3>2. PlaceInv(m)'
      BY <3>1, Zenon DEF PlaceInv, Stopped
    <3> QED BY <2>4, <2>15, <3>2, Zenon DEF Killed
  <2> QED
    BY <1>2, <2>5, <2>6, <2>7, <2>8, <2>9, <2>10, <2>11, <2>12, <2>13, <2>14, <2>15, Zenon
    DEF MasterStep
<1>3. CASE UNCHANGED vars
  BY <1>3, Zenon DEF vars, procVars, LogInv, PlaceInv
<1> QED BY <1>1, <1>2, <1>3, Zenon DEF Next

-----------------------------------------------------------------------------
(***************************************************************************)
(* The theorems                                                            *)
(***************************************************************************)

\* The invariant holds always, however many masters there are; its third part
\* speaks of a single one.
LEMMA FileInvariant == Spec => []FileInv
<1>1. Init => FileInv
  <2> SUFFICES ASSUME Init PROVE FileInv
    OBVIOUS
  <2>1. TypeInv
    <3>1. << >> \in Seq(Unit) /\ Len(<< >>) = 0
      BY EmptySeq
    <3>2. "off" \in Places /\ Header \in Sections
      BY DEF Places, Stopped, Sections
    <3>3. file \in Seq(Unit) /\ synced \in 0 .. Len(file)
      BY <3>1 DEF Init
    <3>4. /\ pc \in [Masters -> Places] /\ sec \in [Masters -> Sections]
          /\ left \in [Masters -> 0 .. 2] /\ tab \in [Masters -> SUBSET Tasks]
      BY <3>2 DEF Init
    <3>5. begun \in SUBSET Tasks /\ acked \in SUBSET Tasks /\ failed \in BOOLEAN
      BY Zenon DEF Init
    <3> QED BY <3>3, <3>4, <3>5 DEF TypeInv
  <2>2. KnownInv
    BY EmptySeq, SMTT(60) DEF Init, KnownInv, Writing
  <2>3. Len(file) = 0
    BY EmptySeq, Zenon DEF Init
  <2>4. Laid(file)
    BY <2>3 DEF Laid, Begins, Whole
  <2>5. \A m \in Masters : PlaceInv(m)
    BY SMTT(60) DEF Init, PlaceInv, Stopped
  <2> QED BY <2>1, <2>2, <2>4, <2>5 DEF Init, FileInv, LogInv
<1>2. FileInv /\ [Next]_vars => FileInv'
  BY BaseStep, LogStep DEF FileInv, OneMaster
<1> QED BY <1>1, <1>2, PTL DEF Spec

\* A record that is whole is a whole record wherever one looks for it.
LEMMA WholeComplete ==
  ASSUME NEW f \in Seq(Unit), Laid(f)
  PROVE  WholeIn(f, Len(f)) \subseteq Complete(f)
<1> SUFFICES ASSUME NEW t \in WholeIn(f, Len(f)) PROVE t \in Complete(f)
  OBVIOUS
<1>1. t \in Tasks
  BY DEF WholeIn
<1>2. PICK k \in Nat : k >= 3 /\ 2 * k <= Len(f) /\ SecAt(f, k) = Record(t)
  BY DEF WholeIn
<1>3. Chunk(f, k) = Units(Record(t))
  BY <1>2, WholeChunk DEF Whole
<1>4. (IF 2 * k < Len(f) THEN 2 * k ELSE Len(f)) = 2 * k - 1 + 1
  BY <1>2, LenProperties
<1>5. SubSeq(f, 2 * k - 1, 2 * k - 1 + 1) = Units(Record(t))
  BY <1>3, <1>4, Zenon DEF Chunk
<1>6. 2 * k - 1 \in 1 .. Len(f) - 1
  BY <1>2, LenProperties
<1> QED BY <1>1, <1>5, <1>6, Zenon DEF Complete

\* Whatever is acknowledged is on stable storage as a whole record, for every
\* job and every sequence of deaths, power failures and restarts of the one
\* master.
THEOREM AckedSurvivesAlways ==
  ASSUME OneMaster
  PROVE  Spec => []AckedSurvives
<1>1. FileInv => AckedSurvives
  <2> SUFFICES ASSUME FileInv, ~ failed PROVE acked \subseteq Complete(SubSeq(file, 1, synced))
    BY DEF AckedSurvives
  <2>1. /\ file \in Seq(Unit) /\ synced \in 0 .. Len(file) /\ Laid(file)
        /\ acked \subseteq WholeIn(file, synced)
    BY DEF FileInv, TypeInv, LogInv
  <2>2. PICK g : g = SubSeq(file, 1, synced)
    BY Zenon
  <2>3. \A i \in 1 .. synced : file[i] \in Unit
    BY <2>1, LenProperties, ElementOfSeq
  <2>4. /\ g \in Seq(Unit) /\ Len(g) = synced /\ \A i \in 1 .. synced : g[i] = file[i]
    BY <2>1, <2>2, <2>3, LenProperties, SubSeqProperties
  <2>5. Laid(g) /\ WholeIn(g, synced) = WholeIn(file, synced)
    BY <2>1, <2>4, LenProperties, LaidPrefix, SameWhole
  <2> QED BY <2>1, <2>2, <2>4, <2>5, WholeComplete, Zenon
<1> QED BY <1>1, FileInvariant, PTL

\* A master's tables hold only completions that were reported, whatever fails
\* and however many masters share the directory; and, with one master and no
\* failing call, every acknowledged one.
THEOREM ReplayExactAlways ==
  ASSUME OneMaster
  PROVE  Spec => []ReplayExact
<1>1. FileInv => ReplayExact
  <2> SUFFICES ASSUME FileInv, NEW m \in Masters, pc[m] \notin Stopped
               PROVE  tab[m] \subseteq begun /\ (~ failed => acked \subseteq tab[m])
    BY Zenon DEF ReplayExact
  <2>1. tab[m] \subseteq begun
    BY Zenon DEF FileInv, KnownInv
  <2>2. ASSUME ~ failed PROVE acked \subseteq tab[m]
    <3>1. /\ acked \subseteq WholeIn(file, synced) /\ PlaceInv(m)
          /\ synced \in Nat /\ Len(file) \in Nat /\ synced <= Len(file)
      BY <2>2, LenProperties DEF FileInv, LogInv, TypeInv
    <3>2. acked \subseteq WholeIn(file, Len(file))
      BY <3>1, MoreWhole, Zenon
    <3>3. WholeIn(file, Len(file)) \subseteq tab[m]
      BY <3>1, Zenon DEF PlaceInv
    <3> QED BY <3>2, <3>3, Zenon
  <2> QED BY <2>1, <2>2
<1> QED BY <1>1, FileInvariant, PTL

\* Unless a call fails, a log is refused only when a section was cut short or
\* the job header is missing.
THEOREM RefusalsAreTornAlways ==
  ASSUME OneMaster
  PROVE  Spec => []RefusalsAreTorn
<1>1. FileInv => RefusalsAreTorn
  BY Zenon DEF FileInv, LogInv, PlaceInv, RefusalsAreTorn
<1> QED BY <1>1, FileInvariant, PTL

\* Unit n is unit h of section k.
At(f, n, k, h) ==
  /\ Begins(f, k)
  /\ n = 2 * k - 2 + h
  /\ f[n] = [of |-> SecAt(f, k), part |-> h]

\* Every unit of a file that is laid out belongs to some section.
LEMMA LaidAt ==
  ASSUME NEW f \in Seq(Unit), Laid(f), NEW n \in 1 .. Len(f)
  PROVE  \E k \in Nat \ {0}, h \in {1, 2} : At(f, n, k, h)
<1>1. Len(f) \in Nat /\ n \in Nat \ {0} /\ f[n] \in Unit
  BY LenProperties, ElementOfSeq
<1>2. PICK k \in Nat \ {0} : n = 2 * k - 1 \/ n = 2 * k
  BY <1>1, Parity, Zenon
<1>3. Begins(f, k)
  BY <1>1, <1>2 DEF Begins
<1>4. CASE n = 2 * k - 1
  <2>1. f[n].part = 1
    BY <1>3, <1>4, Zenon DEF Laid
  <2>2. f[n] = [of |-> SecAt(f, k), part |-> 1]
    BY <1>1, <1>4, <2>1 DEF Unit, SecAt
  <2>3. n = 2 * k - 2 + 1
    BY <1>4
  <2>4. At(f, n, k, 1)
    BY <1>3, <2>2, <2>3, Zenon DEF At
  <2> QED BY <2>4, Zenon
<1>5. CASE n = 2 * k
  <2>1. Whole(f, k)
    BY <1>5 DEF Whole
  <2>2. f[n] = [of |-> SecAt(f, k), part |-> 2]
    BY <1>5, <2>1, Zenon DEF Laid
  <2>3. n = 2 * k - 2 + 2
    BY <1>5
  <2>4. At(f, n, k, 2)
    BY <1>3, <2>2, <2>3, Zenon DEF At
  <2> QED BY <2>4
<1> QED BY <1>2, <1>4, <1>5, Zenon

\* A file that is laid out is in order.
LEMMA LaidInOrder ==
  ASSUME NEW f \in Seq(Unit), Laid(f)
  PROVE  /\ f # << >> => f[1] = Units(Header)[1]
         /\ \A n \in 1 .. Len(f) - 1 : Follows(f[n], f[n + 1])
         /\ \A a, b \in 1 .. Len(f) : f[a] = f[b] => a = b
         /\ (\E n \in 1 .. Len(f) : f[n].of.kind = "REDUCE")
              => \A i \in Ids("MAP") : <<"MAP", i>> \in Complete(f)
<1>1. Len(f) \in Nat
  BY LenProperties
<1>2. /\ Units(Header)[1] = [of |-> Header, part |-> 1]
      /\ Units(Header)[2] = [of |-> Header, part |-> 2]
      /\ Units(JobHeader)[1] = [of |-> JobHeader, part |-> 1]
  BY UnitsFacts, Zenon DEF Sections
<1>3. \A k \in Nat : Begins(f, k) => /\ k = 1 => SecAt(f, k) = Header
                                     /\ k = 2 => SecAt(f, k) = JobHeader
                                     /\ k >= 3 => SecAt(f, k) \in Records
  BY Zenon DEF Laid
<1>4. f # << >> => f[1] = Units(Header)[1]
  <2> HAVE f # << >>
  <2>1. 1 \in 1 .. Len(f)
    BY <1>1, EmptySeq
  <2>2. PICK k \in Nat \ {0}, h \in {1, 2} : At(f, 1, k, h)
    BY <2>1, LaidAt, Zenon
  <2>3. k = 1 /\ h = 1
    BY <2>2 DEF At
  <2> QED BY <1>2, <1>3, <2>2, <2>3, Zenon DEF At
<1>5. \A n \in 1 .. Len(f) - 1 : Follows(f[n], f[n + 1])
  <2> TAKE n \in 1 .. Len(f) - 1
  <2>1. n \in 1 .. Len(f) /\ n + 1 \in 1 .. Len(f)
    BY <1>1
  <2>2. PICK k \in Nat \ {0}, h \in {1, 2} : At(f, n, k, h)
    BY <2>1, LaidAt
  <2>3. PICK j \in Nat \ {0}, g \in {1, 2} : At(f, n + 1, j, g)
    BY <2>1, LaidAt, Zenon
  <2>4. h = 1 => g = 2 /\ j = k
    BY <2>2, <2>3 DEF At
  <2>5. h = 2 => g = 1 /\ j = k + 1
    BY <2>2, <2>3 DEF At
  <2>6. CASE h = 1
    <3>1. f[n] = [of |-> SecAt(f, k), part |-> 1] /\ f[n + 1] = [of |-> SecAt(f, k), part |-> 2]
      BY <2>2, <2>3, <2>4, <2>6, Zenon DEF At
    <3> QED BY <3>1 DEF Follows
  <2>7. CASE h = 2
    <3>1. /\ f[n] = [of |-> SecAt(f, k), part |-> 2] /\ Begins(f, k)
          /\ f[n + 1] = [of |-> SecAt(f, k + 1), part |-> 1] /\ Begins(f, k + 1)
      BY <2>2, <2>3, <2>5, <2>7, Zenon DEF At
    <3>2. CASE k = 1
      <4>1. SecAt(f, k) = Header /\ SecAt(f, k + 1) = JobHeader
        BY <1>3, <3>1, <3>2
      <4> QED BY <1>2, <3>1, <4>1, Zenon DEF Follows
    <3>3. CASE k >= 2
      <4>1. SecAt(f, k) # Header /\ SecAt(f, k + 1) \in Records
        BY <1>3, <3>1, <3>3, RecordFacts
      <4> QED BY <3>1, <4>1 DEF Follows
    <3> QED BY <3>2, <3>3
  <2> QED BY <2>6, <2>7, Zenon
<1>6. \A a, b \in 1 .. Len(f) : f[a] = f[b] => a = b
  <2> SUFFICES ASSUME NEW a \in 1 .. Len(f), NEW b \in 1 .. Len(f), f[a] = f[b]
               PROVE  a = b
    OBVIOUS
  <2>1. PICK j \in Nat \ {0}, g \in {1, 2} : At(f, a, j, g)
    BY LaidAt, Zenon
  <2>2. PICK k \in Nat \ {0}, h \in {1, 2} : At(f, b, k, h)
    BY LaidAt, Zenon
  <2>3. SecAt(f, j) = SecAt(f, k) /\ g = h
    BY <2>1, <2>2 DEF At
  <2>4. j = k
    BY <2>1, <2>2, <2>3, Zenon DEF At, Laid
  <2> QED BY <2>1, <2>2, <2>3, <2>4, Zenon DEF At
<1>7. ASSUME NEW n \in 1 .. Len(f), f[n].of.kind = "REDUCE", NEW i \in Ids("MAP")
      PROVE  <<"MAP", i>> \in Complete(f)
  <2>1. PICK k \in Nat \ {0}, h \in {1, 2} : At(f, n, k, h)
    BY LaidAt, Zenon
  <2>2. Begins(f, k) /\ f[n].of = SecAt(f, k)
    BY <2>1 DEF At
  <2>3. PICK j \in 3 .. k - 1 : SecAt(f, j) = Record(<<"MAP", i>>)
    BY <1>7, <2>2, Zenon DEF Laid
  <2>4. j \in Nat /\ j >= 3 /\ 2 * j <= Len(f)
    BY <1>1, <2>2 DEF Begins
  <2>5. <<"MAP", i>> \in WholeIn(f, Len(f))
    BY <2>3, <2>4, RecordFacts, Zenon DEF WholeIn
  <2> QED BY <2>5, WholeComplete
<1> QED BY <1>4, <1>5, <1>6, <1>7

\* Unless a call fails, the file is a prefix of the layout of aof.h: nothing is
\* written after a section that a death or a power failure cut short.
THEOREM LogInOrderAlways ==
  ASSUME OneMaster
  PROVE  Spec => []LogInOrder
<1>1. FileInv => LogInOrder
  <2> SUFFICES ASSUME FileInv, ~ failed PROVE LogInOrder
    BY DEF LogInOrder
  <2>1. file \in Seq(Unit) /\ Laid(file)
    BY DEF FileInv, TypeInv, LogInv
  <2> QED BY <2>1, LaidInOrder, Zenon DEF LogInOrder
<1> QED BY <1>1, FileInvariant, PTL
=============================================================================
