---------------------------- MODULE ServerProofs ----------------------------
(***************************************************************************)
(* Proofs about module Server, for every number of descriptors, every      *)
(* frame size and every setting.                                           *)
(***************************************************************************)
EXTENDS Server, SequenceFacts

AnyFrame == [seq : Nat, len : Nat, kind : {"ok", "bad", "reply"}]

Unit == AnyFrame \X Nat

Client ==
  [active : BOOLEAN, buf : Seq(Unit), wbuf : Seq(Unit), woff : Nat, idle : Nat]

Socket ==
  [in : Seq(Unit), out : Seq(Unit), fin : BOOLEAN, rst : BOOLEAN, sent : Nat,
   asked : Seq(AnyFrame), due : Seq(Unit)]

-----------------------------------------------------------------------------
(***************************************************************************)
(* wbuf                                                                    *)
(***************************************************************************)

\* woff points at the first unsent unit of wbuf, which has one unless empty.
WbufOK(c) ==
  /\ c.wbuf = << >> => c.woff = 0
  /\ c.wbuf # << >> => c.woff < Len(c.wbuf)
  /\ Len(c.wbuf) <= WBUF_SIZE

\* d is c with p as its unsent output.
Holds(d, c, p) ==
  /\ d \in Client
  /\ WbufOK(d)
  /\ Pending(d) = p
  /\ d.buf = c.buf /\ d.active = c.active /\ d.idle = c.idle

\* The sizes of server.h: a reply and a frame fit the buffers.
LEMMA Sizes ==
  /\ BufSize \in Nat \ {0} /\ WBUF_SIZE = 2 * BufSize /\ WBUF_SIZE \in Nat
  /\ BufSize = MSG_MAX + FRAME_HDR_SIZE /\ MSG_MAX \in Nat
  /\ ReplySize \in Nat \ {0} /\ ReplySize <= BufSize /\ ReplySize <= WBUF_SIZE
  /\ FRAME_HDR_SIZE \in Nat \ {0} /\ FRAME_HDR_SIZE <= BufSize
  BY ServerAssumption DEF BufSize, WBUF_SIZE, ReplySize

\* A header and n bytes of payload lie within a buffer that is long enough.
LEMMA FrameWithin ==
  ASSUME NEW n \in Nat, NEW l \in Nat, l >= FRAME_HDR_SIZE + n
  PROVE  FRAME_HDR_SIZE + n \in 0 .. l
BY Sizes

\* A frame is a header and its payload.
LEMMA FrameUnitsFacts ==
  ASSUME NEW f \in AnyFrame
  PROVE  /\ FrameUnits(f) \in Seq(Unit)
         /\ Len(FrameUnits(f)) = FRAME_HDR_SIZE + f.len
         /\ FrameUnits(f)[1] = <<f, 1>>
         /\ FrameUnits(f) # << >>
<1>1. PICK n \in Nat \ {0} : n = FRAME_HDR_SIZE + f.len
  BY ServerAssumption DEF AnyFrame
<1>2. FrameUnits(f) = [i \in 1 .. n |-> <<f, i>>]
  BY <1>1 DEF FrameUnits
<1>3. [i \in 1 .. n |-> <<f, i>>] \in [1 .. n -> Unit]
  BY DEF Unit
<1>4. FrameUnits(f) \in Seq(Unit) /\ Len(FrameUnits(f)) = n
  BY <1>2, <1>3
<1>5. FrameUnits(f)[1] = <<f, 1>>
  BY <1>1, <1>2
<1>6. FrameUnits(f) # << >>
  BY <1>1, <1>4, EmptySeq
<1> QED BY <1>1, <1>4, <1>5, <1>6

\* The unsent output of a client is the end of its wbuf.
LEMMA PendingFacts ==
  ASSUME NEW c \in Client, WbufOK(c)
  PROVE  /\ c.wbuf \in Seq(Unit) /\ Len(c.wbuf) \in Nat
         /\ c.woff \in 0 .. Len(c.wbuf)
         /\ Pending(c) = Rest(c.wbuf, c.woff)
         /\ Pending(c) \in Seq(Unit)
         /\ Len(Pending(c)) = Len(c.wbuf) - c.woff
         /\ Len(Pending(c)) \in Nat
         /\ c.wbuf = << >> <=> Pending(c) = << >>
<1>1. PICK w, o, p : w = c.wbuf /\ o = c.woff /\ p = Pending(c)
  OBVIOUS
<1>2. w \in Seq(Unit) /\ o \in Nat /\ Len(w) \in Nat /\ (Len(w) = 0 <=> w = << >>)
  BY <1>1, SeqLen DEF Client
<1>3. o \in 0 .. Len(w) /\ (w # << >> => o < Len(w))
  BY <1>1, <1>2 DEF WbufOK
<1>4. p = Rest(w, o)
  BY <1>1 DEF Pending, Rest
<1>5. p \in Seq(Unit) /\ Len(p) = Len(w) - o
  BY <1>2, <1>3, <1>4, RestFacts
<1>6. Len(p) \in Nat /\ (Len(p) = 0 <=> p = << >>)
  BY <1>5, SeqLen
<1>7. w = << >> <=> p = << >>
  BY <1>2, <1>3, <1>5, <1>6
<1> QED BY <1>1, <1>2, <1>3, <1>4, <1>5, <1>6, <1>7

\* Where the unsent output starts after n units of it were written.
LEMMA AdvancedHolds ==
  ASSUME NEW c \in Client, WbufOK(c), NEW n \in 0 .. Len(Pending(c))
  PROVE  /\ Holds(Advanced(c, n), c, Rest(Pending(c), n))
         /\ Advanced(c, n).wbuf = << >> <=> n = Len(Pending(c))
<1>1. PICK w, o, p : w = c.wbuf /\ o = c.woff /\ p = Pending(c)
  OBVIOUS
<1>2. /\ w \in Seq(Unit) /\ Len(w) \in Nat /\ o \in 0 .. Len(w) /\ p = Rest(w, o)
      /\ p \in Seq(Unit) /\ Len(p) = Len(w) - o /\ n \in 0 .. Len(p)
  BY <1>1, PendingFacts
<1>3. CASE o + n = Len(w)
  <2>1. Advanced(c, n) = [c EXCEPT !.wbuf = << >>, !.woff = 0]
    BY <1>1, <1>3 DEF Advanced
  <2>2. PICK d : d = [c EXCEPT !.wbuf = << >>, !.woff = 0]
    OBVIOUS
  <2>3. d \in Client
    BY <2>2, EmptySeq, Zenon DEF Client
  <2>4. d.wbuf = << >> /\ d.woff = 0
    BY <2>2 DEF Client
  <2>5. d.buf = c.buf /\ d.idle = c.idle
    BY <2>2 DEF Client
  <2>6. d.active = c.active
    BY <2>2 DEF Client
  <2>7. WbufOK(d)
    BY <2>4, Sizes DEF WbufOK
  <2>8. Pending(d) = << >>
    BY <2>3, <2>4, <2>7, PendingFacts
  <2>9. n = Len(p)
    BY <1>2, <1>3
  <2>10. Rest(p, n) = << >>
    BY <1>2, <2>9, RestAll
  <2> QED BY <1>1, <2>1, <2>2, <2>3, <2>4, <2>5, <2>6, <2>7, <2>8, <2>9, <2>10, Zenon DEF Holds
<1>4. CASE o + n # Len(w)
  <2>1. PICK k : k = o + n
    OBVIOUS
  <2>2. k \in Nat /\ k < Len(w) /\ n \in 0 .. Len(w) - o /\ n # Len(p)
    BY <1>2, <1>4, <2>1
  <2>3. Advanced(c, n) = [c EXCEPT !.woff = k]
    BY <1>1, <1>4, <2>1 DEF Advanced
  <2>4. PICK d : d = [c EXCEPT !.woff = k]
    BY Zenon
  <2>5. d \in Client
    BY <2>2, <2>4, Zenon DEF Client
  <2>6. d.wbuf = w /\ d.woff = k
    BY <1>1, <2>4 DEF Client
  <2>7. d.buf = c.buf /\ d.idle = c.idle
    BY <2>4 DEF Client
  <2>8. d.active = c.active
    BY <2>4 DEF Client
  <2>9. w # << >>
    BY <1>2, <2>2, SeqLen
  <2>10. WbufOK(d)
    BY <1>1, <2>2, <2>6, <2>9, Zenon DEF WbufOK
  <2>11. Pending(d) = Rest(w, k)
    BY <2>5, <2>6, <2>10, PendingFacts, Zenon
  <2>12. Rest(p, n) = Rest(w, k)
    BY <1>2, <2>1, <2>2, RestRest, Zenon
  <2> QED BY <1>1, <2>2, <2>3, <2>4, <2>5, <2>6, <2>7, <2>8, <2>9, <2>10, <2>11, <2>12, Zenon DEF Holds
<1> QED BY <1>3, <1>4

\* The memmove of queue_write loses nothing.
LEMMA CompactedHolds ==
  ASSUME NEW c \in Client, WbufOK(c), NEW len
  PROVE  /\ Holds(Compacted(c, len), c, Pending(c))
         /\ Compacted(c, len).wbuf = << >> <=> c.wbuf = << >>
<1>1. PICK p : p = Pending(c)
  OBVIOUS
<1>2. /\ p \in Seq(Unit) /\ Len(p) = Len(c.wbuf) - c.woff /\ Len(p) \in Nat
      /\ Len(c.wbuf) \in Nat /\ c.woff \in 0 .. Len(c.wbuf)
      /\ c.wbuf = << >> <=> p = << >>
      /\ Len(p) = 0 <=> p = << >>
  BY <1>1, PendingFacts, SeqLen
<1>3. CASE Compacted(c, len) = c
  BY <1>3 DEF Holds
<1>4. CASE Compacted(c, len) = [c EXCEPT !.wbuf = p, !.woff = 0]
  <2>1. PICK d : d = [c EXCEPT !.wbuf = p, !.woff = 0]
    OBVIOUS
  <2>2. d \in Client
    BY <1>2, <2>1, Zenon DEF Client
  <2>3. d.wbuf = p /\ d.woff = 0
    BY <2>1 DEF Client
  <2>4. d.buf = c.buf /\ d.idle = c.idle
    BY <2>1 DEF Client
  <2>5. d.active = c.active
    BY <2>1 DEF Client
  <2>6. WbufOK(d)
    <3>1. Len(c.wbuf) <= WBUF_SIZE /\ WBUF_SIZE \in Nat
      BY Sizes DEF WbufOK
    <3>2. Len(p) <= WBUF_SIZE
      BY <1>2, <3>1
    <3>3. p # << >> => 0 < Len(p)
      BY <1>2
    <3> QED BY <2>3, <3>2, <3>3 DEF WbufOK
  <2>7. Pending(d) = Rest(p, 0)
    BY <2>2, <2>3, <2>6, PendingFacts, Zenon
  <2>8. Rest(p, 0) = p
    BY <1>2, RestNone, Zenon
  <2> QED BY <1>1, <1>2, <1>4, <2>1, <2>2, <2>3, <2>4, <2>5, <2>6, <2>7, <2>8, Zenon DEF Holds
<1> QED BY <1>1, <1>3, <1>4 DEF Compacted

\* queue_write adds data to the unsent output, or what the direct write left.
LEMMA QueuedHolds ==
  ASSUME NEW c \in Client, WbufOK(c), NEW data \in Seq(Unit), data # << >>,
         NEW n \in 0 .. Len(data), Len(c.wbuf) + Len(data) <= WBUF_SIZE
  PROVE  /\ c.wbuf = << >> => Holds(Queued(c, data, n), c, Rest(data, n))
         /\ c.wbuf = << >> => (Queued(c, data, n).wbuf = << >> <=> n = Len(data))
         /\ c.wbuf # << >> => Holds(Queued(c, data, n), c, Joined(Pending(c), data))
         /\ c.wbuf # << >> => Queued(c, data, n).wbuf # << >>
<1>1. PICK w, o, p : w = c.wbuf /\ o = c.woff /\ p = Pending(c)
  OBVIOUS
<1>2. /\ w \in Seq(Unit) /\ Len(w) \in Nat /\ o \in 0 .. Len(w) /\ p = Rest(w, o)
      /\ Len(w) = 0 <=> w = << >>
      /\ Len(data) \in Nat \ {0}
      /\ Len(w) + Len(data) <= WBUF_SIZE
  BY <1>1, PendingFacts, SeqLen
<1>3. CASE w = << >>
  <2>1. PICK d : d = [c EXCEPT !.wbuf = data]
    BY Zenon
  <2>2. d \in Client
    BY <2>1, Zenon DEF Client
  <2>3. d.wbuf = data /\ d.woff = 0
    BY <1>1, <1>3, <2>1 DEF Client, WbufOK
  <2>4. d.buf = c.buf /\ d.idle = c.idle
    BY <2>1 DEF Client
  <2>5. d.active = c.active
    BY <2>1 DEF Client
  <2>6. WbufOK(d)
    BY <1>2, <1>3, <2>3 DEF WbufOK
  <2>7. Pending(d) = data
    <3>1. Pending(d) = Rest(data, 0)
      BY <2>2, <2>3, <2>6, PendingFacts
    <3> QED BY <3>1, RestNone
  <2>8. n \in 0 .. Len(Pending(d))
    BY <2>7
  <2>9. /\ Holds(Advanced(d, n), d, Rest(data, n))
        /\ Advanced(d, n).wbuf = << >> <=> n = Len(data)
    BY <2>2, <2>6, <2>7, <2>8, AdvancedHolds, Zenon
  <2>10. Queued(c, data, n) = Advanced(d, n)
    BY <1>1, <1>3, <2>1, Zenon DEF Queued
  <2> QED BY <1>1, <1>3, <2>4, <2>5, <2>9, <2>10, Zenon DEF Holds
<1>4. CASE w # << >>
  <2>1. PICK d, v : d = [c EXCEPT !.wbuf = v] /\ v = Joined(w, data)
    BY Zenon
  <2>2. v \in Seq(Unit) /\ Len(v) = Len(w) + Len(data) /\ (Len(v) = 0 <=> v = << >>)
    <3>1. v \in Seq(Unit) /\ Len(v) = Len(w) + Len(data)
      BY <1>2, <2>1, JoinedFacts
    <3> QED BY <3>1, SeqLen
  <2>3. d \in Client
    BY <2>1, <2>2, Zenon DEF Client
  <2>4. d.wbuf = v /\ d.woff = o
    BY <1>1, <2>1 DEF Client
  <2>5. d.buf = c.buf /\ d.idle = c.idle
    BY <2>1 DEF Client
  <2>6. d.active = c.active
    BY <2>1 DEF Client
  <2>7. WbufOK(d) /\ v # << >>
    <3>1. o < Len(w)
      BY <1>1, <1>4 DEF WbufOK
    <3>2. Len(v) <= WBUF_SIZE /\ o < Len(v) /\ Len(v) # 0
      BY <1>2, <2>2, <3>1
    <3> QED BY <2>2, <2>4, <3>2 DEF WbufOK
  <2>8. Pending(d) = Rest(v, o)
    BY <2>3, <2>4, <2>7, PendingFacts
  <2>9. Rest(v, o) = Joined(p, data)
    BY <1>2, <2>1, RestJoined
  <2>10. Queued(c, data, n) = d
    BY <1>1, <1>4, <2>1 DEF Queued, Joined
  <2> QED BY <1>1, <1>4, <2>3, <2>4, <2>5, <2>6, <2>7, <2>8, <2>9, <2>10, Zenon DEF Holds
<1> QED BY <1>1, <1>3, <1>4

\* on_write moves n units from wbuf into the socket.
LEMMA MovedOut ==
  ASSUME NEW out \in Seq(Unit), NEW p \in Seq(Unit), NEW n \in 0 .. Len(p)
  PROVE  Joined(Joined(out, Start(p, n)), Rest(p, n)) = Joined(out, p)
<1>1. PICK a \in Seq(Unit), b \in Seq(Unit) :
        a = Start(p, n) /\ b = Rest(p, n) /\ Joined(a, b) = p
  BY StartFacts, RestFacts, StartRest
<1>2. Joined(Joined(out, a), b) = Joined(out, Joined(a, b))
  BY JoinedAssoc
<1> QED BY <1>1, <1>2

\* queue_write promises data, of which n units are in the socket at once.
LEMMA QueuedPromised ==
  ASSUME NEW c \in Client, WbufOK(c), NEW out \in Seq(Unit), NEW due,
         Joined(out, Pending(c)) = due,
         NEW data \in Seq(Unit), data # << >>, NEW n \in 0 .. Len(data),
         c.wbuf # << >> => n = 0,
         Len(c.wbuf) + Len(data) <= WBUF_SIZE
  PROVE  Joined(Joined(out, Start(data, n)), Pending(Queued(c, data, n))) = Joined(due, data)
<1>1. CASE c.wbuf = << >>
  <2>1. Pending(c) = << >>
    BY <1>1, PendingFacts
  <2>2. due = out
    BY <2>1, JoinedEmpty
  <2>3. Pending(Queued(c, data, n)) = Rest(data, n)
    BY <1>1, QueuedHolds, Zenon DEF Holds
  <2> QED BY <2>2, <2>3, MovedOut
<1>2. CASE c.wbuf # << >>
  <2>1. Pending(Queued(c, data, n)) = Joined(Pending(c), data)
    BY <1>2, QueuedHolds, Zenon DEF Holds
  <2>2. Start(data, n) = << >>
    BY <1>2, RestAll
  <2>3. Joined(out, << >>) = out
    BY JoinedEmpty
  <2>4. Pending(c) \in Seq(Unit)
    BY PendingFacts
  <2>5. Joined(out, Joined(Pending(c), data)) = Joined(Joined(out, Pending(c)), data)
    BY <2>4, JoinedAssoc
  <2> QED BY <2>1, <2>2, <2>3, <2>5
<1> QED BY <1>1, <1>2

-----------------------------------------------------------------------------
(***************************************************************************)
(* buf                                                                     *)
(***************************************************************************)

Frames(a) == [n \in 1 .. Len(a) |-> FrameUnits(a[n])]

Stream(a) == Flatten(Frames(a))

FramesAt(ff, a) == \A i \in 1 .. Len(a) : ff[i] = FrameUnits(a[i])

\* The frames of a list of requests.
LEMMA FramesFacts ==
  ASSUME NEW a \in Seq(AnyFrame)
  PROVE  /\ Frames(a) \in Seq(Seq(Unit))
         /\ Len(Frames(a)) = Len(a)
         /\ FramesAt(Frames(a), a)
<1>1. PICK n \in Nat : n = Len(a)
  BY LenProperties
<1>2. \A i \in 1 .. n : FrameUnits(a[i]) \in Seq(Unit)
  BY <1>1, ElementOfSeq, FrameUnitsFacts
<1>3. PICK ff : ff = [i \in 1 .. n |-> FrameUnits(a[i])]
  BY Zenon
<1>4. ff \in [1 .. n -> Seq(Unit)] /\ \A i \in 1 .. n : ff[i] = FrameUnits(a[i])
  BY <1>2, <1>3
<1>5. ff \in Seq(Seq(Unit)) /\ Len(ff) = n
  BY <1>4
<1>6. Frames(a) = ff
  BY <1>1, <1>3 DEF Frames
<1> QED BY <1>1, <1>4, <1>5, <1>6 DEF FramesAt

\* The bytes of a list of requests.
LEMMA StreamFacts ==
  /\ \A a \in Seq(AnyFrame) : Stream(a) \in Seq(Unit)
  /\ Stream(<< >>) = << >>
<1>1. ASSUME NEW a \in Seq(AnyFrame) PROVE Stream(a) \in Seq(Unit)
  BY FramesFacts, FlattenType DEF Stream
<1>2. << >> \in Seq(AnyFrame) /\ Len(<< >>) = 0
  BY EmptySeq
<1>3. Frames(<< >>) \in Seq(Seq(Unit)) /\ Len(Frames(<< >>)) = 0
  BY <1>2, FramesFacts, Zenon
<1>4. Frames(<< >>) = << >>
  BY <1>3, SeqLen
<1> QED BY <1>1, <1>4, FlattenEmpty DEF Stream

\* The frames asked for after one more was sent.
LEMMA StreamAppend ==
  ASSUME NEW a \in Seq(AnyFrame), NEW f \in AnyFrame
  PROVE  Stream(Append(a, f)) = Joined(Stream(a), FrameUnits(f))
<1>1. PICK b \in Seq(AnyFrame) : b = Append(a, f)
  BY AppendProperties, Zenon
<1>2. /\ Len(b) = Len(a) + 1 /\ Len(a) \in Nat
      /\ \A i \in 1 .. Len(a) : b[i] = a[i]
      /\ b[Len(a) + 1] = f
  BY <1>1, AppendProperties, LenProperties
<1>3. PICK aa, bb, u, cc : /\ aa = Frames(a) /\ bb = Frames(b) /\ u = FrameUnits(f)
                           /\ cc = Append(aa, u)
  BY Zenon
<1>4. /\ aa \in Seq(Seq(Unit)) /\ Len(aa) = Len(a) /\ FramesAt(aa, a)
      /\ bb \in Seq(Seq(Unit)) /\ Len(bb) = Len(b) /\ FramesAt(bb, b)
      /\ u \in Seq(Unit)
  BY <1>3, FramesFacts, FrameUnitsFacts, Zenon
<1>5. /\ cc \in Seq(Seq(Unit)) /\ Len(cc) = Len(aa) + 1
      /\ \A i \in 1 .. Len(aa) : cc[i] = aa[i]
      /\ cc[Len(aa) + 1] = u
  BY <1>3, <1>4, AppendProperties
<1>6. \A i \in 1 .. Len(bb) : bb[i] = cc[i]
  <2> TAKE i \in 1 .. Len(bb)
  <2>1. CASE i = Len(a) + 1
    BY <1>2, <1>3, <1>4, <1>5, <2>1, Zenon DEF FramesAt
  <2>2. CASE i \in 1 .. Len(a)
    BY <1>2, <1>4, <1>5, <2>2, Zenon DEF FramesAt
  <2> QED BY <1>2, <1>4, <2>1, <2>2
<1>7. bb = cc
  BY <1>2, <1>4, <1>5, <1>6, SeqEqual
<1>8. Flatten(cc) = Joined(Flatten(aa), u)
  BY <1>3, <1>4, FlattenAppend, Zenon
<1> QED BY <1>1, <1>3, <1>7, <1>8 DEF Stream

\* The first of them, and the others.
LEMMA StreamFirst ==
  ASSUME NEW a \in Seq(AnyFrame), a # << >>
  PROVE  /\ Rest(a, 1) \in Seq(AnyFrame)
         /\ a[1] \in AnyFrame
         /\ Stream(a) = Joined(FrameUnits(a[1]), Stream(Rest(a, 1)))
<1>1. Len(a) \in Nat \ {0}
  BY EmptySeq
<1>2. PICK b : b = Rest(a, 1)
  OBVIOUS
<1>3. b \in Seq(AnyFrame) /\ Len(b) = Len(a) - 1 /\ RestAt(b, a, 1)
  BY <1>1, <1>2, RestFacts
<1>4. a[1] \in AnyFrame
  <2>1. 1 \in 1 .. Len(a)
    BY <1>1
  <2> QED BY <2>1, ElementOfSeq
<1>5. PICK aa, bb, u, cc, one :
        /\ aa = Frames(a) /\ bb = Frames(b) /\ u = FrameUnits(a[1])
        /\ one = <<u>> /\ cc = Joined(one, bb)
  BY Zenon
<1>6. /\ aa \in Seq(Seq(Unit)) /\ Len(aa) = Len(a) /\ FramesAt(aa, a)
      /\ bb \in Seq(Seq(Unit)) /\ Len(bb) = Len(b) /\ FramesAt(bb, b)
      /\ u \in Seq(Unit)
  BY <1>3, <1>4, <1>5, FramesFacts, FrameUnitsFacts, Zenon
<1>7. one \in Seq(Seq(Unit)) /\ Len(one) = 1 /\ one[1] = u
  BY <1>5, <1>6
<1>8. cc \in Seq(Seq(Unit)) /\ Len(cc) = 1 + Len(bb) /\ JoinedAt(cc, one, bb)
  BY <1>5, <1>6, <1>7, JoinedFacts, Zenon
<1>9. \A i \in 1 .. Len(aa) : aa[i] = cc[i]
  <2> TAKE i \in 1 .. Len(aa)
  <2>1. CASE i = 1
    <3>1. 1 \in 1 .. Len(one) /\ 1 \in 1 .. Len(a)
      BY <1>1, <1>7
    <3> QED BY <1>5, <1>6, <1>7, <1>8, <2>1, <3>1, Zenon DEF JoinedAt, FramesAt
  <2>2. CASE i # 1
    <3>1. PICK k \in 1 .. Len(bb) : i = 1 + k /\ k \in 1 .. Len(a) - 1 /\ k \in 1 .. Len(b)
                                    /\ i \in 1 .. Len(a)
      <4>1. /\ i - 1 \in 1 .. Len(bb) /\ i = 1 + (i - 1) /\ i - 1 \in 1 .. Len(a) - 1
            /\ i - 1 \in 1 .. Len(b) /\ i \in 1 .. Len(a)
        BY <1>1, <1>3, <1>6, <2>2
      <4> QED BY <4>1
    <3>2. cc[1 + k] = bb[k]
      BY <1>7, <1>8, <3>1 DEF JoinedAt
    <3>3. bb[k] = FrameUnits(b[k]) /\ b[k] = a[1 + k] /\ aa[i] = FrameUnits(a[i])
      BY <1>3, <1>6, <3>1, Zenon DEF FramesAt, RestAt
    <3> QED BY <3>1, <3>2, <3>3
  <2> QED BY <2>1, <2>2
<1>10. Len(aa) = Len(cc)
  BY <1>1, <1>3, <1>6, <1>8
<1>11. aa = cc
  BY <1>6, <1>8, <1>9, <1>10, SeqEqual, Zenon
<1>12. Flatten(cc) = Joined(u, Flatten(bb))
  BY <1>5, <1>6, FlattenFirst
<1> QED BY <1>2, <1>3, <1>4, <1>5, <1>11, <1>12, Zenon DEF Stream

\* A non-empty read buffer starts with the first frame that was asked for,
\* and taking it off keeps the rest in place.
LEMMA FirstFrame ==
  ASSUME NEW buf \in Seq(Unit), NEW in \in Seq(Unit), NEW a \in Seq(AnyFrame),
         Joined(buf, in) = Stream(a), buf # << >>
  PROVE  /\ a # << >> /\ a[1] \in AnyFrame
         /\ buf[1][1] = a[1]
         /\ Len(buf) >= FRAME_HDR_SIZE + a[1].len =>
              Joined(Rest(buf, FRAME_HDR_SIZE + a[1].len), in) = Stream(Rest(a, 1))
<1>1. PICK j : j = Joined(buf, in)
  OBVIOUS
<1>2. /\ Len(buf) \in Nat \ {0} /\ Len(in) \in Nat
      /\ Len(j) = Len(buf) + Len(in) /\ JoinedAt(j, buf, in)
  BY <1>1, EmptySeq, LenProperties, JoinedFacts
<1>3. a # << >>
  <2>1. a = << >> => Len(j) = 0
    BY <1>1, StreamFacts
  <2>2. Len(j) # 0
    BY <1>2
  <2> QED BY <2>1, <2>2
<1>4. PICK u, t : u = FrameUnits(a[1]) /\ t = Stream(Rest(a, 1))
  OBVIOUS
<1>5. a[1] \in AnyFrame /\ j = Joined(u, t) /\ t \in Seq(Unit)
  BY <1>1, <1>3, <1>4, StreamFirst, StreamFacts, Zenon
<1>6. /\ u \in Seq(Unit) /\ Len(u) = FRAME_HDR_SIZE + a[1].len /\ u[1] = <<a[1], 1>>
      /\ Len(u) \in Nat \ {0}
  BY <1>4, <1>5, FrameUnitsFacts, EmptySeq, Zenon
<1>7. buf[1] = u[1]
  <2>1. JoinedAt(j, u, t)
    BY <1>5, <1>6, JoinedFacts
  <2>2. 1 \in 1 .. Len(buf) /\ 1 \in 1 .. Len(u)
    BY <1>2, <1>6
  <2> QED BY <1>2, <2>1, <2>2 DEF JoinedAt
<1>8. ASSUME Len(buf) >= Len(u) PROVE Joined(Rest(buf, Len(u)), in) = t
  <2>1. Len(u) \in 0 .. Len(buf)
    BY <1>2, <1>6, <1>8
  <2>2. Rest(j, Len(u)) = Joined(Rest(buf, Len(u)), in)
    BY <1>1, <2>1, RestJoined
  <2>3. Rest(j, Len(u)) = t
    BY <1>5, <1>6, RestOfJoined, Zenon
  <2> QED BY <2>2, <2>3
<1>9. buf[1][1] = a[1]
  BY <1>6, <1>7
<1> QED BY <1>3, <1>4, <1>5, <1>6, <1>8, <1>9, Zenon
-----------------------------------------------------------------------------
(***************************************************************************)
(* The invariant                                                           *)
(***************************************************************************)

\* process_buffer has nothing to do with what is in the buffer.
Waits(c) == HasHeader(c) => ~ Oversize(c) /\ ~ Whole(c)

\* Both directions of a connection are in step: what is on its way to the
\* peer is what it was promised, what came from it is what it asked.
Talks(c, s, room) ==
  /\ Joined(s.out, Pending(c)) = s.due
  /\ Len(s.out) <= room
  /\ Joined(c.buf, s.in) = Stream(s.asked)

\* A write handler is there for unsent output, and there is one for it unless
\* kevent may have refused it.
Drains(fd, handlers, c, e) ==
  /\ fd \in handlers => c.wbuf # << >>
  /\ c.wbuf # << >> => fd \in handlers \/ e.kernel_fails

TypeInv ==
  /\ clients \in [Fds -> Client]
  /\ sock \in [Fds -> Socket]
  /\ rd \in SUBSET Fds /\ wr \in SUBSET Fds
  /\ busy \in Fds \cup {NoFd}
  /\ env \in Settings

\* What is known of a descriptor: of one with a client, and of one without.
ConnInv(fd) ==
  /\ clients[fd].active =>
       /\ WbufOK(clients[fd])
       /\ fd < MAX_FDS
       /\ fd \in rd
       /\ Drains(fd, wr, clients[fd], env)
       /\ fd # busy => Waits(clients[fd])
       /\ status = "running" => Talks(clients[fd], sock[fd], env.sndbuf)
  /\ ~ clients[fd].active =>
       /\ fd \notin rd /\ fd \notin wr
       /\ fd # busy
       /\ sock[fd] = NoSocket

ServerInv == TypeInv /\ \A fd \in Fds : ConnInv(fd)

-----------------------------------------------------------------------------

\* What a free descriptor and a new connection start from.
LEMMA Blank ==
  /\ NoClient \in Client /\ ~ NoClient.active
  /\ NewClient \in Client /\ NewClient.active
  /\ NewClient.buf = << >> /\ NewClient.wbuf = << >> /\ NewClient.woff = 0
  /\ NoSocket \in Socket
  /\ NoSocket.in = << >> /\ NoSocket.out = << >>
  /\ NoSocket.asked = << >> /\ NoSocket.due = << >> /\ ~ NoSocket.rst /\ ~ NoSocket.fin
<1>1. << >> \in Seq(Unit) /\ << >> \in Seq(AnyFrame)
  BY EmptySeq
<1>2. NoClient \in Client /\ ~ NoClient.active
  BY <1>1 DEF NoClient, Client
<1>3. NewClient \in Client
  BY <1>1, Zenon DEF NoClient, NewClient, Client
<1>4. NewClient.active
  BY DEF NoClient, NewClient
<1>5. NewClient.buf = << >> /\ NewClient.wbuf = << >> /\ NewClient.woff = 0
  BY DEF NoClient, NewClient
<1>6. NoSocket \in Socket
  BY <1>1 DEF NoSocket, Socket
<1>7. /\ NoSocket.in = << >> /\ NoSocket.out = << >>
      /\ NoSocket.asked = << >> /\ NoSocket.due = << >> /\ ~ NoSocket.rst /\ ~ NoSocket.fin
  BY DEF NoSocket
<1> QED BY <1>2, <1>3, <1>4, <1>5, <1>6, <1>7, Zenon

\* The types of a setting.
LEMMA EnvFacts ==
  ASSUME NEW e \in Settings
  PROVE  /\ e \in Setting /\ e.sndbuf \in Nat /\ e.lens \subseteq Nat /\ e.window \in Nat
         /\ e.kinds \subseteq {"ok", "bad"}
  BY ServerAssumption DEF Setting

\* NoFd is no descriptor.
LEMMA NoFdNot == NoFd \notin Fds
  BY ServerAssumption DEF NoFd

\* The connection of descriptor g is not touched.
Untouched(g) ==
  /\ clients'[g] = clients[g]
  /\ sock'[g] = sock[g]
  /\ g \in rd' <=> g \in rd
  /\ g \in wr' <=> g \in wr
  /\ g = busy' <=> g = busy

\* A step that does not touch a descriptor keeps its part of the invariant.
LEMMA UntouchedConn ==
  ASSUME NEW g \in Fds, ConnInv(g), Untouched(g), env' = env,
         status' = "running" => status = "running"
  PROVE  ConnInv(g)'
  BY DEF ConnInv, Untouched, Drains, Waits, HasHeader, Oversize, Whole, First, Talks, WbufOK, Pending

\* The descriptors are as they were.
LEMMA NothingMoves ==
  ASSUME ServerInv, UNCHANGED <<clients, rd, wr, busy, sock, env>>,
         status' = "running" => status = "running"
  PROVE  ServerInv'
<1>1. TypeInv'
  BY DEF ServerInv, TypeInv
<1>2. ASSUME NEW g \in Fds PROVE ConnInv(g)'
  <2>1. ConnInv(g) /\ Untouched(g)
    BY DEF ServerInv, Untouched
  <2> QED BY <2>1, UntouchedConn
<1> QED BY <1>1, <1>2 DEF ServerInv

\* A descriptor that was closed satisfies the invariant.
LEMMA ClosedConn ==
  ASSUME NEW g \in Fds, clients'[g] = NoClient, sock'[g] = NoSocket,
         g \notin rd', g \notin wr', g # busy'
  PROVE  ConnInv(g)'
  BY Blank DEF ConnInv

\* Connections are closed between two handlers, or that of the busy client.
LEMMA ClosedInv ==
  ASSUME ServerInv, NEW fds \in SUBSET Fds, NEW k, Closed(fds, k),
         busy \in fds \cup {NoFd}, busy' = NoFd,
         UNCHANGED <<status, env>>
  PROVE  ServerInv'
<1>1. /\ clients' = [fd \in Fds |-> IF fd \in fds THEN NoClient ELSE clients[fd]]
      /\ sock' = [fd \in Fds |-> IF fd \in fds THEN NoSocket ELSE sock[fd]]
      /\ rd' = rd \ fds /\ wr' = wr \ fds
  BY DEF Closed
<1>2. TypeInv'
  <2>1. clients' \in [Fds -> Client]
    BY <1>1, Blank, Zenon DEF ServerInv, TypeInv
  <2>2. sock' \in [Fds -> Socket]
    BY <1>1, Blank DEF ServerInv, TypeInv
  <2>3. rd' \in SUBSET Fds /\ wr' \in SUBSET Fds /\ busy' \in Fds \cup {NoFd} /\ env' \in Settings
    BY <1>1 DEF ServerInv, TypeInv
  <2> QED BY <2>1, <2>2, <2>3, Zenon DEF TypeInv
<1>3. ASSUME NEW g \in Fds PROVE ConnInv(g)'
  <2>1. CASE g \in fds
    <3>1. clients'[g] = NoClient /\ sock'[g] = NoSocket /\ g \notin rd' /\ g \notin wr' /\ g # busy'
      BY <1>1, <2>1, NoFdNot
    <3> QED BY <3>1, ClosedConn
  <2>2. CASE g \notin fds
    <3>1. Untouched(g)
      BY <1>1, <2>2, NoFdNot DEF Untouched
    <3>2. ConnInv(g)
      BY DEF ServerInv
    <3> QED BY <3>1, <3>2, UntouchedConn, Zenon
  <2> QED BY <2>1, <2>2, Zenon
<1> QED BY <1>2, <1>3 DEF ServerInv

\* The connection of fd becomes d and t, and no other is touched.
Becomes(fd, d, t) ==
  /\ clients' = [clients EXCEPT ![fd] = d]
  /\ sock' = [sock EXCEPT ![fd] = t]
  /\ \A g \in Fds \ {fd} : /\ g \in rd' <=> g \in rd
                           /\ g \in wr' <=> g \in wr
                           /\ g = busy' <=> g = busy
  /\ rd' \in SUBSET Fds /\ wr' \in SUBSET Fds
  /\ busy' \in Fds \cup {NoFd}
  /\ status' = status /\ env' = env

\* A step that changes one client keeps the invariant if the client's new state does.
LEMMA BecomesInv ==
  ASSUME ServerInv, NEW fd \in Fds, NEW d \in Client, NEW t \in Socket, Becomes(fd, d, t),
         d.active, WbufOK(d), fd < MAX_FDS, fd \in rd',
         Drains(fd, wr', d, env),
         fd # busy' => Waits(d),
         status = "running" => Talks(d, t, env.sndbuf)
  PROVE  ServerInv'
<1>1. /\ clients' = [clients EXCEPT ![fd] = d]
      /\ sock' = [sock EXCEPT ![fd] = t]
      /\ clients \in [Fds -> Client] /\ sock \in [Fds -> Socket]
  BY Zenon DEF Becomes, ServerInv, TypeInv
<1>2. clients'[fd] = d /\ sock'[fd] = t
  BY <1>1, Zenon
<1>3. \A g \in Fds \ {fd} : clients'[g] = clients[g] /\ sock'[g] = sock[g]
  BY <1>1
<1>4. TypeInv'
  <2>1. clients' \in [Fds -> Client]
    BY <1>1, Zenon
  <2>2. sock' \in [Fds -> Socket]
    BY <1>1, Zenon
  <2>3. rd' \in SUBSET Fds /\ wr' \in SUBSET Fds /\ busy' \in Fds \cup {NoFd} /\ env' \in Settings
    BY Zenon DEF ServerInv, TypeInv, Becomes
  <2> QED BY <2>1, <2>2, <2>3, Zenon DEF TypeInv
<1>5. ASSUME NEW g \in Fds \ {fd} PROVE ConnInv(g)'
  <2>1. Untouched(g)
    BY <1>3, Zenon DEF Untouched, Becomes
  <2>2. ConnInv(g) /\ env' = env /\ (status' = "running" => status = "running")
    BY Zenon DEF ServerInv, Becomes
  <2> QED BY <2>1, <2>2, UntouchedConn, Zenon
<1>6. ConnInv(fd)'
  <2>1. status' = status /\ env' = env
    BY DEF Becomes
  <2>2. ~ (~ clients'[fd].active)
    BY <1>2, Zenon
  <2>3. /\ WbufOK(clients'[fd])
        /\ Drains(fd, wr', clients'[fd], env')
        /\ fd # busy' => Waits(clients'[fd])
        /\ status' = "running" => Talks(clients'[fd], sock'[fd], env'.sndbuf)
    BY <1>2, <2>1, Zenon
  <2> QED BY <2>2, <2>3, Zenon DEF ConnInv, Drains, WbufOK, Waits, HasHeader, Oversize, Whole, First,
                                   Talks, Pending
<1> QED BY <1>4, <1>5, <1>6, Zenon DEF ServerInv
-----------------------------------------------------------------------------
(***************************************************************************)
(* One step, by the action it is                                           *)
(***************************************************************************)

\* Whether a client waits for bytes depends on its read buffer only.
LEMMA SameBufWaits ==
  ASSUME NEW c, NEW d, d.buf = c.buf, Waits(c)
  PROVE  Waits(d)
  BY DEF Waits, HasHeader, Oversize, Whole, First

\* What write(2) moves is there, and fits the socket.
LEMMA WritableFacts ==
  ASSUME NEW fd, NEW data \in Seq(Unit), sock[fd].out \in Seq(Unit), env \in Settings,
         Len(sock[fd].out) <= env.sndbuf, NEW n \in Writable(fd, data)
  PROVE  n \in 0 .. Len(data) /\ Len(sock[fd].out) + n <= env.sndbuf
<1>1. PICK l, o, b : l = Len(data) /\ o = Len(sock[fd].out) /\ b = env.sndbuf
  BY Zenon
<1>2. l \in Nat /\ o \in Nat /\ b \in Nat /\ o <= b
  BY <1>1, SeqLen, EnvFacts, Zenon
<1>3. n = 0 \/ n = (IF l < b - o THEN l ELSE b - o)
  BY <1>1 DEF Writable
<1>4. n \in 0 .. l /\ o + n <= b
  BY <1>2, <1>3
<1> QED BY <1>1, <1>4

\* What the invariant says of one descriptor.
LEMMA ClientOf ==
  ASSUME ServerInv, NEW fd \in Fds
  PROVE  /\ clients[fd] \in Client /\ sock[fd] \in Socket
         /\ ConnInv(fd)
         /\ clients[fd].buf \in Seq(Unit) /\ clients[fd].active \in BOOLEAN
         /\ sock[fd].in \in Seq(Unit) /\ sock[fd].out \in Seq(Unit) /\ sock[fd].due \in Seq(Unit)
         /\ sock[fd].asked \in Seq(AnyFrame) /\ sock[fd].sent \in Nat
<1>1. clients[fd] \in Client /\ sock[fd] \in Socket /\ ConnInv(fd)
  BY Zenon DEF ServerInv, TypeInv
<1>2. clients[fd].buf \in Seq(Unit) /\ clients[fd].active \in BOOLEAN
  BY <1>1, Zenon DEF Client
<1>3. /\ sock[fd].in \in Seq(Unit) /\ sock[fd].out \in Seq(Unit) /\ sock[fd].due \in Seq(Unit)
      /\ sock[fd].asked \in Seq(AnyFrame) /\ sock[fd].sent \in Nat
  BY <1>1, Zenon DEF Socket
<1> QED BY <1>1, <1>2, <1>3, Zenon

\* Only clients have handlers, and only a client is busy.
LEMMA HandledActive ==
  ASSUME ServerInv, NEW fd \in Fds, fd \in rd \/ fd \in wr \/ fd = busy
  PROVE  clients[fd].active
  BY ClientOf DEF ConnInv

\* on_read, when the socket has data.
LEMMA ReadStep ==
  ASSUME ServerInv, NEW fd \in Fds, NEW n, on_read_data(fd, n)
  PROVE  ServerInv'
<1>1. PICK c, s, b, r, d, t :
        /\ c = clients[fd] /\ s = sock[fd]
        /\ b = Joined(c.buf, Start(s.in, n)) /\ r = Rest(s.in, n)
        /\ d = [c EXCEPT !.buf = b, !.idle = 0] /\ t = [s EXCEPT !.in = r]
  BY Zenon
<1>2. /\ fd \in rd /\ status = "running" /\ busy = NoFd /\ busy' = fd
      /\ n \in 0 .. Len(s.in)
      /\ clients' = [clients EXCEPT ![fd].buf = @ \o SubSeq(sock[fd].in, 1, n), ![fd].idle = 0]
      /\ sock' = [sock EXCEPT ![fd].in = SubSeq(@, n + 1, Len(@))]
      /\ UNCHANGED <<rd, wr, status, env>>
  BY <1>1, Sizes DEF on_read_data, Dispatch, signalVars
<1>3. /\ c \in Client /\ s \in Socket /\ c.buf \in Seq(Unit) /\ s.in \in Seq(Unit)
      /\ s.asked \in Seq(AnyFrame) /\ c.active
  BY <1>1, <1>2, ClientOf, HandledActive, Zenon
<1>4. /\ WbufOK(c) /\ fd < MAX_FDS /\ Drains(fd, wr, c, env) /\ Talks(c, s, env.sndbuf)
  BY <1>1, <1>2, <1>3, ClientOf, Zenon DEF ConnInv
<1>5. b \in Seq(Unit) /\ r \in Seq(Unit) /\ Joined(b, r) = Joined(c.buf, s.in)
  <2>1. Start(s.in, n) \in Seq(Unit) /\ r \in Seq(Unit)
    BY <1>1, <1>2, <1>3, StartFacts, RestFacts, Zenon
  <2>2. Joined(b, r) = Joined(c.buf, s.in)
    BY <1>1, <1>2, <1>3, MovedOut, Zenon
  <2> QED BY <1>1, <1>3, <2>1, <2>2, JoinedFacts, Zenon
<1>6. d \in Client
  BY <1>1, <1>3, <1>5, Zenon DEF Client
<1>7. d.buf = b /\ d.wbuf = c.wbuf /\ d.woff = c.woff
  BY <1>1, <1>3 DEF Client
<1>8. d.active = c.active
  BY <1>1, <1>3, Zenon DEF Client
<1>9. t \in Socket
  BY <1>1, <1>3, <1>5, Zenon DEF Socket
<1>10. t.in = r /\ t.out = s.out /\ t.due = s.due /\ t.asked = s.asked
  BY <1>1, <1>3, Zenon DEF Socket
<1>11. WbufOK(d) /\ Pending(d) = Pending(c)
  BY <1>4, <1>7, Zenon DEF WbufOK, Pending
<1>12. Talks(d, t, env.sndbuf)
  BY <1>4, <1>5, <1>7, <1>10, <1>11, Zenon DEF Talks
<1>13. Becomes(fd, d, t)
  <2>1. clients' = [clients EXCEPT ![fd] = d]
    BY <1>1, <1>2, Zenon DEF Joined, Start
  <2>2. sock' = [sock EXCEPT ![fd] = t]
    BY <1>1, <1>2, Zenon DEF Rest
  <2>3. \A g \in Fds \ {fd} : /\ g \in rd' <=> g \in rd
                              /\ g \in wr' <=> g \in wr
                              /\ g = busy' <=> g = busy
    BY <1>2, NoFdNot, Zenon
  <2>4. rd' \in SUBSET Fds /\ wr' \in SUBSET Fds /\ busy' \in Fds \cup {NoFd}
    BY <1>2 DEF ServerInv, TypeInv
  <2> QED BY <1>2, <2>1, <2>2, <2>3, <2>4, Zenon DEF Becomes
<1>14. Drains(fd, wr', d, env)
  BY <1>2, <1>4, <1>7, Zenon DEF Drains
<1> QED
  BY <1>2, <1>3, <1>4, <1>6, <1>8, <1>9, <1>11, <1>12, <1>13, <1>14, BecomesInv, Zenon

\* t is s with the first n units of data added to what goes to the peer.
Sent(t, s, data, n) ==
  /\ t \in Socket
  /\ t.out = Joined(s.out, Start(data, n)) /\ Len(t.out) = Len(s.out) + n
  /\ t.in = s.in /\ t.due = s.due /\ t.asked = s.asked
  /\ t.fin = s.fin /\ t.sent = s.sent
  /\ t.rst => s.rst \/ s.fin

\* The socket after a write of the first n units.
LEMMA WrittenFacts ==
  ASSUME NEW s \in Socket, NEW data \in Seq(Unit), NEW n \in 0 .. Len(data)
  PROVE  Sent(Written(s, data, n), s, data, n)
<1>1. PICK t, o, r : /\ o = Joined(s.out, Start(data, n)) /\ r = (s.rst \/ (s.fin /\ n > 0))
                     /\ t = [s EXCEPT !.out = o, !.rst = r]
  BY Zenon
<1>2. s.out \in Seq(Unit) /\ s.rst \in BOOLEAN
  BY DEF Socket
<1>3. r \in BOOLEAN
  BY <1>1, <1>2
<1>4. o \in Seq(Unit) /\ Len(o) = Len(s.out) + n
  <2>1. Start(data, n) \in Seq(Unit) /\ Len(Start(data, n)) = n
    BY StartFacts
  <2> QED BY <1>1, <1>2, <2>1, JoinedFacts, Zenon
<1>5. t \in Socket
  BY <1>1, <1>3, <1>4, Zenon DEF Socket
<1>6. t.out = o /\ t.in = s.in /\ t.due = s.due /\ t.asked = s.asked
  BY <1>1 DEF Socket
<1>7. Written(s, data, n) = t
  BY <1>1 DEF Written, Joined, Start
<1>8. t.sent = s.sent
  BY <1>1 DEF Socket
<1>9. t.fin = s.fin
  BY <1>1 DEF Socket
<1>10. t.rst => s.rst \/ s.fin
  <2>1. t.rst = r
    BY <1>1 DEF Socket
  <2> QED BY <1>1, <2>1, Zenon
<1> QED BY <1>1, <1>4, <1>5, <1>6, <1>7, <1>8, <1>9, <1>10, Zenon DEF Sent

\* on_write, when the socket takes some of the output.
LEMMA WriteStep ==
  ASSUME ServerInv, NEW fd \in Fds, NEW n, on_write(fd, n)
  PROVE  ServerInv'
<1>1. PICK c, s, p, d, t :
        /\ c = clients[fd] /\ s = sock[fd] /\ p = Pending(c)
        /\ d = Advanced(c, n) /\ t = Written(s, p, n)
  OBVIOUS
<1>2. /\ fd \in wr /\ status = "running" /\ busy = NoFd
      /\ n \in Writable(fd, p)
      /\ clients' = [clients EXCEPT ![fd] = d]
      /\ sock' = [sock EXCEPT ![fd] = t]
      /\ wr' = IF n = Len(p) THEN wr \ {fd} ELSE wr
      /\ busy' = IF n = Len(p) THEN fd ELSE NoFd
      /\ UNCHANGED <<rd, status, env>>
  BY <1>1, Zenon DEF on_write, Dispatch, signalVars
<1>3. /\ c \in Client /\ s \in Socket /\ s.out \in Seq(Unit) /\ c.active /\ env \in Settings
  BY <1>1, <1>2, ClientOf, HandledActive, Zenon DEF ServerInv, TypeInv
<1>4. /\ WbufOK(c) /\ fd < MAX_FDS /\ fd \in rd /\ Waits(c) /\ Talks(c, s, env.sndbuf)
      /\ Drains(fd, wr, c, env)
  BY <1>1, <1>2, <1>3, ClientOf, NoFdNot, Zenon DEF ConnInv
<1>5. p \in Seq(Unit)
  BY <1>1, <1>3, <1>4, PendingFacts, Zenon
<1>6. n \in 0 .. Len(p) /\ Len(s.out) + n <= env.sndbuf
  BY <1>1, <1>2, <1>3, <1>4, <1>5, WritableFacts, Zenon DEF Talks
<1>7. /\ d \in Client /\ WbufOK(d) /\ Pending(d) = Rest(p, n)
      /\ d.buf = c.buf /\ d.active = c.active
      /\ d.wbuf = << >> <=> n = Len(p)
  BY <1>1, <1>3, <1>4, <1>6, AdvancedHolds, Zenon DEF Holds
<1>8. /\ t \in Socket /\ t.out = Joined(s.out, Start(p, n)) /\ Len(t.out) = Len(s.out) + n
      /\ t.in = s.in /\ t.due = s.due /\ t.asked = s.asked
  <2>1. Sent(t, s, p, n)
    BY <1>1, <1>3, <1>5, <1>6, WrittenFacts, Zenon
  <2> QED BY <2>1, Zenon DEF Sent
<1>9. Joined(t.out, Pending(d)) = Joined(s.out, p)
  BY <1>3, <1>5, <1>6, <1>7, <1>8, MovedOut
<1>10. Talks(d, t, env.sndbuf)
  BY <1>1, <1>4, <1>6, <1>7, <1>8, <1>9, Zenon DEF Talks
<1>11. Waits(d)
  BY <1>4, <1>7, SameBufWaits, Zenon
<1>12. Becomes(fd, d, t)
  <2>1. \A g \in Fds \ {fd} : /\ g \in rd' <=> g \in rd
                              /\ g \in wr' <=> g \in wr
                              /\ g = busy' <=> g = busy
    BY <1>2, NoFdNot, Zenon
  <2>2. rd' \in SUBSET Fds /\ wr' \in SUBSET Fds /\ busy' \in Fds \cup {NoFd}
    BY <1>2, Zenon DEF ServerInv, TypeInv
  <2> QED BY <1>2, <2>1, <2>2, Zenon DEF Becomes
<1>13. fd \in rd' /\ Drains(fd, wr', d, env)
  BY <1>2, <1>4, <1>7, Zenon DEF Drains
<1> QED
  BY <1>3, <1>4, <1>7, <1>8, <1>10, <1>11, <1>12, <1>13, BecomesInv, Zenon

\* The frame process_buffer finds first is the first one the peer asked.
LEMMA FirstAsked ==
  ASSUME ServerInv, NEW fd \in Fds, clients[fd].active, status = "running",
         HasHeader(clients[fd])
  PROVE  /\ sock[fd].asked # << >>
         /\ First(clients[fd]) = sock[fd].asked[1]
         /\ First(clients[fd]) \in AnyFrame
         /\ Whole(clients[fd]) =>
              /\ FRAME_HDR_SIZE + First(clients[fd]).len \in 0 .. Len(clients[fd].buf)
              /\ Joined(Rest(clients[fd].buf, FRAME_HDR_SIZE + First(clients[fd]).len), sock[fd].in)
                   = Stream(Rest(sock[fd].asked, 1))
<1>1. PICK buf, in, a : buf = clients[fd].buf /\ in = sock[fd].in /\ a = sock[fd].asked
  BY Zenon
<1>2. buf \in Seq(Unit) /\ in \in Seq(Unit) /\ a \in Seq(AnyFrame)
  BY <1>1, ClientOf, Zenon
<1>3. Joined(buf, in) = Stream(a)
  BY <1>1, ClientOf DEF ConnInv, Talks
<1>4. Len(buf) \in Nat /\ buf # << >>
  <2>1. Len(buf) >= FRAME_HDR_SIZE /\ Len(buf) \in Nat /\ (Len(buf) = 0 <=> buf = << >>)
    BY <1>1, <1>2, SeqLen, Zenon DEF HasHeader
  <2> QED BY <2>1, Sizes
<1>5. /\ a # << >> /\ a[1] \in AnyFrame /\ buf[1][1] = a[1]
      /\ Len(buf) >= FRAME_HDR_SIZE + a[1].len =>
           Joined(Rest(buf, FRAME_HDR_SIZE + a[1].len), in) = Stream(Rest(a, 1))
  BY <1>2, <1>3, <1>4, FirstFrame
<1>6. First(clients[fd]) = a[1]
  BY <1>1, <1>5, Zenon DEF First
<1>7. a[1].len \in Nat
  BY <1>5, Zenon DEF AnyFrame
<1>8. Whole(clients[fd]) => Len(buf) >= FRAME_HDR_SIZE + a[1].len
  BY <1>1, <1>6, Zenon DEF Whole
<1>9. Whole(clients[fd]) => FRAME_HDR_SIZE + a[1].len \in 0 .. Len(buf)
  BY <1>4, <1>7, <1>8, FrameWithin, Zenon
<1> QED BY <1>1, <1>5, <1>6, <1>8, <1>9, Zenon

\* The size of a reply.
LEMMA ReplyFacts ==
  ASSUME NEW f \in AnyFrame
  PROVE  /\ FrameUnits(Reply(f)) \in Seq(Unit) /\ FrameUnits(Reply(f)) # << >>
         /\ Len(FrameUnits(Reply(f))) = ReplySize
<1>1. Reply(f) \in AnyFrame /\ Reply(f).len = ReplyLen
  BY ServerAssumption DEF Reply, AnyFrame
<1> QED BY <1>1, FrameUnitsFacts, Zenon DEF ReplySize

\* process_buffer with a whole frame: dispatch, server_send, queue_write.
LEMMA AnswerStep ==
  ASSUME ServerInv, status = "running", NEW n, process_buffer_answers(n)
  PROVE  ServerInv'
<1>1. PICK fd, c, s, c1, u, c2, a, b, e, w, d, t :
        /\ fd = busy /\ c = clients[fd] /\ s = sock[fd]
        /\ c1 = Compacted(c, ReplySize)
        /\ u = FrameUnits(Reply(First(c1)))
        /\ c2 = Queued(c1, u, n)
        /\ b = Rest(c2.buf, FRAME_HDR_SIZE + First(c2).len)
        /\ d = [c2 EXCEPT !.buf = b]
        /\ w = Written(s, u, n)
        /\ a = Rest(w.asked, 1) /\ e = Joined(w.due, u)
        /\ t = [w EXCEPT !.asked = a, !.due = e]
  BY Zenon
<1>2. /\ busy # NoFd /\ Answers(clients[busy])
      /\ IF c1.wbuf = << >> THEN n \in Writable(fd, u) ELSE n = 0
      /\ clients' = [clients EXCEPT ![busy] = Consumed(c2)]
      /\ IF c2.wbuf = << >> THEN wr' = wr
                           ELSE wr' = wr \cup {fd} \/ (env.kernel_fails /\ wr' = wr)
      /\ sock' = [sock EXCEPT ![busy] = Answered(@, u, n)]
      /\ UNCHANGED <<rd, busy, status, env>>
  BY <1>1, Zenon DEF process_buffer_answers, el_add_write, signalVars
<1>3. fd \in Fds /\ env \in Settings
  BY <1>1, <1>2, Zenon DEF ServerInv, TypeInv
<1>4. /\ c \in Client /\ s \in Socket /\ c.active /\ c.buf \in Seq(Unit)
      /\ s.out \in Seq(Unit) /\ s.in \in Seq(Unit) /\ s.due \in Seq(Unit) /\ s.asked \in Seq(AnyFrame)
  BY <1>1, <1>3, ClientOf, HandledActive, Zenon
<1>5. /\ WbufOK(c) /\ fd < MAX_FDS /\ fd \in rd /\ Talks(c, s, env.sndbuf)
      /\ Drains(fd, wr, c, env)
  BY <1>1, <1>3, <1>4, ClientOf, Zenon DEF ConnInv
<1>6. HasHeader(c) /\ Whole(c) /\ ~ Overflows(c, ReplySize)
  BY <1>1, <1>2, Zenon DEF Answers, Delivers
<1>7. PICK f, k : /\ f = First(c) /\ k = FRAME_HDR_SIZE + f.len
                  /\ f \in AnyFrame /\ k \in 0 .. Len(c.buf) /\ s.asked # << >>
                  /\ Joined(Rest(c.buf, k), s.in) = Stream(Rest(s.asked, 1))
  BY <1>1, <1>3, <1>4, <1>6, FirstAsked, Zenon
<1>8. /\ c1 \in Client /\ WbufOK(c1) /\ Pending(c1) = Pending(c)
      /\ c1.buf = c.buf /\ c1.active = c.active
      /\ c1.wbuf = << >> <=> c.wbuf = << >>
  BY <1>1, <1>4, <1>5, CompactedHolds, Zenon DEF Holds
<1>9. First(c1) = f
  BY <1>7, <1>8, Zenon DEF First
<1>10. u \in Seq(Unit) /\ u # << >> /\ Len(u) = ReplySize
  BY <1>1, <1>7, <1>9, ReplyFacts, Zenon
<1>11. Len(c1.wbuf) + Len(u) <= WBUF_SIZE
  <2>1. c1.wbuf \in Seq(Unit)
    BY <1>8 DEF Client
  <2>2. Len(c1.wbuf) \in Nat
    BY <2>1, SeqLen, Zenon
  <2>3. ~ (Len(c1.wbuf) + ReplySize > WBUF_SIZE)
    BY <1>1, <1>6, Zenon DEF Overflows
  <2> QED BY <1>10, <2>2, <2>3, Sizes
<1>12. n \in 0 .. Len(u) /\ Len(s.out) + n <= env.sndbuf /\ (c1.wbuf # << >> => n = 0)
  <2>1. Len(s.out) \in Nat /\ Len(s.out) <= env.sndbuf /\ env.sndbuf \in Nat /\ Len(u) \in Nat
    BY <1>3, <1>4, <1>5, <1>10, SeqLen, EnvFacts, Zenon DEF Talks
  <2>2. CASE c1.wbuf = << >>
    BY <1>1, <1>2, <1>3, <1>4, <1>10, <2>1, <2>2, WritableFacts, Zenon
  <2>3. CASE c1.wbuf # << >>
    BY <1>2, <2>1, <2>3
  <2> QED BY <2>2, <2>3, Zenon
<1>13. /\ c2 \in Client /\ WbufOK(c2) /\ c2.buf = c.buf /\ c2.active = c.active
       /\ c2.wbuf = << >> => c1.wbuf = << >>
  <2>1. /\ c1.wbuf = << >> => Holds(Queued(c1, u, n), c1, Rest(u, n))
        /\ c1.wbuf # << >> => Holds(Queued(c1, u, n), c1, Joined(Pending(c1), u))
        /\ c1.wbuf # << >> => Queued(c1, u, n).wbuf # << >>
    BY <1>8, <1>10, <1>11, <1>12, QueuedHolds, Zenon
  <2>2. c2 = Queued(c1, u, n)
    BY <1>1, Zenon
  <2>3. \E p : Holds(c2, c1, p)
    BY <2>1, <2>2, Zenon
  <2>4. c2 \in Client /\ WbufOK(c2) /\ c2.buf = c1.buf /\ c2.active = c1.active
    BY <2>3, Zenon DEF Holds
  <2> QED BY <1>8, <2>1, <2>2, <2>4, Zenon
<1>14. Joined(Joined(s.out, Start(u, n)), Pending(c2)) = Joined(s.due, u)
  <2>1. Joined(s.out, Pending(c1)) = s.due
    BY <1>5, <1>8, Zenon DEF Talks
  <2>2. Joined(Joined(s.out, Start(u, n)), Pending(Queued(c1, u, n))) = Joined(s.due, u)
    BY <1>4, <1>8, <1>10, <1>11, <1>12, <2>1, QueuedPromised
  <2>3. c2 = Queued(c1, u, n)
    BY <1>1
  <2> QED BY <2>2, <2>3, Zenon
<1>15. b = Rest(c.buf, k) /\ b \in Seq(Unit)
  <2>1. First(c2) = f
    BY <1>7, <1>13, Zenon DEF First
  <2>2. b = Rest(c.buf, k)
    BY <1>1, <1>7, <1>13, <2>1, Zenon
  <2> QED BY <1>4, <1>7, <2>2, RestFacts, Zenon
<1>16. d \in Client
  BY <1>1, <1>13, <1>15 DEF Client
<1>17. d.buf = b /\ d.wbuf = c2.wbuf /\ d.woff = c2.woff
  BY <1>1, <1>13, Zenon DEF Client
<1>18. d.active = c2.active
  BY <1>1, <1>13, Zenon DEF Client
<1>19. WbufOK(d) /\ Pending(d) = Pending(c2)
  BY <1>13, <1>17, Zenon DEF WbufOK, Pending
<1>20. Sent(w, s, u, n)
  BY <1>1, <1>4, <1>10, <1>12, WrittenFacts, Zenon
<1>21. a = Rest(s.asked, 1) /\ a \in Seq(AnyFrame) /\ e = Joined(s.due, u) /\ e \in Seq(Unit)
  <2>1. a = Rest(s.asked, 1) /\ e = Joined(s.due, u)
    BY <1>1, <1>20 DEF Sent
  <2> QED BY <1>4, <1>7, <1>10, <2>1, StreamFirst, JoinedFacts, Zenon
<1>22. t \in Socket
  <2>1. w \in Socket
    BY <1>20, Zenon DEF Sent
  <2>2. t = [w EXCEPT !.asked = a, !.due = e]
    BY <1>1, Zenon
  <2> QED BY <1>21, <2>1, <2>2, Zenon DEF Socket
<1>23. t.in = s.in /\ t.out = w.out /\ t.asked = a /\ t.due = e
  BY <1>1, <1>20, Zenon DEF Socket, Sent
<1>24. Talks(d, t, env.sndbuf)
  <2>1. w.out = Joined(s.out, Start(u, n)) /\ Len(w.out) = Len(s.out) + n
    BY <1>20, Zenon DEF Sent
  <2>2. Joined(t.out, Pending(d)) = t.due /\ Len(t.out) <= env.sndbuf
    BY <1>12, <1>14, <1>19, <1>21, <1>23, <2>1, Zenon
  <2>3. Joined(d.buf, t.in) = Stream(t.asked)
    BY <1>7, <1>15, <1>17, <1>21, <1>23, Zenon
  <2> QED BY <2>2, <2>3, Zenon DEF Talks
<1>25. Becomes(fd, d, t)
  <2>1. Consumed(c2) = d
    BY <1>1, Zenon DEF Consumed, Rest
  <2>2. clients' = [clients EXCEPT ![fd] = d]
    BY <1>1, <1>2, <2>1, Zenon
  <2>3. sock' = [sock EXCEPT ![fd] = t]
    <3>1. a = SubSeq(w.asked, 2, Len(w.asked)) /\ e = w.due \o u
      BY <1>1 DEF Rest, Joined
    <3>2. w = Written(s, u, n) /\ t = [w EXCEPT !.asked = a, !.due = e]
      BY <1>1, Zenon
    <3>3. t = Answered(s, u, n)
      BY <3>1, <3>2, Zenon DEF Answered
    <3>4. s = sock[busy] /\ fd = busy
      BY <1>1, Zenon
    <3> QED BY <1>2, <3>3, <3>4, Zenon
  <2>4. \A g \in Fds \ {fd} : /\ g \in rd' <=> g \in rd
                              /\ g \in wr' <=> g \in wr
                              /\ g = busy' <=> g = busy
    BY <1>2, Zenon
  <2>5. rd' \in SUBSET Fds /\ wr' \in SUBSET Fds /\ busy' \in Fds \cup {NoFd}
    BY <1>2, <1>3, Zenon DEF ServerInv, TypeInv
  <2> QED BY <1>2, <2>2, <2>3, <2>4, <2>5, Zenon DEF Becomes
<1>26. fd \in rd' /\ Drains(fd, wr', d, env) /\ fd = busy' /\ d.active
  BY <1>1, <1>2, <1>4, <1>5, <1>8, <1>13, <1>17, <1>18, Zenon DEF Drains
<1> QED
  BY <1>3, <1>5, <1>16, <1>19, <1>22, <1>24, <1>25, <1>26, BecomesInv, Zenon

\* on_accept.
LEMMA AcceptStep ==
  ASSUME ServerInv, NEW fd \in Fds, on_accept(fd)
  PROVE  ServerInv'
<1>1. /\ busy = NoFd /\ fd \notin Active /\ fd < MAX_FDS
      /\ clients' = [clients EXCEPT ![fd] = NewClient]
      /\ rd' = rd \cup {fd}
      /\ UNCHANGED <<wr, busy, sock, status, env>>
  BY DEF on_accept, Dispatch, LowestFree, signalVars
<1>2. ~ clients[fd].active
  BY <1>1, Zenon DEF Active
<1>3. sock[fd] = NoSocket /\ fd \notin wr
  BY <1>2, ClientOf, Zenon DEF ConnInv
<1>4. WbufOK(NewClient)
  <2>1. Len(<< >>) = 0
    BY EmptySeq, Zenon
  <2> QED BY <2>1, Blank, Sizes DEF WbufOK
<1>5. Talks(NewClient, NoSocket, env.sndbuf)
  <2>1. Pending(NewClient) = << >>
    BY <1>4, Blank, PendingFacts, Zenon
  <2>2. Joined(<< >>, << >>) = << >> /\ Len(<< >>) = 0
    BY EmptySeq, JoinedEmpty, Zenon
  <2>3. 0 <= env.sndbuf
    BY EnvFacts DEF ServerInv, TypeInv
  <2> QED BY <2>1, <2>2, <2>3, Blank, StreamFacts, Zenon DEF Talks
<1>6. Waits(NewClient)
  <2>1. ~ HasHeader(NewClient)
    <3>1. Len(NewClient.buf) = 0
      BY Blank, EmptySeq
    <3> QED BY <3>1, Sizes DEF HasHeader
  <2> QED BY <2>1 DEF Waits
<1>7. Becomes(fd, NewClient, NoSocket)
  <2>1. sock \in [Fds -> Socket]
    BY DEF ServerInv, TypeInv
  <2>2. sock' = [sock EXCEPT ![fd] = NoSocket]
    BY <1>1, <1>3, <2>1, Zenon
  <2>3. rd' \in SUBSET Fds /\ wr' \in SUBSET Fds /\ busy' \in Fds \cup {NoFd}
    BY <1>1, Zenon DEF ServerInv, TypeInv
  <2> QED BY <1>1, <2>2, <2>3, Zenon DEF Becomes
<1>8. Drains(fd, wr', NewClient, env)
  BY <1>1, <1>3, Blank, Zenon DEF Drains
<1> QED BY <1>1, <1>3, <1>4, <1>5, <1>6, <1>7, <1>8, Blank, BecomesInv, Zenon

-----------------------------------------------------------------------------
(***************************************************************************)
(* Peers                                                                   *)
(***************************************************************************)

\* A peer moves its side of one connection.
LEMMA PeerInv ==
  ASSUME ServerInv, NEW fd \in Active, NEW t \in Socket,
         sock' = [sock EXCEPT ![fd] = t],
         UNCHANGED <<clients, rd, wr, busy, status, env>>,
         status = "running" => Talks(clients[fd], t, env.sndbuf)
  PROVE  ServerInv'
<1>1. PICK d : d = clients[fd]
  BY Zenon
<1>2. fd \in Fds /\ d.active /\ d \in Client
  BY <1>1, ClientOf, Zenon DEF Active
<1>3. /\ WbufOK(d) /\ fd < MAX_FDS /\ fd \in rd
      /\ Drains(fd, wr, d, env)
      /\ fd # busy => Waits(d)
  BY <1>1, <1>2, ClientOf, Zenon DEF ConnInv
<1>4. Becomes(fd, d, t)
  <2>1. clients \in [Fds -> Client]
    BY DEF ServerInv, TypeInv
  <2>2. clients' = [clients EXCEPT ![fd] = d]
    BY <1>1, <1>2, <2>1, Zenon
  <2>3. rd' \in SUBSET Fds /\ wr' \in SUBSET Fds /\ busy' \in Fds \cup {NoFd}
    BY Zenon DEF ServerInv, TypeInv
  <2> QED BY <2>2, <2>3, Zenon DEF Becomes
<1>5. fd \in rd' /\ Drains(fd, wr', d, env) /\ (fd # busy' => Waits(d))
  BY <1>3, Zenon
<1>6. status = "running" => Talks(d, t, env.sndbuf)
  BY <1>1
<1> QED BY <1>2, <1>3, <1>4, <1>5, <1>6, BecomesInv, Zenon

\* t is s after its peer has sent the frame f.
Asks(t, s, f) ==
  /\ t \in Socket
  /\ t.in = Joined(s.in, FrameUnits(f)) /\ t.asked = Append(s.asked, f)
  /\ t.out = s.out /\ t.due = s.due
  /\ t.rst = s.rst

\* What a peer that sends a frame does to its socket.
LEMMA SendsFacts ==
  ASSUME ServerInv, NEW fd \in Fds, NEW len \in env.lens, NEW kind \in env.kinds,
         PeerSends(fd, len, kind)
  PROVE  \E t, f : /\ f \in AnyFrame
                   /\ Asks(t, sock[fd], f)
                   /\ sock' = [sock EXCEPT ![fd] = t]
<1>1. PICK s, f, i, k, a, t :
        /\ s = sock[fd] /\ f = [seq |-> s.sent + 1, len |-> len, kind |-> kind]
        /\ i = Joined(s.in, FrameUnits(f)) /\ k = s.sent + 1 /\ a = Append(s.asked, f)
        /\ t = [s EXCEPT !.in = i, !.sent = k, !.asked = a]
  BY Zenon
<1>2. sock' = [sock EXCEPT ![fd].in = @ \o FrameUnits([seq |-> sock[fd].sent + 1, len |-> len, kind |-> kind]),
                           ![fd].sent = @ + 1,
                           ![fd].asked = Append(@, [seq |-> sock[fd].sent + 1, len |-> len, kind |-> kind])]
  BY DEF PeerSends
<1>3. /\ s \in Socket /\ s.in \in Seq(Unit) /\ s.asked \in Seq(AnyFrame) /\ s.sent \in Nat
  BY <1>1, ClientOf, Zenon
<1>4. len \in Nat /\ kind \in {"ok", "bad"}
  BY EnvFacts, Zenon DEF ServerInv, TypeInv
<1>5. f \in AnyFrame
  BY <1>1, <1>3, <1>4 DEF AnyFrame
<1>6. i \in Seq(Unit) /\ a \in Seq(AnyFrame) /\ k \in Nat
  <2>1. FrameUnits(f) \in Seq(Unit)
    BY <1>5, FrameUnitsFacts, Zenon
  <2>2. i \in Seq(Unit)
    BY <1>1, <1>3, <2>1, JoinedFacts, Zenon
  <2>3. a \in Seq(AnyFrame)
    BY <1>1, <1>3, <1>5, AppendProperties, Zenon
  <2> QED BY <1>1, <1>3, <2>2, <2>3
<1>7. t \in Socket
  BY <1>1, <1>3, <1>6, Zenon DEF Socket
<1>8. t.in = i /\ t.asked = a /\ t.out = s.out /\ t.due = s.due
  BY <1>1, <1>3 DEF Socket
<1>9. t.rst = s.rst
  BY <1>1, <1>3, Zenon DEF Socket
<1>10. Asks(t, s, f)
  BY <1>1, <1>7, <1>8, <1>9, Zenon DEF Asks
<1>11. sock' = [sock EXCEPT ![fd] = t]
  BY <1>1, <1>2, Zenon DEF Joined
<1> QED BY <1>1, <1>5, <1>10, <1>11, Zenon

\* A peer sends a frame.
LEMMA SendsStep ==
  ASSUME ServerInv, NEW fd \in Fds, NEW len \in env.lens, NEW kind \in env.kinds,
         PeerSends(fd, len, kind)
  PROVE  ServerInv'
<1>1. PICK t, f : /\ f \in AnyFrame
                  /\ Asks(t, sock[fd], f)
                  /\ sock' = [sock EXCEPT ![fd] = t]
  BY SendsFacts, Zenon
<1>2. PICK b, s : b = clients[fd].buf /\ s = sock[fd]
  BY Zenon
<1>3. fd \in Active /\ status = "running" /\ UNCHANGED <<clients, rd, wr, busy, status, env>>
  BY Zenon DEF PeerSends, PeerUnchanged, serverVars, signalVars
<1>4. Talks(clients[fd], s, env.sndbuf)
  BY <1>2, <1>3, ClientOf, Zenon DEF ConnInv, Active
<1>5. b \in Seq(Unit) /\ s.in \in Seq(Unit) /\ s.asked \in Seq(AnyFrame)
  BY <1>2, ClientOf, Zenon
<1>6. Joined(b, Joined(s.in, FrameUnits(f))) = Stream(Append(s.asked, f))
  <2>1. Joined(b, s.in) = Stream(s.asked)
    BY <1>2, <1>4, Zenon DEF Talks
  <2>2. FrameUnits(f) \in Seq(Unit)
    BY <1>1, FrameUnitsFacts, Zenon
  <2>3. Joined(Joined(b, s.in), FrameUnits(f)) = Joined(b, Joined(s.in, FrameUnits(f)))
    BY <1>5, <2>2, JoinedAssoc
  <2>4. Stream(Append(s.asked, f)) = Joined(Stream(s.asked), FrameUnits(f))
    BY <1>1, <1>5, StreamAppend, Zenon
  <2> QED BY <2>1, <2>3, <2>4, Zenon
<1>7. t \in Socket /\ Talks(clients[fd], t, env.sndbuf)
  BY <1>1, <1>2, <1>4, <1>6, Zenon DEF Asks, Talks
<1> QED BY <1>1, <1>3, <1>7, PeerInv, Zenon

\* Dropping any number of elements leaves a sequence.
LEMMA RestAny ==
  ASSUME NEW S, NEW s \in Seq(S), NEW n \in Nat
  PROVE  Rest(s, n) \in Seq(S)
<1>1. Len(s) \in Nat
  BY SeqLen
<1>2. CASE n <= Len(s)
  BY <1>1, <1>2, RestFacts
<1>3. CASE ~ (n <= Len(s))
  <2>1. Len(s) < n + 1 /\ Len(s) \in Int /\ n + 1 \in Int
    BY <1>1, <1>3
  <2> QED BY <2>1, SubSeqEmpty, EmptySeq DEF Rest
<1> QED BY <1>2, <1>3

\* t is s after its peer has read n units.
Reads(t, s, n) ==
  /\ t \in Socket
  /\ t.out = Rest(s.out, n) /\ t.due = Rest(s.due, n)
  /\ t.in = s.in /\ t.asked = s.asked
  /\ t.rst = s.rst

\* What a peer that reads does to its socket.
LEMMA ReadsFacts ==
  ASSUME ServerInv, NEW fd \in Fds, NEW n \in Nat, PeerReads(fd, n)
  PROVE  \E t : Reads(t, sock[fd], n) /\ sock' = [sock EXCEPT ![fd] = t]
<1>1. PICK s, o, d, t : /\ s = sock[fd] /\ o = Rest(s.out, n) /\ d = Rest(s.due, n)
                        /\ t = [s EXCEPT !.out = o, !.due = d]
  BY Zenon
<1>2. s \in Socket /\ s.out \in Seq(Unit) /\ s.due \in Seq(Unit)
  BY <1>1, ClientOf
<1>3. o \in Seq(Unit) /\ d \in Seq(Unit)
  BY <1>1, <1>2, RestAny, Zenon
<1>4. t \in Socket
  BY <1>1, <1>2, <1>3, Zenon DEF Socket
<1>5. t.out = o /\ t.due = d /\ t.in = s.in /\ t.asked = s.asked
  BY <1>1, <1>2, Zenon DEF Socket
<1>6. t.rst = s.rst
  BY <1>1, <1>2, Zenon DEF Socket
<1>7. Reads(t, s, n)
  BY <1>1, <1>4, <1>5, <1>6, Zenon DEF Reads
<1>8. sock' = [sock EXCEPT ![fd].out = SubSeq(@, n + 1, Len(@)),
                           ![fd].due = SubSeq(@, n + 1, Len(@))]
  BY DEF PeerReads
<1>9. sock' = [sock EXCEPT ![fd] = t]
  BY <1>1, <1>8, Zenon DEF Rest
<1> QED BY <1>1, <1>7, <1>9, Zenon

\* A peer reads.
LEMMA ReadsStep ==
  ASSUME ServerInv, NEW fd \in Fds, NEW n \in Nat, PeerReads(fd, n)
  PROVE  ServerInv'
<1>1. PICK t : Reads(t, sock[fd], n) /\ sock' = [sock EXCEPT ![fd] = t]
  BY ReadsFacts, Zenon
<1>2. PICK c, s, p : c = clients[fd] /\ s = sock[fd] /\ p = Pending(c)
  OBVIOUS
<1>3. fd \in Active /\ n <= Len(s.out) /\ UNCHANGED <<clients, rd, wr, busy, status, env>>
  BY <1>2, Zenon DEF PeerReads, PeerUnchanged, serverVars, signalVars
<1>4. c \in Client /\ WbufOK(c) /\ s.out \in Seq(Unit)
  BY <1>2, <1>3, ClientOf, Zenon DEF ConnInv, Active
<1>5. ASSUME status = "running" PROVE Talks(c, t, env.sndbuf)
  <2>1. Talks(c, s, env.sndbuf)
    BY <1>2, <1>3, <1>5, ClientOf, Zenon DEF ConnInv, Active
  <2>2. n \in 0 .. Len(s.out) /\ Len(s.out) \in Nat /\ p \in Seq(Unit)
    BY <1>2, <1>3, <1>4, SeqLen, PendingFacts
  <2>3. Rest(Joined(s.out, p), n) = Joined(Rest(s.out, n), p)
    BY <1>4, <2>2, RestJoined, Zenon
  <2>4. Joined(s.out, p) = s.due /\ Len(s.out) <= env.sndbuf
    BY <1>2, <2>1, Zenon DEF Talks
  <2>5. Joined(t.out, p) = t.due
    BY <1>1, <1>2, <2>3, <2>4, Zenon DEF Reads
  <2>6. Len(t.out) <= env.sndbuf
    <3>1. Len(Rest(s.out, n)) = Len(s.out) - n /\ t.out = Rest(s.out, n)
      BY <1>1, <1>2, <1>4, <2>2, RestFacts, Zenon DEF Reads
    <3>2. env.sndbuf \in Nat
      BY EnvFacts DEF ServerInv, TypeInv
    <3> QED BY <2>2, <2>4, <3>1, <3>2
  <2>7. t.in = s.in /\ t.asked = s.asked
    BY <1>1, <1>2, Zenon DEF Reads
  <2> QED BY <1>2, <2>1, <2>5, <2>6, <2>7, Zenon DEF Talks
<1>6. t \in Socket
  BY <1>1, Zenon DEF Reads
<1>7. status = "running" => Talks(clients[fd], t, env.sndbuf)
  BY <1>2, <1>5, Zenon
<1> QED BY <1>1, <1>3, <1>6, <1>7, PeerInv, Zenon

\* t is s but for fin and rst.
Same(t, s) ==
  /\ t \in Socket
  /\ t.out = s.out /\ t.due = s.due /\ t.in = s.in /\ t.asked = s.asked

\* A step that changes only flags of a socket keeps the invariant.
LEMMA SameStep ==
  ASSUME ServerInv, NEW fd \in Active, NEW t, Same(t, sock[fd]),
         sock' = [sock EXCEPT ![fd] = t],
         UNCHANGED <<clients, rd, wr, busy, status, env>>
  PROVE  ServerInv'
<1>1. status = "running" => Talks(clients[fd], sock[fd], env.sndbuf)
  BY ClientOf, Zenon DEF ConnInv, Active
<1>2. status = "running" => Talks(clients[fd], t, env.sndbuf)
  BY <1>1 DEF Talks, Same
<1> QED BY <1>2, PeerInv, Zenon DEF Same

\* A peer that closes sets a flag of the socket.
LEMMA ClosesFacts ==
  ASSUME ServerInv, NEW fd \in Fds, PeerCloses(fd)
  PROVE  \E t : Same(t, sock[fd]) /\ t.rst = sock[fd].rst /\ sock' = [sock EXCEPT ![fd] = t]
<1>1. PICK s, t : s = sock[fd] /\ t = [s EXCEPT !.fin = TRUE]
  BY Zenon
<1>2. s \in Socket
  BY <1>1, ClientOf, Zenon
<1>3. t \in Socket
  BY <1>1, <1>2, Zenon DEF Socket
<1>4. t.out = s.out /\ t.due = s.due /\ t.in = s.in /\ t.asked = s.asked
  BY <1>1, <1>2, Zenon DEF Socket
<1>5. t.rst = s.rst
  BY <1>1, <1>2, Zenon DEF Socket
<1>6. sock' = [sock EXCEPT ![fd] = t]
  BY <1>1 DEF PeerCloses
<1> QED BY <1>1, <1>3, <1>4, <1>5, <1>6, Zenon DEF Same

\* A peer that resets the connection sets a flag of the socket.
LEMMA ResetsFacts ==
  ASSUME ServerInv, NEW fd \in Fds, PeerResetsConnection(fd)
  PROVE  \E t : Same(t, sock[fd]) /\ sock' = [sock EXCEPT ![fd] = t]
<1>1. PICK s, t : s = sock[fd] /\ t = [s EXCEPT !.rst = TRUE]
  BY Zenon
<1>2. s \in Socket
  BY <1>1, ClientOf, Zenon
<1>3. t \in Socket
  BY <1>1, <1>2, Zenon DEF Socket
<1>4. t.out = s.out /\ t.due = s.due /\ t.in = s.in /\ t.asked = s.asked
  BY <1>1, <1>2, Zenon DEF Socket
<1>5. sock' = [sock EXCEPT ![fd] = t]
  BY <1>1, Zenon DEF PeerResetsConnection
<1> QED BY <1>1, <1>3, <1>4, <1>5, Zenon DEF Same

-----------------------------------------------------------------------------
(***************************************************************************)
(* The loop                                                                *)
(***************************************************************************)

\* Growing idle changes nothing else of a client.
LEMMA AgedFacts ==
  ASSUME NEW c \in Client, NEW ticks \in {0, 1}
  PROVE  /\ Aged(c, ticks) \in Client
         /\ Aged(c, ticks).active = c.active
         /\ Aged(c, ticks).buf = c.buf
         /\ Aged(c, ticks).wbuf = c.wbuf /\ Aged(c, ticks).woff = c.woff
<1>1. PICK i, d : /\ i = (IF ~ c.active THEN 0
                          ELSE IF c.idle + ticks < ClientTimeout THEN c.idle + ticks ELSE ClientTimeout)
                  /\ d = [c EXCEPT !.idle = i]
  BY Zenon
<1>2. i \in Nat
  <2>1. c.idle \in Nat /\ ClientTimeout \in Nat
    BY ServerAssumption DEF Client
  <2> QED BY <1>1, <2>1
<1>3. d \in Client
  BY <1>1, <1>2, Zenon DEF Client
<1>4. d.buf = c.buf /\ d.wbuf = c.wbuf /\ d.woff = c.woff
  BY <1>1 DEF Client
<1>5. d.active = c.active
  BY <1>1 DEF Client
<1>6. Aged(c, ticks) = d
  BY <1>1, Zenon DEF Aged
<1> QED BY <1>3, <1>4, <1>5, <1>6, Zenon

\* A client that grew idle keeps its part of the invariant.
LEMMA AgedConn ==
  ASSUME NEW g \in Fds, ConnInv(g), NEW d,
         clients'[g] = d, d.active = clients[g].active, d.buf = clients[g].buf,
         d.wbuf = clients[g].wbuf, d.woff = clients[g].woff,
         sock'[g] = sock[g], g \in rd' <=> g \in rd, g \in wr' <=> g \in wr,
         UNCHANGED <<busy, status, env>>
  PROVE  ConnInv(g)'
  BY Zenon DEF ConnInv, Drains, Waits, HasHeader, Oversize, Whole, First, Talks, WbufOK, Pending

\* What server_before_sleep closes: clients that have been idle too long.
Dropped(fds, ticks) ==
  /\ fds \in SUBSET Fds
  /\ \A fd \in fds : fd \in Active /\ clients[fd].idle + 1 >= ClientTimeout
  /\ clients' = [fd \in Fds |-> IF fd \in fds THEN NoClient ELSE Aged(clients[fd], ticks)]
  /\ rd' = rd \ fds /\ wr' = wr \ fds
  /\ sock' = [fd \in Fds |-> IF fd \in fds THEN NoSocket ELSE sock[fd]]

\* server_before_sleep drops some clients and ages the others.
LEMMA BeforeSleepFacts ==
  ASSUME NEW ticks \in {0, 1}, server_before_sleep(ticks)
  PROVE  \E fds : Dropped(fds, ticks)
<1>1. PICK fds : fds = (IF ticks = 1 THEN check_client_timeouts(ticks) ELSE {})
  BY Zenon
<1>2. \A fd \in fds : fd \in Active /\ clients[fd].idle + 1 >= ClientTimeout
  BY <1>1, Zenon DEF check_client_timeouts, IdleTooLong
<1>3. fds \in SUBSET Fds
  BY <1>2, Zenon DEF Active
<1>4. /\ clients' = [fd \in Fds |-> IF fd \in fds THEN NoClient ELSE Aged(clients[fd], ticks)]
      /\ rd' = rd \ fds /\ wr' = wr \ fds
      /\ sock' = [fd \in Fds |-> IF fd \in fds THEN NoSocket ELSE sock[fd]]
  BY <1>1, Zenon DEF server_before_sleep
<1> QED BY <1>2, <1>3, <1>4, Zenon DEF Dropped

\* Dropping clients between two polls.
LEMMA DroppedInv ==
  ASSUME ServerInv, busy = NoFd, NEW ticks \in {0, 1}, NEW fds, Dropped(fds, ticks),
         UNCHANGED <<busy, status, env>>
  PROVE  ServerInv'
<1>1. /\ fds \in SUBSET Fds
      /\ clients' = [fd \in Fds |-> IF fd \in fds THEN NoClient ELSE Aged(clients[fd], ticks)]
      /\ sock' = [fd \in Fds |-> IF fd \in fds THEN NoSocket ELSE sock[fd]]
      /\ rd' = rd \ fds /\ wr' = wr \ fds
  BY Zenon DEF Dropped
<1>2. \A g \in Fds : clients[g] \in Client /\ Aged(clients[g], ticks) \in Client
  BY ClientOf, AgedFacts, Zenon
<1>3. TypeInv'
  <2>1. clients' \in [Fds -> Client]
    BY <1>1, <1>2, Blank, Zenon
  <2>2. sock' \in [Fds -> Socket]
    BY <1>1, Blank, Zenon DEF ServerInv, TypeInv
  <2>3. rd' \in SUBSET Fds /\ wr' \in SUBSET Fds /\ busy' \in Fds \cup {NoFd} /\ env' \in Settings
    BY <1>1, Zenon DEF ServerInv, TypeInv
  <2> QED BY <2>1, <2>2, <2>3, Zenon DEF TypeInv
<1>4. ASSUME NEW g \in Fds PROVE ConnInv(g)'
  <2>1. CASE g \in fds
    <3>1. clients'[g] = NoClient /\ sock'[g] = NoSocket /\ g \notin rd' /\ g \notin wr' /\ g # busy'
      BY <1>1, <2>1, NoFdNot, Zenon
    <3> QED BY <3>1, ClosedConn, Zenon
  <2>2. CASE g \notin fds
    <3>1. PICK d : d = Aged(clients[g], ticks)
      BY Zenon
    <3>2. /\ clients'[g] = d /\ sock'[g] = sock[g]
          /\ g \in rd' <=> g \in rd
          /\ g \in wr' <=> g \in wr
      BY <1>1, <2>2, <3>1, Zenon
    <3>3. /\ d.active = clients[g].active /\ d.buf = clients[g].buf
          /\ d.wbuf = clients[g].wbuf /\ d.woff = clients[g].woff
      BY <1>2, <3>1, AgedFacts, Zenon
    <3>4. ConnInv(g)
      BY DEF ServerInv
    <3> QED BY <3>2, <3>3, <3>4, AgedConn, Zenon
  <2> QED BY <2>1, <2>2, Zenon
<1> QED BY <1>3, <1>4, Zenon DEF ServerInv

\* The event loop's iteration up to its poll.
LEMMA PollsStep ==
  ASSUME ServerInv, NEW ticks \in {0, 1}, el_run_polls(ticks)
  PROVE  ServerInv'
<1>1. /\ busy = NoFd /\ UNCHANGED <<busy, status, env>>
      /\ IF env.before_sleep THEN server_before_sleep(ticks)
         ELSE UNCHANGED <<clients, clients_count, rd, wr, sock>>
  BY Zenon DEF el_run_polls, AtTop, signalVars
<1>2. CASE env.before_sleep
  <2>1. PICK fds : Dropped(fds, ticks)
    BY <1>1, <1>2, BeforeSleepFacts, Zenon
  <2> QED BY <1>1, <2>1, DroppedInv, Zenon
<1>3. CASE ~ env.before_sleep
  <2>1. UNCHANGED <<clients, rd, wr, busy, sock, env>> /\ status' = status
    BY <1>1, <1>3, Zenon
  <2> QED BY <2>1, NothingMoves, Zenon
<1> QED BY <1>2, <1>3, Zenon

\* server_shutdown.
LEMMA ShutdownStep ==
  ASSUME ServerInv, server_shutdown
  PROVE  ServerInv'
<1>1. /\ status' = "stopped" /\ sock' = [fd \in Fds |-> NoSocket]
      /\ UNCHANGED <<clients, rd, wr, busy, env>>
  BY Zenon DEF server_shutdown, serverVars
<1>2. TypeInv'
  BY <1>1, Blank, Zenon DEF ServerInv, TypeInv
<1>3. ASSUME NEW g \in Fds PROVE ConnInv(g)'
  <2>1. ConnInv(g)
    BY DEF ServerInv
  <2>2. sock'[g] = NoSocket
    BY <1>1, Zenon
  <2> QED BY <1>1, <2>1, <2>2, Zenon DEF ConnInv, WbufOK, Waits, HasHeader, Oversize, Whole, First
<1> QED BY <1>2, <1>3, Zenon DEF ServerInv

\* The client that is being served waits for more input.
LEMMA WaitsStep ==
  ASSUME ServerInv, process_buffer_waits
  PROVE  ServerInv'
<1>1. /\ busy # NoFd /\ Waits(clients[busy]) /\ busy' = NoFd
      /\ UNCHANGED <<clients, rd, wr, sock, status, env>>
  BY Zenon DEF process_buffer_waits, signalVars, Waits
<1>2. TypeInv'
  BY <1>1, Zenon DEF ServerInv, TypeInv
<1>3. ASSUME NEW g \in Fds PROVE ConnInv(g)'
  <2>1. ConnInv(g)
    BY DEF ServerInv
  <2>2. Waits(clients[g]) \/ g # busy
    BY <1>1, Zenon
  <2>3. g # busy'
    BY <1>1, NoFdNot, Zenon
  <2> QED BY <1>1, <2>1, <2>2, <2>3, Zenon
       DEF ConnInv, WbufOK, Waits, HasHeader, Oversize, Whole, First, Talks, Pending
<1> QED BY <1>2, <1>3 DEF ServerInv
-----------------------------------------------------------------------------
(***************************************************************************)
(* The invariant                                                           *)
(***************************************************************************)

\* Nothing is open.
LEMMA InitInv == Init => ServerInv
<1> SUFFICES ASSUME Init PROVE ServerInv
  BY Zenon
<1>1. TypeInv
  BY Blank, Zenon DEF Init, TypeInv
<1>2. ASSUME NEW g \in Fds PROVE ConnInv(g)
  <2>1. clients[g] = NoClient /\ sock[g] = NoSocket /\ g \notin rd /\ g \notin wr /\ g # busy
    BY NoFdNot, Zenon DEF Init
  <2> QED BY <2>1, Blank, Zenon DEF ConnInv
<1> QED BY <1>1, <1>2 DEF ServerInv

\* remove_client and remove_client_twice of fd close its connection.
LEMMA RemovedInv ==
  ASSUME ServerInv, NEW fd \in Fds, NEW k, Closed({fd}, k),
         busy = fd \/ busy = NoFd, busy' = NoFd, UNCHANGED <<status, env>>
  PROVE  ServerInv'
<1>1. {fd} \in SUBSET Fds /\ busy \in {fd} \cup {NoFd}
  BY Zenon
<1> QED BY <1>1, ClosedInv, Zenon

\* process_buffer, all its outcomes.
LEMMA BufferStep ==
  ASSUME ServerInv, status = "running", process_buffer
  PROVE  ServerInv'
<1>1. CASE process_buffer_waits
  BY <1>1, WaitsStep, Zenon
<1>2. CASE process_buffer_drops
  <2>1. /\ busy \in Fds /\ Closed({busy}, clients_count - 1) /\ busy' = NoFd
        /\ UNCHANGED <<status, env>>
    BY <1>2 DEF process_buffer_drops, remove_client, signalVars, ServerInv, TypeInv
  <2> QED BY <2>1, RemovedInv, Zenon
<1>3. ASSUME NEW n \in 0 .. ReplySize, process_buffer_answers(n) PROVE ServerInv'
  BY <1>3, AnswerStep, Zenon
<1>4. CASE process_buffer_write_fails
  <2>1. /\ busy \in Fds /\ Closed({busy}, clients_count - 2) /\ busy' = NoFd
        /\ UNCHANGED <<status, env>>
    BY <1>4, Zenon DEF process_buffer_write_fails, FailsDirectWrite, remove_client_twice, signalVars,
                ServerInv, TypeInv
  <2> QED BY <2>1, RemovedInv, Zenon
<1>5. CASE process_buffer_sigpipe
  <2>1. UNCHANGED <<clients, rd, wr, busy, sock, env>> /\ status' = "killed"
    BY <1>5, Zenon DEF process_buffer_sigpipe, serverVars
  <2> QED BY <2>1, NothingMoves, Zenon
<1> QED BY <1>1, <1>2, <1>3, <1>4, <1>5, Zenon DEF process_buffer

\* A handler of the event loop, all its outcomes.
LEMMA HandlerStep ==
  ASSUME ServerInv, NEW fd \in Fds, Handler(fd)
  PROVE  ServerInv'
<1>1. ASSUME NEW n \in 1 .. BufSize, on_read_data(fd, n) PROVE ServerInv'
  BY <1>1, ReadStep, Zenon
<1>2. CASE on_read_end(fd)
  <2>1. /\ busy = NoFd /\ Closed({fd}, clients_count - 1) /\ UNCHANGED <<busy, status, env>>
    BY <1>2, Zenon DEF on_read_end, Dispatch, remove_client, signalVars
  <2> QED BY <2>1, RemovedInv, Zenon
<1>3. CASE on_read_again(fd)
  <2>1. UNCHANGED <<clients, rd, wr, busy, sock, status, env>>
    BY <1>3, Zenon DEF on_read_again, serverVars, signalVars
  <2> QED BY <2>1, NothingMoves, Zenon
<1>4. ASSUME NEW n \in 0 .. WBUF_SIZE, on_write(fd, n) PROVE ServerInv'
  BY <1>4, WriteStep, Zenon
<1>5. CASE on_write_fails(fd)
  <2>1. /\ busy = NoFd /\ Closed({fd}, clients_count - 1) /\ UNCHANGED <<busy, status, env>>
    BY <1>5, Zenon DEF on_write_fails, Dispatch, remove_client, signalVars
  <2> QED BY <2>1, RemovedInv
<1>6. CASE on_write_sigpipe(fd)
  <2>1. UNCHANGED <<clients, rd, wr, busy, sock, env>> /\ status' = "killed"
    BY <1>6, Zenon DEF on_write_sigpipe, serverVars
  <2> QED BY <2>1, NothingMoves, Zenon
<1>7. CASE on_accept(fd)
  BY <1>7, AcceptStep, Zenon
<1>8. CASE on_accept_rejects(fd)
  <2>1. UNCHANGED <<clients, rd, wr, busy, sock, status, env>>
    BY <1>8, Zenon DEF on_accept_rejects, serverVars, signalVars
  <2> QED BY <2>1, NothingMoves
<1> QED BY <1>1, <1>2, <1>3, <1>4, <1>5, <1>6, <1>7, <1>8, Zenon DEF Handler

\* A step of a peer.
LEMMA PeerStepInv ==
  ASSUME ServerInv, PeerStep
  PROVE  ServerInv'
<1>1. CASE PeerConnects
  <2>1. UNCHANGED <<clients, rd, wr, busy, sock, status, env>>
    BY <1>1, Zenon DEF PeerConnects, serverVars, signalVars
  <2> QED BY <2>1, NothingMoves, Zenon
<1>2. ASSUME NEW fd \in Fds, NEW len \in env.lens, NEW kind \in env.kinds,
             PeerSends(fd, len, kind)
      PROVE  ServerInv'
  BY <1>2, SendsStep, Zenon
<1>3. ASSUME NEW fd \in Fds, NEW n \in 1 .. env.sndbuf, PeerReads(fd, n) PROVE ServerInv'
  <2>1. n \in Nat
    BY EnvFacts DEF ServerInv, TypeInv
  <2> QED BY <1>3, <2>1, ReadsStep, Zenon
<1>4. ASSUME NEW fd \in Fds, PeerCloses(fd) PROVE ServerInv'
  <2>1. PICK t : Same(t, sock[fd]) /\ sock' = [sock EXCEPT ![fd] = t]
    BY <1>4, ClosesFacts, Zenon
  <2>2. fd \in Active /\ UNCHANGED <<clients, rd, wr, busy, status, env>>
    BY <1>4, Zenon DEF PeerCloses, PeerUnchanged, serverVars, signalVars
  <2> QED BY <2>1, <2>2, SameStep, Zenon
<1>5. ASSUME NEW fd \in Fds, PeerResetsConnection(fd) PROVE ServerInv'
  <2>1. PICK t : Same(t, sock[fd]) /\ sock' = [sock EXCEPT ![fd] = t]
    BY <1>5, ResetsFacts, Zenon
  <2>2. fd \in Active /\ UNCHANGED <<clients, rd, wr, busy, status, env>>
    BY <1>5, Zenon DEF PeerResetsConnection, PeerUnchanged, serverVars, signalVars
  <2> QED BY <2>1, <2>2, SameStep, Zenon
<1> QED BY <1>1, <1>2, <1>3, <1>4, <1>5, Zenon DEF PeerStep

\* Every step keeps the invariant.
LEMMA ServerInvStep == ServerInv /\ [Next]_vars => ServerInv'
<1> SUFFICES ASSUME ServerInv, [Next]_vars PROVE ServerInv'
  OBVIOUS
<1>1. CASE status = "running" /\ process_buffer
  BY <1>1, BufferStep, Zenon
<1>2. ASSUME NEW fd \in Fds, Handler(fd) PROVE ServerInv'
  BY <1>2, HandlerStep, Zenon
<1>3. CASE on_shutdown
  <2>1. UNCHANGED <<clients, rd, wr, busy, sock, status, env>>
    BY <1>3, Zenon DEF on_shutdown, serverVars
  <2> QED BY <2>1, NothingMoves, Zenon
<1>4. ASSUME NEW e \in events, el_run_skips(e) PROVE ServerInv'
  <2>1. UNCHANGED <<clients, rd, wr, busy, sock, status, env>>
    BY <1>4, Zenon DEF el_run_skips, serverVars, signalVars
  <2> QED BY <2>1, NothingMoves, Zenon
<1>5. ASSUME NEW ticks \in {0, 1}, el_run_polls(ticks) PROVE ServerInv'
  BY <1>5, PollsStep, Zenon
<1>6. CASE server_shutdown
  BY <1>6, ShutdownStep, Zenon
<1>7. CASE PeerStep
  BY <1>7, PeerStepInv, Zenon
<1>8. ASSUME NEW sig \in env.signals, sig_shutdown_handler(sig) PROVE ServerInv'
  <2>1. UNCHANGED <<clients, rd, wr, busy, sock, env>> /\ status = "running"
    BY <1>8, Zenon DEF sig_shutdown_handler, serverVars
  <2> QED BY <2>1, NothingMoves, Zenon
<1>9. CASE UNCHANGED vars
  <2>1. UNCHANGED <<clients, rd, wr, busy, sock, status, env>>
    BY <1>9, Zenon DEF vars, serverVars, signalVars
  <2> QED BY <2>1, NothingMoves
<1> QED BY <1>1, <1>2, <1>3, <1>4, <1>5, <1>6, <1>7, <1>8, <1>9, Zenon DEF Next, ServerStep

\* The inductive invariant: in every reachable state, under every number of
\* descriptors, size of the buffers and setting, the handlers of every
\* descriptor fit its client, and both of its streams are in step.
THEOREM ServerInvariant == Spec => []ServerInv
<1> QED BY InitInv, ServerInvStep, PTL DEF Spec

\* el_add, el_add_write and el_remove keep the handler tables and the clients
\* in agreement: every client is read from, a write handler means unsent
\* output, unsent output has one unless kevent may refuse it, and no descriptor
\* past MAX_FDS is ever given a handler.
THEOREM HandlersMatchAlways == Spec => []HandlersMatch
<1>1. ServerInv => HandlersMatch
  <2> SUFFICES ASSUME ServerInv PROVE HandlersMatch
    BY Zenon
  <2>1. rd \subseteq Fds /\ wr \subseteq Fds
    BY DEF ServerInv, TypeInv
  <2>2. \A fd \in Fds : ConnInv(fd)
    BY Zenon DEF ServerInv
  <2>3. \A fd \in Fds : /\ fd \in rd <=> clients[fd].active
                        /\ fd \in wr => clients[fd].active /\ clients[fd].wbuf # << >>
                        /\ ~ env.kernel_fails /\ clients[fd].active /\ clients[fd].wbuf # << >> =>
                             fd \in wr
                        /\ clients[fd].active => fd < MAX_FDS
    BY <2>2, Zenon DEF ConnInv, Drains
  <2> QED BY <2>1, <2>3, Zenon DEF HandlersMatch, Active
<1> QED BY <1>1, ServerInvariant, PTL

\* queue_write, on_write and the compaction of wbuf deliver exactly what
\* server_send was given, for every size of wbuf and of the socket's buffer.
THEOREM RepliesIntactAlways == Spec => []RepliesIntact
<1>1. ServerInv => RepliesIntact
  <2> SUFFICES ASSUME ServerInv, NEW fd \in Active, status = "running"
               PROVE  /\ sock[fd].out \o Pending(clients[fd]) = sock[fd].due
                      /\ Len(clients[fd].wbuf) <= WBUF_SIZE
    BY Zenon DEF RepliesIntact
  <2>1. WbufOK(clients[fd]) /\ Talks(clients[fd], sock[fd], env.sndbuf)
    BY ClientOf, Zenon DEF ConnInv, Active
  <2> QED BY <2>1, Zenon DEF WbufOK, Talks, Joined
<1> QED BY <1>1, ServerInvariant, PTL

\* on_read and process_buffer cut the stream into the frames that were sent,
\* for every length of the frames and however the reads split them.
THEOREM StreamIntactAlways == Spec => []StreamIntact
<1>1. ServerInv => StreamIntact
  <2> SUFFICES ASSUME ServerInv, NEW fd \in Active, status = "running"
               PROVE  clients[fd].buf \o sock[fd].in =
                        Flatten([n \in 1 .. Len(sock[fd].asked) |-> FrameUnits(sock[fd].asked[n])])
    BY Zenon DEF StreamIntact
  <2>1. Talks(clients[fd], sock[fd], env.sndbuf)
    BY ClientOf DEF ConnInv, Active
  <2> QED BY <2>1 DEF Talks, Joined, Stream, Frames
<1> QED BY <1>1, ServerInvariant, PTL
=============================================================================
