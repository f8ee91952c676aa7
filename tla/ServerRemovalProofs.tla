------------------------ MODULE ServerRemovalProofs ------------------------
(***************************************************************************)
(* When the server lets go of a connection: only for a reason that lies    *)
(* with the peer, and never for a peer that behaves like a worker.         *)
(***************************************************************************)
EXTENDS ServerProofs, FiniteSetTheorems

-----------------------------------------------------------------------------
(***************************************************************************)
(* Removal                                                                 *)
(***************************************************************************)

\* A client that waits for input has room for it: on_read never asks read for
\* zero bytes, whose answer it would take for the end of the stream.
LEMMA WaitsHasRoom ==
  ASSUME ServerInv, status = "running", NEW fd \in Active, fd # busy
  PROVE  Room(clients[fd]) # 0
<1>1. fd \in Fds /\ clients[fd].active
  BY DEF Active
<1>2. Waits(clients[fd]) /\ clients[fd].buf \in Seq(Unit)
  BY <1>1, ClientOf, Zenon DEF ConnInv
<1>3. PICK l \in Nat : l = Len(clients[fd].buf)
  BY <1>2, SeqLen, Zenon
<1>4. CASE HasHeader(clients[fd])
  <2>1. First(clients[fd]) \in AnyFrame
    BY <1>1, <1>4, FirstAsked, Zenon
  <2>2. PICK k \in Nat : k = First(clients[fd]).len
    BY <2>1, Zenon DEF AnyFrame
  <2>3. ~ (k > MSG_MAX) /\ ~ (l >= FRAME_HDR_SIZE + k)
    BY <1>2, <1>3, <1>4, <2>2, Zenon DEF Waits, Oversize, Whole
  <2> QED BY <1>3, <2>3, Sizes DEF Room
<1>5. CASE ~ HasHeader(clients[fd])
  <2>1. ~ (l >= FRAME_HDR_SIZE)
    BY <1>3, <1>5, Zenon DEF HasHeader
  <2> QED BY <1>3, <2>1, Sizes DEF Room
<1> QED BY <1>4, <1>5, Zenon

\* The client of fd may be removed.
Removable(fd) ==
  \/ sock[fd].fin \/ sock[fd].rst
  \/ busy = fd /\ Unwelcome(clients[fd])
  \/ env.before_sleep /\ clients[fd].idle + 1 >= ClientTimeout

\* No client is removed where the clients keep what they had in active.
LEMMA KeptActive ==
  ASSUME \A g \in Fds : clients[g].active => clients'[g].active
  PROVE  Active \ Active' = {}
  BY DEF Active

\* One client becomes d, which is active.
LEMMA BecomesActive ==
  ASSUME ServerInv, NEW fd \in Fds, NEW d, d.active, clients' = [clients EXCEPT ![fd] = d]
  PROVE  Active \ Active' = {}
<1>1. \A g \in Fds : clients'[g] = IF g = fd THEN d ELSE clients[g]
  BY DEF ServerInv, TypeInv
<1> QED BY <1>1, KeptActive, Zenon

\* A step that changes no client removes none.
LEMMA SameActive ==
  ASSUME clients' = clients
  PROVE  Active \ Active' = {}
  BY DEF Active

\* Closing descriptors removes their clients only.
LEMMA ClosedActive ==
  ASSUME NEW fds, NEW k, Closed(fds, k)
  PROVE  Active \ Active' \subseteq fds
  BY DEF Closed, Active

\* What process_buffer and on_write leave of a client is active.
LEMMA WriteActive ==
  ASSUME ServerInv, NEW fd \in Fds, NEW n, on_write(fd, n)
  PROVE  Active \ Active' = {}
<1>1. PICK c, d : c = clients[fd] /\ d = Advanced(c, n)
  OBVIOUS
<1>2. clients' = [clients EXCEPT ![fd] = d] /\ fd \in wr
  BY <1>1, Zenon DEF on_write
<1>3. c.active /\ c \in Client
  BY <1>1, <1>2, HandledActive, ClientOf, Zenon
<1>4. d.active
  BY <1>1, <1>3 DEF Advanced, Client
<1> QED BY <1>2, <1>4, BecomesActive, Zenon

\* Answering a request removes nobody.
LEMMA AnswerActive ==
  ASSUME ServerInv, NEW n, process_buffer_answers(n)
  PROVE  Active \ Active' = {}
<1>1. PICK c, c1, u, c2, d :
        /\ c = clients[busy] /\ c1 = Compacted(c, ReplySize) /\ u = FrameUnits(Reply(First(c1)))
        /\ c2 = Queued(c1, u, n) /\ d = Consumed(c2)
  BY Zenon
<1>2. clients' = [clients EXCEPT ![busy] = d] /\ busy # NoFd
  BY <1>1, Zenon DEF process_buffer_answers
<1>3. busy \in Fds
  BY <1>2, Zenon DEF ServerInv, TypeInv
<1>4. c.active /\ c \in Client
  BY <1>1, <1>3, HandledActive, ClientOf, Zenon
<1>5. c1.active /\ c1 = [active |-> c1.active, buf |-> c1.buf, wbuf |-> c1.wbuf,
                         woff |-> c1.woff, idle |-> c1.idle]
  BY <1>1, <1>4, Zenon DEF Compacted, Client
<1>6. c2.active /\ c2 = [active |-> c2.active, buf |-> c2.buf, wbuf |-> c2.wbuf,
                         woff |-> c2.woff, idle |-> c2.idle]
  BY <1>1, <1>5, Zenon DEF Queued, Advanced
<1>7. d.active
  BY <1>1, <1>6, Zenon DEF Consumed
<1> QED BY <1>2, <1>3, <1>7, BecomesActive, Zenon

\* Reading removes nobody.
LEMMA ReadActive ==
  ASSUME ServerInv, NEW fd \in Fds, NEW n, on_read_data(fd, n)
  PROVE  Active \ Active' = {}
<1>1. PICK c, b, d : c = clients[fd] /\ b = c.buf \o SubSeq(sock[fd].in, 1, n)
                     /\ d = [c EXCEPT !.buf = b, !.idle = 0]
  BY Zenon
<1>2. /\ fd \in rd
      /\ clients' = [clients EXCEPT ![fd].buf = @ \o SubSeq(sock[fd].in, 1, n), ![fd].idle = 0]
  BY DEF on_read_data
<1>3. clients' = [clients EXCEPT ![fd] = d]
  BY <1>1, <1>2, Zenon
<1>4. c.active /\ c \in Client
  BY <1>1, <1>2, HandledActive, ClientOf, Zenon
<1>5. d.active
  BY <1>1, <1>4, Zenon DEF Client
<1> QED BY <1>3, <1>5, BecomesActive, Zenon

\* process_buffer removes its own client only, and for a frame that is unwelcome.
LEMMA BufferRemoves ==
  ASSUME ServerInv, status = "running", process_buffer, NEW g \in Active \ Active'
  PROVE  Removable(g)
<1>1. CASE process_buffer_waits
  BY <1>1, SameActive, Zenon DEF process_buffer_waits
<1>2. CASE process_buffer_drops
  <2>1. Closed({busy}, clients_count - 1) /\ Unwelcome(clients[busy])
    BY <1>2, Zenon DEF process_buffer_drops, remove_client
  <2>2. g = busy
    BY <2>1, ClosedActive, Zenon
  <2> QED BY <2>1, <2>2, Zenon DEF Removable
<1>3. ASSUME NEW n \in 0 .. ReplySize, process_buffer_answers(n) PROVE Removable(g)
  BY <1>3, AnswerActive, Zenon
<1>4. CASE process_buffer_write_fails
  <2>1. Closed({busy}, clients_count - 2) /\ sock[busy].rst
    BY <1>4 DEF process_buffer_write_fails, FailsDirectWrite, remove_client_twice
  <2>2. g = busy
    BY <2>1, ClosedActive, Zenon
  <2> QED BY <2>1, <2>2, Zenon DEF Removable
<1>5. CASE process_buffer_sigpipe
  <2>1. clients' = clients
    BY <1>5, Zenon DEF process_buffer_sigpipe, serverVars
  <2> QED BY <2>1, SameActive, Zenon
<1> QED BY <1>1, <1>2, <1>3, <1>4, <1>5, Zenon DEF process_buffer

\* A handler removes its own client only, and for what that client did.
LEMMA HandlerRemoves ==
  ASSUME ServerInv, NEW fd \in Fds, Handler(fd), NEW g \in Active \ Active'
  PROVE  Removable(g)
<1>1. ASSUME NEW n \in 1 .. BufSize, on_read_data(fd, n) PROVE Removable(g)
  BY <1>1, ReadActive, Zenon
<1>2. CASE on_read_end(fd)
  <2>1. /\ Closed({fd}, clients_count - 1) /\ status = "running" /\ fd # busy /\ ReadEnds(fd)
    BY <1>2, NoFdNot, Zenon DEF on_read_end, Dispatch, remove_client
  <2>2. g = fd /\ fd \in Active
    BY <2>1, ClosedActive, Zenon
  <2>3. Room(clients[fd]) # 0
    BY <2>1, <2>2, WaitsHasRoom, Zenon
  <2> QED BY <2>1, <2>2, <2>3, Zenon DEF ReadEnds, Removable
<1>3. CASE on_read_again(fd)
  <2>1. clients' = clients
    BY <1>3, Zenon DEF on_read_again, serverVars
  <2> QED BY <2>1, SameActive, Zenon
<1>4. ASSUME NEW n \in 0 .. WBUF_SIZE, on_write(fd, n) PROVE Removable(g)
  BY <1>4, WriteActive, Zenon
<1>5. CASE on_write_fails(fd)
  <2>1. Closed({fd}, clients_count - 1) /\ sock[fd].rst
    BY <1>5, Zenon DEF on_write_fails, remove_client
  <2>2. g = fd
    BY <2>1, ClosedActive, Zenon
  <2> QED BY <2>1, <2>2, Zenon DEF Removable
<1>6. CASE on_write_sigpipe(fd)
  <2>1. clients' = clients
    BY <1>6, Zenon DEF on_write_sigpipe, serverVars
  <2> QED BY <2>1, SameActive
<1>7. CASE on_accept(fd)
  <2>1. clients' = [clients EXCEPT ![fd] = NewClient]
    BY <1>7, Zenon DEF on_accept
  <2> QED BY <2>1, Blank, BecomesActive, Zenon
<1>8. CASE on_accept_rejects(fd)
  <2>1. clients' = clients
    BY <1>8, Zenon DEF on_accept_rejects, serverVars
  <2> QED BY <2>1, SameActive
<1> QED BY <1>1, <1>2, <1>3, <1>4, <1>5, <1>6, <1>7, <1>8, Zenon DEF Handler

\* server_before_sleep removes clients that were idle too long.
LEMMA PollsRemoves ==
  ASSUME ServerInv, NEW ticks \in {0, 1}, el_run_polls(ticks), NEW g \in Active \ Active'
  PROVE  Removable(g)
<1>1. CASE env.before_sleep
  <2>1. PICK fds : Dropped(fds, ticks)
    BY <1>1, BeforeSleepFacts, Zenon DEF el_run_polls
  <2>2. CASE g \in fds
    BY <1>1, <2>1, <2>2, Zenon DEF Dropped, Removable
  <2>3. CASE g \notin fds
    <3>1. g \in Fds /\ clients[g].active /\ clients[g] \in Client
      BY ClientOf, Zenon DEF Active
    <3>2. clients'[g] = Aged(clients[g], ticks)
      BY <2>1, <2>3, <3>1, Zenon DEF Dropped
    <3>3. clients'[g].active
      BY <3>1, <3>2, AgedFacts
    <3> QED BY <3>1, <3>3, Zenon DEF Active
  <2> QED BY <2>2, <2>3, Zenon
<1>2. CASE ~ env.before_sleep
  <2>1. clients' = clients
    BY <1>2, Zenon DEF el_run_polls
  <2> QED BY <2>1, SameActive, Zenon
<1> QED BY <1>1, <1>2, Zenon

\* Every removal has one of these reasons.
LEMMA StepRemoves ==
  ASSUME ServerInv, [Next]_vars, NEW g \in Active \ Active'
  PROVE  Removable(g)
<1>1. CASE status = "running" /\ process_buffer
  BY <1>1, BufferRemoves, Zenon
<1>2. ASSUME NEW fd \in Fds, Handler(fd) PROVE Removable(g)
  BY <1>2, HandlerRemoves, Zenon
<1>3. ASSUME NEW ticks \in {0, 1}, el_run_polls(ticks) PROVE Removable(g)
  BY <1>3, PollsRemoves, Zenon
<1>4. CASE on_shutdown \/ (\E e \in events : el_run_skips(e)) \/ server_shutdown
  <2>1. clients' = clients
    BY <1>4, Zenon DEF on_shutdown, el_run_skips, server_shutdown, serverVars
  <2> QED BY <2>1, SameActive, Zenon
<1>5. CASE PeerStep
  <2>1. CASE PeerConnects
    BY <2>1, SameActive, Zenon DEF PeerConnects, serverVars
  <2>2. CASE PeerUnchanged
    BY <2>2, SameActive, Zenon DEF PeerUnchanged, serverVars
  <2>3. ASSUME NEW fd \in Fds,
               \/ \E len \in env.lens, kind \in env.kinds : PeerSends(fd, len, kind)
               \/ \E n \in 1 .. env.sndbuf : PeerReads(fd, n)
               \/ PeerCloses(fd)
               \/ PeerResetsConnection(fd)
        PROVE  PeerUnchanged
    BY <2>3, Zenon DEF PeerSends, PeerReads, PeerCloses, PeerResetsConnection
  <2> QED BY <1>5, <2>1, <2>2, <2>3, Zenon DEF PeerStep
<1>6. CASE \E sig \in env.signals : sig_shutdown_handler(sig)
  <2>1. clients' = clients
    BY <1>6, Zenon DEF sig_shutdown_handler, serverVars
  <2> QED BY <2>1, SameActive
<1>7. CASE UNCHANGED vars
  <2>1. clients' = clients
    BY <1>7, Zenon DEF vars, serverVars
  <2> QED BY <2>1, SameActive
<1> QED BY <1>1, <1>2, <1>3, <1>4, <1>5, <1>6, <1>7, Zenon DEF Next, ServerStep

\* remove_client is reached only for what the client itself did: an event left
\* over from an earlier connection on its descriptor removes nobody, and
\* process_buffer always leaves the read buffer room for one more byte.
THEOREM NoSpuriousRemovalAlways == Spec => NoSpuriousRemoval
<1>1. ServerInv /\ [Next]_vars =>
        [\A fd \in Active \ Active' :
            \/ sock[fd].fin \/ sock[fd].rst
            \/ busy = fd /\ Unwelcome(clients[fd])
            \/ env.before_sleep /\ clients[fd].idle + 1 >= ClientTimeout]_vars
  BY StepRemoves, Zenon DEF Removable
<1> QED BY <1>1, ServerInvariant, PTL DEF Spec, NoSpuriousRemoval

-----------------------------------------------------------------------------
(***************************************************************************)
(* Workers                                                                 *)
(***************************************************************************)

\* The peers of this setting behave like workers.
Harmless == env.window = 1 /\ env.sndbuf >= ReplySize /\ ~ env.resets /\ env.signals = {}

\* At most one request is under way, and its answer is not; a reset follows
\* only an answer, after which the peer asks nothing.
Quiet(c, s) ==
  /\ c.wbuf = << >>
  /\ s.rst => s.asked = << >>
  /\ s.asked # << >> => s.due = << >> /\ Len(s.asked) = 1

HarmlessInv ==
  Harmless =>
    /\ status # "killed" /\ doubled = 0
    /\ status = "running" => \A fd \in Active : Quiet(clients[fd], sock[fd])

\* An image of the elements of a sequence counts zero only when it is empty.
LEMMA NothingUnanswered ==
  ASSUME NEW s \in Socket, Unanswered(s) < 1
  PROVE  s.asked = << >> /\ s.due = << >>
<1>1. PICK a, d, T : /\ a = s.asked /\ d = s.due
                     /\ T = {u[1] : u \in {d[n] : n \in 1 .. Len(d)}}
  BY Zenon
<1>2. a \in Seq(AnyFrame) /\ d \in Seq(Unit)
  BY <1>1, Zenon DEF Socket
<1>3. Len(a) \in Nat /\ Len(d) \in Nat
  BY <1>2, SeqLen, Zenon
<1>4. Len(a) + Cardinality(T) < 1
  BY <1>1, Zenon DEF Unanswered
<1>5. IsFiniteSet(T)
  <2>1. IsFiniteSet(1 .. Len(d))
    BY <1>3, FS_Interval
  <2>2. PICK h : h = [n \in 1 .. Len(d) |-> d[n][1]]
    BY Zenon
  <2>3. \A n \in 1 .. Len(d) : d[n][1] \in T
    BY <1>1, Zenon
  <2>4. \A x \in T : \E n \in 1 .. Len(d) : x = d[n][1]
    BY <1>1, Zenon
  <2>5. h \in Surjection(1 .. Len(d), T)
    BY <2>2, <2>3, <2>4, Zenon DEF Surjection
  <2> QED BY <2>1, <2>5, FS_Surjection, Zenon
<1>6. Cardinality(T) \in Nat
  BY <1>5, FS_CardinalityType, Zenon
<1>7. Len(a) = 0 /\ Cardinality(T) = 0
  BY <1>3, <1>4, <1>6
<1>8. T = {}
  BY <1>5, <1>7, FS_EmptySet, Zenon
<1>9. Len(d) = 0
  <2> SUFFICES ASSUME Len(d) # 0 PROVE FALSE
    OBVIOUS
  <2>1. 1 \in 1 .. Len(d)
    BY <1>3
  <2>2. d[1] \in {d[n] : n \in 1 .. Len(d)}
    BY <2>1, Zenon
  <2>3. d[1][1] \in T
    BY <1>1, <2>2, Zenon
  <2> QED BY <1>8, <2>3, Zenon
<1> QED BY <1>1, <1>2, <1>7, <1>9, SeqLen, Zenon

\* Nobody has written to a reset connection at the start.
LEMMA HarmlessInit == Init => HarmlessInv
<1> SUFFICES ASSUME Init PROVE HarmlessInv
  OBVIOUS
<1>1. Active = {}
  BY Blank, Zenon DEF Init, Active
<1> QED BY <1>1, Zenon DEF Init, HarmlessInv

\* Connections are closed, and the others stay as they are.
LEMMA HarmlessKept ==
  ASSUME HarmlessInv, UNCHANGED <<doubled, env>>,
         status' # "killed", status' = "running" => status = "running",
         status' = "running" =>
           \A g \in Active' : /\ g \in Active
                              /\ clients'[g].wbuf = clients[g].wbuf
                              /\ sock'[g] = sock[g]
  PROVE  HarmlessInv'
<1>1. Harmless' <=> Harmless
  BY Zenon DEF Harmless
<1>2. ASSUME Harmless, status' = "running", NEW g \in Active' PROVE Quiet(clients'[g], sock'[g])
  <2>1. Quiet(clients[g], sock[g])
    BY <1>2, Zenon DEF HarmlessInv
  <2> QED BY <1>2, <2>1, Zenon DEF Quiet
<1>3. Harmless => status' # "killed" /\ doubled' = 0
  BY Zenon DEF HarmlessInv
<1> QED BY <1>1, <1>2, <1>3, Zenon DEF HarmlessInv, Quiet

\* Closing descriptors.
LEMMA HarmlessClosed ==
  ASSUME ServerInv, HarmlessInv, status = "running", NEW fds, NEW k, Closed(fds, k),
         UNCHANGED <<doubled, status, env>>
  PROVE  HarmlessInv'
<1>1. \A g \in Active' : g \in Active /\ clients'[g] = clients[g] /\ sock'[g] = sock[g]
  BY Blank, Zenon DEF Closed, Active
<1> QED BY <1>1, HarmlessKept, Zenon

\* The connection of fd becomes d and t.
LEMMA HarmlessBecomes ==
  ASSUME ServerInv, HarmlessInv, status = "running", NEW fd \in Fds, NEW d, NEW t,
         clients' = [clients EXCEPT ![fd] = d], sock' = [sock EXCEPT ![fd] = t],
         UNCHANGED <<doubled, status, env>>,
         Harmless => Quiet(d, t)
  PROVE  HarmlessInv'
<1>1. Harmless' <=> Harmless
  BY Zenon DEF Harmless
<1>2. clients \in [Fds -> Client] /\ sock \in [Fds -> Socket]
  BY Zenon DEF ServerInv, TypeInv
<1>3. ASSUME Harmless, NEW g \in Active' PROVE Quiet(clients'[g], sock'[g])
  <2>1. g \in Fds /\ clients'[g].active
    BY DEF Active
  <2>2. CASE g = fd
    BY <1>2, <1>3, <2>2, Zenon
  <2>3. CASE g # fd
    <3>1. clients'[g] = clients[g] /\ sock'[g] = sock[g]
      BY <1>2, <2>1, <2>3, Zenon
    <3>2. g \in Active
      BY <2>1, <3>1, Zenon DEF Active
    <3>3. Quiet(clients[g], sock[g])
      BY <1>3, <3>2, Zenon DEF HarmlessInv
    <3> QED BY <3>1, <3>3, Zenon
  <2> QED BY <2>2, <2>3, Zenon
<1>4. Harmless => status' # "killed" /\ doubled' = 0
  BY DEF HarmlessInv
<1> QED BY <1>1, <1>3, <1>4, Zenon DEF HarmlessInv, Quiet

\* on_accept.
LEMMA HarmlessAccept ==
  ASSUME ServerInv, HarmlessInv, NEW fd \in Fds, on_accept(fd)
  PROVE  HarmlessInv'
<1>1. /\ fd \notin Active /\ status = "running"
      /\ clients' = [clients EXCEPT ![fd] = NewClient]
      /\ UNCHANGED <<sock, doubled, status, env>>
  BY Zenon DEF on_accept, Dispatch, LowestFree, signalVars
<1>2. sock[fd] = NoSocket
  BY <1>1, ClientOf, Zenon DEF ConnInv, Active
<1>3. sock' = [sock EXCEPT ![fd] = NoSocket]
  BY <1>1, <1>2, Zenon DEF ServerInv, TypeInv
<1>4. Quiet(NewClient, NoSocket)
  BY Blank, Zenon DEF Quiet
<1> QED BY <1>1, <1>3, <1>4, HarmlessBecomes, Zenon

\* Nobody has output to wait for.
LEMMA HarmlessNoWriter ==
  ASSUME ServerInv, HarmlessInv, Harmless, status = "running", NEW fd \in Fds
  PROVE  fd \notin wr
<1>1. CASE clients[fd].active
  BY <1>1, ClientOf, Zenon DEF ConnInv, Drains, HarmlessInv, Quiet, Active
<1>2. CASE ~ clients[fd].active
  BY <1>2, ClientOf, Zenon DEF ConnInv
<1> QED BY <1>1, <1>2, ClientOf, Zenon

\* A request is never met by a reset.
LEMMA HarmlessNoFailure ==
  ASSUME ServerInv, HarmlessInv, Harmless, status = "running", FailsDirectWrite
  PROVE  FALSE
<1>1. busy \in Fds /\ HasHeader(clients[busy]) /\ sock[busy].rst
  BY DEF FailsDirectWrite, Answers, Delivers, ServerInv, TypeInv
<1>2. clients[busy].active
  BY <1>1, HandledActive, Zenon
<1>3. sock[busy].asked # << >>
  BY <1>1, <1>2, FirstAsked, Zenon
<1> QED BY <1>1, <1>2, <1>3, Zenon DEF HarmlessInv, Quiet, Active

\* Unless the setting is harmless, the invariant says nothing.
LEMMA HarmlessOnly ==
  ASSUME ~ Harmless, env' = env
  PROVE  HarmlessInv'
  BY DEF HarmlessInv, Harmless

\* on_read, when the socket has data.
LEMMA HarmlessRead ==
  ASSUME ServerInv, HarmlessInv, NEW fd \in Fds, NEW n, on_read_data(fd, n)
  PROVE  HarmlessInv'
<1>1. PICK c, s, b, r, d, t :
        /\ c = clients[fd] /\ s = sock[fd]
        /\ b = c.buf \o SubSeq(s.in, 1, n) /\ r = SubSeq(s.in, n + 1, Len(s.in))
        /\ d = [c EXCEPT !.buf = b, !.idle = 0] /\ t = [s EXCEPT !.in = r]
  BY Zenon
<1>2. /\ fd \in rd /\ status = "running"
      /\ clients' = [clients EXCEPT ![fd].buf = @ \o SubSeq(sock[fd].in, 1, n), ![fd].idle = 0]
      /\ sock' = [sock EXCEPT ![fd].in = SubSeq(@, n + 1, Len(@))]
      /\ UNCHANGED <<doubled, status, env>>
  BY DEF on_read_data, Dispatch, signalVars
<1>3. clients' = [clients EXCEPT ![fd] = d]
  BY <1>1, <1>2, Zenon
<1>4. sock' = [sock EXCEPT ![fd] = t]
  BY <1>1, <1>2, Zenon
<1>5. c \in Client /\ s \in Socket /\ fd \in Active
  BY <1>1, <1>2, ClientOf, HandledActive, Zenon DEF Active
<1>6. d.wbuf = c.wbuf
  BY <1>1, <1>5, Zenon DEF Client
<1>7. t.asked = s.asked /\ t.due = s.due
  BY <1>1, <1>5, Zenon DEF Socket
<1>8. t.rst = s.rst
  BY <1>1, <1>5, Zenon DEF Socket
<1>9. Harmless => Quiet(c, s)
  BY <1>1, <1>2, <1>5, Zenon DEF HarmlessInv
<1>10. Harmless => Quiet(d, t)
  BY <1>6, <1>7, <1>8, <1>9, Zenon DEF Quiet
<1> QED BY <1>2, <1>3, <1>4, <1>10, HarmlessBecomes, Zenon

\* The one answer is written at once and whole.
LEMMA HarmlessAnswer ==
  ASSUME ServerInv, HarmlessInv, Harmless, status = "running", NEW n, process_buffer_answers(n)
  PROVE  HarmlessInv'
<1>1. PICK fd, c, s, c1, u, c2, w, d, t :
        /\ fd = busy /\ c = clients[fd] /\ s = sock[fd]
        /\ c1 = Compacted(c, ReplySize) /\ u = FrameUnits(Reply(First(c1)))
        /\ c2 = Queued(c1, u, n) /\ d = Consumed(c2)
        /\ w = Written(s, u, n) /\ t = Answered(s, u, n)
  BY Zenon
<1>2. /\ busy # NoFd /\ Answers(c)
      /\ IF c1.wbuf = << >> THEN n \in Writable(fd, u) ELSE n = 0
      /\ clients' = [clients EXCEPT ![fd] = d] /\ sock' = [sock EXCEPT ![fd] = t]
      /\ UNCHANGED <<doubled, status, env>>
  BY <1>1, Zenon DEF process_buffer_answers, signalVars
<1>3. fd \in Fds /\ env \in Settings
  BY <1>1, <1>2, Zenon DEF ServerInv, TypeInv
<1>4. c \in Client /\ s \in Socket /\ fd \in Active /\ c.active
  BY <1>1, <1>3, ClientOf, HandledActive, Zenon DEF Active
<1>5. s.out \in Seq(Unit) /\ s.asked \in Seq(AnyFrame) /\ WbufOK(c) /\ Talks(c, s, env.sndbuf)
  BY <1>1, <1>3, <1>4, ClientOf, Zenon DEF ConnInv
<1>6. HasHeader(c)
  BY <1>2, Zenon DEF Answers, Delivers
<1>7. First(c) \in AnyFrame /\ s.asked # << >>
  BY <1>1, <1>3, <1>4, <1>6, FirstAsked, Zenon
<1>8. c.wbuf = << >> /\ s.due = << >> /\ Len(s.asked) = 1
  BY <1>1, <1>4, <1>7, Zenon DEF HarmlessInv, Quiet
<1>9. s.out = << >>
  <2>1. Pending(c) = << >>
    BY <1>4, <1>5, <1>8, PendingFacts, Zenon
  <2>2. Joined(s.out, << >>) = << >>
    BY <1>5, <1>8, <2>1, Zenon DEF Talks
  <2> QED BY <1>5, <2>2, JoinedEmpty, Zenon
<1>10. c1 \in Client /\ WbufOK(c1) /\ c1.buf = c.buf /\ c1.wbuf = << >>
  BY <1>1, <1>4, <1>5, <1>8, CompactedHolds, Zenon DEF Holds
<1>11. u \in Seq(Unit) /\ u # << >> /\ Len(u) = ReplySize
  <2>1. First(c1) = First(c)
    BY <1>10, Zenon DEF First
  <2> QED BY <1>1, <1>7, <2>1, ReplyFacts, Zenon
<1>12. n = Len(u) /\ n \in 0 .. Len(u)
  <2>1. Len(s.out) = 0 /\ env.sndbuf \in Nat /\ env.sndbuf >= ReplySize /\ env.signals = {}
    BY <1>3, <1>9, EmptySeq, EnvFacts, Zenon DEF Harmless
  <2>2. n \in Writable(fd, u)
    BY <1>2, <1>10, Zenon
  <2>3. n = (IF Len(u) < env.sndbuf - Len(s.out) THEN Len(u) ELSE env.sndbuf - Len(s.out))
    BY <1>1, <2>1, <2>2, Zenon DEF Writable
  <2>4. n = ReplySize
    BY <1>11, <2>1, <2>3, Sizes
  <2> QED BY <1>11, <2>4, Sizes
<1>13. c2.wbuf = << >> /\ c2 \in Client
  <2>1. Len(c1.wbuf) + Len(u) <= WBUF_SIZE
    <3>1. Len(c1.wbuf) = 0
      BY <1>10, EmptySeq, Zenon
    <3> QED BY <1>11, <3>1, Sizes
  <2>2. /\ Holds(Queued(c1, u, n), c1, Rest(u, n))
        /\ Queued(c1, u, n).wbuf = << >>
    BY <1>10, <1>11, <1>12, <2>1, QueuedHolds, Zenon
  <2> QED BY <1>1, <2>2, Zenon DEF Holds
<1>14. d.wbuf = << >>
  BY <1>1, <1>13, Zenon DEF Consumed, Client
<1>15. t.asked = << >>
  <2>1. Sent(w, s, u, n)
    BY <1>1, <1>4, <1>11, <1>12, WrittenFacts, Zenon
  <2>2. w \in Socket /\ w.asked = s.asked
    BY <2>1, Zenon DEF Sent
  <2>3. t = [w EXCEPT !.asked = SubSeq(@, 2, Len(@)), !.due = @ \o u]
    BY <1>1, Zenon DEF Answered
  <2>4. t.asked = SubSeq(s.asked, 2, Len(s.asked))
    BY <2>2, <2>3, Zenon DEF Socket
  <2>5. SubSeq(s.asked, 2, 1) = << >>
    BY SubSeqEmpty
  <2> QED BY <1>8, <2>4, <2>5, Zenon
<1>16. Quiet(d, t)
  BY <1>14, <1>15, Zenon DEF Quiet
<1> QED BY <1>2, <1>3, <1>16, HarmlessBecomes, Zenon

\* A peer moves its side of one connection.
LEMMA HarmlessPeer ==
  ASSUME ServerInv, HarmlessInv, status = "running", NEW fd \in Active, NEW t,
         sock' = [sock EXCEPT ![fd] = t],
         UNCHANGED <<clients, doubled, status, env>>,
         Harmless /\ Quiet(clients[fd], sock[fd]) => Quiet(clients[fd], t)
  PROVE  HarmlessInv'
<1>1. PICK d : d = clients[fd]
  OBVIOUS
<1>2. fd \in Fds
  BY DEF Active
<1>3. clients' = [clients EXCEPT ![fd] = d]
  BY <1>1, <1>2, Zenon DEF ServerInv, TypeInv
<1>4. Harmless => Quiet(d, t)
  BY <1>1 DEF HarmlessInv
<1> QED BY <1>2, <1>3, <1>4, HarmlessBecomes, Zenon

\* A worker sends a request.
LEMMA HarmlessSends ==
  ASSUME ServerInv, HarmlessInv, NEW fd \in Fds, NEW len \in env.lens, NEW kind \in env.kinds,
         PeerSends(fd, len, kind)
  PROVE  HarmlessInv'
<1>1. PICK t, f : /\ f \in AnyFrame
                  /\ Asks(t, sock[fd], f)
                  /\ sock' = [sock EXCEPT ![fd] = t]
  BY SendsFacts, Zenon
<1>2. /\ fd \in Active /\ status = "running" /\ UNCHANGED <<clients, doubled, status, env>>
      /\ ~ sock[fd].rst /\ Unanswered(sock[fd]) < env.window
  BY Zenon DEF PeerSends, PeerUnchanged, serverVars, signalVars
<1>3. ASSUME Harmless, Quiet(clients[fd], sock[fd]) PROVE Quiet(clients[fd], t)
  <2>1. sock[fd].asked = << >> /\ sock[fd].due = << >>
    BY <1>2, <1>3, ClientOf, NothingUnanswered, Zenon DEF Harmless
  <2>2. << >> \in Seq(AnyFrame) /\ Len(<< >>) = 0
    BY EmptySeq, Zenon
  <2>3. Len(Append(<< >>, f)) = 1
    BY <1>1, <2>2, AppendProperties
  <2>4. t.asked = Append(<< >>, f) /\ t.due = << >> /\ ~ t.rst
    BY <1>1, <1>2, <2>1, Zenon DEF Asks
  <2> QED BY <1>3, <2>3, <2>4, Zenon DEF Quiet
<1> QED BY <1>1, <1>2, <1>3, HarmlessPeer, Zenon

\* A worker reads an answer.
LEMMA HarmlessReads ==
  ASSUME ServerInv, HarmlessInv, status = "running", NEW fd \in Fds, NEW n \in Nat \ {0},
         PeerReads(fd, n)
  PROVE  HarmlessInv'
<1>1. PICK t : Reads(t, sock[fd], n) /\ sock' = [sock EXCEPT ![fd] = t]
  BY ReadsFacts, Zenon
<1>2. PICK c, s, p : c = clients[fd] /\ s = sock[fd] /\ p = Pending(c)
  BY Zenon
<1>3. /\ fd \in Active /\ n <= Len(s.out) /\ UNCHANGED <<clients, doubled, status, env>>
  BY <1>2, Zenon DEF PeerReads, PeerUnchanged, serverVars, signalVars
<1>4. /\ c \in Client /\ WbufOK(c) /\ s.out \in Seq(Unit) /\ Talks(c, s, env.sndbuf)
  BY <1>2, <1>3, ClientOf, Zenon DEF ConnInv, Active
<1>5. s.due # << >>
  <2>1. p \in Seq(Unit) /\ Joined(s.out, p) = s.due
    BY <1>2, <1>4, PendingFacts, Zenon DEF Talks
  <2>2. Len(s.out) \in Nat /\ Len(p) \in Nat /\ Len(s.due) = Len(s.out) + Len(p)
    BY <1>4, <2>1, SeqLen, JoinedFacts, Zenon
  <2>3. Len(s.due) # 0
    BY <1>3, <2>2
  <2> QED BY <2>3, EmptySeq, Zenon
<1>6. Quiet(c, s) => Quiet(c, t)
  <2>1. t.asked = s.asked /\ t.rst = s.rst
    BY <1>1, <1>2, Zenon DEF Reads
  <2> QED BY <1>5, <2>1, Zenon DEF Quiet
<1> QED BY <1>1, <1>2, <1>3, <1>6, HarmlessPeer, Zenon

\* A worker dies.
LEMMA HarmlessCloses ==
  ASSUME ServerInv, HarmlessInv, NEW fd \in Fds, PeerCloses(fd)
  PROVE  HarmlessInv'
<1>1. PICK t : Same(t, sock[fd]) /\ t.rst = sock[fd].rst /\ sock' = [sock EXCEPT ![fd] = t]
  BY ClosesFacts, Zenon
<1>2. fd \in Active /\ status = "running" /\ UNCHANGED <<clients, doubled, status, env>>
  BY Zenon DEF PeerCloses, PeerUnchanged, serverVars, signalVars
<1>3. Quiet(clients[fd], sock[fd]) => Quiet(clients[fd], t)
  BY <1>1, Zenon DEF Quiet, Same
<1> QED BY <1>1, <1>2, <1>3, HarmlessPeer, Zenon

\* The event loop's iteration up to its poll.
LEMMA HarmlessPolls ==
  ASSUME ServerInv, HarmlessInv, NEW ticks \in {0, 1}, el_run_polls(ticks)
  PROVE  HarmlessInv'
<1>1. /\ status = "running" /\ UNCHANGED <<doubled, status, env>>
      /\ IF env.before_sleep THEN server_before_sleep(ticks)
         ELSE UNCHANGED <<clients, clients_count, rd, wr, sock>>
  BY Zenon DEF el_run_polls, AtTop, signalVars
<1>2. CASE env.before_sleep
  <2>1. PICK fds : Dropped(fds, ticks)
    BY <1>1, <1>2, BeforeSleepFacts, Zenon
  <2>2. ASSUME NEW g \in Active'
        PROVE  g \in Active /\ clients'[g].wbuf = clients[g].wbuf /\ sock'[g] = sock[g]
    <3>1. g \in Fds /\ clients'[g].active
      BY Zenon DEF Active
    <3>2. g \notin fds
      BY <2>1, <3>1, Blank, Zenon DEF Dropped
    <3>3. clients'[g] = Aged(clients[g], ticks) /\ sock'[g] = sock[g]
      BY <2>1, <3>1, <3>2, Zenon DEF Dropped
    <3>4. clients[g] \in Client
      BY <3>1, ClientOf, Zenon
    <3>5. clients'[g].active = clients[g].active /\ clients'[g].wbuf = clients[g].wbuf
      BY <3>3, <3>4, AgedFacts
    <3> QED BY <3>1, <3>3, <3>5, Zenon DEF Active
  <2> QED BY <1>1, <2>2, HarmlessKept, Zenon
<1>3. CASE ~ env.before_sleep
  <2>1. UNCHANGED <<clients, sock>>
    BY <1>1, <1>3, Zenon
  <2>2. \A g \in Active' : g \in Active /\ clients'[g].wbuf = clients[g].wbuf /\ sock'[g] = sock[g]
    BY <2>1, Zenon DEF Active
  <2> QED BY <1>1, <2>2, HarmlessKept, Zenon
<1> QED BY <1>2, <1>3, Zenon

\* process_buffer, all its outcomes.
LEMMA HarmlessBuffer ==
  ASSUME ServerInv, HarmlessInv, Harmless, status = "running", process_buffer
  PROVE  HarmlessInv'
<1>1. CASE process_buffer_waits
  <2>1. UNCHANGED <<clients, sock, doubled, status, env>>
    BY <1>1, Zenon DEF process_buffer_waits, signalVars
  <2>2. \A g \in Active' : g \in Active /\ clients'[g].wbuf = clients[g].wbuf /\ sock'[g] = sock[g]
    BY <2>1, Zenon DEF Active
  <2> QED BY <2>1, <2>2, HarmlessKept, Zenon
<1>2. CASE process_buffer_drops
  <2>1. Closed({busy}, clients_count - 1) /\ UNCHANGED <<doubled, status, env>>
    BY <1>2, Zenon DEF process_buffer_drops, remove_client, signalVars
  <2> QED BY <2>1, HarmlessClosed, Zenon
<1>3. ASSUME NEW n \in 0 .. ReplySize, process_buffer_answers(n) PROVE HarmlessInv'
  BY <1>3, HarmlessAnswer, Zenon
<1>4. CASE process_buffer_write_fails \/ process_buffer_sigpipe
  BY <1>4, HarmlessNoFailure, Zenon DEF process_buffer_write_fails, process_buffer_sigpipe
<1> QED BY <1>1, <1>2, <1>3, <1>4, Zenon DEF process_buffer

\* A handler of the event loop, all its outcomes.
LEMMA HarmlessHandler ==
  ASSUME ServerInv, HarmlessInv, Harmless, NEW fd \in Fds, Handler(fd)
  PROVE  HarmlessInv'
<1>1. ASSUME NEW n \in 1 .. BufSize, on_read_data(fd, n) PROVE HarmlessInv'
  BY <1>1, HarmlessRead, Zenon
<1>2. CASE on_read_end(fd)
  <2>1. /\ status = "running" /\ Closed({fd}, clients_count - 1)
        /\ UNCHANGED <<doubled, status, env>>
    BY <1>2, Zenon DEF on_read_end, Dispatch, remove_client, signalVars
  <2> QED BY <2>1, HarmlessClosed, Zenon
<1>3. CASE on_read_again(fd) \/ on_accept_rejects(fd)
  <2>1. status = "running" /\ UNCHANGED <<clients, sock, doubled, status, env>>
    BY <1>3, Zenon DEF on_read_again, on_accept_rejects, Dispatch, serverVars, signalVars
  <2>2. \A g \in Active' : g \in Active /\ clients'[g].wbuf = clients[g].wbuf /\ sock'[g] = sock[g]
    BY <2>1 DEF Active
  <2> QED BY <2>1, <2>2, HarmlessKept, Zenon
<1>4. CASE (\E n \in 0 .. WBUF_SIZE : on_write(fd, n)) \/ on_write_fails(fd) \/ on_write_sigpipe(fd)
  <2>1. status = "running" /\ fd \in wr
    BY <1>4, Zenon DEF on_write, on_write_fails, on_write_sigpipe, Dispatch
  <2> QED BY <2>1, HarmlessNoWriter, Zenon
<1>5. CASE on_accept(fd)
  BY <1>5, HarmlessAccept, Zenon
<1> QED BY <1>1, <1>2, <1>3, <1>4, <1>5, Zenon DEF Handler

\* A step of a worker.
LEMMA HarmlessPeers ==
  ASSUME ServerInv, HarmlessInv, Harmless, PeerStep
  PROVE  HarmlessInv'
<1>1. CASE PeerConnects
  <2>1. status = "running" /\ UNCHANGED <<clients, sock, doubled, status, env>>
    BY <1>1, Zenon DEF PeerConnects, serverVars, signalVars
  <2>2. \A g \in Active' : g \in Active /\ clients'[g].wbuf = clients[g].wbuf /\ sock'[g] = sock[g]
    BY <2>1, Zenon DEF Active
  <2> QED BY <2>1, <2>2, HarmlessKept, Zenon
<1>2. ASSUME NEW fd \in Fds, NEW len \in env.lens, NEW kind \in env.kinds,
             PeerSends(fd, len, kind)
      PROVE  HarmlessInv'
  BY <1>2, HarmlessSends, Zenon
<1>3. ASSUME NEW fd \in Fds, NEW n \in 1 .. env.sndbuf, PeerReads(fd, n) PROVE HarmlessInv'
  <2>1. n \in Nat \ {0}
    BY EnvFacts DEF ServerInv, TypeInv
  <2>2. CASE status = "running"
    BY <1>3, <2>1, <2>2, HarmlessReads, Zenon
  <2>3. CASE status # "running"
    <3>1. UNCHANGED <<doubled, status, env>>
      BY <1>3, Zenon DEF PeerReads, PeerUnchanged, serverVars, signalVars
    <3>2. status # "killed"
      BY Zenon DEF HarmlessInv
    <3> QED BY <2>3, <3>1, <3>2, HarmlessKept, Zenon
  <2> QED BY <2>2, <2>3, Zenon
<1>4. ASSUME NEW fd \in Fds, PeerCloses(fd) PROVE HarmlessInv'
  BY <1>4, HarmlessCloses, Zenon
<1>5. ASSUME NEW fd \in Fds, PeerResetsConnection(fd) PROVE HarmlessInv'
  BY <1>5, Zenon DEF PeerResetsConnection, Harmless
<1> QED BY <1>1, <1>2, <1>3, <1>4, <1>5, Zenon DEF PeerStep

\* Every step keeps HarmlessInv.
LEMMA HarmlessStep == ServerInv /\ HarmlessInv /\ [Next]_vars => HarmlessInv'
<1> SUFFICES ASSUME ServerInv, HarmlessInv, [Next]_vars PROVE HarmlessInv'
  BY Zenon
<1>1. env' = env
  <2>1. CASE process_buffer
    BY <2>1, Zenon DEF process_buffer, process_buffer_waits, process_buffer_drops,
                process_buffer_answers, process_buffer_write_fails, process_buffer_sigpipe
  <2>2. ASSUME NEW fd \in Fds, Handler(fd) PROVE env' = env
    BY <2>2, Zenon DEF Handler, on_read_data, on_read_end, on_read_again, on_write, on_write_fails,
                on_write_sigpipe, on_accept, on_accept_rejects
  <2>3. CASE \/ on_shutdown \/ (\E e \in events : el_run_skips(e)) \/ server_shutdown
             \/ \E ticks \in {0, 1} : el_run_polls(ticks)
    BY <2>3, Zenon DEF on_shutdown, el_run_skips, server_shutdown, el_run_polls
  <2>4. CASE PeerConnects
    BY <2>4, Zenon DEF PeerConnects
  <2>5. ASSUME NEW fd \in Fds,
               \/ \E len \in env.lens, kind \in env.kinds : PeerSends(fd, len, kind)
               \/ \E n \in 1 .. env.sndbuf : PeerReads(fd, n)
               \/ PeerCloses(fd)
               \/ PeerResetsConnection(fd)
        PROVE  env' = env
    <3>1. PeerUnchanged
      BY <2>5, Zenon DEF PeerSends, PeerReads, PeerCloses, PeerResetsConnection
    <3> QED BY <3>1, Zenon DEF PeerUnchanged
  <2>6. CASE \E sig \in env.signals : sig_shutdown_handler(sig)
    BY <2>6, Zenon DEF sig_shutdown_handler
  <2>7. CASE UNCHANGED vars
    BY <2>7, Zenon DEF vars
  <2> QED BY <2>1, <2>2, <2>3, <2>4, <2>5, <2>6, <2>7, Zenon DEF Next, ServerStep, PeerStep
<1>2. CASE ~ Harmless
  BY <1>1, <1>2, HarmlessOnly, Zenon
<1>3. CASE Harmless
  <2>1. CASE status = "running" /\ process_buffer
    BY <1>3, <2>1, HarmlessBuffer, Zenon
  <2>2. ASSUME NEW fd \in Fds, Handler(fd) PROVE HarmlessInv'
    BY <1>3, <2>2, HarmlessHandler, Zenon
  <2>3. CASE on_shutdown \/ (\E e \in events : el_run_skips(e))
    <3>1. status = "running" /\ UNCHANGED <<clients, sock, doubled, status, env>>
      BY <2>3, Zenon DEF on_shutdown, el_run_skips, Dispatch, serverVars, signalVars
    <3>2. \A g \in Active' : g \in Active /\ clients'[g].wbuf = clients[g].wbuf /\ sock'[g] = sock[g]
      BY <3>1, Zenon DEF Active
    <3> QED BY <3>1, <3>2, HarmlessKept, Zenon
  <2>4. ASSUME NEW ticks \in {0, 1}, el_run_polls(ticks) PROVE HarmlessInv'
    BY <2>4, HarmlessPolls, Zenon
  <2>5. CASE server_shutdown
    <3>1. status' = "stopped" /\ UNCHANGED <<doubled, env>>
      BY <2>5, Zenon DEF server_shutdown, serverVars
    <3> QED BY <3>1, HarmlessKept, Zenon
  <2>6. CASE PeerStep
    BY <1>3, <2>6, HarmlessPeers, Zenon
  <2>7. CASE \E sig \in env.signals : sig_shutdown_handler(sig)
    BY <1>3, <2>7, Zenon DEF Harmless
  <2>8. CASE UNCHANGED vars
    <3>1. UNCHANGED <<clients, sock, doubled, status, env>>
      BY <2>8, Zenon DEF vars, serverVars, signalVars
    <3>2. \A g \in Active' : g \in Active /\ clients'[g].wbuf = clients[g].wbuf /\ sock'[g] = sock[g]
      BY <3>1, Zenon DEF Active
    <3>3. status # "killed"
      BY <1>3, Zenon DEF HarmlessInv
    <3> QED BY <3>1, <3>2, <3>3, HarmlessKept, Zenon
  <2> QED BY <2>1, <2>2, <2>3, <2>4, <2>5, <2>6, <2>7, <2>8, Zenon DEF Next, ServerStep
<1> QED BY <1>2, <1>3, Zenon

\* Workers that die at any point do not harm the coordinator: with one request
\* at a time whose answer fits the socket, no write of queue_write or on_write
\* meets a reset connection, so no SIGPIPE ends the process and no client is
\* removed twice, however many workers there are.
THEOREM WorkersHarmlessAlways == Spec => []WorkersHarmless
<1>1. Spec => []HarmlessInv
  BY HarmlessInit, HarmlessStep, ServerInvariant, PTL DEF Spec
<1>2. HarmlessInv => WorkersHarmless
  BY DEF HarmlessInv, Harmless, WorkersHarmless
<1> QED BY <1>1, <1>2, PTL

=============================================================================
