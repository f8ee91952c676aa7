------------------------------- MODULE Server -------------------------------
(***************************************************************************)
(* The server of src/src/server.c on the event loop of                     *)
(* src/src/event_loop.c: accepting, framing, buffered writes, removal,     *)
(* client timeouts and shutdown, against peers that may send several       *)
(* frames without reading, stop reading, close or reset.                   *)
(*                                                                         *)
(* Streams are sequences of units.  A unit names the frame it belongs to   *)
(* and its place in it; the first FRAME_HDR_SIZE units of a frame are its  *)
(* length prefix.  A read takes any non-empty prefix of what the socket    *)
(* holds and what fits, a write as much as the socket has room for.  The   *)
(* event loop runs one handler at a time; the kernel and the peers move    *)
(* between the iterations of process_buffer.                               *)
(*                                                                         *)
(* on_message stands for master_on_message: it rejects a frame or answers  *)
(* it with one frame of ReplyLen units of payload.                         *)
(***************************************************************************)
EXTENDS Integers, FiniteSets, Sequences, SequenceOps

CONSTANTS
  Fds,             \* descriptors the kernel may hand out
  MAX_FDS,         \* bound of clients[] and of the handler tables
  MAX_EVENTS,      \* length of a batch of events
  FRAME_HDR_SIZE,
  MSG_MAX,
  ReplyLen,        \* payload of a reply
  MaxBacklog,      \* connections waiting to be accepted
  CountWidth,      \* clients_count is an unsigned number of this many bits
  ClientTimeout,   \* client_timeout_s; a tick is the interval of the check
  Settings         \* the surroundings a server may be put into

\* peers: connections at a time; lens, kinds: payload lengths a peer announces,
\* and whether its frames are answered ("ok") or rejected ("bad"); frames: how
\* many it sends on a connection, window: before it reads an answer, which for
\* a worker is 1; reads: whether it reads what it is sent; resets: whether it
\* may reset a connection; sndbuf: units the kernel buffers towards a peer;
\* kernel_fails: whether kevent may refuse to register a descriptor, in el_add
\* and in el_add_write, and set_non_blocking fail in on_accept; signals: those
\* that may arrive; before_sleep: whether the build calls before_sleep_proc.
Setting ==
  [peers : Nat, lens : SUBSET Nat, kinds : SUBSET {"ok", "bad"}, frames : Nat,
   window : Nat, reads : BOOLEAN, resets : BOOLEAN, sndbuf : Nat,
   kernel_fails : BOOLEAN, signals : SUBSET {"SIGINT", "SIGTERM"},
   before_sleep : BOOLEAN]

ASSUME ServerAssumption ==
  /\ Fds \subseteq Nat
  /\ \E fd \in Fds : fd >= MAX_FDS
  /\ FRAME_HDR_SIZE \in Nat \ {0}
  /\ MSG_MAX \in Nat
  /\ ReplyLen \in 0 .. MSG_MAX
  /\ ClientTimeout \in Nat
  /\ Settings \subseteq Setting

VARIABLES
  clients,        \* clients[fd]
  clients_count,
  rd, wr,         \* the descriptors with a read and with a write handler
  events,         \* what is left of the batch kevent returned
  busy,           \* the descriptor process_buffer is looping over, or NoFd
  sock,           \* the kernel's and the peer's side of a connection
  backlog,        \* connections waiting in the listening socket
  pipe,           \* whether the shutdown pipe holds a byte
  signaled,       \* shutdown_signaled
  stop,           \* el->stop
  status,         \* "running", "stopped" by el_run returning, or "killed"
  doubled,        \* how often a failed write led to a second remove_client
  env             \* the setting this server is in

serverVars == <<clients, clients_count, rd, wr, busy, doubled>>
signalVars == <<pipe, signaled, stop, status>>
vars == <<serverVars, events, sock, backlog, signalVars, env>>

NoFd == -1
BufSize == MSG_MAX + FRAME_HDR_SIZE
WBUF_SIZE == 2 * (MSG_MAX + FRAME_HDR_SIZE)
CountMod == 2 ^ CountWidth

Frame == [seq : 1 .. env.frames, len : env.lens, kind : env.kinds]

FrameUnits(f) == [n \in 1 .. FRAME_HDR_SIZE + f.len |-> <<f, n>>]

Reply(f) == [seq |-> f.seq, len |-> ReplyLen, kind |-> "reply"]

\* (client_t){0}, and the client on_accept fills in
NoClient == [active |-> FALSE, buf |-> << >>, wbuf |-> << >>, woff |-> 0, idle |-> 0]
NewClient == [NoClient EXCEPT !.active = TRUE]

\* in, out: units in the kernel's buffers; sent: frames sent so far;
\* asked: frames sent and not yet consumed by process_buffer;
\* due: units of replies promised by server_send and not yet read by the peer
NoSocket == [in |-> << >>, out |-> << >>, fin |-> FALSE, rst |-> FALSE,
             sent |-> 0, asked |-> << >>, due |-> << >>]

Active == {fd \in Fds : clients[fd].active}

Pending(c) == SubSeq(c.wbuf, c.woff + 1, Len(c.wbuf))

Init ==
  /\ clients = [fd \in Fds |-> NoClient]
  /\ clients_count = 0
  /\ rd = {} /\ wr = {}
  /\ events = {}
  /\ busy = NoFd
  /\ sock = [fd \in Fds |-> NoSocket]
  /\ backlog = 0
  /\ pipe = FALSE /\ signaled = FALSE /\ stop = FALSE
  /\ status = "running"
  /\ doubled = 0
  /\ env \in Settings

-----------------------------------------------------------------------------
(***************************************************************************)
(* Handlers                                                                *)
(***************************************************************************)

\* Closing a descriptor also discards its socket.
Closed(fds, count) ==
  /\ clients' = [fd \in Fds |-> IF fd \in fds THEN NoClient ELSE clients[fd]]
  /\ clients_count' = count % CountMod
  /\ rd' = rd \ fds
  /\ wr' = wr \ fds
  /\ sock' = [fd \in Fds |-> IF fd \in fds THEN NoSocket ELSE sock[fd]]

remove_client(fd) == Closed({fd}, clients_count - 1) /\ UNCHANGED doubled

\* queue_write removes the client, and so does process_buffer when on_message
\* returns -1: close fails the second time, the count goes down twice.
remove_client_twice(fd) ==
  /\ Closed({fd}, clients_count - 2)
  /\ doubled' = (doubled + 1) % CountMod

\* What write(2) may move: as much as fits, nothing on EAGAIN or EINTR.
Writable(fd, data) ==
  LET room == env.sndbuf - Len(sock[fd].out)
      most == IF Len(data) < room THEN Len(data) ELSE room
  IN  {most} \cup (IF env.signals = {} THEN {} ELSE {0})

\* A peer that has closed answers data with a reset.
Written(s, data, n) ==
  [s EXCEPT !.out = @ \o SubSeq(data, 1, n), !.rst = @ \/ (s.fin /\ n > 0)]

Advanced(c, n) ==
  IF c.woff + n = Len(c.wbuf) THEN [c EXCEPT !.wbuf = << >>, !.woff = 0]
                              ELSE [c EXCEPT !.woff = @ + n]

\* The memmove at the top of queue_write.
Compacted(c, len) ==
  IF Len(c.wbuf) + len > WBUF_SIZE /\ c.woff > 0
  THEN [c EXCEPT !.wbuf = Pending(c), !.woff = 0]
  ELSE c

Overflows(c, len) == Len(Compacted(c, len).wbuf) + len > WBUF_SIZE

\* Mutant: a partial direct write is forgotten, and what it wrote sent again.
QueuedAgain(c, data, n) ==
  IF c.wbuf = << >> /\ n = Len(data) THEN c ELSE [c EXCEPT !.wbuf = @ \o data]

\* The client after queue_write; the fast path has written n units.
Queued(c, data, n) ==
  IF c.wbuf = << >> THEN Advanced([c EXCEPT !.wbuf = data], n)
                    ELSE [c EXCEPT !.wbuf = @ \o data]

-----------------------------------------------------------------------------
(***************************************************************************)
(* One iteration of process_buffer, by the way it leaves                   *)
(***************************************************************************)

First(c) == c.buf[1][1]

HasHeader(c) == Len(c.buf) >= FRAME_HDR_SIZE

Whole(c) == Len(c.buf) >= FRAME_HDR_SIZE + First(c).len

Oversize(c) == First(c).len > MSG_MAX

ReplySize == FRAME_HDR_SIZE + ReplyLen

\* The frame is handed to on_message.
Delivers(c) == HasHeader(c) /\ ~ Oversize(c) /\ Whole(c)

\* Mutant: the bytes of the consumed frame include only its payload.
ConsumedPayload(c) == [c EXCEPT !.buf = SubSeq(@, First(c).len + 1, Len(@))]

\* Mutant: the frame stays in the buffer.
ConsumedNothing(c) == c

Consumed(c) == [c EXCEPT !.buf = SubSeq(@, FRAME_HDR_SIZE + First(c).len + 1, Len(@))]

process_buffer_waits ==
  /\ busy # NoFd
  /\ HasHeader(clients[busy]) => ~ Oversize(clients[busy]) /\ ~ Whole(clients[busy])
  /\ busy' = NoFd
  /\ UNCHANGED <<clients, clients_count, rd, wr, doubled, events, sock, backlog, signalVars, env>>

\* Too long, rejected by on_message, or no room for the answer.
Unwelcome(c) ==
  /\ HasHeader(c)
  /\ Oversize(c) \/ (Whole(c) /\ (First(c).kind = "bad" \/ Overflows(c, ReplySize)))

process_buffer_drops ==
  /\ busy # NoFd
  /\ Unwelcome(clients[busy])
  /\ remove_client(busy)
  /\ busy' = NoFd
  /\ UNCHANGED <<events, backlog, signalVars, env>>

Answers(c) == Delivers(c) /\ First(c).kind = "ok" /\ ~ Overflows(c, ReplySize)

\* One frame less is unanswered, and its reply is promised.
Answered(s, data, n) ==
  [Written(s, data, n) EXCEPT !.asked = SubSeq(@, 2, Len(@)), !.due = @ \o data]

\* queue_write ignores the result: when kevent fails the handler is not set and
\* the output stays in wbuf, until another answer to the client tries again.
el_add_write(fd) ==
  \/ wr' = wr \cup {fd}
  \/ env.kernel_fails /\ wr' = wr

\* Mutant: an if for the while, one frame for each call of process_buffer.
process_buffer_answers_once(n) ==
  LET c    == Compacted(clients[busy], ReplySize)
      data == FrameUnits(Reply(First(c)))
      c2   == Queued(c, data, n)
  IN  /\ busy # NoFd
      /\ Answers(clients[busy])
      /\ IF c.wbuf = << >> THEN ~ sock[busy].rst /\ n \in Writable(busy, data)
                           ELSE n = 0
      /\ clients' = [clients EXCEPT ![busy] = Consumed(c2)]
      /\ IF c2.wbuf = << >> THEN UNCHANGED wr ELSE el_add_write(busy)
      /\ sock' = [sock EXCEPT ![busy] = Answered(@, data, n)]
      /\ busy' = NoFd
      /\ UNCHANGED <<clients_count, rd, doubled, events, backlog, signalVars, env>>

process_buffer_answers(n) ==
  LET c    == Compacted(clients[busy], ReplySize)
      data == FrameUnits(Reply(First(c)))
      c2   == Queued(c, data, n)
  IN  /\ busy # NoFd
      /\ Answers(clients[busy])
      /\ IF c.wbuf = << >> THEN ~ sock[busy].rst /\ n \in Writable(busy, data)
                           ELSE n = 0
      /\ clients' = [clients EXCEPT ![busy] = Consumed(c2)]
      /\ IF c2.wbuf = << >> THEN UNCHANGED wr ELSE el_add_write(busy)
      /\ sock' = [sock EXCEPT ![busy] = Answered(@, data, n)]
      /\ UNCHANGED <<clients_count, rd, busy, doubled, events, backlog, signalVars, env>>

\* The direct write meets a reset connection.  EPIPE comes with a SIGPIPE,
\* which the program leaves at its default, ECONNRESET without.
FailsDirectWrite == /\ busy # NoFd
                    /\ Answers(clients[busy])
                    /\ clients[busy].wbuf = << >>
                    /\ sock[busy].rst

process_buffer_write_fails ==
  /\ FailsDirectWrite
  /\ remove_client_twice(busy)
  /\ busy' = NoFd
  /\ UNCHANGED <<events, backlog, signalVars, env>>

process_buffer_sigpipe ==
  /\ FailsDirectWrite
  /\ status' = "killed"
  /\ UNCHANGED <<serverVars, events, sock, backlog, pipe, signaled, stop, env>>

process_buffer ==
  \/ process_buffer_waits
  \/ process_buffer_drops
  \/ \E n \in 0 .. ReplySize : process_buffer_answers(n)
  \/ process_buffer_write_fails
  \/ process_buffer_sigpipe

-----------------------------------------------------------------------------
(***************************************************************************)
(* Event handlers.  An event whose handler is gone is skipped; a read      *)
(* event left over from a closed descriptor may meet the client that was   *)
(* accepted on the same descriptor since.                                  *)
(***************************************************************************)

Dispatch(e) ==
  /\ status = "running"
  /\ busy = NoFd
  /\ e \in events
  /\ events' = events \ {e}

el_run_skips(e) ==
  /\ Dispatch(e)
  /\ \/ e[1] = "read" /\ e[2] \notin rd
     \/ e[1] = "write" /\ e[2] \notin wr
  /\ UNCHANGED <<serverVars, sock, backlog, signalVars, env>>

Room(c) == BufSize - Len(c.buf)

on_read_data(fd, n) ==
  /\ Dispatch(<<"read", fd>>)
  /\ fd \in rd
  /\ n \in 1 .. Room(clients[fd])
  /\ n <= Len(sock[fd].in)
  /\ clients' = [clients EXCEPT ![fd].buf = @ \o SubSeq(sock[fd].in, 1, n),
                                ![fd].idle = 0]
  /\ sock' = [sock EXCEPT ![fd].in = SubSeq(@, n + 1, Len(@))]
  /\ busy' = fd
  /\ UNCHANGED <<clients_count, rd, wr, doubled, backlog, signalVars, env>>

\* Mutant: EAGAIN is taken for the end of the stream.
ReadEndsOnAgain(fd) ==
  \/ Room(clients[fd]) = 0
  \/ sock[fd].in = << >>
  \/ sock[fd].rst

\* read returns 0 at the end of the stream, and when no room is left for it
\* to fill; it fails on a reset connection.
ReadEnds(fd) ==
  \/ Room(clients[fd]) = 0
  \/ sock[fd].in = << >> /\ sock[fd].fin
  \/ sock[fd].rst

on_read_end(fd) ==
  /\ Dispatch(<<"read", fd>>)
  /\ fd \in rd
  /\ ReadEnds(fd)
  /\ remove_client(fd)
  /\ UNCHANGED <<busy, backlog, signalVars, env>>

\* EAGAIN: the event belonged to an earlier connection.
on_read_again(fd) ==
  /\ Dispatch(<<"read", fd>>)
  /\ fd \in rd
  /\ sock[fd].in = << >>
  /\ ~ ReadEnds(fd)
  /\ UNCHANGED <<serverVars, sock, backlog, signalVars, env>>

\* Mutant: the write handler stays registered once everything is sent.
on_write_keeps(fd, n) ==
  /\ Dispatch(<<"write", fd>>)
  /\ fd \in wr
  /\ ~ sock[fd].rst
  /\ n \in Writable(fd, Pending(clients[fd]))
  /\ clients' = [clients EXCEPT ![fd] = Advanced(@, n)]
  /\ sock' = [sock EXCEPT ![fd] = Written(@, Pending(clients[fd]), n)]
  /\ busy' = IF n = Len(Pending(clients[fd])) THEN fd ELSE NoFd
  /\ UNCHANGED <<clients_count, rd, wr, doubled, backlog, signalVars, env>>

on_write(fd, n) ==
  LET drained == n = Len(Pending(clients[fd]))
  IN  /\ Dispatch(<<"write", fd>>)
      /\ fd \in wr
      /\ ~ sock[fd].rst
      /\ n \in Writable(fd, Pending(clients[fd]))
      /\ clients' = [clients EXCEPT ![fd] = Advanced(@, n)]
      /\ sock' = [sock EXCEPT ![fd] = Written(@, Pending(clients[fd]), n)]
      /\ wr' = IF drained THEN wr \ {fd} ELSE wr
      /\ busy' = IF drained THEN fd ELSE NoFd
      /\ UNCHANGED <<clients_count, rd, doubled, backlog, signalVars, env>>

on_write_fails(fd) ==
  /\ Dispatch(<<"write", fd>>)
  /\ fd \in wr
  /\ sock[fd].rst
  /\ remove_client(fd)
  /\ UNCHANGED <<busy, backlog, signalVars, env>>

on_write_sigpipe(fd) ==
  /\ Dispatch(<<"write", fd>>)
  /\ fd \in wr
  /\ sock[fd].rst
  /\ status' = "killed"
  /\ UNCHANGED <<serverVars, sock, backlog, pipe, signaled, stop, env>>

\* accept returns the lowest free descriptor.
LowestFree(fd) == fd \notin Active /\ \A g \in Fds \ Active : fd <= g

on_accept(fd) ==
  /\ Dispatch(<<"accept", NoFd>>)
  /\ backlog > 0
  /\ LowestFree(fd)
  /\ fd < MAX_FDS
  /\ backlog' = backlog - 1
  /\ clients' = [clients EXCEPT ![fd] = NewClient]
  /\ clients_count' = (clients_count + 1) % CountMod
  /\ rd' = rd \cup {fd}
  /\ UNCHANGED <<wr, busy, doubled, sock, signalVars, env>>

\* The descriptor is out of range, or set_non_blocking or el_add fails.
on_accept_rejects(fd) ==
  /\ Dispatch(<<"accept", NoFd>>)
  /\ backlog > 0
  /\ LowestFree(fd)
  /\ fd >= MAX_FDS \/ env.kernel_fails
  /\ backlog' = backlog - 1
  /\ UNCHANGED <<serverVars, sock, signalVars, env>>

\* Mutant: the pipe is drained and the loop goes on.
on_shutdown_drains ==
  /\ Dispatch(<<"shutdown", NoFd>>)
  /\ pipe' = FALSE
  /\ UNCHANGED <<serverVars, sock, backlog, signaled, stop, status, env>>

on_shutdown ==
  /\ Dispatch(<<"shutdown", NoFd>>)
  /\ pipe' = FALSE
  /\ stop' = TRUE
  /\ UNCHANGED <<serverVars, sock, backlog, signaled, status, env>>

sig_shutdown_handler(sig) ==
  /\ status = "running"
  /\ IF signaled /\ sig = "SIGINT"
     THEN status' = "killed" /\ UNCHANGED <<pipe, signaled>>
     ELSE signaled' = TRUE /\ pipe' = TRUE /\ UNCHANGED status
  /\ UNCHANGED <<serverVars, events, sock, backlog, stop, env>>

-----------------------------------------------------------------------------
(***************************************************************************)
(* The loop of el_run                                                      *)
(***************************************************************************)

IdleTooLong(ticks) == {fd \in Active : clients[fd].idle + ticks >= ClientTimeout}

\* Mutant: found counts the slots that were looked at, not the clients.
check_client_timeouts_slots(ticks) == {fd \in IdleTooLong(ticks) : fd < clients_count}

\* The loop runs while found < clients_count, and each removal decrements
\* clients_count: fd is reached when the clients below it, counted once more
\* for every one removed, do not use up the count.
check_client_timeouts(ticks) ==
  {fd \in IdleTooLong(ticks) :
     Cardinality({g \in Active : g < fd}) + Cardinality({g \in IdleTooLong(ticks) : g < fd})
       < clients_count}

Aged(c, ticks) ==
  [c EXCEPT !.idle = IF ~ c.active THEN 0
                     ELSE IF @ + ticks < ClientTimeout THEN @ + ticks ELSE ClientTimeout]

\* ticks = 1: CLIENT_TIMEOUT_CHECK_INTERVAL_MS have passed since the last
\* check, so client_timeouts_cron finds it due.
server_before_sleep(ticks) ==
  LET dropped == IF ticks = 1 THEN check_client_timeouts(ticks) ELSE {}
  IN  /\ clients' = [fd \in Fds |-> IF fd \in dropped THEN NoClient
                                                      ELSE Aged(clients[fd], ticks)]
      /\ clients_count' = (clients_count - Cardinality(dropped)) % CountMod
      /\ rd' = rd \ dropped
      /\ wr' = wr \ dropped
      /\ sock' = [fd \in Fds |-> IF fd \in dropped THEN NoSocket ELSE sock[fd]]

\* Level-triggered readiness, as kevent reports it.
Ready ==
  {<<"read", fd>> : fd \in {g \in rd : sock[g].in # << >> \/ sock[g].fin \/ sock[g].rst}}
  \cup {<<"write", fd>> : fd \in {g \in wr : Len(sock[g].out) < env.sndbuf \/ sock[g].rst}}
  \cup (IF backlog > 0 THEN {<<"accept", NoFd>>} ELSE {})
  \cup (IF pipe THEN {<<"shutdown", NoFd>>} ELSE {})

Batches(S) ==
  IF Cardinality(S) <= MAX_EVENTS THEN {S}
  ELSE {B \in SUBSET S : Cardinality(B) = MAX_EVENTS}

AtTop == status = "running" /\ busy = NoFd /\ events = {}

\* One iteration up to the return of kevent; before_sleep_proc only where
\* the build calls it.
el_run_polls(ticks) ==
  /\ AtTop
  /\ ~ stop
  /\ IF env.before_sleep
     THEN server_before_sleep(ticks)
     ELSE /\ ticks = 0
          /\ UNCHANGED <<clients, clients_count, rd, wr, sock>>
  /\ UNCHANGED <<busy, doubled, backlog, signalVars, env>>
  /\ events' \in Batches(Ready')

\* el_run returns and server_shutdown closes every connection.
server_shutdown ==
  /\ AtTop
  /\ stop
  /\ status' = "stopped"
  /\ sock' = [fd \in Fds |-> NoSocket]
  /\ backlog' = 0
  /\ UNCHANGED <<serverVars, events, pipe, signaled, stop, env>>

Handler(fd) ==
  \/ \E n \in 1 .. BufSize : on_read_data(fd, n)
  \/ on_read_end(fd)
  \/ on_read_again(fd)
  \/ \E n \in 0 .. WBUF_SIZE : on_write(fd, n)
  \/ on_write_fails(fd)
  \/ on_write_sigpipe(fd)
  \/ on_accept(fd)
  \/ on_accept_rejects(fd)

ServerStep ==
  \/ status = "running" /\ process_buffer
  \/ \E fd \in Fds : Handler(fd)
  \/ on_shutdown
  \/ \E e \in events : el_run_skips(e)
  \/ \E ticks \in {0, 1} : el_run_polls(ticks)
  \/ server_shutdown

-----------------------------------------------------------------------------
(***************************************************************************)
(* Peers                                                                   *)
(***************************************************************************)

PeerUnchanged == UNCHANGED <<serverVars, events, backlog, signalVars, env>>

PeerConnects ==
  /\ status = "running"
  /\ backlog < MaxBacklog
  /\ Cardinality(Active) + backlog < env.peers
  /\ backlog' = backlog + 1
  /\ UNCHANGED <<serverVars, events, sock, signalVars, env>>

\* Frames sent whose answer the peer has not read to its end.
Unanswered(s) == Len(s.asked) + Cardinality({u[1] : u \in {s.due[n] : n \in 1 .. Len(s.due)}})

PeerSends(fd, len, kind) ==
  LET f == [seq |-> sock[fd].sent + 1, len |-> len, kind |-> kind]
  IN  /\ status = "running"
      /\ fd \in Active
      /\ ~ sock[fd].fin /\ ~ sock[fd].rst
      /\ sock[fd].sent < env.frames
      /\ Unanswered(sock[fd]) < env.window
      /\ sock' = [sock EXCEPT ![fd].in = @ \o FrameUnits(f),
                              ![fd].sent = @ + 1,
                              ![fd].asked = Append(@, f)]
      /\ PeerUnchanged

PeerReads(fd, n) ==
  /\ fd \in Active
  /\ ~ sock[fd].fin /\ ~ sock[fd].rst
  /\ n <= Len(sock[fd].out)
  /\ sock' = [sock EXCEPT ![fd].out = SubSeq(@, n + 1, Len(@)),
                          ![fd].due = SubSeq(@, n + 1, Len(@))]
  /\ PeerUnchanged

PeerCloses(fd) ==
  /\ status = "running"
  /\ fd \in Active
  /\ ~ sock[fd].fin /\ ~ sock[fd].rst
  /\ sock' = [sock EXCEPT ![fd].fin = TRUE]
  /\ PeerUnchanged

PeerResetsConnection(fd) ==
  /\ status = "running"
  /\ env.resets
  /\ fd \in Active
  /\ ~ sock[fd].rst
  /\ sock' = [sock EXCEPT ![fd].rst = TRUE]
  /\ PeerUnchanged

PeerStep ==
  \/ PeerConnects
  \/ \E fd \in Fds :
       \/ \E len \in env.lens, kind \in env.kinds : PeerSends(fd, len, kind)
       \/ \E n \in 1 .. env.sndbuf : PeerReads(fd, n)
       \/ PeerCloses(fd)
       \/ PeerResetsConnection(fd)

Next == ServerStep \/ PeerStep \/ \E sig \in env.signals : sig_shutdown_handler(sig)

Spec == Init /\ [][Next]_vars

\* The event loop never stops taking steps, time passes whenever the loop is
\* about to sleep again and again, and the peers of a setting that reads go on
\* reading what they are sent.
FairSpec ==
  /\ Spec
  /\ WF_vars(ServerStep)
  /\ SF_vars(el_run_polls(1))
  /\ \A fd \in Fds : WF_vars(env.reads /\ \E n \in 1 .. env.sndbuf : PeerReads(fd, n))

-----------------------------------------------------------------------------
(***************************************************************************)
(* Properties                                                              *)
(***************************************************************************)

\* What is still in the read buffer and in the socket is, unit for unit, the
\* frames the peer has sent and on_message has not seen: process_buffer
\* loses its place in the stream under no split of the reads.
StreamIntact ==
  \A fd \in Active : status = "running" =>
    clients[fd].buf \o sock[fd].in =
      Flatten([n \in 1 .. Len(sock[fd].asked) |-> FrameUnits(sock[fd].asked[n])])

\* What the peer has still to read, in the socket and in wbuf, is exactly
\* what server_send promised, in order and once: no partial write, slow-path
\* append or compaction of wbuf loses, repeats or swaps a unit, or writes past
\* its end.
RepliesIntact ==
  \A fd \in Active : status = "running" =>
    /\ sock[fd].out \o Pending(clients[fd]) = sock[fd].due
    /\ Len(clients[fd].wbuf) <= WBUF_SIZE

\* Every client has a read handler and nobody else has one, all below the bound
\* of the tables, and a client that waits for its socket to drain has unsent
\* output, through every removal and reuse of a descriptor.  The converse, that
\* unsent output is waited for, holds where kevent refuses no registration:
\* queue_write takes no notice of a failing el_add_write.
HandlersMatch ==
  LET unsent == {fd \in Active : clients[fd].wbuf # << >>}
  IN  /\ rd = Active
      /\ wr \subseteq unsent
      /\ ~ env.kernel_fails => unsent \subseteq wr
      /\ \A fd \in Active : fd < MAX_FDS

\* A client is removed only for what it did itself: nothing an event left
\* over from an earlier connection on its descriptor does can remove it.
NoSpuriousRemoval ==
  [][\A fd \in Active \ Active' :
        \/ sock[fd].fin \/ sock[fd].rst
        \/ busy = fd /\ Unwelcome(clients[fd])
        \/ env.before_sleep /\ clients[fd].idle + 1 >= ClientTimeout]_vars

\* Peers that behave like workers, with one request at a time whose answer
\* fits the socket, may die at any point: no write ever fails under
\* process_buffer, so no SIGPIPE ends the coordinator and no client is
\* removed twice.
WorkersHarmless ==
  env.window = 1 /\ env.sndbuf >= ReplySize /\ ~ env.resets /\ env.signals = {} =>
    status # "killed" /\ doubled = 0

\* Every frame a peer has sent is answered and the answer read by a peer that
\* reads, or the peer loses its connection, or a signal ends the process: no
\* frame stays behind in buf, where kevent does not see it, and no answer in
\* wbuf, however reads cut and join the frames.  Where el_add_write may fail it
\* does not hold: what is in wbuf then has no handler.
FramesAnswered ==
  env.reads /\ ~ env.kernel_fails => \A fd \in Fds :
    sock[fd].asked # << >> \/ sock[fd].due # << >>
      ~> \/ sock[fd].asked = << >> /\ sock[fd].due = << >>
         \/ status = "killed"

\* Where the timeout check runs, a client that has nothing more to say is
\* removed, although a pass of check_client_timeouts stops before it has
\* looked at every client.  The timeout has to be at least as many checks as
\* there are slots: with a shorter one, clients that come back on low
\* descriptors can use up the count of every pass.
SilentRemoved ==
  env.before_sleep /\ Cardinality({fd \in Fds : fd < MAX_FDS}) <= ClientTimeout =>
    \A fd \in Fds :
      clients[fd].active ~> ~ clients[fd].active \/ status # "running"

\* A signal ends the process, whatever the peers do.
ShutdownHonoured == signaled ~> status # "running"
=============================================================================
