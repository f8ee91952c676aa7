------------------------------ MODULE MCServer ------------------------------
(***************************************************************************)
(* The settings TLC puts the server of module Server into.                 *)
(***************************************************************************)
EXTENDS Server

\* Two workers, one request at a time, whose answer fits the socket.
Workers ==
  [peers |-> 2, lens |-> {0}, kinds |-> {"ok"}, frames |-> 2, window |-> 1,
   reads |-> TRUE, resets |-> FALSE, sndbuf |-> ReplySize,
   kernel_fails |-> FALSE, signals |-> {}, before_sleep |-> FALSE]

\* One peer that sends ahead of the answers, frames of every length around
\* MSG_MAX, through a socket that takes one unit at a time: every split of
\* the reads, partial writes, compaction and overflow of wbuf.
Pipelining ==
  [Workers EXCEPT !.peers = 1, !.lens = 0 .. MSG_MAX + 1, !.frames = 3,
                  !.window = 3, !.sndbuf = 1]

\* More peers than there are slots, rejected frames, resets, a failing kernel
\* and answers that do not fit the socket.
Crowd ==
  [Workers EXCEPT !.peers = 3, !.kinds = {"ok", "bad"}, !.frames = 1,
                  !.resets = TRUE, !.sndbuf = ReplySize - 1, !.kernel_fails = TRUE]

\* Two peers and a socket that takes one unit at a time.
SlowSockets == [Workers EXCEPT !.sndbuf = 1]

\* A peer that reads but sends ahead, through a socket that holds one answer:
\* frames split by the reads, two whole ones in the buffer at once, and answers
\* written directly, in part, and behind others in wbuf.
Ahead ==
  [Workers EXCEPT !.peers = 1, !.lens = {0, MSG_MAX}, !.frames = 3, !.window = 3]

\* Peers that say nothing, in a build that calls before_sleep_proc.
Silent == [Workers EXCEPT !.peers = 4, !.frames = 0, !.before_sleep = TRUE]

\* Peers that may never read, and signals.
Signalled ==
  [Workers EXCEPT !.frames = 1, !.reads = FALSE, !.signals = {"SIGINT", "SIGTERM"}]

SafetySettings == {Workers, Pipelining, Crowd}

LiveSettings == {SlowSockets, Ahead, Silent, Signalled}
=============================================================================
