---------------------------- MODULE Conversation ----------------------------
(***************************************************************************)
(* One worker and the master exchanging frames over a byte stream: the     *)
(* codec of module Rpc, send_framed and recv_framed of src/src/worker.c    *)
(* with the read_exact and write_all they loop over, and the master's      *)
(* side, which frames its answers the same way and takes whole frames off  *)
(* its read buffer.  A process may be killed between two writes.           *)
(***************************************************************************)
EXTENDS Rpc

CONSTANTS
  Numbers,     \* the values of 32-bit fields that are tried
  PathBytes,   \* the bytes of paths that are tried
  MaxLead,     \* bound on the uniform start of a payload no program sent
  MaxTail      \* bound on the rest of such a payload

ASSUME ConversationAssumption ==
  /\ Numbers \subseteq 0 .. B4 - 1
  /\ PathBytes \subseteq Byte
  /\ Base > 8   \* the payloads no program sent try a kind one above the last
  /\ MaxLead \in Nat /\ MaxTail \in Nat /\ 1 + MaxLead + MaxTail < B4

FRAME_HDR_SIZE == 4

VARIABLES
  left,     \* left[p]: bytes process p still has to write of its frame
  stream,   \* stream[p]: bytes p has written and its peer has not read
  said,     \* said[p]: the message p sent last
  heard,    \* heard[p]: what p made of the payload it read last
  pc,       \* pc[p]: whether p sends or reads next
  killed,   \* the processes that were killed
  closed    \* the processes that ended the conversation themselves

vars == <<left, stream, said, heard, pc, killed, closed>>

Processes == {"worker", "master"}
Peer(p) == IF p = "worker" THEN "master" ELSE "worker"

Paths == UNION {[1 .. n -> PathBytes] : n \in 0 .. MAPREDUCE_PATH_MAX - 1}

Gone == killed \cup closed

Nothing == [kind |-> 0]
Refused == [kind |-> -1]
Foreign == [kind |-> -2]

Requests ==
  {[kind |-> RPC_GET_TASK_REQ]} \cup
  [kind : {RPC_TASK_DONE_REQ}, task_id : Numbers, attempt_id : Numbers, result : {0, 1}]

\* What the master answers, by the request it heard.
Answers(request) ==
  IF request.kind = RPC_TASK_DONE_REQ THEN {[kind |-> RPC_TASK_DONE_ACK]}
  ELSE [kind : {RPC_TASK_MAP_RESP}, task_id : Numbers, attempt_id : Numbers,
        n_reduce : Numbers, input_path : Paths] \cup
       [kind : {RPC_TASK_REDUCE_RESP}, task_id : Numbers, attempt_id : Numbers,
        n_map : Numbers] \cup
       [kind : {RPC_WAIT_RESP}, wait_ms : Numbers] \cup
       {[kind |-> RPC_DONE_RESP]}

\* Mutant: the length counts the header.
send_framed_total(payload) == buf_write_u32(FRAME_HDR_SIZE + Len(payload)) \o payload

send_framed(payload) == buf_write_u32(Len(payload)) \o payload

-----------------------------------------------------------------------------

Connected ==
  /\ left = [p \in Processes |-> << >>]
  /\ stream = [p \in Processes |-> << >>]
  /\ said = [p \in Processes |-> Nothing]
  /\ heard = [p \in Processes |-> Nothing]
  /\ pc = [p \in Processes |-> IF p = "worker" THEN "send" ELSE "recv"]
  /\ killed = {} /\ closed = {}

\* Payloads no program of this repository sent: a kind byte, a uniform start,
\* any short tail.
Payloads ==
  {<<k>> \o [i \in 1 .. n |-> 1] \o t : k \in 0 .. 8, n \in 0 .. MaxLead,
     t \in UNION {[1 .. l -> 0 .. 2] : l \in 0 .. MaxTail}} \cup {<< >>}

\* p waits, with such a payload on its way; whoever sent it is gone.
Misconnected(p, b, asked) ==
  /\ left = [q \in Processes |-> << >>]
  /\ stream = [q \in Processes |-> IF q = p THEN << >> ELSE send_framed(b)]
  /\ said = [q \in Processes |-> IF q # p THEN Foreign
                                ELSE IF q = "worker" THEN [kind |-> asked] ELSE Nothing]
  /\ heard = [q \in Processes |-> Nothing]
  /\ pc = [q \in Processes |-> "recv"]
  /\ killed = {Peer(p)} /\ closed = {}

Init ==
  \/ Connected
  \/ \E p \in Processes, b \in Payloads, asked \in {RPC_GET_TASK_REQ, RPC_TASK_DONE_REQ} :
       Misconnected(p, b, asked)

\* Encode into a buffer of MSG_MAX bytes and start writing the frame.
Send(p, m) ==
  /\ p \notin Gone /\ pc[p] = "send"
  /\ rpc_encode(m, MSG_MAX) # Fail
  /\ left' = [left EXCEPT ![p] = send_framed(rpc_encode(m, MSG_MAX)[1])]
  /\ said' = [said EXCEPT ![p] = m]
  /\ heard' = [heard EXCEPT ![p] = Nothing]
  /\ pc' = [pc EXCEPT ![p] = "recv"]
  /\ UNCHANGED <<stream, killed, closed>>

\* One write of the loop takes n bytes of what is left.
write_all(p, n) ==
  /\ p \notin Gone /\ n \in 1 .. Len(left[p])
  /\ stream' = [stream EXCEPT ![p] = @ \o SubSeq(left[p], 1, n)]
  /\ left' = [left EXCEPT ![p] = SubSeq(@, n + 1, Len(@))]
  /\ UNCHANGED <<said, heard, pc, killed, closed>>

\* What p takes the payload for: the worker expects the answer to what it asked.
Meaning(p, b) ==
  CASE p = "master" -> master_request(b)
    [] p = "worker" /\ said[p].kind = RPC_GET_TASK_REQ -> get_task_answer(b)
    [] OTHER -> task_done_answer(b)

HasHeader(bytes) == Len(bytes) >= FRAME_HDR_SIZE

PayloadLen(bytes) == buf_read_u32(bytes, 1)

Payload(bytes) == SubSeq(bytes, FRAME_HDR_SIZE + 1, FRAME_HDR_SIZE + PayloadLen(bytes))

HasFrame(bytes) ==
  HasHeader(bytes) /\ Len(bytes) >= FRAME_HDR_SIZE + PayloadLen(bytes)

\* The header and the whole payload have arrived: a payload the receiver does
\* not accept ends the conversation.
recv_framed(p) ==
  LET bytes == stream[Peer(p)]
      m == Meaning(p, Payload(bytes))
  IN
  /\ p \notin Gone /\ pc[p] = "recv" /\ left[p] = << >>
  /\ HasFrame(bytes) /\ PayloadLen(bytes) <= MSG_MAX
  /\ heard' = [heard EXCEPT ![p] = IF m = Fail THEN Refused ELSE m[1]]
  /\ closed' = IF m = Fail THEN closed \cup {p} ELSE closed
  /\ pc' = [pc EXCEPT ![p] = "send"]
  /\ stream' = [stream EXCEPT ![Peer(p)] =
                  SubSeq(@, FRAME_HDR_SIZE + PayloadLen(bytes) + 1, Len(@))]
  /\ UNCHANGED <<left, said, killed>>

\* The length is larger than any buffer, or the peer is gone and what it
\* wrote is not a whole frame: the conversation ends.
recv_framed_fails(p) ==
  LET bytes == stream[Peer(p)] IN
  /\ p \notin Gone /\ pc[p] = "recv" /\ left[p] = << >>
  /\ (HasHeader(bytes) => PayloadLen(bytes) <= MSG_MAX) =>
       Peer(p) \in Gone /\ ~ HasFrame(bytes)
  /\ closed' = closed \cup {p}
  /\ UNCHANGED <<left, stream, said, heard, pc, killed>>

\* DONE_RESP ends the loop of the worker, which closes its socket.
Exit ==
  /\ "worker" \notin Gone /\ pc["worker"] = "send"
  /\ heard["worker"].kind = RPC_DONE_RESP
  /\ closed' = closed \cup {"worker"}
  /\ UNCHANGED <<left, stream, said, heard, pc, killed>>

WorkerSends ==
  /\ heard["worker"].kind # RPC_DONE_RESP
  /\ \E m \in Requests : Send("worker", m)

MasterSends == \E m \in Answers(heard["master"]) : Send("master", m)

Killed(p) ==
  /\ p \notin Gone
  /\ killed' = killed \cup {p}
  /\ left' = [left EXCEPT ![p] = << >>]
  /\ UNCHANGED <<stream, said, heard, pc, closed>>

Step(p) == (\E n \in 1 .. Len(left[p]) : write_all(p, n)) \/ recv_framed(p) \/ recv_framed_fails(p)

Next ==
  \/ WorkerSends
  \/ MasterSends
  \/ Exit
  \/ \E p \in Processes : Step(p) \/ Killed(p)

Spec == Init /\ [][Next]_vars

\* Processes keep running and the kernel keeps moving bytes.
FairSpec ==
  Spec /\ WF_vars(MasterSends) /\ WF_vars(WorkerSends) /\ WF_vars(Exit)
       /\ \A p \in Processes : WF_vars(Step(p))

-----------------------------------------------------------------------------
(***************************************************************************)
(* Properties                                                              *)
(***************************************************************************)

\* What a process makes of a frame of its peer is what the peer encoded, field by
\* field, however write_all cut the bytes, and no process refuses a frame the
\* other one built: every encoder of rpc.c against its decoder, through
\* send_framed and recv_framed.  A process that is not killed ends the
\* conversation only when its peer was, or when the worker is told DONE.
Understood ==
  /\ \A p \in Processes :
       pc[p] = "send" /\ heard[p] # Nothing => said[Peer(p)] \in {heard[p], Foreign}
  /\ closed # {} => killed # {} \/ said["master"].kind = RPC_DONE_RESP

\* Whoever waits for a frame gets it, or the conversation ends: worker and
\* master never both wait (recv_framed blocks without a timeout).
Answered ==
  \A p \in Processes : (pc[p] = "recv") ~> (pc[p] = "send" \/ p \in Gone)

\* rpc.c:191: a payload with a body is accepted only if it is exactly the
\* encoding of the message it is taken for ("Reject trailing bytes"); a kind
\* without a body is recognised by its first byte.
Canonical ==
  [][\A p \in Processes :
       heard'[p] # heard[p] /\ heard'[p] \notin {Nothing, Refused} =>
         LET b == Payload(stream[Peer(p)])
             e == rpc_encode(heard'[p], MSG_MAX)[1]
         IN  b = e \/ (Len(e) = 1 /\ b[1] = e[1])]_vars
=============================================================================
