--------------------------------- MODULE Rpc ---------------------------------
(***************************************************************************)
(* The wire format (src/src/rpc.c, rpc.h) and the worker's side of the     *)
(* framing (src/src/worker.c): what is encoded into the frames a worker    *)
(* and the master exchange, and what each receiver accepts.                *)
(*                                                                         *)
(* A byte is a number below Base (256 in the code); multi-byte fields are  *)
(* big-endian, so a 32-bit field holds a number below Base ^ 4.            *)
(***************************************************************************)
EXTENDS Integers, Sequences

CONSTANTS
  Base,                 \* values of a byte
  MAPREDUCE_PATH_MAX,   \* size of input_path, its terminator included
  MSG_MAX               \* size of the buffers messages are encoded into

\* The largest message, a map assignment with the longest path, fits a buffer.
ASSUME RpcAssumption ==
  /\ Base \in Nat /\ Base > 7
  /\ MAPREDUCE_PATH_MAX \in Nat \ {0} /\ MAPREDUCE_PATH_MAX < Base * Base
  /\ MSG_MAX \in Nat /\ 15 + MAPREDUCE_PATH_MAX <= MSG_MAX

Byte == 0 .. Base - 1

RPC_GET_TASK_REQ == 1
RPC_TASK_MAP_RESP == 2
RPC_TASK_REDUCE_RESP == 3
RPC_WAIT_RESP == 4
RPC_DONE_RESP == 5
RPC_TASK_DONE_REQ == 6
RPC_TASK_DONE_ACK == 7

-----------------------------------------------------------------------------
(***************************************************************************)
(* Byte-buffer primitives                                                  *)
(***************************************************************************)

B2 == Base * Base
B3 == Base * B2
B4 == Base * B3

buf_write_u16(v) == <<v \div Base, v % Base>>

buf_write_u32(v) ==
  <<v \div B3, (v \div B2) % Base, (v \div Base) % Base, v % Base>>

buf_read_u16(b, at) == Base * b[at] + b[at + 1]

buf_read_u32(b, at) == B3 * b[at] + B2 * b[at + 1] + Base * b[at + 2] + b[at + 3]

-----------------------------------------------------------------------------
(***************************************************************************)
(* Encoders and decoders.  A function that returns -1 returns Fail.        *)
(***************************************************************************)

Fail == << >>
Done(result) == <<result>>

\* The writes succeed while they fit the buffer.
Written(bytes, cap) == IF Len(bytes) <= cap THEN Done(bytes) ELSE Fail

rpc_encode_empty(kind, cap) == Written(<<kind>>, cap)

rpc_encode_task_map_resp(m, cap) ==
  IF Len(m.input_path) >= MAPREDUCE_PATH_MAX THEN Fail
  ELSE Written(<<RPC_TASK_MAP_RESP>> \o buf_write_u32(m.task_id)
                 \o buf_write_u32(m.attempt_id) \o buf_write_u32(m.n_reduce)
                 \o buf_write_u16(Len(m.input_path)) \o m.input_path, cap)

\* Mutant: two fields change places.
rpc_encode_task_reduce_resp_swapped(m, cap) ==
  Written(<<RPC_TASK_REDUCE_RESP>> \o buf_write_u32(m.attempt_id)
            \o buf_write_u32(m.task_id) \o buf_write_u32(m.n_map), cap)

rpc_encode_task_reduce_resp(m, cap) ==
  Written(<<RPC_TASK_REDUCE_RESP>> \o buf_write_u32(m.task_id)
            \o buf_write_u32(m.attempt_id) \o buf_write_u32(m.n_map), cap)

rpc_encode_wait_resp(m, cap) ==
  Written(<<RPC_WAIT_RESP>> \o buf_write_u32(m.wait_ms), cap)

rpc_encode_task_done_req(m, cap) ==
  Written(<<RPC_TASK_DONE_REQ>> \o buf_write_u32(m.task_id)
            \o buf_write_u32(m.attempt_id) \o <<m.result>>, cap)

rpc_encode(m, cap) ==
  CASE m.kind = RPC_TASK_MAP_RESP    -> rpc_encode_task_map_resp(m, cap)
    [] m.kind = RPC_TASK_REDUCE_RESP -> rpc_encode_task_reduce_resp(m, cap)
    [] m.kind = RPC_WAIT_RESP        -> rpc_encode_wait_resp(m, cap)
    [] m.kind = RPC_TASK_DONE_REQ    -> rpc_encode_task_done_req(m, cap)
    [] OTHER                         -> rpc_encode_empty(m.kind, cap)

rpc_peek_kind(payload) ==
  IF Len(payload) >= 1 /\ payload[1] \in RPC_GET_TASK_REQ .. RPC_TASK_DONE_ACK
  THEN Done(payload[1]) ELSE Fail

\* The decoders get the payload; its body starts at byte 2.  They read field
\* by field and then reject trailing bytes: the length must be exact.

\* Mutant: trailing bytes are not looked at.
rpc_decode_task_map_resp_trailing(b) ==
  IF Len(b) < 15 THEN Fail
  ELSE LET n == buf_read_u16(b, 14) IN
       IF n >= MAPREDUCE_PATH_MAX \/ Len(b) < 15 + n THEN Fail
       ELSE Done([kind |-> RPC_TASK_MAP_RESP, task_id |-> buf_read_u32(b, 2),
                  attempt_id |-> buf_read_u32(b, 6), n_reduce |-> buf_read_u32(b, 10),
                  input_path |-> SubSeq(b, 16, 15 + n)])

rpc_decode_task_map_resp(b) ==
  IF Len(b) < 15 THEN Fail
  ELSE LET n == buf_read_u16(b, 14) IN
       IF n >= MAPREDUCE_PATH_MAX \/ Len(b) # 15 + n THEN Fail
       ELSE Done([kind |-> RPC_TASK_MAP_RESP, task_id |-> buf_read_u32(b, 2),
                  attempt_id |-> buf_read_u32(b, 6), n_reduce |-> buf_read_u32(b, 10),
                  input_path |-> SubSeq(b, 16, 15 + n)])

rpc_decode_task_reduce_resp(b) ==
  IF Len(b) # 13 THEN Fail
  ELSE Done([kind |-> RPC_TASK_REDUCE_RESP, task_id |-> buf_read_u32(b, 2),
             attempt_id |-> buf_read_u32(b, 6), n_map |-> buf_read_u32(b, 10)])

rpc_decode_wait_resp(b) ==
  IF Len(b) # 5 THEN Fail
  ELSE Done([kind |-> RPC_WAIT_RESP, wait_ms |-> buf_read_u32(b, 2)])

rpc_decode_task_done_req(b) ==
  IF Len(b) # 10 THEN Fail
  ELSE Done([kind |-> RPC_TASK_DONE_REQ, task_id |-> buf_read_u32(b, 2),
             attempt_id |-> buf_read_u32(b, 6), result |-> b[10]])

-----------------------------------------------------------------------------
(***************************************************************************)
(* The three receivers: which messages a payload is accepted as.  The      *)
(* kinds without a body are accepted on their first byte alone.            *)
(***************************************************************************)

Bare(kind) == Done([kind |-> kind])

\* get_task_req of worker.c: the answer to GET_TASK_REQ.
get_task_answer(b) ==
  CASE rpc_peek_kind(b) = Done(RPC_TASK_MAP_RESP)    -> rpc_decode_task_map_resp(b)
    [] rpc_peek_kind(b) = Done(RPC_TASK_REDUCE_RESP) -> rpc_decode_task_reduce_resp(b)
    [] rpc_peek_kind(b) = Done(RPC_WAIT_RESP)        -> rpc_decode_wait_resp(b)
    [] rpc_peek_kind(b) = Done(RPC_DONE_RESP)        -> Bare(RPC_DONE_RESP)
    [] OTHER                                         -> Fail

\* report_task_done of worker.c: the answer to TASK_DONE_REQ.
task_done_answer(b) ==
  IF rpc_peek_kind(b) = Done(RPC_TASK_DONE_ACK) THEN Bare(RPC_TASK_DONE_ACK) ELSE Fail

\* master_on_message: the requests.
master_request(b) ==
  CASE rpc_peek_kind(b) = Done(RPC_GET_TASK_REQ)  -> Bare(RPC_GET_TASK_REQ)
    [] rpc_peek_kind(b) = Done(RPC_TASK_DONE_REQ) -> rpc_decode_task_done_req(b)
    [] OTHER                                      -> Fail
=============================================================================
