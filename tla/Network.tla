------------------------------- MODULE Network -------------------------------
(***************************************************************************)
(* Connections at the granularity of messages: what src/src/server.c and   *)
(* src/src/event_loop.c give the master, and the sockets give a worker.    *)
(*                                                                         *)
(* A worker never has more than one request outstanding, so a connection   *)
(* holds at most one request and one response.                             *)
(***************************************************************************)
EXTENDS Task

CONSTANTS
  Workers,        \* worker processes
  ClientTimeout,  \* client_timeout_s, in ticks
  Examined        \* how many clients a pass of check_client_timeouts may look
                  \* at: {0} stands for a client timeout longer than the job

ASSUME NetworkAssumption ==
  /\ ClientTimeout \in Nat
  /\ Examined \subseteq Nat
  /\ 0 \in Examined

VARIABLES
  clients,  \* the master's end of a connection, by file descriptor
  link,     \* the master-side descriptor of a worker's connection, or NoFd
  inbox     \* the response waiting in a worker's socket

netVars == <<clients, link, inbox>>

NoMsg == [type |-> "NONE"]

GetTaskReq == [type |-> "GET_TASK"]

Requests == {NoMsg, GetTaskReq} \cup
            [type : {"TASK_DONE"}, task_id : Nat, attempt_id : Nat, result : {0, 1}]

WaitResp == [type |-> "WAIT"]
DoneResp == [type |-> "DONE"]
TaskDoneAck == [type |-> "ACK"]

\* TASK_MAP_RESP and TASK_REDUCE_RESP; the paths and counts they also carry
\* follow from the kind and the task.
TaskResp(k, i, a) == [type |-> "TASK", kind |-> k, task_id |-> i, attempt_id |-> a]

Responses == {NoMsg, WaitResp, DoneResp, TaskDoneAck} \cup
             [type : {"TASK"}, kind : Kinds, task_id : Nat, attempt_id : Nat]

\* idle is now_ms - last_active_ms, capped at the timeout.
Client == [active : BOOLEAN,
           eof    : BOOLEAN,
           idle   : 0 .. ClientTimeout,
           req    : Requests]

\* (client_t){0}
NoClient == [active |-> FALSE, eof |-> FALSE, idle |-> 0, req |-> NoMsg]

\* A client just accepted.
NewClient == [active |-> TRUE, eof |-> FALSE, idle |-> 0, req |-> NoMsg]

NetTypeOK ==
  /\ clients \in [Fds -> Client]
  /\ link \in [Workers -> Fds \cup {NoFd}]
  /\ inbox \in [Workers -> Responses]

NetInit ==
  /\ clients = [fd \in Fds |-> NoClient]
  /\ link = [w \in Workers |-> NoFd]
  /\ inbox = [w \in Workers |-> NoMsg]

-----------------------------------------------------------------------------
\* accept() returns the lowest descriptor that is free.
Free(fd) == ~ clients[fd].active /\ \A g \in Fds : g < fd => clients[g].active

\* A worker's connect() and the master's on_accept.
on_accept(w, fd) ==
  /\ Free(fd)
  /\ link[w] = NoFd
  /\ clients' = [clients EXCEPT ![fd] = NewClient]
  /\ link' = [link EXCEPT ![w] = fd]
  /\ inbox' = [inbox EXCEPT ![w] = NoMsg]

\* A worker writes a request frame.
SendRequest(w, m) ==
  /\ link[w] # NoFd
  /\ clients' = [clients EXCEPT ![link[w]].req = m]
  /\ UNCHANGED <<link, inbox>>

\* A worker reads the response it waits for.
TakeResponse(w) ==
  /\ inbox[w] # NoMsg
  /\ inbox' = [inbox EXCEPT ![w] = NoMsg]
  /\ UNCHANGED <<clients, link>>

\* A worker's end is closed, by close() or because the process ended.
CloseWorkerEnd(w) ==
  /\ clients' = [fd \in Fds |-> IF fd = link[w]
                                THEN [clients[fd] EXCEPT !.eof = TRUE]
                                ELSE clients[fd]]
  /\ link' = [link EXCEPT ![w] = NoFd]
  /\ inbox' = [inbox EXCEPT ![w] = NoMsg]

-----------------------------------------------------------------------------
\* process_buffer hands the handler a complete frame of this type.
HasRequest(fd, type) == clients[fd].active /\ clients[fd].req.type = type

\* The handler's server_send.  It fails only towards a peer that is gone;
\* queue_write then removes the client and the handler returns -1.
server_send(fd, m, sent) ==
  /\ sent \/ clients[fd].eof
  /\ clients' = [clients EXCEPT ![fd] =
                   IF sent THEN [@ EXCEPT !.req = NoMsg, !.idle = 0] ELSE NoClient]
  /\ inbox' = [w \in Workers |-> IF link[w] = fd THEN m ELSE inbox[w]]
  /\ UNCHANGED link

\* remove_client on each of fds; the workers there find their socket closed.
remove_client(fds) ==
  /\ clients' = [fd \in Fds |-> IF fd \in fds THEN NoClient ELSE clients[fd]]
  /\ link' = [w \in Workers |-> IF link[w] \in fds THEN NoFd ELSE link[w]]
  /\ UNCHANGED inbox

\* The clients check_client_timeouts would remove if it looked at all of them.
IdleTooLong(ticks) ==
  {fd \in Fds : clients[fd].active /\ clients[fd].idle + ticks >= ClientTimeout}

\* check_client_timeouts looks at the active clients in the order of their
\* descriptors and stops after `found' of them: it compares found with
\* clients_count, which its own removals, and the second removal after a
\* failed server_send, decrement.  The Server module has the exact count;
\* here the pass may stop anywhere.
check_client_timeouts(ticks, found) ==
  {fd \in IdleTooLong(ticks) :
     Cardinality({g \in Fds : g < fd /\ clients[g].active}) < found}

\* found = 0: client_timeouts_cron does not find the check due.
client_timeouts_cron(ticks, found) ==
  LET dropped == check_client_timeouts(ticks, found)
      aged(c) == [c EXCEPT !.idle = IF ~ c.active THEN 0
                                    ELSE IF @ + ticks < ClientTimeout THEN @ + ticks
                                    ELSE ClientTimeout]
  IN  /\ clients' = [fd \in Fds |-> IF fd \in dropped THEN NoClient
                                                    ELSE aged(clients[fd])]
      /\ link' = [w \in Workers |-> IF link[w] \in dropped THEN NoFd ELSE link[w]]
      /\ UNCHANGED inbox
=============================================================================
