------------------------------- MODULE Worker -------------------------------
(***************************************************************************)
(* The worker process (src/src/worker.c, worker_map.c, worker_reduce.c):   *)
(* its stop-and-wait loop, and the files a task attempt publishes.         *)
(*                                                                         *)
(* Temporary files carry the pid and the attempt in their name and are      *)
(* never read, so only the published names are state.  A rename replaces    *)
(* a published file by one computed from the same input, so a published     *)
(* name stays published.  Reading the M inputs of a reduce is one step:      *)
(* files never disappear, so the reads see what one atomic read would.      *)
(***************************************************************************)
EXTENDS Network

VARIABLES
  pc,            \* where each worker process is in its loop
  work,          \* the task attempt it is executing
  next_y,        \* y of the rename pass of worker_map_run
  intermediate,  \* <<x, y>> for every published intermediate/mr-x-y
  output         \* y for every published output/mr-out-y

procVars == <<pc, work, next_y>>
fileVars == <<intermediate, output>>
workerVars == <<pc, work, next_y, intermediate, output>>

\* "off": no process.  "ready": top of the loop.  "asked", "acking": blocked
\* in recv_framed.  "running": before the rename pass.  "reporting": about to
\* send TASK_DONE_REQ.
Pc == {"off", "ready", "asked", "running", "renaming", "reporting", "acking"}

Executing == {"running", "renaming", "reporting"}

\* The points at which a worker uses its socket.
AtSocket == {"ready", "asked", "reporting", "acking"}

Work == [kind : Kinds \cup {"NONE"}, task_id : Nat, attempt_id : Nat, result : {0, 1}]

NoWork == [kind |-> "NONE", task_id |-> 0, attempt_id |-> 0, result |-> 0]

\* Everything the task promises to leave on disk is there under its final name.
Published(k, i) ==
  IF k = "MAP" THEN \A y \in Ids("REDUCE") : <<i, y>> \in intermediate
               ELSE i \in output

WorkerTypeOK ==
  /\ pc \in [Workers -> Pc]
  /\ work \in [Workers -> Work]
  /\ next_y \in [Workers -> 0 .. R]
  /\ intermediate \subseteq Ids("MAP") \X Ids("REDUCE")
  /\ output \subseteq Ids("REDUCE")

WorkerInit ==
  /\ pc = [w \in Workers |-> "off"]
  /\ work = [w \in Workers |-> NoWork]
  /\ next_y = [w \in Workers |-> 0]
  /\ intermediate = {}
  /\ output = {}

Goto(w, label) == pc' = [pc EXCEPT ![w] = label]

-----------------------------------------------------------------------------
(***************************************************************************)
(* The loop of main                                                        *)
(***************************************************************************)

\* client_init: the process starts and connects.
client_init(w, fd) ==
  /\ pc[w] = "off"
  /\ on_accept(w, fd)
  /\ Goto(w, "ready")
  /\ UNCHANGED <<work, next_y, fileVars>>

get_task_req(w) ==
  /\ pc[w] = "ready"
  /\ SendRequest(w, GetTaskReq)
  /\ Goto(w, "asked")
  /\ UNCHANGED <<work, next_y, fileVars>>

\* TASK_MAP_RESP or TASK_REDUCE_RESP.
got_task(w) ==
  /\ pc[w] = "asked"
  /\ inbox[w].type = "TASK"
  /\ TakeResponse(w)
  /\ work' = [work EXCEPT ![w] = [kind       |-> inbox[w].kind,
                                  task_id    |-> inbox[w].task_id,
                                  attempt_id |-> inbox[w].attempt_id,
                                  result     |-> 0]]
  /\ Goto(w, "running")
  /\ UNCHANGED <<next_y, fileVars>>

\* WAIT_RESP: sleep, then ask again.
got_wait(w) ==
  /\ pc[w] = "asked"
  /\ inbox[w].type = "WAIT"
  /\ TakeResponse(w)
  /\ Goto(w, "ready")
  /\ UNCHANGED <<work, next_y, fileVars>>

\* The process is gone and with it everything but the published files.
ProcessEnds(w) ==
  /\ CloseWorkerEnd(w)
  /\ Goto(w, "off")
  /\ work' = [work EXCEPT ![w] = NoWork]
  /\ next_y' = [next_y EXCEPT ![w] = 0]
  /\ UNCHANGED fileVars

got_done(w) ==
  /\ pc[w] = "asked"
  /\ inbox[w].type = "DONE"
  /\ ProcessEnds(w)

\* A send or a receive on a connection the master closed fails.
rpc_failed(w) ==
  /\ pc[w] \in AtSocket
  /\ link[w] = NoFd
  /\ ProcessEnds(w)

crash(w) ==
  /\ pc[w] # "off"
  /\ ProcessEnds(w)

-----------------------------------------------------------------------------
(***************************************************************************)
(* worker_map_run and worker_reduce_run                                    *)
(***************************************************************************)

SetResult(w, r) == work' = [work EXCEPT ![w].result = r]

\* An error before the rename pass: nothing is published.
run_failed(w) ==
  /\ pc[w] = "running"
  /\ SetResult(w, 1)
  /\ Goto(w, "reporting")
  /\ UNCHANGED <<next_y, fileVars, netVars>>

\* The R temporary files are written and closed without error.
map_temps_written(w) ==
  /\ pc[w] = "running"
  /\ work[w].kind = "MAP"
  /\ Goto(w, "renaming")
  /\ UNCHANGED <<work, next_y, fileVars, netVars>>

\* Mutant: a failed rename does not reach the result.
map_rename_unchecked(w, ok) ==
  /\ pc[w] = "renaming"
  /\ work[w].kind = "MAP"
  /\ LET y == next_y[w]
     IN  /\ intermediate' = IF ok THEN intermediate \cup {<<work[w].task_id, y>>}
                                  ELSE intermediate
         /\ next_y' = [next_y EXCEPT ![w] = IF y + 1 < R THEN y + 1 ELSE 0]
         /\ Goto(w, IF y + 1 < R THEN "renaming" ELSE "reporting")
  /\ UNCHANGED <<work, output, netVars>>

\* Mutant: the last rename decides the result of the whole pass.
map_rename_last_wins(w, ok) ==
  /\ pc[w] = "renaming"
  /\ work[w].kind = "MAP"
  /\ LET y == next_y[w]
     IN  /\ intermediate' = IF ok THEN intermediate \cup {<<work[w].task_id, y>>}
                                  ELSE intermediate
         /\ SetResult(w, IF ok THEN 0 ELSE 1)
         /\ next_y' = [next_y EXCEPT ![w] = IF y + 1 < R THEN y + 1 ELSE 0]
         /\ Goto(w, IF y + 1 < R THEN "renaming" ELSE "reporting")
  /\ UNCHANGED <<output, netVars>>

\* One iteration of the rename pass, which goes on after an error.
map_rename(w, ok) ==
  /\ pc[w] = "renaming"
  /\ work[w].kind = "MAP"
  /\ LET y == next_y[w]
     IN  /\ intermediate' = IF ok THEN intermediate \cup {<<work[w].task_id, y>>}
                                  ELSE intermediate
         /\ SetResult(w, IF ok THEN work[w].result ELSE 1)
         /\ next_y' = [next_y EXCEPT ![w] = IF y + 1 < R THEN y + 1 ELSE 0]
         /\ Goto(w, IF y + 1 < R THEN "renaming" ELSE "reporting")
  /\ UNCHANGED <<output, netVars>>

\* All inputs are read, and the groups are folded into the temporary file.
reduce_temp_written(w) ==
  /\ pc[w] = "running"
  /\ work[w].kind = "REDUCE"
  /\ \A x \in Ids("MAP") : <<x, work[w].task_id>> \in intermediate
  /\ Goto(w, "renaming")
  /\ UNCHANGED <<work, next_y, fileVars, netVars>>

reduce_rename(w, ok) ==
  /\ pc[w] = "renaming"
  /\ work[w].kind = "REDUCE"
  /\ output' = IF ok THEN output \cup {work[w].task_id} ELSE output
  /\ SetResult(w, IF ok THEN 0 ELSE 1)
  /\ Goto(w, "reporting")
  /\ UNCHANGED <<next_y, intermediate, netVars>>

-----------------------------------------------------------------------------
(***************************************************************************)
(* report_task_done                                                        *)
(***************************************************************************)

send_task_done(w) ==
  /\ pc[w] = "reporting"
  /\ SendRequest(w, [type       |-> "TASK_DONE",
                     task_id    |-> work[w].task_id,
                     attempt_id |-> work[w].attempt_id,
                     result     |-> work[w].result])
  /\ Goto(w, "acking")
  /\ UNCHANGED <<work, next_y, fileVars>>

got_ack(w) ==
  /\ pc[w] = "acking"
  /\ inbox[w].type = "ACK"
  /\ TakeResponse(w)
  /\ Goto(w, "ready")
  /\ work' = [work EXCEPT ![w] = NoWork]
  /\ UNCHANGED <<next_y, fileVars>>
=============================================================================
