--------------------------- MODULE MapReduceProofs ---------------------------
(***************************************************************************)
(* Proofs of the safety properties of MapReduce that hold for every job    *)
(* size, every set of workers and descriptors, every retry cap and         *)
(* timeout, every log fault, and whether or not before_sleep_proc runs.    *)
(***************************************************************************)
EXTENDS MapReduceInvariants, FiniteSetTheorems, TLAPS

-----------------------------------------------------------------------------
(***************************************************************************)
(* Worker steps                                                            *)
(***************************************************************************)

\* Published files stay published, so what the master and the log hold
\* about completed tasks survives any step that leaves the master alone.
LEMMA MasterFrame ==
  ASSUME SafeInv, UNCHANGED masterVars,
         intermediate \subseteq intermediate', output \subseteq output'
  PROVE  /\ MasterTypeOK'
         /\ SlotsFollowPhase'
         /\ SlotsConsistent'
         /\ CompletedMapsPublished'
         /\ AofPublished'
<1>1. \A k, i : Published(k, i) => Published(k, i)'
  BY DEF Published
<1>2. MasterTypeOK' /\ SlotsFollowPhase' /\ SlotsConsistent'
  BY DEF SafeInv, TypeOK, MasterTypeOK, SlotsFollowPhase,
         SlotsConsistent, masterVars
<1>3. CompletedMapsPublished'
  BY <1>1 DEF SafeInv, CompletedMapsPublished, CompletedTasks, masterVars
<1>4. AofPublished'
  BY <1>1 DEF SafeInv, AofPublished, masterVars
<1> QED
  BY <1>2, <1>3, <1>4

\* The messages of a worker have the types the master expects.
LEMMA MessageTypes ==
  ASSUME NetTypeOK, WorkerTypeOK, NEW w \in Workers
  PROVE  /\ NoMsg \in Requests /\ GetTaskReq \in Requests
         /\ NoMsg \in Responses
         /\ inbox[w].type = "TASK" =>
              /\ inbox[w].kind \in Kinds
              /\ inbox[w].task_id \in Nat
              /\ inbox[w].attempt_id \in Nat
         /\ [type       |-> "TASK_DONE",
             task_id    |-> work[w].task_id,
             attempt_id |-> work[w].attempt_id,
             result     |-> work[w].result] \in Requests
BY DEF NetTypeOK, WorkerTypeOK, Requests, Responses, NoMsg, GetTaskReq, WaitResp,
       DoneResp, TaskDoneAck, Work

\* A client that was dropped, and one just accepted.
LEMMA ClientTypes ==
  /\ NoClient \in Client /\ NoClient.active = FALSE
  /\ NewClient \in Client
BY NetworkAssumption DEF NoClient, NewClient, Client, Requests

\* NoFd is no descriptor.
LEMMA NoFdOutside == NoFd \notin Fds
BY JobAssumption DEF NoFd

\* The parts of SafeInv that a worker's step can disturb.
WorkerSide == NetTypeOK /\ WorkerTypeOK /\ ConnInv

\* Clearing slots leaves the other slots as the phase has them.
LEMMA SlotsCleared ==
  ASSUME SafeInv, \A g \in Fds : workers'[g] \in {ZeroWorker, workers[g]},
         phase' = "JOB_MAP" => phase = "JOB_MAP", status' = status
  PROVE  SlotsFollowPhase'
<1>1. ZeroWorker.current_kind # "REDUCE"
  BY DEF ZeroWorker
<1> QED BY <1>1, Zenon DEF SafeInv, SlotsFollowPhase

\* Whatever a worker does, it is enough to look at the worker's side.
LEMMA WorkerSideSuffices ==
  ASSUME SafeInv, UNCHANGED masterVars, WorkerSide',
         intermediate \subseteq intermediate', output \subseteq output',
         stops' \in 0 .. MaxMasterStops, crashes' \in 0 .. MaxWorkerCrashes
  PROVE  SafeInv'
BY MasterFrame DEF SafeInv, TypeOK, WorkerSide

\* A worker process that ends, in an orderly way or not, takes nothing with
\* it but its connection.
LEMMA ProcessEndsSafe ==
  ASSUME SafeInv, NEW w \in Workers, ProcessEnds(w), UNCHANGED masterVars
  PROVE  WorkerSide'
<1> USE DEF ProcessEnds, CloseWorkerEnd, Goto, fileVars
<1>1. NetTypeOK'
  BY MessageTypes, Zenon DEF SafeInv, TypeOK, NetTypeOK, Client
<1>2. WorkerTypeOK'
  BY JobAssumption DEF SafeInv, TypeOK, WorkerTypeOK, Pc, NoWork, Work
<1>3. StopAndWait' /\ LinksDistinct'
  <2>1. StopAndWait'
    BY SMTT(60) DEF SafeInv, TypeOK, NetTypeOK, WorkerTypeOK, ConnInv, StopAndWait,
                    LinksDistinct, Client, NoMsg
  <2>2. LinksDistinct'
    BY SMTT(60) DEF SafeInv, TypeOK, NetTypeOK, ConnInv, LinksDistinct
  <2> QED
    BY <2>1, <2>2, Zenon
<1>4. AttemptsValid' /\ SlotAgrees'
  BY DEF SafeInv, TypeOK, NetTypeOK, WorkerTypeOK, ConnInv, AttemptsValid,
         SlotAgrees, ValidAttempt, Executing, NoMsg, masterVars
<1>5. FilesWritten'
  BY JobAssumption DEF SafeInv, TypeOK, WorkerTypeOK, ConnInv, FilesWritten, Published
<1>6. ReportsTrue'
  BY DEF SafeInv, TypeOK, NetTypeOK, ConnInv, ReportsTrue, HasRequest, Published,
         Client, masterVars
<1> QED
  BY <1>1, <1>2, <1>3, <1>4, <1>5, <1>6 DEF WorkerSide, ConnInv

\* Sending a request: get_task_req and send_task_done.
LEMMA RequestSafe ==
  ASSUME SafeInv, NEW w \in Workers, UNCHANGED masterVars,
         get_task_req(w) \/ send_task_done(w)
  PROVE  WorkerSide'
<1> USE DEF get_task_req, send_task_done, SendRequest, Goto, fileVars
<1>0. \A k, i : Published(k, i)' <=> Published(k, i)
  BY DEF Published
<1>1. NetTypeOK' /\ WorkerTypeOK'
  <2>1. PICK m \in Requests : clients' = [clients EXCEPT ![link[w]] = [@ EXCEPT !.req = m]]
    BY MessageTypes, Zenon DEF SafeInv, TypeOK
  <2>2. NetTypeOK'
    BY <2>1 DEF SafeInv, TypeOK, NetTypeOK, Client
  <2>3. WorkerTypeOK'
    BY DEF SafeInv, TypeOK, WorkerTypeOK, Pc
  <2> QED
    BY <2>2, <2>3
<1>2. StopAndWait' /\ LinksDistinct'
  <2>1. LinksDistinct'
    BY DEF SafeInv, ConnInv, LinksDistinct
  <2>2. CASE get_task_req(w)
    BY <2>1, <2>2 DEF SafeInv, TypeOK, NetTypeOK, WorkerTypeOK, ConnInv, StopAndWait,
                      LinksDistinct, Client, GetTaskReq
  <2>3. CASE send_task_done(w)
    BY <2>1, <2>3 DEF SafeInv, TypeOK, NetTypeOK, WorkerTypeOK, ConnInv, StopAndWait,
                      LinksDistinct, Client
  <2> QED
    BY <2>1, <2>2, <2>3
<1>3. AttemptsValid' /\ SlotAgrees'
  BY DEF SafeInv, TypeOK, WorkerTypeOK, ConnInv, AttemptsValid, SlotAgrees,
         ValidAttempt, Executing, masterVars
<1>4. FilesWritten'
  BY <1>0 DEF SafeInv, TypeOK, WorkerTypeOK, ConnInv, FilesWritten
<1>5. ReportsTrue'
  <2> SUFFICES ASSUME NEW fd \in Fds, HasRequest(fd, "TASK_DONE")'
               PROVE  ReportsTrue!(fd)!2'
    BY DEF ReportsTrue
  <2>1. CASE fd # link[w] \/ get_task_req(w)
    BY <2>1, <1>0 DEF SafeInv, TypeOK, NetTypeOK, ConnInv, ReportsTrue, HasRequest,
                      GetTaskReq, Client, masterVars
  <2>2. CASE fd = link[w] /\ send_task_done(w)
    <3>1. clients[fd]'.req = [type       |-> "TASK_DONE",
                              task_id    |-> work[w].task_id,
                              attempt_id |-> work[w].attempt_id,
                              result     |-> work[w].result]
      BY <2>2 DEF SafeInv, TypeOK, NetTypeOK, Client
    <3>2. /\ ValidAttempt(work[w])
          /\ workers[fd].current_kind = work[w].kind
          /\ workers[fd].current_task_id = work[w].task_id
          /\ work[w].result = 0 => Published(work[w].kind, work[w].task_id)
      BY <2>2 DEF SafeInv, ConnInv, AttemptsValid, SlotAgrees, FilesWritten, Executing
    <3> QED
      BY <3>1, <3>2, <1>0 DEF ValidAttempt, masterVars
  <2> QED
    BY <2>1, <2>2
<1> QED
  BY <1>1, <1>2, <1>3, <1>4, <1>5 DEF WorkerSide, ConnInv

\* Receiving a response that keeps the process going.
LEMMA ResponseSafe ==
  ASSUME SafeInv, NEW w \in Workers, UNCHANGED masterVars,
         got_task(w) \/ got_wait(w) \/ got_ack(w)
  PROVE  WorkerSide'
<1> USE DEF got_task, got_wait, got_ack, TakeResponse, Goto, fileVars
<1>1. NetTypeOK' /\ WorkerTypeOK'
  <2>1. /\ NoMsg \in Responses
        /\ inbox[w].type = "TASK" => /\ inbox[w].kind \in Kinds
                                     /\ inbox[w].task_id \in Nat
                                     /\ inbox[w].attempt_id \in Nat
    BY MessageTypes, Zenon DEF SafeInv, TypeOK
  <2>2. NetTypeOK'
    BY <2>1 DEF SafeInv, TypeOK, NetTypeOK
  <2>3. WorkerTypeOK'
    BY <2>1, SMTT(60) DEF SafeInv, TypeOK, WorkerTypeOK, Pc, Work, NoWork
  <2> QED
    BY <2>2, <2>3
<1>2. StopAndWait' /\ LinksDistinct'
  BY DEF SafeInv, TypeOK, NetTypeOK, WorkerTypeOK, ConnInv, StopAndWait,
         LinksDistinct, NoMsg
<1>3. AttemptsValid' /\ SlotAgrees'
  BY DEF SafeInv, TypeOK, NetTypeOK, WorkerTypeOK, ConnInv, AttemptsValid,
         SlotAgrees, ValidAttempt, Executing, NoMsg, masterVars
<1>4. FilesWritten'
  <2>1. \A k, i : Published(k, i)' <=> Published(k, i)
    BY Zenon DEF Published
  <2> QED
    BY <2>1 DEF SafeInv, TypeOK, WorkerTypeOK, ConnInv, FilesWritten
<1>5. ReportsTrue'
  BY ZenonT(60) DEF SafeInv, ConnInv, ReportsTrue, HasRequest, Published, masterVars
<1> QED
  BY <1>1, <1>2, <1>3, <1>4, <1>5 DEF WorkerSide, ConnInv

\* The steps of an attempt up to its rename pass publish nothing.
LEMMA ComputeSafe ==
  ASSUME SafeInv, NEW w \in Workers, UNCHANGED masterVars,
         run_failed(w) \/ map_temps_written(w) \/ reduce_temp_written(w)
  PROVE  WorkerSide'
<1> USE DEF run_failed, map_temps_written, reduce_temp_written, SetResult, Goto,
            fileVars, netVars
<1>1. NetTypeOK' /\ WorkerTypeOK'
  <2>1. NetTypeOK'
    BY DEF SafeInv, TypeOK, NetTypeOK
  <2>2. WorkerTypeOK'
    BY DEF SafeInv, TypeOK, WorkerTypeOK, Pc, Work
  <2> QED
    BY <2>1, <2>2
<1>2. StopAndWait' /\ LinksDistinct'
  BY DEF SafeInv, TypeOK, WorkerTypeOK, ConnInv, StopAndWait, LinksDistinct
<1>0a. \A v \in Workers :
         /\ work'[v].kind = work[v].kind
         /\ work'[v].task_id = work[v].task_id
         /\ work'[v].attempt_id = work[v].attempt_id
         /\ pc'[v] \in Executing <=> pc[v] \in Executing
  BY DEF SafeInv, TypeOK, WorkerTypeOK, Work, Executing
<1>3. AttemptsValid' /\ SlotAgrees'
  <2>1. /\ link' = link /\ inbox' = inbox /\ workers' = workers
        /\ AttemptsValid /\ SlotAgrees
    BY DEF SafeInv, ConnInv, masterVars
  <2>2. AttemptsValid'
    BY <1>0a, <2>1 DEF AttemptsValid, ValidAttempt
  <2>3. SlotAgrees'
    BY <1>0a, <2>1, Zenon DEF SlotAgrees
  <2> QED
    BY <2>2, <2>3
<1>4. FilesWritten'
  BY DEF SafeInv, TypeOK, WorkerTypeOK, ConnInv, FilesWritten, Published, Work
<1>5. ReportsTrue'
  BY DEF SafeInv, ConnInv, ReportsTrue, HasRequest, Published, masterVars
<1> QED
  BY <1>1, <1>2, <1>3, <1>4, <1>5 DEF WorkerSide, ConnInv

\* A rename adds the file it names and nothing else; the attempt reaches its
\* report with result 0 only if every rename succeeded.
LEMMA RenameSafe ==
  ASSUME SafeInv, NEW w \in Workers, NEW ok \in BOOLEAN, UNCHANGED masterVars,
         map_rename(w, ok) \/ reduce_rename(w, ok)
  PROVE  WorkerSide' /\ intermediate \subseteq intermediate' /\ output \subseteq output'
<1> USE DEF map_rename, reduce_rename, SetResult, Goto, netVars
<1>0. /\ intermediate \subseteq intermediate' /\ output \subseteq output'
      /\ \A k, i : Published(k, i) => Published(k, i)'
  BY DEF Published
<1>1. NetTypeOK'
  BY DEF SafeInv, TypeOK, NetTypeOK
<1>2. ValidAttempt(work[w]) /\ next_y[w] \in 0 .. R - 1
  BY JobAssumption DEF SafeInv, TypeOK, WorkerTypeOK, ConnInv, AttemptsValid,
                       FilesWritten, Executing
<1>3. WorkerTypeOK'
  BY <1>2, JobAssumption DEF SafeInv, TypeOK, WorkerTypeOK, Pc, Work, ValidAttempt,
                             Ids, NumTasks
<1>4. StopAndWait' /\ LinksDistinct'
  BY DEF SafeInv, TypeOK, WorkerTypeOK, ConnInv, StopAndWait, LinksDistinct
<1>0a. \A v \in Workers :
         /\ work'[v].kind = work[v].kind
         /\ work'[v].task_id = work[v].task_id
         /\ work'[v].attempt_id = work[v].attempt_id
         /\ pc'[v] \in Executing <=> pc[v] \in Executing
  BY DEF SafeInv, TypeOK, WorkerTypeOK, Work, Executing
<1>5. AttemptsValid' /\ SlotAgrees'
  <2>1. /\ link' = link /\ inbox' = inbox /\ workers' = workers
        /\ AttemptsValid /\ SlotAgrees
    BY DEF SafeInv, ConnInv, masterVars
  <2>2. AttemptsValid'
    BY <1>0a, <2>1 DEF AttemptsValid, ValidAttempt
  <2>3. SlotAgrees'
    BY <1>0a, <2>1, Zenon DEF SlotAgrees
  <2> QED
    BY <2>2, <2>3
<1>6. FilesWritten'
  <2> SUFFICES ASSUME NEW v \in Workers PROVE FilesWritten!(v)'
    BY DEF FilesWritten
  <2>1. CASE v # w
    <3>1. pc'[v] = pc[v] /\ work'[v] = work[v] /\ next_y'[v] = next_y[v]
      BY <2>1 DEF SafeInv, TypeOK, WorkerTypeOK
    <3>2. FilesWritten
      BY DEF SafeInv, ConnInv
    <3> QED
      BY <3>1, <3>2, <1>0 DEF FilesWritten
  <2>2. CASE v = w /\ map_rename(w, ok)
    <3> DEFINE y == next_y[w]
    <3>1. /\ pc[w] = "renaming" /\ work[w].kind = "MAP"
          /\ y \in 0 .. R - 1
          /\ pc'[w] = IF y + 1 < R THEN "renaming" ELSE "reporting"
          /\ next_y'[w] = IF y + 1 < R THEN y + 1 ELSE 0
          /\ work'[w].kind = "MAP" /\ work'[w].task_id = work[w].task_id
          /\ work'[w].result = 0 => ok /\ work[w].result = 0
      BY <2>2, <1>2 DEF SafeInv, TypeOK, WorkerTypeOK, Work
    <3>2. work'[w].result = 0 =>
            \A z \in 0 .. y : <<work[w].task_id, z>> \in intermediate'
      <4>1. work[w].result = 0 =>
              \A z \in 0 .. y - 1 : <<work[w].task_id, z>> \in intermediate
        BY <3>1 DEF SafeInv, ConnInv, FilesWritten
      <4>2. ok => <<work[w].task_id, y>> \in intermediate'
        BY <2>2
      <4>3. \A z \in 0 .. y : z = y \/ z \in 0 .. y - 1
        BY <3>1
      <4> QED
        BY <3>1, <4>1, <4>2, <4>3, <1>0, Zenon
    <3>3. CASE y + 1 < R
      BY <2>2, <3>1, <3>2, <3>3, JobAssumption DEF FilesWritten
    <3>4. CASE ~ (y + 1 < R)
      <4>1. y = R - 1 /\ Ids("REDUCE") = 0 .. y
        BY <3>1, <3>4, JobAssumption DEF Ids, NumTasks
      <4>2. work'[w].result = 0 => Published(work[w].kind, work[w].task_id)'
        BY <3>1, <3>2, <4>1 DEF Published
      <4> QED
        BY <2>2, <3>1, <3>4, <4>2, JobAssumption DEF FilesWritten
    <3> QED
      BY <3>3, <3>4
  <2>3. CASE v = w /\ reduce_rename(w, ok)
    <3>1. /\ pc'[w] = "reporting" /\ next_y'[w] = next_y[w]
          /\ work'[w].kind = "REDUCE" /\ work'[w].task_id = work[w].task_id
          /\ work'[w].result = 0 => ok
      BY <2>3 DEF SafeInv, TypeOK, WorkerTypeOK, Work
    <3>2. next_y[w] = 0
      BY <2>3 DEF SafeInv, ConnInv, FilesWritten
    <3> QED
      BY <2>3, <3>1, <3>2, JobAssumption DEF Published
  <2> QED
    BY <2>1, <2>2, <2>3
<1>7. ReportsTrue'
  BY <1>0 DEF SafeInv, ConnInv, ReportsTrue, HasRequest, masterVars
<1> QED
  BY <1>0, <1>1, <1>3, <1>4, <1>5, <1>6, <1>7, Zenon DEF WorkerSide, ConnInv

\* Every step of a worker process preserves the invariant.
LEMMA WorkerStepSafe ==
  ASSUME SafeInv, NEW w \in Workers, WorkerStep(w)
  PROVE  SafeInv'
<1>1. UNCHANGED masterVars /\ UNCHANGED budgetVars
  BY DEF WorkerStep
<1>2. /\ stops' \in 0 .. MaxMasterStops
      /\ crashes' \in 0 .. MaxWorkerCrashes
  BY <1>1 DEF SafeInv, TypeOK, budgetVars
<1>3. WorkerSide' /\ intermediate \subseteq intermediate' /\ output \subseteq output'
  <2>1. CASE get_task_req(w) \/ send_task_done(w)
    BY <1>1, <2>1, RequestSafe, SMTT(60) DEF get_task_req, send_task_done, fileVars
  <2>2. CASE got_task(w) \/ got_wait(w) \/ got_ack(w)
    BY <1>1, <2>2, ResponseSafe, Zenon DEF got_task, got_wait, got_ack, fileVars
  <2>3. CASE got_done(w) \/ rpc_failed(w)
    BY <1>1, <2>3, ProcessEndsSafe DEF got_done, rpc_failed, ProcessEnds, fileVars
  <2>4. CASE run_failed(w) \/ map_temps_written(w) \/ reduce_temp_written(w)
    BY <1>1, <2>4, ComputeSafe
       DEF run_failed, map_temps_written, reduce_temp_written, fileVars
  <2>5. CASE \E ok \in BOOLEAN : map_rename(w, ok) \/ reduce_rename(w, ok)
    BY <1>1, <2>5, RenameSafe
  <2> QED
    BY <2>1, <2>2, <2>3, <2>4, <2>5, Zenon DEF WorkerStep
<1> QED
  BY <1>1, <1>2, <1>3, WorkerSideSuffices

\* A worker may crash at any point without breaking the invariant.
LEMMA WorkerCrashSafe ==
  ASSUME SafeInv, NEW w \in Workers, WorkerCrash(w)
  PROVE  SafeInv'
<1>1. /\ UNCHANGED masterVars
      /\ stops' \in 0 .. MaxMasterStops
      /\ crashes' \in 0 .. MaxWorkerCrashes
  BY BudgetAssumption DEF WorkerCrash, SafeInv, TypeOK
<1>2. ProcessEnds(w) /\ intermediate \subseteq intermediate' /\ output \subseteq output'
  BY DEF WorkerCrash, crash, ProcessEnds, fileVars
<1> QED
  BY <1>1, <1>2, ProcessEndsSafe, WorkerSideSuffices

-----------------------------------------------------------------------------
(***************************************************************************)
(* The connection side of the master's steps                               *)
(***************************************************************************)

\* A handler that answers fd may touch the slot of fd only.  If it hands out
\* a task, it answers a GetTask, with a task of the job that the slot names.
LEMMA ReplySafe ==
  ASSUME SafeInv, NEW fd \in Fds, NEW m \in Responses, NEW sent \in BOOLEAN,
         HasRequest(fd, "GET_TASK") \/ HasRequest(fd, "TASK_DONE"),
         server_send(fd, m, sent),
         UNCHANGED workerVars,
         \A g \in Fds \ {fd} : workers'[g] = workers[g],
         m.type # "NONE",
         m.type = "TASK" => /\ HasRequest(fd, "GET_TASK")
                            /\ ValidAttempt(m)
                            /\ sent => /\ workers'[fd].current_kind = m.kind
                                       /\ workers'[fd].current_task_id = m.task_id
  PROVE  NetTypeOK' /\ WorkerTypeOK' /\ ConnInv'
<1>0. \A k, i : Published(k, i)' <=> Published(k, i)
  BY DEF Published, workerVars
<1>1. /\ link' = link /\ pc' = pc /\ work' = work /\ next_y' = next_y
      /\ intermediate' = intermediate
      /\ \A w \in Workers : inbox'[w] = IF link[w] = fd THEN m ELSE inbox[w]
      /\ \A g \in Fds \ {fd} : clients'[g] = clients[g]
      /\ clients'[fd].req.type = "NONE"
      /\ sent => clients'[fd].active = clients[fd].active
                 /\ clients'[fd].eof = clients[fd].eof
      /\ ~ sent => clients[fd].eof
  BY Zenon DEF server_send, SafeInv, TypeOK, NetTypeOK, Client, NoMsg, NoClient, workerVars
<1>2. NetTypeOK'
  <2>1. NoMsg \in Requests /\ 0 \in 0 .. ClientTimeout
    BY NetworkAssumption DEF Requests
  <2>2. clients' \in [Fds -> Client]
    BY <2>1, ZenonT(60) DEF server_send, SafeInv, TypeOK, NetTypeOK, Client, NoClient
  <2>3. inbox' \in [Workers -> Responses] /\ link' \in [Workers -> Fds \cup {NoFd}]
    BY DEF server_send, SafeInv, TypeOK, NetTypeOK
  <2> QED
    BY <2>2, <2>3 DEF NetTypeOK
<1>3. WorkerTypeOK'
  BY Zenon DEF SafeInv, TypeOK, WorkerTypeOK, workerVars
\* The worker at fd, if it is still there, waits for this answer.
<1>4. \A w \in Workers : link[w] = fd =>
        /\ sent
        /\ pc[w] \in {"asked", "acking"}
        /\ HasRequest(fd, "GET_TASK") => pc[w] = "asked"
        /\ clients[fd].active /\ ~ clients[fd].eof
  BY <1>1, JobAssumption, SMTT(60) DEF SafeInv, ConnInv, StopAndWait, HasRequest, NoFd
<1>L. \A w \in Workers : link[w] \in Fds \cup {NoFd}
  BY Zenon DEF SafeInv, TypeOK, NetTypeOK
<1>5. StopAndWait' /\ LinksDistinct'
  <2>1. LinksDistinct'
    BY <1>1, Zenon DEF SafeInv, ConnInv, LinksDistinct
  <2>2. StopAndWait
    BY Zenon DEF SafeInv, ConnInv
  <2>3. StopAndWait'
    BY <1>1, <1>4, <1>L, <2>2, SMTT(60) DEF StopAndWait
  <2> QED
    BY <2>1, <2>3, Zenon
<1>6. AttemptsValid'
  BY <1>1, Zenon DEF SafeInv, ConnInv, AttemptsValid, ValidAttempt
<1>7. SlotAgrees'
  <2>1. SlotAgrees
    BY Zenon DEF SafeInv, ConnInv
  <2> QED
    BY <1>1, <1>4, <1>L, <2>1, SMTT(60) DEF SlotAgrees, Executing
<1>8. FilesWritten'
  BY <1>0, <1>1, Zenon DEF SafeInv, ConnInv, FilesWritten
<1>9. ReportsTrue'
  BY <1>0, <1>1, SMTT(60) DEF SafeInv, ConnInv, ReportsTrue, HasRequest
<1> QED
  BY <1>2, <1>3, <1>5, <1>6, <1>7, <1>8, <1>9, Zenon DEF ConnInv

\* Removing clients and zeroing their slots disturbs no other connection.
LEMMA DropSafe ==
  ASSUME SafeInv, UNCHANGED workerVars, NEW S \in SUBSET Fds,
         clients' \in [Fds -> Client],
         \A g \in S : clients'[g].active = FALSE,
         \A g \in Fds \ S : /\ clients'[g].active = clients[g].active
                             /\ clients'[g].eof = clients[g].eof
                             /\ clients'[g].req = clients[g].req
                             /\ workers'[g] = workers[g],
         link' = [w \in Workers |-> IF link[w] \in S THEN NoFd ELSE link[w]],
         inbox' = inbox
  PROVE  NetTypeOK' /\ WorkerTypeOK' /\ ConnInv'
<1>0. \A k, i : Published(k, i)' <=> Published(k, i)
  BY Zenon DEF Published, workerVars
<1>1. /\ pc' = pc /\ work' = work /\ next_y' = next_y
      /\ intermediate' = intermediate
      /\ \A w \in Workers : link'[w] # NoFd => link'[w] = link[w] /\ link[w] \in Fds \ S
      /\ \A w \in Workers : link[w] = NoFd => link'[w] = NoFd
  BY DEF SafeInv, TypeOK, NetTypeOK, workerVars
<1>2. NetTypeOK' /\ WorkerTypeOK'
  BY Zenon DEF SafeInv, TypeOK, NetTypeOK, WorkerTypeOK, workerVars
<1>3. StopAndWait'
  <2>1. StopAndWait
    BY Zenon DEF SafeInv, ConnInv
  <2> QED
    BY <1>1, <2>1, SMTT(60) DEF StopAndWait
<1>4. LinksDistinct'
  BY <1>1, Zenon DEF SafeInv, ConnInv, LinksDistinct
<1>5. AttemptsValid'
  BY <1>1, Zenon DEF SafeInv, ConnInv, AttemptsValid, ValidAttempt
<1>6. SlotAgrees'
  <2>1. SlotAgrees
    BY Zenon DEF SafeInv, ConnInv
  <2> QED
    BY <1>1, <2>1, SMTT(60) DEF SlotAgrees
<1>7. FilesWritten'
  BY <1>0, <1>1, Zenon DEF SafeInv, ConnInv, FilesWritten
<1>8. ReportsTrue'
  BY <1>0, ZenonT(60) DEF SafeInv, ConnInv, ReportsTrue, HasRequest
<1> QED
  BY <1>2, <1>3, <1>4, <1>5, <1>6, <1>7, <1>8, Zenon DEF ConnInv

-----------------------------------------------------------------------------
(***************************************************************************)
(* Updates of one task slot                                                *)
(***************************************************************************)

\* task_reset_pending builds a well-formed, consistent slot.
LEMMA ResetSlot ==
  task_reset_pending \in TaskSlot /\ SlotConsistent(task_reset_pending)
BY JobAssumption
   DEF task_reset_pending, TaskSlot, TaskStates, EndStatus, SlotConsistent, NoFd

\* A slot restored by aof_load is well formed and consistent.
LEMMA RestoredSlot ==
  LET t == [task_reset_pending EXCEPT !.state = "COMPLETED"]
  IN  t \in TaskSlot /\ SlotConsistent(t)
BY JobAssumption
   DEF task_reset_pending, TaskSlot, TaskStates, EndStatus, SlotConsistent, NoFd

\* choose_available_task keeps a PENDING slot consistent; there is a history
\* row left for the new attempt.
LEMMA StartedSlot ==
  ASSUME NEW t \in TaskSlot, SlotConsistent(t), t.state = "PENDING",
         NEW fd \in Fds
  PROVE  /\ attempt_started(t, fd) \in TaskSlot
         /\ SlotConsistent(attempt_started(t, fd))
         /\ attempt_started(t, fd).state = "IN_PROGRESS"
<1> DEFINE u == attempt_started(t, fd)
<1>1. /\ t.attempts_count < MAX_ATTEMPTS
      /\ t.current_attempt = t.attempts_count
      /\ t.attempts_count \in 0 .. MAX_ATTEMPTS
      /\ t.history \in [1 .. MAX_ATTEMPTS -> EndStatus]
  BY DEF SlotConsistent, TaskSlot
<1>2. /\ u.state = "IN_PROGRESS" /\ u.owner_fd = fd /\ u.elapsed = 0
      /\ u.attempts_count = t.attempts_count + 1
      /\ u.current_attempt = t.attempts_count + 1
      /\ u.history = [t.history EXCEPT ![t.attempts_count + 1] = "RUNNING"]
  BY <1>1 DEF attempt_started, TaskSlot
<1>3. u \in TaskSlot
  <2>1. [t.history EXCEPT ![t.attempts_count + 1] = "RUNNING"]
          \in [1 .. MAX_ATTEMPTS -> EndStatus]
    BY <1>1, Zenon DEF EndStatus
  <2>2. /\ t.attempts_count + 1 \in 0 .. MAX_ATTEMPTS
        /\ 0 \in 0 .. TaskTimeout + 1
    BY <1>1, JobAssumption
  <2> QED
    BY <1>1, <2>1, <2>2, Zenon DEF attempt_started, TaskSlot, TaskStates
<1>4. SlotConsistent(u)
  <2>1. \A n \in 1 .. MAX_ATTEMPTS :
          u.history[n] = IF n = t.attempts_count + 1 THEN "RUNNING" ELSE t.history[n]
    BY <1>1, <1>2, Zenon
  <2>2. \A n \in 1 .. MAX_ATTEMPTS :
          /\ n > u.attempts_count <=> u.history[n] = "NONE"
          /\ n < u.attempts_count => u.history[n] \in {"FAILED", "TIMEOUT"}
    BY <1>1, <1>2, <2>1, JobAssumption DEF SlotConsistent, EndStatus
  <2>3. u.history[u.attempts_count] = "RUNNING"
    BY <1>1, <1>2, <2>1, JobAssumption
  <2> QED
    BY <1>1, <1>2, <2>2, <2>3, JobAssumption DEF SlotConsistent, NoFd
<1> QED
  BY <1>2, <1>3, <1>4

\* A success report closes the slot: the current history row becomes SUCCESS.
LEMMA SucceededSlot ==
  ASSUME NEW t \in TaskSlot, SlotConsistent(t), t.attempts_count > 0
  PROVE  /\ attempt_succeeded(t) \in TaskSlot
         /\ SlotConsistent(attempt_succeeded(t))
<1> DEFINE u == attempt_succeeded(t)
<1>1. /\ t.attempts_count \in 1 .. MAX_ATTEMPTS
      /\ t.current_attempt = t.attempts_count
      /\ t.history \in [1 .. MAX_ATTEMPTS -> EndStatus]
  BY JobAssumption DEF SlotConsistent, TaskSlot
<1>2. /\ u.state = "COMPLETED" /\ u.owner_fd = NoFd
      /\ u.attempts_count = t.attempts_count
      /\ u.current_attempt = t.attempts_count
      /\ u.history = [t.history EXCEPT ![t.attempts_count] = "SUCCESS"]
  BY <1>1 DEF attempt_succeeded, TaskSlot
<1>3. u \in TaskSlot
  <2>1. [t.history EXCEPT ![t.attempts_count] = "SUCCESS"]
          \in [1 .. MAX_ATTEMPTS -> EndStatus]
    BY <1>1 DEF EndStatus
  <2>2. 0 \in 0 .. TaskTimeout + 1
    BY JobAssumption
  <2> QED
    BY <1>1, <2>1, <2>2, Zenon DEF attempt_succeeded, TaskSlot, TaskStates
<1>4. SlotConsistent(u)
  <2>1. \A n \in 1 .. MAX_ATTEMPTS :
          u.history[n] = IF n = t.attempts_count THEN "SUCCESS" ELSE t.history[n]
    BY <1>1, <1>2, Zenon
  <2>2. \A n \in 1 .. MAX_ATTEMPTS :
          /\ n > u.attempts_count <=> u.history[n] = "NONE"
          /\ n < u.attempts_count => u.history[n] \in {"FAILED", "TIMEOUT"}
    BY <1>1, <1>2, <2>1, JobAssumption, Zenon DEF SlotConsistent
  <2>3. u.history[u.attempts_count] = "SUCCESS"
    BY <1>1, <1>2, <2>1
  <2> QED
    BY <1>1, <1>2, <2>2, <2>3 DEF SlotConsistent, NoFd
<1> QED
  BY <1>3, <1>4

\* task_attempt_ended keeps a slot consistent: it is FAILED exactly when
\* the attempts are used up, and available again otherwise.
LEMMA EndedSlot ==
  ASSUME NEW t \in TaskSlot, SlotConsistent(t), t.attempts_count > 0,
         NEW e \in {"FAILED", "TIMEOUT"}
  PROVE  /\ task_attempt_ended(t, e) \in TaskSlot
         /\ SlotConsistent(task_attempt_ended(t, e))
         /\ task_attempt_ended(t, e).state # "COMPLETED"
<1> DEFINE u == task_attempt_ended(t, e)
<1>1. /\ t.attempts_count \in 1 .. MAX_ATTEMPTS
      /\ t.current_attempt = t.attempts_count
      /\ t.history \in [1 .. MAX_ATTEMPTS -> EndStatus]
  BY JobAssumption DEF SlotConsistent, TaskSlot
<1>2. /\ u.state = (IF t.attempts_count >= MAX_ATTEMPTS THEN "FAILED" ELSE "PENDING")
      /\ u.owner_fd = NoFd
      /\ u.attempts_count = t.attempts_count
      /\ u.current_attempt = t.attempts_count
      /\ u.history = [t.history EXCEPT ![t.attempts_count] = e]
  BY <1>1 DEF task_attempt_ended, attempts_exhausted, TaskSlot
<1>3. u \in TaskSlot
  <2>1. [t.history EXCEPT ![t.attempts_count] = e]
          \in [1 .. MAX_ATTEMPTS -> EndStatus]
    BY <1>1 DEF EndStatus
  <2>2. 0 \in 0 .. TaskTimeout + 1
    BY JobAssumption
  <2> QED
    BY <1>1, <2>1, <2>2, Zenon DEF task_attempt_ended, TaskSlot, TaskStates
<1>4. SlotConsistent(u)
  <2>1. \A n \in 1 .. MAX_ATTEMPTS :
          u.history[n] = IF n = t.attempts_count THEN e ELSE t.history[n]
    BY <1>1, <1>2, Zenon
  <2>2. \A n \in 1 .. MAX_ATTEMPTS :
          /\ n > u.attempts_count <=> u.history[n] = "NONE"
          /\ n < u.attempts_count => u.history[n] \in {"FAILED", "TIMEOUT"}
    BY <1>1, <1>2, <2>1, JobAssumption, Zenon DEF SlotConsistent
  <2>3. u.history[u.attempts_count] = e
    BY <1>1, <1>2, <2>1
  <2> QED
    BY <1>1, <1>2, <2>2, <2>3, JobAssumption DEF SlotConsistent, NoFd
<1> QED
  BY <1>2, <1>3, <1>4

\* The passing of time changes no control field of a slot.
LEMMA AgedSlot ==
  ASSUME NEW t \in TaskSlot, SlotConsistent(t), NEW ticks \in {0, 1}
  PROVE  /\ attempt_aged(t, ticks) \in TaskSlot
         /\ SlotConsistent(attempt_aged(t, ticks))
         /\ attempt_aged(t, ticks).state = t.state
         /\ attempt_aged(t, ticks).attempts_count = t.attempts_count
<1> DEFINE u == attempt_aged(t, ticks)
<1>1. /\ u.state = t.state /\ u.owner_fd = t.owner_fd
      /\ u.attempts_count = t.attempts_count
      /\ u.current_attempt = t.current_attempt
      /\ u.history = t.history
  BY DEF attempt_aged, TaskSlot
<1>2. u \in TaskSlot
  BY JobAssumption, SMTT(60) DEF attempt_aged, TaskSlot
<1>3. SlotConsistent(u)
  BY <1>1 DEF SlotConsistent
<1> QED
  BY <1>1, <1>2, <1>3

\* A slot that is IN_PROGRESS has an attempt to end.
LEMMA RunningSlot ==
  ASSUME NEW t, SlotConsistent(t), t.state = "IN_PROGRESS"
  PROVE  t.attempts_count > 0
BY Zenon DEF SlotConsistent

\* The timeout sweep only ends attempts that are running, so it never
\* touches a COMPLETED slot.
LEMMA SweepSafe ==
  ASSUME NEW table, NEW k \in Kinds, IsTaskTable(table),
         \A l \in Kinds : \A i \in Ids(l) : SlotConsistent(table[l][i])
  PROVE  /\ IsTaskTable(sweep_timeouts(table, k))
         /\ \A l \in Kinds : \A i \in Ids(l) :
              LET t == sweep_timeouts(table, k)[l][i]
              IN  /\ SlotConsistent(t)
                  /\ t.state = "COMPLETED" => table[l][i].state = "COMPLETED"
<1> DEFINE T == sweep_timeouts(table, k)
<1>1. ASSUME NEW i \in Ids(k), i \in Swept(table, k)
      PROVE  LET t == task_attempt_ended(table[k][i], "TIMEOUT")
             IN  t \in TaskSlot /\ SlotConsistent(t) /\ t.state # "COMPLETED"
  <2>1. table[k][i] \in TaskSlot /\ SlotConsistent(table[k][i])
    BY Zenon DEF IsTaskTable
  <2>2. table[k][i].state = "IN_PROGRESS"
    BY <1>1, Zenon DEF Swept, Expired, attempt_expired
  <2>3. table[k][i].attempts_count > 0
    BY <2>1, <2>2, RunningSlot, Zenon
  <2> QED
    BY <2>1, <2>3, EndedSlot, Zenon
<1>2. \A l \in Kinds : \A i \in Ids(l) :
        T[l][i] = IF l = k /\ i \in Swept(table, k)
                  THEN task_attempt_ended(table[k][i], "TIMEOUT")
                  ELSE table[l][i]
  BY Zenon DEF sweep_timeouts, IsTaskTable
<1>3. IsTaskTable(T)
  <2>1. T = [l \in Kinds |-> T[l]]
    BY Zenon DEF sweep_timeouts, IsTaskTable
  <2>2. ASSUME NEW l \in Kinds PROVE T[l] \in [Ids(l) -> TaskSlot]
    <3>1. CASE l = k
      <4>1. T[k] = [i \in Ids(k) |-> IF i \in Swept(table, k)
                                     THEN task_attempt_ended(table[k][i], "TIMEOUT")
                                     ELSE table[k][i]]
        BY DEF sweep_timeouts, IsTaskTable
      <4>2. table[k] \in [Ids(k) -> TaskSlot]
        BY Zenon DEF IsTaskTable
      <4> QED
        BY <1>1, <3>1, <4>1, <4>2, Zenon
    <3>2. CASE l # k
      BY <3>2, Zenon DEF sweep_timeouts, IsTaskTable
    <3> QED
      BY <3>1, <3>2, Zenon
  <2> QED
    BY <2>1, <2>2 DEF IsTaskTable
<1> QED
  BY <1>1, <1>2, <1>3, SMTT(60)

-----------------------------------------------------------------------------
(***************************************************************************)
(* The master's tables, slots and log                                      *)
(***************************************************************************)

\* Writing one consistent slot keeps both tables consistent, provided a map
\* that becomes COMPLETED has its files.
LEMMA SlotUpdateSafe ==
  ASSUME SafeInv, NEW k \in Kinds, NEW i \in Ids(k), NEW u \in TaskSlot,
         SlotConsistent(u),
         k = "MAP" /\ u.state = "COMPLETED" => Published("MAP", i),
         tasks' = [tasks EXCEPT ![k][i] = u],
         UNCHANGED workerVars
  PROVE  IsTaskTable(tasks)' /\ SlotsConsistent' /\ CompletedMapsPublished'
<1>1. IsTaskTable(tasks)
  BY DEF SafeInv, TypeOK, MasterTypeOK
<1>2. \A l \in Kinds : \A j \in Ids(l) :
        tasks'[l][j] = IF l = k /\ j = i THEN u ELSE tasks[l][j]
  BY <1>1 DEF IsTaskTable
<1>3. IsTaskTable(tasks)'
  BY <1>1, Zenon DEF IsTaskTable
<1>4. SlotsConsistent'
  BY <1>2 DEF SafeInv, SlotsConsistent
<1>5. CompletedMapsPublished'
  BY <1>2 DEF SafeInv, CompletedMapsPublished, CompletedTasks, Published, Kinds, workerVars
<1> QED
  BY <1>3, <1>4, <1>5

\* maybe_advance_phase never returns to the map phase.
LEMMA AdvanceForward ==
  ASSUME NEW ph \in Phases, NEW dn
  PROVE  /\ maybe_advance_phase(ph, dn) \in Phases
         /\ maybe_advance_phase(ph, dn) = "JOB_MAP" => ph = "JOB_MAP"
BY DEF maybe_advance_phase, Phases

\* GetTask hands out a PENDING task only, and the slot of the connection
\* names it.
LEMMA GetTaskSafe ==
  ASSUME SafeInv, NEW fd \in Fds, GetTask(fd)
  PROVE  SafeInv'
<1> USE DEF ValidAttempt
<1>1. PICK sent \in BOOLEAN :
        \/ \E k \in Kinds : \E i \in Ids(k) :
             /\ choose_available_task(fd, k, i, sent)
             /\ server_send(fd, TaskResp(k, i, tasks[k][i].current_attempt + 1), sent)
        \/ /\ wait_for_available_tasks(fd, sent)
           /\ server_send(fd, WaitResp, sent)
        \/ /\ get_task_done(fd, sent)
           /\ server_send(fd, DoneResp, sent)
  BY SMTT(60) DEF GetTask
<1>2. /\ UNCHANGED workerVars
      /\ UNCHANGED <<status, phase, done, aof, cronloops, stops, crashes>>
      /\ HasRequest(fd, "GET_TASK")
      /\ status = "up"
  BY <1>1, Zenon DEF GetTask, choose_available_task, wait_for_available_tasks,
              get_task_done, budgetVars
<1>3. AofPublished'
  BY <1>2 DEF SafeInv, AofPublished, Published, workerVars
<1>4. CASE /\ wait_for_available_tasks(fd, sent) \/ get_task_done(fd, sent)
           /\ server_send(fd, WaitResp, sent) \/ server_send(fd, DoneResp, sent)
  <2>1. /\ tasks' = tasks
        /\ workers' = IF sent THEN workers ELSE [workers EXCEPT ![fd] = ZeroWorker]
    BY <1>4 DEF wait_for_available_tasks, get_task_done
  <2>2. /\ workers' \in [Fds -> WorkerSlot]
        /\ \A g \in Fds : workers'[g] = workers[g] \/ workers'[g] = ZeroWorker
        /\ \A g \in Fds \ {fd} : workers'[g] = workers[g]
    BY <2>1, Zenon DEF SafeInv, TypeOK, MasterTypeOK, ZeroWorker, WorkerSlot
  <2>3. NetTypeOK' /\ WorkerTypeOK' /\ ConnInv'
    <3>1. /\ WaitResp \in Responses /\ DoneResp \in Responses
          /\ WaitResp.type \notin {"NONE", "TASK"} /\ DoneResp.type \notin {"NONE", "TASK"}
      BY DEF WaitResp, DoneResp, Responses
    <3> QED
      BY <1>2, <1>4, <2>2, <3>1, ReplySafe, Zenon
  <2>4. TypeOK'
    BY <1>2, <2>1, <2>2, <2>3, Zenon DEF SafeInv, TypeOK, MasterTypeOK, IsTaskTable
  <2>5. SlotsFollowPhase'
    BY <1>2, <2>2 DEF SafeInv, SlotsFollowPhase, ZeroWorker
  <2>6. SlotsConsistent' /\ CompletedMapsPublished'
    BY <1>2, <2>1, Zenon DEF SafeInv, SlotsConsistent, CompletedMapsPublished,
                      CompletedTasks, Published, workerVars
  <2> QED
    BY <1>3, <2>3, <2>4, <2>5, <2>6, Zenon DEF SafeInv
<1>5. ASSUME NEW k \in Kinds, NEW i \in Ids(k),
             choose_available_task(fd, k, i, sent),
             server_send(fd, TaskResp(k, i, tasks[k][i].current_attempt + 1), sent)
      PROVE  SafeInv'
  <2> DEFINE t == tasks[k][i]
  <2>1. /\ t \in TaskSlot /\ SlotConsistent(t) /\ t.state = "PENDING"
        /\ i \in Nat /\ t.current_attempt \in Nat
    <3>1. t \in TaskSlot /\ SlotConsistent(t)
      BY DEF SafeInv, TypeOK, MasterTypeOK, IsTaskTable, SlotsConsistent
    <3>2. t.state = "PENDING"
      BY <1>5 DEF choose_available_task, FirstPending, Pending
    <3>3. i \in Nat /\ t.current_attempt \in Nat
      BY <3>1, JobAssumption DEF TaskSlot, Ids, NumTasks
    <3> QED
      BY <3>1, <3>2, <3>3
  <2>2. IsTaskTable(tasks)' /\ SlotsConsistent' /\ CompletedMapsPublished'
    <3>1. tasks' = [tasks EXCEPT ![k][i] = attempt_started(t, fd)]
      BY <1>5 DEF choose_available_task
    <3> QED
      BY <1>2, <2>1, <3>1, StartedSlot, SlotUpdateSafe, Zenon
  <2> DEFINE slot == [has_task |-> TRUE, current_kind |-> k, current_task_id |-> i,
                      current_attempt_id |-> t.current_attempt + 1]
  <2>3. workers' = [workers EXCEPT ![fd] = IF sent THEN slot ELSE ZeroWorker]
    BY <1>5 DEF choose_available_task
  <2>4. /\ workers' \in [Fds -> WorkerSlot]
        /\ \A g \in Fds \ {fd} : workers'[g] = workers[g]
        /\ workers'[fd] = IF sent THEN slot ELSE ZeroWorker
    <3>1. slot \in WorkerSlot /\ ZeroWorker \in WorkerSlot
      BY <2>1, SMTT(60) DEF WorkerSlot, ZeroWorker
    <3> QED
      BY <2>3, <3>1, Zenon DEF SafeInv, TypeOK, MasterTypeOK
  <2>5. NetTypeOK' /\ WorkerTypeOK' /\ ConnInv'
    <3> DEFINE m == TaskResp(k, i, t.current_attempt + 1)
    <3>1. /\ m \in Responses /\ m.type = "TASK" /\ m.kind = k /\ m.task_id = i
          /\ m.attempt_id # 0
      BY <2>1 DEF TaskResp, Responses
    <3> HIDE DEF m
    <3>2. server_send(fd, m, sent)
      BY <1>5, Zenon DEF m
    <3>3. sent => workers'[fd].current_kind = k /\ workers'[fd].current_task_id = i
      BY <2>4, SMTT(60)
    <3> QED
      BY <1>2, <2>4, <3>1, <3>2, <3>3, ReplySafe, Zenon
  <2>6. TypeOK'
    BY <1>2, <2>2, <2>4, <2>5, Zenon DEF SafeInv, TypeOK, MasterTypeOK
  <2>7. SlotsFollowPhase'
    <3>1. phase = "JOB_MAP" => k = "MAP"
      BY <1>5, Zenon DEF choose_available_task, PhaseKind
    <3> QED
      BY <1>2, <2>4, <3>1 DEF SafeInv, SlotsFollowPhase, ZeroWorker
  <2> QED
    BY <1>3, <2>2, <2>5, <2>6, <2>7, Zenon DEF SafeInv
<1> QED
  BY <1>1, <1>4, <1>5, Zenon

\* A report that is not stale concerns an attempt the table knows: the slot
\* has a history row for it, and in the map phase the slot of the connection
\* really is about a map.
LEMMA FreshReport ==
  ASSUME SafeInv, NEW fd \in Fds, HasRequest(fd, "TASK_DONE"),
         ~ StaleReport(fd, clients[fd].req)
  PROVE  /\ workers[fd].current_task_id \in Ids(PhaseKind)
         /\ Reported(fd) \in TaskSlot
         /\ SlotConsistent(Reported(fd))
         /\ Reported(fd).attempts_count > 0
         /\ PhaseKind = "MAP" => workers[fd].current_kind = "MAP"
<1>1. /\ workers[fd].current_task_id \in Ids(PhaseKind)
      /\ clients[fd].req.attempt_id = Reported(fd).current_attempt
  BY Zenon DEF StaleReport, Reported
<1>2. PhaseKind \in Kinds /\ (PhaseKind = "MAP" => phase = "JOB_MAP")
  BY DEF PhaseKind, Kinds
<1>3. Reported(fd) \in TaskSlot /\ SlotConsistent(Reported(fd))
  BY <1>1, <1>2
     DEF Reported, SafeInv, TypeOK, MasterTypeOK, IsTaskTable, SlotsConsistent
<1>4. Reported(fd).attempts_count > 0
  <2>1. Reported(fd).attempts_count = Reported(fd).current_attempt
    BY <1>3 DEF SlotConsistent
  <2>2. Reported(fd).attempts_count \in Nat
    BY <1>3, JobAssumption DEF TaskSlot
  <2>3. clients[fd].req.attempt_id # 0
    BY Zenon DEF SafeInv, ConnInv, ReportsTrue
  <2> QED
    BY <1>1, <2>1, <2>2, <2>3
<1>5. PhaseKind = "MAP" => workers[fd].current_kind = "MAP"
  BY <1>2, SMTT(60) DEF SafeInv, ConnInv, ReportsTrue, SlotsFollowPhase, Kinds
<1> QED
  BY <1>1, <1>3, <1>4, <1>5, SMTT(60)

\* The record a success appends names a task of the job whose files exist.
LEMMA AppendSafe ==
  ASSUME SafeInv, NEW fd \in Fds, HasRequest(fd, "TASK_DONE"),
         clients[fd].req.result = 0, NEW outcome \in AppendOutcomes,
         aof' = aof_append_completed(aof, CompletionRecord(fd, clients[fd].req), outcome),
         UNCHANGED workerVars
  PROVE  aof' \in Seq(AofRecord \cup {Torn}) /\ AofPublished'
<1> DEFINE m == clients[fd].req
           rec == CompletionRecord(fd, m)
<1>1. /\ rec.kind \in Kinds /\ rec.task_id \in Ids(rec.kind)
      /\ Published(rec.kind, rec.task_id)
  BY Zenon DEF SafeInv, ConnInv, ReportsTrue, CompletionRecord
<1>2. rec \in AofRecord
  <2>1. m \in Requests /\ m.type = "TASK_DONE"
    BY Zenon DEF SafeInv, TypeOK, NetTypeOK, Client, HasRequest
  <2>2. m.task_id \in Nat /\ m.attempt_id \in Nat
    BY <2>1 DEF Requests, NoMsg, GetTaskReq
  <2> QED
    BY <1>1, <2>2, Zenon DEF CompletionRecord, AofRecord
<1> HIDE DEF rec
<1>3. aof \in Seq(AofRecord \cup {Torn})
  BY DEF SafeInv, TypeOK, MasterTypeOK
<1>4. aof' = aof \/ aof' = Append(aof, rec) \/ aof' = Append(aof, Torn)
  BY AofAssumption, Zenon DEF aof_append_completed, rec
<1>5. \A k, i : Published(k, i)' <=> Published(k, i)
  BY SMTT(60) DEF Published, workerVars
<1>6. CASE aof' = aof
  BY <1>3, <1>5, <1>6, Zenon DEF SafeInv, AofPublished
<1>7. ASSUME NEW r \in {rec, Torn}, aof' = Append(aof, r)
      PROVE  aof' \in Seq(AofRecord \cup {Torn}) /\ AofPublished'
  <2>1. /\ aof' \in Seq(AofRecord \cup {Torn})
        /\ Len(aof') = Len(aof) + 1
        /\ \A n \in 1 .. Len(aof) : aof'[n] = aof[n]
        /\ aof'[Len(aof) + 1] = r
    BY <1>2, <1>3, <1>7, SMTT(60)
  <2>2. \A n \in 1 .. Len(aof') : n \in 1 .. Len(aof) \/ n = Len(aof) + 1
    BY <1>3, <2>1
  <2>3. r.kind # "TORN" => r.task_id \in Ids(r.kind) /\ Published(r.kind, r.task_id)
    BY <1>1 DEF Torn
  <2> QED
    BY <1>5, <2>1, <2>2, <2>3, ZenonT(60) DEF SafeInv, AofPublished
<1> QED
  BY <1>4, <1>6, <1>7, Zenon

\* TaskDone: whatever the report, the slot it closes is one the report can
\* close, and a slot becomes COMPLETED only with its files published.
LEMMA TaskDoneSafe ==
  ASSUME SafeInv, NEW fd \in Fds, TaskDone(fd)
  PROVE  SafeInv'
<1> DEFINE m == clients[fd].req
<1>1. PICK sent \in BOOLEAN :
        /\ \/ task_done_stale(fd, m, sent)
           \/ \E outcome \in AppendOutcomes : task_done_success(fd, m, outcome, sent)
           \/ task_done_failure(fd, m, sent)
        /\ server_send(fd, TaskDoneAck, sent)
  BY SMTT(60) DEF TaskDone
<1>2. /\ UNCHANGED workerVars
      /\ UNCHANGED <<status, cronloops, stops, crashes>>
      /\ HasRequest(fd, "TASK_DONE")
      /\ status = "up"
  BY <1>1, Zenon DEF TaskDone, task_done_stale, task_done_success, task_done_failure, budgetVars
<1>3. /\ workers' \in [Fds -> WorkerSlot]
      /\ \A g \in Fds : workers'[g].current_kind \in {workers[g].current_kind, "NONE"}
      /\ \A g \in Fds \ {fd} : workers'[g] = workers[g]
  <2>1. \/ workers' = IF sent THEN workers ELSE [workers EXCEPT ![fd] = ZeroWorker]
        \/ AfterAck(fd, sent)
    BY <1>1, Zenon DEF task_done_stale, task_done_success, task_done_failure
  <2>2. /\ workers \in [Fds -> WorkerSlot]
        /\ ZeroWorker \in WorkerSlot /\ ZeroWorker.current_kind = "NONE"
    BY DEF SafeInv, TypeOK, MasterTypeOK, ZeroWorker, WorkerSlot
  <2>3. \E s \in WorkerSlot : /\ workers' = [workers EXCEPT ![fd] = s]
                             /\ s.current_kind \in {workers[fd].current_kind, "NONE"}
    <3>1. CASE workers' = IF sent THEN workers ELSE [workers EXCEPT ![fd] = ZeroWorker]
      <4>1. workers = [workers EXCEPT ![fd] = workers[fd]]
        BY <2>2
      <4> QED
        BY <2>2, <3>1, <4>1, Zenon
    <3>2. CASE AfterAck(fd, sent)
      <4> DEFINE s == [workers[fd] EXCEPT !.has_task = FALSE]
      <4>1. s \in WorkerSlot /\ s.current_kind = workers[fd].current_kind
        BY <2>2, ZenonT(60) DEF WorkerSlot
      <4> QED
        BY <2>2, <3>2, <4>1, Zenon DEF AfterAck
    <3> QED
      BY <2>1, <3>1, <3>2
  <2> QED
    BY <2>2, <2>3, SMTT(60)
<1>4. NetTypeOK' /\ WorkerTypeOK' /\ ConnInv'
  <2>1. TaskDoneAck \in Responses /\ TaskDoneAck.type \notin {"NONE", "TASK"}
    BY DEF TaskDoneAck, Responses
  <2> QED
    BY <1>1, <1>2, <1>3, <2>1, ReplySafe, Zenon
\* What each path does to the tables, the counters, the phase and the log.
<1>5. /\ IsTaskTable(tasks)' /\ SlotsConsistent' /\ CompletedMapsPublished'
      /\ done' \in [Kinds -> Nat]
      /\ phase' \in Phases /\ (phase' = "JOB_MAP" => phase = "JOB_MAP")
      /\ aof' \in Seq(AofRecord \cup {Torn}) /\ AofPublished'
  <2>1. PhaseKind \in Kinds /\ phase \in Phases /\ done \in [Kinds -> Nat]
    BY DEF PhaseKind, Kinds, SafeInv, TypeOK, MasterTypeOK
  <2>2. CASE task_done_stale(fd, m, sent)
    <3>1. UNCHANGED <<tasks, done, phase, aof>>
      BY <2>2 DEF task_done_stale
    <3> QED
      BY <1>2, <2>1, <3>1, Zenon DEF SafeInv, TypeOK, MasterTypeOK, IsTaskTable, SlotsConsistent,
         CompletedMapsPublished, CompletedTasks, AofPublished, Published, workerVars
  <2>3. CASE \E outcome \in AppendOutcomes : task_done_success(fd, m, outcome, sent)
    <3>0. PICK outcome \in AppendOutcomes : task_done_success(fd, m, outcome, sent)
      BY <2>3, SMTT(60)
    <3>1. /\ ~ StaleReport(fd, m) /\ m.result = 0
          /\ UpdateReported(fd, attempt_succeeded(Reported(fd)))
          /\ done' = Incremented(PhaseKind)
          /\ aof' = aof_append_completed(aof, CompletionRecord(fd, m), outcome)
          /\ phase' = maybe_advance_phase(phase, Incremented(PhaseKind))
      BY <3>0, Zenon DEF task_done_success
    <3>2. /\ workers[fd].current_task_id \in Ids(PhaseKind)
          /\ attempt_succeeded(Reported(fd)) \in TaskSlot
          /\ SlotConsistent(attempt_succeeded(Reported(fd)))
          /\ PhaseKind = "MAP" => Published("MAP", workers[fd].current_task_id)
      BY <1>2, <3>1, FreshReport, SucceededSlot, Zenon DEF SafeInv, ConnInv, ReportsTrue
    <3>3. IsTaskTable(tasks)' /\ SlotsConsistent' /\ CompletedMapsPublished'
      BY <1>2, <2>1, <3>1, <3>2, SlotUpdateSafe, Zenon DEF UpdateReported
    <3>4. aof' \in Seq(AofRecord \cup {Torn}) /\ AofPublished'
      BY <1>2, <3>1, AppendSafe, Zenon
    <3>5. done' \in [Kinds -> Nat]
      <4>1. done' = Incremented(PhaseKind)
        BY <3>1, Zenon
      <4> QED
        BY <2>1, <4>1, SMTT(60) DEF Incremented
    <3>6. phase' \in Phases /\ (phase' = "JOB_MAP" => phase = "JOB_MAP")
      BY <2>1, <3>1, AdvanceForward, Zenon
    <3> QED
      BY <3>3, <3>4, <3>5, <3>6
  <2>4. CASE task_done_failure(fd, m, sent)
    <3>1. /\ workers[fd].current_task_id \in Ids(PhaseKind)
          /\ task_attempt_ended(Reported(fd), "FAILED") \in TaskSlot
          /\ SlotConsistent(task_attempt_ended(Reported(fd), "FAILED"))
          /\ task_attempt_ended(Reported(fd), "FAILED").state # "COMPLETED"
      BY <1>2, <2>4, FreshReport, EndedSlot, Zenon DEF task_done_failure
    <3>2. IsTaskTable(tasks)' /\ SlotsConsistent' /\ CompletedMapsPublished'
      BY <1>2, <2>1, <2>4, <3>1, SlotUpdateSafe, Zenon DEF task_done_failure, UpdateReported
    <3>3. /\ done' = done /\ aof' = aof
          /\ phase' \in {phase, "JOB_FAILED"}
      BY <2>4, Zenon DEF task_done_failure
    <3>4. AofPublished' /\ aof' \in Seq(AofRecord \cup {Torn})
      BY <1>2, <3>3, Zenon DEF SafeInv, TypeOK, MasterTypeOK, AofPublished, Published, workerVars
    <3> QED
      BY <2>1, <3>2, <3>3, <3>4, Zenon DEF Phases
  <2> QED
    BY <1>1, <2>2, <2>3, <2>4, Zenon
<1>6. TypeOK'
  BY <1>2, <1>3, <1>4, <1>5, Zenon DEF SafeInv, TypeOK, MasterTypeOK
<1>7. SlotsFollowPhase'
  BY <1>2, <1>3, <1>5, Zenon DEF SafeInv, SlotsFollowPhase
<1> QED
  BY <1>4, <1>5, <1>6, <1>7, Zenon DEF SafeInv

-----------------------------------------------------------------------------
(***************************************************************************)
(* Start, end and callbacks of the master, and new connections             *)
(***************************************************************************)

\* The end of the master process loses its tables and every connection; the
\* workers and the files stay as they are.
LEMMA MasterGoneSafe ==
  ASSUME SafeInv, NEW log, MasterGone(log), ConnectionsLost, UNCHANGED workerVars,
         aof' \in Seq(AofRecord \cup {Torn}), AofPublished',
         stops' \in 0 .. MaxMasterStops, crashes' \in 0 .. MaxWorkerCrashes
  PROVE  SafeInv'
<1>1. /\ clients' \in [Fds -> Client]
      /\ \A g \in Fds : clients'[g].active = FALSE
      /\ link' = [w \in Workers |-> IF link[w] \in Fds THEN NoFd ELSE link[w]]
      /\ inbox' = inbox
  <2>1. NoClient \in Client /\ NoClient.active = FALSE
    BY ClientTypes
  <2>2. clients' = [g \in Fds |-> NoClient]
    BY DEF ConnectionsLost, remove_client
  <2> QED
    BY <2>1, <2>2 DEF ConnectionsLost, remove_client
<1>2. NetTypeOK' /\ WorkerTypeOK' /\ ConnInv'
  BY <1>1, DropSafe, Zenon
<1>3. /\ IsTaskTable(tasks)'
      /\ \A k \in Kinds : \A i \in Ids(k) : tasks'[k][i] = task_reset_pending
  BY ResetSlot DEF MasterGone, FreshTasks, IsTaskTable
<1>4. MasterTypeOK'
  <2>1. ZeroWorker \in WorkerSlot /\ 0 \in 0 .. SweepEvery - 1
    BY MasterAssumption DEF ZeroWorker, WorkerSlot
  <2> QED
    BY <1>3, <2>1, Zenon DEF MasterGone, MasterTypeOK, Phases
<1>5. SlotsFollowPhase'
  BY DEF MasterGone, SlotsFollowPhase, ZeroWorker
<1>6. SlotsConsistent' /\ CompletedMapsPublished'
  <2>1. task_reset_pending.state # "COMPLETED"
    BY DEF task_reset_pending
  <2>2. SlotsConsistent'
    BY <1>3, ResetSlot, Zenon DEF SlotsConsistent
  <2>3. CompletedMapsPublished'
    BY <1>3, <2>1 DEF CompletedMapsPublished, CompletedTasks, Kinds
  <2> QED
    BY <2>2, <2>3
<1> QED
  BY <1>2, <1>4, <1>5, <1>6, Zenon DEF SafeInv, TypeOK

\* The four ways the process ends: a signal or crash between two handlers, a
\* crash after an append, and the assert of wait_for_available_tasks.
LEMMA MasterEndsSafe ==
  ASSUME SafeInv,
         \/ MasterStop
         \/ \E fd \in Fds : MasterCrashAfterAppend(fd) \/ GetTaskAborts(fd)
  PROVE  SafeInv'
<1>1. /\ UNCHANGED workerVars /\ ConnectionsLost
      /\ stops' \in 0 .. MaxMasterStops /\ crashes' \in 0 .. MaxWorkerCrashes
  BY BudgetAssumption DEF SafeInv, TypeOK, MasterStop, MasterCrashAfterAppend,
                          GetTaskAborts, budgetVars
<1>2. CASE MasterGone(aof)
  <2>1. aof' = aof
    BY <1>2, Zenon DEF MasterGone
  <2>2. aof' \in Seq(AofRecord \cup {Torn}) /\ AofPublished'
    BY <1>1, <2>1, Zenon DEF SafeInv, TypeOK, MasterTypeOK, AofPublished, Published, workerVars
  <2> QED
    BY <1>1, <1>2, <2>2, MasterGoneSafe, SMTT(60)
<1>3. ASSUME NEW fd \in Fds, MasterCrashAfterAppend(fd)
      PROVE  SafeInv'
  <2>1. PICK outcome \in AppendOutcomes : task_done_crash(fd, clients[fd].req, outcome)
    BY <1>3, Zenon DEF MasterCrashAfterAppend
  <2> DEFINE log == aof_append_completed(aof, CompletionRecord(fd, clients[fd].req), outcome)
  <2>2. MasterGone(log) /\ aof' = log
    BY <2>1, Zenon DEF task_done_crash, MasterGone
  <2>3. aof' \in Seq(AofRecord \cup {Torn}) /\ AofPublished'
    BY <1>1, <1>3, <2>1, <2>2, AppendSafe, Zenon DEF MasterCrashAfterAppend, task_done_crash
  <2> QED
    BY <1>1, <2>2, <2>3, MasterGoneSafe, SMTT(60)
<1> QED
  BY <1>2, <1>3 DEF MasterStop, GetTaskAborts, get_task_aborts

\* A start replays the log: the slots it marks COMPLETED have their files,
\* because every record of the log tells the truth.
LEMMA MasterStartSafe ==
  ASSUME SafeInv, MasterStart
  PROVE  SafeInv'
<1>1. /\ UNCHANGED <<workerVars, netVars, budgetVars, workers, aof, cronloops>>
      /\ status = "down" /\ status' \in {"up", "refused"}
  BY DEF MasterStart, master_bootstrap_job, master_bootstrap_refused
<1>2. /\ aof \in Seq(AofRecord \cup {Torn}) /\ AofPublished
      /\ \A g \in Fds : workers'[g] = ZeroWorker
      /\ \A k, i : Published(k, i)' <=> Published(k, i)
  BY <1>1 DEF SafeInv, TypeOK, MasterTypeOK, SlotsFollowPhase, Published, workerVars
<1>3. NetTypeOK' /\ WorkerTypeOK' /\ ConnInv'
  <2>1. \A type : \A g \in Fds : HasRequest(g, type)' <=> HasRequest(g, type)
    BY <1>1 DEF HasRequest, netVars
  <2>2. UNCHANGED <<clients, link, inbox, pc, work, next_y, intermediate, output, workers>>
    BY <1>1, Zenon DEF netVars, workerVars
  <2>3. NetTypeOK' /\ WorkerTypeOK'
    BY <2>2, Zenon DEF SafeInv, TypeOK, NetTypeOK, WorkerTypeOK
  <2>4. StopAndWait' /\ LinksDistinct' /\ AttemptsValid' /\ SlotAgrees'
    BY <2>2, ZenonT(60) DEF SafeInv, ConnInv, StopAndWait, LinksDistinct, AttemptsValid,
                ValidAttempt, SlotAgrees
  <2>5. FilesWritten' /\ ReportsTrue'
    BY <1>2, <2>1, <2>2, Zenon DEF SafeInv, ConnInv, FilesWritten, ReportsTrue
  <2> QED
    BY <2>3, <2>4, <2>5, Zenon DEF ConnInv
<1>4. AofPublished'
  BY <1>1, <1>2, Zenon DEF AofPublished
<1>5. SlotsFollowPhase'
  BY <1>2 DEF SafeInv, SlotsFollowPhase, ZeroWorker
<1>6. /\ IsTaskTable(tasks)' /\ SlotsConsistent' /\ CompletedMapsPublished'
      /\ done' \in [Kinds -> Nat] /\ phase' \in Phases
  <2>1. CASE master_bootstrap_job
    <3>1. tasks' = aof_load_tasks(aof) /\ done' = aof_load_done(aof)
          /\ phase' = maybe_advance_phase("JOB_MAP", aof_load_done(aof))
      BY <2>1 DEF master_bootstrap_job
    <3>2. \A k \in Kinds : \A i \in Ids(k) :
            tasks'[k][i] = IF Recorded(aof, k, i)
                           THEN [task_reset_pending EXCEPT !.state = "COMPLETED"]
                           ELSE task_reset_pending
      BY <3>1 DEF aof_load_tasks
    <3>3. IsTaskTable(tasks)'
      BY <3>1, ResetSlot, RestoredSlot DEF aof_load_tasks, IsTaskTable
    <3>4. SlotsConsistent'
      BY <3>2, ResetSlot, RestoredSlot DEF SlotsConsistent
    <3>5. CompletedMapsPublished'
      <4>1. ASSUME NEW i \in Ids("MAP"), tasks'["MAP"][i].state = "COMPLETED"
            PROVE  Published("MAP", i)
        <5>1. Recorded(aof, "MAP", i)
          BY <3>2, <4>1 DEF task_reset_pending, Kinds
        <5> QED
          BY <1>2, <5>1 DEF Recorded, AofPublished
      <4> QED
        BY <1>2, <4>1, Zenon DEF CompletedMapsPublished, CompletedTasks
    <3>6. done' \in [Kinds -> Nat]
      <4>1. ASSUME NEW k \in Kinds PROVE Cardinality(KindPositions(aof, k)) \in Nat
        <5>1. IsFiniteSet(1 .. Len(aof))
          BY <1>2, FS_Interval
        <5>2. KindPositions(aof, k) \subseteq 1 .. Len(aof)
          BY DEF KindPositions
        <5> QED
          BY <5>1, <5>2, FS_Subset, FS_CardinalityType, Zenon
      <4> QED
        BY <3>1, <4>1 DEF aof_load_done
    <3>7. phase' \in Phases
      BY <3>1, AdvanceForward DEF Phases
    <3> QED
      BY <3>3, <3>4, <3>5, <3>6, <3>7, Zenon
  <2>2. CASE master_bootstrap_refused
    <3>1. UNCHANGED <<tasks, done, phase>>
      BY <2>2, Zenon DEF master_bootstrap_refused
    <3> QED
      BY <1>2, <3>1, Zenon DEF SafeInv, TypeOK, MasterTypeOK, IsTaskTable, SlotsConsistent,
                        CompletedMapsPublished, CompletedTasks
  <2> QED
    BY <2>1, <2>2 DEF MasterStart
<1>7. TypeOK'
  BY <1>1, <1>3, <1>6, Zenon DEF SafeInv, TypeOK, MasterTypeOK, budgetVars
<1> QED
  BY <1>3, <1>4, <1>5, <1>6, <1>7, Zenon DEF SafeInv

\* Dropping one client, because it is gone or because it reported after the
\* end of the job, releases its slot only.
LEMMA DropOneSafe ==
  ASSUME SafeInv, NEW fd \in Fds, TaskDoneRejected(fd) \/ ClientGone(fd)
  PROVE  SafeInv'
<1>1. /\ UNCHANGED workerVars /\ UNCHANGED budgetVars
      /\ ClearWorker({fd}) /\ remove_client({fd})
      /\ status = "up"
  BY Zenon DEF TaskDoneRejected, task_done_rejected, ClientGone
<1>2. /\ UNCHANGED <<status, phase, tasks, done, aof, cronloops>>
      /\ workers' \in [Fds -> WorkerSlot]
      /\ \A g \in Fds : workers'[g] = IF g = fd THEN ZeroWorker ELSE workers[g]
  BY <1>1 DEF ClearWorker, ZeroWorker, WorkerSlot, SafeInv, TypeOK, MasterTypeOK
<1>3. NetTypeOK' /\ WorkerTypeOK' /\ ConnInv'
  <2>1. NoClient \in Client /\ NoClient.active = FALSE
    BY ClientTypes
  <2>2. /\ clients' \in [Fds -> Client]
        /\ \A g \in Fds : clients'[g] = IF g \in {fd} THEN NoClient ELSE clients[g]
    BY <1>1, <2>1, Zenon DEF remove_client, SafeInv, TypeOK, NetTypeOK
  <2>3. /\ link' = [w \in Workers |-> IF link[w] \in {fd} THEN NoFd ELSE link[w]]
        /\ inbox' = inbox
    BY <1>1 DEF remove_client
  <2>4. /\ \A g \in {fd} : clients'[g].active = FALSE
        /\ \A g \in Fds \ {fd} : /\ clients'[g].active = clients[g].active
                                 /\ clients'[g].eof = clients[g].eof
                                 /\ clients'[g].req = clients[g].req
                                 /\ workers'[g] = workers[g]
    BY <1>2, <2>1, <2>2, Zenon
  <2>5. {fd} \in SUBSET Fds
    BY Zenon
  <2> QED
    BY <1>1, <2>2, <2>3, <2>4, <2>5, DropSafe, Zenon
<1>4. TypeOK'
  BY <1>1, <1>2, <1>3, Zenon DEF SafeInv, TypeOK, MasterTypeOK, IsTaskTable, budgetVars
<1>5. SlotsFollowPhase'
  BY <1>1, <1>2, SlotsCleared, Zenon
<1>6. SlotsConsistent' /\ CompletedMapsPublished' /\ AofPublished'
  BY <1>1, <1>2, Zenon DEF SafeInv, SlotsConsistent, CompletedMapsPublished, CompletedTasks,
                    AofPublished, Published, workerVars
<1> QED
  BY <1>3, <1>4, <1>5, <1>6, Zenon DEF SafeInv

\* An iteration of the event loop with before_sleep_proc: the clock, the
\* clients it drops and the attempts it gives up.
LEMMA BeforeSleepSafe ==
  ASSUME SafeInv, NEW ticks \in {0, 1}, NEW found \in Examined, BeforeSleep(ticks, found)
  PROVE  SafeInv'
<1> DEFINE dropped == check_client_timeouts(ticks, found)
<1>1. /\ UNCHANGED workerVars /\ UNCHANGED budgetVars
      /\ UNCHANGED <<status, done, aof>> /\ status = "up"
      /\ dropped \in SUBSET Fds
  BY Zenon DEF BeforeSleep, server_before_sleep, check_client_timeouts, IdleTooLong
<1>2. /\ workers' \in [Fds -> WorkerSlot]
      /\ \A g \in Fds : workers'[g] = IF g \in dropped THEN ZeroWorker ELSE workers[g]
  BY Zenon DEF BeforeSleep, server_before_sleep, ZeroWorker, WorkerSlot,
         SafeInv, TypeOK, MasterTypeOK
<1>3. NetTypeOK' /\ WorkerTypeOK' /\ ConnInv'
  <2> DEFINE aged(c) == [c EXCEPT !.idle = IF ~ c.active THEN 0
                                           ELSE IF c.idle + ticks < ClientTimeout
                                                THEN c.idle + ticks
                                                ELSE ClientTimeout]
  <2>1. NoClient \in Client /\ NoClient.active = FALSE
    BY ClientTypes
  <2>2. /\ clients' = [g \in Fds |-> IF g \in dropped THEN NoClient ELSE aged(clients[g])]
        /\ link' = [w \in Workers |-> IF link[w] \in dropped THEN NoFd ELSE link[w]]
        /\ inbox' = inbox
    BY DEF BeforeSleep, client_timeouts_cron
  <2>3. ASSUME NEW c \in Client
        PROVE  /\ aged(c) \in Client
               /\ aged(c).active = c.active /\ aged(c).eof = c.eof /\ aged(c).req = c.req
    BY NetworkAssumption DEF Client
  <2>4. clients \in [Fds -> Client]
    BY SMTT(60) DEF SafeInv, TypeOK, NetTypeOK
  <2> HIDE DEF aged, dropped
  <2>5. /\ clients' \in [Fds -> Client]
        /\ \A g \in dropped : clients'[g].active = FALSE
        /\ \A g \in Fds \ dropped : /\ clients'[g].active = clients[g].active
                                    /\ clients'[g].eof = clients[g].eof
                                    /\ clients'[g].req = clients[g].req
                                    /\ workers'[g] = workers[g]
    BY <1>1, <1>2, <2>1, <2>2, <2>3, <2>4, Zenon
  <2> QED
    BY <1>1, <2>2, <2>5, DropSafe, Zenon
<1>4. /\ IsTaskTable(Aged(ticks))
      /\ \A k \in Kinds : \A i \in Ids(k) :
           /\ SlotConsistent(Aged(ticks)[k][i])
           /\ Aged(ticks)[k][i].state = tasks[k][i].state
  <2>1. ASSUME NEW k \in Kinds, NEW i \in Ids(k)
        PROVE  tasks[k][i] \in TaskSlot /\ SlotConsistent(tasks[k][i])
    BY DEF SafeInv, TypeOK, MasterTypeOK, IsTaskTable, SlotsConsistent
  <2> QED
    BY <2>1, AgedSlot, Zenon DEF Aged, IsTaskTable
<1>5. /\ IsTaskTable(tasks)'
      /\ \A k \in Kinds : \A i \in Ids(k) :
           /\ SlotConsistent(tasks'[k][i])
           /\ tasks'[k][i].state = "COMPLETED" => tasks[k][i].state = "COMPLETED"
  <2>1. tasks' = sweep_timeouts(Aged(ticks), PhaseKind) \/ tasks' = Aged(ticks)
    BY Zenon DEF BeforeSleep, server_before_sleep
  <2>2. CASE tasks' = Aged(ticks)
    BY <1>4, <2>2, SMTT(60) DEF IsTaskTable
  <2>3. CASE tasks' = sweep_timeouts(Aged(ticks), PhaseKind)
    <3>1. PhaseKind \in Kinds
      BY SMTT(60) DEF PhaseKind, Kinds
    <3>2. /\ IsTaskTable(sweep_timeouts(Aged(ticks), PhaseKind))
          /\ \A k \in Kinds : \A i \in Ids(k) :
               LET t == sweep_timeouts(Aged(ticks), PhaseKind)[k][i]
               IN  /\ SlotConsistent(t)
                   /\ t.state = "COMPLETED" => Aged(ticks)[k][i].state = "COMPLETED"
      BY <1>4, <3>1, SweepSafe, Zenon
    <3> QED
      BY <1>4, <2>3, <3>2, ZenonT(60) DEF IsTaskTable
  <2> QED
    BY <2>1, <2>2, <2>3, Zenon
<1>6. SlotsConsistent' /\ CompletedMapsPublished' /\ AofPublished'
  BY <1>1, <1>5, Zenon DEF SafeInv, SlotsConsistent, CompletedMapsPublished, CompletedTasks,
                    AofPublished, Published, Kinds, workerVars
<1>7. phase' \in Phases /\ (phase' = "JOB_MAP" => phase = "JOB_MAP")
  BY Zenon DEF BeforeSleep, server_before_sleep, SafeInv, TypeOK, MasterTypeOK, Phases
<1>8. cronloops' \in 0 .. SweepEvery - 1
  BY MasterAssumption, SMTT(60)
     DEF BeforeSleep, server_before_sleep, SafeInv, TypeOK, MasterTypeOK
<1>9. TypeOK'
  BY <1>1, <1>2, <1>3, <1>5, <1>7, <1>8, Zenon DEF SafeInv, TypeOK, MasterTypeOK, budgetVars
<1>10. SlotsFollowPhase'
  BY <1>1, <1>2, <1>7, SlotsCleared, Zenon
<1> QED
  BY <1>3, <1>6, <1>9, <1>10, Zenon DEF SafeInv

\* A new connection takes a free descriptor and a blank slot.
LEMMA WorkerStartSafe ==
  ASSUME SafeInv, NEW w \in Workers, WorkerStart(w)
  PROVE  SafeInv'
<1>1. PICK fd \in Fds : client_init(w, fd) /\ ClearWorker({fd})
  BY Zenon DEF WorkerStart
<1>2. /\ UNCHANGED <<status, phase, tasks, done, aof, cronloops, stops, crashes>>
      /\ UNCHANGED <<work, next_y, intermediate, output>>
      /\ status = "up"
  BY <1>1, SMTT(60) DEF WorkerStart, ClearWorker, client_init, fileVars, budgetVars
<1>3. /\ workers' \in [Fds -> WorkerSlot]
      /\ \A g \in Fds : workers'[g] = IF g = fd THEN ZeroWorker ELSE workers[g]
  BY <1>1, Zenon DEF ClearWorker, ZeroWorker, WorkerSlot, SafeInv, TypeOK, MasterTypeOK
<1>4. /\ pc[w] = "off" /\ link[w] = NoFd /\ ~ clients[fd].active
      /\ clients' = [clients EXCEPT ![fd] = NewClient]
      /\ link' = [link EXCEPT ![w] = fd]
      /\ inbox' = [inbox EXCEPT ![w] = NoMsg]
      /\ pc' = [pc EXCEPT ![w] = "ready"]
  BY <1>1 DEF client_init, on_accept, Free, Goto
<1>5. NetTypeOK /\ WorkerTypeOK /\ ConnInv
  BY DEF SafeInv, TypeOK
<1>6. NetTypeOK' /\ WorkerTypeOK'
  <2>1. NewClient \in Client
    BY ClientTypes
  <2>2. NoMsg \in Responses /\ "ready" \in Pc
    BY Zenon DEF Responses, Pc
  <2>3. NetTypeOK'
    BY <1>4, <1>5, <2>1, <2>2, Zenon DEF NetTypeOK
  <2>4. WorkerTypeOK'
    BY <1>2, <1>4, <1>5, <2>2, Zenon DEF WorkerTypeOK
  <2> QED
    BY <2>3, <2>4, Zenon
<1>7. /\ link'[w] = fd /\ pc'[w] = "ready" /\ inbox'[w].type = "NONE"
      /\ \A v \in Workers \ {w} : link'[v] = link[v] /\ pc'[v] = pc[v] /\ inbox'[v] = inbox[v]
      /\ \A v \in Workers : link[v] # fd
  <2>1. \A v \in Workers : link[v] # fd
    BY <1>4, <1>5, NoFdOutside, Zenon DEF ConnInv, StopAndWait
  <2> QED
    BY <1>4, <1>5, <2>1, Zenon DEF NetTypeOK, WorkerTypeOK, NoMsg
<1>C. /\ clients'[fd].active /\ ~ clients'[fd].eof /\ clients'[fd].req.type = "NONE"
      /\ \A g \in Fds \ {fd} : clients'[g] = clients[g]
  BY <1>4, <1>5, Zenon DEF NetTypeOK, NewClient, NoMsg
<1>L. \A v \in Workers \ {w} : link[v] \in Fds \ {fd} \/ link[v] = NoFd
  BY <1>5, <1>7, Zenon DEF NetTypeOK
<1>8. StopAndWait'
  <2>1. StopAndWait
    BY <1>5, Zenon DEF ConnInv
  <2> QED
    <3> DEFINE Waits(p, i, l, c) ==
                 /\ p = "off" => l = NoFd
                 /\ i.type = "TASK" => p = "asked"
                 /\ p \notin {"asked", "acking"} => i.type = "NONE"
                 /\ l # NoFd =>
                      /\ c.active
                      /\ ~ c.eof
                      /\ p \notin {"asked", "acking"} => c.req.type = "NONE"
                      /\ p = "asked" => c.req.type # "TASK_DONE"
                      /\ p = "acking" => c.req.type # "GET_TASK"
                      /\ i.type # "NONE" => c.req.type = "NONE"
    <3>1. ASSUME NEW v \in Workers PROVE Waits(pc[v], inbox[v], link[v], clients[link[v]])
      BY <2>1, Zenon DEF StopAndWait
    <3>2. SUFFICES ASSUME NEW v \in Workers
                   PROVE  Waits(pc'[v], inbox'[v], link'[v], clients'[link'[v]])
      BY Zenon DEF StopAndWait
    <3>3. CASE v = w
      <4>1. Waits("ready", inbox'[w], fd, clients'[fd])
        BY <1>7, <1>C
      <4> QED BY <1>7, <3>3, <4>1, Zenon
    <3>4. CASE v # w /\ link[v] = NoFd
      BY <1>7, <3>1, <3>4, Zenon
    <3>5. CASE v # w /\ link[v] # NoFd
      <4>1. /\ pc'[v] = pc[v] /\ inbox'[v] = inbox[v] /\ link'[v] = link[v]
            /\ clients'[link[v]] = clients[link[v]]
        BY <1>7, <1>C, <1>L, <3>5, Zenon
      <4> HIDE DEF Waits
      <4> QED BY <3>1, <4>1, Zenon
    <3> QED BY <3>3, <3>4, <3>5, Zenon
<1>9. LinksDistinct'
  BY <1>5, <1>7, Zenon DEF ConnInv, LinksDistinct
<1>10. AttemptsValid'
  BY <1>2, <1>5, <1>7, Zenon DEF ConnInv, AttemptsValid, ValidAttempt, Executing
<1>11. SlotAgrees'
  <2>1. SlotAgrees
    BY <1>5, Zenon DEF ConnInv
  <2>2. "ready" \notin Executing
    BY DEF Executing
  <2> SUFFICES ASSUME NEW v \in Workers, link'[v] # NoFd
               PROVE  /\ pc'[v] \in Executing =>
                           /\ workers'[link'[v]].current_kind = work'[v].kind
                           /\ workers'[link'[v]].current_task_id = work'[v].task_id
                      /\ inbox'[v].type = "TASK" =>
                           /\ workers'[link'[v]].current_kind = inbox'[v].kind
                           /\ workers'[link'[v]].current_task_id = inbox'[v].task_id
    BY Zenon DEF SlotAgrees, Executing
  <2>3. CASE v = w
    BY <1>7, <2>2, <2>3, Zenon
  <2>4. CASE v # w
    <3>1. link'[v] = link[v] /\ pc'[v] = pc[v] /\ inbox'[v] = inbox[v] /\ work'[v] = work[v]
      BY <1>2, <1>7, <2>4, Zenon
    <3>2. link[v] \in Fds \ {fd}
      BY <1>L, <2>4, <3>1, Zenon
    <3>3. workers'[link[v]] = workers[link[v]]
      BY <1>3, <3>2, Zenon
    <3> QED
      BY <2>1, <3>1, <3>3, Zenon DEF SlotAgrees
  <2> QED
    BY <2>3, <2>4, Zenon
<1>12. FilesWritten'
  BY <1>2, <1>4, <1>5, <1>7, ZenonT(60) DEF ConnInv, FilesWritten, Published
<1>13. ReportsTrue'
  BY <1>2, <1>3, <1>5, <1>C, ZenonT(60) DEF ConnInv, ReportsTrue, HasRequest, Published
<1>14. TypeOK'
  BY <1>2, <1>3, <1>6, Zenon DEF SafeInv, TypeOK, MasterTypeOK, IsTaskTable
<1>15. SlotsFollowPhase'
  BY <1>2, <1>3, SlotsCleared, Zenon
<1>16. SlotsConsistent' /\ CompletedMapsPublished' /\ AofPublished'
  BY <1>2, Zenon DEF SafeInv, SlotsConsistent, CompletedMapsPublished, CompletedTasks,
              AofPublished, Published
<1> QED
  BY <1>8, <1>9, <1>10, <1>11, <1>12, <1>13, <1>14, <1>15, <1>16, Zenon DEF SafeInv, ConnInv

-----------------------------------------------------------------------------
(***************************************************************************)
(* The theorems                                                            *)
(***************************************************************************)

\* The invariant holds initially: nothing runs and nothing is published.
LEMMA InitSafe == Init => SafeInv
<1> SUFFICES ASSUME Init PROVE SafeInv
  BY Zenon
<1> USE DEF Init, MasterInit, WorkerInit, NetInit
<1>1. /\ IsTaskTable(tasks)
      /\ \A k \in Kinds : \A i \in Ids(k) : tasks[k][i] = task_reset_pending
  BY ResetSlot, Zenon DEF FreshTasks, IsTaskTable
<1>2. MasterTypeOK
  <2>1. /\ ZeroWorker \in WorkerSlot /\ 0 \in 0 .. SweepEvery - 1
        /\ << >> \in Seq(AofRecord \cup {Torn})
    BY MasterAssumption DEF ZeroWorker, WorkerSlot
  <2> QED
    BY <1>1, <2>1, Zenon DEF MasterTypeOK, Phases
<1>3. NetTypeOK
  <2>1. NoClient \in Client /\ NoMsg \in Responses
    BY ClientTypes, Zenon DEF Responses
  <2> QED
    BY <2>1, Zenon DEF NetTypeOK
<1>4. WorkerTypeOK
  BY JobAssumption DEF WorkerTypeOK, Pc, Work, NoWork
<1>5. TypeOK
  BY <1>2, <1>3, <1>4, BudgetAssumption, SMTT(60) DEF TypeOK
<1>6. ConnInv
  <2>1. StopAndWait /\ LinksDistinct /\ AttemptsValid /\ SlotAgrees
    BY Zenon DEF StopAndWait, LinksDistinct, AttemptsValid, SlotAgrees, Executing, NoMsg
  <2>2. FilesWritten
    BY JobAssumption, SMTT(60) DEF FilesWritten
  <2>3. ReportsTrue
    BY Zenon DEF ReportsTrue, HasRequest, NoClient
  <2> QED
    BY <2>1, <2>2, <2>3, SMTT(60) DEF ConnInv
<1>7. SlotsFollowPhase
  BY Zenon DEF SlotsFollowPhase, ZeroWorker
<1>8. SlotsConsistent
  BY <1>1, ResetSlot, SMTT(60) DEF SlotsConsistent
<1>9. CompletedMapsPublished
  <2>1. task_reset_pending.state # "COMPLETED"
    BY Zenon DEF task_reset_pending
  <2> QED
    BY <1>1, <2>1, Zenon DEF CompletedMapsPublished, CompletedTasks, Kinds
<1>10. AofPublished
  BY DEF AofPublished
<1> QED
  BY <1>5, <1>6, <1>7, <1>8, <1>9, <1>10, Zenon DEF SafeInv

\* Every step of the system, and every stuttering step, preserves it.
LEMMA NextSafe == SafeInv /\ [Next]_vars => SafeInv'
<1> SUFFICES ASSUME SafeInv, [Next]_vars PROVE SafeInv'
  OBVIOUS
<1>1. CASE MasterStart
  BY <1>1, MasterStartSafe
<1>2. CASE MasterStop
  BY <1>2, MasterEndsSafe
<1>3. CASE \E ticks \in {0, 1}, found \in Examined : BeforeSleep(ticks, found)
  BY <1>3, BeforeSleepSafe, Zenon
<1>4. ASSUME NEW fd \in Fds, MasterStep(fd) \/ MasterCrashAfterAppend(fd)
      PROVE  SafeInv'
  BY <1>4, GetTaskSafe, TaskDoneSafe, DropOneSafe, MasterEndsSafe, Zenon DEF MasterStep
<1>5. ASSUME NEW w \in Workers, WorkerStart(w) \/ WorkerStep(w) \/ WorkerCrash(w)
      PROVE  SafeInv'
  BY <1>5, WorkerStartSafe, WorkerStepSafe, WorkerCrashSafe, Zenon
<1>6. CASE UNCHANGED vars
  <2>1. UNCHANGED masterVars /\ UNCHANGED workerVars /\ UNCHANGED netVars /\ UNCHANGED budgetVars
    BY <1>6 DEF vars
  <2>2. WorkerSide'
    <3>1. NetTypeOK' /\ WorkerTypeOK'
      BY <2>1, Zenon DEF SafeInv, TypeOK, NetTypeOK, WorkerTypeOK, netVars, workerVars
    <3>2. StopAndWait' /\ LinksDistinct'
      BY <2>1, Zenon DEF SafeInv, ConnInv, StopAndWait, LinksDistinct, netVars, workerVars
    <3>3. AttemptsValid' /\ SlotAgrees'
      BY <2>1, Zenon DEF SafeInv, ConnInv, AttemptsValid, ValidAttempt, SlotAgrees,
                  masterVars, netVars, workerVars
    <3>4. FilesWritten'
      BY <2>1, Zenon DEF SafeInv, ConnInv, FilesWritten, Published, workerVars
    <3>5. ReportsTrue'
      BY <2>1, Zenon DEF SafeInv, ConnInv, ReportsTrue, HasRequest, Published,
                  masterVars, netVars, workerVars
    <3> QED
      BY <3>1, <3>2, <3>3, <3>4, <3>5, Zenon DEF WorkerSide, ConnInv
  <2>3. /\ stops' \in 0 .. MaxMasterStops /\ crashes' \in 0 .. MaxWorkerCrashes
        /\ intermediate \subseteq intermediate' /\ output \subseteq output'
    BY <2>1 DEF SafeInv, TypeOK, budgetVars, workerVars
  <2> QED
    BY <2>1, <2>2, <2>3, WorkerSideSuffices, Zenon
<1> QED
  BY <1>1, <1>2, <1>3, <1>4, <1>5, <1>6, Zenon DEF Next

\* The inductive invariant is an invariant of the system.
THEOREM Safety == Spec => []SafeInv
BY InitSafe, NextSafe, PTL DEF Spec

\* Type correctness, with every attempts_count within its history array and
\* every descriptor, task id and phase in range, for jobs of any size.
THEOREM TypeCorrect == Spec => []TypeOK
<1>1. SafeInv => TypeOK
  BY Zenon DEF SafeInv
<1> QED
  BY <1>1, Safety, PTL

\* The invariants documented at task_t hold of every slot of both tables
\* whatever the order of reports, timeouts, disconnects and restarts.
THEOREM SlotsAlwaysConsistent == Spec => []SlotsConsistent
<1>1. SafeInv => SlotsConsistent
  BY SMTT(60) DEF SafeInv
<1> QED
  BY <1>1, Safety, PTL

\* A map the master holds COMPLETED has published all its partitions, even
\* with stale reports, attempts timed out while still running, and a log
\* that was replayed.
THEOREM MapsPublished == Spec => []CompletedMapsPublished
<1>1. SafeInv => CompletedMapsPublished
  BY SMTT(60) DEF SafeInv
<1> QED
  BY <1>1, Safety, PTL

\* Every record aof_append_completed ever leaves in the log names a task of
\* the job whose files have been published.
THEOREM LogTellsTheTruth == Spec => []AofPublished
<1>1. SafeInv => AofPublished
  BY DEF SafeInv
<1> QED
  BY <1>1, Safety, PTL
=============================================================================
