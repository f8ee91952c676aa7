---------------------------- MODULE ShippedProofs ----------------------------
(***************************************************************************)
(* Proofs of the safety properties of the code as built, in which          *)
(* before_sleep_proc is never called, for every job size, every set of     *)
(* workers and descriptors, every retry cap and every log fault.  With a   *)
(* log that never fails, the code as built also implements Job.            *)
(***************************************************************************)
EXTENDS MapReduceProofs, ShippedInvariants

-----------------------------------------------------------------------------
(***************************************************************************)
(* Counting                                                                *)
(***************************************************************************)

\* A set of tasks of a kind is finite, and has as many members as the table
\* only if it is the whole table.
LEMMA CountIds ==
  ASSUME NEW k \in Kinds, NEW S \in SUBSET Ids(k)
  PROVE  /\ IsFiniteSet(S) /\ Cardinality(S) \in Nat
         /\ Cardinality(S) <= NumTasks(k)
         /\ Cardinality(S) = NumTasks(k) <=> S = Ids(k)
<1>1. NumTasks(k) \in Nat
  BY JobAssumption DEF NumTasks
<1>2. IsFiniteSet(Ids(k)) /\ Cardinality(Ids(k)) = NumTasks(k)
  <2> DEFINE n == NumTasks(k) - 1
  <2>1. n \in Int /\ (0 > n => NumTasks(k) = 0) /\ (n - 0) + 1 = NumTasks(k)
    BY <1>1
  <2> HIDE DEF n
  <2>2. /\ IsFiniteSet(0 .. n)
        /\ Cardinality(0 .. n) = IF 0 > n THEN 0 ELSE (n - 0) + 1
    BY <2>1, FS_Interval
  <2> QED
    BY <2>1, <2>2 DEF Ids, n
<1>3. /\ IsFiniteSet(S) /\ Cardinality(S) <= Cardinality(Ids(k))
      /\ Cardinality(S) = Cardinality(Ids(k)) => S = Ids(k)
  BY <1>2, FS_Subset, SMTT(60)
<1> QED
  BY <1>2, <1>3, FS_CardinalityType, SMTT(60)

\* What maybe_advance_phase returns, by the counters it is given.
LEMMA AdvanceCounts ==
  ASSUME NEW ph \in {"JOB_MAP", "JOB_REDUCE"}, NEW dn,
         ph = "JOB_REDUCE" => dn["MAP"] = M
  PROVE  LET r == maybe_advance_phase(ph, dn)
         IN  /\ r \in {"JOB_MAP", "JOB_REDUCE", "JOB_DONE"}
             /\ r = "JOB_MAP" => dn["MAP"] # M /\ ph = "JOB_MAP"
             /\ r \in {"JOB_REDUCE", "JOB_DONE"} => dn["MAP"] = M
             /\ r = "JOB_REDUCE" => dn["REDUCE"] # R
             /\ r = "JOB_DONE" => dn["REDUCE"] = R
BY DEF maybe_advance_phase

\* A reduce phase is entered when every map is COMPLETED, and JOB_DONE when
\* every reduce is.
LEMMA PhaseComplete ==
  ASSUME ShippedInv, status = "up"
  PROVE  /\ phase \in {"JOB_REDUCE", "JOB_DONE"} =>
              \A i \in Ids("MAP") : tasks["MAP"][i].state = "COMPLETED"
         /\ phase = "JOB_DONE" =>
              \A i \in Ids("REDUCE") : tasks["REDUCE"][i].state = "COMPLETED"
         /\ phase = "JOB_MAP" =>
              \E i \in Ids("MAP") : tasks["MAP"][i].state # "COMPLETED"
<1>1. \A k \in Kinds : /\ done[k] = Cardinality(CompletedTasks(k))
                       /\ CompletedTasks(k) \in SUBSET Ids(k)
  BY DEF ShippedInv, TableInv, DoneCounts, CompletedTasks
<1>2. \A k \in Kinds : done[k] = NumTasks(k) => CompletedTasks(k) = Ids(k)
  BY <1>1, CountIds, Zenon
<1>3. "MAP" \in Kinds /\ "REDUCE" \in Kinds /\ NumTasks("MAP") = M /\ NumTasks("REDUCE") = R
  BY DEF Kinds, NumTasks
<1>4. CompletedTasks("MAP") = Ids("MAP") => done["MAP"] = M
  <2>1. Cardinality(Ids("MAP")) = M
    BY <1>3, CountIds
  <2> QED
    BY <1>1, <1>3, <2>1, SMTT(60)
<1>5. PhaseCounts
  BY DEF ShippedInv, TableInv
<1> QED
  BY <1>2, <1>3, <1>4, <1>5, Zenon DEF PhaseCounts, CompletedTasks
-----------------------------------------------------------------------------
(***************************************************************************)
(* Steps that leave the tables alone                                       *)
(***************************************************************************)

\* Files stay published, so a step that leaves the master's state and the
\* log alone keeps what the tables, the counters and the log say.
LEMMA TableFrame ==
  ASSUME TableInv, UNCHANGED <<status, phase, tasks, done, aof>>,
         intermediate \subseteq intermediate', output \subseteq output',
         DownBlank'
  PROVE  TableInv'
<1>1. \A k, i : Published(k, i) => Published(k, i)'
  BY Zenon DEF Published
<1>2. PhaseCounts' /\ ReducesWait' /\ JobFailedIffTaskFailed'
  BY Zenon DEF TableInv, PhaseCounts, ReducesWait, JobFailedIffTaskFailed
<1>3. DoneCounts' /\ CompletedPublished'
  BY <1>1, Zenon DEF TableInv, DoneCounts, CompletedPublished, CompletedTasks
<1>4. RecordedCompleted' /\ AofNoDuplicates'
  BY Zenon DEF TableInv, RecordedCompleted, AofNoDuplicates, Recorded
<1> QED
  BY <1>2, <1>3, <1>4, Zenon DEF TableInv

SameTask(a, b) ==
  a.kind = b.kind /\ a.task_id = b.task_id /\ a.attempt_id = b.attempt_id

\* What a step of some worker may do to worker v: lose its connection, drop
\* its task, keep it, or take the one it was sent.
Goes(v) ==
  /\ link'[v] \in {link[v], NoFd}
  /\ inbox'[v].type = "TASK" => inbox'[v] = inbox[v]
  /\ \/ SameTask(work'[v], work[v]) /\ (pc'[v] \in Executing => pc[v] \in Executing)
     \/ inbox[v].type = "TASK" /\ SameTask(work'[v], inbox[v])
     \/ work'[v].kind = "NONE" /\ pc'[v] \notin Executing

\* What it may do to connection fd: close the far end, or put a request
\* there, which is a report only if the worker has come to the end of a task.
Hears(fd) ==
  /\ clients'[fd].active = clients[fd].active
  /\ \/ clients'[fd].req = clients[fd].req
     \/ clients'[fd].req.type # "TASK_DONE"
     \/ \E v \in Workers : /\ link[v] = fd
                           /\ pc[v] = "reporting"
                           /\ clients'[fd].req.attempt_id = work[v].attempt_id

\* Every step of a worker process, a crash included, is of that kind.
LEMMA WorkerEffect ==
  ASSUME SafeInv, NEW w \in Workers, WorkerStep(w) \/ WorkerCrash(w)
  PROVE  /\ UNCHANGED masterVars
         /\ intermediate \subseteq intermediate' /\ output \subseteq output'
         /\ \A v \in Workers : Goes(v)
         /\ \A fd \in Fds : Hears(fd)
<1> USE DEF Goto, SetResult, fileVars, netVars
<1>0. /\ UNCHANGED masterVars
      /\ clients \in [Fds -> Client] /\ link \in [Workers -> Fds \cup {NoFd}]
      /\ inbox \in [Workers -> Responses]
      /\ pc \in [Workers -> Pc] /\ work \in [Workers -> Work]
  BY Zenon DEF SafeInv, TypeOK, NetTypeOK, WorkerTypeOK, WorkerStep, WorkerCrash
<1>1. CASE get_task_req(w) \/ send_task_done(w)
  <2>1. /\ intermediate' = intermediate /\ output' = output
        /\ link' = link /\ inbox' = inbox /\ work' = work
        /\ \A v \in Workers : pc'[v] \in Executing => pc[v] \in Executing
    BY <1>0, <1>1 DEF get_task_req, send_task_done, SendRequest, Executing
  <2>2. \A v \in Workers : Goes(v)
    BY <2>1, Zenon DEF Goes, SameTask
  <2>3. ASSUME NEW fd \in Fds PROVE Hears(fd)
    <3>1. CASE fd # link[w]
      <4>1. clients'[fd] = clients[fd]
        BY <1>0, <1>1, <3>1 DEF get_task_req, send_task_done, SendRequest
      <4> QED
        BY <4>1, Zenon DEF Hears
    <3>2. CASE fd = link[w] /\ get_task_req(w)
      <4>1. /\ clients'[fd].active = clients[fd].active
            /\ clients'[fd].req.type = "GET_TASK"
        BY <1>0, <3>2 DEF get_task_req, SendRequest, Client, GetTaskReq
      <4> QED
        BY <4>1, Zenon DEF Hears
    <3>3. CASE fd = link[w] /\ send_task_done(w)
      <4>1. /\ clients'[fd].active = clients[fd].active
            /\ clients'[fd].req.attempt_id = work[w].attempt_id
            /\ pc[w] = "reporting"
        BY <1>0, <3>3 DEF send_task_done, SendRequest, Client
      <4> QED
        BY <3>3, <4>1, Zenon DEF Hears
    <3> QED
      BY <1>1, <3>1, <3>2, <3>3, Zenon
  <2> QED
    BY <1>0, <2>1, <2>2, <2>3
<1>2. CASE got_task(w) \/ got_wait(w) \/ got_ack(w)
  <2>1. /\ intermediate' = intermediate /\ output' = output
        /\ link' = link /\ clients' = clients
        /\ inbox' = [inbox EXCEPT ![w] = NoMsg]
    BY <1>2, Zenon DEF got_task, got_wait, got_ack, TakeResponse
  <2>2. \A fd \in Fds : Hears(fd)
    BY <2>1, Zenon DEF Hears
  <2>3. ASSUME NEW v \in Workers PROVE Goes(v)
    <3>0. inbox'[v].type = "TASK" => inbox'[v] = inbox[v]
      BY <1>0, <2>1 DEF NoMsg
    <3>1. CASE v # w
      <4>1. pc'[v] = pc[v] /\ work'[v] = work[v]
        BY <1>0, <1>2, <3>1 DEF got_task, got_wait, got_ack
      <4> QED
        BY <2>1, <3>0, <4>1, Zenon DEF Goes, SameTask
    <3>2. CASE v = w /\ got_task(w)
      <4>1. inbox[w].type = "TASK" /\ SameTask(work'[w], inbox[w])
        BY <1>0, <3>2 DEF got_task, SameTask
      <4> QED
        BY <2>1, <3>0, <3>2, <4>1, Zenon DEF Goes
    <3>3. CASE v = w /\ got_wait(w)
      <4>1. pc'[w] = "ready" /\ work' = work
        BY <1>0, <3>3 DEF got_wait
      <4> QED
        BY <2>1, <3>0, <3>3, <4>1, Zenon DEF Goes, SameTask, Executing
    <3>4. CASE v = w /\ got_ack(w)
      <4>1. pc'[w] = "ready" /\ work'[w].kind = "NONE"
        BY <1>0, <3>4, Zenon DEF got_ack, NoWork
      <4> QED
        BY <2>1, <3>0, <3>4, <4>1, Zenon DEF Goes, Executing
    <3> QED
      BY <1>2, <3>1, <3>2, <3>3, <3>4, Zenon
  <2> QED
    BY <1>0, <2>1, <2>2, <2>3, Zenon
<1>3. CASE ProcessEnds(w)
  <2>1. /\ intermediate' = intermediate /\ output' = output
        /\ \A v \in Workers : link'[v] \in {link[v], NoFd}
        /\ \A v \in Workers : inbox'[v].type = "TASK" => inbox'[v] = inbox[v]
        /\ pc'[w] = "off" /\ work'[w].kind = "NONE"
        /\ \A v \in Workers \ {w} : pc'[v] = pc[v] /\ work'[v] = work[v]
    BY <1>0, <1>3 DEF ProcessEnds, CloseWorkerEnd, NoMsg, NoWork
  <2>2. \A fd \in Fds : Hears(fd)
    <3>1. \A fd \in Fds : /\ clients'[fd].active = clients[fd].active
                          /\ clients'[fd].req = clients[fd].req
      BY <1>0, <1>3 DEF ProcessEnds, CloseWorkerEnd, Client
    <3> QED
      BY <3>1, Zenon DEF Hears
  <2>3. \A v \in Workers : Goes(v)
    BY <2>1, Zenon DEF Goes, SameTask, Executing
  <2> QED
    BY <1>0, <2>1, <2>2, <2>3, Zenon
<1>4. CASE \/ run_failed(w) \/ map_temps_written(w) \/ reduce_temp_written(w)
           \/ \E ok \in BOOLEAN : map_rename(w, ok) \/ reduce_rename(w, ok)
  <2>1. link' = link /\ clients' = clients /\ inbox' = inbox
    BY <1>4, Zenon DEF run_failed, map_temps_written, reduce_temp_written, map_rename, reduce_rename
  <2>2. intermediate \subseteq intermediate' /\ output \subseteq output'
    BY <1>4, Zenon DEF run_failed, map_temps_written, reduce_temp_written, map_rename, reduce_rename
  <2>3. \A v \in Workers : SameTask(work'[v], work[v])
    BY <1>0, <1>4 DEF run_failed, map_temps_written, reduce_temp_written, map_rename,
                      reduce_rename, SameTask, Work
  <2>4. \A v \in Workers : pc'[v] \in Executing => pc[v] \in Executing
    BY <1>0, <1>4 DEF run_failed, map_temps_written, reduce_temp_written, map_rename,
                      reduce_rename, Executing
  <2>5. (\A v \in Workers : Goes(v)) /\ (\A fd \in Fds : Hears(fd))
    BY <2>1, <2>3, <2>4, Zenon DEF Goes, Hears
  <2> QED
    BY <1>0, <2>2, <2>5, Zenon
<1> QED
  BY <1>1, <1>2, <1>3, <1>4 DEF WorkerStep, WorkerCrash, got_done, rpc_failed, crash

\* A worker's step gives no worker a task it was not sent.
LEMMA WorkerStepHolds ==
  ASSUME SafeInv, SafeInv', ShippedInv, NEW w \in Workers,
         WorkerStep(w) \/ WorkerCrash(w)
  PROVE  ShippedInv'
<1>1. /\ UNCHANGED masterVars
      /\ intermediate \subseteq intermediate' /\ output \subseteq output'
      /\ \A v \in Workers : Goes(v)
      /\ \A fd \in Fds : Hears(fd)
  BY WorkerEffect, Zenon
<1>2. \A k, i, a, fd : Held(k, i, a, fd)' <=> Held(k, i, a, fd)
  BY <1>1, Zenon DEF Held, masterVars
<1>3. WorkersHold'
  <2>1. WorkersHold /\ StopAndWait'
    BY Zenon DEF ShippedInv, HoldInv, SafeInv, ConnInv
  <2> SUFFICES ASSUME NEW v \in Workers, link'[v] # NoFd
               PROVE  /\ pc'[v] \in Executing =>
                           Held(work'[v].kind, work'[v].task_id, work'[v].attempt_id, link'[v])
                      /\ inbox'[v].type = "TASK" =>
                           Held(inbox'[v].kind, inbox'[v].task_id, inbox'[v].attempt_id, link'[v])
    BY <1>2, Zenon DEF WorkersHold
  <2>2. Goes(v) /\ link'[v] = link[v]
    BY <1>1, Zenon DEF Goes
  <2> QED
    BY <2>1, <2>2, Zenon DEF WorkersHold, Goes, SameTask
<1>4. ReportsHeld'
  <2> SUFFICES ASSUME NEW fd \in Fds, HasRequest(fd, "TASK_DONE")'
               PROVE  Held(workers[fd].current_kind, workers[fd].current_task_id,
                           clients'[fd].req.attempt_id, fd)
    BY <1>1, <1>2, Zenon DEF ReportsHeld, masterVars
  <2>1. Hears(fd) /\ clients'[fd].active /\ clients'[fd].req.type = "TASK_DONE"
    BY <1>1, Zenon DEF HasRequest
  <2>2. CASE clients'[fd].req = clients[fd].req
    BY <2>1, <2>2, Zenon DEF Hears, HasRequest, ShippedInv, HoldInv, ReportsHeld
  <2>3. ASSUME NEW v \in Workers, link[v] = fd, pc[v] = "reporting",
               clients'[fd].req.attempt_id = work[v].attempt_id
        PROVE  Held(workers[fd].current_kind, workers[fd].current_task_id,
                    clients'[fd].req.attempt_id, fd)
    <3>1. link[v] # NoFd /\ pc[v] \in Executing
      BY <2>3, JobAssumption DEF NoFd, Executing
    <3>2. Held(work[v].kind, work[v].task_id, work[v].attempt_id, link[v])
      BY <3>1, Zenon DEF ShippedInv, HoldInv, WorkersHold
    <3>3. /\ workers[link[v]].current_kind = work[v].kind
          /\ workers[link[v]].current_task_id = work[v].task_id
      BY <3>1, Zenon DEF SafeInv, ConnInv, SlotAgrees
    <3> QED
      BY <2>3, <3>2, <3>3, Zenon
  <2> QED
    BY <2>1, <2>2, <2>3, Zenon DEF Hears
<1>5. ReduceInputsPublished'
  BY <1>1, Zenon DEF ShippedInv, HoldInv, ReduceInputsPublished, Goes, SameTask
<1>6. DownBlank'
  <2>1. \A fd \in Fds : clients'[fd].active = clients[fd].active
    BY <1>1, Zenon DEF Hears
  <2>2. \A v \in Workers : link[v] = NoFd => link'[v] = NoFd
    BY <1>1, Zenon DEF Goes
  <2> QED
    BY <1>1, <2>1, <2>2, Zenon DEF ShippedInv, TableInv, DownBlank, masterVars
<1> QED
  BY <1>1, <1>3, <1>4, <1>5, <1>6, TableFrame, Zenon DEF ShippedInv, HoldInv, masterVars
-----------------------------------------------------------------------------
(***************************************************************************)
(* Connections that are answered, dropped or opened                        *)
(***************************************************************************)

\* An answer to fd leaves the other connections alone, and a task it carries
\* is the one the table has just given to fd.
LEMMA ReplyHolds ==
  ASSUME SafeInv, HoldInv, NEW fd \in Fds, NEW m, NEW sent \in BOOLEAN,
         server_send(fd, m, sent), clients[fd].active, clients[fd].req.type # "NONE",
         UNCHANGED workerVars,
         \A g \in Fds \ {fd} : workers'[g] = workers[g],
         \A k \in Kinds : \A i \in Ids(k) : \A a : \A g \in Fds \ {fd} :
           Held(k, i, a, g) => Held(k, i, a, g)',
         m.type = "TASK" =>
           /\ Held(m.kind, m.task_id, m.attempt_id, fd)'
           /\ m.kind = "REDUCE" =>
                \A x \in Ids("MAP") : <<x, m.task_id>> \in intermediate
  PROVE  HoldInv'
<1>1. /\ clients \in [Fds -> Client] /\ link \in [Workers -> Fds \cup {NoFd}]
      /\ StopAndWait /\ AttemptsValid /\ ReportsTrue
      /\ WorkersHold /\ ReportsHeld /\ ReduceInputsPublished
  BY Zenon DEF SafeInv, TypeOK, NetTypeOK, ConnInv, HoldInv
<1>2. /\ link' = link /\ pc' = pc /\ work' = work /\ intermediate' = intermediate
      /\ \A w \in Workers : inbox'[w] = IF link[w] = fd THEN m ELSE inbox[w]
  BY Zenon DEF server_send, workerVars
<1>3. \A g \in Fds \ {fd} : clients'[g] = clients[g]
  BY <1>1 DEF server_send
<1>4. clients'[fd].req.type # "TASK_DONE"
  BY <1>1 DEF server_send, Client, NoClient, NoMsg
<1>5. WorkersHold'
  <2> SUFFICES ASSUME NEW w \in Workers, link[w] # NoFd
               PROVE  /\ pc[w] \in Executing =>
                           Held(work[w].kind, work[w].task_id, work[w].attempt_id, link[w])'
                      /\ inbox'[w].type = "TASK" =>
                           Held(inbox[w].kind, inbox[w].task_id, inbox[w].attempt_id, link[w])'
    BY <1>2, Zenon DEF WorkersHold
  <2>1. CASE link[w] = fd
    <3>1. pc[w] \notin Executing
      BY <1>1, <2>1, Zenon DEF StopAndWait, Executing
    <3>2. inbox'[w] = m
      BY <1>2, <2>1, Zenon
    <3> QED
      BY <1>2, <2>1, <3>1, <3>2, Zenon
  <2>2. CASE link[w] # fd
    <3>1. link[w] \in Fds \ {fd} /\ inbox'[w] = inbox[w]
      BY <1>1, <1>2, <2>2, Zenon
    <3>2. pc[w] \in Executing =>
            /\ work[w].kind \in Kinds /\ work[w].task_id \in Ids(work[w].kind)
            /\ Held(work[w].kind, work[w].task_id, work[w].attempt_id, link[w])
      BY <1>1, Zenon DEF AttemptsValid, ValidAttempt, WorkersHold
    <3>3. inbox[w].type = "TASK" =>
            /\ inbox[w].kind \in Kinds /\ inbox[w].task_id \in Ids(inbox[w].kind)
            /\ Held(inbox[w].kind, inbox[w].task_id, inbox[w].attempt_id, link[w])
      BY <1>1, Zenon DEF AttemptsValid, ValidAttempt, WorkersHold
    <3> QED
      BY <1>2, <3>1, <3>2, <3>3, Zenon
  <2> QED
    BY <2>1, <2>2, Zenon
<1>6. ReportsHeld'
  <2> SUFFICES ASSUME NEW g \in Fds, HasRequest(g, "TASK_DONE")'
               PROVE  Held(workers[g].current_kind, workers[g].current_task_id,
                           clients[g].req.attempt_id, g)'
    BY Zenon DEF ReportsHeld
  <2>1. g \in Fds \ {fd} /\ clients'[g] = clients[g] /\ workers'[g] = workers[g]
    BY <1>3, <1>4, Zenon DEF HasRequest
  <2>2. HasRequest(g, "TASK_DONE")
    BY <2>1, Zenon DEF HasRequest
  <2>3. /\ workers[g].current_kind \in Kinds
        /\ workers[g].current_task_id \in Ids(workers[g].current_kind)
        /\ Held(workers[g].current_kind, workers[g].current_task_id,
                clients[g].req.attempt_id, g)
    BY <1>1, <2>2, Zenon DEF ReportsTrue, ReportsHeld
  <2> QED
    BY <2>1, <2>3, Zenon
<1>7. ReduceInputsPublished'
  BY <1>1, <1>2, Zenon DEF ReduceInputsPublished
<1> QED
  BY <1>5, <1>6, <1>7, Zenon DEF HoldInv

\* Dropping connections takes nothing from the others.
LEMMA DropHolds ==
  ASSUME SafeInv, HoldInv, NEW fds \in SUBSET Fds, remove_client(fds),
         UNCHANGED workerVars,
         \A g \in Fds \ fds :
           /\ workers'[g] = workers[g]
           /\ \A k, i, a : Held(k, i, a, g) => Held(k, i, a, g)'
  PROVE  HoldInv'
<1>1. /\ link \in [Workers -> Fds \cup {NoFd}]
      /\ WorkersHold /\ ReportsHeld /\ ReduceInputsPublished
  BY Zenon DEF SafeInv, TypeOK, NetTypeOK, HoldInv
<1>2. /\ inbox' = inbox /\ pc' = pc /\ work' = work /\ intermediate' = intermediate
      /\ \A w \in Workers : link'[w] # NoFd => link'[w] = link[w] /\ link[w] \in Fds \ fds
      /\ \A g \in Fds : clients'[g] = IF g \in fds THEN NoClient ELSE clients[g]
  BY <1>1, Zenon DEF remove_client, workerVars
<1>3. WorkersHold'
  BY <1>1, <1>2, Zenon DEF WorkersHold
<1>4. ReportsHeld'
  <2> SUFFICES ASSUME NEW g \in Fds, HasRequest(g, "TASK_DONE")'
               PROVE  Held(workers[g].current_kind, workers[g].current_task_id,
                           clients[g].req.attempt_id, g)'
    BY Zenon DEF ReportsHeld
  <2>0. NoClient.active = FALSE
    BY DEF NoClient
  <2>1. g \in Fds \ fds /\ clients'[g] = clients[g] /\ workers'[g] = workers[g]
    BY <1>2, <2>0, Zenon DEF HasRequest
  <2>2. Held(workers[g].current_kind, workers[g].current_task_id, clients[g].req.attempt_id, g)
    BY <1>1, <2>1, Zenon DEF ReportsHeld, HasRequest
  <2> QED
    BY <2>1, <2>2, Zenon
<1>5. ReduceInputsPublished'
  BY <1>1, <1>2, Zenon DEF ReduceInputsPublished
<1> QED
  BY <1>3, <1>4, <1>5, Zenon DEF HoldInv

\* A rejected report, an EOF and a new connection leave the tables alone.
LEMMA ConnectionHolds ==
  ASSUME SafeInv, ShippedInv,
         \/ \E fd \in Fds : TaskDoneRejected(fd) \/ ClientGone(fd)
         \/ \E w \in Workers : WorkerStart(w)
  PROVE  ShippedInv'
<1>1. /\ UNCHANGED <<status, phase, tasks, done, aof>>
      /\ UNCHANGED <<intermediate, output>> /\ status = "up"
  BY Zenon DEF TaskDoneRejected, ClientGone, WorkerStart, task_done_rejected, ClearWorker,
               client_init, workerVars, fileVars
<1>2. \A k, i, a, g : Held(k, i, a, g) => Held(k, i, a, g)'
  BY <1>1, Zenon DEF Held
<1>3. DownBlank'
  BY <1>1, Zenon DEF DownBlank
<1>4. TableInv'
  <2>1. TableInv
    BY Zenon DEF ShippedInv
  <2> QED
    BY <1>1, <1>3, <2>1, TableFrame, Zenon
<1>5. ASSUME NEW fd \in Fds, TaskDoneRejected(fd) \/ ClientGone(fd)
      PROVE  HoldInv'
  <2>1. /\ remove_client({fd}) /\ UNCHANGED workerVars /\ ClearWorker({fd})
        /\ {fd} \in SUBSET Fds
    BY <1>5, Zenon DEF TaskDoneRejected, ClientGone, task_done_rejected
  <2>2. \A g \in Fds \ {fd} : workers'[g] = workers[g]
    BY <2>1, Zenon DEF ClearWorker
  <2> QED
    BY <1>2, <2>1, <2>2, DropHolds, Zenon DEF ShippedInv
<1>6. ASSUME NEW w \in Workers, WorkerStart(w)
      PROVE  HoldInv'
  <2>1. PICK fd \in Fds : client_init(w, fd) /\ ClearWorker({fd})
    BY <1>6, Zenon DEF WorkerStart
  <2>2. /\ pc' = [pc EXCEPT ![w] = "ready"] /\ work' = work
        /\ clients' = [clients EXCEPT ![fd] = NewClient]
        /\ link' = [link EXCEPT ![w] = fd]
        /\ inbox' = [inbox EXCEPT ![w] = NoMsg]
        /\ \A g \in Fds \ {fd} : workers'[g] = workers[g]
    BY <2>1, Zenon DEF client_init, on_accept, Goto, ClearWorker
  <2>3. /\ clients \in [Fds -> Client] /\ link \in [Workers -> Fds \cup {NoFd}]
        /\ inbox \in [Workers -> Responses] /\ pc \in [Workers -> Pc]
        /\ WorkersHold /\ ReportsHeld /\ ReduceInputsPublished
    BY Zenon DEF SafeInv, TypeOK, NetTypeOK, WorkerTypeOK, HoldInv, ShippedInv
  <2>4. NoMsg.type = "NONE" /\ NewClient.req.type = "NONE" /\ "ready" \notin Executing
    BY DEF NoMsg, NewClient, Executing
  <2>5. /\ pc'[w] \notin Executing /\ inbox'[w].type # "TASK"
        /\ clients'[fd].req.type # "TASK_DONE"
    BY <2>2, <2>3, <2>4, Zenon
  <2>6. /\ \A v \in Workers \ {w} : link'[v] = link[v] /\ pc'[v] = pc[v] /\ inbox'[v] = inbox[v]
        /\ \A g \in Fds \ {fd} : clients'[g] = clients[g]
    BY <2>2, <2>3
  <2>7. WorkersHold'
    BY <1>2, <2>2, <2>3, <2>5, <2>6, Zenon DEF WorkersHold
  <2>8. ReportsHeld'
    BY <1>2, <2>2, <2>3, <2>5, <2>6, Zenon DEF ReportsHeld, HasRequest
  <2>9. ReduceInputsPublished'
    BY <1>1, <2>2, <2>3, <2>5, <2>6, Zenon DEF ReduceInputsPublished
  <2> QED
    BY <2>7, <2>8, <2>9, Zenon DEF HoldInv
<1> QED
  BY <1>4, <1>5, <1>6, Zenon DEF ShippedInv
-----------------------------------------------------------------------------
(***************************************************************************)
(* The log                                                                 *)
(***************************************************************************)

\* While nothing times out, a report is of the current attempt of a task of
\* the current phase: a map still running would have kept the phase.
LEMMA ReportInPhase ==
  ASSUME SafeInv, ShippedInv, status = "up", phase \notin TerminalPhases,
         NEW fd \in Fds, HasRequest(fd, "TASK_DONE")
  PROVE  /\ workers[fd].current_kind = PhaseKind
         /\ workers[fd].current_task_id \in Ids(PhaseKind)
         /\ clients[fd].req.task_id = workers[fd].current_task_id
         /\ Held(PhaseKind, workers[fd].current_task_id, clients[fd].req.attempt_id, fd)
         /\ ~ StaleReport(fd, clients[fd].req)
<1>1. /\ workers[fd].current_kind \in Kinds
      /\ workers[fd].current_task_id \in Ids(workers[fd].current_kind)
      /\ clients[fd].req.task_id = workers[fd].current_task_id
      /\ Held(workers[fd].current_kind, workers[fd].current_task_id,
              clients[fd].req.attempt_id, fd)
  BY Zenon DEF SafeInv, ConnInv, ReportsTrue, ShippedInv, HoldInv, ReportsHeld
<1>2. workers[fd].current_kind = PhaseKind
  <2>1. CASE phase = "JOB_MAP"
    BY <1>1, <2>1, Zenon DEF SafeInv, SlotsFollowPhase, Kinds, PhaseKind
  <2>2. CASE phase = "JOB_REDUCE"
    <3>1. \A i \in Ids("MAP") : tasks["MAP"][i].state = "COMPLETED"
      BY <2>2, PhaseComplete, Zenon
    <3>2. workers[fd].current_kind # "MAP"
      BY <1>1, <3>1, Zenon DEF Held
    <3> QED
      BY <1>1, <2>2, <3>2, Zenon DEF Kinds, PhaseKind
  <2>3. phase \in Phases
    BY Zenon DEF SafeInv, TypeOK, MasterTypeOK
  <2> QED
    BY <2>1, <2>2, <2>3, Zenon DEF Phases, TerminalPhases
<1> QED
  BY <1>1, <1>2, Zenon DEF StaleReport, Held

\* What an append does to the records of the log.
LEMMA AppendRecords ==
  ASSUME NEW log \in Seq(AofRecord \cup {Torn}), NEW rec \in AofRecord,
         NEW outcome \in AppendOutcomes,
         NEW new, new = aof_append_completed(log, rec, outcome)
  PROVE  /\ \A k, i : Recorded(log, k, i) => Recorded(new, k, i)
         /\ \A k \in Kinds : \A i :
              Recorded(new, k, i) =>
                Recorded(log, k, i) \/ (k = rec.kind /\ i = rec.task_id)
         /\ outcome = "ok" => Recorded(new, rec.kind, rec.task_id)
         /\ ~ Recorded(log, rec.kind, rec.task_id) =>
              ((\A m, n \in 1 .. Len(log) :
                  /\ log[m].kind = log[n].kind
                  /\ log[m].kind # "TORN"
                  /\ log[m].task_id = log[n].task_id
                  => m = n)
               => (\A m, n \in 1 .. Len(new) :
                    /\ new[m].kind = new[n].kind
                    /\ new[m].kind # "TORN"
                    /\ new[m].task_id = new[n].task_id
                    => m = n))
<1>1. \/ new = log /\ outcome # "ok"
      \/ new = Append(log, rec)
      \/ new = Append(log, Torn) /\ outcome # "ok"
  BY AofAssumption DEF aof_append_completed
<1>2. CASE new = log /\ outcome # "ok"
  BY <1>2, Zenon
<1>3. ASSUME NEW r \in {rec, Torn}, new = Append(log, r), r = rec \/ outcome # "ok"
      PROVE  /\ \A k, i : Recorded(log, k, i) => Recorded(new, k, i)
             /\ \A k \in Kinds : \A i :
                  Recorded(new, k, i) =>
                    Recorded(log, k, i) \/ (k = rec.kind /\ i = rec.task_id)
             /\ outcome = "ok" => Recorded(new, rec.kind, rec.task_id)
             /\ ~ Recorded(log, rec.kind, rec.task_id) =>
                  ((\A m, n \in 1 .. Len(log) :
                      /\ log[m].kind = log[n].kind
                      /\ log[m].kind # "TORN"
                      /\ log[m].task_id = log[n].task_id
                      => m = n)
                   => (\A m, n \in 1 .. Len(new) :
                        /\ new[m].kind = new[n].kind
                        /\ new[m].kind # "TORN"
                        /\ new[m].task_id = new[n].task_id
                        => m = n))
  <2> DEFINE last == Len(log) + 1
  <2>1. /\ \A n \in 1 .. Len(log) : new[n] = log[n]
        /\ new[last] = r
    BY <1>3, SMTT(60)
  <2>2. /\ \A n \in 1 .. Len(new) : n \in 1 .. Len(log) \/ n = last
        /\ \A n \in 1 .. Len(log) : n \in 1 .. Len(new)
        /\ last \in 1 .. Len(new)
    BY <1>3, SMTT(60)
  <2>3. r.kind = "TORN" \/ r = rec
    BY <1>3 DEF Torn
  <2>4. "TORN" \notin Kinds /\ rec.kind \in Kinds
    BY DEF Kinds, AofRecord
  <2> HIDE DEF last
  <2>5. \A k, i : Recorded(log, k, i) => Recorded(new, k, i)
    BY <2>1, <2>2, Zenon DEF Recorded
  <2>6. \A k \in Kinds : \A i :
          Recorded(new, k, i) =>
            Recorded(log, k, i) \/ (k = rec.kind /\ i = rec.task_id)
    BY <2>1, <2>2, <2>3, <2>4, ZenonT(60) DEF Recorded
  <2>7. outcome = "ok" => Recorded(new, rec.kind, rec.task_id)
    BY <1>3, <2>1, <2>2, Zenon DEF Recorded
  <2>8. ASSUME ~ Recorded(log, rec.kind, rec.task_id),
               \A m, n \in 1 .. Len(log) :
                 /\ log[m].kind = log[n].kind
                 /\ log[m].kind # "TORN"
                 /\ log[m].task_id = log[n].task_id
                 => m = n,
               NEW m \in 1 .. Len(new), NEW n \in 1 .. Len(new),
               new[m].kind = new[n].kind, new[m].kind # "TORN",
               new[m].task_id = new[n].task_id
        PROVE  m = n
    <3>1. CASE m \in 1 .. Len(log) /\ n \in 1 .. Len(log)
      BY <2>1, <2>8, <3>1, Zenon
    <3>2. CASE m = last /\ n \in 1 .. Len(log)
      BY <2>1, <2>3, <2>8, <3>2, Zenon DEF Recorded
    <3>3. CASE n = last /\ m \in 1 .. Len(log)
      BY <2>1, <2>3, <2>8, <3>3, Zenon DEF Recorded
    <3> QED
      BY <2>2, <3>1, <3>2, <3>3, Zenon
  <2> QED
    BY <2>5, <2>6, <2>7, <2>8, Zenon
<1> QED
  BY <1>1, <1>2, <1>3, Zenon

\* A success appends a record of a task that has none yet.
LEMMA ReportRecords ==
  ASSUME SafeInv, ShippedInv, status = "up", phase \notin TerminalPhases,
         NEW fd \in Fds, HasRequest(fd, "TASK_DONE"), NEW outcome \in AppendOutcomes,
         aof' = aof_append_completed(aof, CompletionRecord(fd, clients[fd].req), outcome)
  PROVE  /\ \A k, i : Recorded(aof, k, i) => Recorded(aof', k, i)
         /\ \A k \in Kinds : \A i :
              Recorded(aof', k, i) =>
                Recorded(aof, k, i) \/ (k = PhaseKind /\ i = workers[fd].current_task_id)
         /\ outcome = "ok" => Recorded(aof', PhaseKind, workers[fd].current_task_id)
         /\ AofNoDuplicates'
<1> DEFINE rec == CompletionRecord(fd, clients[fd].req)
           i0 == workers[fd].current_task_id
<1>1. /\ PhaseKind \in Kinds /\ i0 \in Ids(PhaseKind)
      /\ rec.kind = PhaseKind /\ rec.task_id = i0
      /\ tasks[PhaseKind][i0].state = "IN_PROGRESS"
  <2>1. PhaseKind \in Kinds
    BY DEF PhaseKind, Kinds
  <2> QED
    BY <2>1, ReportInPhase, Zenon DEF CompletionRecord, Held
<1>2. ~ Recorded(aof, PhaseKind, i0)
  <2>1. "IN_PROGRESS" # "COMPLETED"
    OBVIOUS
  <2> QED
    BY <1>1, <2>1, Zenon DEF ShippedInv, TableInv, RecordedCompleted
<1>3. rec \in AofRecord
  <2>1. clients[fd].req \in Requests /\ clients[fd].req.type = "TASK_DONE"
    BY Zenon DEF SafeInv, TypeOK, NetTypeOK, Client, HasRequest
  <2>2. clients[fd].req.task_id \in Nat /\ clients[fd].req.attempt_id \in Nat
    BY <2>1 DEF Requests, NoMsg, GetTaskReq
  <2>3. workers[fd].current_kind \in Kinds
    BY <1>1, ReportInPhase, Zenon
  <2> QED
    BY <2>2, <2>3, Zenon DEF CompletionRecord, AofRecord
<1>4. aof \in Seq(AofRecord \cup {Torn}) /\ AofNoDuplicates
  BY Zenon DEF SafeInv, TypeOK, MasterTypeOK, ShippedInv, TableInv
<1>5. aof' = aof_append_completed(aof, rec, outcome)
  OBVIOUS
<1> HIDE DEF rec, i0
<1>6. /\ \A k, i : Recorded(aof, k, i) => Recorded(aof', k, i)
      /\ \A k \in Kinds : \A i :
           Recorded(aof', k, i) => Recorded(aof, k, i) \/ (k = rec.kind /\ i = rec.task_id)
      /\ outcome = "ok" => Recorded(aof', rec.kind, rec.task_id)
      /\ ~ Recorded(aof, rec.kind, rec.task_id) => AofNoDuplicates'
  <2>1. /\ \A k, i : Recorded(aof, k, i) => Recorded(aof', k, i)
        /\ \A k \in Kinds : \A i :
             Recorded(aof', k, i) => Recorded(aof, k, i) \/ (k = rec.kind /\ i = rec.task_id)
        /\ outcome = "ok" => Recorded(aof', rec.kind, rec.task_id)
    BY <1>3, <1>4, <1>5, AppendRecords, ZenonT(60)
  <2>2. ASSUME ~ Recorded(aof, rec.kind, rec.task_id) PROVE AofNoDuplicates'
    BY <1>3, <1>4, <1>5, <2>2, AppendRecords, ZenonT(60) DEF AofNoDuplicates
  <2> QED
    BY <2>1, <2>2
<1> QED
  BY <1>1, <1>2, <1>6, Zenon DEF i0

\* The replay counts records, and every recorded task has exactly one.
LEMMA ReplayCounts ==
  ASSUME SafeInv, AofNoDuplicates, NEW k \in Kinds
  PROVE  Cardinality(KindPositions(aof, k)) =
           Cardinality({i \in Ids(k) : Recorded(aof, k, i)})
<1> DEFINE P == KindPositions(aof, k)
           T == {i \in Ids(k) : Recorded(aof, k, i)}
           f == [n \in P |-> aof[n].task_id]
<1>1. aof \in Seq(AofRecord \cup {Torn}) /\ AofPublished /\ k # "TORN"
  BY DEF SafeInv, TypeOK, MasterTypeOK, Kinds
<1>2. \A n \in P : n \in 1 .. Len(aof) /\ aof[n].kind = k
  BY Zenon DEF KindPositions
<1>3. \A n \in P : aof[n].task_id \in T
  <2> SUFFICES ASSUME NEW n \in P PROVE aof[n].task_id \in T
    OBVIOUS
  <2>1. n \in 1 .. Len(aof) /\ aof[n].kind = k
    BY <1>2, Zenon
  <2>2. aof[n].task_id \in Ids(k)
    BY <1>1, <2>1, Zenon DEF AofPublished
  <2>3. Recorded(aof, k, aof[n].task_id)
    BY <2>1, Zenon DEF Recorded
  <2> QED
    BY <2>2, <2>3, Zenon
<1>4. \A i \in T : \E n \in P : aof[n].task_id = i
  BY Zenon DEF Recorded, KindPositions
<1>5. \A m, n \in P : aof[m].task_id = aof[n].task_id => m = n
  BY <1>1, <1>2, SMTT(60) DEF AofNoDuplicates
<1>6. IsFiniteSet(T)
  <2>1. T \in SUBSET Ids(k)
    OBVIOUS
  <2> QED
    BY <2>1, CountIds, Zenon
<1> HIDE DEF P, T
<1>7. f \in Bijection(P, T)
  <2>1. f \in [P -> T]
    BY <1>3, Zenon
  <2>2. \A m, n \in P : f[m] = f[n] => m = n
    BY <1>5, Zenon
  <2>3. \A i \in T : \E n \in P : f[n] = i
    BY <1>4, Zenon
  <2> QED
    BY <2>1, <2>2, <2>3, Zenon DEF Bijection, Injection, Surjection, IsInjective
<1>8. ExistsBijection(P, T)
  BY <1>7, Zenon DEF ExistsBijection
<1>9. IsFiniteSet(P)
  <2>1. P \subseteq 1 .. Len(aof) /\ Len(aof) \in Nat
    BY <1>1, <1>2
  <2> DEFINE n == Len(aof)
  <2> HIDE DEF n
  <2>2. IsFiniteSet(1 .. n)
    BY <2>1, FS_Interval DEF n
  <2> QED
    BY <2>1, <2>2, FS_Subset, Zenon DEF n
<1>10. Cardinality(P) = Cardinality(T)
  BY <1>6, <1>8, <1>9, FS_Bijection, ZenonT(60)
<1> QED
  BY <1>10 DEF P, T
-----------------------------------------------------------------------------
(***************************************************************************)
(* Start and end of the master process                                     *)
(***************************************************************************)

\* With the process go the tables and the connections; the log keeps no
\* record twice even when the crash follows an append.
LEMMA MasterEndsHolds ==
  ASSUME SafeInv, ShippedInv,
         \/ MasterStop
         \/ \E fd \in Fds : MasterCrashAfterAppend(fd) \/ GetTaskAborts(fd)
  PROVE  ShippedInv'
<1>1. remove_client(Fds) /\ UNCHANGED workerVars
  BY Zenon DEF MasterStop, MasterCrashAfterAppend, GetTaskAborts, ConnectionsLost
<1>2. status' = "down" /\ phase' = "JOB_MAP" /\ tasks' = FreshTasks
  BY Zenon DEF MasterStop, MasterCrashAfterAppend, GetTaskAborts, task_done_crash,
               get_task_aborts, MasterGone
<1>3. HoldInv'
  <2>1. HoldInv /\ Fds \in SUBSET Fds /\ \A g \in Fds \ Fds : FALSE
    BY Zenon DEF ShippedInv
  <2> QED
    BY <1>1, <2>1, DropHolds, Zenon
<1>4. AofNoDuplicates'
  <2>1. CASE aof' = aof
    BY <2>1, Zenon DEF ShippedInv, TableInv, AofNoDuplicates
  <2>2. ASSUME NEW fd \in Fds, MasterCrashAfterAppend(fd)
        PROVE  AofNoDuplicates'
    <3>1. PICK outcome \in AppendOutcomes : task_done_crash(fd, clients[fd].req, outcome)
      BY <2>2, Zenon DEF MasterCrashAfterAppend
    <3>2. /\ status = "up" /\ HasRequest(fd, "TASK_DONE") /\ phase \notin TerminalPhases
          /\ aof' = aof_append_completed(aof, CompletionRecord(fd, clients[fd].req), outcome)
      BY <2>2, <3>1, Zenon DEF MasterCrashAfterAppend, task_done_crash, MasterGone
    <3> QED
      BY <3>2, ReportRecords, Zenon
  <2> QED
    BY <2>1, <2>2, Zenon DEF MasterStop, GetTaskAborts, get_task_aborts, MasterGone
<1>5. \A k \in Kinds : \A i \in Ids(k) : tasks'[k][i].state = "PENDING"
  BY <1>2 DEF FreshTasks, task_reset_pending
<1>6. DownBlank'
  <2>1. \A w \in Workers : link'[w] = NoFd
    BY <1>1, Zenon DEF remove_client, SafeInv, TypeOK, NetTypeOK
  <2>2. \A fd \in Fds : clients'[fd].active = FALSE
    BY <1>1 DEF remove_client, NoClient
  <2>3. FreshTasks' = FreshTasks
    BY Zenon DEF FreshTasks, Ids, NumTasks, task_reset_pending
  <2> QED
    BY <1>2, <2>1, <2>2, <2>3, Zenon DEF DownBlank
<1>7. /\ PhaseCounts' /\ DoneCounts' /\ RecordedCompleted' /\ ReducesWait'
      /\ CompletedPublished' /\ JobFailedIffTaskFailed'
  <2>1. "REDUCE" \in Kinds /\ status' # "up" /\ phase' # "JOB_FAILED"
    BY <1>2 DEF Kinds
  <2>2. \A k \in Kinds : \A i \in Ids(k) :
          tasks'[k][i].state \notin {"IN_PROGRESS", "COMPLETED", "FAILED"}
    BY <1>5, SMTT(60)
  <2> QED
    BY <2>1, <2>2, Zenon DEF PhaseCounts, DoneCounts, RecordedCompleted, ReducesWait,
       CompletedPublished, CompletedTasks, JobFailedIffTaskFailed
<1> QED
  BY <1>3, <1>4, <1>6, <1>7, Zenon DEF ShippedInv, TableInv

\* A start replays the log into tables that agree with it, and counts each
\* recorded task once.
LEMMA MasterStartHolds ==
  ASSUME SafeInv, ShippedInv, MasterStart
  PROVE  ShippedInv'
<1>1. /\ UNCHANGED <<workerVars, netVars>> /\ status = "down"
      /\ UNCHANGED <<workers, aof>>
  BY Zenon DEF MasterStart, master_bootstrap_job, master_bootstrap_refused
<1>2. /\ \A w \in Workers : link[w] = NoFd
      /\ \A fd \in Fds : ~ clients[fd].active
      /\ phase = "JOB_MAP" /\ tasks = FreshTasks
  <2>1. status # "up"
    BY <1>1
  <2> QED
    BY <2>1, Zenon DEF ShippedInv, TableInv, DownBlank
<1>3. HoldInv'
  BY <1>1, <1>2, Zenon DEF ShippedInv, HoldInv, WorkersHold, ReportsHeld, HasRequest,
     ReduceInputsPublished, workerVars, netVars
<1>4. AofNoDuplicates /\ AofNoDuplicates'
  BY <1>1, Zenon DEF ShippedInv, TableInv, AofNoDuplicates
<1>5. CASE master_bootstrap_refused
  <2>1. status' # "up" /\ UNCHANGED <<phase, tasks, done>>
    BY <1>5 DEF master_bootstrap_refused
  <2>2. DownBlank'
    <3>1. FreshTasks' = FreshTasks
      BY Zenon DEF FreshTasks, Ids, NumTasks, task_reset_pending
    <3> QED
      BY <1>1, <1>2, <2>1, <3>1, Zenon DEF DownBlank, netVars
  <2>3. /\ PhaseCounts' /\ DoneCounts' /\ RecordedCompleted' /\ ReducesWait'
        /\ CompletedPublished' /\ JobFailedIffTaskFailed'
    BY <1>1, <2>1, Zenon DEF ShippedInv, TableInv, PhaseCounts, DoneCounts, RecordedCompleted,
       ReducesWait, CompletedPublished, CompletedTasks, JobFailedIffTaskFailed, Published,
       workerVars
  <2> QED
    BY <1>3, <1>4, <2>2, <2>3, Zenon DEF ShippedInv, TableInv
<1>6. CASE master_bootstrap_job
  <2> DEFINE dn == aof_load_done(aof)
  <2>1. /\ status' = "up" /\ tasks' = aof_load_tasks(aof) /\ done' = dn
        /\ phase' = maybe_advance_phase("JOB_MAP", dn)
    BY <1>6, Zenon DEF master_bootstrap_job
  <2>2. \A k \in Kinds : \A i \in Ids(k) :
          tasks'[k][i].state = IF Recorded(aof, k, i) THEN "COMPLETED" ELSE "PENDING"
    BY <2>1, Zenon DEF aof_load_tasks, task_reset_pending
  <2>3. \A k \in Kinds : \A i \in Ids(k) :
          /\ tasks'[k][i].state \notin {"IN_PROGRESS", "FAILED"}
          /\ tasks'[k][i].state = "COMPLETED" <=> Recorded(aof, k, i)
    BY <2>2, SMTT(60)
  <2>4. \A k \in Kinds : CompletedTasks(k)' = {i \in Ids(k) : Recorded(aof, k, i)}
    BY <2>3, Zenon DEF CompletedTasks
  <2>5. DoneCounts'
    <3>1. \A k \in Kinds : dn[k] = Cardinality(KindPositions(aof, k))
      BY Zenon DEF aof_load_done
    <3> HIDE DEF dn
    <3>2. \A k \in Kinds : done'[k] = Cardinality(CompletedTasks(k)')
      BY <1>4, <2>1, <2>4, <3>1, ReplayCounts, Zenon
    <3> QED
      BY <3>2, Zenon DEF DoneCounts
  <2>6. PhaseCounts' /\ phase' # "JOB_FAILED"
    <3> HIDE DEF dn
    <3> QED
      BY <2>1, AdvanceCounts, Zenon DEF PhaseCounts
  <2>7. CompletedPublished'
    <3> SUFFICES ASSUME NEW k \in Kinds, NEW i \in Ids(k), Recorded(aof, k, i)
                 PROVE  Published(k, i)
      BY <1>1, <2>4, Zenon DEF CompletedPublished, Published, workerVars
    <3>1. PICK n \in 1 .. Len(aof) : aof[n].kind = k /\ aof[n].task_id = i
      BY Zenon DEF Recorded
    <3>2. k # "TORN"
      BY DEF Kinds
    <3> QED
      BY <3>1, <3>2, Zenon DEF SafeInv, AofPublished
  <2>8. ReducesWait' /\ JobFailedIffTaskFailed' /\ RecordedCompleted' /\ DownBlank'
    <3>1. "REDUCE" \in Kinds
      BY DEF Kinds
    <3>2. ReducesWait'
      BY <2>3, <3>1, Zenon DEF ReducesWait
    <3>3. JobFailedIffTaskFailed'
      BY <2>3, <2>6, Zenon DEF JobFailedIffTaskFailed
    <3>4. RecordedCompleted'
      BY <1>1, <2>3, Zenon DEF RecordedCompleted
    <3>5. DownBlank'
      BY <2>1, Zenon DEF DownBlank
    <3> QED
      BY <3>2, <3>3, <3>4, <3>5, Zenon
  <2> QED
    BY <1>3, <1>4, <2>5, <2>6, <2>7, <2>8, Zenon DEF ShippedInv, TableInv
<1> QED
  BY <1>5, <1>6, Zenon DEF MasterStart
-----------------------------------------------------------------------------
(***************************************************************************)
(* The handlers                                                            *)
(***************************************************************************)

\* GetTask hands out a task nobody holds; a reduce goes out only after every
\* map is COMPLETED, so that its input files are there.
LEMMA GetTaskHolds ==
  ASSUME SafeInv, ShippedInv, NEW fd \in Fds, GetTask(fd)
  PROVE  ShippedInv'
<1>1. PICK sent \in BOOLEAN :
        \/ \E k \in Kinds : \E i \in Ids(k) :
             /\ choose_available_task(fd, k, i, sent)
             /\ server_send(fd, TaskResp(k, i, tasks[k][i].current_attempt + 1), sent)
        \/ /\ wait_for_available_tasks(fd, sent)
           /\ server_send(fd, WaitResp, sent)
        \/ /\ get_task_done(fd, sent)
           /\ server_send(fd, DoneResp, sent)
  BY SMTT(60) DEF GetTask
<1>2. /\ UNCHANGED workerVars /\ UNCHANGED <<status, phase, done, aof>>
      /\ clients[fd].active /\ clients[fd].req.type = "GET_TASK" /\ status = "up"
  BY <1>1, Zenon DEF GetTask, HasRequest, choose_available_task, wait_for_available_tasks,
              get_task_done
<1>3. /\ clients[fd].req.type # "NONE" /\ HoldInv /\ TableInv
      /\ workers \in [Fds -> WorkerSlot]
  BY <1>2 DEF ShippedInv, SafeInv, TypeOK, MasterTypeOK
<1>4. DownBlank'
  BY <1>2, Zenon DEF DownBlank
<1>5. CASE /\ wait_for_available_tasks(fd, sent) \/ get_task_done(fd, sent)
           /\ server_send(fd, WaitResp, sent) \/ server_send(fd, DoneResp, sent)
  <2>1. /\ tasks' = tasks
        /\ workers' = IF sent THEN workers ELSE [workers EXCEPT ![fd] = ZeroWorker]
    BY <1>5, Zenon DEF wait_for_available_tasks, get_task_done
  <2>2. \A g \in Fds \ {fd} : workers'[g] = workers[g]
    BY <1>3, <2>1
  <2>3. \A k, i, a, g : Held(k, i, a, g) => Held(k, i, a, g)'
    BY <2>1, Zenon DEF Held
  <2>4. WaitResp.type # "TASK" /\ DoneResp.type # "TASK"
    BY DEF WaitResp, DoneResp
  <2>5. HoldInv'
    BY <1>2, <1>3, <1>5, <2>2, <2>3, <2>4, ReplyHolds, Zenon
  <2>6. TableInv'
    BY <1>2, <1>3, <1>4, <2>1, TableFrame, Zenon DEF workerVars
  <2> QED
    BY <2>5, <2>6, Zenon DEF ShippedInv
<1>6. ASSUME NEW k \in Kinds, NEW i \in Ids(k),
             choose_available_task(fd, k, i, sent),
             server_send(fd, TaskResp(k, i, tasks[k][i].current_attempt + 1), sent)
      PROVE  ShippedInv'
  <2>1. tasks[k][i] \in TaskSlot
    BY DEF SafeInv, TypeOK, MasterTypeOK, IsTaskTable
  <2>2. PICK t \in TaskSlot : t = tasks[k][i]
    BY <2>1, Zenon
  <2> DEFINE u == attempt_started(t, fd)
             m == TaskResp(k, i, t.current_attempt + 1)
  <2>3. /\ k = PhaseKind /\ phase \notin TerminalPhases /\ t.state = "PENDING"
        /\ tasks' = [tasks EXCEPT ![k][i] = u]
        /\ \A g \in Fds \ {fd} : workers'[g] = workers[g]
    BY <1>3, <1>6, <2>2, Zenon DEF choose_available_task, FirstPending, Pending
  <2>4. /\ u.state = "IN_PROGRESS" /\ u.owner_fd = fd
        /\ u.current_attempt = t.current_attempt + 1
    BY DEF attempt_started, TaskSlot
  <2>5. m.type = "TASK" /\ m.kind = k /\ m.task_id = i /\ m.attempt_id = t.current_attempt + 1
    BY DEF TaskResp
  <2>6. server_send(fd, m, sent)
    BY <1>6, <2>2, Zenon
  <2> HIDE DEF u, m
  <2>7. /\ tasks'[k][i] = u
        /\ \A l \in Kinds : \A j \in Ids(l) : l # k \/ j # i => tasks'[l][j] = tasks[l][j]
    <3>1. IsTaskTable(tasks)
      BY Zenon DEF SafeInv, TypeOK, MasterTypeOK
    <3> QED
      BY <2>3, <3>1, Zenon DEF IsTaskTable
  <2>8. HoldInv'
    <3>1. ASSUME NEW l \in Kinds, NEW j \in Ids(l), NEW a, NEW g, Held(l, j, a, g)
          PROVE  Held(l, j, a, g)'
      <4>1. l # k \/ j # i
        BY <2>2, <2>3, <3>1, Zenon DEF Held
      <4> QED
        BY <2>7, <3>1, <4>1, Zenon DEF Held
    <3>2. Held(m.kind, m.task_id, m.attempt_id, fd)'
      BY <2>4, <2>5, <2>7, Zenon DEF Held
    <3>3. m.kind = "REDUCE" => \A x \in Ids("MAP") : <<x, m.task_id>> \in intermediate
      <4> SUFFICES ASSUME k = "REDUCE", NEW x \in Ids("MAP")
                   PROVE  <<x, i>> \in intermediate
        BY <2>5, Zenon
      <4>1. phase = "JOB_REDUCE"
        BY <2>3, Zenon DEF PhaseKind, SafeInv, TypeOK, MasterTypeOK, Phases, TerminalPhases
      <4>2. tasks["MAP"][x].state = "COMPLETED"
        BY <1>2, <4>1, PhaseComplete, Zenon
      <4>3. Published("MAP", x)
        BY <4>2, Zenon DEF SafeInv, CompletedMapsPublished, CompletedTasks
      <4> QED
        BY <4>3, Zenon DEF Published
    <3> QED
      BY <1>2, <1>3, <2>3, <2>6, <3>1, <3>2, <3>3, ReplyHolds, Zenon
  <2>9. \A l \in Kinds : \A j \in Ids(l) :
          /\ tasks'[l][j].state = "COMPLETED" <=> tasks[l][j].state = "COMPLETED"
          /\ tasks'[l][j].state = "FAILED" <=> tasks[l][j].state = "FAILED"
    <3>1. "IN_PROGRESS" # "COMPLETED" /\ "PENDING" # "COMPLETED"
          /\ "IN_PROGRESS" # "FAILED" /\ "PENDING" # "FAILED"
      OBVIOUS
    <3> QED
      BY <2>2, <2>3, <2>4, <2>7, <3>1, Zenon
  <2>10. \A l \in Kinds : CompletedTasks(l)' = CompletedTasks(l)
    BY <2>9, Zenon DEF CompletedTasks
  <2>11. PhaseCounts' /\ DoneCounts' /\ AofNoDuplicates'
    BY <1>2, <1>3, <2>10, Zenon DEF TableInv, PhaseCounts, DoneCounts, AofNoDuplicates
  <2>12. CompletedPublished' /\ RecordedCompleted' /\ JobFailedIffTaskFailed'
    BY <1>2, <1>3, <2>9, <2>10, Zenon DEF TableInv, CompletedPublished, Published,
       RecordedCompleted, JobFailedIffTaskFailed, workerVars
  <2>13. ReducesWait'
    <3>1. phase = "JOB_MAP" => k # "REDUCE"
      BY <2>3 DEF PhaseKind
    <3>2. "REDUCE" \in Kinds
      BY DEF Kinds
    <3> QED
      BY <1>2, <1>3, <2>7, <3>1, <3>2, Zenon DEF TableInv, ReducesWait
  <2> QED
    BY <1>4, <2>8, <2>11, <2>12, <2>13, Zenon DEF ShippedInv, TableInv
<1> QED
  BY <1>1, <1>5, <1>6, Zenon

\* TaskDone closes the attempt of the worker that reports it: a success
\* counts a task that was not counted before, a failure counts none.
LEMMA TaskDoneHolds ==
  ASSUME SafeInv, ShippedInv, NEW fd \in Fds, TaskDone(fd)
  PROVE  ShippedInv'
<1> DEFINE m == clients[fd].req
<1>1. PICK k \in Kinds : k = PhaseKind
  BY DEF PhaseKind, Kinds
<1>2. PICK i : i = workers[fd].current_task_id
  BY Zenon
<1>3. PICK sent \in BOOLEAN :
        /\ \/ task_done_stale(fd, m, sent)
           \/ \E outcome \in AppendOutcomes : task_done_success(fd, m, outcome, sent)
           \/ task_done_failure(fd, m, sent)
        /\ server_send(fd, TaskDoneAck, sent)
  BY SMTT(60) DEF TaskDone
<1>4. /\ UNCHANGED workerVars /\ status' = status /\ status = "up"
      /\ clients[fd].active /\ m.type = "TASK_DONE" /\ HasRequest(fd, "TASK_DONE")
      /\ phase \notin TerminalPhases
  BY <1>3, Zenon DEF TaskDone, HasRequest, task_done_stale, task_done_success,
              task_done_failure
<1>5. /\ m.type # "NONE" /\ HoldInv /\ TableInv
      /\ workers \in [Fds -> WorkerSlot] /\ done \in [Kinds -> Nat]
      /\ phase \in {"JOB_MAP", "JOB_REDUCE"}
  BY <1>4 DEF ShippedInv, SafeInv, TypeOK, MasterTypeOK, Phases, TerminalPhases
<1>6. /\ workers[fd].current_kind = k /\ i \in Ids(k) /\ m.task_id = i
      /\ Held(k, i, m.attempt_id, fd) /\ ~ StaleReport(fd, m)
      /\ tasks[k][i].state = "IN_PROGRESS" /\ tasks[k][i].owner_fd = fd
  BY <1>1, <1>2, <1>4, ReportInPhase, Zenon DEF Held
<1>7. /\ Reported(fd) = tasks[k][i] /\ tasks[k][i] \in TaskSlot
      /\ SlotConsistent(tasks[k][i]) /\ tasks[k][i].attempts_count > 0
  BY <1>1, <1>2, <1>4, <1>6, FreshReport, Zenon DEF Reported
<1>8. PICK t \in TaskSlot : t = tasks[k][i]
  BY <1>7, Zenon
<1>9. DownBlank'
  BY <1>4, Zenon DEF DownBlank
<1> HIDE DEF m
<1>10. ASSUME NEW u, tasks' = [tasks EXCEPT ![k][i] = u], AfterAck(fd, sent)
      PROVE  /\ tasks'[k][i] = u
             /\ \A l \in Kinds : \A j \in Ids(l) : l # k \/ j # i => tasks'[l][j] = tasks[l][j]
             /\ HoldInv'
  <2>1. /\ tasks'[k][i] = u
        /\ \A l \in Kinds : \A j \in Ids(l) : l # k \/ j # i => tasks'[l][j] = tasks[l][j]
    <3>1. IsTaskTable(tasks)
      BY Zenon DEF SafeInv, TypeOK, MasterTypeOK
    <3>2. tasks' = [tasks EXCEPT ![k][i] = u] /\ i \in Ids(k)
      BY <1>6, <1>10
    <3> QED
      BY <3>1, <3>2, Zenon DEF IsTaskTable
  <2>2. \A g \in Fds \ {fd} : workers'[g] = workers[g]
    BY <1>5, <1>10 DEF AfterAck
  <2>3. ASSUME NEW l \in Kinds, NEW j \in Ids(l), NEW a, NEW g \in Fds \ {fd}, Held(l, j, a, g)
        PROVE  Held(l, j, a, g)'
    <3>1. l # k \/ j # i
      BY <1>6, <2>3, Zenon DEF Held
    <3> QED
      BY <2>1, <2>3, <3>1, Zenon DEF Held
  <2>4. TaskDoneAck.type # "TASK"
    BY DEF TaskDoneAck
  <2>5. HoldInv'
    BY <1>3, <1>4, <1>5, <2>2, <2>3, <2>4, ReplyHolds, Zenon DEF m
  <2> QED
    BY <2>1, <2>5, Zenon
<1>11. CASE \E outcome \in AppendOutcomes : task_done_success(fd, m, outcome, sent)
  <2> DEFINE u == attempt_succeeded(t)
  <2>1. PICK outcome \in AppendOutcomes : task_done_success(fd, m, outcome, sent)
    BY <1>11, Zenon
  <2>2. PICK dn : dn = Incremented(k)
    BY Zenon
  <2>3. /\ m.result = 0 /\ tasks' = [tasks EXCEPT ![k][i] = u] /\ AfterAck(fd, sent)
        /\ done' = dn /\ phase' = maybe_advance_phase(phase, dn)
        /\ aof' = aof_append_completed(aof, CompletionRecord(fd, clients[fd].req), outcome)
    BY <1>1, <1>2, <1>7, <1>8, <2>1, <2>2, Zenon DEF task_done_success, UpdateReported, m
  <2>4. u.state = "COMPLETED"
    BY DEF attempt_succeeded, TaskSlot
  <2>5. dn[k] = done[k] + 1 /\ \A l \in Kinds : l # k => dn[l] = done[l]
    BY <1>5, <2>2 DEF Incremented
  <2> HIDE DEF u
  <2>6. /\ tasks'[k][i] = u
        /\ \A l \in Kinds : \A j \in Ids(l) : l # k \/ j # i => tasks'[l][j] = tasks[l][j]
        /\ HoldInv'
    BY <1>10, <2>3, Zenon
  <2>7. /\ CompletedTasks(k)' = CompletedTasks(k) \cup {i} /\ i \notin CompletedTasks(k)
        /\ \A l \in Kinds : l # k => CompletedTasks(l)' = CompletedTasks(l)
    <3>1. "IN_PROGRESS" # "COMPLETED"
      OBVIOUS
    <3>2. i \notin CompletedTasks(k)
      BY <1>6, <3>1, Zenon DEF CompletedTasks
    <3>3. \A l \in Kinds : l # k => CompletedTasks(l)' = CompletedTasks(l)
      BY <2>6, Zenon DEF CompletedTasks
    <3>4. \A j \in Ids(k) : tasks'[k][j].state = "COMPLETED" <=>
                              tasks[k][j].state = "COMPLETED" \/ j = i
      BY <1>5, <2>4, <2>6, Zenon
    <3>5. CompletedTasks(k)' = CompletedTasks(k) \cup {i}
      BY <1>6, <3>4, Zenon DEF CompletedTasks
    <3> QED
      BY <3>2, <3>3, <3>5, Zenon
  <2>8. DoneCounts'
    <3>1. \A l \in Kinds : /\ done[l] = Cardinality(CompletedTasks(l))
                           /\ CompletedTasks(l) \in SUBSET Ids(l)
      BY <1>4, <1>5, Zenon DEF TableInv, DoneCounts, CompletedTasks
    <3>2. IsFiniteSet(CompletedTasks(k))
      BY <1>5, <3>1, CountIds, Zenon
    <3>3. Cardinality(CompletedTasks(k) \cup {i}) = Cardinality(CompletedTasks(k)) + 1
      <4>1. Cardinality(CompletedTasks(k) \cup {i}) =
              IF i \in CompletedTasks(k) THEN Cardinality(CompletedTasks(k))
                                        ELSE Cardinality(CompletedTasks(k)) + 1
        BY <3>2, FS_AddElement, Zenon
      <4> QED
        BY <2>7, <4>1, Zenon
    <3>4. \A l \in Kinds : done'[l] = Cardinality(CompletedTasks(l)')
      BY <1>5, <2>3, <2>5, <2>7, <3>1, <3>3, Zenon
    <3> QED
      BY <3>4, Zenon DEF DoneCounts
  <2>9. /\ PhaseCounts' /\ phase' # "JOB_FAILED" /\ phase # "JOB_FAILED"
        /\ phase' = "JOB_MAP" => phase = "JOB_MAP"
    <3>1. phase = "JOB_REDUCE" => dn["MAP"] = M
      <4>1. phase = "JOB_REDUCE" => k # "MAP"
        BY <1>1, Zenon DEF PhaseKind
      <4>2. phase = "JOB_REDUCE" => done["MAP"] = M
        BY <1>4, <1>5, Zenon DEF TableInv, PhaseCounts
      <4> QED
        BY <2>5, <4>1, <4>2, Zenon DEF Kinds
    <3> QED
      BY <1>5, <2>3, <3>1, AdvanceCounts, Zenon DEF PhaseCounts
  <2>10. CompletedPublished'
    <3>1. Published(k, i)
      BY <1>2, <1>4, <1>6, <2>3, Zenon DEF SafeInv, ConnInv, ReportsTrue, m
    <3>2. \A l, j : Published(l, j) => Published(l, j)'
      BY <1>4, Zenon DEF Published, workerVars
    <3>3. \A l \in Kinds : \A j \in CompletedTasks(l) : Published(l, j)
      BY <1>5, Zenon DEF TableInv, CompletedPublished
    <3> QED
      <4> SUFFICES ASSUME NEW l \in Kinds, NEW j \in CompletedTasks(l)'
                   PROVE  Published(l, j)'
        BY Zenon DEF CompletedPublished
      <4>1. j \in CompletedTasks(l) \/ (l = k /\ j = i)
        BY <2>7, Zenon
      <4> QED
        BY <3>1, <3>2, <3>3, <4>1, Zenon
  <2>11. ReducesWait' /\ JobFailedIffTaskFailed'
    <3>1. "REDUCE" \in Kinds /\ u.state # "IN_PROGRESS" /\ u.state # "FAILED"
      BY <2>4 DEF Kinds
    <3>2. \A l \in Kinds : \A j \in Ids(l) : tasks[l][j].state # "FAILED"
      BY <1>5, <2>9, Zenon DEF TableInv, JobFailedIffTaskFailed
    <3>3. JobFailedIffTaskFailed'
      <4>1. ASSUME NEW l \in Kinds, NEW j \in Ids(l)
            PROVE  tasks'[l][j].state # "FAILED"
        <5>1. tasks'[l][j] = u \/ tasks'[l][j] = tasks[l][j]
          BY <2>6, Zenon
        <5> QED
          BY <3>1, <3>2, <5>1, Zenon
      <4> QED
        BY <2>9, <4>1, Zenon DEF JobFailedIffTaskFailed, Ids, NumTasks
    <3>4. ReducesWait'
      <4> SUFFICES ASSUME phase' = "JOB_MAP", NEW j \in Ids("REDUCE")
                   PROVE  tasks'["REDUCE"][j].state # "IN_PROGRESS"
        BY Zenon DEF ReducesWait, Ids, NumTasks
      <4>1. tasks["REDUCE"][j].state # "IN_PROGRESS"
        BY <1>5, <2>9, Zenon DEF TableInv, ReducesWait
      <4>2. tasks'["REDUCE"][j] = u \/ tasks'["REDUCE"][j] = tasks["REDUCE"][j]
        BY <2>6, <3>1, Zenon
      <4> QED
        BY <3>1, <4>1, <4>2, Zenon
    <3> QED
      BY <3>3, <3>4, Zenon
  <2>12. RecordedCompleted' /\ AofNoDuplicates'
    <3>1. /\ \A l \in Kinds : \A j : Recorded(aof', l, j) =>
                Recorded(aof, l, j) \/ (l = k /\ j = i)
          /\ AofNoDuplicates'
      BY <1>1, <1>2, <1>4, <2>3, ReportRecords, Zenon
    <3> QED
      <4> SUFFICES ASSUME NEW l \in Kinds, NEW j \in Ids(l), Recorded(aof', l, j)
                   PROVE  tasks'[l][j].state = "COMPLETED"
        BY <3>1, Zenon DEF RecordedCompleted
      <4>1. CASE l = k /\ j = i
        BY <2>4, <2>6, <4>1, Zenon
      <4>2. CASE l # k \/ j # i
        <5>1. Recorded(aof, l, j)
          BY <3>1, <4>2, Zenon
        <5>2. tasks[l][j].state = "COMPLETED"
          BY <1>4, <1>5, <5>1, Zenon DEF TableInv, RecordedCompleted
        <5> QED
          BY <2>6, <4>2, <5>2, Zenon
      <4> QED
        BY <4>1, <4>2, Zenon
  <2> QED
    BY <1>9, <2>6, <2>8, <2>9, <2>10, <2>11, <2>12, Zenon DEF ShippedInv, TableInv
<1>12. CASE task_done_failure(fd, m, sent)
  <2> DEFINE u == task_attempt_ended(t, "FAILED")
  <2>1. /\ tasks' = [tasks EXCEPT ![k][i] = u] /\ AfterAck(fd, sent)
        /\ UNCHANGED <<done, aof>>
        /\ phase' = IF attempts_exhausted(t) THEN "JOB_FAILED" ELSE phase
    BY <1>1, <1>2, <1>7, <1>8, <1>12, Zenon DEF task_done_failure, UpdateReported
  <2>2. u.state = IF attempts_exhausted(t) THEN "FAILED" ELSE "PENDING"
    BY DEF task_attempt_ended, TaskSlot
  <2> HIDE DEF u
  <2>3. /\ tasks'[k][i] = u
        /\ \A l \in Kinds : \A j \in Ids(l) : l # k \/ j # i => tasks'[l][j] = tasks[l][j]
        /\ HoldInv'
    BY <1>10, <2>1, Zenon
  <2>4. /\ u.state # "COMPLETED" /\ u.state # "IN_PROGRESS"
        /\ phase' = "JOB_FAILED" <=> u.state = "FAILED"
        /\ phase' # "JOB_FAILED" => phase' = phase
        /\ phase # "JOB_FAILED" /\ "IN_PROGRESS" # "COMPLETED"
    BY <1>5, <2>1, <2>2
  <2>5. \A l \in Kinds : \A j \in Ids(l) :
          tasks'[l][j].state = "COMPLETED" <=> tasks[l][j].state = "COMPLETED"
    BY <1>6, <2>3, <2>4, Zenon
  <2>6. \A l \in Kinds : CompletedTasks(l)' = CompletedTasks(l)
    BY <2>5, Zenon DEF CompletedTasks
  <2>7. PhaseCounts' /\ DoneCounts'
    <3>1. phase' \notin {"JOB_MAP", "JOB_REDUCE", "JOB_DONE"} \/ phase' = phase
      BY <2>4
    <3>2. PhaseCounts'
      BY <1>4, <1>5, <2>1, <3>1, Zenon DEF TableInv, PhaseCounts
    <3>3. DoneCounts'
      BY <1>4, <1>5, <2>1, <2>6, Zenon DEF TableInv, DoneCounts
    <3> QED
      BY <3>2, <3>3
  <2>8. CompletedPublished' /\ RecordedCompleted' /\ AofNoDuplicates'
    BY <1>4, <1>5, <2>1, <2>5, <2>6, Zenon DEF TableInv, CompletedPublished, Published,
       RecordedCompleted, AofNoDuplicates, workerVars
  <2>9. JobFailedIffTaskFailed'
    <3>1. \A l \in Kinds : \A j \in Ids(l) : tasks[l][j].state # "FAILED"
      BY <1>5, <2>4, Zenon DEF TableInv, JobFailedIffTaskFailed
    <3>2. ASSUME NEW l \in Kinds, NEW j \in Ids(l), tasks'[l][j].state = "FAILED"
          PROVE  phase' = "JOB_FAILED"
      BY <2>3, <2>4, <3>1, <3>2, Zenon
    <3>3. phase' = "JOB_FAILED" => tasks'[k][i].state = "FAILED"
      BY <2>3, <2>4, Zenon
    <3> QED
      BY <1>5, <1>6, <3>2, <3>3, Zenon DEF JobFailedIffTaskFailed
  <2>10. ReducesWait'
    <3>1. "REDUCE" \in Kinds /\ (phase' = "JOB_MAP" => phase = "JOB_MAP")
      BY <2>4 DEF Kinds
    <3> QED
      BY <1>5, <2>3, <2>4, <3>1, Zenon DEF TableInv, ReducesWait
  <2> QED
    BY <1>9, <2>3, <2>7, <2>8, <2>9, <2>10, Zenon DEF ShippedInv, TableInv
<1> QED
  BY <1>3, <1>6, <1>11, <1>12, Zenon DEF task_done_stale
-----------------------------------------------------------------------------
(***************************************************************************)
(* The invariant and what follows from it                                  *)
(***************************************************************************)

\* Before the first start there is nothing but blank tables.
LEMMA InitHolds == Init => ShippedInv
<1> SUFFICES ASSUME Init PROVE ShippedInv
  OBVIOUS
<1>1. /\ status # "up" /\ phase = "JOB_MAP" /\ tasks = FreshTasks /\ aof = << >>
      /\ \A w \in Workers : link[w] = NoFd /\ inbox[w] = NoMsg /\ work[w] = NoWork
      /\ \A fd \in Fds : clients[fd] = NoClient
  BY DEF Init, MasterInit, WorkerInit, NetInit
<1>2. /\ NoMsg.type = "NONE" /\ NoWork.kind = "NONE" /\ NoClient.active = FALSE
      /\ "NONE" # "TASK" /\ "NONE" # "REDUCE"
  BY DEF NoMsg, NoWork, NoClient
<1>3. HoldInv
  BY <1>1, <1>2, Zenon DEF HoldInv, WorkersHold, ReportsHeld, HasRequest, ReduceInputsPublished
<1>4. \A k \in Kinds : \A i \in Ids(k) :
        tasks[k][i].state \notin {"IN_PROGRESS", "COMPLETED", "FAILED"}
  BY <1>1 DEF FreshTasks, task_reset_pending
<1>5. AofNoDuplicates
  BY <1>1 DEF AofNoDuplicates
<1>6. "REDUCE" \in Kinds /\ phase # "JOB_FAILED"
  BY <1>1 DEF Kinds
<1>7. DownBlank /\ PhaseCounts /\ DoneCounts /\ RecordedCompleted
  BY <1>1, <1>2, Zenon DEF DownBlank, PhaseCounts, DoneCounts, RecordedCompleted
<1>8. ReducesWait /\ CompletedPublished /\ JobFailedIffTaskFailed
  BY <1>4, <1>6, Zenon DEF ReducesWait, CompletedPublished, CompletedTasks,
     JobFailedIffTaskFailed
<1> QED
  BY <1>3, <1>5, <1>7, <1>8, Zenon DEF ShippedInv, TableInv

\* Every step preserves the invariant when before_sleep_proc is not called.
LEMMA NextHolds ==
  ASSUME BeforeSleepCalled = FALSE
  PROVE  SafeInv /\ SafeInv' /\ ShippedInv /\ [Next]_vars => ShippedInv'
<1> SUFFICES ASSUME SafeInv, SafeInv', ShippedInv, [Next]_vars PROVE ShippedInv'
  OBVIOUS
<1>1. CASE MasterStart
  BY <1>1, MasterStartHolds, Zenon
<1>2. CASE MasterStop
  BY <1>2, MasterEndsHolds, Zenon
<1>3. CASE \E ticks \in {0, 1}, found \in Examined : BeforeSleep(ticks, found)
  BY <1>3, Zenon DEF BeforeSleep, server_before_sleep
<1>4. ASSUME NEW fd \in Fds, MasterStep(fd) \/ MasterCrashAfterAppend(fd)
      PROVE  ShippedInv'
  BY <1>4, GetTaskHolds, TaskDoneHolds, ConnectionHolds, MasterEndsHolds, Zenon DEF MasterStep
<1>5. ASSUME NEW w \in Workers, WorkerStart(w) \/ WorkerStep(w) \/ WorkerCrash(w)
      PROVE  ShippedInv'
  BY <1>5, ConnectionHolds, WorkerStepHolds, Zenon
<1>6. CASE UNCHANGED vars
  <2>1. UNCHANGED masterVars /\ UNCHANGED workerVars /\ UNCHANGED netVars
    BY <1>6 DEF vars
  <2>2. \A k, i, a, g : Held(k, i, a, g) => Held(k, i, a, g)'
    BY <2>1, Zenon DEF Held, masterVars
  <2>3. HoldInv'
    BY <2>1, <2>2, Zenon DEF ShippedInv, HoldInv, WorkersHold, ReportsHeld, HasRequest,
       ReduceInputsPublished, masterVars, netVars, workerVars
  <2>4. DownBlank'
    <3>1. FreshTasks' = FreshTasks
      BY Zenon DEF FreshTasks, Ids, NumTasks, task_reset_pending
    <3> QED
      BY <2>1, <3>1, Zenon DEF ShippedInv, TableInv, DownBlank, masterVars, netVars
  <2>5. TableInv'
    <3>1. TableInv /\ intermediate \subseteq intermediate' /\ output \subseteq output'
      BY <2>1 DEF ShippedInv, workerVars
    <3> QED
      BY <2>1, <2>4, <3>1, TableFrame, Zenon DEF masterVars
  <2> QED
    BY <2>3, <2>5, Zenon DEF ShippedInv
<1> QED
  BY <1>1, <1>2, <1>3, <1>4, <1>5, <1>6, Zenon DEF Next

\* The inductive invariant of the code as built.
THEOREM ShippedSafety ==
  ASSUME BeforeSleepCalled = FALSE
  PROVE  Spec => [](SafeInv /\ ShippedInv)
<1>1. SafeInv /\ SafeInv' /\ ShippedInv /\ [Next]_vars => ShippedInv'
  BY NextHolds
<1> QED
  BY <1>1, InitHolds, Safety, PTL DEF Spec

\* Every report the master handles is of the current attempt of a task of
\* the current phase: the stale branch of task_done_helper is never taken
\* and the slot's id indexes the right table.
THEOREM ReportsAlwaysCurrent ==
  ASSUME BeforeSleepCalled = FALSE
  PROVE  Spec => []ReportsCurrent
<1>1. SafeInv /\ ShippedInv => ReportsCurrent
  BY ReportInPhase, Zenon DEF ReportsCurrent
<1> QED
  BY <1>1, ShippedSafety, PTL

\* No two connected workers ever execute the same task: a slot is handed
\* out again only once the attempt on it has been reported.
THEOREM ExecutionIsExclusive ==
  ASSUME BeforeSleepCalled = FALSE
  PROVE  Spec => []ExclusiveExecution
<1>1. SafeInv /\ ShippedInv => ExclusiveExecution
  <2> SUFFICES ASSUME SafeInv, ShippedInv, NEW w \in Workers, NEW v \in Workers,
                      link[w] # NoFd, pc[w] \in Executing,
                      link[v] # NoFd, pc[v] \in Executing,
                      <<work[w].kind, work[w].task_id>> = <<work[v].kind, work[v].task_id>>
               PROVE  w = v
    BY Zenon DEF ExclusiveExecution
  <2>1. work[w].kind = work[v].kind /\ work[w].task_id = work[v].task_id
    BY SMTT(60)
  <2>2. /\ Held(work[w].kind, work[w].task_id, work[w].attempt_id, link[w])
        /\ Held(work[v].kind, work[v].task_id, work[v].attempt_id, link[v])
    BY Zenon DEF ShippedInv, HoldInv, WorkersHold
  <2>3. link[w] = link[v]
    BY <2>1, <2>2, Zenon DEF Held
  <2> QED
    BY <2>3, Zenon DEF SafeInv, ConnInv, LinksDistinct
<1> QED
  BY <1>1, ShippedSafety, PTL

\* A task of either kind that the master holds COMPLETED has published its
\* outputs.
THEOREM OutputsPublished ==
  ASSUME BeforeSleepCalled = FALSE
  PROVE  Spec => []CompletedPublished
<1>1. ShippedInv => CompletedPublished
  BY Zenon DEF ShippedInv, TableInv
<1> QED
  BY <1>1, ShippedSafety, PTL

\* maps_done and reduces_done count the COMPLETED slots, across replays too.
THEOREM CountersExact ==
  ASSUME BeforeSleepCalled = FALSE
  PROVE  Spec => []DoneCounts
<1>1. ShippedInv => DoneCounts
  BY Zenon DEF ShippedInv, TableInv
<1> QED
  BY <1>1, ShippedSafety, PTL

\* The assert of wait_for_available_tasks never fails.
THEOREM WaitNeverAborts ==
  ASSUME BeforeSleepCalled = FALSE
  PROVE  Spec => []WaitAssertHolds
<1>1. SafeInv /\ ShippedInv => WaitAssertHolds
  <2> SUFFICES ASSUME SafeInv, ShippedInv, status = "up", phase \notin TerminalPhases
               PROVE  done[PhaseKind] < NumTasks(PhaseKind)
    BY Zenon DEF WaitAssertHolds, NoneAvailable, assert_guard
  <2>1. PhaseKind \in Kinds /\ phase \in {"JOB_MAP", "JOB_REDUCE"}
    BY DEF PhaseKind, Kinds, SafeInv, TypeOK, MasterTypeOK, Phases, TerminalPhases
  <2>2. /\ done[PhaseKind] = Cardinality(CompletedTasks(PhaseKind))
        /\ CompletedTasks(PhaseKind) \in SUBSET Ids(PhaseKind)
    BY <2>1, Zenon DEF ShippedInv, TableInv, DoneCounts, CompletedTasks
  <2>3. done[PhaseKind] \in Nat /\ done[PhaseKind] <= NumTasks(PhaseKind)
    BY <2>1, <2>2, CountIds, Zenon
  <2>4. done[PhaseKind] # NumTasks(PhaseKind)
    BY <2>1 DEF ShippedInv, TableInv, PhaseCounts, PhaseKind, NumTasks
  <2>5. NumTasks(PhaseKind) \in Nat
    BY JobAssumption, Zenon DEF NumTasks
  <2> QED
    BY <2>3, <2>4, <2>5, SMTT(60)
<1> QED
  BY <1>1, ShippedSafety, PTL

\* JOB_DONE means that every task is COMPLETED and every file is there.
THEOREM DoneMeansDone ==
  ASSUME BeforeSleepCalled = FALSE
  PROVE  Spec => []JobDoneComplete
<1>1. SafeInv /\ ShippedInv => JobDoneComplete
  <2> SUFFICES ASSUME SafeInv, ShippedInv, phase = "JOB_DONE", NEW k \in Kinds, NEW i \in Ids(k)
               PROVE  i \in CompletedTasks(k) /\ Published(k, i)
    BY Zenon DEF JobDoneComplete
  <2>1. status = "up"
    BY Zenon DEF ShippedInv, TableInv, DownBlank
  <2>2. tasks[k][i].state = "COMPLETED"
    BY <2>1, PhaseComplete, Zenon DEF Kinds
  <2>3. i \in CompletedTasks(k)
    BY <2>2, Zenon DEF CompletedTasks
  <2> QED
    BY <2>3, Zenon DEF ShippedInv, TableInv, CompletedPublished
<1> QED
  BY <1>1, ShippedSafety, PTL

\* A worker that has been given a reduce finds all its input files.
THEOREM InputsPublished ==
  ASSUME BeforeSleepCalled = FALSE
  PROVE  Spec => []ReduceInputsPublished
<1>1. ShippedInv => ReduceInputsPublished
  BY Zenon DEF ShippedInv, HoldInv
<1> QED
  BY <1>1, ShippedSafety, PTL

\* No task is recorded twice, whatever crashes and failed appends there are.
THEOREM LogHasNoDuplicates ==
  ASSUME BeforeSleepCalled = FALSE
  PROVE  Spec => []AofNoDuplicates
<1>1. ShippedInv => AofNoDuplicates
  BY Zenon DEF ShippedInv, TableInv
<1> QED
  BY <1>1, ShippedSafety, PTL
\* The job fails exactly when some task has used up its attempts.
THEOREM FailureExact ==
  ASSUME BeforeSleepCalled = FALSE
  PROVE  Spec => []JobFailedIffTaskFailed
<1>1. ShippedInv => JobFailedIffTaskFailed
  BY Zenon DEF ShippedInv, TableInv
<1> QED
  BY <1>1, ShippedSafety, PTL

-----------------------------------------------------------------------------
(***************************************************************************)
(* The log follows the tables                                              *)
(***************************************************************************)

\* A step after which the log has every record it had, no task has become
\* COMPLETED without one, and no reduce has been given away before every map
\* is in the log.
LEMMA DurableSuffices ==
  ASSUME SafeInv, ShippedInv', DurableInv,
         \A k, i : Recorded(aof, k, i) => Recorded(aof', k, i),
         status' = "up" =>
           \A k \in Kinds : \A i \in Ids(k) :
             tasks'[k][i].state = "COMPLETED" =>
               \/ status = "up" /\ tasks[k][i].state = "COMPLETED"
               \/ Recorded(aof', k, i),
         \A v \in Workers :
           work'[v].kind = "REDUCE" =>
             \/ work[v].kind = "REDUCE"
             \/ inbox[v].type = "TASK" /\ inbox[v].kind = "REDUCE",
         \A v \in Workers :
           inbox'[v].type = "TASK" /\ inbox'[v].kind = "REDUCE" =>
             \/ inbox[v].type = "TASK" /\ inbox[v].kind = "REDUCE"
             \/ \A x \in Ids("MAP") : Recorded(aof, "MAP", x)
  PROVE  DurableInv'
<1>1. DurableCompletions'
  <2> SUFFICES ASSUME status' = "up", NEW k \in Kinds, NEW i \in Ids(k)
               PROVE  Recorded(aof', k, i) <=> tasks'[k][i].state = "COMPLETED"
    BY Zenon DEF DurableCompletions
  <2>1. Recorded(aof', k, i) => tasks'[k][i].state = "COMPLETED"
    BY Zenon DEF ShippedInv, TableInv, RecordedCompleted
  <2>2. status = "up" /\ tasks[k][i].state = "COMPLETED" => Recorded(aof, k, i)
    BY Zenon DEF DurableInv, DurableCompletions
  <2> QED
    BY <2>1, <2>2, Zenon
<1>2. ReducesFollowLog'
  BY Zenon DEF DurableInv, ReducesFollowLog
<1> QED
  BY <1>1, <1>2, Zenon DEF DurableInv

\* When every map is COMPLETED and the log is whole, every map is in it.
LEMMA MapsRecorded ==
  ASSUME SafeInv, ShippedInv, DurableInv, status = "up", phase = "JOB_REDUCE"
  PROVE  \A x \in Ids("MAP") : Recorded(aof, "MAP", x)
<1>1. \A x \in Ids("MAP") : tasks["MAP"][x].state = "COMPLETED"
  BY PhaseComplete, SMTT(60)
<1>2. "MAP" \in Kinds
  BY DEF Kinds
<1> QED
  BY <1>1, <1>2, Zenon DEF DurableInv, DurableCompletions

\* GetTask completes nothing, and gives away a reduce only in its phase.
LEMMA GetTaskDurable ==
  ASSUME SafeInv, ShippedInv, ShippedInv', DurableInv, NEW fd \in Fds, GetTask(fd)
  PROVE  DurableInv'
<1>1. PICK sent \in BOOLEAN :
        \/ \E k \in Kinds : \E i \in Ids(k) :
             /\ choose_available_task(fd, k, i, sent)
             /\ server_send(fd, TaskResp(k, i, tasks[k][i].current_attempt + 1), sent)
        \/ /\ wait_for_available_tasks(fd, sent)
           /\ server_send(fd, WaitResp, sent)
        \/ /\ get_task_done(fd, sent)
           /\ server_send(fd, DoneResp, sent)
  BY SMTT(60) DEF GetTask
<1>2. /\ work' = work /\ UNCHANGED <<status, phase, aof>> /\ status = "up"
  BY <1>1, Zenon DEF GetTask, workerVars, choose_available_task, wait_for_available_tasks,
              get_task_done
<1>3. \A k \in Kinds : \A i \in Ids(k) :
        tasks'[k][i].state = "COMPLETED" => tasks[k][i].state = "COMPLETED"
  <2>1. CASE tasks' = tasks
    BY <2>1, Zenon
  <2>2. ASSUME NEW k \in Kinds, NEW i \in Ids(k), choose_available_task(fd, k, i, sent)
        PROVE  \A l \in Kinds : \A j \in Ids(l) :
                 tasks'[l][j].state = "COMPLETED" => tasks[l][j].state = "COMPLETED"
    <3>1. IsTaskTable(tasks)
      BY Zenon DEF SafeInv, TypeOK, MasterTypeOK
    <3>2. tasks' = [tasks EXCEPT ![k][i] = attempt_started(tasks[k][i], fd)]
      BY <2>2, Zenon DEF choose_available_task
    <3>3. attempt_started(tasks[k][i], fd).state = "IN_PROGRESS"
      BY <3>1 DEF IsTaskTable, attempt_started, TaskSlot
    <3> QED
      BY <3>1, <3>2, <3>3, Zenon DEF IsTaskTable
  <2> QED
    BY <1>1, <2>1, <2>2, Zenon DEF wait_for_available_tasks, get_task_done
<1>4. ASSUME NEW v \in Workers, inbox'[v].type = "TASK", inbox'[v].kind = "REDUCE"
      PROVE  \/ inbox[v].type = "TASK" /\ inbox[v].kind = "REDUCE"
             \/ \A x \in Ids("MAP") : Recorded(aof, "MAP", x)
  <2>1. CASE inbox'[v] = inbox[v]
    BY <1>4, <2>1, Zenon
  <2>2. ASSUME NEW k \in Kinds, NEW i \in Ids(k), choose_available_task(fd, k, i, sent),
               inbox'[v] = TaskResp(k, i, tasks[k][i].current_attempt + 1)
        PROVE  \A x \in Ids("MAP") : Recorded(aof, "MAP", x)
    <3>1. k = "REDUCE"
      BY <1>4, <2>2 DEF TaskResp
    <3>2. phase = "JOB_REDUCE"
      BY <2>2, <3>1, Zenon DEF choose_available_task, PhaseKind, SafeInv, TypeOK,
         MasterTypeOK, Phases, TerminalPhases
    <3> QED
      BY <1>2, <3>2, MapsRecorded, Zenon
  <2>3. WaitResp.type # "TASK" /\ DoneResp.type # "TASK"
    BY DEF WaitResp, DoneResp
  <2> QED
    BY <1>1, <1>4, <2>1, <2>2, <2>3, Zenon DEF server_send
<1> QED
  BY <1>2, <1>3, <1>4, DurableSuffices, Zenon

\* A success is in the log before it is in the table.
LEMMA TaskDoneDurable ==
  ASSUME AppendOutcomes = {"ok"},
         SafeInv, ShippedInv, ShippedInv', DurableInv, NEW fd \in Fds, TaskDone(fd)
  PROVE  DurableInv'
<1> DEFINE m == clients[fd].req
<1>1. PICK sent \in BOOLEAN :
        /\ \/ task_done_stale(fd, m, sent)
           \/ \E outcome \in AppendOutcomes : task_done_success(fd, m, outcome, sent)
           \/ task_done_failure(fd, m, sent)
        /\ server_send(fd, TaskDoneAck, sent)
  BY SMTT(60) DEF TaskDone
<1>2. /\ work' = work /\ status' = status /\ status = "up"
      /\ HasRequest(fd, "TASK_DONE") /\ phase \notin TerminalPhases
  BY <1>1, Zenon DEF TaskDone, workerVars, task_done_stale, task_done_success,
              task_done_failure
<1>3. \A v \in Workers : inbox'[v].type = "TASK" => inbox'[v] = inbox[v]
  <2>1. TaskDoneAck.type # "TASK"
    BY DEF TaskDoneAck
  <2> QED
    BY <1>1, <2>1, Zenon DEF server_send
<1>4. PICK k \in Kinds : k = PhaseKind
  BY DEF PhaseKind, Kinds
<1>5. PICK i \in Ids(k) : i = workers[fd].current_task_id
  BY <1>4, <1>2, ReportInPhase, Zenon
<1>6. /\ Reported(fd) = tasks[k][i] /\ tasks[k][i] \in TaskSlot /\ ~ StaleReport(fd, m)
  BY <1>4, <1>2, <1>5, ReportInPhase, FreshReport, Zenon DEF Reported
<1>7. ASSUME NEW u, tasks' = [tasks EXCEPT ![k][i] = u]
      PROVE  /\ tasks'[k][i] = u
             /\ \A l \in Kinds : \A j \in Ids(l) :
                  l # k \/ j # i => tasks'[l][j] = tasks[l][j]
  <2>1. IsTaskTable(tasks)
    BY Zenon DEF SafeInv, TypeOK, MasterTypeOK
  <2> QED
    BY <1>7, <2>1, Zenon DEF IsTaskTable
<1> HIDE DEF m
<1>8. CASE \E outcome \in AppendOutcomes : task_done_success(fd, m, outcome, sent)
  <2>1. PICK outcome \in AppendOutcomes : task_done_success(fd, m, outcome, sent)
    BY <1>8, Zenon
  <2>2. PICK u : u = attempt_succeeded(tasks[k][i])
    BY Zenon
  <2>3. /\ tasks' = [tasks EXCEPT ![k][i] = u]
        /\ aof' = aof_append_completed(aof, CompletionRecord(fd, clients[fd].req), outcome)
    BY <1>4, <1>5, <1>6, <2>1, <2>2, Zenon DEF task_done_success, UpdateReported, m
  <2>4. /\ \A l, j : Recorded(aof, l, j) => Recorded(aof', l, j)
        /\ Recorded(aof', k, i)
    BY <1>4, <1>2, <1>5, <2>3, ReportRecords, Zenon
  <2>5. \A l \in Kinds : \A j \in Ids(l) :
          tasks'[l][j].state = "COMPLETED" =>
            tasks[l][j].state = "COMPLETED" \/ Recorded(aof', l, j)
    <3>1. \A l \in Kinds : \A j \in Ids(l) :
            l # k \/ j # i => tasks'[l][j] = tasks[l][j]
      BY <1>7, <2>3, Zenon
    <3> QED
      BY <2>4, <3>1, Zenon
  <2> QED
    BY <1>2, <1>3, <2>4, <2>5, DurableSuffices, Zenon
<1>9. CASE task_done_failure(fd, m, sent)
  <2>1. PICK u : u = task_attempt_ended(tasks[k][i], "FAILED")
    BY Zenon
  <2>2. tasks' = [tasks EXCEPT ![k][i] = u] /\ aof' = aof
    BY <1>4, <1>5, <1>6, <1>9, <2>1, Zenon DEF task_done_failure, UpdateReported
  <2>3. u.state # "COMPLETED"
    BY <1>6, <2>1, Zenon DEF task_attempt_ended, TaskSlot
  <2>4. \A l \in Kinds : \A j \in Ids(l) :
          tasks'[l][j].state = "COMPLETED" => tasks[l][j].state = "COMPLETED"
    <3>1. /\ tasks'[k][i] = u
          /\ \A l \in Kinds : \A j \in Ids(l) :
               l # k \/ j # i => tasks'[l][j] = tasks[l][j]
      BY <1>7, <2>2, Zenon
    <3> QED
      BY <2>3, <3>1, Zenon
  <2> QED
    BY <1>2, <1>3, <2>2, <2>4, DurableSuffices, Zenon
<1> QED
  BY <1>1, <1>6, <1>8, <1>9, Zenon DEF task_done_stale
\* Every other step leaves the tables and the log alone, or blanks the tables,
\* or fills them from the log.
LEMMA OtherDurable ==
  ASSUME SafeInv, ShippedInv, ShippedInv', DurableInv,
         \/ MasterStart \/ MasterStop
         \/ \E fd \in Fds : \/ MasterCrashAfterAppend(fd) \/ GetTaskAborts(fd)
                            \/ TaskDoneRejected(fd) \/ ClientGone(fd)
         \/ \E w \in Workers : WorkerStart(w) \/ WorkerStep(w) \/ WorkerCrash(w)
         \/ UNCHANGED vars
  PROVE  DurableInv'
<1>1. CASE \/ MasterStop
           \/ \E fd \in Fds : MasterCrashAfterAppend(fd) \/ GetTaskAborts(fd)
  <2>1. status' # "up" /\ work' = work /\ inbox' = inbox
    BY <1>1, Zenon DEF MasterStop, MasterCrashAfterAppend, GetTaskAborts, task_done_crash,
                get_task_aborts, MasterGone, ConnectionsLost, remove_client, workerVars
  <2>2. \A k, i : Recorded(aof, k, i) => Recorded(aof', k, i)
    <3>1. CASE aof' = aof
      BY <3>1, Zenon
    <3>2. ASSUME NEW fd \in Fds, MasterCrashAfterAppend(fd)
          PROVE  \A k, i : Recorded(aof, k, i) => Recorded(aof', k, i)
      <4>1. PICK outcome \in AppendOutcomes : task_done_crash(fd, clients[fd].req, outcome)
        BY <3>2, Zenon DEF MasterCrashAfterAppend
      <4>2. /\ status = "up" /\ HasRequest(fd, "TASK_DONE") /\ phase \notin TerminalPhases
            /\ aof' = aof_append_completed(aof, CompletionRecord(fd, clients[fd].req), outcome)
        BY <3>2, <4>1, Zenon DEF MasterCrashAfterAppend, task_done_crash, MasterGone
      <4> QED
        BY <4>2, ReportRecords, Zenon
    <3> QED
      BY <1>1, <3>1, <3>2, Zenon DEF MasterStop, GetTaskAborts, get_task_aborts, MasterGone
  <2> QED
    BY <2>1, <2>2, DurableSuffices, Zenon
<1>2. CASE MasterStart
  <2>1. work' = work /\ inbox' = inbox /\ aof' = aof
    BY <1>2, Zenon DEF MasterStart, master_bootstrap_job, master_bootstrap_refused,
       workerVars, netVars
  <2>2. CASE status' # "up"
    BY <2>1, <2>2, DurableSuffices, Zenon
  <2>3. CASE master_bootstrap_job
    <3>1. \A k \in Kinds : \A i \in Ids(k) :
            tasks'[k][i].state = "COMPLETED" => Recorded(aof, k, i)
      BY <2>3, Zenon DEF master_bootstrap_job, aof_load_tasks, task_reset_pending
    <3> QED
      BY <2>1, <3>1, DurableSuffices, Zenon
  <2>4. master_bootstrap_refused => status' # "up"
    BY DEF master_bootstrap_refused
  <2> QED
    BY <1>2, <2>2, <2>3, <2>4, Zenon DEF MasterStart
<1>3. CASE \/ \E fd \in Fds : TaskDoneRejected(fd) \/ ClientGone(fd)
           \/ UNCHANGED vars
  <2>1. work' = work /\ inbox' = inbox /\ UNCHANGED <<status, tasks, aof>>
    BY <1>3 DEF TaskDoneRejected, ClientGone, task_done_rejected, ClearWorker, remove_client,
                vars, masterVars, netVars, workerVars
  <2> QED
    BY <2>1, DurableSuffices, Zenon
<1>4. ASSUME NEW w \in Workers, WorkerStart(w)
      PROVE  DurableInv'
  <2>1. /\ work' = work /\ inbox' = [inbox EXCEPT ![w] = NoMsg]
        /\ UNCHANGED <<status, tasks, aof>>
    BY <1>4, Zenon DEF WorkerStart, client_init, on_accept, ClearWorker
  <2>2. inbox \in [Workers -> Responses] /\ NoMsg.type # "TASK"
    BY DEF SafeInv, TypeOK, NetTypeOK, NoMsg
  <2>3. \A v \in Workers : inbox'[v].type = "TASK" => inbox'[v] = inbox[v]
    BY <2>1, <2>2, Zenon
  <2> QED
    BY <2>1, <2>3, DurableSuffices, Zenon
<1>5. ASSUME NEW w \in Workers, WorkerStep(w) \/ WorkerCrash(w)
      PROVE  DurableInv'
  <2>1. UNCHANGED masterVars /\ \A v \in Workers : Goes(v)
    BY <1>5, WorkerEffect, Zenon
  <2>2. \A v \in Workers :
          /\ inbox'[v].type = "TASK" => inbox'[v] = inbox[v]
          /\ work'[v].kind = "REDUCE" =>
               \/ work[v].kind = "REDUCE"
               \/ inbox[v].type = "TASK" /\ inbox[v].kind = "REDUCE"
    <3>1. "NONE" # "REDUCE"
      OBVIOUS
    <3> QED
      BY <2>1, <3>1, Zenon DEF Goes, SameTask
  <2> QED
    BY <2>1, <2>2, DurableSuffices, Zenon DEF masterVars
<1> QED
  BY <1>1, <1>2, <1>3, <1>4, <1>5, Zenon

\* Every step preserves the invariant when no append fails.
LEMMA NextDurable ==
  ASSUME BeforeSleepCalled = FALSE, AppendOutcomes = {"ok"}
  PROVE  SafeInv /\ ShippedInv /\ ShippedInv' /\ DurableInv /\ [Next]_vars => DurableInv'
<1> SUFFICES ASSUME SafeInv, ShippedInv, ShippedInv', DurableInv, [Next]_vars
             PROVE  DurableInv'
  OBVIOUS
<1>1. CASE \E ticks \in {0, 1}, found \in Examined : BeforeSleep(ticks, found)
  BY <1>1, Zenon DEF BeforeSleep, server_before_sleep
<1>2. ASSUME NEW fd \in Fds, MasterStep(fd) \/ MasterCrashAfterAppend(fd)
      PROVE  DurableInv'
  BY <1>2, GetTaskDurable, TaskDoneDurable, OtherDurable, Zenon DEF MasterStep
<1>3. CASE \/ MasterStart \/ MasterStop \/ UNCHANGED vars
           \/ \E w \in Workers : WorkerStart(w) \/ WorkerStep(w) \/ WorkerCrash(w)
  BY <1>3, OtherDurable, Zenon
<1> QED
  BY <1>1, <1>2, <1>3, Zenon DEF Next

\* Before the first start there is no reduce anywhere.
LEMMA InitDurable == Init => DurableInv
<1> SUFFICES ASSUME Init PROVE DurableInv
  OBVIOUS
<1>1. /\ status # "up"
      /\ \A w \in Workers : inbox[w].type # "TASK" /\ work[w].kind # "REDUCE"
  BY DEF Init, MasterInit, WorkerInit, NetInit, NoMsg, NoWork
<1> QED
  BY <1>1, Zenon DEF DurableInv, DurableCompletions, ReducesFollowLog

\* The inductive invariant of the code as built on a disk that takes every
\* append.
THEOREM DurableSafety ==
  ASSUME BeforeSleepCalled = FALSE, AppendOutcomes = {"ok"}
  PROVE  Spec => [](SafeInv /\ ShippedInv /\ DurableInv)
<1>1. SafeInv /\ ShippedInv /\ ShippedInv' /\ DurableInv /\ [Next]_vars => DurableInv'
  BY NextDurable, Zenon
<1> QED
  BY <1>1, InitDurable, ShippedSafety, PTL DEF Spec

\* On a healthy disk the log and the tables of the running master agree, so
\* that a restart at any moment resumes with exactly the completed tasks.
THEOREM CompletionsDurable ==
  ASSUME BeforeSleepCalled = FALSE, AppendOutcomes = {"ok"}
  PROVE  Spec => []DurableCompletions
<1>1. DurableInv => DurableCompletions
  BY Zenon DEF DurableInv
<1> QED
  BY <1>1, DurableSafety, PTL

-----------------------------------------------------------------------------
(***************************************************************************)
(* Refinement                                                              *)
(***************************************************************************)

\* The tasks the abstract job counts as completed.
Logged == {<<aof[n].kind, aof[n].task_id>> : n \in {m \in 1 .. Len(aof) : aof[m].kind # "TORN"}}

\* They are those with a record in the log.
LEMMA LoggedRecorded ==
  ASSUME NEW k \in Kinds, NEW i
  PROVE  <<k, i>> \in Logged <=> Recorded(aof, k, i)
<1>1. k # "TORN"
  BY DEF Kinds
<1>2. ASSUME <<k, i>> \in Logged PROVE Recorded(aof, k, i)
  <2>1. PICK n \in 1 .. Len(aof) : <<k, i>> = <<aof[n].kind, aof[n].task_id>>
    BY <1>2 DEF Logged
  <2>2. aof[n].kind = k /\ aof[n].task_id = i
    BY <2>1
  <2> QED
    BY <2>2, Zenon DEF Recorded
<1>3. ASSUME Recorded(aof, k, i) PROVE <<k, i>> \in Logged
  <2>1. PICK n \in 1 .. Len(aof) : aof[n].kind = k /\ aof[n].task_id = i
    BY <1>3, Zenon DEF Recorded
  <2> QED
    BY <1>1, <2>1, Zenon DEF Logged
<1> QED
  BY <1>2, <1>3

\* Appending a record adds its task and nothing else.
LEMMA LoggedAppend ==
  ASSUME aof \in Seq(AofRecord \cup {Torn}), NEW rec \in AofRecord, aof' = Append(aof, rec)
  PROVE  Logged' = Logged \cup {<<rec.kind, rec.task_id>>}
<1>1. /\ \A n \in 1 .. Len(aof) : aof'[n] = aof[n]
      /\ aof'[Len(aof) + 1] = rec
      /\ 1 .. Len(aof') = (1 .. Len(aof)) \cup {Len(aof) + 1}
  BY SMTT(60)
<1>2. rec.kind # "TORN"
  BY DEF AofRecord, Kinds
<1>3. Logged' \subseteq Logged \cup {<<rec.kind, rec.task_id>>}
  BY <1>1, Zenon DEF Logged
<1>4. Logged \subseteq Logged'
  BY <1>1, Zenon DEF Logged
<1>5. <<rec.kind, rec.task_id>> \in Logged'
  BY <1>1, <1>2, Zenon DEF Logged
<1> QED
  BY <1>3, <1>4, <1>5, Zenon
\* A report of success completes its task in the abstract job: its files are
\* there, and for a reduce every map is in the log.
LEMMA AppendRefines ==
  ASSUME AppendOutcomes = {"ok"}, SafeInv, ShippedInv, DurableInv, status = "up",
         phase \notin TerminalPhases, NEW fd \in Fds, HasRequest(fd, "TASK_DONE"),
         clients[fd].req.result = 0, NEW outcome \in AppendOutcomes,
         aof' = aof_append_completed(aof, CompletionRecord(fd, clients[fd].req), outcome),
         UNCHANGED <<intermediate, output>>
  PROVE  J!JobNext
<1> DEFINE rec == CompletionRecord(fd, clients[fd].req)
<1>1. PICK i : i = workers[fd].current_task_id
  BY Zenon
<1>2. /\ rec.kind = PhaseKind /\ rec.task_id = i /\ i \in Ids(PhaseKind)
      /\ Published(PhaseKind, i)
  BY <1>1, ReportInPhase, Zenon DEF CompletionRecord, SafeInv, ConnInv, ReportsTrue
<1>3. rec \in AofRecord
  <2>1. clients[fd].req \in Requests /\ clients[fd].req.type = "TASK_DONE"
    BY Zenon DEF SafeInv, TypeOK, NetTypeOK, Client, HasRequest
  <2>2. clients[fd].req.task_id \in Nat /\ clients[fd].req.attempt_id \in Nat
    BY <2>1 DEF Requests, NoMsg, GetTaskReq
  <2>3. workers[fd].current_kind \in Kinds
    BY Zenon DEF SafeInv, ConnInv, ReportsTrue
  <2> QED
    BY <2>2, <2>3, Zenon DEF CompletionRecord, AofRecord
<1>4. aof' = Append(aof, rec)
  BY DEF aof_append_completed
<1> HIDE DEF rec
<1>5. Logged' = Logged \cup {<<PhaseKind, i>>}
  BY <1>2, <1>3, <1>4, LoggedAppend, Zenon DEF SafeInv, TypeOK, MasterTypeOK
<1>6. CASE phase = "JOB_MAP"
  <2>1. PhaseKind = "MAP"
    BY <1>6 DEF PhaseKind
  <2>2. i \in Ids("MAP") /\ \A y \in Ids("REDUCE") : <<i, y>> \in intermediate
    BY <1>2, <2>1, Zenon DEF Published
  <2>3. J!CompleteMap(i)
    BY <1>5, <2>1, <2>2, Zenon DEF J!CompleteMap, Logged
  <2> QED
    BY <2>2, <2>3, Zenon DEF J!JobNext
<1>7. CASE phase = "JOB_REDUCE"
  <2>1. PhaseKind = "REDUCE" /\ "REDUCE" # "MAP" /\ "MAP" \in Kinds
    BY <1>7 DEF PhaseKind, Kinds
  <2>2. i \in Ids("REDUCE") /\ i \in output
    BY <1>2, <2>1, Zenon DEF Published
  <2>3. \A x \in Ids("MAP") : <<"MAP", x>> \in Logged
    BY <1>7, <2>1, MapsRecorded, LoggedRecorded, Zenon
  <2>4. J!CompleteReduce(i)
    BY <1>5, <2>1, <2>2, <2>3, Zenon DEF J!CompleteReduce, J!MapsCompleted, Logged
  <2> QED
    BY <2>2, <2>4, Zenon DEF J!JobNext
<1>8. phase \in Phases
  BY Zenon DEF SafeInv, TypeOK, MasterTypeOK
<1> QED
  BY <1>6, <1>7, <1>8, Zenon DEF Phases, TerminalPhases

\* A rename publishes one file of the abstract job; the other steps of a
\* worker publish nothing.
LEMMA WorkerRefines ==
  ASSUME SafeInv, DurableInv, NEW w \in Workers, WorkerStep(w) \/ WorkerCrash(w)
  PROVE  J!JobNext \/ UNCHANGED <<aof, intermediate, output>>
<1>1. aof' = aof /\ Logged' = Logged
  BY Zenon DEF WorkerStep, WorkerCrash, masterVars, Logged
<1>2. ASSUME NEW ok \in BOOLEAN, map_rename(w, ok)
      PROVE  J!JobNext \/ UNCHANGED <<aof, intermediate, output>>
  <2>1. PICK x : x = work[w].task_id
    BY Zenon
  <2>2. PICK y : y = next_y[w]
    BY Zenon
  <2>3. /\ output' = output
        /\ intermediate' \in {intermediate, intermediate \cup {<<x, y>>}}
        /\ pc[w] = "renaming" /\ work[w].kind = "MAP"
    BY <1>2, <2>1, <2>2, Zenon DEF map_rename
  <2>4. x \in Ids("MAP") /\ y \in Ids("REDUCE")
    <3>1. pc[w] \in Executing
      BY <2>3, Zenon DEF Executing
    <3>2. ValidAttempt(work[w]) /\ next_y[w] < R /\ next_y[w] \in 0 .. R
      BY <3>1, Zenon DEF SafeInv, ConnInv, AttemptsValid, FilesWritten, TypeOK, WorkerTypeOK
    <3>3. x \in Ids("MAP")
      BY <2>1, <2>3, <3>2, Zenon DEF ValidAttempt
    <3>4. y \in Ids("REDUCE")
      BY <2>2, <3>2, JobAssumption DEF Ids, NumTasks
    <3> QED
      BY <3>3, <3>4, Zenon
  <2>5. CASE intermediate' = intermediate
    BY <1>1, <2>3, <2>5, Zenon
  <2>6. CASE intermediate' = intermediate \cup {<<x, y>>}
    <3>1. J!PublishIntermediate(x, y)
      BY <1>1, <2>3, <2>6, Zenon DEF J!PublishIntermediate, Logged
    <3> QED
      BY <2>4, <3>1, Zenon DEF J!JobNext
  <2> QED
    BY <2>3, <2>5, <2>6, Zenon
<1>3. ASSUME NEW ok \in BOOLEAN, reduce_rename(w, ok)
      PROVE  J!JobNext \/ UNCHANGED <<aof, intermediate, output>>
  <2>1. PICK y : y = work[w].task_id
    BY Zenon
  <2>2. /\ intermediate' = intermediate /\ output' \in {output, output \cup {y}}
        /\ pc[w] = "renaming" /\ work[w].kind = "REDUCE"
    BY <1>3, <2>1, Zenon DEF reduce_rename
  <2>3. y \in Ids("REDUCE")
    <3>1. pc[w] \in Executing
      BY <2>2 DEF Executing
    <3> QED
      BY <2>1, <2>2, <3>1, Zenon DEF SafeInv, ConnInv, AttemptsValid, ValidAttempt
  <2>4. \A x \in Ids("MAP") : <<"MAP", x>> \in Logged
    <3>1. "MAP" \in Kinds
      BY DEF Kinds
    <3> QED
      BY <2>2, <3>1, LoggedRecorded, Zenon DEF DurableInv, ReducesFollowLog
  <2>5. CASE output' = output
    BY <1>1, <2>2, <2>5, Zenon
  <2>6. CASE output' = output \cup {y}
    <3>1. J!PublishOutput(y)
      BY <1>1, <2>2, <2>4, <2>6, Zenon DEF J!PublishOutput, J!MapsCompleted, Logged
    <3> QED
      BY <2>3, <3>1, Zenon DEF J!JobNext
  <2> QED
    BY <2>2, <2>5, <2>6, Zenon
<1>4. CASE ~ \E ok \in BOOLEAN : map_rename(w, ok) \/ reduce_rename(w, ok)
  <2>1. intermediate' = intermediate /\ output' = output
    BY <1>4, Zenon DEF WorkerStep, WorkerCrash, get_task_req, got_task, got_wait, got_done,
       rpc_failed, crash, ProcessEnds, run_failed, map_temps_written, reduce_temp_written,
       send_task_done, got_ack, fileVars
  <2> QED
    BY <1>1, <2>1, Zenon
<1> QED
  BY <1>2, <1>3, <1>4, Zenon

\* Every step of the system is a step of the abstract job or changes nothing
\* of it.
LEMMA NextRefines ==
  ASSUME BeforeSleepCalled = FALSE, AppendOutcomes = {"ok"}
  PROVE  SafeInv /\ ShippedInv /\ DurableInv /\ [Next]_vars => [J!JobNext]_(J!jobVars)
<1> SUFFICES ASSUME SafeInv, ShippedInv, DurableInv, [Next]_vars
             PROVE  J!JobNext \/ UNCHANGED <<aof, intermediate, output>>
  BY Zenon DEF J!jobVars
<1>1. CASE \E ticks \in {0, 1}, found \in Examined : BeforeSleep(ticks, found)
  BY <1>1, Zenon DEF BeforeSleep, server_before_sleep
<1>2. CASE MasterStart \/ MasterStop \/ UNCHANGED vars
  BY <1>2, Zenon DEF MasterStart, master_bootstrap_job, master_bootstrap_refused, MasterStop,
     MasterGone, vars, masterVars, workerVars
<1>3. ASSUME NEW fd \in Fds,
             GetTask(fd) \/ GetTaskAborts(fd) \/ TaskDoneRejected(fd) \/ ClientGone(fd)
      PROVE  UNCHANGED <<aof, intermediate, output>>
  BY <1>3, Zenon DEF GetTask, GetTaskAborts, TaskDoneRejected, ClientGone, choose_available_task,
     wait_for_available_tasks, get_task_done, get_task_aborts, MasterGone, task_done_rejected,
     ClearWorker, workerVars
<1>4. ASSUME NEW fd \in Fds, TaskDone(fd) \/ MasterCrashAfterAppend(fd)
      PROVE  J!JobNext \/ UNCHANGED <<aof, intermediate, output>>
  <2>1. /\ status = "up" /\ HasRequest(fd, "TASK_DONE") /\ UNCHANGED <<intermediate, output>>
    BY <1>4, Zenon DEF TaskDone, MasterCrashAfterAppend, workerVars
  <2>2. ASSUME NEW outcome \in AppendOutcomes, NEW sent \in BOOLEAN,
               \/ task_done_success(fd, clients[fd].req, outcome, sent)
               \/ task_done_crash(fd, clients[fd].req, outcome)
        PROVE  J!JobNext
    <3>1. /\ phase \notin TerminalPhases /\ clients[fd].req.result = 0
          /\ aof' = aof_append_completed(aof, CompletionRecord(fd, clients[fd].req), outcome)
      BY <2>2, Zenon DEF task_done_success, task_done_crash, MasterGone
    <3> QED
      BY <2>1, <3>1, AppendRefines, Zenon
  <2>3. ASSUME NEW sent \in BOOLEAN,
               \/ task_done_stale(fd, clients[fd].req, sent)
               \/ task_done_failure(fd, clients[fd].req, sent)
        PROVE  UNCHANGED <<aof, intermediate, output>>
    BY <2>1, <2>3, Zenon DEF task_done_stale, task_done_failure
  <2>4. TRUE \in BOOLEAN
    OBVIOUS
  <2> QED
    BY <1>4, <2>2, <2>3, <2>4, Zenon DEF TaskDone, MasterCrashAfterAppend
<1>5. ASSUME NEW w \in Workers, WorkerStart(w)
      PROVE  UNCHANGED <<aof, intermediate, output>>
  BY <1>5, Zenon DEF WorkerStart, client_init, ClearWorker, fileVars
<1>6. ASSUME NEW w \in Workers, WorkerStep(w) \/ WorkerCrash(w)
      PROVE  J!JobNext \/ UNCHANGED <<aof, intermediate, output>>
  BY <1>6, WorkerRefines, Zenon
<1> QED
  BY <1>1, <1>2, <1>3, <1>4, <1>5, <1>6, Zenon DEF Next, MasterStep

\* The system implements the abstract job: for every job size, set of workers
\* and number of crashes, files are published, and tasks recorded, only as
\* the Job module allows.
THEOREM Refinement ==
  ASSUME BeforeSleepCalled = FALSE, AppendOutcomes = {"ok"}
  PROVE  Spec => ImplementsJob
<1>1. Init => J!JobInit
  BY DEF Init, MasterInit, WorkerInit, J!JobInit
<1>2. SafeInv /\ ShippedInv /\ DurableInv /\ [Next]_vars => [J!JobNext]_(J!jobVars)
  BY NextRefines, Zenon
<1> QED
  BY <1>1, <1>2, DurableSafety, PTL DEF Spec, ImplementsJob, J!JobSpec
=============================================================================
