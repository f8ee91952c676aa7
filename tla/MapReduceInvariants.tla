------------------------ MODULE MapReduceInvariants ------------------------
(***************************************************************************)
(* The inductive invariants behind the safety properties of MapReduce.     *)
(***************************************************************************)
EXTENDS MapReduce

-----------------------------------------------------------------------------
(***************************************************************************)
(* What holds whether or not before_sleep_proc is called                   *)
(***************************************************************************)

\* A worker has one request outstanding at most, and only while it is
\* blocked in recv_framed; no two workers share a connection.
StopAndWait ==
  \A w \in Workers :
    /\ pc[w] = "off" => link[w] = NoFd
    /\ inbox[w].type = "TASK" => pc[w] = "asked"
    /\ pc[w] \notin {"asked", "acking"} => inbox[w].type = "NONE"
    /\ link[w] # NoFd =>
         /\ clients[link[w]].active
         /\ ~ clients[link[w]].eof
         /\ pc[w] \notin {"asked", "acking"} => clients[link[w]].req.type = "NONE"
         /\ pc[w] = "asked" => clients[link[w]].req.type # "TASK_DONE"
         /\ pc[w] = "acking" => clients[link[w]].req.type # "GET_TASK"
         /\ inbox[w].type # "NONE" => clients[link[w]].req.type = "NONE"

LinksDistinct ==
  \A w, v \in Workers : link[w] = link[v] /\ link[w] # NoFd => w = v

ValidAttempt(a) == a.kind \in Kinds /\ a.task_id \in Ids(a.kind) /\ a.attempt_id # 0

\* Workers only ever hold attempts of tasks the job has.
AttemptsValid ==
  \A w \in Workers :
    /\ pc[w] \in Executing => ValidAttempt(work[w])
    /\ inbox[w].type = "TASK" => ValidAttempt(inbox[w])

\* The master's slot of a connection names the task its worker was given.
SlotAgrees ==
  \A w \in Workers : link[w] # NoFd =>
    /\ pc[w] \in Executing =>
         /\ workers[link[w]].current_kind = work[w].kind
         /\ workers[link[w]].current_task_id = work[w].task_id
    /\ inbox[w].type = "TASK" =>
         /\ workers[link[w]].current_kind = inbox[w].kind
         /\ workers[link[w]].current_task_id = inbox[w].task_id

\* How far an attempt got with its renames, as long as none failed.
FilesWritten ==
  \A w \in Workers :
    /\ next_y[w] < R
    /\ pc[w] # "renaming" \/ work[w].kind = "REDUCE" => next_y[w] = 0
    /\ pc[w] = "renaming" /\ work[w].kind = "MAP" /\ work[w].result = 0 =>
         \A y \in 0 .. next_y[w] - 1 : <<work[w].task_id, y>> \in intermediate
    /\ pc[w] = "reporting" /\ work[w].result = 0 =>
         Published(work[w].kind, work[w].task_id)

\* A report waiting to be handled is about the task in the slot, and a
\* success is only reported once the files are published.
ReportsTrue ==
  \A fd \in Fds : HasRequest(fd, "TASK_DONE") =>
    /\ workers[fd].current_kind \in Kinds
    /\ workers[fd].current_task_id \in Ids(workers[fd].current_kind)
    /\ clients[fd].req.task_id = workers[fd].current_task_id
    /\ clients[fd].req.attempt_id # 0
    /\ clients[fd].req.result = 0 =>
         Published(workers[fd].current_kind, workers[fd].current_task_id)

\* No slot names a reduce before the reduce phase.
SlotsFollowPhase ==
  /\ phase = "JOB_MAP" => \A fd \in Fds : workers[fd].current_kind # "REDUCE"
  /\ status # "up" => \A fd \in Fds : workers[fd] = ZeroWorker

\* The part about connections, workers and files.
ConnInv ==
  /\ StopAndWait
  /\ LinksDistinct
  /\ AttemptsValid
  /\ SlotAgrees
  /\ FilesWritten
  /\ ReportsTrue

\* The inductive invariant.
SafeInv ==
  /\ TypeOK
  /\ ConnInv
  /\ SlotsFollowPhase
  /\ SlotsConsistent
  /\ CompletedMapsPublished
  /\ AofPublished
=============================================================================
