-------------------------- MODULE ShippedInvariants --------------------------
(***************************************************************************)
(* What holds in addition while before_sleep_proc is not called, as in the *)
(* code as built: no attempt ends behind the back of the worker that runs  *)
(* it.  Together with SafeInv this is inductive.                           *)
(***************************************************************************)
EXTENDS MapReduceInvariants

\* Task i of kind k is in attempt a, which was given to connection fd.
Held(k, i, a, fd) ==
  /\ tasks[k][i].state = "IN_PROGRESS"
  /\ tasks[k][i].current_attempt = a
  /\ tasks[k][i].owner_fd = fd

\* A master that does not run has blank tables and no connections.
DownBlank ==
  status # "up" =>
    /\ phase = "JOB_MAP"
    /\ tasks = FreshTasks
    /\ \A w \in Workers : link[w] = NoFd
    /\ \A fd \in Fds : ~ clients[fd].active

\* A connected worker with a task has the current attempt of it.
WorkersHold ==
  \A w \in Workers : link[w] # NoFd =>
    /\ pc[w] \in Executing =>
         Held(work[w].kind, work[w].task_id, work[w].attempt_id, link[w])
    /\ inbox[w].type = "TASK" =>
         Held(inbox[w].kind, inbox[w].task_id, inbox[w].attempt_id, link[w])

\* A report waiting to be handled is of the current attempt of its task.
ReportsHeld ==
  \A fd \in Fds : HasRequest(fd, "TASK_DONE") =>
    Held(workers[fd].current_kind, workers[fd].current_task_id,
         clients[fd].req.attempt_id, fd)

\* The phase is the one maybe_advance_phase computes from the counters.
PhaseCounts ==
  status = "up" =>
    /\ phase = "JOB_MAP" => done["MAP"] # M
    /\ phase \in {"JOB_REDUCE", "JOB_DONE"} => done["MAP"] = M
    /\ phase = "JOB_REDUCE" => done["REDUCE"] # R
    /\ phase = "JOB_DONE" => done["REDUCE"] = R

\* No reduce runs in the map phase.
ReducesWait ==
  phase = "JOB_MAP" =>
    \A i \in Ids("REDUCE") : tasks["REDUCE"][i].state # "IN_PROGRESS"

\* What the log says is what the tables say.
RecordedCompleted ==
  status = "up" =>
    \A k \in Kinds : \A i \in Ids(k) :
      Recorded(aof, k, i) => tasks[k][i].state = "COMPLETED"

\* The part about connections and workers.
HoldInv ==
  /\ WorkersHold
  /\ ReportsHeld
  /\ ReduceInputsPublished

\* The part about the tables, the counters and the log.
TableInv ==
  /\ DownBlank
  /\ PhaseCounts
  /\ ReducesWait
  /\ DoneCounts
  /\ CompletedPublished
  /\ JobFailedIffTaskFailed
  /\ RecordedCompleted
  /\ AofNoDuplicates

ShippedInv == HoldInv /\ TableInv

\* With a log that takes every record: a reduce exists only because every map
\* is in the log.
ReducesFollowLog ==
  \A w \in Workers :
    \A x \in Ids("MAP") :
      /\ work[w].kind = "REDUCE" => Recorded(aof, "MAP", x)
      /\ inbox[w].type = "TASK" /\ inbox[w].kind = "REDUCE" => Recorded(aof, "MAP", x)

DurableInv == DurableCompletions /\ ReducesFollowLog
=============================================================================
