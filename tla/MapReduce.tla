------------------------------ MODULE MapReduce ------------------------------
(***************************************************************************)
(* The master, its workers and the connections between them, with process  *)
(* crashes and restarts.                                                   *)
(***************************************************************************)
EXTENDS Master, Worker

CONSTANTS
  MaxMasterStops,    \* bound on crashes and shutdowns of the master
  MaxWorkerCrashes   \* bound on crashes of worker processes

ASSUME BudgetAssumption ==
  /\ MaxMasterStops \in Nat
  /\ MaxWorkerCrashes \in Nat

VARIABLES
  stops,    \* master stops so far
  crashes   \* worker crashes so far

budgetVars == <<stops, crashes>>
vars == <<masterVars, workerVars, netVars, budgetVars>>

Init ==
  /\ MasterInit
  /\ WorkerInit
  /\ NetInit
  /\ stops = 0
  /\ crashes = 0

-----------------------------------------------------------------------------
(***************************************************************************)
(* The master process                                                      *)
(***************************************************************************)

MasterStart ==
  /\ master_bootstrap_job \/ master_bootstrap_refused
  /\ UNCHANGED <<workerVars, netVars, budgetVars>>

\* Every connection ends with the process.
ConnectionsLost == remove_client(Fds)

\* SIGINT or SIGTERM (on_shutdown, master_shutdown), or a crash, between two
\* handlers.
MasterStop ==
  /\ status = "up"
  /\ stops < MaxMasterStops
  /\ stops' = stops + 1
  /\ MasterGone(aof)
  /\ ConnectionsLost
  /\ UNCHANGED <<workerVars, crashes>>

\* A crash after the log append of a completion and before its ACK.
MasterCrashAfterAppend(fd) ==
  /\ status = "up"
  /\ stops < MaxMasterStops
  /\ stops' = stops + 1
  /\ HasRequest(fd, "TASK_DONE")
  /\ \E outcome \in AppendOutcomes :
       task_done_crash(fd, clients[fd].req, outcome)
  /\ ConnectionsLost
  /\ UNCHANGED <<workerVars, crashes>>

\* master_handle_get_task
GetTask(fd) ==
  /\ status = "up"
  /\ HasRequest(fd, "GET_TASK")
  /\ \E sent \in BOOLEAN :
       \/ \E k \in Kinds : \E i \in Ids(k) :
            /\ choose_available_task(fd, k, i, sent)
            /\ server_send(fd, TaskResp(k, i, tasks[k][i].current_attempt + 1), sent)
       \/ /\ wait_for_available_tasks(fd, sent)
          /\ server_send(fd, WaitResp, sent)
       \/ /\ get_task_done(fd, sent)
          /\ server_send(fd, DoneResp, sent)
  /\ UNCHANGED <<workerVars, budgetVars>>

GetTaskAborts(fd) ==
  /\ status = "up"
  /\ HasRequest(fd, "GET_TASK")
  /\ get_task_aborts
  /\ ConnectionsLost
  /\ UNCHANGED <<workerVars, budgetVars>>

\* master_handle_task_done, the paths that answer
TaskDone(fd) ==
  /\ status = "up"
  /\ HasRequest(fd, "TASK_DONE")
  /\ \E sent \in BOOLEAN :
       /\ LET m == clients[fd].req
          IN  \/ task_done_stale(fd, m, sent)
              \/ \E outcome \in AppendOutcomes :
                   task_done_success(fd, m, outcome, sent)
              \/ task_done_failure(fd, m, sent)
       /\ server_send(fd, TaskDoneAck, sent)
  /\ UNCHANGED <<workerVars, budgetVars>>

TaskDoneRejected(fd) ==
  /\ status = "up"
  /\ HasRequest(fd, "TASK_DONE")
  /\ task_done_rejected(fd)
  /\ remove_client({fd})
  /\ UNCHANGED <<workerVars, budgetVars>>

\* on_read meets EOF, or a reset that also discards an unread request.
ClientGone(fd) ==
  /\ status = "up"
  /\ clients[fd].active
  /\ clients[fd].eof
  /\ ClearWorker({fd})
  /\ remove_client({fd})
  /\ UNCHANGED <<workerVars, budgetVars>>

\* before_sleep_proc, once per iteration of el_run
BeforeSleep(ticks, found) ==
  /\ status = "up"
  /\ server_before_sleep(ticks, check_client_timeouts(ticks, found))
  /\ client_timeouts_cron(ticks, found)
  /\ UNCHANGED <<workerVars, budgetVars>>

-----------------------------------------------------------------------------
(***************************************************************************)
(* The workers                                                             *)
(***************************************************************************)

\* A worker is started (again) and the master accepts it.
WorkerStart(w) ==
  /\ status = "up"
  /\ \E fd \in Fds : client_init(w, fd) /\ ClearWorker({fd})
  /\ UNCHANGED budgetVars

\* The next statement of a worker process.
WorkerStep(w) ==
  /\ \/ get_task_req(w)
     \/ got_task(w)
     \/ got_wait(w)
     \/ got_done(w)
     \/ rpc_failed(w)
     \/ run_failed(w)
     \/ map_temps_written(w)
     \/ \E ok \in BOOLEAN : map_rename(w, ok)
     \/ reduce_temp_written(w)
     \/ \E ok \in BOOLEAN : reduce_rename(w, ok)
     \/ send_task_done(w)
     \/ got_ack(w)
  /\ UNCHANGED <<masterVars, budgetVars>>

WorkerCrash(w) ==
  /\ crashes < MaxWorkerCrashes
  /\ crashes' = crashes + 1
  /\ crash(w)
  /\ UNCHANGED <<masterVars, stops>>

-----------------------------------------------------------------------------
MasterStep(fd) == \/ GetTask(fd)
                  \/ GetTaskAborts(fd)
                  \/ TaskDone(fd)
                  \/ TaskDoneRejected(fd)
                  \/ ClientGone(fd)

Next == \/ MasterStart
        \/ MasterStop
        \/ \E ticks \in {0, 1}, found \in Examined : BeforeSleep(ticks, found)
        \/ \E fd \in Fds : MasterStep(fd) \/ MasterCrashAfterAppend(fd)
        \/ \E w \in Workers : WorkerStart(w) \/ WorkerStep(w) \/ WorkerCrash(w)

Spec == Init /\ [][Next]_vars

\* The event loop keeps serving its descriptors and, when it calls
\* before_sleep_proc at all, calls it again and again; processes that are
\* not running get started; a running worker reaches its next statement.
Fairness ==
  /\ WF_vars(MasterStart)
  /\ WF_vars(\E found \in Examined : BeforeSleep(1, found))
  /\ \A fd \in Fds : WF_vars(MasterStep(fd))
  /\ \A w \in Workers : WF_vars(WorkerStart(w)) /\ WF_vars(WorkerStep(w))

FairSpec == Spec /\ Fairness

-----------------------------------------------------------------------------
(***************************************************************************)
(* Invariants                                                              *)
(***************************************************************************)

\* Every variable keeps its type; in particular attempts_count never
\* passes MAX_ATTEMPTS, so history[attempts_count - 1] stays in bounds.
TypeOK ==
  /\ MasterTypeOK
  /\ NetTypeOK
  /\ WorkerTypeOK
  /\ stops \in 0 .. MaxMasterStops
  /\ crashes \in 0 .. MaxWorkerCrashes

CompletedTasks(k) == {i \in Ids(k) : tasks[k][i].state = "COMPLETED"}

\* A map the master holds COMPLETED has published all its partitions
\* (task.h: "terminal: outputs exist on disk").
CompletedMapsPublished == \A i \in CompletedTasks("MAP") : Published("MAP", i)

\* A task of either kind the master holds COMPLETED has published its
\* outputs: task_done_helper never marks a slot on somebody else's report.
CompletedPublished ==
  \A k \in Kinds : \A i \in CompletedTasks(k) : Published(k, i)

\* maps_done and reduces_done count the COMPLETED slots, through reports,
\* crashes and replay; maybe_advance_phase decides on them by equality.
DoneCounts ==
  status = "up" => \A k \in Kinds : done[k] = Cardinality(CompletedTasks(k))

\* The assert in wait_for_available_tasks holds whenever a GetTask finds
\* nothing PENDING.
WaitAssertHolds == status = "up" /\ NoneAvailable => assert_guard

\* JOB_DONE is only entered once every task is COMPLETED, none of them still
\* running, and every output file of the job exists.
JobDoneComplete ==
  phase = "JOB_DONE" =>
    \A k \in Kinds : \A i \in Ids(k) : i \in CompletedTasks(k) /\ Published(k, i)

\* A worker that has been given a reduce finds all its input files, so
\* read_records_file never fails for a missing file.
ReduceInputsPublished ==
  \A w \in Workers :
    \A x \in Ids("MAP") :
      /\ work[w].kind = "REDUCE" => <<x, work[w].task_id>> \in intermediate
      /\ inbox[w].type = "TASK" /\ inbox[w].kind = "REDUCE"
           => <<x, inbox[w].task_id>> \in intermediate

\* Two workers connected to the same master never execute the same task.
ExclusiveExecution ==
  \A w, v \in Workers :
    /\ w # v
    /\ link[w] # NoFd /\ pc[w] \in Executing
    /\ link[v] # NoFd /\ pc[v] \in Executing
    => <<work[w].kind, work[w].task_id>> # <<work[v].kind, work[v].task_id>>

\* The invariants documented at task_t, and how the last history row agrees
\* with the state of the slot.
SlotConsistent(t) ==
  /\ t.state = "IN_PROGRESS" <=> t.owner_fd # NoFd
  /\ t.state = "IN_PROGRESS" => t.attempts_count > 0
  /\ t.current_attempt = t.attempts_count
  /\ \A n \in 1 .. MAX_ATTEMPTS :
       /\ n > t.attempts_count <=> t.history[n] = "NONE"
       /\ n < t.attempts_count => t.history[n] \in {"FAILED", "TIMEOUT"}
  /\ t.attempts_count > 0 =>
       LET last == t.history[t.attempts_count]
       IN  /\ last = "RUNNING" <=> t.state = "IN_PROGRESS"
           /\ last = "SUCCESS" <=> t.state = "COMPLETED"
  /\ t.state = "FAILED" => t.attempts_count = MAX_ATTEMPTS
  /\ t.state = "PENDING" => t.attempts_count < MAX_ATTEMPTS

SlotsConsistent == \A k \in Kinds : \A i \in Ids(k) : SlotConsistent(tasks[k][i])

\* While nothing times out, every report the master handles is about the
\* task of the worker's slot, that task is of the current phase, so that the
\* slot's id indexes the table task_done_helper picks, and the report is of
\* its current attempt.
ReportsCurrent ==
  status = "up" /\ phase \notin TerminalPhases =>
    \A fd \in Fds :
      HasRequest(fd, "TASK_DONE") =>
        /\ workers[fd].current_kind = PhaseKind
        /\ workers[fd].current_task_id \in Ids(PhaseKind)
        /\ clients[fd].req.task_id = workers[fd].current_task_id
        /\ ~ StaleReport(fd, clients[fd].req)

\* The job fails exactly when some task used up its attempts: whichever
\* path ended the last attempt also moved the phase.
JobFailedIffTaskFailed ==
  phase = "JOB_FAILED" <=>
    \E k \in Kinds : \E i \in Ids(k) : tasks[k][i].state = "FAILED"

\* Every record of the log tells the truth about the disk: the files of the
\* task it names have been published.
AofPublished ==
  \A n \in 1 .. Len(aof) :
    aof[n].kind # "TORN" => /\ aof[n].task_id \in Ids(aof[n].kind)
                           /\ Published(aof[n].kind, aof[n].task_id)

\* No task is recorded twice, so the log never holds more than M + R
\* records and aof_load may count records.
AofNoDuplicates ==
  \A m, n \in 1 .. Len(aof) :
    /\ aof[m].kind = aof[n].kind
    /\ aof[m].kind # "TORN"
    /\ aof[m].task_id = aof[n].task_id
    => m = n

\* With a healthy disk the log and the running master's tables agree, so a
\* restart at any point resumes with exactly the completed tasks.
DurableCompletions ==
  status = "up" =>
    \A k \in Kinds : \A i \in Ids(k) :
      Recorded(aof, k, i) <=> tasks[k][i].state = "COMPLETED"

-----------------------------------------------------------------------------
(***************************************************************************)
(* Refinement                                                              *)
(***************************************************************************)

\* The durable state implements the abstract job, crashes included.
J == INSTANCE Job WITH
       MapIds    <- Ids("MAP"),
       ReduceIds <- Ids("REDUCE"),
       completed <- {<<aof[n].kind, aof[n].task_id>> :
                       n \in {m \in 1 .. Len(aof) : aof[m].kind # "TORN"}}

ImplementsJob == J!JobSpec

-----------------------------------------------------------------------------
(***************************************************************************)
(* Liveness                                                                *)
(***************************************************************************)

Finished == status = "up" /\ phase \in TerminalPhases

\* The job reaches JOB_DONE or JOB_FAILED, through failed attempts, appends
\* that failed and a restart, unless the restart finds a torn record.
EventuallyFinished == <>(Finished \/ status = "refused")

\* An attempt nobody can report any more: its connection is gone.
Orphaned(k, i) ==
  /\ status = "up"
  /\ phase \notin TerminalPhases
  /\ tasks[k][i].state = "IN_PROGRESS"
  /\ ~ \E w \in Workers :
         /\ link[w] = tasks[k][i].owner_fd
         /\ workers[link[w]].current_kind = k
         /\ workers[link[w]].current_task_id = i
         /\ workers[link[w]].current_attempt_id = tasks[k][i].current_attempt

\* A task whose worker died goes back to PENDING (README: "TCP disconnect,
\* or timeout | Task -> PENDING, reassigned").
OrphansReleased ==
  \A k \in Kinds : \A i \in Ids(k) : Orphaned(k, i) ~> ~ Orphaned(k, i)
=============================================================================
