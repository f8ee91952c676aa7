------------------------------- MODULE Master -------------------------------
(***************************************************************************)
(* The coordinator (src/src/master.c): the job, the two task tables, the   *)
(* per-connection worker slots and the log it appends to.                  *)
(*                                                                         *)
(* Every operator below is one path of a handler and constrains all of the *)
(* master's variables.  `sent' is the outcome of the server_send call that *)
(* ends the handler: when it is FALSE the server has already run           *)
(* master_on_disconnect for fd, so the slot ends up zeroed.                *)
(***************************************************************************)
EXTENDS Aof

CONSTANTS
  SweepEvery,        \* master_periodic sweeps on every SweepEvery-th call (10)
  BeforeSleepCalled  \* whether el_run invokes before_sleep_proc

ASSUME MasterAssumption ==
  /\ SweepEvery \in Nat \ {0}
  /\ BeforeSleepCalled \in BOOLEAN

VARIABLES
  status,     \* of the master process: "down", "up", or "refused" to start
  phase,      \* job.phase
  tasks,      \* tasks["MAP"] is maps[], tasks["REDUCE"] is reduces[]
  done,       \* done["MAP"] is job.maps_done, done["REDUCE"] job.reduces_done
  workers,    \* workers[fd], the worker_t slot of a connection
  aof,        \* the records of the log file
  cronloops   \* server.cronloops, modulo SweepEvery

masterVars == <<status, phase, tasks, done, workers, aof, cronloops>>

Phases == {"JOB_MAP", "JOB_REDUCE", "JOB_DONE", "JOB_FAILED"}

TerminalPhases == {"JOB_DONE", "JOB_FAILED"}

\* The kind whose table the handlers use in the current phase.
PhaseKind == IF phase = "JOB_MAP" THEN "MAP" ELSE "REDUCE"

WorkerSlot == [has_task           : BOOLEAN,
               current_kind       : Kinds \cup {"NONE"},
               current_task_id    : Nat,
               current_attempt_id : Nat]

\* (worker_t){0}
ZeroWorker == [has_task |-> FALSE, current_kind |-> "NONE",
               current_task_id |-> 0, current_attempt_id |-> 0]

FreshTasks == [k \in Kinds |-> [i \in Ids(k) |-> task_reset_pending]]

MasterTypeOK ==
  /\ status \in {"down", "up", "refused"}
  /\ phase \in Phases
  /\ IsTaskTable(tasks)
  /\ done \in [Kinds -> Nat]
  /\ workers \in [Fds -> WorkerSlot]
  /\ aof \in Seq(AofRecord \cup {Torn})
  /\ cronloops \in 0 .. SweepEvery - 1

MasterInit ==
  /\ status = "down"
  /\ phase = "JOB_MAP"
  /\ tasks = FreshTasks
  /\ done = [k \in Kinds |-> 0]
  /\ workers = [fd \in Fds |-> ZeroWorker]
  /\ aof = << >>
  /\ cronloops = 0

-----------------------------------------------------------------------------
(***************************************************************************)
(* Process start and end                                                   *)
(***************************************************************************)

\* Mutant: the reduce phase starts one map too early.
advance_phase_early(ph, dn) ==
  LET afterMap == IF ph = "JOB_MAP" /\ dn["MAP"] >= M - 1 THEN "JOB_REDUCE" ELSE ph
  IN  IF afterMap = "JOB_REDUCE" /\ dn["REDUCE"] = R THEN "JOB_DONE"
                                                     ELSE afterMap

\* Mutant: the last reduce does not end the job.
advance_phase_stuck(ph, dn) ==
  IF ph = "JOB_MAP" /\ dn["MAP"] = M THEN "JOB_REDUCE" ELSE ph

maybe_advance_phase(ph, dn) ==
  LET afterMap == IF ph = "JOB_MAP" /\ dn["MAP"] = M THEN "JOB_REDUCE" ELSE ph
  IN  IF afterMap = "JOB_REDUCE" /\ dn["REDUCE"] = R THEN "JOB_DONE"
                                                     ELSE afterMap

\* master_bootstrap_job when the log replays, or is still to be created:
\* replaying no record builds the same tables as master_init_job.
master_bootstrap_job ==
  /\ status = "down"
  /\ aof_loads(aof)
  /\ status' = "up"
  /\ tasks' = aof_load_tasks(aof)
  /\ done' = aof_load_done(aof)
  /\ phase' = maybe_advance_phase("JOB_MAP", aof_load_done(aof))
  /\ UNCHANGED <<workers, aof, cronloops>>

\* aof_load fails, so master_main returns EXIT_FAILURE.
master_bootstrap_refused ==
  /\ status = "down"
  /\ ~ aof_loads(aof)
  /\ status' = "refused"
  /\ UNCHANGED <<phase, tasks, done, workers, aof, cronloops>>

\* The process ends, whatever the reason: everything but the log is lost.
MasterGone(log) ==
  /\ status' = "down"
  /\ phase' = "JOB_MAP"
  /\ tasks' = FreshTasks
  /\ done' = [k \in Kinds |-> 0]
  /\ workers' = [fd \in Fds |-> ZeroWorker]
  /\ aof' = log
  /\ cronloops' = 0

-----------------------------------------------------------------------------
(***************************************************************************)
(* Connections                                                             *)
(***************************************************************************)

\* master_on_connect and master_on_disconnect both leave a blank slot.
ClearWorker(fds) ==
  /\ workers' = [fd \in Fds |-> IF fd \in fds THEN ZeroWorker ELSE workers[fd]]
  /\ UNCHANGED <<status, phase, tasks, done, aof, cronloops>>

-----------------------------------------------------------------------------
(***************************************************************************)
(* GetTask                                                                 *)
(***************************************************************************)

\* Mutant: a task already handed out counts as available.
Unfinished(k) == {i \in Ids(k) : tasks[k][i].state \in {"PENDING", "IN_PROGRESS"}}

Pending(k) == {i \in Ids(k) : tasks[k][i].state = "PENDING"}

\* choose_available_task scans from index 0 and takes the first PENDING one.
FirstPending(k, i) == i \in Pending(k) /\ \A j \in Pending(k) : i <= j

choose_available_task(fd, k, i, sent) ==
  /\ phase \notin TerminalPhases
  /\ k = PhaseKind
  /\ FirstPending(k, i)
  /\ tasks' = [tasks EXCEPT ![k][i] = attempt_started(tasks[k][i], fd)]
  /\ workers' = [workers EXCEPT ![fd] =
                   IF sent
                   THEN [has_task           |-> TRUE,
                         current_kind       |-> k,
                         current_task_id    |-> i,
                         current_attempt_id |-> tasks[k][i].current_attempt + 1]
                   ELSE ZeroWorker]
  /\ UNCHANGED <<status, phase, done, aof, cronloops>>

\* The guard of wait_for_available_tasks, and the assert inside it.
NoneAvailable == phase \notin TerminalPhases /\ Pending(PhaseKind) = {}

assert_guard == done[PhaseKind] < NumTasks(PhaseKind)

wait_for_available_tasks(fd, sent) ==
  /\ NoneAvailable
  /\ assert_guard
  /\ workers' = IF sent THEN workers ELSE [workers EXCEPT ![fd] = ZeroWorker]
  /\ UNCHANGED <<status, phase, tasks, done, aof, cronloops>>

\* GetTask in JOB_DONE or JOB_FAILED is answered with DONE_RESP.
get_task_done(fd, sent) ==
  /\ phase \in TerminalPhases
  /\ workers' = IF sent THEN workers ELSE [workers EXCEPT ![fd] = ZeroWorker]
  /\ UNCHANGED <<status, phase, tasks, done, aof, cronloops>>

\* The assert of wait_for_available_tasks fails and abort() ends the process.
get_task_aborts ==
  /\ NoneAvailable
  /\ ~ assert_guard
  /\ MasterGone(aof)

-----------------------------------------------------------------------------
(***************************************************************************)
(* TaskDone: m is the decoded request.  The task is looked up by the       *)
(* current phase and the slot's current_task_id; m.task_id only reaches    *)
(* the log.                                                                *)
(***************************************************************************)

\* Slots past the end of a table are zeroed memory, whose current_attempt 0
\* no request carries.
StaleReport(fd, m) ==
  LET i == workers[fd].current_task_id
  IN  i \in Ids(PhaseKind) => m.attempt_id # tasks[PhaseKind][i].current_attempt

UpdateReported(fd, t) ==
  tasks' = [tasks EXCEPT ![PhaseKind][workers[fd].current_task_id] = t]

Reported(fd) == tasks[PhaseKind][workers[fd].current_task_id]

\* Acknowledged and dropped; the slot keeps has_task.
task_done_stale(fd, m, sent) ==
  /\ phase \notin TerminalPhases
  /\ StaleReport(fd, m)
  /\ workers' = IF sent THEN workers ELSE [workers EXCEPT ![fd] = ZeroWorker]
  /\ UNCHANGED <<status, phase, tasks, done, aof, cronloops>>

\* Once the ACK is queued the slot gives up has_task and nothing else.
AfterAck(fd, sent) ==
  workers' = [workers EXCEPT ![fd] =
                IF sent THEN [@ EXCEPT !.has_task = FALSE] ELSE ZeroWorker]

\* Mutant: the kind is taken from the phase instead of the worker's slot.
CompletionRecordOfPhase(fd, m) ==
  [kind |-> PhaseKind, task_id |-> m.task_id, attempt_id |-> m.attempt_id]

CompletionRecord(fd, m) ==
  [kind       |-> workers[fd].current_kind,
   task_id    |-> m.task_id,
   attempt_id |-> m.attempt_id]

Incremented(k) == [done EXCEPT ![k] = @ + 1]

\* Mutant: the result of the report is not looked at.
task_done_any_result(fd, m, outcome, sent) ==
  /\ phase \notin TerminalPhases
  /\ ~ StaleReport(fd, m)
  /\ UpdateReported(fd, attempt_succeeded(Reported(fd)))
  /\ done' = Incremented(PhaseKind)
  /\ aof' = aof_append_completed(aof, CompletionRecord(fd, m), outcome)
  /\ phase' = maybe_advance_phase(phase, Incremented(PhaseKind))
  /\ AfterAck(fd, sent)
  /\ UNCHANGED <<status, cronloops>>

task_done_success(fd, m, outcome, sent) ==
  /\ phase \notin TerminalPhases
  /\ ~ StaleReport(fd, m)
  /\ m.result = 0
  /\ UpdateReported(fd, attempt_succeeded(Reported(fd)))
  /\ done' = Incremented(PhaseKind)
  /\ aof' = aof_append_completed(aof, CompletionRecord(fd, m), outcome)
  /\ phase' = maybe_advance_phase(phase, Incremented(PhaseKind))
  /\ AfterAck(fd, sent)
  /\ UNCHANGED <<status, cronloops>>

\* The process dies inside task_done_success, after the append.
task_done_crash(fd, m, outcome) ==
  /\ phase \notin TerminalPhases
  /\ ~ StaleReport(fd, m)
  /\ m.result = 0
  /\ MasterGone(aof_append_completed(aof, CompletionRecord(fd, m), outcome))

task_done_failure(fd, m, sent) ==
  /\ phase \notin TerminalPhases
  /\ ~ StaleReport(fd, m)
  /\ m.result # 0
  /\ UpdateReported(fd, task_attempt_ended(Reported(fd), "FAILED"))
  /\ phase' = IF attempts_exhausted(Reported(fd)) THEN "JOB_FAILED" ELSE phase
  /\ AfterAck(fd, sent)
  /\ UNCHANGED <<status, done, aof, cronloops>>

\* TaskDone in JOB_DONE or JOB_FAILED returns -1: the server drops the client.
task_done_rejected(fd) ==
  /\ phase \in TerminalPhases
  /\ ClearWorker({fd})

-----------------------------------------------------------------------------
(***************************************************************************)
(* server_before_sleep: the clock, client timeouts, then master_periodic   *)
(***************************************************************************)

Aged(ticks) ==
  [k \in Kinds |-> [i \in Ids(k) |-> attempt_aged(tasks[k][i], ticks)]]

\* sweep_timeouts stops after the first task it has to give up.
Expired(table, k) == {i \in Ids(k) : attempt_expired(table[k][i])}

Fatal(table, k) == {i \in Expired(table, k) : attempts_exhausted(table[k][i])}

Swept(table, k) == {i \in Expired(table, k) : \A j \in Fatal(table, k) : i <= j}

sweep_timeouts(table, k) ==
  [table EXCEPT ![k] =
    [i \in Ids(k) |-> IF i \in Swept(table, k)
                      THEN task_attempt_ended(table[k][i], "TIMEOUT")
                      ELSE table[k][i]]]

\* dropped: the clients check_client_timeouts removes on this call.
server_before_sleep(ticks, dropped) ==
  LET loops    == (cronloops + 1) % SweepEvery
      sweeping == loops = 0 /\ phase \notin TerminalPhases
  IN  /\ BeforeSleepCalled
      /\ cronloops' = loops
      /\ tasks' = IF sweeping THEN sweep_timeouts(Aged(ticks), PhaseKind)
                              ELSE Aged(ticks)
      /\ phase' = IF sweeping /\ Fatal(Aged(ticks), PhaseKind) # {}
                  THEN "JOB_FAILED" ELSE phase
      /\ workers' = [fd \in Fds |-> IF fd \in dropped THEN ZeroWorker
                                                      ELSE workers[fd]]
      /\ UNCHANGED <<status, done, aof>>
=============================================================================
