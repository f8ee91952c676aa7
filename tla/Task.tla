-------------------------------- MODULE Task --------------------------------
(***************************************************************************)
(* Task lifecycle types and the updates of one task slot (src/src/task.h    *)
(* and the slot updates of src/src/master.c).                              *)
(*                                                                         *)
(* maps[M] and reduces[R] of master_t are one table indexed by task kind:  *)
(* the code runs the same statements over both arrays.                     *)
(*                                                                         *)
(* started_at_ms is only ever compared with now_ms against                 *)
(* task_timeout_ms while the task is IN_PROGRESS, so a slot keeps the       *)
(* difference `elapsed', counted in ticks and capped one past the timeout.  *)
(***************************************************************************)
EXTENDS Integers, FiniteSets, Sequences

CONSTANTS
  M,             \* number of map tasks (input splits)
  R,             \* number of reduce tasks (n_reduce)
  MAX_ATTEMPTS,  \* retry cap of a task
  TaskTimeout,   \* task_timeout_ms, in ticks
  Fds            \* file descriptors accept() may return

ASSUME JobAssumption ==
  /\ M \in Nat \ {0}
  /\ R \in Nat \ {0}
  /\ MAX_ATTEMPTS \in Nat \ {0}
  /\ TaskTimeout \in Nat
  /\ Fds \subseteq Nat

Kinds == {"MAP", "REDUCE"}

\* job.M and job.R: the length of the table of a kind.
NumTasks(k) == IF k = "MAP" THEN M ELSE R

Ids(k) == 0 .. NumTasks(k) - 1

NoFd == -1

TaskStates == {"PENDING", "IN_PROGRESS", "COMPLETED", "FAILED"}

\* attempt_end_status_e; "NONE" is a history row not yet used.
EndStatus == {"NONE", "RUNNING", "SUCCESS", "FAILED", "TIMEOUT"}

TaskSlot == [state           : TaskStates,
             current_attempt : 0 .. MAX_ATTEMPTS,
             attempts_count  : 0 .. MAX_ATTEMPTS,
             owner_fd        : Fds \cup {NoFd},
             elapsed         : 0 .. TaskTimeout + 1,
             history         : [1 .. MAX_ATTEMPTS -> EndStatus]]

\* The tables maps[0..M) and reduces[0..R).
IsTaskTable(t) ==
  /\ t = [k \in Kinds |-> t[k]]
  /\ \A k \in Kinds : t[k] \in [Ids(k) -> TaskSlot]

-----------------------------------------------------------------------------
task_reset_pending ==
  [state           |-> "PENDING",
   current_attempt |-> 0,
   attempts_count  |-> 0,
   owner_fd        |-> NoFd,
   elapsed         |-> 0,
   history         |-> [n \in 1 .. MAX_ATTEMPTS |-> "NONE"]]

\* The slot update of choose_available_task: a new attempt owned by fd.
attempt_started(t, fd) ==
  [t EXCEPT !.state           = "IN_PROGRESS",
            !.current_attempt = @ + 1,
            !.attempts_count  = @ + 1,
            !.owner_fd        = fd,
            !.elapsed         = 0,
            !.history[t.attempts_count + 1] = "RUNNING"]

\* The slot update of task_done_helper on result == 0.
attempt_succeeded(t) ==
  [t EXCEPT !.state    = "COMPLETED",
            !.owner_fd = NoFd,
            !.elapsed  = 0,
            !.history[t.attempts_count] = "SUCCESS"]

\* Mutant: the retry cap compared with > instead of >=.
attempts_exhausted_late(t) == t.attempts_count > MAX_ATTEMPTS

\* The branch of task_attempt_ended that gives the task up.
attempts_exhausted(t) == t.attempts_count >= MAX_ATTEMPTS

\* Mutant: owner_fd is not cleared.
attempt_ended_keeps_owner(t, end_status) ==
  [t EXCEPT !.state   = IF attempts_exhausted(t) THEN "FAILED" ELSE "PENDING",
            !.elapsed = 0,
            !.history[t.attempts_count] = end_status]

\* Mutant: the terminal branch forgets to move the slot to FAILED.
attempt_ended_pending(t, end_status) ==
  [t EXCEPT !.state    = "PENDING",
            !.owner_fd = NoFd,
            !.elapsed  = 0,
            !.history[t.attempts_count] = end_status]

task_attempt_ended(t, end_status) ==
  [t EXCEPT !.state    = IF attempts_exhausted(t) THEN "FAILED" ELSE "PENDING",
            !.owner_fd = NoFd,
            !.elapsed  = 0,
            !.history[t.attempts_count] = end_status]

\* One tick of server.now_ms seen by a running attempt.
attempt_aged(t, ticks) ==
  IF t.state = "IN_PROGRESS"
  THEN [t EXCEPT !.elapsed = IF @ + ticks > TaskTimeout THEN TaskTimeout + 1
                                                        ELSE @ + ticks]
  ELSE t

\* Mutant: a cutoff the elapsed time never passes.
attempt_expired_never(t) == t.state = "IN_PROGRESS" /\ t.elapsed > TaskTimeout + 1

\* The two early `continue's of sweep_timeouts.
attempt_expired(t) == t.state = "IN_PROGRESS" /\ t.elapsed > TaskTimeout
=============================================================================
