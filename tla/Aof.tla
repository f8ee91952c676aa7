--------------------------------- MODULE Aof ---------------------------------
(***************************************************************************)
(* The append-only log of completed tasks (src/src/aof.c) at the           *)
(* granularity of records: what aof_append_completed leaves behind and      *)
(* what aof_load makes of it.                                              *)
(*                                                                         *)
(* aof_append_completed may fail after writing nothing, or after writing a  *)
(* prefix of the 17 bytes.  The master ignores its result.  A prefix        *)
(* left in the file shifts every later record, so the 17-byte reads of      *)
(* aof_read_record meet either a short read or a CRC mismatch: one "TORN"   *)
(* entry anywhere makes aof_load fail.                                     *)
(***************************************************************************)
EXTENDS Task

CONSTANT
  AppendOutcomes   \* what an append may do to the file

ASSUME AofAssumption ==
  /\ "ok" \in AppendOutcomes
  /\ AppendOutcomes \subseteq {"ok", "none", "torn"}

AofRecord == [kind : Kinds, task_id : Nat, attempt_id : Nat]

Torn == [kind |-> "TORN", task_id |-> 0, attempt_id |-> 0]

aof_append_completed(log, rec, outcome) ==
  CASE outcome = "ok"   -> Append(log, rec)
    [] outcome = "torn" -> Append(log, Torn)
    [] outcome = "none" -> log

\* The log positions that hold a record of kind k, and of task i of kind k.
KindPositions(log, k) == {n \in 1 .. Len(log) : log[n].kind = k}

Recorded(log, k, i) ==
  \E n \in 1 .. Len(log) : log[n].kind = k /\ log[n].task_id = i

-----------------------------------------------------------------------------
(***************************************************************************)
(* aof_load                                                                *)
(***************************************************************************)

\* The replay loop meets EOF before any torn or out-of-range record.
aof_loads(log) ==
  \A n \in 1 .. Len(log) : /\ log[n].kind # "TORN"
                           /\ log[n].task_id \in Ids(log[n].kind)

\* Mutant: the last record is taken for the end of the file.
aof_load_tasks_short(log) ==
  [k \in Kinds |->
    [i \in Ids(k) |->
      IF \E n \in 1 .. Len(log) - 1 : log[n].kind = k /\ log[n].task_id = i
      THEN [task_reset_pending EXCEPT !.state = "COMPLETED"]
      ELSE task_reset_pending]]

aof_load_tasks(log) ==
  [k \in Kinds |->
    [i \in Ids(k) |->
      IF Recorded(log, k, i)
      THEN [task_reset_pending EXCEPT !.state = "COMPLETED"]
      ELSE task_reset_pending]]

\* Mutant: the counters are left at zero by a replay.
aof_load_done_zero(log) == [k \in Kinds |-> 0]

\* maps_count and reduce_count count records, not tasks.
aof_load_done(log) == [k \in Kinds |-> Cardinality(KindPositions(log, k))]
=============================================================================
