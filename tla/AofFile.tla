------------------------------- MODULE AofFile -------------------------------
(***************************************************************************)
(* The log file of src/src/aof.c below the granularity of records: the     *)
(* write(2) and fdatasync(2) calls of the master, the prefix of the file   *)
(* that is on stable storage, and deaths of the process or of the machine  *)
(* between any two of them.                                                *)
(*                                                                         *)
(* A section (the file header, the job header, one record) is two units    *)
(* long; a short write or a power failure may separate them.  The first    *)
(* unit of the job header stands for its static part, M and R.  A CRC64    *)
(* tells a section from any other pair of units.                           *)
(*                                                                         *)
(* A file of size zero and a file that does not exist are the same thing   *)
(* to the code.  Masters are processes started on the same directory.      *)
(***************************************************************************)
EXTENDS Aof, SequenceOps

CONSTANT
  Masters       \* master processes

VARIABLES
  file,    \* the units of the file, as any process reads them
  synced,  \* length of the prefix that survives a power failure
  pc,      \* where a master is
  sec,     \* the section a master is writing
  left,    \* how many of its units are still to be written
  tab,     \* the tasks that are COMPLETED in a master's tables
  begun,   \* every task some master moved to COMPLETED on a report
  acked,   \* every task whose report was answered with TASK_DONE_ACK
  failed   \* whether a write(2) or a fdatasync(2) has failed so far

procVars == <<pc, sec, left, tab>>

vars == <<file, synced, procVars, begun, acked, failed>>

Tasks == UNION {{<<k, i>> : i \in Ids(k)} : k \in Kinds}

Header == [kind |-> "HEADER", task_id |-> 0, attempt_id |-> 0]

JobHeader == [kind |-> "JOB", task_id |-> 0, attempt_id |-> 0]

Record(t) == [kind |-> t[1], task_id |-> t[2], attempt_id |-> 1]

TaskOf(s) == <<s.kind, s.task_id>>

Records == {Record(t) : t \in Tasks}

Sections == {Header, JobHeader} \cup Records

Units(s) == <<[of |-> s, part |-> 1], [of |-> s, part |-> 2]>>

\* Serving: the process holds the listening port.
Serving == {"up", "record", "recflush"}

Stopped == {"off", "refused", "aborted"}

Init ==
  /\ file = << >>
  /\ synced = 0
  /\ pc = [m \in Masters |-> "off"]
  /\ sec = [m \in Masters |-> Header]
  /\ left = [m \in Masters |-> 0]
  /\ tab = [m \in Masters |-> {}]
  /\ begun = {}
  /\ acked = {}
  /\ failed = FALSE

-----------------------------------------------------------------------------
(***************************************************************************)
(* aof_load: the n-th read_exact takes the n-th pair of units, or what is  *)
(* left of the file.                                                       *)
(***************************************************************************)

Chunk(f, n) ==
  SubSeq(f, 2 * n - 1, IF 2 * n < Len(f) THEN 2 * n ELSE Len(f))

RecordChunks(f) == 3 .. (Len(f) + 1) \div 2

\* Mutant: a torn record is taken for the end of the file.
aof_read_record_lenient(f, n) ==
  Len(Chunk(f, n)) = 2 => \E t \in Tasks : Chunk(f, n) = Units(Record(t))

\* Mutant: reduce ids are compared with M - 1.
aof_read_record_maps(f, n) ==
  \E t \in Tasks : t[2] < M - 1 /\ Chunk(f, n) = Units(Record(t))

\* A whole record with a matching CRC and a task id the job has.
aof_read_record(f, n) == \E t \in Tasks : Chunk(f, n) = Units(Record(t))

\* Mutant: the last record is taken for the end of the file.
ReplayedShort(f) ==
  {t \in Tasks : \E n \in RecordChunks(f) :
     2 * n < Len(f) /\ Chunk(f, n) = Units(Record(t))}

Replayed(f) ==
  {t \in Tasks : \E n \in RecordChunks(f) : Chunk(f, n) = Units(Record(t))}

\* What a call may do with a non-empty file.  Two early exits jump to a
\* cleanup that frees a pointer that was never initialised: aof_load when
\* the file header is bad, aof_read_job when M and R are cut short.  A job
\* header with other bytes in it is read into a buffer sized from them.
aof_load(f) ==
  IF Len(f) < 2 THEN {"refused"}
  ELSE IF Chunk(f, 1) # Units(Header) THEN {"refused", "aborted"}
  ELSE IF Len(f) = 2 THEN {"refused", "aborted"}
  ELSE IF Chunk(f, 2) = <<Units(JobHeader)[1]>> THEN {"refused"}
  ELSE IF Chunk(f, 2) # Units(JobHeader) THEN {"refused", "aborted"}
  ELSE IF \A n \in RecordChunks(f) : aof_read_record(f, n) THEN {"ok"}
  ELSE {"refused"}

-----------------------------------------------------------------------------
(***************************************************************************)
(* Starting                                                                *)
(***************************************************************************)

Goto(m, l) == pc' = [pc EXCEPT ![m] = l]

\* Begin writing section s.
Emit(m, l, s) ==
  /\ Goto(m, l)
  /\ sec' = [sec EXCEPT ![m] = s]
  /\ left' = [left EXCEPT ![m] = 2]

\* No log yet: master_init_job builds the tables.
bootstrap_new(m) ==
  /\ pc[m] \in Stopped
  /\ file = << >>
  /\ Goto(m, "open")
  /\ tab' = [tab EXCEPT ![m] = {}]
  /\ UNCHANGED <<file, synced, sec, left, begun, acked, failed>>

bootstrap_load(m, outcome) ==
  /\ pc[m] \in Stopped
  /\ file # << >>
  /\ outcome \in aof_load(file)
  /\ Goto(m, IF outcome = "ok" THEN "open" ELSE outcome)
  /\ tab' = [tab EXCEPT ![m] = IF outcome = "ok" THEN Replayed(file) ELSE {}]
  /\ UNCHANGED <<file, synced, sec, left, begun, acked, failed>>

\* aof_init: open, then fstat.
aof_init_new(m) ==
  /\ pc[m] = "open"
  /\ file = << >>
  /\ Emit(m, "header", Header)
  /\ UNCHANGED <<file, synced, tab, begun, acked, failed>>

aof_init_existing(m) ==
  /\ pc[m] = "open"
  /\ file # << >>
  /\ Goto(m, "bind")
  /\ UNCHANGED <<file, synced, sec, left, tab, begun, acked, failed>>

\* server_init: one process at a time can bind the port.
server_init(m) ==
  /\ pc[m] = "bind"
  /\ Goto(m, IF \E o \in Masters : pc[o] \in Serving THEN "off" ELSE "up")
  /\ UNCHANGED <<file, synced, sec, left, tab, begun, acked, failed>>

-----------------------------------------------------------------------------
(***************************************************************************)
(* write_all and durable_flush                                             *)
(***************************************************************************)

\* One write(2) of n units; on the last one the caller goes on.
write_all(m, n) ==
  /\ left[m] > 0
  /\ n \in 1 .. left[m]
  /\ file' = file \o SubSeq(Units(sec[m]), 3 - left[m], 2 - left[m] + n)
  /\ CASE n < left[m]        -> /\ left' = [left EXCEPT ![m] = @ - n]
                                /\ UNCHANGED <<pc, sec>>
       [] n = left[m] /\ pc[m] = "header" -> Emit(m, "job", JobHeader)
       [] n = left[m] /\ pc[m] # "header" ->
            /\ Goto(m, IF pc[m] = "job" THEN "initflush" ELSE "recflush")
            /\ left' = [left EXCEPT ![m] = 0]
            /\ UNCHANGED sec
  /\ UNCHANGED <<synced, tab, begun, acked, failed>>

\* Mutant: what was written last is cut off the file.
AbandonTruncates(m) ==
  /\ Goto(m, IF pc[m] \in Serving THEN "up" ELSE "off")
  /\ file' = SubSeq(file, 1, Len(file) - 2)
  /\ left' = [left EXCEPT ![m] = 0]
  /\ acked' = IF pc[m] \in Serving THEN acked \cup {TaskOf(sec[m])} ELSE acked
  /\ failed' = TRUE
  /\ UNCHANGED <<synced, sec, tab, begun>>

\* aof_init gives up and the process exits; aof_append_completed returns -1,
\* which the handler ignores: it sends the ACK all the same.
Abandon(m) ==
  /\ Goto(m, IF pc[m] \in Serving THEN "up" ELSE "off")
  /\ left' = [left EXCEPT ![m] = 0]
  /\ acked' = IF pc[m] \in Serving THEN acked \cup {TaskOf(sec[m])} ELSE acked
  /\ failed' = TRUE
  /\ UNCHANGED <<file, synced, sec, tab, begun>>

write_fails(m) ==
  /\ left[m] > 0
  /\ Abandon(m)

durable_flush_init(m) ==
  /\ pc[m] = "initflush"
  /\ synced' = Len(file)
  /\ Goto(m, "bind")
  /\ UNCHANGED <<file, sec, left, tab, begun, acked, failed>>

\* The end of aof_append_completed, then TASK_DONE_ACK.
durable_flush_record(m) ==
  /\ pc[m] = "recflush"
  /\ synced' = Len(file)
  /\ Goto(m, "up")
  /\ acked' = acked \cup {TaskOf(sec[m])}
  /\ UNCHANGED <<file, sec, left, tab, begun, failed>>

flush_fails(m) ==
  /\ pc[m] \in {"initflush", "recflush"}
  /\ Abandon(m)

-----------------------------------------------------------------------------
(***************************************************************************)
(* Serving, and dying                                                      *)
(***************************************************************************)

\* Mutant: the ACK leaves before the record is on disk.
task_done_acks_first(m, t) ==
  /\ pc[m] = "up"
  /\ t \notin tab[m]
  /\ t[1] = "REDUCE" => \A i \in Ids("MAP") : <<"MAP", i>> \in tab[m]
  /\ tab' = [tab EXCEPT ![m] = @ \cup {t}]
  /\ begun' = begun \cup {t}
  /\ acked' = acked \cup {t}
  /\ Emit(m, "record", Record(t))
  /\ UNCHANGED <<file, synced, failed>>

\* Mutant: a completed task may be completed again.
task_done_again(m, t) ==
  /\ pc[m] = "up"
  /\ t[1] = "REDUCE" => \A i \in Ids("MAP") : <<"MAP", i>> \in tab[m]
  /\ tab' = [tab EXCEPT ![m] = @ \cup {t}]
  /\ begun' = begun \cup {t}
  /\ Emit(m, "record", Record(t))
  /\ UNCHANGED <<file, synced, acked, failed>>

\* A report of success for task t up to the call of aof_append_completed.
task_done(m, t) ==
  /\ pc[m] = "up"
  /\ t \notin tab[m]
  /\ t[1] = "REDUCE" => \A i \in Ids("MAP") : <<"MAP", i>> \in tab[m]
  /\ tab' = [tab EXCEPT ![m] = @ \cup {t}]
  /\ begun' = begun \cup {t}
  /\ Emit(m, "record", Record(t))
  /\ UNCHANGED <<file, synced, acked, failed>>

\* SIGKILL, a crash or a clean exit: the page cache outlives the process.
Killed(m) ==
  /\ pc[m] \notin Stopped
  /\ Goto(m, "off")
  /\ left' = [left EXCEPT ![m] = 0]
  /\ tab' = [tab EXCEPT ![m] = {}]
  /\ UNCHANGED <<file, synced, sec, begun, acked, failed>>

\* Any part of the file written since the last flush may be lost.
PowerFailure ==
  /\ \E n \in synced .. Len(file) : /\ file' = SubSeq(file, 1, n)
                                    /\ synced' = n
  /\ pc' = [m \in Masters |-> "off"]
  /\ left' = [m \in Masters |-> 0]
  /\ tab' = [m \in Masters |-> {}]
  /\ UNCHANGED <<sec, begun, acked, failed>>

MasterStep(m) ==
  \/ bootstrap_new(m)
  \/ \E outcome \in {"ok", "refused", "aborted"} : bootstrap_load(m, outcome)
  \/ aof_init_new(m)
  \/ aof_init_existing(m)
  \/ server_init(m)
  \/ \E n \in {1, 2} : write_all(m, n)
  \/ write_fails(m)
  \/ durable_flush_init(m)
  \/ durable_flush_record(m)
  \/ flush_fails(m)
  \/ \E t \in Tasks : task_done(m, t)

Next == PowerFailure \/ \E m \in Masters : MasterStep(m) \/ Killed(m)

Spec == Init /\ [][Next]_vars

-----------------------------------------------------------------------------
(***************************************************************************)
(* Properties                                                              *)
(***************************************************************************)

\* The records of f that are whole, wherever they lie.
Complete(f) ==
  {t \in Tasks : \E n \in 1 .. Len(f) - 1 : SubSeq(f, n, n + 1) = Units(Record(t))}

\* A completion that was acknowledged is a whole record of the prefix no
\* power failure takes back: aof_append_completed flushes before the handler
\* sends TASK_DONE_ACK.  (After a failure, which the handler ignores, nothing
\* of the kind holds.)
AckedSurvives == ~ failed => acked \subseteq Complete(SubSeq(file, 1, synced))

\* A master that replayed the log invents no completion, and unless a write or
\* a flush failed it knows every acknowledged one, however often masters died
\* in the middle of a write.
ReplayExact ==
  \A m \in Masters : pc[m] \notin Stopped =>
    /\ tab[m] \subseteq begun
    /\ ~ failed => acked \subseteq tab[m]

Follows(u, v) ==
  \/ u.part = 1 /\ v = [u EXCEPT !.part = 2]
  \/ u = Units(Header)[2] /\ v = Units(JobHeader)[1]
  \/ u.part = 2 /\ u.of # Header /\ v.part = 1 /\ v.of \in Records

\* As long as no write or flush has failed, the file is a prefix of the layout
\* of aof.h: one file header, one job header, then records, of which no task
\* has two and the reduces come after every map.  In particular nothing is
\* written after a section that a death or a power failure cut short.
LogInOrder ==
  ~ failed =>
  /\ file # << >> => file[1] = Units(Header)[1]
  /\ \A n \in 1 .. Len(file) - 1 : Follows(file[n], file[n + 1])
  /\ \A a, b \in 1 .. Len(file) : file[a] = file[b] => a = b
  /\ (\E n \in 1 .. Len(file) : file[n].of.kind = "REDUCE")
       => \A i \in Ids("MAP") : <<"MAP", i>> \in Complete(file)

\* As long as no write or flush has failed, a master refuses a log only when a
\* section was cut short, or when the job header is missing: whatever whole
\* records are there are replayed.
RefusalsAreTorn ==
  ~ failed => \A m \in Masters :
    pc[m] \in {"refused", "aborted"} => Len(file) % 2 = 1 \/ Len(file) = 2

-----------------------------------------------------------------------------
(***************************************************************************)
(* The file implements the log of records of module Aof.                   *)
(***************************************************************************)

\* A record being written is not part of the log yet.
InProgress == \E m \in Masters : pc[m] = "record" /\ left[m] = 1

Settled == IF InProgress THEN SubSeq(file, 1, Len(file) - 1) ELSE file

\* What begins at the n-th unit of f: a record, a torn one, or nothing.
Entry(f, n) ==
  IF f[n].part = 1 /\ f[n].of \in Records
  THEN <<IF n < Len(f) /\ f[n + 1] = Units(f[n].of)[2] THEN f[n].of ELSE Torn>>
  ELSE << >>

LogOf(f) == Flatten([n \in 1 .. Len(f) |-> Entry(f, n)])

Log == LogOf(Settled)

\* Every change of the file, a failing write and a death in the middle of a
\* record included, is an aof_append_completed of module Aof with one of its
\* outcomes; only a power failure takes records back.
AppendsAsModelled ==
  [][\/ Log' = Log
     \/ \E rec \in Records, outcome \in AppendOutcomes :
          Log' = aof_append_completed(Log, rec, outcome)
     \/ PowerFailure]_vars

\* aof_load accepts the file exactly when aof_loads accepts the log, and
\* fills the same tables, once the two headers are whole.
LoadsAsModelled ==
  (\A m \in Masters : pc[m] \in Stopped) /\ Len(file) >= 4 =>
     /\ aof_load(file) = {"ok"} <=> aof_loads(Log)
     /\ aof_loads(Log) =>
          Replayed(file) = {t \in Tasks : aof_load_tasks(Log)[t[1]][t[2]].state = "COMPLETED"}
=============================================================================
