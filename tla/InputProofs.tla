----------------------------- MODULE InputProofs -----------------------------
(***************************************************************************)
(* What the processes make of what they read.  A master serves what its    *)
(* configuration file and its input directory, or its log, say; the wire   *)
(* format is a bijection between messages and their encodings; worker and  *)
(* master understand each other however the stream cuts the frames.  For   *)
(* every size of table, path and buffer, and every base of a byte.         *)
(***************************************************************************)
EXTENDS Conversation, MCStartup, SequenceTheorems, TLAPS

\* A sequence of one element.
LEMMA OneElement ==
  ASSUME NEW x
  PROVE  Len(<<x>>) = 1 /\ <<x>>[1] = x
BY SMT

\* What follows a header of four elements is a sequence of the same elements.
LEMMA AfterHeader ==
  ASSUME NEW S, NEW s \in Seq(S), NEW n \in Nat, Len(s) >= 4 + n
  PROVE  SubSeq(s, 4 + 1, 4 + n) \in Seq(S)
BY SMT

\* Concatenation of bytes is associative.
LEMMA Regrouped ==
  ASSUME NEW s \in Seq(Byte), NEW t \in Seq(Byte), NEW u \in Seq(Byte)
  PROVE  (s \o t) \o u = s \o (t \o u)
BY ConcatAssociative

\* What a successful call returns.
LEMMA Returned ==
  ASSUME NEW x
  PROVE  Done(x)[1] = x
BY SMT DEF Done

-----------------------------------------------------------------------------
(***************************************************************************)
(* A master's start                                                        *)
(***************************************************************************)

\* The range of task-timeout-ms.
Timeouts == 100 .. MaxTimeout

\* The range of hz.
Frequencies == 1 .. 500

Splits == Seq(1 .. MaxEntries)

\* A job header as master_init_job lets it through.
SoundHeader(h) ==
  /\ h \in [splits : Splits, R : 1 .. MAX_REDUCE_TASKS]
  /\ Len(h.splits) \in 1 .. MAX_MAP_TASKS

HeaderOf(j) == [splits |-> j.splits, R |-> j.R]

\* Every setting is in range at every moment, errors or not.
ConfigInv ==
  /\ conf \in Seq(ConfPiece)
  /\ lineno \in Nat
  /\ nums \in [IntKeys -> Int]
  /\ \A k \in IntKeys : nums[k] \in config_table[k]
  /\ texts \in [StrKeys -> Texts]

\* The splits found so far fit the table.
ScanInv ==
  /\ job \in [splits : Splits, R : Int, timeout : Int]
  /\ Len(job.splits) \in 0 .. MAX_MAP_TASKS

LogsInv ==
  /\ logs \in [Texts -> [splits : Splits, R : Nat] \cup {NoJob}]
  /\ \A p \in Texts : logs[p] # NoJob => SoundHeader(logs[p])

\* Once there is a job it is sound, and it is the log's if there is a log.
JobInv ==
  /\ stage = "scan" => logs[aof_path] = NoJob
  /\ stage \in {"open", "bind", "serving"} =>
       /\ SoundHeader(HeaderOf(job))
       /\ job.timeout \in Timeouts
       /\ logs[aof_path] # NoJob => logs[aof_path] = HeaderOf(job)
       /\ stage # "open" => logs[aof_path] # NoJob

StartupInv == ConfigInv /\ ScanInv /\ LogsInv /\ JobInv

-----------------------------------------------------------------------------
\* The settings master_config_init gives are in the ranges of the table.
LEMMA DefaultsFit ==
  /\ DefaultNums \in [IntKeys -> Int]
  /\ \A k \in IntKeys : DefaultNums[k] \in config_table[k]
  /\ DefaultTexts \in [StrKeys -> Texts]
<1>1. MAX_REDUCE_TASKS \in Nat /\ 4 <= MAX_REDUCE_TASKS
  BY StartupAssumption, SMT
<1>2. ASSUME NEW k \in IntKeys
      PROVE  DefaultNums[k] \in Int /\ DefaultNums[k] \in config_table[k]
  <2>1. CASE k = "port"
    BY <2>1, SMT DEF DefaultNums, config_table, IntKeys
  <2>2. CASE k = "tcp-backlog"
    BY <2>2, SMT DEF DefaultNums, config_table, IntKeys
  <2>3. CASE k = "hz"
    BY <2>3, SMT DEF DefaultNums, config_table, IntKeys
  <2>4. CASE k = "client-timeout"
    BY <2>4, SMT DEF DefaultNums, config_table, IntKeys
  <2>5. CASE k = "n-reduce"
    BY <1>1, <2>5, SMT DEF DefaultNums, config_table, IntKeys
  <2>6. CASE k = "task-timeout-ms"
    BY <2>6, StartupAssumption, SMT DEF DefaultNums, config_table, IntKeys
  <2> QED
    BY <2>1, <2>2, <2>3, <2>4, <2>5, <2>6, Zenon DEF IntKeys
<1>3. DefaultNums = [k \in IntKeys |-> DefaultNums[k]]
  BY SMT DEF DefaultNums
<1>4. DefaultNums \in [IntKeys -> Int]
  BY <1>2, <1>3
<1>5. DefaultTexts \in [StrKeys -> Texts]
  BY StartupAssumption, SMT DEF DefaultTexts, StrKeys
<1> QED
  BY <1>2, <1>4, <1>5

\* The rows of the table that a job depends on.
LEMMA ReduceRow == config_table["n-reduce"] = 1 .. MAX_REDUCE_TASKS
  BY SMT DEF config_table, IntKeys

\* See ReduceRow.
LEMMA TimeoutRow == config_table["task-timeout-ms"] = Timeouts
  BY SMT DEF config_table, IntKeys, Timeouts

\* See ReduceRow.
LEMMA FrequencyRow == config_table["hz"] = Frequencies
  BY SMT DEF config_table, IntKeys, Frequencies

\* Settings that are in range, row by row.
LEMMA Ranges ==
  ASSUME NEW f, \A k \in IntKeys : f[k] \in config_table[k]
  PROVE  /\ f["n-reduce"] \in 1 .. MAX_REDUCE_TASKS
         /\ f["task-timeout-ms"] \in Timeouts
         /\ f["hz"] \in Frequencies
<1>1. /\ "n-reduce" \in IntKeys
      /\ "task-timeout-ms" \in IntKeys
      /\ "hz" \in IntKeys
  BY DEF IntKeys
<1> QED
  BY <1>1, ReduceRow, TimeoutRow, FrequencyRow, Zenon

\* Nothing is in memory and in the logs at first.
LEMMA InitInv == StartupInit => StartupInv
<1> SUFFICES ASSUME StartupInit PROVE StartupInv
  OBVIOUS
<1>1. ConfigInv
  BY DefaultsFit DEF StartupInit, ConfigInv
<1>2. ScanInv
  BY StartupAssumption DEF StartupInit, ScanInv, NoSplits, Splits
<1>3. LogsInv
  BY DEF StartupInit, LogsInv
<1>4. JobInv
  BY DEF StartupInit, JobInv
<1> QED
  BY <1>1, <1>2, <1>3, <1>4 DEF StartupInv

\* A new process starts from the defaults.
LEMMA MainInv ==
  ASSUME StartupInv, NEW c \in Confs, master_main(c)
  PROVE  StartupInv'
<1>1. ConfigInv'
  BY DefaultsFit, StartupAssumption DEF master_main, ConfigInv
<1>2. ScanInv'
  BY StartupAssumption DEF master_main, ScanInv, NoSplits, Splits
<1>3. LogsInv'
  BY DEF master_main, LogsInv, StartupInv
<1>4. JobInv'
  BY DEF master_main, JobInv
<1> QED
  BY <1>1, <1>2, <1>3, <1>4 DEF StartupInv

\* Only a value that is in range reaches the configuration.
LEMMA LineInv ==
  ASSUME StartupInv, load_config_line
  PROVE  StartupInv'
<1> DEFINE piece == conf[lineno + 1]
<1>1. piece \in ConfPiece
  BY DEF StartupInv, ConfigInv, load_config_line
<1>2. stage = "config" /\ stage' = "config" /\ UNCHANGED <<conf, job, logs>> /\ lineno' = lineno + 1
  BY DEF load_config_line, jobVars
<1>3. ASSUME Scanned(piece), find_config(piece), ValueFits(piece), apply_config(piece)
      PROVE  ConfigInv'
  <2>0. value(piece) \in Value
    BY <1>1, <1>3 DEF Scanned, value, ConfPiece
  <2>1. CASE piece.key \in IntKeys
    <3>1. value(piece).number \in Int /\ value(piece).number \in config_table[piece.key]
      BY <1>3, <2>0, <2>1 DEF ValueFits, Value
    <3>2. nums' = [nums EXCEPT ![piece.key] = value(piece).number] /\ texts' = texts
      BY <1>3, <2>1 DEF apply_config
    <3> QED
      BY <1>2, <2>1, <3>1, <3>2 DEF ConfigInv, StartupInv
  <2>2. CASE piece.key \notin IntKeys
    <3>1. value(piece).text \in Texts /\ piece.key \in StrKeys
      BY <1>3, <2>0, <2>2 DEF find_config, Value
    <3>2. texts' = [texts EXCEPT ![piece.key] = value(piece).text] /\ nums' = nums
      BY <1>3, <2>2 DEF apply_config
    <3> QED
      BY <1>2, <3>1, <3>2 DEF ConfigInv, StartupInv
  <2> QED
    BY <2>1, <2>2
<1>4. ASSUME UNCHANGED <<nums, texts>> PROVE ConfigInv'
  BY <1>2, <1>4 DEF ConfigInv, StartupInv
<1>5. ConfigInv'
  BY <1>3, <1>4 DEF load_config_line
<1>6. ScanInv' /\ LogsInv'
  BY <1>2 DEF ScanInv, LogsInv, StartupInv
<1>7. JobInv'
  BY <1>2 DEF JobInv
<1> QED
  BY <1>5, <1>6, <1>7 DEF StartupInv

\* The end of the file decides between a failed start and a bootstrap.
LEMMA LoadedInv ==
  ASSUME StartupInv, load_config_ends
  PROVE  StartupInv'
<1>1. UNCHANGED <<conf, lineno, nums, texts, job, logs>>
  BY DEF load_config_ends, configVars, jobVars
<1>2. ConfigInv' /\ ScanInv' /\ LogsInv'
  BY <1>1 DEF StartupInv, ConfigInv, ScanInv, LogsInv
<1>3. JobInv'
  BY DEF load_config_ends, JobInv
<1> QED
  BY <1>2, <1>3 DEF StartupInv

\* A replayed job was sound when its header was written.
LEMMA ReplayInv ==
  ASSUME StartupInv, bootstrap_replays
  PROVE  StartupInv'
<1> DEFINE h == logs[aof_path]
<1>1. aof_path \in Texts /\ aof_path' = aof_path
  BY DEF StartupInv, ConfigInv, aof_path, bootstrap_replays, configVars, StrKeys
<1>2. SoundHeader(h)
  BY <1>1 DEF StartupInv, LogsInv, bootstrap_replays
<1>3. nums["task-timeout-ms"] \in Timeouts /\ nums["task-timeout-ms"] \in Int
  BY Ranges DEF StartupInv, ConfigInv, IntKeys
<1>4. job' = [splits |-> h.splits, R |-> h.R, timeout |-> nums["task-timeout-ms"]]
  BY DEF bootstrap_replays, aof_load
<1> HIDE DEF h
<1>5. ConfigInv' /\ LogsInv'
  BY DEF StartupInv, ConfigInv, LogsInv, bootstrap_replays, configVars
<1>6. ScanInv'
  BY <1>2, <1>3, <1>4, StartupAssumption DEF ScanInv, SoundHeader
<1>7. HeaderOf(job)' = h
  BY <1>2, <1>4 DEF HeaderOf, SoundHeader
<1>8. JobInv'
  <2>1. logs' = logs /\ logs[aof_path] = h /\ logs[aof_path] # NoJob /\ stage' = "open"
    BY DEF bootstrap_replays, h
  <2>2. job'.timeout = nums["task-timeout-ms"]
    BY <1>4
  <2> QED
    BY <1>1, <1>2, <1>3, <1>7, <2>1, <2>2 DEF JobInv
<1> QED
  BY <1>5, <1>6, <1>8 DEF StartupInv

\* Looking at the directory changes neither the job nor the logs.
LEMMA ScandirInv ==
  ASSUME StartupInv, scandir
  PROVE  StartupInv'
<1>1. /\ UNCHANGED <<conf, lineno, nums, texts, job, logs>>
      /\ stage' \in {"scan", "failed"}
      /\ logs[aof_path] = NoJob
  BY DEF scandir, configVars
<1>2. ConfigInv' /\ ScanInv' /\ LogsInv'
  BY <1>1 DEF StartupInv, ConfigInv, ScanInv, LogsInv
<1>3. JobInv'
  BY <1>1 DEF JobInv, aof_path
<1> QED
  BY <1>2, <1>3 DEF StartupInv

\* A split is added only while the table has room.
LEMMA EntryInv ==
  ASSUME StartupInv, NEW n \in 1 .. MaxEntries, init_job_entry(n)
  PROVE  StartupInv'
<1>1. UNCHANGED <<conf, lineno, nums, texts, logs>> /\ stage' \in {"scan", "failed"}
  BY DEF init_job_entry, configVars
<1>2. ConfigInv' /\ LogsInv'
  BY <1>1 DEF StartupInv, ConfigInv, LogsInv
<1>3. ScanInv'
  <2>1. CASE job' = job
    BY <2>1 DEF StartupInv, ScanInv
  <2>2. CASE /\ job' = [job EXCEPT !.splits = Append(job.splits, n)]
             /\ ~ TableFull
    <3>1. job.splits \in Splits /\ Len(job.splits) \in Nat /\ MAX_MAP_TASKS \in Nat
      BY StartupAssumption DEF StartupInv, ScanInv, Splits
    <3>2. Append(job.splits, n) \in Splits /\ Len(Append(job.splits, n)) = Len(job.splits) + 1
      BY <3>1 DEF Splits
    <3>3. Len(job.splits) + 1 \in 0 .. MAX_MAP_TASKS
      BY <2>2, <3>1 DEF TableFull
    <3>4. job'.splits = Append(job.splits, n)
      BY <2>2 DEF StartupInv, ScanInv
    <3>5. job' \in [splits : Splits, R : Int, timeout : Int]
      BY <2>2, <3>2, Zenon DEF StartupInv, ScanInv
    <3> QED
      BY <3>2, <3>3, <3>4, <3>5 DEF ScanInv
  <2> QED
    BY <2>1, <2>2 DEF init_job_entry
<1>4. JobInv'
  BY <1>1 DEF JobInv, StartupInv, aof_path, init_job_entry
<1> QED
  BY <1>2, <1>3, <1>4 DEF StartupInv

\* A new job has a split at least, and the configured number of reduces.
LEMMA NewJobInv ==
  ASSUME StartupInv, init_job_ends
  PROVE  StartupInv'
<1>1. UNCHANGED <<conf, lineno, nums, texts, logs>>
  BY DEF init_job_ends, configVars
<1>2. ConfigInv' /\ LogsInv'
  BY <1>1 DEF StartupInv, ConfigInv, LogsInv
<1>3. CASE stage' = "failed" /\ job' = job
  BY <1>2, <1>3 DEF StartupInv, ScanInv, JobInv
<1>4. CASE /\ job.splits # << >>
           /\ stage' = "open"
           /\ job' = [splits  |-> job.splits,
                      R       |-> nums["n-reduce"],
                      timeout |-> nums["task-timeout-ms"]]
  <2>1. /\ nums["task-timeout-ms"] \in Timeouts
        /\ nums["task-timeout-ms"] \in Int
        /\ nums["n-reduce"] \in 1 .. MAX_REDUCE_TASKS
        /\ nums["n-reduce"] \in Int
    BY Ranges DEF StartupInv, ConfigInv, IntKeys
  <2>2. job.splits \in Splits /\ Len(job.splits) \in 1 .. MAX_MAP_TASKS
    BY <1>4, StartupAssumption, EmptySeq DEF StartupInv, ScanInv, Splits
  <2>3. /\ job'.splits = job.splits
        /\ job'.R = nums["n-reduce"]
        /\ job'.timeout = nums["task-timeout-ms"]
        /\ job' \in [splits : Splits, R : Int, timeout : Int]
    BY <1>4, <2>1, <2>2
  <2>4. ScanInv'
    BY <2>2, <2>3, StartupAssumption DEF ScanInv
  <2>5. SoundHeader(HeaderOf(job))'
    BY <2>1, <2>2, <2>3 DEF SoundHeader, HeaderOf
  <2>6. (logs[aof_path] = NoJob)'
    BY <1>1 DEF init_job_ends, aof_path, StartupInv, JobInv
  <2> QED
    BY <1>2, <1>4, <2>1, <2>3, <2>4, <2>5, <2>6 DEF StartupInv, JobInv
<1> QED
  BY <1>3, <1>4 DEF init_job_ends

\* Only a path without a log gets a header, and it gets the job's.
LEMMA AofInitInv ==
  ASSUME StartupInv, aof_init
  PROVE  StartupInv'
<1>1. /\ stage = "open" /\ stage' = "bind"
      /\ UNCHANGED <<conf, lineno, nums, texts, job>>
      /\ aof_path' = aof_path
  BY DEF aof_init, configVars, jobVars, aof_path
<1>2. aof_path \in Texts
  BY DEF StartupInv, ConfigInv, aof_path, StrKeys
<1>3. /\ SoundHeader(HeaderOf(job))
      /\ HeaderOf(job) \in [splits : Splits, R : Nat]
      /\ HeaderOf(job) # NoJob
      /\ job.timeout \in Timeouts
  BY <1>1, StartupAssumption DEF StartupInv, JobInv, SoundHeader, Splits
<1>4. ConfigInv' /\ ScanInv'
  BY <1>1 DEF StartupInv, ConfigInv, ScanInv
<1>5. CASE logs[aof_path] # NoJob
  <2>1. logs' = logs
    BY <1>5 DEF aof_init
  <2>2. LogsInv'
    BY <2>1 DEF StartupInv, LogsInv
  <2>3. JobInv'
    BY <1>1, <1>3, <1>5, <2>1, Zenon DEF StartupInv, JobInv, HeaderOf
  <2> QED
    BY <1>4, <2>2, <2>3 DEF StartupInv
<1>6. CASE logs[aof_path] = NoJob
  <2>1. logs' = [logs EXCEPT ![aof_path] = HeaderOf(job)]
    BY <1>6 DEF aof_init, HeaderOf
  <2>2. logs'[aof_path] = HeaderOf(job)
    BY <1>2, <2>1 DEF StartupInv, LogsInv
  <2>3. LogsInv'
    BY <1>2, <1>3, <2>1 DEF StartupInv, LogsInv
  <2>4. HeaderOf(job)' = HeaderOf(job)
    BY <1>1 DEF HeaderOf
  <2>5. JobInv'
    BY <1>1, <1>3, <2>2, <2>4 DEF JobInv
  <2> QED
    BY <1>4, <2>3, <2>5 DEF StartupInv
<1> QED
  BY <1>5, <1>6

\* The port, failures and kills only move the process, and a change of the
\* directory not even that.
LEMMA MovesInv ==
  ASSUME StartupInv,
         UNCHANGED <<conf, lineno, nums, texts, job, logs>>,
         \/ stage' = stage
         \/ stage' \in Stopped
         \/ stage = "bind" /\ stage' = "serving"
  PROVE  StartupInv'
<1>1. ConfigInv' /\ ScanInv' /\ LogsInv'
  BY DEF StartupInv, ConfigInv, ScanInv, LogsInv
<1>2. JobInv'
  BY DEF StartupInv, JobInv, HeaderOf, aof_path, Stopped
<1> QED
  BY <1>1, <1>2 DEF StartupInv

\* Every step keeps the invariant.
LEMMA StepInv == StartupInv /\ [StartupNext]_startupVars => StartupInv'
<1> SUFFICES ASSUME StartupInv, [StartupNext]_startupVars PROVE StartupInv'
  OBVIOUS
<1>1. CASE \E c \in Confs : master_main(c)
  BY <1>1, MainInv
<1>2. CASE load_config_line
  BY <1>2, LineInv
<1>3. CASE load_config_ends
  BY <1>3, LoadedInv
<1>4. CASE bootstrap_replays
  BY <1>4, ReplayInv
<1>5. CASE scandir
  BY <1>5, ScandirInv
<1>6. CASE \E n \in 1 .. MaxEntries : init_job_entry(n)
  BY <1>6, EntryInv, Zenon
<1>7. CASE init_job_ends
  BY <1>7, NewJobInv
<1>8. CASE aof_init
  BY <1>8, AofInitInv
<1>9. CASE server_init \/ StepFails \/ load_config_no_file \/ MasterKilled
  BY <1>9, MovesInv
     DEF server_init, StepFails, load_config_no_file, MasterKilled, configVars, jobVars, Stopped
<1>10. CASE \E n \in 1 .. MaxEntries, k \in EntryKinds : EntryChanges(n, k)
  BY <1>10, MovesInv DEF EntryChanges, configVars, jobVars
<1>11. CASE UNCHANGED startupVars
  BY <1>11, MovesInv DEF startupVars, configVars, jobVars
<1> QED
  BY <1>1, <1>2, <1>3, <1>4, <1>5, <1>6, <1>7, <1>8, <1>9, <1>10, <1>11, Zenon DEF StartupNext

\* The invariant holds from the first state on.
LEMMA InvariantHolds == StartupSpec => []StartupInv
  BY InitInv, StepInv, PTL DEF StartupSpec

-----------------------------------------------------------------------------
\* The second check of n_reduce in master_init_job never fires.
THEOREM BackstopUnreached == StartupSpec => []BackstopIdle
<1>1. StartupInv => BackstopIdle
  BY Ranges DEF StartupInv, ConfigInv, BackstopIdle, BackstopFires
<1> QED
  BY <1>1, InvariantHolds, PTL

\* A master serves a job that fits its tables, with waits and polls that are
\* not zero, however often it is restarted and whatever the files say.
THEOREM ServesSoundJobs == StartupSpec => []ServesSound
<1>1. StartupInv => ServesSound
  <2> SUFFICES ASSUME StartupInv, stage = "serving" PROVE ServesSound
    BY DEF ServesSound
  <2>1. SoundHeader(HeaderOf(job)) /\ job.timeout \in Timeouts
    BY DEF StartupInv, JobInv
  <2>2. Len(job.splits) \in 1 .. MAX_MAP_TASKS /\ job.R \in 1 .. MAX_REDUCE_TASKS
    BY <2>1 DEF SoundHeader, HeaderOf
  <2>3. job.timeout \div 2 > 0
    BY <2>1, StartupAssumption DEF Timeouts
  <2>4. nums["hz"] \in Frequencies
    BY Ranges DEF StartupInv, ConfigInv
  <2>5. 1000 \div nums["hz"] > 0
    BY <2>4 DEF Frequencies
  <2> QED
    BY <2>2, <2>3, <2>5 DEF ServesSound
<1> QED
  BY <1>1, InvariantHolds, PTL

\* The job a master serves is the one its log describes.
THEOREM ServesLoggedJob == StartupSpec => []JobFromLog
<1>1. StartupInv => JobFromLog
  BY DEF StartupInv, JobInv, JobFromLog, HeaderOf
<1> QED
  BY <1>1, InvariantHolds, PTL

\* No start changes a job header that is in the log.
THEOREM HeadersKept == StartupSpec => LogsKept
<1> DEFINE Kept == \A p \in Texts : logs[p] # NoJob => logs'[p] = logs[p]
<1>1. ASSUME StartupInv, aof_init PROVE Kept
  <2>1. CASE logs' = logs
    BY <2>1
  <2>2. CASE /\ logs[aof_path] = NoJob
             /\ logs' = [logs EXCEPT ![aof_path] = [splits |-> job.splits, R |-> job.R]]
    BY <2>2 DEF StartupInv, LogsInv
  <2> QED
    BY <1>1, <2>1, <2>2 DEF aof_init
<1>2. ASSUME StartupNext, ~ aof_init PROVE logs' = logs
  BY <1>2 DEF StartupNext, master_main, load_config_line, load_config_ends, bootstrap_replays,
              scandir, init_job_entry, init_job_ends, server_init, StepFails, load_config_no_file, MasterKilled,
              EntryChanges
<1>3. StartupInv /\ [StartupNext]_startupVars => [Kept]_startupVars
  BY <1>1, <1>2
<1> QED
  BY <1>3, InvariantHolds, PTL DEF StartupSpec, LogsKept

-----------------------------------------------------------------------------
(***************************************************************************)
(* What load_config has read                                               *)
(***************************************************************************)

\* Piece i is skipped, or its first two words are a setting.
LineAccepted(i) ==
  \/ conf[i].kind = "comment"
  \/ /\ Scanned(conf[i])
     /\ \/ conf[i].key \in StrKeys
        \/ /\ conf[i].key \in IntKeys
           /\ value(conf[i]).whole
           /\ value(conf[i]).number \in config_table[conf[i].key]

\* The pieces of I that set key k.
Sets(I, k) == {i \in I : Scanned(conf[i]) /\ conf[i].key = k}

IsLast(i, I, k) == i \in Sets(I, k) /\ \A j \in Sets(I, k) : j <= i

\* Each setting is the default or what the last of its pieces says.
LastWins(I) ==
  /\ \A k \in IntKeys :
       \/ Sets(I, k) = {} /\ nums[k] = DefaultNums[k]
       \/ \E i \in I : IsLast(i, I, k) /\ nums[k] = value(conf[i]).number
  /\ \A k \in StrKeys :
       \/ Sets(I, k) = {} /\ texts[k] = DefaultTexts[k]
       \/ \E i \in I : IsLast(i, I, k) /\ texts[k] = value(conf[i]).text

\* As long as there is no error, everything read was skipped or is in force.
ReadInv ==
  /\ errors \in Nat
  /\ stage \in Loaded \cup {"config"} =>
       /\ lineno \in 0 .. Len(conf)
       /\ errors = 0 => (\A i \in 1 .. lineno : LineAccepted(i)) /\ LastWins(1 .. lineno)
  /\ stage \in Loaded => errors = 0 /\ lineno = Len(conf)

\* LastWins says what LastSet does.
LEMMA LastWinsSets ==
  ASSUME NEW I \in SUBSET Nat, LastWins(I)
  PROVE  SetBy(I)
<1>1. ASSUME NEW k, NEW i \in I, IsLast(i, I, k)
      PROVE  /\ Sets(I, k) # {}
             /\ (CHOOSE n \in Sets(I, k) : \A j \in Sets(I, k) : j <= n) = i
  <2>1. i \in Sets(I, k) /\ \A j \in Sets(I, k) : j <= i
    BY <1>1 DEF IsLast
  <2>2. PICK n \in Sets(I, k) :
          /\ n = (CHOOSE m \in Sets(I, k) : \A j \in Sets(I, k) : j <= m)
          /\ \A j \in Sets(I, k) : j <= n
    BY <2>1, Zenon
  <2>3. n \in Nat /\ i \in Nat /\ n <= i /\ i <= n
    BY <2>1, <2>2, Zenon DEF Sets
  <2> QED BY <2>1, <2>2, <2>3
<1>2. \A k \in IntKeys :
        nums[k] = LastSet(I, k, DefaultNums[k], LAMBDA i : value(conf[i]).number)
  <2> TAKE k \in IntKeys
  <2>1. CASE Sets(I, k) = {} /\ nums[k] = DefaultNums[k]
    BY <2>1, Zenon DEF LastSet, Sets
  <2>2. CASE \E i \in I : IsLast(i, I, k) /\ nums[k] = value(conf[i]).number
    <3>1. PICK i \in I : IsLast(i, I, k) /\ nums[k] = value(conf[i]).number
      BY <2>2
    <3>2. /\ Sets(I, k) # {}
          /\ (CHOOSE n \in Sets(I, k) : \A j \in Sets(I, k) : j <= n) = i
      BY <1>1, <3>1
    <3> QED BY <3>1, <3>2, Zenon DEF LastSet, Sets
  <2> QED BY <2>1, <2>2 DEF LastWins
<1>3. \A k \in StrKeys :
        texts[k] = LastSet(I, k, DefaultTexts[k], LAMBDA i : value(conf[i]).text)
  <2> TAKE k \in StrKeys
  <2>1. CASE Sets(I, k) = {} /\ texts[k] = DefaultTexts[k]
    BY <2>1 DEF LastSet, Sets
  <2>2. CASE \E i \in I : IsLast(i, I, k) /\ texts[k] = value(conf[i]).text
    <3>1. PICK i \in I : IsLast(i, I, k) /\ texts[k] = value(conf[i]).text
      BY <2>2
    <3>2. /\ Sets(I, k) # {}
          /\ (CHOOSE n \in Sets(I, k) : \A j \in Sets(I, k) : j <= n) = i
      BY <1>1, <3>1
    <3> QED BY <3>1, <3>2, Zenon DEF LastSet, Sets
  <2> QED BY <2>1, <2>2 DEF LastWins
<1> QED BY <1>2, <1>3, Zenon DEF SetBy

\* One turn of the loop.
LEMMA ReadLine ==
  ASSUME StartupInv, ReadInv, load_config_line
  PROVE  ReadInv'
<1>1. /\ stage = "config" /\ stage' = "config" /\ conf' = conf /\ lineno' = lineno + 1
      /\ lineno < Len(conf) /\ conf \in Seq(ConfPiece) /\ Len(conf) \in Nat
      /\ errors \in Nat /\ lineno \in 0 .. Len(conf)
  BY LenProperties DEF load_config_line, ReadInv, StartupInv, ConfigInv
<1>2. PICK l : l = lineno + 1
  OBVIOUS
<1>3. /\ l \in 1 .. Len(conf) /\ lineno' = l /\ lineno = l - 1
      /\ conf[l] \in ConfPiece /\ 1 .. l = 1 .. lineno \cup {l} /\ l \notin 1 .. lineno
  BY <1>1, <1>2
<1>4. \/ UNCHANGED <<errors, nums, texts>> /\ Skipped(conf[l])
      \/ /\ Scanned(conf[l]) /\ find_config(conf[l]) /\ ValueFits(conf[l])
         /\ apply_config(conf[l]) /\ errors' = errors
      \/ errors' = errors + 1
  BY <1>2 DEF load_config_line
<1>5. errors' \in Nat /\ lineno' \in 0 .. Len(conf')
  BY <1>1, <1>3, <1>4
<1>6. ASSUME errors' = 0
      PROVE  (\A i \in 1 .. l : LineAccepted(i)') /\ LastWins(1 .. l)'
  <2>1. /\ errors = 0
        /\ \A i \in 1 .. lineno : LineAccepted(i)
        /\ LastWins(1 .. lineno)
    BY <1>1, <1>4, <1>6 DEF ReadInv
  <2>2. \A i : LineAccepted(i)' <=> LineAccepted(i)
    BY <1>1 DEF LineAccepted
  <2>3. \A I, k : Sets(I, k)' = Sets(I, k)
    BY <1>1 DEF Sets
  <2>4. \A k : Scanned(conf[l]) /\ conf[l].key = k => IsLast(l, 1 .. l, k)
    BY <1>3 DEF IsLast, Sets
  <2>5. \A k : ~ (Scanned(conf[l]) /\ conf[l].key = k) =>
          /\ Sets(1 .. l, k) = Sets(1 .. lineno, k)
          /\ \A i \in 1 .. lineno : IsLast(i, 1 .. lineno, k) => IsLast(i, 1 .. l, k)
    BY <1>3 DEF IsLast, Sets
  <2>6. \A i, I, k : IsLast(i, I, k)' <=> IsLast(i, I, k)
    BY <2>3 DEF IsLast
  <2>7. CASE UNCHANGED <<errors, nums, texts>> /\ Skipped(conf[l])
    <3>1. LineAccepted(l) /\ ~ Scanned(conf[l])
      BY <2>7 DEF Skipped, Scanned, LineAccepted
    <3>2. \A i \in 1 .. l : LineAccepted(i)'
      BY <1>3, <2>1, <2>2, <3>1, Zenon
    <3>3. LastWins(1 .. l)'
      BY <1>1, <1>3, <2>1, <2>3, <2>5, <2>6, <2>7, <3>1, Zenon DEF LastWins
    <3> QED BY <3>2, <3>3
  <2>8. CASE Scanned(conf[l]) /\ find_config(conf[l]) /\ ValueFits(conf[l]) /\ apply_config(conf[l])
    <3>1. LineAccepted(l) /\ Scanned(conf[l]) /\ conf[l].key \in IntKeys \cup StrKeys
      BY <2>8 DEF find_config, ValueFits, LineAccepted
    <3>2. \A i \in 1 .. l : LineAccepted(i)'
      BY <1>3, <2>1, <2>2, <3>1
    <3>3. /\ nums \in [IntKeys -> Int] /\ texts \in [StrKeys -> Texts]
      BY DEF StartupInv, ConfigInv
    <3>4. \A k \in IntKeys :
            \/ Sets(1 .. l, k) = {} /\ nums'[k] = DefaultNums[k]
            \/ \E i \in 1 .. l : IsLast(i, 1 .. l, k) /\ nums'[k] = value(conf[i]).number
      <4> TAKE k \in IntKeys
      <4>1. CASE conf[l].key = k
        <5>1. nums'[k] = value(conf[l]).number
          BY <2>8, <3>3, <4>1, Zenon DEF apply_config
        <5> QED BY <1>3, <2>4, <3>1, <4>1, <5>1, Zenon
      <4>2. CASE conf[l].key # k
        <5>1. nums'[k] = nums[k]
          BY <2>8, <3>3, <4>2 DEF apply_config
        <5> QED BY <1>3, <2>1, <2>5, <4>2, <5>1, Zenon DEF LastWins
      <4> QED BY <4>1, <4>2
    <3>5. \A k \in StrKeys :
            \/ Sets(1 .. l, k) = {} /\ texts'[k] = DefaultTexts[k]
            \/ \E i \in 1 .. l : IsLast(i, 1 .. l, k) /\ texts'[k] = value(conf[i]).text
      <4> TAKE k \in StrKeys
      <4>1. CASE conf[l].key = k
        <5>1. texts'[k] = value(conf[l]).text
          BY <2>8, <3>3, <4>1, Zenon DEF apply_config, IntKeys, StrKeys
        <5> QED BY <1>3, <2>4, <3>1, <4>1, <5>1, Zenon
      <4>2. CASE conf[l].key # k
        <5>1. texts'[k] = texts[k]
          BY <2>8, <3>3, <4>2, Zenon DEF apply_config
        <5> QED BY <1>3, <2>1, <2>5, <4>2, <5>1, Zenon DEF LastWins
      <4> QED BY <4>1, <4>2, Zenon
    <3>6. LastWins(1 .. l)'
      BY <1>1, <2>3, <2>6, <3>4, <3>5 DEF LastWins
    <3> QED BY <3>2, <3>6
  <2>9. errors' # errors + 1
    BY <1>1, <1>6
  <2> QED BY <1>4, <2>7, <2>8, <2>9
<1>7. "config" \notin Loaded
  BY Zenon DEF Loaded
<1>8. errors' = 0 => (\A i \in 1 .. lineno' : LineAccepted(i)') /\ LastWins(1 .. lineno)'
  BY <1>3, <1>6 DEF LastWins, Sets, IsLast
<1> QED BY <1>1, <1>5, <1>7, <1>8 DEF ReadInv

\* Every step keeps what load_config has read.
LEMMA ReadStep == StartupInv /\ ReadInv /\ [StartupNext]_startupVars => ReadInv'
<1> SUFFICES ASSUME StartupInv, ReadInv, [StartupNext]_startupVars PROVE ReadInv'
  BY Zenon
<1>1. ASSUME NEW c \in Confs, master_main(c) PROVE ReadInv'
  <2>1. stage' = "config" /\ lineno' = 0 /\ errors' = 0 /\ conf' = c /\ c \in Seq(ConfPiece)
        /\ nums' = DefaultNums /\ texts' = DefaultTexts /\ "config" \notin Loaded
    BY <1>1, StartupAssumption DEF master_main, Loaded
  <2>2. Len(c) \in Nat /\ 1 .. 0 = {}
    BY <2>1, LenProperties
  <2>3. \A k : Sets({}, k)' = {}
    BY Zenon DEF Sets
  <2>4. LastWins({})'
    BY <2>1, <2>3, Zenon DEF LastWins
  <2>5. LastWins(1 .. lineno)'
    BY <2>1, <2>2, <2>4 DEF LastWins, Sets, IsLast
  <2> QED BY <2>1, <2>2, <2>5 DEF ReadInv
<1>2. CASE load_config_line
  BY <1>2, ReadLine, Zenon
<1>3. ASSUME UNCHANGED <<conf, lineno, errors, nums, texts>>,
             stage' \in Loaded \cup {"config"} => stage \in Loaded \cup {"config"},
             stage' \in Loaded => stage \in Loaded \/ (errors = 0 /\ lineno = Len(conf))
      PROVE  ReadInv'
  BY <1>3 DEF ReadInv, LineAccepted, LastWins, Sets, IsLast
<1>4. CASE load_config_ends
  <2>1. stage' \in Loaded => errors = 0
    BY <1>4 DEF load_config_ends, Loaded, ReadInv
  <2> QED BY <1>3, <1>4, <2>1, Zenon DEF load_config_ends, configVars, ReadInv
<1>5. CASE bootstrap_replays \/ scandir
  <2>1. /\ UNCHANGED <<conf, lineno, errors, nums, texts>>
        /\ stage' \in Loaded \cup {"config"} => stage \in Loaded \cup {"config"}
        /\ stage' \in Loaded => stage \in Loaded \/ (errors = 0 /\ lineno = Len(conf))
    BY <1>5 DEF bootstrap_replays, scandir, configVars, Loaded
  <2> QED BY <1>3, <2>1, Zenon
<1>6. ASSUME NEW n \in 1 .. MaxEntries, init_job_entry(n) PROVE ReadInv'
  <2>1. /\ UNCHANGED <<conf, lineno, errors, nums, texts>>
        /\ stage' \in Loaded \cup {"config"} => stage \in Loaded \cup {"config"}
        /\ stage' \in Loaded => stage \in Loaded \/ (errors = 0 /\ lineno = Len(conf))
    BY <1>6, Zenon DEF init_job_entry, configVars, Loaded
  <2> QED BY <1>3, <2>1, Zenon
<1>7. CASE init_job_ends
  <2>1. /\ UNCHANGED <<conf, lineno, errors, nums, texts>>
        /\ stage' \in Loaded \cup {"config"} => stage \in Loaded \cup {"config"}
        /\ stage' \in Loaded => stage \in Loaded \/ (errors = 0 /\ lineno = Len(conf))
    BY <1>7, Zenon DEF init_job_ends, configVars, Loaded
  <2> QED BY <1>3, <2>1, Zenon
<1>8. CASE aof_init \/ server_init \/ StepFails \/ load_config_no_file \/ MasterKilled
  <2>1. /\ UNCHANGED <<conf, lineno, errors, nums, texts>>
        /\ stage' \in Loaded \cup {"config"} => stage \in Loaded \cup {"config"}
        /\ stage' \in Loaded => stage \in Loaded \/ (errors = 0 /\ lineno = Len(conf))
    BY <1>8 DEF aof_init, server_init, StepFails, load_config_no_file, MasterKilled, configVars,
                Loaded
  <2> QED BY <1>3, <2>1, Zenon
<1>9. ASSUME NEW n \in 1 .. MaxEntries, NEW k \in EntryKinds, EntryChanges(n, k)
      PROVE  ReadInv'
  <2>1. /\ UNCHANGED <<conf, lineno, errors, nums, texts>>
        /\ stage' \in Loaded \cup {"config"} => stage \in Loaded \cup {"config"}
        /\ stage' \in Loaded => stage \in Loaded \/ (errors = 0 /\ lineno = Len(conf))
    BY <1>9, Zenon DEF EntryChanges, configVars, Loaded
  <2> QED BY <1>3, <2>1, Zenon
<1>10. CASE UNCHANGED startupVars
  <2>1. /\ UNCHANGED <<conf, lineno, errors, nums, texts>>
        /\ stage' \in Loaded \cup {"config"} => stage \in Loaded \cup {"config"}
        /\ stage' \in Loaded => stage \in Loaded \/ (errors = 0 /\ lineno = Len(conf))
    BY <1>10 DEF startupVars, configVars, Loaded
  <2> QED BY <1>3, <2>1, Zenon
<1> QED
  BY <1>1, <1>2, <1>4, <1>5, <1>6, <1>7, <1>8, <1>9, <1>10, Zenon DEF StartupNext

\* Whatever the file, a master gets past load_config only if sscanf found a key
\* with a fitting value in everything fgets returned that is no comment, and it
\* runs with the last value stored for each key.
THEOREM ConfigAsScannedAlways == StartupSpec => []ConfigAsScanned
<1>1. StartupInit => ReadInv
  BY DEF StartupInit, ReadInv, Loaded
<1>2. StartupInv /\ ReadInv => ConfigAsScanned
  <2> SUFFICES ASSUME StartupInv, ReadInv, stage \in Loaded
               PROVE  (\A i \in DOMAIN conf : LineAccepted(i)) /\ SetBy(DOMAIN conf)
    BY Zenon DEF ConfigAsScanned, LineAccepted
  <2>1. conf \in Seq(ConfPiece) /\ DOMAIN conf = 1 .. lineno
    BY LenProperties, Zenon DEF StartupInv, ConfigInv, ReadInv
  <2>2. (\A i \in 1 .. lineno : LineAccepted(i)) /\ LastWins(1 .. lineno)
    BY DEF ReadInv
  <2>3. 1 .. lineno \in SUBSET Nat
    OBVIOUS
  <2>4. SetBy(1 .. lineno)
    BY <2>2, <2>3, LastWinsSets, Zenon
  <2> QED BY <2>1, <2>2, <2>4, Zenon
<1> QED
  BY <1>1, <1>2, InvariantHolds, ReadStep, PTL DEF StartupSpec

-----------------------------------------------------------------------------
(***************************************************************************)
(* What the scan of the directory has found                                *)
(***************************************************************************)

Regular == {n \in 1 .. MaxEntries : dir[n] = "regular"}

Found == {job.splits[a] : a \in DOMAIN job.splits}

\* Of the names in N, those that were found and those still to be looked at are
\* the regular files.
Covered(N) == \A n \in N : n \in Regular <=> n \in Found \/ n \in entries \cap Regular

Names == 1 .. MaxEntries

\* A process starts without splits.  Whatever was found comes before what is to
\* be looked at, and nothing is overlooked among the names nobody touched.
FoundInv ==
  /\ dir \in [1 .. MaxEntries -> EntryKinds]
  /\ entries \in SUBSET (1 .. MaxEntries)
  /\ stage \in {"config", "bootstrap"} => job = NoSplits
  /\ stage = "scan" =>
       /\ \A a, b \in DOMAIN job.splits : a < b => job.splits[a] < job.splits[b]
       /\ \A a \in DOMAIN job.splits : \A n \in entries : job.splits[a] < n
       /\ Covered(Names \ touched)
  /\ InputsExact

\* One name is looked at.
LEMMA EntryFound ==
  ASSUME StartupInv, FoundInv, NEW n \in 1 .. MaxEntries, init_job_entry(n), MCNext
  PROVE  FoundInv'
<1>1. /\ stage = "scan" /\ n \in entries /\ \A i \in entries : n <= i
      /\ entries' = entries \ {n} /\ dir' = dir
      /\ stage' \in {"scan", "failed"}
  BY DEF init_job_entry
<1>2. stage' = "scan" => touched \subseteq touched'
  BY <1>1, Zenon DEF MCNext
<1>3. /\ dir' \in [1 .. MaxEntries -> EntryKinds]
      /\ entries' \in SUBSET (1 .. MaxEntries)
  BY <1>1 DEF FoundInv
<1>4. ASSUME stage' = "scan"
      PROVE  /\ \A a, b \in DOMAIN job'.splits : a < b => job'.splits[a] < job'.splits[b]
             /\ \A a \in DOMAIN job'.splits : \A i \in entries' : job'.splits[a] < i
             /\ \A i \in Names \ touched' : i \in Regular' <=> i \in Found' \/ i \in entries' \cap Regular'
  <2>0. \A i \in Names \ touched' : i \in Regular <=> i \in Found \/ i \in entries \cap Regular
    BY <1>1, <1>2, <1>4, Zenon DEF FoundInv, Covered
  <2>1. /\ \A a, b \in DOMAIN job.splits : a < b => job.splits[a] < job.splits[b]
        /\ \A a \in DOMAIN job.splits : \A i \in entries : job.splits[a] < i
    BY <1>1, Zenon DEF FoundInv
  <2>2. Regular' = Regular
    BY <1>1, Zenon DEF Regular
  <2>3. CASE ~ IsSplit(n)
    <3>1. job' = job
      BY <1>4, <2>3 DEF init_job_entry
    <3>2. n \notin Regular
      BY <2>3 DEF IsSplit, Regular
    <3>3. Found' = Found
      BY <3>1, Zenon DEF Found
    <3> QED BY <1>1, <2>0, <2>1, <2>2, <3>1, <3>2, <3>3, Zenon
  <2>4. CASE IsSplit(n)
    <3>1. /\ job' = [job EXCEPT !.splits = Append(job.splits, n)]
          /\ job \in [splits : Splits, R : Int, timeout : Int]
      BY <1>4, <2>4 DEF init_job_entry, StartupInv, ScanInv
    <3>2. PICK s, t : s = job.splits /\ t = job'.splits
      OBVIOUS
    <3>3. s \in Splits /\ t = Append(s, n)
      BY <3>1, <3>2
    <3>4. Len(s) \in Nat /\ DOMAIN s = 1 .. Len(s) /\ \A a \in 1 .. Len(s) : s[a] \in 1 .. MaxEntries
      BY <3>3, LenProperties, ElementOfSeq, Zenon DEF Splits
    <3>5. /\ DOMAIN t = 1 .. Len(s) + 1
          /\ \A a \in 1 .. Len(s) : t[a] = s[a]
          /\ t[Len(s) + 1] = n
      BY <3>3, <3>4 DEF Splits
    <3>6. \A a, b \in DOMAIN t : a < b => t[a] < t[b]
      <4> SUFFICES ASSUME NEW a \in DOMAIN t, NEW b \in DOMAIN t, a < b PROVE t[a] < t[b]
        OBVIOUS
      <4>1. a \in 1 .. Len(s)
        BY <3>4, <3>5
      <4>2. CASE b \in 1 .. Len(s)
        BY <2>1, <3>2, <3>4, <3>5, <4>1, <4>2, Zenon
      <4>3. CASE b = Len(s) + 1
        BY <1>1, <2>1, <3>2, <3>4, <3>5, <4>1, <4>3, Zenon
      <4> QED BY <3>4, <3>5, <4>2, <4>3
    <3>7. \A a \in DOMAIN t : \A i \in entries' : t[a] < i
      <4> SUFFICES ASSUME NEW a \in DOMAIN t, NEW i \in entries' PROVE t[a] < i
        BY Zenon
      <4>1. i \in entries /\ i # n /\ n <= i /\ i \in Int /\ n \in Int
        BY <1>1, <1>3
      <4>2. CASE a \in 1 .. Len(s)
        BY <2>1, <3>2, <3>4, <3>5, <4>1, <4>2, Zenon
      <4>3. CASE a = Len(s) + 1
        BY <3>5, <4>1, <4>3
      <4> QED BY <3>4, <3>5, <4>2, <4>3
    <3>8. Found' = Found \cup {n}
      <4>1. {t[a] : a \in DOMAIN t} = {s[a] : a \in DOMAIN s} \cup {n}
        <5>1. DOMAIN t = DOMAIN s \cup {Len(s) + 1}
          BY <3>4, <3>5
        <5> QED BY <3>4, <3>5, <5>1
      <4> QED BY <3>2, <4>1, ZenonT(60) DEF Found
    <3>9. n \in Regular
      BY <2>4, Zenon DEF IsSplit, Regular
    <3>10. \A i \in Names \ touched' : i \in Regular' <=> i \in Found' \/ i \in entries' \cap Regular'
      BY <1>1, <2>0, <2>2, <3>8, <3>9, Zenon
    <3> QED BY <3>2, <3>6, <3>7, <3>10
  <2> QED BY <2>3, <2>4
<1>5. stage' = "scan" => Covered(Names \ touched)'
  BY <1>4, Zenon DEF Covered, Names
<1> QED BY <1>1, <1>3, <1>4, <1>5, Zenon DEF FoundInv, InputsExact

\* Every step keeps what is known of the scan.
LEMMA FoundStep == StartupInv /\ FoundInv /\ [MCNext]_mcVars => FoundInv'
<1> SUFFICES ASSUME StartupInv, FoundInv, [MCNext]_mcVars PROVE FoundInv'
  OBVIOUS
<1>1. CASE UNCHANGED mcVars
  BY <1>1 DEF mcVars, startupVars, jobVars, configVars, FoundInv, InputsExact, Covered, Names,
                Found, Regular, aof_path
<1> SUFFICES ASSUME MCNext PROVE FoundInv'
  BY <1>1, Zenon
<1>2. ASSUME NEW c \in Confs, master_main(c) PROVE FoundInv'
  BY <1>2, Zenon DEF master_main, FoundInv, InputsExact
<1>3. CASE load_config_line \/ load_config_ends
  BY <1>3, Zenon DEF load_config_line, load_config_ends, jobVars, FoundInv, InputsExact
<1>4. CASE bootstrap_replays
  <2>1. stage' = "open" /\ logs'[aof_path'] # NoJob /\ dir' = dir /\ entries' = entries
    BY <1>4, Zenon DEF bootstrap_replays, configVars, aof_path
  <2> QED BY <2>1 DEF FoundInv, InputsExact
<1>5. CASE scandir
  <2>1. /\ stage = "bootstrap" /\ dir' = dir /\ job' = job /\ stage' \in {"scan", "failed"}
        /\ stage' = "scan" => entries' = {n \in 1 .. MaxEntries : input_filter(n)}
        /\ stage' # "scan" => entries' = entries
    BY <1>5 DEF scandir
  <2>2. job.splits = << >> /\ DOMAIN job.splits = {}
    <3>1. job.splits = << >>
      BY <2>1 DEF FoundInv, NoSplits
    <3> QED BY <3>1
  <2>3. Regular' = Regular /\ Found' = {}
    BY <2>1, <2>2 DEF Regular, Found
  <2>4. Regular \subseteq {n \in 1 .. MaxEntries : input_filter(n)}
    BY Zenon DEF Regular, input_filter
  <2>5. entries' \in SUBSET (1 .. MaxEntries)
    BY <2>1, Zenon DEF FoundInv
  <2>6. stage' = "scan" => Covered(Names \ touched)'
    BY <2>1, <2>3, <2>4, Zenon DEF Covered
  <2> QED BY <2>1, <2>2, <2>5, <2>6, Zenon DEF FoundInv, InputsExact
<1>6. ASSUME NEW n \in 1 .. MaxEntries, init_job_entry(n) PROVE FoundInv'
  BY <1>6, EntryFound
<1>7. CASE init_job_ends
  <2>1. /\ stage = "scan" /\ entries = {} /\ entries' = entries /\ dir' = dir
        /\ stage' \in {"failed", "open"}
        /\ stage' = "open" => job'.splits = job.splits
    BY <1>7 DEF init_job_ends
  <2>2. stage' = "open" => touched \subseteq touched'
    BY <2>1, Zenon DEF MCNext
  <2>3. stage' = "open" => Found' = Found /\ Regular' = Regular
    BY <2>1 DEF Found, Regular
  <2>4. InputsExact'
    <3> SUFFICES ASSUME stage' = "open"
                 PROVE  /\ \A a, b \in DOMAIN job'.splits : a < b => job'.splits[a] < job'.splits[b]
                        /\ \A n \in Names \ touched' : n \in Regular' <=> n \in Found'
      BY Zenon DEF InputsExact, Found, Regular, Names
    <3>1. /\ \A a, b \in DOMAIN job.splits : a < b => job.splits[a] < job.splits[b]
          /\ Covered(Names \ touched)
      BY <2>1, Zenon DEF FoundInv
    <3> QED BY <2>1, <2>2, <2>3, <3>1, Zenon DEF Covered
  <2> QED BY <2>1, <2>4 DEF FoundInv
<1>8. CASE aof_init \/ server_init
  BY <1>8, Zenon DEF aof_init, server_init, jobVars, FoundInv, InputsExact
<1>9. CASE StepFails \/ load_config_no_file \/ MasterKilled
  BY <1>9, Zenon DEF StepFails, load_config_no_file, MasterKilled, jobVars, FoundInv, InputsExact
<1>10. ASSUME NEW n \in 1 .. MaxEntries, NEW k \in EntryKinds, EntryChanges(n, k)
       PROVE  FoundInv'
  <2>1. /\ stage' = stage /\ job' = job /\ entries' = entries
        /\ dir' = [dir EXCEPT ![n] = k] /\ dir[n] # k
    BY <1>10, Zenon DEF EntryChanges, jobVars
  <2>2. /\ dir' \in [1 .. MaxEntries -> EntryKinds] /\ dir'[n] = k
        /\ \A i \in Names \ {n} : dir'[i] = dir[i]
    BY <2>1, Zenon DEF FoundInv, Names
  <2>3. stage' \in {"scan", "open"} => touched \subseteq touched' /\ n \in touched'
    BY <2>1, <2>2, Zenon DEF MCNext
  <2>4. stage' \in {"scan", "open"} =>
          \A i \in Names \ touched' : i \in Names \ touched /\ dir'[i] = dir[i]
    BY <2>2, <2>3, Zenon
  <2>5. stage' \in {"scan", "open"} =>
          \A i \in Names \ touched' : i \in Names \ touched /\ (i \in Regular' <=> i \in Regular)
    BY <2>4, Zenon DEF Regular
  <2>6. Found' = Found
    BY <2>1, Zenon DEF Found
  <2>7. stage' = "scan" => Covered(Names \ touched)'
    <3>1. stage = "scan" => Covered(Names \ touched)
      BY Zenon DEF FoundInv
    <3> QED BY <2>1, <2>5, <2>6, <3>1, Zenon DEF Covered, Names
  <2>8. InputsExact'
    <3> SUFFICES ASSUME stage' = "open", logs'[aof_path'] = NoJob
                 PROVE  /\ \A a, b \in DOMAIN job'.splits : a < b => job'.splits[a] < job'.splits[b]
                        /\ \A i \in Names \ touched' :
                             dir'[i] = "regular" <=> \E a \in DOMAIN job'.splits : job'.splits[a] = i
      BY Zenon DEF InputsExact, Names
    <3>1. logs' = logs /\ aof_path' = aof_path
      BY <1>10, Zenon DEF EntryChanges, configVars, aof_path
    <3>2. /\ \A a, b \in DOMAIN job.splits : a < b => job.splits[a] < job.splits[b]
          /\ \A i \in Names \ touched :
               dir[i] = "regular" <=> \E a \in DOMAIN job.splits : job.splits[a] = i
      BY <2>1, <3>1, Zenon DEF FoundInv, InputsExact, Names
    <3> QED BY <2>1, <2>4, <3>2, Zenon
  <2> QED BY <2>1, <2>2, <2>7, <2>8, Zenon DEF FoundInv
<1> QED
  BY <1>2, <1>3, <1>4, <1>5, <1>6, <1>7, <1>8, <1>9, <1>10, Zenon DEF MCNext, StartupNext

\* Whatever happens to the directory during the scan, a new job's splits are in
\* the order of their names, and the names nobody touched are among them exactly
\* when they are visible regular files, for every directory.
THEOREM InputsExactAlways == MCSpec => []InputsExact
<1>1. MCInit => StartupInv /\ FoundInv
  <2> SUFFICES ASSUME MCInit PROVE StartupInv /\ FoundInv
    OBVIOUS
  <2>1. StartupInv
    BY InitInv DEF MCInit
  <2>2. FoundInv
    BY DEF MCInit, StartupInit, FoundInv, InputsExact
  <2> QED BY <2>1, <2>2
<1>2. StartupInv /\ [MCNext]_mcVars => StartupInv'
  <2>1. [MCNext]_mcVars => [StartupNext]_startupVars
    BY Zenon DEF MCNext, mcVars
  <2> QED BY <2>1, StepInv
<1>3. FoundInv => InputsExact
  BY DEF FoundInv
<1> QED
  BY <1>1, <1>2, <1>3, FoundStep, PTL DEF MCSpec

-----------------------------------------------------------------------------
(***************************************************************************)
(* Messages and their encodings                                            *)
(***************************************************************************)

U16 == 0 .. B2 - 1
U32 == 0 .. B4 - 1

\* The base and its powers are naturals.
LEMMA BaseType == Base \in Nat /\ Base > 7 /\ B2 \in Nat /\ B3 \in Nat /\ B4 \in Nat
BY RpcAssumption, SMT DEF B2, B3, B4

\* The length of a TASK_MAP_RESP's path is a number; accepted, it is below the
\* limit.
LEMMA PathLength ==
  ASSUME NEW b \in Seq(Byte), ~ (Len(b) < 15),
         NEW n, n = buf_read_u16(b, 14), ~ (n >= MAPREDUCE_PATH_MAX)
  PROVE  15 <= Len(b) /\ n < MAPREDUCE_PATH_MAX
<1>1. 14 \in 1 .. Len(b) /\ 14 + 1 \in 1 .. Len(b)
  BY SMT
<1>2. b[14] \in Nat /\ b[14 + 1] \in Nat
  BY <1>1, BaseType, SMT DEF Byte
<1>3. n \in Nat
  BY <1>2, BaseType, SMT DEF buf_read_u16
<1> QED BY <1>3, RpcAssumption, SMT

\* Dividing a number below k * Base by Base.
LEMMA Digit ==
  ASSUME NEW v \in Nat, NEW k \in Nat, v < k * Base
  PROVE  /\ v \div Base \in Nat /\ v % Base \in Byte
         /\ v \div Base < k
         /\ v = Base * (v \div Base) + (v % Base)
<1>1. /\ v \div Base \in Int /\ v % Base \in Int
  BY BaseType, SMT
<1>2. v = Base * (v \div Base) + (v % Base)
  BY BaseType, SMT
<1>3. 0 <= v % Base /\ v % Base < Base
  BY BaseType, SMT
<1>4. v \div Base >= 0
  BY BaseType, <1>1, <1>2, <1>3, SMT
<1>5. v \div Base < k
  BY BaseType, <1>1, <1>2, <1>3, SMT
<1> QED BY BaseType, <1>1, <1>2, <1>3, <1>4, <1>5, SMT DEF Byte

\* Quotient and remainder are unique.
LEMMA DivUnique ==
  ASSUME NEW v \in Nat, NEW d \in Nat, d > 0, NEW q \in Nat, NEW r \in Nat,
         r < d, v = d * q + r
  PROVE  v \div d = q /\ v % d = r
<1> DEFINE p == v \div d
           s == v % d
<1>1. p \in Int /\ s \in Int /\ v = d * p + s /\ 0 <= s /\ s < d
  BY SMT
<1> HIDE DEF p, s
<1>2. CASE p = q
  <2>1. s = r
    BY <1>1, <1>2, SMT
  <2> QED BY <1>2, <2>1 DEF p, s
<1>3. CASE p < q
  <2>1. d * (q - p) = s - r
    BY <1>1, SMT
  <2>2. d * (q - p) >= d
    BY <1>1, <1>3, SMT
  <2> QED BY <1>1, <2>1, <2>2, SMT
<1>4. CASE p > q
  <2>1. d * (p - q) = r - s
    BY <1>1, SMT
  <2>2. d * (p - q) >= d
    BY <1>1, <1>4, SMT
  <2> QED BY <1>1, <2>1, <2>2, SMT
<1> QED BY <1>1, <1>2, <1>3, <1>4, SMT

\* The four bytes of a number below B4.
LEMMA U32Bytes ==
  ASSUME NEW v \in U32
  PROVE  /\ v \div B3 \in Byte /\ (v \div B2) % Base \in Byte
         /\ (v \div Base) % Base \in Byte /\ v % Base \in Byte
         /\ v = B3 * (v \div B3) + B2 * ((v \div B2) % Base)
                  + Base * ((v \div Base) % Base) + (v % Base)
<1> DEFINE q1 == v \div Base
           q2 == q1 \div Base
           q3 == q2 \div Base
           r0 == v % Base
           r1 == q1 % Base
           r2 == q2 % Base
<1>1. v \in Nat /\ v < B3 * Base /\ B3 = B2 * Base /\ B2 = Base * Base /\ B2 > 0 /\ B3 > 0
  BY BaseType, SMT DEF U32, B4, B3, B2
<1>2. q1 \in Nat /\ r0 \in Byte /\ q1 < B3 /\ v = Base * q1 + r0
  BY <1>1, BaseType, Digit
<1> HIDE DEF q1, r0
<1>3. q2 \in Nat /\ r1 \in Byte /\ q2 < B2 /\ q1 = Base * q2 + r1
  BY <1>1, <1>2, BaseType, Digit, Zenon
<1> HIDE DEF q2, r1
<1>4. q3 \in Nat /\ r2 \in Byte /\ q3 < Base /\ q2 = Base * q3 + r2
  BY <1>1, <1>3, BaseType, Digit, Zenon
<1> HIDE DEF q3, r2
<1>5. v \div B2 = q2
  <2> DEFINE r == Base * r1 + r0
  <2>1. r \in Nat /\ r < B2
    BY <1>1, <1>2, <1>3, BaseType, SMT DEF Byte
  <2>2. v = B2 * q2 + r
    BY <1>1, <1>2, <1>3, BaseType, SMT DEF Byte
  <2> HIDE DEF r
  <2> QED BY <1>1, <1>3, <2>1, <2>2, BaseType, DivUnique, Zenon
<1>6. v \div B3 = q3
  <2> DEFINE t == Base * r2 + r1
             r == Base * t + r0
  <2>1. t \in Nat /\ t < B2
    BY <1>1, <1>3, <1>4, BaseType, SMT DEF Byte
  <2>2. q1 = B2 * q3 + t
    BY <1>1, <1>3, <1>4, BaseType, SMT DEF Byte
  <2> HIDE DEF t
  <2>3. r \in Nat /\ r < B3
    BY <1>1, <1>2, <2>1, BaseType, SMT DEF Byte
  <2>4. v = B3 * q3 + r
    BY <1>1, <1>2, <1>4, <2>1, <2>2, BaseType, SMT DEF Byte
  <2> HIDE DEF r
  <2> QED BY <1>1, <1>4, <2>3, <2>4, BaseType, DivUnique
<1>7. q3 \in Byte
  BY <1>4, BaseType, SMT DEF Byte
<1>8. v = B3 * q3 + B2 * r2 + Base * r1 + r0
  BY <1>1, <1>2, <1>3, <1>4, BaseType, SMT DEF Byte
<1> QED BY <1>2, <1>3, <1>4, <1>5, <1>6, <1>7, <1>8, Zenon DEF q1, q2, r0, r1, r2

Digits(v, a, b, c, d) ==
  /\ v \div B3 = a /\ (v \div B2) % Base = b
  /\ (v \div Base) % Base = c /\ v % Base = d

\* Four bytes are the encoding of the number they are read as.
LEMMA U32Number ==
  ASSUME NEW a \in Byte, NEW b \in Byte, NEW c \in Byte, NEW d \in Byte,
         NEW v, v = B3 * a + B2 * b + Base * c + d
  PROVE  v \in U32 /\ Digits(v, a, b, c, d)
<1> DEFINE t1 == Base * a + b
           t2 == Base * t1 + c
           r1 == Base * c + d
           r2 == Base * (Base * b + c) + d
<1>1. B3 = B2 * Base /\ B2 = Base * Base /\ B2 > 0 /\ B3 > 0 /\ B4 = Base * B3
  BY BaseType, SMT DEF B4, B3, B2
<1>2. /\ a \in Nat /\ a < Base /\ b \in Nat /\ b < Base
      /\ c \in Nat /\ c < Base /\ d \in Nat /\ d < Base
  BY BaseType, SMT DEF Byte
<1>3. t1 \in Nat /\ t1 < B2 /\ t2 \in Nat /\ t2 < B3 /\ v \in Nat /\ v = Base * t2 + d
  <2>1. t1 \in Nat /\ t1 < B2
    BY <1>1, <1>2, BaseType, SMT
  <2>2. t2 = B2 * a + Base * b + c
    BY <1>1, <1>2, BaseType, SMT
  <2>3. v = Base * t2 + d
    BY <1>1, <1>2, <2>2, BaseType, SMT
  <2> HIDE DEF t1
  <2>4. t2 \in Nat /\ t2 < B3
    BY <1>1, <1>2, <2>1, BaseType, SMT
  <2> QED BY <1>2, <2>1, <2>3, <2>4, BaseType, SMT
<1>4. v < B4
  BY <1>1, <1>2, <1>3, BaseType, SMT
<1>5. v \div Base = t2 /\ v % Base = d
  <2> HIDE DEF t2
  <2> QED BY <1>2, <1>3, BaseType, DivUnique
<1>6. t2 % Base = c
  <2> HIDE DEF t1
  <2> QED BY <1>2, <1>3, BaseType, DivUnique
<1>7. v \div B2 = t1
  <2>1. r1 \in Nat /\ r1 < B2 /\ v = B2 * t1 + r1
    BY <1>1, <1>2, BaseType, SMT
  <2> HIDE DEF r1, t1
  <2> QED BY <1>1, <1>3, <2>1, BaseType, DivUnique
<1>8. t1 % Base = b
  BY <1>2, <1>3, BaseType, DivUnique
<1>9. v \div B3 = a
  <2> DEFINE s == Base * b + c
  <2>1. s \in Nat /\ s < B2
    BY <1>1, <1>2, BaseType, SMT
  <2>2. v = B3 * a + r2
    BY <1>1, <1>2, BaseType, SMT
  <2> HIDE DEF s
  <2>3. r2 \in Nat /\ r2 < B3
    <3>1. r2 = Base * s + d
      BY DEF s
    <3> QED BY <1>1, <1>2, <2>1, <3>1, BaseType, SMT
  <2> HIDE DEF r2
  <2> QED BY <1>1, <1>2, <1>3, <2>2, <2>3, BaseType, DivUnique
<1> HIDE DEF t1, t2, r1, r2
<1> QED BY <1>3, <1>4, <1>5, <1>6, <1>7, <1>8, <1>9, BaseType, SMT DEF U32, Digits

\* The two bytes of a 16-bit length.
LEMMA U16Bytes ==
  ASSUME NEW v \in U16
  PROVE  /\ v \div Base \in Byte /\ v % Base \in Byte
         /\ v = Base * (v \div Base) + (v % Base)
<1>1. v \in Nat /\ v < Base * Base
  BY BaseType, SMT DEF U16, B2
<1>2. /\ v \div Base \in Nat /\ v % Base \in Byte
      /\ v \div Base < Base
      /\ v = Base * (v \div Base) + (v % Base)
  BY <1>1, BaseType, Digit, Zenon
<1> QED BY <1>2, BaseType, SMT DEF Byte

\* t is s followed by w.
Joined(t, s, w) ==
  /\ t \in Seq(Byte) /\ Len(t) = Len(s) + Len(w)
  /\ \A i \in 1 .. Len(s) : t[i] = s[i]
  /\ \A j \in 1 .. Len(w) : t[Len(s) + j] = w[j]

\* buf_write_bytes after what is already in the buffer keeps both parts.
LEMMA Concatenated ==
  ASSUME NEW s \in Seq(Byte), NEW w \in Seq(Byte)
  PROVE  Joined(s \o w, s, w)
<1> DEFINE t == s \o w
<1>1. /\ t \in Seq(Byte) /\ Len(t) = Len(s) + Len(w)
      /\ \A i \in 1 .. Len(s) + Len(w) :
           t[i] = IF i <= Len(s) THEN s[i] ELSE w[i - Len(s)]
  BY ConcatProperties, Zenon
<1> HIDE DEF t
<1>2. Len(s) \in Nat /\ Len(w) \in Nat
  OBVIOUS
<1>3. ASSUME NEW i \in 1 .. Len(s)
      PROVE  t[i] = s[i]
  BY <1>1, <1>2, SMT
<1>4. ASSUME NEW j \in 1 .. Len(w)
      PROVE  t[Len(s) + j] = w[j]
  <2>1. Len(s) + j \in 1 .. Len(s) + Len(w) /\ ~ (Len(s) + j <= Len(s)) /\ Len(s) + j - Len(s) = j
    BY <1>2, SMT
  <2> DEFINE k == Len(s) + j
  <2>2. k \in 1 .. Len(s) + Len(w) /\ ~ (k <= Len(s)) /\ k - Len(s) = j
    BY <2>1
  <2> HIDE DEF k
  <2>3. t[k] = IF k <= Len(s) THEN s[k] ELSE w[k - Len(s)]
    BY <1>1, <2>2, Zenon
  <2>4. t[k] = w[j]
    BY <2>2, <2>3, Zenon
  <2> QED BY <2>4 DEF k
<1>5. Joined(t, s, w)
  BY <1>1, <1>3, <1>4, Zenon DEF Joined
<1> QED BY <1>5 DEF t

\* Writing a 32-bit field at the end of a buffer: it reads back as it was, and
\* nothing before it changes.
LEMMA AppendU32 ==
  ASSUME NEW s \in Seq(Byte), NEW v \in U32, NEW t, t = s \o buf_write_u32(v)
  PROVE  /\ t \in Seq(Byte) /\ Len(t) = Len(s) + 4
         /\ \A i \in 1 .. Len(s) : t[i] = s[i]
         /\ buf_read_u32(t, Len(s) + 1) = v
<1> DEFINE w == buf_write_u32(v)
<1>0. t = s \o w
  BY Zenon
<1>1. w \in Seq(Byte) /\ Len(w) = 4 /\ v = B3 * w[1] + B2 * w[2] + Base * w[3] + w[4]
  BY U32Bytes DEF buf_write_u32
<1> HIDE DEF w
<1>2. /\ t \in Seq(Byte) /\ Len(t) = Len(s) + 4
      /\ \A i \in 1 .. Len(s) : t[i] = s[i]
      /\ t[Len(s) + 1] = w[1] /\ t[Len(s) + 2] = w[2]
      /\ t[Len(s) + 3] = w[3] /\ t[Len(s) + 4] = w[4]
  <2>1. 1 \in 1 .. Len(w) /\ 2 \in 1 .. Len(w) /\ 3 \in 1 .. Len(w) /\ 4 \in 1 .. Len(w)
    BY <1>1, SMT
  <2>2. Joined(t, s, w)
    BY <1>0, <1>1, Concatenated, Zenon
  <2> QED BY <1>1, <2>1, <2>2, Zenon DEF Joined
<1>3. /\ Len(s) + 1 + 1 = Len(s) + 2 /\ Len(s) + 1 + 2 = Len(s) + 3
      /\ Len(s) + 1 + 3 = Len(s) + 4
  BY SMT
<1>4. buf_read_u32(t, Len(s) + 1) = v
  BY <1>1, <1>2, <1>3, Zenon DEF buf_read_u32
<1> QED BY <1>2, <1>4

\* Writing a 16-bit field at the end of a buffer, as AppendU32.
LEMMA AppendU16 ==
  ASSUME NEW s \in Seq(Byte), NEW v \in U16, NEW t, t = s \o buf_write_u16(v)
  PROVE  /\ t \in Seq(Byte) /\ Len(t) = Len(s) + 2
         /\ \A i \in 1 .. Len(s) : t[i] = s[i]
         /\ buf_read_u16(t, Len(s) + 1) = v
<1> DEFINE w == buf_write_u16(v)
<1>0. t = s \o w
  OBVIOUS
<1>1. w \in Seq(Byte) /\ Len(w) = 2 /\ v = Base * w[1] + w[2]
  BY U16Bytes DEF buf_write_u16
<1> HIDE DEF w
<1>2. /\ t \in Seq(Byte) /\ Len(t) = Len(s) + 2
      /\ \A i \in 1 .. Len(s) : t[i] = s[i]
      /\ t[Len(s) + 1] = w[1] /\ t[Len(s) + 2] = w[2]
  <2>1. 1 \in 1 .. Len(w) /\ 2 \in 1 .. Len(w)
    BY <1>1, SMT
  <2>2. Joined(t, s, w)
    BY <1>0, <1>1, Concatenated, Zenon
  <2> QED BY <1>1, <2>1, <2>2, Zenon DEF Joined
<1>3. Len(s) + 1 + 1 = Len(s) + 2
  BY SMT
<1>4. buf_read_u16(t, Len(s) + 1) = v
  BY <1>1, <1>2, <1>3, Zenon DEF buf_read_u16
<1> QED BY <1>2, <1>4, Zenon

\* Fields already written read the same in a longer buffer.
LEMMA ReadsSame ==
  ASSUME NEW s \in Seq(Byte), NEW t \in Seq(Byte), NEW at \in Nat, at > 0,
         \A i \in 1 .. Len(s) : t[i] = s[i]
  PROVE  /\ at + 3 <= Len(s) => buf_read_u32(t, at) = buf_read_u32(s, at)
         /\ at + 1 <= Len(s) => buf_read_u16(t, at) = buf_read_u16(s, at)
<1>1. ASSUME at + 3 <= Len(s)
      PROVE  /\ t[at] = s[at] /\ t[at + 1] = s[at + 1]
             /\ t[at + 2] = s[at + 2] /\ t[at + 3] = s[at + 3]
  <2>1. /\ at \in 1 .. Len(s) /\ at + 1 \in 1 .. Len(s)
        /\ at + 2 \in 1 .. Len(s) /\ at + 3 \in 1 .. Len(s)
    BY <1>1, SMT
  <2> QED BY <2>1, Zenon
<1>2. ASSUME at + 1 <= Len(s)
      PROVE  t[at] = s[at] /\ t[at + 1] = s[at + 1]
  <2>1. at \in 1 .. Len(s) /\ at + 1 \in 1 .. Len(s)
    BY <1>2, SMT
  <2> QED BY <2>1, Zenon
<1> QED BY <1>1, <1>2, Zenon DEF buf_read_u32, buf_read_u16

\* A payload that starts with its kind and one, two or three 32-bit fields.
Starts1(p, k, a) ==
  p \in Seq(Byte) /\ Len(p) = 5 /\ p[1] = k /\ buf_read_u32(p, 2) = a

Starts2(p, k, a, b) ==
  /\ p \in Seq(Byte) /\ Len(p) = 9 /\ p[1] = k
  /\ buf_read_u32(p, 2) = a /\ buf_read_u32(p, 6) = b

Starts3(p, k, a, b, c) ==
  /\ p \in Seq(Byte) /\ Len(p) = 13 /\ p[1] = k
  /\ buf_read_u32(p, 2) = a /\ buf_read_u32(p, 6) = b /\ buf_read_u32(p, 10) = c

\* A kind byte and one 32-bit field read back as written, as in a WAIT_RESP.
LEMMA Header1 ==
  ASSUME NEW k \in Byte, NEW a \in U32
  PROVE  Starts1(<<k>> \o buf_write_u32(a), k, a)
<1> DEFINE p0 == <<k>>
           p == p0 \o buf_write_u32(a)
<1>1. p0 \in Seq(Byte) /\ Len(p0) = 1 /\ p0[1] = k
  OBVIOUS
<1> HIDE DEF p0
<1>2. /\ p \in Seq(Byte) /\ Len(p) = Len(p0) + 4
      /\ \A i \in 1 .. Len(p0) : p[i] = p0[i]
      /\ buf_read_u32(p, Len(p0) + 1) = a
  BY <1>1, AppendU32, Zenon
<1> HIDE DEF p
<1>3. Len(p0) + 1 = 2 /\ Len(p0) + 4 = 5 /\ 1 \in 1 .. Len(p0)
  BY <1>1, SMT
<1>4. Starts1(p, k, a)
  BY <1>1, <1>2, <1>3, Zenon DEF Starts1
<1> QED BY <1>4 DEF p, p0

\* A kind byte and two 32-bit fields read back as written, as in a TASK_DONE_REQ.
LEMMA Header2 ==
  ASSUME NEW k \in Byte, NEW a \in U32, NEW b \in U32
  PROVE  Starts2(<<k>> \o buf_write_u32(a) \o buf_write_u32(b), k, a, b)
<1> DEFINE q == <<k>> \o buf_write_u32(a)
           p == q \o buf_write_u32(b)
<1>1. Starts1(q, k, a)
  BY Header1, Zenon
<1> HIDE DEF q
<1>3. /\ p \in Seq(Byte) /\ Len(p) = Len(q) + 4
      /\ \A i \in 1 .. Len(q) : p[i] = q[i]
      /\ buf_read_u32(p, Len(q) + 1) = b
  BY <1>1, AppendU32, Zenon DEF Starts1
<1> HIDE DEF p
<1>4. /\ Len(q) + 1 = 6 /\ Len(q) + 4 = 9 /\ 1 \in 1 .. Len(q)
      /\ 2 \in Nat /\ 2 > 0 /\ 2 + 3 <= Len(q)
  BY <1>1, SMT DEF Starts1
<1>5. buf_read_u32(p, 2) = buf_read_u32(q, 2)
  BY <1>1, <1>3, <1>4, ReadsSame, Zenon DEF Starts1
<1>6. Starts2(p, k, a, b)
  BY <1>1, <1>3, <1>4, <1>5, Zenon DEF Starts1, Starts2
<1> QED BY <1>6 DEF p, q

\* A kind byte and three 32-bit fields read back as written, as in a TASK_*_RESP.
LEMMA Header3 ==
  ASSUME NEW k \in Byte, NEW a \in U32, NEW b \in U32, NEW c \in U32
  PROVE  Starts3(<<k>> \o buf_write_u32(a) \o buf_write_u32(b) \o buf_write_u32(c), k, a, b, c)
<1> DEFINE q == <<k>> \o buf_write_u32(a) \o buf_write_u32(b)
           p == q \o buf_write_u32(c)
<1>1. Starts2(q, k, a, b)
  BY Header2, Zenon
<1> HIDE DEF q
<1>3. /\ p \in Seq(Byte) /\ Len(p) = Len(q) + 4
      /\ \A i \in 1 .. Len(q) : p[i] = q[i]
      /\ buf_read_u32(p, Len(q) + 1) = c
  BY <1>1, AppendU32, Zenon DEF Starts2
<1> HIDE DEF p
<1>4. /\ Len(q) + 1 = 10 /\ Len(q) + 4 = 13 /\ 1 \in 1 .. Len(q)
      /\ 2 \in Nat /\ 2 > 0 /\ 2 + 3 <= Len(q) /\ 6 \in Nat /\ 6 > 0 /\ 6 + 3 <= Len(q)
  BY <1>1, SMT DEF Starts2
<1>5. buf_read_u32(p, 2) = buf_read_u32(q, 2) /\ buf_read_u32(p, 6) = buf_read_u32(q, 6)
  BY <1>1, <1>3, <1>4, ReadsSame, Zenon DEF Starts2
<1>6. Starts3(p, k, a, b, c)
  BY <1>1, <1>3, <1>4, <1>5, Zenon DEF Starts2, Starts3
<1> QED BY <1>6 DEF p, q

-----------------------------------------------------------------------------

TaskDoneReqs ==
  [kind : {RPC_TASK_DONE_REQ}, task_id : U32, attempt_id : U32, result : Byte]

WaitResps == [kind : {RPC_WAIT_RESP}, wait_ms : U32]

TaskReduceResps ==
  [kind : {RPC_TASK_REDUCE_RESP}, task_id : U32, attempt_id : U32, n_map : U32]

TaskMapResps ==
  [kind : {RPC_TASK_MAP_RESP}, task_id : U32, attempt_id : U32, n_reduce : U32,
   input_path : {s \in Seq(Byte) : Len(s) < MAPREDUCE_PATH_MAX}]

\* The kinds are bytes, and different.
LEMMA Kinds ==
  /\ 2 \in Byte /\ 3 \in Byte /\ 4 \in Byte /\ 6 \in Byte
  /\ 13 <= MSG_MAX
BY RpcAssumption, SMT DEF Byte

\* m is encoded as p, which is no longer than the largest message.
Encoded(m, p) ==
  p \in Seq(Byte) /\ Len(p) < 15 + MAPREDUCE_PATH_MAX /\ rpc_encode(m, MSG_MAX) = Done(p)

\* No message is longer than the largest one.
LEMMA Sizes == /\ 10 < 15 + MAPREDUCE_PATH_MAX /\ 5 < 15 + MAPREDUCE_PATH_MAX
               /\ 13 < 15 + MAPREDUCE_PATH_MAX /\ 1 < 15 + MAPREDUCE_PATH_MAX
               /\ MAPREDUCE_PATH_MAX \in Nat
BY RpcAssumption, SMT

\* A TASK_DONE_REQ has an encoding, and its receiver takes that for the message.
LEMMA TaskDoneEncoded ==
  ASSUME NEW m \in TaskDoneReqs
  PROVE  \E b : Encoded(m, b) /\ master_request(b) = Done(m)
<1> DEFINE q == <<6>> \o buf_write_u32(m.task_id) \o buf_write_u32(m.attempt_id)
           w == <<m.result>>
           p == q \o w
<1>1. m.task_id \in U32 /\ m.attempt_id \in U32 /\ m.result \in Byte /\ m.kind = 6
  BY DEF TaskDoneReqs, RPC_TASK_DONE_REQ
<1>2. /\ q \in Seq(Byte) /\ Len(q) = 9 /\ q[1] = 6
      /\ buf_read_u32(q, 2) = m.task_id /\ buf_read_u32(q, 6) = m.attempt_id
  <2>1. Starts2(q, 6, m.task_id, m.attempt_id)
    BY <1>1, Kinds, Header2, Zenon
  <2> QED BY <2>1, Zenon DEF Starts2
<1>3. rpc_encode_task_done_req(m, MSG_MAX) = Written(p, MSG_MAX)
  BY Zenon DEF rpc_encode_task_done_req, RPC_TASK_DONE_REQ
<1>4. w \in Seq(Byte) /\ Len(w) = 1 /\ w[1] = m.result
  BY <1>1
<1> HIDE DEF q, w
<1>5. Joined(p, q, w)
  BY <1>2, <1>4, Concatenated, Zenon
<1> HIDE DEF p
<1>6. p \in Seq(Byte) /\ Len(p) = 10 /\ p[1] = 6 /\ p[10] = m.result
  <2>1. Len(q) + Len(w) = 10 /\ 1 \in 1 .. Len(w) /\ Len(q) + 1 = 10 /\ 1 \in 1 .. Len(q)
    BY <1>2, <1>4, SMT
  <2>2. p[Len(q) + 1] = w[1] /\ p[1] = q[1]
    BY <1>5, <2>1, Zenon DEF Joined
  <2> QED BY <1>2, <1>4, <1>5, <2>1, <2>2, Zenon DEF Joined
<1>7. buf_read_u32(p, 2) = m.task_id /\ buf_read_u32(p, 6) = m.attempt_id
  <2>1. 2 \in Nat /\ 2 > 0 /\ 2 + 3 <= Len(q) /\ 6 \in Nat /\ 6 > 0 /\ 6 + 3 <= Len(q)
    BY <1>2, SMT
  <2>2. \A i \in 1 .. Len(q) : p[i] = q[i]
    BY <1>5, Zenon DEF Joined
  <2> QED BY <1>2, <1>6, <2>1, <2>2, ReadsSame, Zenon
<1>8. rpc_encode(m, MSG_MAX) = Done(p)
  <2>1. rpc_encode_task_done_req(m, MSG_MAX) = Done(p)
    BY <1>3, <1>6, Kinds, RpcAssumption, SMT DEF Written
  <2> QED BY <1>1, <2>1 DEF rpc_encode, RPC_TASK_DONE_REQ, RPC_TASK_MAP_RESP,
                            RPC_TASK_REDUCE_RESP, RPC_WAIT_RESP
<1>9. rpc_decode_task_done_req(p) = Done(m)
  <2>1. m = [kind |-> RPC_TASK_DONE_REQ, task_id |-> m.task_id,
             attempt_id |-> m.attempt_id, result |-> m.result]
    BY DEF TaskDoneReqs
  <2> QED BY <1>6, <1>7, <2>1, Zenon DEF rpc_decode_task_done_req
<1>10. master_request(p) = Done(m)
  BY <1>6, <1>9 DEF master_request, rpc_peek_kind, Done, RPC_TASK_DONE_REQ,
                    RPC_GET_TASK_REQ, RPC_TASK_DONE_ACK
<1> QED BY <1>6, <1>8, <1>10, Sizes, Zenon DEF Encoded

\* master_on_message takes the encoding of a TASK_DONE_REQ for the message the
\* worker reported.
THEOREM TaskDoneRoundTrip ==
  ASSUME NEW m \in TaskDoneReqs
  PROVE  LET e == rpc_encode(m, MSG_MAX)
         IN  e # Fail /\ master_request(e[1]) = Done(m)
  BY TaskDoneEncoded DEF Encoded, Done, Fail

\* A WAIT_RESP has an encoding, and its receiver takes that for the message.
LEMMA WaitEncoded ==
  ASSUME NEW m \in WaitResps
  PROVE  \E b : Encoded(m, b) /\ get_task_answer(b) = Done(m)
<1> DEFINE p == <<4>> \o buf_write_u32(m.wait_ms)
<1>1. m.wait_ms \in U32 /\ m.kind = 4
  BY DEF WaitResps, RPC_WAIT_RESP
<1>2. p \in Seq(Byte) /\ Len(p) = 5 /\ p[1] = 4 /\ buf_read_u32(p, 2) = m.wait_ms
  <2>1. Starts1(p, 4, m.wait_ms)
    BY <1>1, Kinds, Header1, Zenon
  <2> QED BY <2>1, Zenon DEF Starts1
<1>3. rpc_encode_wait_resp(m, MSG_MAX) = Written(p, MSG_MAX)
  BY Zenon DEF rpc_encode_wait_resp, RPC_WAIT_RESP
<1> HIDE DEF p
<1>4. rpc_encode(m, MSG_MAX) = Done(p)
  <2>1. rpc_encode_wait_resp(m, MSG_MAX) = Done(p)
    BY <1>2, <1>3, Kinds, RpcAssumption, SMT DEF Written
  <2> QED BY <1>1, <2>1 DEF rpc_encode, RPC_TASK_DONE_REQ, RPC_TASK_MAP_RESP,
                            RPC_TASK_REDUCE_RESP, RPC_WAIT_RESP
<1>5. rpc_decode_wait_resp(p) = Done(m)
  <2>1. m = [kind |-> RPC_WAIT_RESP, wait_ms |-> m.wait_ms]
    BY DEF WaitResps
  <2> QED BY <1>2, <2>1, Zenon DEF rpc_decode_wait_resp
<1>6. get_task_answer(p) = Done(m)
  BY <1>2, <1>5 DEF get_task_answer, rpc_peek_kind, Done, RPC_TASK_MAP_RESP, RPC_WAIT_RESP,
                    RPC_TASK_REDUCE_RESP, RPC_DONE_RESP, RPC_GET_TASK_REQ, RPC_TASK_DONE_ACK
<1> QED BY <1>2, <1>4, <1>6, Sizes, Zenon DEF Encoded

\* get_task_req of the worker takes the encoding of a WAIT_RESP for the wait the
\* master chose.
THEOREM WaitRoundTrip ==
  ASSUME NEW m \in WaitResps
  PROVE  LET e == rpc_encode(m, MSG_MAX)
         IN  e # Fail /\ get_task_answer(e[1]) = Done(m)
  BY WaitEncoded DEF Encoded, Done, Fail

\* A TASK_REDUCE_RESP has an encoding, and its receiver takes that for the message.
LEMMA TaskReduceEncoded ==
  ASSUME NEW m \in TaskReduceResps
  PROVE  \E b : Encoded(m, b) /\ get_task_answer(b) = Done(m)
<1> DEFINE p == <<3>> \o buf_write_u32(m.task_id) \o buf_write_u32(m.attempt_id)
                  \o buf_write_u32(m.n_map)
<1>1. m.task_id \in U32 /\ m.attempt_id \in U32 /\ m.n_map \in U32 /\ m.kind = 3
  BY DEF TaskReduceResps, RPC_TASK_REDUCE_RESP
<1>2. /\ p \in Seq(Byte) /\ Len(p) = 13 /\ p[1] = 3 /\ buf_read_u32(p, 2) = m.task_id
      /\ buf_read_u32(p, 6) = m.attempt_id /\ buf_read_u32(p, 10) = m.n_map
  <2>1. Starts3(p, 3, m.task_id, m.attempt_id, m.n_map)
    BY <1>1, Kinds, Header3, Zenon
  <2> QED BY <2>1, Zenon DEF Starts3
<1>3. rpc_encode_task_reduce_resp(m, MSG_MAX) = Written(p, MSG_MAX)
  BY Zenon DEF rpc_encode_task_reduce_resp, RPC_TASK_REDUCE_RESP
<1> HIDE DEF p
<1>4. rpc_encode(m, MSG_MAX) = Done(p)
  <2>1. rpc_encode_task_reduce_resp(m, MSG_MAX) = Done(p)
    BY <1>2, <1>3, Kinds, RpcAssumption, Zenon DEF Written
  <2> QED BY <1>1, <2>1 DEF rpc_encode, RPC_TASK_DONE_REQ, RPC_TASK_MAP_RESP,
                            RPC_TASK_REDUCE_RESP, RPC_WAIT_RESP
<1>5. rpc_decode_task_reduce_resp(p) = Done(m)
  <2>1. m = [kind |-> RPC_TASK_REDUCE_RESP, task_id |-> m.task_id,
             attempt_id |-> m.attempt_id, n_map |-> m.n_map]
    BY DEF TaskReduceResps
  <2> QED BY <1>2, <2>1, Zenon DEF rpc_decode_task_reduce_resp
<1>6. get_task_answer(p) = Done(m)
  BY <1>2, <1>5 DEF get_task_answer, rpc_peek_kind, Done, RPC_TASK_MAP_RESP, RPC_WAIT_RESP,
                    RPC_TASK_REDUCE_RESP, RPC_DONE_RESP, RPC_GET_TASK_REQ, RPC_TASK_DONE_ACK
<1> QED BY <1>2, <1>4, <1>6, Sizes, Zenon DEF Encoded

\* get_task_req of the worker takes the encoding of a TASK_REDUCE_RESP for the
\* assignment the master made.
THEOREM TaskReduceRoundTrip ==
  ASSUME NEW m \in TaskReduceResps
  PROVE  LET e == rpc_encode(m, MSG_MAX)
         IN  e # Fail /\ get_task_answer(e[1]) = Done(m)
  BY TaskReduceEncoded DEF Encoded, Done, Fail

\* What follows the first k bytes of a payload is what was appended to them.
LEMMA Appended ==
  ASSUME NEW r \in Seq(Byte), NEW w \in Seq(Byte), NEW p, Joined(p, r, w)
  PROVE  SubSeq(p, Len(r) + 1, Len(r) + Len(w)) = w
<1> DEFINE f == Len(r) + 1
           l == Len(r) + Len(w)
           x == SubSeq(p, f, l)
<1>1. Len(r) \in Nat /\ Len(w) \in Nat
  OBVIOUS
<1>2. f \in Int /\ l \in Int /\ l - f + 1 = Len(w) /\ (f <= l => l - f + 1 = Len(w)) /\ (~ (f <= l) => Len(w) = 0)
  BY <1>1, SMT
<1>3. ASSUME NEW i \in f .. l PROVE p[i] \in Byte
  <2>1. i \in 1 .. Len(p)
    BY <1>1, <1>3, SMT DEF Joined
  <2> QED BY <2>1 DEF Joined
<1>4. ASSUME NEW i \in 1 .. Len(w) PROVE p[f + i - 1] = w[i]
  <2>1. f + i - 1 = Len(r) + i
    BY <1>1, <1>4, SMT
  <2> QED BY <1>4, <2>1, Zenon DEF Joined
<1> HIDE DEF f, l
<1>5. /\ x \in Seq(Byte) /\ Len(x) = IF f <= l THEN l - f + 1 ELSE 0
      /\ \A i \in 1 .. l - f + 1 : x[i] = p[f + i - 1]
  <2>1. \A i \in f .. l : p[i] \in Byte
    BY <1>3, Zenon
  <2>2. x \in Seq(Byte)
    BY <1>2, <2>1, SubSeqProperties, Zenon
  <2>3. Len(x) = IF f <= l THEN l - f + 1 ELSE 0
    BY <1>2, <2>1, SubSeqProperties, Zenon
  <2>4. ASSUME NEW i \in 1 .. l - f + 1 PROVE x[i] = p[f + i - 1]
    BY <1>2, <2>1, <2>4, SMT
  <2> QED BY <2>2, <2>3, <2>4, Zenon
<1> HIDE DEF x
<1>6. Len(x) = Len(w) /\ \A i \in 1 .. Len(x) : x[i] = w[i]
  BY <1>2, <1>4, <1>5, Zenon
<1>7. x = w
  BY <1>5, <1>6, SeqEqual, Zenon
<1> QED BY <1>7 DEF x, f, l

\* A TASK_MAP_RESP has an encoding, and its receiver takes that for the message.
LEMMA TaskMapEncoded ==
  ASSUME NEW m \in TaskMapResps
  PROVE  \E b : Encoded(m, b) /\ get_task_answer(b) = Done(m)
<1> DEFINE n == Len(m.input_path)
           q == <<2>> \o buf_write_u32(m.task_id) \o buf_write_u32(m.attempt_id)
                  \o buf_write_u32(m.n_reduce)
           r == q \o buf_write_u16(n)
           p == r \o m.input_path
<1>1. /\ m.task_id \in U32 /\ m.attempt_id \in U32 /\ m.n_reduce \in U32 /\ m.kind = 2
      /\ m.input_path \in Seq(Byte) /\ n \in Nat /\ n < MAPREDUCE_PATH_MAX
  BY DEF TaskMapResps, RPC_TASK_MAP_RESP
<1>2. n \in U16
  BY <1>1, RpcAssumption, SMT DEF U16, B2
<1>3. Starts3(q, 2, m.task_id, m.attempt_id, m.n_reduce)
  BY <1>1, Kinds, Header3, Zenon
<1>4. rpc_encode_task_map_resp(m, MSG_MAX) = Written(p, MSG_MAX)
  <2>1. ~ (n >= MAPREDUCE_PATH_MAX)
    BY <1>1, RpcAssumption, SMT
  <2> QED BY <2>1, Zenon DEF rpc_encode_task_map_resp, RPC_TASK_MAP_RESP
<1> HIDE DEF q, n
<1>5. /\ r \in Seq(Byte) /\ Len(r) = 15 /\ \A i \in 1 .. Len(q) : r[i] = q[i]
      /\ buf_read_u16(r, 14) = n
  <2>1. /\ r \in Seq(Byte) /\ Len(r) = Len(q) + 2 /\ \A i \in 1 .. Len(q) : r[i] = q[i]
        /\ buf_read_u16(r, Len(q) + 1) = n
    <3>1. q \in Seq(Byte) /\ r = q \o buf_write_u16(n)
      BY <1>3, Zenon DEF Starts3
    <3> HIDE DEF r
    <3> QED BY <1>2, <3>1, AppendU16, Zenon
  <2>2. Len(q) + 2 = 15 /\ Len(q) + 1 = 14
    BY <1>3, SMT DEF Starts3
  <2> QED BY <2>1, <2>2, Zenon
<1> HIDE DEF r
<1>6. Joined(p, r, m.input_path)
  BY <1>1, <1>5, Concatenated, Zenon
<1> HIDE DEF p
<1>7. /\ p \in Seq(Byte) /\ Len(p) = 15 + n /\ p[1] = 2
      /\ SubSeq(p, 16, 15 + n) = m.input_path
  <2>1. p \in Seq(Byte) /\ Len(p) = Len(r) + n /\ \A i \in 1 .. Len(r) : p[i] = r[i]
    BY <1>6, Zenon DEF Joined, n
  <2>2. 1 \in 1 .. Len(r) /\ 1 \in 1 .. Len(q) /\ 15 + 1 = 16
    BY <1>3, <1>5, SMT DEF Starts3
  <2>3. p[1] = 2
    BY <1>3, <1>5, <2>1, <2>2, Zenon DEF Starts3
  <2>4. SubSeq(p, Len(r) + 1, Len(r) + n) = m.input_path
    BY <1>1, <1>5, <1>6, Appended, Zenon DEF n
  <2> QED BY <1>5, <2>1, <2>2, <2>3, <2>4, Zenon
<1>8. /\ buf_read_u32(p, 2) = m.task_id /\ buf_read_u32(p, 6) = m.attempt_id
      /\ buf_read_u32(p, 10) = m.n_reduce /\ buf_read_u16(p, 14) = n
  <2>1. /\ 2 \in Nat /\ 2 > 0 /\ 2 + 3 <= Len(q) /\ 6 \in Nat /\ 6 > 0 /\ 6 + 3 <= Len(q)
        /\ 10 \in Nat /\ 10 > 0 /\ 10 + 3 <= Len(q) /\ 14 \in Nat /\ 14 > 0 /\ 14 + 1 <= Len(r)
        /\ 2 + 3 <= Len(r) /\ 6 + 3 <= Len(r) /\ 10 + 3 <= Len(r)
    BY <1>3, <1>5, SMT DEF Starts3
  <2>2. /\ buf_read_u32(r, 2) = buf_read_u32(q, 2) /\ buf_read_u32(r, 6) = buf_read_u32(q, 6)
        /\ buf_read_u32(r, 10) = buf_read_u32(q, 10)
    BY <1>3, <1>5, <2>1, ReadsSame, Zenon DEF Starts3
  <2>3. \A i \in 1 .. Len(r) : p[i] = r[i]
    BY <1>6, Zenon DEF Joined
  <2>4. /\ buf_read_u32(p, 2) = buf_read_u32(r, 2) /\ buf_read_u32(p, 6) = buf_read_u32(r, 6)
        /\ buf_read_u32(p, 10) = buf_read_u32(r, 10) /\ buf_read_u16(p, 14) = buf_read_u16(r, 14)
    BY <1>5, <1>7, <2>1, <2>3, ReadsSame, Zenon
  <2> QED BY <1>3, <1>5, <2>2, <2>4, Zenon DEF Starts3
<1>9. rpc_encode(m, MSG_MAX) = Done(p)
  <2>1. rpc_encode_task_map_resp(m, MSG_MAX) = Done(p)
    BY <1>1, <1>4, <1>7, RpcAssumption, SMT DEF Written
  <2> QED BY <1>1, <2>1 DEF rpc_encode, RPC_TASK_DONE_REQ, RPC_TASK_MAP_RESP,
                            RPC_TASK_REDUCE_RESP, RPC_WAIT_RESP
<1>10. rpc_decode_task_map_resp(p) = Done(m)
  <2>1. m = [kind |-> RPC_TASK_MAP_RESP, task_id |-> m.task_id, attempt_id |-> m.attempt_id,
             n_reduce |-> m.n_reduce, input_path |-> m.input_path]
    BY Zenon DEF TaskMapResps
  <2>2. ~ (Len(p) < 15) /\ ~ (n >= MAPREDUCE_PATH_MAX \/ Len(p) # 15 + n)
    BY <1>1, <1>7, RpcAssumption, SMT
  <2> QED BY <1>7, <1>8, <2>1, <2>2, Zenon DEF rpc_decode_task_map_resp
<1>11. get_task_answer(p) = Done(m)
  <2>1. rpc_peek_kind(p) = Done(2)
    BY <1>1, <1>7, SMT DEF rpc_peek_kind, RPC_GET_TASK_REQ, RPC_TASK_DONE_ACK
  <2> QED BY <1>10, <2>1 DEF get_task_answer, Done, RPC_TASK_MAP_RESP, RPC_WAIT_RESP,
                    RPC_TASK_REDUCE_RESP, RPC_DONE_RESP
<1>12. Len(p) < 15 + MAPREDUCE_PATH_MAX
  BY <1>1, <1>7, RpcAssumption, SMT
<1> QED BY <1>7, <1>9, <1>11, <1>12, Zenon DEF Encoded

\* get_task_req of the worker takes the encoding of a TASK_MAP_RESP for the
\* assignment the master made, its input path included.
THEOREM TaskMapRoundTrip ==
  ASSUME NEW m \in TaskMapResps
  PROVE  LET e == rpc_encode(m, MSG_MAX)
         IN  e # Fail /\ get_task_answer(e[1]) = Done(m)
  BY TaskMapEncoded DEF Encoded, Done, Fail

\* s is a prefix of b.
Agrees(s, b) == s \in Seq(Byte) /\ \A i \in 1 .. Len(s) : s[i] = b[i]

\* Encoding again the field read after the first bytes of b gives b's bytes.
LEMMA Rewritten ==
  ASSUME NEW b \in Seq(Byte), NEW s, Agrees(s, b), Len(s) + 4 <= Len(b),
         NEW v, v = buf_read_u32(b, Len(s) + 1)
  PROVE  /\ v \in U32 /\ Agrees(s \o buf_write_u32(v), b)
         /\ Len(s \o buf_write_u32(v)) = Len(s) + 4
<1> DEFINE w == buf_write_u32(v)
           n == Len(s)
           t == s \o w
<1>1. s \in Seq(Byte) /\ n \in Nat /\ \A i \in 1 .. n : s[i] = b[i]
  BY DEF Agrees
<1>2. /\ n + 1 \in 1 .. Len(b) /\ n + 1 + 1 \in 1 .. Len(b)
      /\ n + 1 + 2 \in 1 .. Len(b) /\ n + 1 + 3 \in 1 .. Len(b)
  BY <1>1, SMT
<1> DEFINE c1 == b[n + 1]
           c2 == b[n + 1 + 1]
           c3 == b[n + 1 + 2]
           c4 == b[n + 1 + 3]
<1>3. /\ c1 \in Byte /\ c2 \in Byte /\ c3 \in Byte /\ c4 \in Byte
      /\ v = B3 * c1 + B2 * c2 + Base * c3 + c4
  <2>1. c1 \in Byte /\ c2 \in Byte /\ c3 \in Byte /\ c4 \in Byte
    BY <1>2
  <2> QED BY <2>1, Zenon DEF buf_read_u32
<1> HIDE DEF c1, c2, c3, c4
<1>4. v \in U32 /\ w = <<c1, c2, c3, c4>>
  <2>1. v \in U32
    BY <1>3, U32Number, Zenon
  <2>2. Digits(v, c1, c2, c3, c4)
    BY <1>3, U32Number, Zenon
  <2> QED BY <2>1, <2>2 DEF Digits, buf_write_u32
<1> HIDE DEF w
<1>5. w \in Seq(Byte) /\ Len(w) = 4 /\ w[1] = c1 /\ w[2] = c2 /\ w[3] = c3 /\ w[4] = c4
  BY <1>3, <1>4
<1>6. /\ w[1] = b[n + 1] /\ w[2] = b[n + 1 + 1]
      /\ w[3] = b[n + 1 + 2] /\ w[4] = b[n + 1 + 3]
  BY <1>5 DEF c1, c2, c3, c4
<1>7. Joined(t, s, w)
  BY <1>1, <1>5, Concatenated, Zenon
<1> HIDE DEF t
<1>8. ASSUME NEW i \in 1 .. Len(t) PROVE t[i] = b[i]
  <2>1. CASE i \in 1 .. n
    BY <1>1, <1>7, <2>1, Zenon DEF Joined
  <2>2. CASE i \notin 1 .. n
    <3>1. PICK j \in 1 .. 4 : i = n + j
      <4>1. Len(t) = n + 4 /\ n \in Nat
        BY <1>1, <1>5, <1>7, Zenon DEF Joined
      <4> HIDE DEF n
      <4>2. i - n \in 1 .. 4 /\ i = n + (i - n)
        BY <4>1, <2>2, SMTT(60)
      <4> QED BY <4>2, Zenon
    <3>2. t[n + j] = w[j]
      BY <1>5, <1>7, Zenon DEF Joined
    <3>3. w[j] = b[n + j]
      <4>1. n + 1 + 1 = n + 2 /\ n + 1 + 2 = n + 3 /\ n + 1 + 3 = n + 4
        BY <1>1, SMT
      <4>2. j = 1 \/ j = 2 \/ j = 3 \/ j = 4
        BY SMT
      <4> QED BY <1>6, <4>1, <4>2, Zenon
    <3> QED BY <3>1, <3>2, <3>3, Zenon
  <2> QED BY <2>1, <2>2
<1>9. Agrees(t, b) /\ Len(t) = n + 4
  BY <1>5, <1>7, <1>8, Zenon DEF Agrees, Joined
<1> QED BY <1>4, <1>9, Zenon DEF t, w

\* Encoding again the 16-bit field read after the first bytes of b, as Rewritten.
LEMMA Rewritten16 ==
  ASSUME NEW b \in Seq(Byte), NEW s, Agrees(s, b), Len(s) + 2 <= Len(b),
         NEW v, v = buf_read_u16(b, Len(s) + 1)
  PROVE  /\ v \in U16 /\ Agrees(s \o buf_write_u16(v), b)
         /\ Len(s \o buf_write_u16(v)) = Len(s) + 2
<1> DEFINE w == buf_write_u16(v)
           n == Len(s)
           t == s \o w
<1>1. s \in Seq(Byte) /\ n \in Nat /\ \A i \in 1 .. n : s[i] = b[i]
  BY DEF Agrees
<1>2. n + 1 \in 1 .. Len(b) /\ n + 1 + 1 \in 1 .. Len(b)
  BY <1>1, SMT
<1> DEFINE c1 == b[n + 1]
           c2 == b[n + 1 + 1]
<1>3. c1 \in Byte /\ c2 \in Byte /\ v = Base * c1 + c2
  <2>1. c1 \in Byte /\ c2 \in Byte
    BY <1>2
  <2> QED BY <2>1 DEF buf_read_u16
<1> HIDE DEF c1, c2
<1>4. v \in U16 /\ w = <<c1, c2>>
  <2>1. c1 \in Nat /\ c1 < Base /\ c2 \in Nat /\ c2 < Base /\ Base > 0
    BY <1>3, BaseType, SMT DEF Byte
  <2>2. v \in Nat /\ v < B2
    BY <1>3, <2>1, BaseType, SMT DEF B2
  <2>3. v \div Base = c1 /\ v % Base = c2
    BY <1>3, <2>1, <2>2, BaseType, DivUnique, Zenon
  <2> QED BY <2>2, <2>3, BaseType, SMT DEF U16, buf_write_u16
<1> HIDE DEF w
<1>5. w \in Seq(Byte) /\ Len(w) = 2 /\ w[1] = c1 /\ w[2] = c2
  BY <1>3, <1>4
<1>6. w[1] = b[n + 1] /\ w[2] = b[n + 1 + 1]
  BY <1>5 DEF c1, c2
<1>7. Joined(t, s, w)
  BY <1>1, <1>5, Concatenated, Zenon
<1> HIDE DEF t
<1>8. ASSUME NEW i \in 1 .. Len(t) PROVE t[i] = b[i]
  <2>1. CASE i \in 1 .. n
    BY <1>1, <1>7, <2>1, Zenon DEF Joined
  <2>2. CASE i \notin 1 .. n
    <3>1. Len(t) = n + 2 /\ n \in Nat
      BY <1>1, <1>5, <1>7, Zenon DEF Joined
    <3>2. i = n + 1 \/ i = n + 2
      <4> HIDE DEF n
      <4> QED BY <3>1, <2>2, SMTT(60)
    <3>3. t[n + 1] = w[1] /\ t[n + 2] = w[2]
      <4>1. 1 \in 1 .. Len(w) /\ 2 \in 1 .. Len(w)
        BY <1>5, SMT
      <4> QED BY <1>7, <4>1, Zenon DEF Joined
    <3>4. n + 1 + 1 = n + 2
      BY <1>1, SMT
    <3> QED BY <1>6, <3>2, <3>3, <3>4, Zenon
  <2> QED BY <2>1, <2>2
<1>9. Agrees(t, b) /\ Len(t) = n + 2
  BY <1>5, <1>7, <1>8, Zenon DEF Agrees, Joined
<1> QED BY <1>4, <1>9, Zenon DEF t, w

\* The kind of b and the one, two or three 32-bit fields after it, encoded again.
Again1(b) == <<b[1]>> \o buf_write_u32(buf_read_u32(b, 2))
Again2(b) == Again1(b) \o buf_write_u32(buf_read_u32(b, 6))
Again3(b) == Again2(b) \o buf_write_u32(buf_read_u32(b, 10))

\* They are the bytes of b.
LEMMA Rewritten1 ==
  ASSUME NEW b \in Seq(Byte), 5 <= Len(b)
  PROVE  Agrees(Again1(b), b) /\ Len(Again1(b)) = 5
<1> DEFINE p == <<b[1]>>
<1>1. Agrees(p, b) /\ Len(p) = 1
  <2>1. 1 \in 1 .. Len(b)
    BY SMT
  <2>2. b[1] \in Byte
    BY <2>1, ElementOfSeq
  <2> QED BY <2>2 DEF Agrees
<1>2. Again1(b) = p \o buf_write_u32(buf_read_u32(b, 2))
  BY DEF Again1
<1> HIDE DEF p
<1>3. Len(p) + 4 = 5 /\ Len(p) + 1 = 2 /\ Len(p) + 4 <= Len(b)
  BY <1>1, SMT
<1> QED BY <1>1, <1>2, <1>3, Rewritten, Zenon

\* The same of two fields of four bytes.
LEMMA Rewritten2 ==
  ASSUME NEW b \in Seq(Byte), 9 <= Len(b)
  PROVE  Agrees(Again2(b), b) /\ Len(Again2(b)) = 9
<1> DEFINE p == Again1(b)
<1>1. 5 <= Len(b)
  BY SMT
<1>2. Agrees(p, b) /\ Len(p) = 5
  BY <1>1, Rewritten1, Zenon
<1>3. Again2(b) = p \o buf_write_u32(buf_read_u32(b, 6))
  BY DEF Again2
<1> HIDE DEF p
<1>4. Len(p) + 4 = 9 /\ Len(p) + 1 = 6 /\ Len(p) + 4 <= Len(b)
  BY <1>2, SMT
<1> QED BY <1>2, <1>3, <1>4, Rewritten, Zenon

\* The same of three.
LEMMA Rewritten3 ==
  ASSUME NEW b \in Seq(Byte), 13 <= Len(b)
  PROVE  Agrees(Again3(b), b) /\ Len(Again3(b)) = 13
<1> DEFINE p == Again2(b)
<1>1. 9 <= Len(b)
  BY SMT
<1>2. Agrees(p, b) /\ Len(p) = 9
  BY <1>1, Rewritten2, Zenon
<1>3. Again3(b) = p \o buf_write_u32(buf_read_u32(b, 10))
  BY DEF Again3
<1> HIDE DEF p
<1>4. Len(p) + 4 = 13 /\ Len(p) + 1 = 10 /\ Len(p) + 4 <= Len(b)
  BY <1>2, SMT
<1> QED BY <1>2, <1>3, <1>4, Rewritten, Zenon

\* A prefix of b followed by the rest of b is b.
LEMMA Completed ==
  ASSUME NEW b \in Seq(Byte), NEW s, Agrees(s, b), NEW w \in Seq(Byte),
         Len(s) + Len(w) = Len(b), \A j \in 1 .. Len(w) : w[j] = b[Len(s) + j]
  PROVE  s \o w = b
<1> DEFINE t == s \o w
<1>1. s \in Seq(Byte) /\ Len(s) \in Nat /\ Len(w) \in Nat
  BY DEF Agrees
<1>2. Joined(t, s, w)
  BY <1>1, Concatenated, Zenon
<1> HIDE DEF t
<1>3. t \in Seq(Byte) /\ Len(t) = Len(b)
  BY <1>2, Zenon DEF Joined
<1>4. ASSUME NEW i \in 1 .. Len(t) PROVE t[i] = b[i]
  <2>1. CASE i \in 1 .. Len(s)
    BY <1>2, <2>1, Zenon DEF Joined, Agrees
  <2>2. CASE i \notin 1 .. Len(s)
    <3>1. PICK j \in 1 .. Len(w) : i = Len(s) + j
      <4>1. i - Len(s) \in 1 .. Len(w) /\ i = Len(s) + (i - Len(s))
        BY <1>1, <1>3, <2>2, SMT
      <4> QED BY <4>1, Zenon
    <3>2. t[Len(s) + j] = w[j] /\ w[j] = b[Len(s) + j]
      BY <1>2, Zenon DEF Joined
    <3> QED BY <3>1, <3>2, Zenon
  <2> QED BY <2>1, <2>2
<1>5. t = b
  BY <1>3, <1>4, SeqEqual, Zenon
<1> QED BY <1>5, Zenon DEF t

\* The bytes a TASK_DONE_REQ is read from are the bytes its encoder gives.
LEMMA TaskDoneRewritten ==
  ASSUME NEW b \in Seq(Byte), Len(b) = 10, b[1] = 6,
         NEW m, m = [kind |-> RPC_TASK_DONE_REQ, task_id |-> buf_read_u32(b, 2),
                     attempt_id |-> buf_read_u32(b, 6), result |-> b[10]]
  PROVE  rpc_encode(m, MSG_MAX) = Done(b)
<1> DEFINE p == Again2(b)
           w == <<m.result>>
<1>1. /\ m.kind = 6 /\ m.task_id = buf_read_u32(b, 2) /\ m.attempt_id = buf_read_u32(b, 6)
      /\ m.result = b[10]
  BY DEF RPC_TASK_DONE_REQ
<1>2. b[10] \in Byte /\ 9 <= Len(b) /\ Len(b) <= MSG_MAX
  <2>1. 10 \in 1 .. Len(b) /\ 9 <= Len(b) /\ Len(b) <= MSG_MAX
    BY RpcAssumption, SMT
  <2> QED BY <2>1, ElementOfSeq, Zenon
<1>3. Agrees(p, b) /\ Len(p) = 9
  BY <1>2, Rewritten2, Zenon
<1>4. w \in Seq(Byte) /\ Len(w) = 1 /\ w[1] = b[10]
  BY <1>1, <1>2
<1>5. rpc_encode_task_done_req(m, MSG_MAX) = Written(p \o w, MSG_MAX)
  BY <1>1, Zenon DEF rpc_encode_task_done_req, RPC_TASK_DONE_REQ, Again2, Again1
<1> HIDE DEF p, w
<1>6. p \o w = b
  <2>1. ASSUME NEW j \in 1 .. Len(w) PROVE w[j] = b[Len(p) + j]
    <3>1. j = 1 /\ Len(p) + 1 = 10
      BY <1>3, <1>4, SMT
    <3> QED BY <1>4, <3>1, Zenon
  <2>2. Len(p) + Len(w) = Len(b)
    BY <1>3, <1>4, SMT
  <2> QED BY <1>3, <1>4, <2>1, <2>2, Completed, Zenon
<1>7. rpc_encode_task_done_req(m, MSG_MAX) = Done(b)
  BY <1>2, <1>5, <1>6, Zenon DEF Written
<1> QED BY <1>1, <1>7 DEF rpc_encode, RPC_TASK_DONE_REQ, RPC_TASK_MAP_RESP,
                          RPC_TASK_REDUCE_RESP, RPC_WAIT_RESP

\* A string of bytes that agrees with b and is as long is b.
LEMMA Whole ==
  ASSUME NEW b \in Seq(Byte), NEW s, Agrees(s, b), Len(s) = Len(b)
  PROVE  s = b
BY SeqEqual, Zenon DEF Agrees

\* The bytes a WAIT_RESP is read from are the bytes its encoder gives.
LEMMA WaitRewritten ==
  ASSUME NEW b \in Seq(Byte), Len(b) = 5, b[1] = 4,
         NEW m, m = [kind |-> RPC_WAIT_RESP, wait_ms |-> buf_read_u32(b, 2)]
  PROVE  rpc_encode(m, MSG_MAX) = Done(b)
<1> DEFINE p == Again1(b)
<1>1. m.kind = 4 /\ m.wait_ms = buf_read_u32(b, 2)
  BY Zenon DEF RPC_WAIT_RESP
<1>2. 5 <= Len(b) /\ Len(b) <= MSG_MAX
  BY RpcAssumption, SMT
<1>3. Agrees(p, b) /\ Len(p) = 5
  BY <1>2, Rewritten1, Zenon
<1>4. rpc_encode_wait_resp(m, MSG_MAX) = Written(p, MSG_MAX)
  BY <1>1, Zenon DEF rpc_encode_wait_resp, RPC_WAIT_RESP, Again1
<1> HIDE DEF p
<1>5. p = b
  BY <1>3, Whole, Zenon
<1>6. rpc_encode_wait_resp(m, MSG_MAX) = Done(b)
  BY <1>2, <1>4, <1>5, Zenon DEF Written
<1> QED BY <1>1, <1>6 DEF rpc_encode, RPC_TASK_DONE_REQ, RPC_TASK_MAP_RESP,
                          RPC_TASK_REDUCE_RESP, RPC_WAIT_RESP

\* The bytes a TASK_REDUCE_RESP is read from are the bytes its encoder gives.
LEMMA TaskReduceRewritten ==
  ASSUME NEW b \in Seq(Byte), Len(b) = 13, b[1] = 3,
         NEW m, m = [kind |-> RPC_TASK_REDUCE_RESP, task_id |-> buf_read_u32(b, 2),
                     attempt_id |-> buf_read_u32(b, 6), n_map |-> buf_read_u32(b, 10)]
  PROVE  rpc_encode(m, MSG_MAX) = Done(b)
<1> DEFINE p == Again3(b)
<1>1. /\ m.kind = 3 /\ m.task_id = buf_read_u32(b, 2) /\ m.attempt_id = buf_read_u32(b, 6)
      /\ m.n_map = buf_read_u32(b, 10)
  BY Zenon DEF RPC_TASK_REDUCE_RESP
<1>2. 13 <= Len(b) /\ Len(b) <= MSG_MAX
  BY RpcAssumption, SMT
<1>3. Agrees(p, b) /\ Len(p) = 13
  BY <1>2, Rewritten3, Zenon
<1>4. rpc_encode_task_reduce_resp(m, MSG_MAX) = Written(p, MSG_MAX)
  BY <1>1, Zenon DEF rpc_encode_task_reduce_resp, RPC_TASK_REDUCE_RESP, Again3, Again2, Again1
<1> HIDE DEF p
<1>5. p = b
  BY <1>3, Whole, Zenon
<1>6. rpc_encode_task_reduce_resp(m, MSG_MAX) = Done(b)
  BY <1>2, <1>4, <1>5, Zenon DEF Written
<1> QED BY <1>1, <1>6 DEF rpc_encode, RPC_TASK_DONE_REQ, RPC_TASK_MAP_RESP,
                          RPC_TASK_REDUCE_RESP, RPC_WAIT_RESP

\* The bytes a TASK_MAP_RESP is read from are the bytes its encoder gives, the
\* path and its length included.
LEMMA TaskMapRewritten ==
  ASSUME NEW b \in Seq(Byte), NEW n, n = buf_read_u16(b, 14), n < MAPREDUCE_PATH_MAX,
         15 <= Len(b), Len(b) = 15 + n, b[1] = 2,
         NEW m, m = [kind |-> RPC_TASK_MAP_RESP, task_id |-> buf_read_u32(b, 2),
                     attempt_id |-> buf_read_u32(b, 6), n_reduce |-> buf_read_u32(b, 10),
                     input_path |-> SubSeq(b, 16, 15 + n)]
  PROVE  rpc_encode(m, MSG_MAX) = Done(b)
<1> DEFINE p == Again3(b)
           r == p \o buf_write_u16(n)
           w == SubSeq(b, 16, 15 + n)
<1>1. /\ m.kind = 2 /\ m.task_id = buf_read_u32(b, 2) /\ m.attempt_id = buf_read_u32(b, 6)
      /\ m.n_reduce = buf_read_u32(b, 10) /\ m.input_path = w
  BY Zenon DEF RPC_TASK_MAP_RESP
<1>2. 13 <= Len(b)
  BY SMT
<1>3. Agrees(p, b) /\ Len(p) = 13
  BY <1>2, Rewritten3, Zenon
<1> HIDE DEF p
<1>4. n \in U16 /\ Agrees(r, b) /\ Len(r) = 15
  <2>1. Len(p) + 2 = 15 /\ Len(p) + 1 = 14 /\ Len(p) + 2 <= Len(b)
    BY <1>3, SMT
  <2> QED BY <1>3, <2>1, Rewritten16, Zenon
<1>5. n \in Nat /\ Len(b) <= MSG_MAX
  BY <1>4, RpcAssumption, BaseType, SMTT(30) DEF U16
<1>6. w \in Seq(Byte) /\ Len(w) = n
  BY <1>5, SMTT(30)
<1>7. ASSUME NEW j \in 1 .. Len(w) PROVE w[j] = b[Len(r) + j]
  <2>1. j \in 1 .. n /\ Len(r) + j = 16 + j - 1
    BY <1>4, <1>5, <1>6, SMTT(30)
  <2>2. w[j] = b[16 + j - 1]
    BY <1>5, <2>1, SMTT(30)
  <2> QED BY <2>1, <2>2, Zenon
<1>8. rpc_encode_task_map_resp(m, MSG_MAX) = Written(r \o w, MSG_MAX)
  <2>1. ~ (Len(m.input_path) >= MAPREDUCE_PATH_MAX)
    BY <1>1, <1>5, <1>6, RpcAssumption, SMTT(30)
  <2>2. Len(m.input_path) = n
    BY <1>1, <1>6
  <2> QED BY <1>1, <2>1, <2>2, Zenon DEF rpc_encode_task_map_resp, RPC_TASK_MAP_RESP, p, Again3,
                                              Again2, Again1
<1> HIDE DEF r, w
<1>9. r \o w = b
  <2>1. Len(r) + Len(w) = Len(b)
    BY <1>4, <1>6
  <2> QED BY <1>4, <1>6, <1>7, <2>1, Completed, Zenon
<1>10. rpc_encode_task_map_resp(m, MSG_MAX) = Done(b)
  BY <1>5, <1>8, <1>9, Zenon DEF Written
<1> QED BY <1>1, <1>10 DEF rpc_encode, RPC_TASK_DONE_REQ, RPC_TASK_MAP_RESP,
                          RPC_TASK_REDUCE_RESP, RPC_WAIT_RESP

\* The master accepts as a TASK_DONE_REQ only the bytes its encoder gives for
\* that message: a payload with a byte missing, or one too many, is refused.
THEOREM TaskDoneCanonical ==
  ASSUME NEW b \in Seq(Byte), NEW m \in TaskDoneReqs, master_request(b) = Done(m)
  PROVE  rpc_encode(m, MSG_MAX) = Done(b)
<1>1. m.kind = 6
  BY DEF TaskDoneReqs, RPC_TASK_DONE_REQ
<1>2. rpc_peek_kind(b) = Done(6) /\ rpc_decode_task_done_req(b) = Done(m)
  BY <1>1 DEF master_request, Bare, Done, Fail, RPC_TASK_DONE_REQ, RPC_GET_TASK_REQ
<1>3. b[1] = 6
  BY <1>2, Zenon DEF rpc_peek_kind, Done, Fail
<1>4. /\ Len(b) = 10
      /\ m = [kind |-> RPC_TASK_DONE_REQ, task_id |-> buf_read_u32(b, 2),
              attempt_id |-> buf_read_u32(b, 6), result |-> b[10]]
  BY <1>2 DEF rpc_decode_task_done_req, Done, Fail
<1> QED BY <1>3, <1>4, TaskDoneRewritten, Zenon

-----------------------------------------------------------------------------
(***************************************************************************)
(* A worker and the master                                                 *)
(***************************************************************************)

\* The kinds without a body are encoded as one byte.
LEMMA BareEncoded ==
  ASSUME NEW k \in {RPC_GET_TASK_REQ, RPC_DONE_RESP, RPC_TASK_DONE_ACK}
  PROVE  Encoded([kind |-> k], <<k>>)
<1> DEFINE m == [kind |-> k]
<1>1. k \in Byte /\ 1 <= MSG_MAX
  BY RpcAssumption, SMT DEF Byte, RPC_GET_TASK_REQ, RPC_DONE_RESP, RPC_TASK_DONE_ACK
<1>2. <<k>> \in Seq(Byte) /\ Len(<<k>>) = 1
  BY <1>1
<1>3. Written(<<k>>, MSG_MAX) = Done(<<k>>)
  BY <1>1, <1>2, Zenon DEF Written
<1>4. rpc_encode(m, MSG_MAX) = Written(<<k>>, MSG_MAX)
  BY DEF rpc_encode, rpc_encode_empty, RPC_TASK_DONE_REQ, RPC_TASK_MAP_RESP, RPC_GET_TASK_REQ,
         RPC_DONE_RESP, RPC_TASK_DONE_ACK, RPC_TASK_REDUCE_RESP, RPC_WAIT_RESP
<1> QED BY <1>2, <1>3, <1>4, Sizes, Zenon DEF Encoded

\* The paths that are tried are strings of bytes that fit input_path.
LEMMA PathType ==
  ASSUME NEW s \in Paths
  PROVE  s \in {t \in Seq(Byte) : Len(t) < MAPREDUCE_PATH_MAX}
<1>1. PICK n \in 0 .. MAPREDUCE_PATH_MAX - 1 : s \in [1 .. n -> PathBytes]
  BY Zenon DEF Paths
<1>2. n \in Nat /\ n < MAPREDUCE_PATH_MAX
  BY RpcAssumption, SMT
<1>3. s \in [1 .. n -> Byte]
  BY <1>1, ConversationAssumption
<1> QED BY <1>2, <1>3

\* The master takes the encoding of a request for that request.
LEMMA RequestEncoded ==
  ASSUME NEW m \in Requests
  PROVE  \E b : Encoded(m, b) /\ master_request(b) = Done(m)
<1>1. CASE m = [kind |-> RPC_GET_TASK_REQ]
  <2>1. Encoded(m, <<RPC_GET_TASK_REQ>>)
    BY <1>1, BareEncoded
  <2>2. master_request(<<RPC_GET_TASK_REQ>>) = Done(m)
    <3>1. rpc_peek_kind(<<RPC_GET_TASK_REQ>>) = Done(RPC_GET_TASK_REQ)
      BY SMT DEF rpc_peek_kind, RPC_GET_TASK_REQ, RPC_TASK_DONE_ACK
    <3>2. Done(RPC_GET_TASK_REQ) # Done(RPC_TASK_DONE_REQ)
      BY DEF Done, RPC_GET_TASK_REQ, RPC_TASK_DONE_REQ
    <3> QED BY <1>1, <3>1, <3>2, Zenon DEF master_request, Bare
  <2> QED BY <2>1, <2>2, Zenon
<1>2. CASE m # [kind |-> RPC_GET_TASK_REQ]
  <2>1. m \in TaskDoneReqs
    <3>1. {0, 1} \subseteq Byte /\ Numbers \subseteq U32
      BY RpcAssumption, ConversationAssumption, SMT DEF Byte, U32
    <3> QED BY <1>2, <3>1, Zenon DEF Requests, TaskDoneReqs
  <2> QED BY <2>1, TaskDoneEncoded, Zenon
<1> QED BY <1>1, <1>2, Zenon

\* The worker takes the encoding of an answer to its request for that answer.
LEMMA AnswerEncoded ==
  ASSUME NEW r, NEW m \in Answers(r)
  PROVE  \E b : /\ Encoded(m, b)
                /\ r.kind # RPC_TASK_DONE_REQ => get_task_answer(b) = Done(m)
                /\ r.kind = RPC_TASK_DONE_REQ => task_done_answer(b) = Done(m)
<1>1. CASE r.kind # RPC_TASK_DONE_REQ
  <2>1. Answers(r) = [kind : {RPC_TASK_MAP_RESP}, task_id : Numbers, attempt_id : Numbers,
                      n_reduce : Numbers, input_path : Paths] \cup
                     [kind : {RPC_TASK_REDUCE_RESP}, task_id : Numbers, attempt_id : Numbers,
                      n_map : Numbers] \cup
                     [kind : {RPC_WAIT_RESP}, wait_ms : Numbers] \cup
                     {[kind |-> RPC_DONE_RESP]}
    BY <1>1, Zenon DEF Answers
  <2>2. Numbers \subseteq U32
    BY ConversationAssumption DEF U32
  <2>3. CASE m \in [kind : {RPC_TASK_MAP_RESP}, task_id : Numbers, attempt_id : Numbers,
                    n_reduce : Numbers, input_path : Paths]
    <3>1. Paths \subseteq {t \in Seq(Byte) : Len(t) < MAPREDUCE_PATH_MAX}
      BY PathType, Zenon
    <3> DEFINE T == {t \in Seq(Byte) : Len(t) < MAPREDUCE_PATH_MAX}
    <3>2. Paths \subseteq T
      BY <3>1
    <3> HIDE DEF T
    <3>3. m \in [kind : {RPC_TASK_MAP_RESP}, task_id : U32, attempt_id : U32, n_reduce : U32,
                 input_path : T]
      BY <2>2, <2>3, <3>2
    <3>4. m \in TaskMapResps
      BY <3>3, Zenon DEF T, TaskMapResps
    <3> QED BY <1>1, <3>4, TaskMapEncoded, Zenon
  <2>4. CASE m \in [kind : {RPC_TASK_REDUCE_RESP}, task_id : Numbers, attempt_id : Numbers,
                    n_map : Numbers]
    <3>1. m \in TaskReduceResps
      BY <2>2, <2>4, Zenon DEF TaskReduceResps
    <3> QED BY <1>1, <3>1, TaskReduceEncoded, Zenon
  <2>5. CASE m \in [kind : {RPC_WAIT_RESP}, wait_ms : Numbers]
    <3>1. m \in WaitResps
      BY <2>2, <2>5 DEF WaitResps
    <3> QED BY <1>1, <3>1, WaitEncoded, Zenon
  <2>6. CASE m = [kind |-> RPC_DONE_RESP]
    <3>1. Encoded(m, <<RPC_DONE_RESP>>)
      BY <2>6, BareEncoded
    <3>2. get_task_answer(<<RPC_DONE_RESP>>) = Done(m)
      BY <2>6 DEF get_task_answer, rpc_peek_kind, Bare, Done, RPC_TASK_MAP_RESP, RPC_WAIT_RESP,
                  RPC_TASK_REDUCE_RESP, RPC_DONE_RESP, RPC_GET_TASK_REQ, RPC_TASK_DONE_ACK
    <3> QED BY <1>1, <3>1, <3>2, Zenon
  <2> QED BY <2>1, <2>3, <2>4, <2>5, <2>6, Zenon
<1>2. CASE r.kind = RPC_TASK_DONE_REQ
  <2>2. m = [kind |-> RPC_TASK_DONE_ACK]
    BY <1>2, Zenon DEF Answers
  <2>3. Encoded(m, <<RPC_TASK_DONE_ACK>>)
    BY <2>2, BareEncoded, Zenon
  <2>4. task_done_answer(<<RPC_TASK_DONE_ACK>>) = Done(m)
    BY <2>2 DEF task_done_answer, rpc_peek_kind, Bare, Done, RPC_GET_TASK_REQ, RPC_TASK_DONE_ACK
  <2> QED BY <1>2, <2>3, <2>4, Zenon
<1> QED BY <1>1, <1>2

\* The length of an encoded message fits the header and the buffers.
LEMMA EncodedSize ==
  ASSUME NEW n \in Nat, n < 15 + MAPREDUCE_PATH_MAX
  PROVE  n \in U32 /\ n <= MSG_MAX
<1>1. B2 >= 64
  BY RpcAssumption, SMT DEF B2
<1>2. B3 >= B2 /\ B4 >= 8 * B2
  <2>1. B3 >= 8 * B2
    BY BaseType, <1>1, SMT DEF B3
  <2>2. B4 >= 8 * B3
    BY BaseType, <1>1, <2>1, SMT DEF B4
  <2> QED BY BaseType, <1>1, <2>1, <2>2, SMT
<1>3. MAPREDUCE_PATH_MAX < B2
  BY RpcAssumption DEF B2
<1> QED BY <1>1, <1>2, <1>3, BaseType, RpcAssumption, SMT DEF U32

-----------------------------------------------------------------------------
(***************************************************************************)
(* Frames                                                                  *)
(***************************************************************************)

\* The header of a frame holds the length of the payload, which follows it.
LEMMA FrameShape ==
  ASSUME NEW e \in Seq(Byte), Len(e) \in U32, NEW f, f = send_framed(e)
  PROVE  /\ f \in Seq(Byte) /\ Len(f) = 4 + Len(e) /\ PayloadLen(f) = Len(e)
         /\ Payload(f) = e
<1> DEFINE n == Len(e)
           w == buf_write_u32(n)
<1>1. w \in Seq(Byte) /\ Len(w) = 4 /\ n = B3 * w[1] + B2 * w[2] + Base * w[3] + w[4]
  BY U32Bytes DEF buf_write_u32
<1>2. f = w \o e
  BY DEF send_framed
<1> HIDE DEF w
<1>3. Joined(f, w, e)
  BY <1>1, <1>2, Concatenated, Zenon
<1>4. f[1] = w[1] /\ f[2] = w[2] /\ f[3] = w[3] /\ f[4] = w[4]
  <2>1. 1 \in 1 .. Len(w) /\ 2 \in 1 .. Len(w) /\ 3 \in 1 .. Len(w) /\ 4 \in 1 .. Len(w)
    BY <1>1, SMT
  <2> QED BY <1>3, <2>1, Zenon DEF Joined
<1>5. PayloadLen(f) = n
  <2>1. 1 + 1 = 2 /\ 1 + 2 = 3 /\ 1 + 3 = 4
    BY SMT
  <2> QED BY <1>1, <1>4, <2>1, Zenon DEF PayloadLen, buf_read_u32
<1>6. Payload(f) = e
  <2>1. SubSeq(f, Len(w) + 1, Len(w) + Len(e)) = e
    BY <1>1, <1>3, Appended, Zenon
  <2> QED BY <1>1, <1>5, <2>1, Zenon DEF Payload, FRAME_HDR_SIZE
<1> QED BY <1>1, <1>3, <1>5, <1>6, Zenon DEF Joined

\* What has arrived of the frame of e: its header, once there, holds e's length;
\* it is a frame only when nothing is missing, and then its payload is e and
\* nothing follows it.
LEMMA FramePrefix ==
  ASSUME NEW e \in Seq(Byte), Len(e) \in U32, NEW s \in Seq(Byte), NEW r \in Seq(Byte),
         s \o r = send_framed(e)
  PROVE  /\ HasHeader(s) => PayloadLen(s) = Len(e)
         /\ HasFrame(s) => /\ r = << >> /\ Payload(s) = e
                           /\ SubSeq(s, FRAME_HDR_SIZE + PayloadLen(s) + 1, Len(s)) = << >>
<1> DEFINE f == send_framed(e)
<1>1. /\ f \in Seq(Byte) /\ Len(f) = 4 + Len(e) /\ PayloadLen(f) = Len(e)
      /\ Payload(f) = e
  BY FrameShape, Zenon
<1>2. Joined(f, s, r)
  BY Concatenated, Zenon
<1>3. f = s \o r
  OBVIOUS
<1> HIDE DEF f
<1>4. Len(f) = Len(s) + Len(r) /\ Len(s) \in Nat /\ Len(r) \in Nat /\ Len(e) \in Nat
  BY <1>2 DEF Joined
<1>5. ASSUME HasHeader(s) PROVE PayloadLen(s) = Len(e)
  <2>1. /\ 1 \in 1 .. Len(s) /\ 1 + 1 \in 1 .. Len(s) /\ 1 + 2 \in 1 .. Len(s)
        /\ 1 + 3 \in 1 .. Len(s)
    BY <1>4, <1>5, SMT DEF HasHeader, FRAME_HDR_SIZE
  <2>2. /\ f[1] = s[1] /\ f[1 + 1] = s[1 + 1] /\ f[1 + 2] = s[1 + 2]
        /\ f[1 + 3] = s[1 + 3]
    BY <1>2, <2>1, Zenon DEF Joined
  <2>3. PayloadLen(s) = PayloadLen(f)
    BY <2>2, Zenon DEF PayloadLen, buf_read_u32
  <2> QED BY <1>1, <2>3
<1>6. ASSUME HasFrame(s)
      PROVE  /\ r = << >> /\ Payload(s) = e
             /\ SubSeq(s, FRAME_HDR_SIZE + PayloadLen(s) + 1, Len(s)) = << >>
  <2>1. PayloadLen(s) = Len(e) /\ Len(s) >= 4 + Len(e)
    BY <1>5, <1>6 DEF HasFrame, FRAME_HDR_SIZE
  <2>2. Len(r) = 0 /\ Len(s) = 4 + Len(e)
    BY <1>1, <1>4, <2>1, SMT
  <2>3. r = << >>
    BY <2>2
  <2>4. s = f
    <3>1. s \o << >> = s
      OBVIOUS
    <3> QED BY <1>3, <2>3, <3>1, Zenon
  <2>5. SubSeq(s, 4 + Len(e) + 1, Len(s)) = << >>
    <3>1. 4 + Len(e) + 1 > Len(s)
      BY <2>2, <1>4, SMT
    <3> QED BY <2>2, <1>4, <3>1, SMT
  <2> QED BY <1>1, <2>1, <2>3, <2>4, <2>5, Zenon DEF FRAME_HDR_SIZE
<1> QED BY <1>5, <1>6

-----------------------------------------------------------------------------
(***************************************************************************)
(* The conversation                                                        *)
(***************************************************************************)

ConversationType ==
  /\ left \in [Processes -> Seq(Byte)] /\ stream \in [Processes -> Seq(Byte)]
  /\ said = [p \in Processes |-> said[p]] /\ heard = [p \in Processes |-> heard[p]]
  /\ pc \in [Processes -> {"send", "recv"}]
  /\ killed \subseteq Processes /\ closed \subseteq Processes

\* Nothing of p is under way.
Idle(p) == left[p] = << >> /\ stream[p] = << >>

\* The frame of what p said is under way: some of its bytes were written, and
\* p still has the others unless it was killed.
UnderWay(p) ==
  \E e, r : /\ Encoded(said[p], e) /\ r \in Seq(Byte)
            /\ stream[p] \o r = send_framed(e)
            /\ left[p] = r \/ (p \in killed /\ left[p] = << >>)

\* The four phases of the conversation: the worker is about to ask, its request
\* is under way, the master is about to answer, its answer is under way.
Asking ==
  /\ pc["worker"] = "send" /\ pc["master"] = "recv"
  /\ Idle("worker") /\ Idle("master")
  /\ heard["worker"] # Nothing => said["master"] = heard["worker"]

Asked ==
  /\ pc["worker"] = "recv" /\ pc["master"] = "recv"
  /\ said["worker"] \in Requests
  /\ UnderWay("worker") /\ Idle("master")

Answering ==
  /\ pc["worker"] = "recv" /\ pc["master"] = "send"
  /\ said["worker"] \in Requests /\ heard["master"] = said["worker"]
  /\ Idle("worker") /\ Idle("master")

Told ==
  /\ pc["worker"] = "recv" /\ pc["master"] = "recv"
  /\ said["worker"] \in Requests /\ said["master"] \in Answers(said["worker"])
  /\ Idle("worker") /\ UnderWay("master")

\* A payload no program sent: whoever sent it is gone, and says nothing more.
Stranger ==
  \E p \in Processes : said[p] = Foreign /\ p \in killed /\ pc[p] = "recv"

Phases == Stranger \/ Asking \/ Asked \/ Answering \/ Told

\* While nobody is killed, the worker ends the conversation first, once told DONE.
Endings ==
  closed # {} /\ killed = {} =>
    "worker" \in closed /\ pc["worker"] = "send" /\ said["master"].kind = RPC_DONE_RESP

ConversationInv == ConversationType /\ Phases /\ Endings

\* The two processes and the ways of the stream.
LEMMA Peers ==
  /\ Processes = {"worker", "master"} /\ "worker" # "master" /\ "send" # "recv"
  /\ Peer("worker") = "master" /\ Peer("master") = "worker"
BY DEF Processes, Peer

\* Nothing is written of no frame.
LEMMA NothingYet == ~ HasHeader(<< >>) /\ ~ HasFrame(<< >>)
BY SMT DEF HasHeader, HasFrame, FRAME_HDR_SIZE

\* What each side takes a payload for.
LEMMA Meanings ==
  ASSUME NEW b
  PROVE  /\ Meaning("master", b) = master_request(b)
         /\ said["worker"].kind = RPC_GET_TASK_REQ => Meaning("worker", b) = get_task_answer(b)
         /\ said["worker"].kind # RPC_GET_TASK_REQ => Meaning("worker", b) = task_done_answer(b)
<1>1. "worker" # "master"
  OBVIOUS
<1> QED BY <1>1, Zenon DEF Meaning

\* The payloads no program sent are bytes; their frame is well formed.
LEMMA StrangeFrame ==
  ASSUME NEW b \in Payloads
  PROVE  b \in Seq(Byte) /\ Len(b) \in U32 /\ send_framed(b) \in Seq(Byte)
<1>1. b \in Seq(Byte) /\ Len(b) \in U32
  <2>1. CASE b = << >>
    BY <2>1, BaseType, ConversationAssumption, SMT DEF U32
  <2>2. CASE b # << >>
    <3> DEFINE T == UNION {[1 .. l -> 0 .. 2] : l \in 0 .. MaxTail}
               Z(n) == [i \in 1 .. n |-> 1]
               G(k, n, t) == <<k>> \o Z(n) \o t
               P == {G(k, n, t) : k \in 0 .. 8, n \in 0 .. MaxLead, t \in T}
    <3>a. Payloads = P \cup {<< >>}
      BY DEF Payloads
    <3> HIDE DEF T, Z, G
    <3>b. b \in P
      <4> HIDE DEF P
      <4> QED BY <2>2, <3>a, Zenon
    <3>0. PICK k \in 0 .. 8, n \in 0 .. MaxLead, t \in T : b = G(k, n, t)
      BY <3>b, SMT
    <3>1. PICK l \in 0 .. MaxTail : t \in [1 .. l -> 0 .. 2]
      BY Zenon DEF T
    <3> DEFINE x == <<k>>
               y == Z(n)
    <3>2. x \in Seq(Byte) /\ Len(x) = 1
      BY ConversationAssumption, RpcAssumption, SMT DEF Byte
    <3>3. n \in Nat /\ l \in Nat /\ 1 + n + l \in U32
      BY ConversationAssumption, BaseType, SMT DEF U32
    <3>4. y \in Seq(Byte) /\ Len(y) = n
      <4>1. 1 \in Byte
        BY RpcAssumption, SMT DEF Byte
      <4>2. y \in [1 .. n -> Byte]
        BY <4>1, Zenon DEF Z
      <4> HIDE DEF y
      <4> QED BY <3>3, <4>2
    <3>5. t \in Seq(Byte) /\ Len(t) = l
      <4>1. 0 .. 2 \subseteq Byte
        BY RpcAssumption, SMT DEF Byte
      <4>2. t \in [1 .. l -> Byte]
        BY <3>1, <4>1
      <4> QED BY <3>3, <4>2
    <3>6. b = (x \o y) \o t
      BY <3>0, Zenon DEF G
    <3> HIDE DEF x, y
    <3>7. x \o y \in Seq(Byte) /\ Len(x \o y) = 1 + n
      <4>1. Joined(x \o y, x, y)
        BY <3>2, <3>4, Concatenated, Zenon
      <4>2. Len(x) + Len(y) = 1 + n
        BY <3>2, <3>4, Zenon
      <4> QED BY <4>1, <4>2, Zenon DEF Joined
    <3> DEFINE z == x \o y
    <3>8. z \in Seq(Byte) /\ Len(z) = 1 + n /\ b = z \o t
      BY <3>6, <3>7
    <3> HIDE DEF z
    <3>9. b \in Seq(Byte) /\ Len(b) = (1 + n) + l
      BY <3>5, <3>8, Concatenated, Zenon DEF Joined
    <3> QED BY <3>3, <3>9, Zenon
  <2> QED BY <2>1, <2>2, Zenon
<1> QED BY <1>1, FrameShape, Zenon

\* The conversation starts in its first phase, or with a stranger.
LEMMA ConversationInit == Init => ConversationInv
<1>1. ASSUME Connected PROVE ConversationInv
  BY <1>1, Peers DEF Connected, ConversationInv, ConversationType, Phases, Asking, Idle, Endings,
                     Nothing
<1>2. ASSUME NEW p \in Processes, NEW b \in Payloads,
             NEW asked \in {RPC_GET_TASK_REQ, RPC_TASK_DONE_REQ}, Misconnected(p, b, asked)
      PROVE  ConversationInv
  <2>1. send_framed(b) \in Seq(Byte) /\ Peer(p) \in Processes /\ Peer(p) # p
    BY StrangeFrame, Peers, Zenon
  <2>2. ConversationType
    BY <1>2, <2>1 DEF Misconnected, ConversationType
  <2>3. Stranger
    BY <1>2, <2>1, Zenon DEF Misconnected, Stranger
  <2> QED BY <1>2, <2>2, <2>3, Zenon DEF Misconnected, ConversationInv, Phases, Endings
<1> QED BY <1>1, <1>2, Zenon DEF Init

\* A message has one encoding.
LEMMA EncodedOnce ==
  ASSUME NEW m, NEW a, NEW b, Encoded(m, a), Encoded(m, b)
  PROVE  a = b
BY DEF Encoded, Done

\* The frame of a message is a string of bytes, and fits the buffers.
LEMMA EncodedFrame ==
  ASSUME NEW m, NEW e, Encoded(m, e)
  PROVE  /\ e \in Seq(Byte) /\ Len(e) \in U32 /\ Len(e) <= MSG_MAX
         /\ rpc_encode(m, MSG_MAX)[1] = e /\ send_framed(e) \in Seq(Byte)
<1>1. e \in Seq(Byte) /\ Len(e) \in Nat /\ Len(e) < 15 + MAPREDUCE_PATH_MAX
  BY DEF Encoded
<1>2. Len(e) \in U32 /\ Len(e) <= MSG_MAX
  BY <1>1, EncodedSize
<1>3. send_framed(e) \in Seq(Byte)
  BY <1>1, <1>2, FrameShape, Zenon
<1> QED BY <1>1, <1>2, <1>3 DEF Encoded, Done

\* What the receiver sees of a frame that is under way.
LEMMA Arrived ==
  ASSUME NEW q \in Processes, ConversationType, UnderWay(q)
  PROVE  \E e : /\ Encoded(said[q], e)
                /\ HasHeader(stream[q]) => PayloadLen(stream[q]) <= MSG_MAX
                /\ HasFrame(stream[q]) =>
                     /\ left[q] = << >> /\ Payload(stream[q]) = e
                     /\ SubSeq(stream[q], FRAME_HDR_SIZE + PayloadLen(stream[q]) + 1,
                               Len(stream[q])) = << >>
<1>1. PICK e, r : /\ Encoded(said[q], e) /\ r \in Seq(Byte)
                  /\ stream[q] \o r = send_framed(e)
                  /\ left[q] = r \/ left[q] = << >>
  BY Zenon DEF UnderWay
<1>2. PICK s : s = stream[q] /\ s \in Seq(Byte)
  BY Zenon DEF ConversationType
<1>3. e \in Seq(Byte) /\ Len(e) \in U32 /\ Len(e) <= MSG_MAX
  BY <1>1, EncodedFrame, Zenon
<1>4. /\ HasHeader(s) => PayloadLen(s) = Len(e)
      /\ HasFrame(s) => /\ r = << >> /\ Payload(s) = e
                        /\ SubSeq(s, FRAME_HDR_SIZE + PayloadLen(s) + 1, Len(s)) = << >>
  BY <1>1, <1>2, <1>3, FramePrefix, Zenon
<1> QED BY <1>1, <1>2, <1>3, <1>4, Zenon

\* A frame that was just begun is under way.
LEMMA Begun ==
  ASSUME NEW q \in Processes, NEW m, NEW e, Encoded(m, e),
         said'[q] = m, stream'[q] = << >>, left'[q] = send_framed(e)
  PROVE  UnderWay(q)'
<1>1. send_framed(e) \in Seq(Byte) /\ << >> \o send_framed(e) = send_framed(e)
  BY EncodedFrame, ConcatEmptySeq, Zenon
<1> QED BY <1>1, Zenon DEF UnderWay

\* The worker sends a request: it is under way.
LEMMA WorkerSendsStep ==
  ASSUME ConversationInv, WorkerSends
  PROVE  ConversationInv'
<1>0. ConversationType /\ Phases /\ Endings
  BY DEF ConversationInv
<1>1. PICK m \in Requests : Send("worker", m)
  BY DEF WorkerSends
<1>2. PICK e : Encoded(m, e)
  BY RequestEncoded, Zenon
<1>3. send_framed(e) \in Seq(Byte) /\ rpc_encode(m, MSG_MAX)[1] = e
  BY <1>2, EncodedFrame, Zenon
<1>4. /\ "worker" \notin killed /\ "worker" \notin closed /\ pc["worker"] = "send"
      /\ left' = [left EXCEPT !["worker"] = send_framed(e)]
      /\ said' = [said EXCEPT !["worker"] = m]
      /\ heard' = [heard EXCEPT !["worker"] = Nothing]
      /\ pc' = [pc EXCEPT !["worker"] = "recv"]
      /\ stream' = stream /\ killed' = killed /\ closed' = closed
  BY <1>1, <1>3, Zenon DEF Send, Gone
<1>5. ConversationType'
  BY <1>0, <1>3, <1>4, Peers, Zenon DEF ConversationType
<1>6. Phases'
  <2>1. CASE Stranger
    <3>1. Stranger'
      BY <1>0, <1>4, <2>1, Zenon DEF Stranger, ConversationType
    <3> QED BY <3>1, Zenon DEF Phases
  <2>2. CASE Asking
    <3>1. said'["worker"] = m /\ left'["worker"] = send_framed(e) /\ stream'["worker"] = << >>
      BY <1>0, <1>4, <2>2, Peers, Zenon DEF ConversationType, Asking, Idle
    <3>2. UnderWay("worker")'
      BY <1>2, <3>1, Begun, Peers, Zenon
    <3>3. Idle("master")' /\ pc'["worker"] = "recv" /\ pc'["master"] = "recv"
      BY <1>0, <1>4, <2>2, Peers, Zenon DEF ConversationType, Asking, Idle
    <3> QED BY <3>1, <3>2, <3>3, Zenon DEF Phases, Asked
  <2> QED BY <1>0, <1>4, <2>1, <2>2, Peers, Zenon DEF Phases, Asked, Answering, Told
<1>7. Endings'
  BY <1>0, <1>4, Zenon DEF Endings
<1> QED BY <1>5, <1>6, <1>7, Zenon DEF ConversationInv

\* The master answers what it heard: the answer is under way.
LEMMA MasterSendsStep ==
  ASSUME ConversationInv, MasterSends
  PROVE  ConversationInv'
<1>0. ConversationType /\ Phases /\ Endings
  BY DEF ConversationInv
<1>1. PICK m \in Answers(heard["master"]) : Send("master", m)
  BY DEF MasterSends
<1>2. PICK e : Encoded(m, e)
  BY AnswerEncoded, Zenon
<1>3. send_framed(e) \in Seq(Byte) /\ rpc_encode(m, MSG_MAX)[1] = e
  BY <1>2, EncodedFrame, Zenon
<1>4. /\ "master" \notin killed /\ "master" \notin closed /\ pc["master"] = "send"
      /\ left' = [left EXCEPT !["master"] = send_framed(e)]
      /\ said' = [said EXCEPT !["master"] = m]
      /\ heard' = [heard EXCEPT !["master"] = Nothing]
      /\ pc' = [pc EXCEPT !["master"] = "recv"]
      /\ stream' = stream /\ killed' = killed /\ closed' = closed
  BY <1>1, <1>3 DEF Send, Gone
<1>5. ConversationType'
  BY <1>0, <1>3, <1>4, Peers, Zenon DEF ConversationType
<1>6. Phases' /\ Endings'
  <2>1. CASE Stranger
    <3>1. Stranger'
      BY <1>0, <1>4, <2>1, Zenon DEF Stranger, ConversationType
    <3>2. killed' # {}
      BY <1>4, <2>1, Zenon DEF Stranger
    <3> QED BY <3>1, <3>2, Zenon DEF Phases, Endings
  <2>2. CASE Answering
    <3>1. said'["master"] = m /\ left'["master"] = send_framed(e) /\ stream'["master"] = << >>
      BY <1>0, <1>4, <2>2, Peers, Zenon DEF ConversationType, Answering, Idle
    <3>2. UnderWay("master")'
      BY <1>2, <3>1, Begun, Peers, Zenon
    <3>3. Idle("worker")' /\ pc'["worker"] = "recv" /\ pc'["master"] = "recv"
      BY <1>0, <1>4, <2>2, Peers, Zenon DEF ConversationType, Answering, Idle
    <3>4. said'["worker"] = said["worker"] /\ m \in Answers(said["worker"])
      BY <1>0, <1>4, <2>2, Peers, Zenon DEF ConversationType, Answering
    <3>5. closed' = {} \/ killed' # {}
      BY <1>0, <1>4, <2>2, Peers, Zenon DEF Endings, Answering
    <3> QED BY <2>2, <3>1, <3>2, <3>3, <3>4, <3>5, Zenon DEF Phases, Told, Answering, Endings
  <2> QED BY <1>0, <1>4, <2>1, <2>2, Peers, Zenon DEF Phases, Asking, Asked, Told
<1> QED BY <1>5, <1>6, Zenon DEF ConversationInv

\* Cutting a string of bytes in two and joining the parts gives it back.
LEMMA CutAndJoin ==
  ASSUME NEW l \in Seq(Byte), NEW n \in 1 .. Len(l)
  PROVE  /\ SubSeq(l, 1, n) \in Seq(Byte) /\ SubSeq(l, n + 1, Len(l)) \in Seq(Byte)
         /\ SubSeq(l, 1, n) \o SubSeq(l, n + 1, Len(l)) = l
<1>1. Len(l) \in Nat
  BY LenProperties
<1>2. SubSeq(l, 1, n) \o SubSeq(l, n + 1, Len(l)) = SubSeq(l, 1, Len(l))
  <2>1. 1 \in 1 .. Len(l) + 1 /\ n \in 1 - 1 .. Len(l) /\ Len(l) \in n .. Len(l)
    BY <1>1
  <2> QED BY <2>1, ConcatAdjacentSubSeq, Zenon
<1>3. SubSeq(l, 1, Len(l)) = l
  BY SubSeqFull
<1>4. SubSeq(l, 1, n) \in Seq(Byte) /\ SubSeq(l, n + 1, Len(l)) \in Seq(Byte)
  BY <1>1
<1> QED BY <1>2, <1>3, <1>4, Zenon

\* One write moves bytes of the frame from its sender to the stream.
LEMMA WriteStep ==
  ASSUME ConversationInv, NEW p \in Processes, NEW n \in 1 .. Len(left[p]), write_all(p, n)
  PROVE  ConversationInv'
<1>0. ConversationType /\ Phases /\ Endings
  BY Zenon DEF ConversationInv
<1> DEFINE a == SubSeq(left[p], 1, n)
           b == SubSeq(left[p], n + 1, Len(left[p]))
<1>1. /\ p \notin killed /\ left[p] # << >>
      /\ stream' = [stream EXCEPT ![p] = stream[p] \o a]
      /\ left' = [left EXCEPT ![p] = b]
      /\ said' = said /\ heard' = heard /\ pc' = pc /\ killed' = killed /\ closed' = closed
  <2>1. left[p] # << >>
    BY SMT
  <2> QED BY <2>1, Zenon DEF write_all, Gone
<1>2. a \in Seq(Byte) /\ b \in Seq(Byte) /\ a \o b = left[p]
  <2>1. left[p] \in Seq(Byte)
    BY <1>0, Zenon DEF ConversationType
  <2> QED BY <2>1, CutAndJoin, Zenon
<1> HIDE DEF a, b
<1>3. ConversationType'
  <2>1. stream[p] \o a \in Seq(Byte)
    BY <1>0, <1>2 DEF ConversationType
  <2> QED BY <1>0, <1>1, <1>2, <2>1, Zenon DEF ConversationType
<1>4. ASSUME UnderWay(p) PROVE UnderWay(p)'
  <2>1. PICK e, r : /\ Encoded(said[p], e) /\ r \in Seq(Byte)
                    /\ stream[p] \o r = send_framed(e)
                    /\ left[p] = r
    BY <1>1, <1>4, Zenon DEF UnderWay
  <2>2. stream'[p] = stream[p] \o a /\ left'[p] = b /\ stream[p] \in Seq(Byte)
    BY <1>0, <1>1, Zenon DEF ConversationType
  <2>3. stream'[p] \o b = send_framed(e)
    <3>1. (stream[p] \o a) \o b = stream[p] \o (a \o b)
      BY <1>2, <2>2, Regrouped, Zenon
    <3> QED BY <1>2, <2>1, <2>2, <3>1, Zenon
  <2> QED BY <1>1, <1>2, <2>1, <2>2, <2>3, Zenon DEF UnderWay
<1>5. ASSUME NEW q \in Processes, Idle(q) PROVE Idle(q)' /\ q # p
  BY <1>0, <1>1, <1>5, Zenon DEF ConversationType, Idle
<1>6. Phases'
  <2>1. CASE Stranger
    BY <1>1, <2>1, Zenon DEF Phases, Stranger
  <2>2. CASE Asking
    BY <1>5, <2>2, Peers, Zenon DEF Asking
  <2>3. CASE Asked
    BY <1>1, <1>4, <1>5, <2>3, Peers, Zenon DEF Phases, Asked
  <2>4. CASE Answering
    BY <1>5, <2>4, Peers, Zenon DEF Answering
  <2>5. CASE Told
    BY <1>1, <1>4, <1>5, <2>5, Peers, Zenon DEF Phases, Told
  <2> QED BY <1>0, <2>1, <2>2, <2>3, <2>4, <2>5, Zenon DEF Phases
<1>7. Endings'
  BY <1>0, <1>1, Zenon DEF Endings
<1> QED BY <1>3, <1>6, <1>7, Zenon DEF ConversationInv

\* The length a header holds is a number.
LEMMA PayloadLenType ==
  ASSUME NEW s \in Seq(Byte), HasHeader(s)
  PROVE  PayloadLen(s) \in Nat
<1>1. /\ Len(s) \in Nat /\ 1 \in 1 .. Len(s) /\ 1 + 1 \in 1 .. Len(s)
      /\ 1 + 2 \in 1 .. Len(s) /\ 1 + 3 \in 1 .. Len(s)
  BY SMT DEF HasHeader, FRAME_HDR_SIZE
<1>2. s[1] \in Byte /\ s[1 + 1] \in Byte /\ s[1 + 2] \in Byte /\ s[1 + 3] \in Byte
  BY <1>1, ElementOfSeq, Zenon
<1>3. PayloadLen(s) \in U32
  BY <1>2, U32Number, Zenon DEF PayloadLen, buf_read_u32
<1> QED BY <1>3, BaseType, SMT DEF U32

\* A frame of the peer is taken for what the peer encoded, and leaves nothing
\* behind it.
LEMMA RecvStep ==
  ASSUME ConversationInv, NEW p \in Processes, recv_framed(p)
  PROVE  ConversationInv'
<1>0. ConversationType /\ Phases /\ Endings
  BY Zenon DEF ConversationInv
<1> DEFINE q == Peer(p)
           s == stream[q]
           m == Meaning(p, Payload(s))
           rest == SubSeq(s, FRAME_HDR_SIZE + PayloadLen(s) + 1, Len(s))
<1>1. /\ p \notin killed /\ p \notin closed /\ pc[p] = "recv" /\ left[p] = << >>
      /\ HasFrame(s)
      /\ heard' = [heard EXCEPT ![p] = IF m = Fail THEN Refused ELSE m[1]]
      /\ closed' = IF m = Fail THEN closed \cup {p} ELSE closed
      /\ pc' = [pc EXCEPT ![p] = "send"]
      /\ stream' = [stream EXCEPT ![q] = rest]
      /\ left' = left /\ said' = said /\ killed' = killed
  BY Zenon DEF recv_framed, Gone
<1>2. q \in Processes /\ q # p /\ s \in Seq(Byte)
  BY <1>0, Peers, Zenon DEF ConversationType
<1>3. rest \in Seq(Byte)
  <2>1. PayloadLen(s) \in Nat /\ Len(s) \in Nat /\ 4 + PayloadLen(s) <= Len(s)
    <3>1. HasHeader(s) /\ Len(s) >= 4 + PayloadLen(s)
      BY <1>1, Zenon DEF HasFrame, FRAME_HDR_SIZE
    <3>2. PayloadLen(s) \in Nat /\ Len(s) \in Nat
      BY <1>2, <3>1, PayloadLenType
    <3> QED BY <3>1, <3>2, Zenon
  <2> QED BY <1>2, <2>1, SMT DEF FRAME_HDR_SIZE
<1> HIDE DEF q, s, m, rest
<1>4. ConversationType'
  BY <1>0, <1>1, <1>2, <1>3, Zenon DEF ConversationType
<1>5. CASE Stranger
  <2>1. Stranger' /\ killed' # {}
    BY <1>0, <1>1, <1>5, Zenon DEF Stranger, ConversationType
  <2> QED BY <1>4, <2>1, Zenon DEF ConversationInv, Phases, Endings
<1>6. CASE Asked
  <2>1. p = "master" /\ q = "worker"
    <3>1. p # "worker"
      BY <1>1, <1>6, NothingYet, Peers, Zenon DEF Asked, Idle, q, s
    <3> QED BY <3>1, Peers, Zenon DEF q
  <2>2. PICK e : /\ Encoded(said[q], e) /\ left[q] = << >> /\ Payload(s) = e
                 /\ rest = << >>
    <3>1. UnderWay(q) /\ HasFrame(stream[q])
      BY <1>1, <1>6, <2>1, Zenon DEF Asked, s
    <3> QED BY <1>0, <1>2, <3>1, Arrived, Zenon DEF s, rest
  <2>3. m = Done(said[q])
    <3>1. PICK b : Encoded(said[q], b) /\ master_request(b) = Done(said[q])
      BY <1>6, <2>1, RequestEncoded, Zenon DEF Asked
    <3>2. b = e
      BY <2>2, <3>1, EncodedOnce, Zenon
    <3> QED BY <2>1, <2>2, <3>1, <3>2, Meanings, Zenon DEF m
  <2>4. m # Fail /\ m[1] = said[q]
    BY <2>3 DEF Done, Fail
  <2>5. /\ heard'["master"] = said["worker"] /\ closed' = closed
        /\ pc'["master"] = "send" /\ pc'["worker"] = "recv"
        /\ Idle("worker")' /\ Idle("master")'
    BY <1>0, <1>1, <1>6, <2>1, <2>2, <2>4, Peers, Zenon DEF ConversationType, Asked, Idle
  <2>6. Answering'
    BY <1>1, <1>6, <2>5, Zenon DEF Answering, Asked
  <2>7. Endings'
    BY <1>0, <1>1, <1>6, <2>5, Peers, Zenon DEF Endings, Asked
  <2> QED BY <1>4, <2>6, <2>7, Zenon DEF ConversationInv, Phases
<1>7. CASE Told
  <2>1. p = "worker" /\ q = "master"
    <3>1. p # "master"
      BY <1>1, <1>7, NothingYet, Peers, Zenon DEF Told, Idle, q, s
    <3> QED BY <3>1, Peers DEF q
  <2>2. PICK e : /\ Encoded(said[q], e) /\ left[q] = << >> /\ Payload(s) = e
                 /\ rest = << >>
    <3>1. UnderWay(q) /\ HasFrame(stream[q])
      BY <1>1, <1>7, <2>1, Zenon DEF Told, s
    <3> QED BY <1>0, <1>2, <3>1, Arrived, Zenon DEF s, rest
  <2>3. m = Done(said[q])
    <3>1. PICK b : /\ Encoded(said[q], b)
                   /\ said[p].kind # RPC_TASK_DONE_REQ => get_task_answer(b) = Done(said[q])
                   /\ said[p].kind = RPC_TASK_DONE_REQ => task_done_answer(b) = Done(said[q])
      BY <1>7, <2>1, AnswerEncoded, Zenon DEF Told
    <3>2. b = e
      BY <2>2, <3>1, EncodedOnce, Zenon
    <3>3. said[p].kind = RPC_GET_TASK_REQ <=> said[p].kind # RPC_TASK_DONE_REQ
      BY <1>7, <2>1 DEF Told, Requests, RPC_GET_TASK_REQ, RPC_TASK_DONE_REQ
    <3> QED BY <2>1, <2>2, <3>1, <3>2, <3>3, Meanings, Zenon DEF m
  <2>4. m # Fail /\ m[1] = said[q]
    BY <2>3 DEF Done, Fail
  <2>5. /\ heard'["worker"] = said["master"] /\ closed' = closed
        /\ pc'["worker"] = "send" /\ pc'["master"] = "recv"
        /\ Idle("worker")' /\ Idle("master")'
    BY <1>0, <1>1, <1>7, <2>1, <2>2, <2>4, Peers, Zenon DEF ConversationType, Told, Idle
  <2>6. Asking'
    BY <1>1, <2>5, Zenon DEF Asking
  <2>7. Endings'
    BY <1>0, <1>1, <1>7, <2>5, Peers, Zenon DEF Endings, Told
  <2> QED BY <1>4, <2>6, <2>7, Zenon DEF ConversationInv, Phases
<1>8. ~ Asking /\ ~ Answering
  BY <1>1, NothingYet, Peers, Zenon DEF Asking, Answering, Idle, q, s
<1> QED BY <1>0, <1>5, <1>6, <1>7, <1>8, Zenon DEF Phases

\* A read fails only when somebody was killed, or the worker left once told DONE.
LEMMA RecvFailsStep ==
  ASSUME ConversationInv, NEW p \in Processes, recv_framed_fails(p)
  PROVE  ConversationInv'
<1>0. ConversationType /\ Phases /\ Endings
  BY Zenon DEF ConversationInv
<1> DEFINE q == Peer(p)
<1>1. /\ pc[p] = "recv" /\ p \notin killed /\ closed' = closed \cup {p}
      /\ (HasHeader(stream[q]) => PayloadLen(stream[q]) <= MSG_MAX) => q \in killed \cup closed
      /\ left' = left /\ stream' = stream /\ said' = said /\ heard' = heard /\ pc' = pc
      /\ killed' = killed
  BY DEF recv_framed_fails, Gone
<1>2. q \in Processes /\ q # p
  BY Peers, Zenon
<1>3. ConversationType' /\ Phases'
  BY <1>0, <1>1, Zenon DEF ConversationType, Phases, Stranger, Asking, Asked, Answering, Told, Idle,
                    UnderWay
<1>4. Endings'
  <2>1. CASE Stranger
    BY <1>1, <2>1, Zenon DEF Stranger, Endings
  <2>2. CASE ~ Stranger
    <3>1. HasHeader(stream[q]) => PayloadLen(stream[q]) <= MSG_MAX
      <4>1. CASE Idle(q)
        BY <4>1, NothingYet, Zenon DEF Idle
      <4>2. CASE UnderWay(q)
        BY <1>0, <1>2, <4>2, Arrived, Zenon
      <4> QED BY <1>0, <1>2, <2>2, <4>1, <4>2, Peers, Zenon DEF Phases, Asking, Asked, Answering, Told
    <3>2. q \in killed \cup closed
      BY <1>1, <3>1, Zenon
    <3> QED BY <1>0, <1>1, <3>2, Zenon DEF Endings
  <2> QED BY <2>1, <2>2, Zenon
<1> QED BY <1>3, <1>4, Zenon DEF ConversationInv

\* The worker leaves once told DONE.
LEMMA ExitStep ==
  ASSUME ConversationInv, Exit
  PROVE  ConversationInv'
<1>0. ConversationType /\ Phases /\ Endings
  BY DEF ConversationInv
<1>1. /\ pc["worker"] = "send" /\ heard["worker"].kind = RPC_DONE_RESP
      /\ closed' = closed \cup {"worker"}
      /\ left' = left /\ stream' = stream /\ said' = said /\ heard' = heard /\ pc' = pc
      /\ killed' = killed
  BY Zenon DEF Exit
<1>2. ConversationType' /\ Phases'
  BY <1>0, <1>1, Peers, Zenon DEF ConversationType, Phases, Stranger, Asking, Asked, Answering, Told, Idle,
                    UnderWay
<1>3. Endings'
  <2>1. CASE Stranger
    BY <1>1, <2>1, Zenon DEF Stranger, Endings
  <2>2. CASE Asking
    <3>1. heard["worker"] # Nothing
      BY <1>1 DEF Nothing, RPC_DONE_RESP
    <3> QED BY <1>1, <2>2, <3>1, ZenonT(60) DEF Asking, Endings
  <2> QED BY <1>0, <1>1, <2>1, <2>2, Peers, Zenon DEF Phases, Asked, Answering, Told
<1> QED BY <1>2, <1>3 DEF ConversationInv

\* A process that is killed leaves what it wrote of its frame.
LEMMA KilledStep ==
  ASSUME ConversationInv, NEW p \in Processes, Killed(p)
  PROVE  ConversationInv'
<1>0. ConversationType /\ Phases /\ Endings
  BY DEF ConversationInv
<1>1. /\ killed' = killed \cup {p} /\ left' = [left EXCEPT ![p] = << >>]
      /\ stream' = stream /\ said' = said /\ heard' = heard /\ pc' = pc /\ closed' = closed
  BY Zenon DEF Killed
<1>2. ConversationType'
  BY <1>0, <1>1 DEF ConversationType
<1>3. ASSUME NEW q \in Processes, Idle(q) PROVE Idle(q)'
  BY <1>0, <1>1, <1>3, Zenon DEF ConversationType, Idle
<1>4. ASSUME NEW q \in Processes, UnderWay(q) PROVE UnderWay(q)'
  <2>1. PICK e, r : /\ Encoded(said[q], e) /\ r \in Seq(Byte)
                    /\ stream[q] \o r = send_framed(e)
                    /\ left[q] = r \/ (q \in killed /\ left[q] = << >>)
    BY <1>4, Zenon DEF UnderWay
  <2>2. left'[q] = r \/ (q \in killed' /\ left'[q] = << >>)
    BY <1>0, <1>1, <2>1, Zenon DEF ConversationType
  <2> QED BY <1>1, <2>1, <2>2, Zenon DEF UnderWay
<1>5. Phases'
  BY <1>0, <1>1, <1>3, <1>4, Peers, Zenon DEF Phases, Stranger, Asking, Asked, Answering, Told
<1>6. Endings'
  BY <1>1 DEF Endings
<1> QED BY <1>2, <1>5, <1>6, Zenon DEF ConversationInv

\* Every step keeps the phases.
LEMMA ConversationStep == ConversationInv /\ [Next]_vars => ConversationInv'
<1> SUFFICES ASSUME ConversationInv, [Next]_vars PROVE ConversationInv'
  OBVIOUS
<1>1. CASE WorkerSends
  BY <1>1, WorkerSendsStep
<1>2. CASE MasterSends
  BY <1>2, MasterSendsStep
<1>3. CASE Exit
  BY <1>3, ExitStep
<1>4. ASSUME NEW p \in Processes, Step(p) PROVE ConversationInv'
  BY <1>4, WriteStep, RecvStep, RecvFailsStep, Zenon DEF Step
<1>5. ASSUME NEW p \in Processes, Killed(p) PROVE ConversationInv'
  BY <1>5, KilledStep, Zenon
<1>6. CASE UNCHANGED vars
  BY <1>6, ZenonT(60) DEF vars, ConversationInv, ConversationType, Phases, Stranger, Asking, Asked, Answering,
              Told, Idle, UnderWay, Endings
<1> QED BY <1>1, <1>2, <1>3, <1>4, <1>5, <1>6, Zenon DEF Next

\* The phases of the conversation are an invariant of it.
THEOREM ConversationInvariant == Spec => []ConversationInv
BY ConversationInit, ConversationStep, PTL DEF Spec

\* Understood, for every base, path size and buffer size: no process mistakes or
\* refuses a frame its peer built with rpc.c, wherever write_all cut it, and the
\* conversation ends only when a process was killed or the worker was told DONE.
THEOREM UnderstoodAlways == Spec => []Understood
<1>1. ConversationInv => Understood
  <2> SUFFICES ASSUME ConversationInv PROVE Understood
    OBVIOUS
  <2>1. ConversationType /\ Phases /\ Endings
    BY DEF ConversationInv
  <2>2. closed # {} => killed # {} \/ said["master"].kind = RPC_DONE_RESP
    BY <2>1, Zenon DEF Endings
  <2>3. ASSUME NEW p \in Processes, pc[p] = "send", heard[p] # Nothing
        PROVE  said[Peer(p)] \in {heard[p], Foreign}
    <3>1. CASE Stranger
      <4>1. PICK q \in Processes : said[q] = Foreign /\ pc[q] = "recv"
        BY <3>1, Zenon DEF Stranger
      <4>2. q = Peer(p)
        BY <2>3, <4>1, Peers, Zenon
      <4> QED BY <4>1, <4>2, Zenon
    <3>2. CASE Asking
      BY <2>3, <3>2, Peers, Zenon DEF Asking
    <3>3. CASE Answering
      BY <2>3, <3>3, Peers, Zenon DEF Answering
    <3> QED BY <2>1, <2>3, <3>1, <3>2, <3>3, Peers, Zenon DEF Phases, Asked, Told
  <2> QED BY <2>2, <2>3 DEF Understood
<1> QED BY <1>1, ConversationInvariant, PTL

-----------------------------------------------------------------------------

\* What Canonical says of a payload b that is taken for message m.
Exact(b, m) ==
  LET e == rpc_encode(m, MSG_MAX)[1]
  IN  b = e \/ (Len(e) = 1 /\ b[1] = e[1])

\* The kind of a payload is its first byte.
LEMMA PeekedKind ==
  ASSUME NEW b, NEW k, rpc_peek_kind(b) = Done(k)
  PROVE  b[1] = k
BY Zenon DEF rpc_peek_kind, Done, Fail

\* A payload with a body is exactly what the encoder gives for it.
LEMMA ExactBody ==
  ASSUME NEW b, NEW m, rpc_encode(m, MSG_MAX) = Done(b)
  PROVE  Exact(b, m)
<1>1. rpc_encode(m, MSG_MAX)[1] = b
  BY DEF Done
<1> QED BY <1>1 DEF Exact

\* A payload of a kind without a body starts with the byte the encoder gives.
LEMMA ExactBare ==
  ASSUME NEW b, NEW k \in {RPC_GET_TASK_REQ, RPC_DONE_RESP, RPC_TASK_DONE_ACK},
         rpc_peek_kind(b) = Done(k)
  PROVE  Bare(k) # Fail /\ Exact(b, Bare(k)[1])
<1>1. Bare(k) # Fail /\ Bare(k)[1] = [kind |-> k]
  BY Zenon DEF Bare, Done, Fail
<1>2. rpc_encode([kind |-> k], MSG_MAX)[1] = <<k>>
  BY BareEncoded DEF Encoded, Done
<1>3. b[1] = k
  BY PeekedKind
<1> QED BY <1>1, <1>2, <1>3, OneElement, ZenonT(60) DEF Exact

\* The master accepts only exact payloads.
LEMMA ExactRequest ==
  ASSUME NEW b \in Seq(Byte), master_request(b) # Fail
  PROVE  Exact(b, master_request(b)[1])
<1>1. Done(RPC_GET_TASK_REQ) # Done(RPC_TASK_DONE_REQ)
  BY DEF Done, RPC_GET_TASK_REQ, RPC_TASK_DONE_REQ
<1>2. CASE rpc_peek_kind(b) = Done(RPC_GET_TASK_REQ)
  <2>1. master_request(b) = Bare(RPC_GET_TASK_REQ)
    BY <1>1, <1>2, Zenon DEF master_request
  <2> QED BY <1>2, <2>1, ExactBare, Zenon
<1>3. CASE rpc_peek_kind(b) = Done(RPC_TASK_DONE_REQ)
  <2>1. master_request(b) = rpc_decode_task_done_req(b)
    BY <1>1, <1>3, Zenon DEF master_request
  <2>2. PICK m : /\ Len(b) = 10 /\ master_request(b) = Done(m)
                 /\ m = [kind |-> RPC_TASK_DONE_REQ, task_id |-> buf_read_u32(b, 2),
                         attempt_id |-> buf_read_u32(b, 6), result |-> b[10]]
    BY <2>1, Zenon DEF rpc_decode_task_done_req
  <2>3. b[1] = 6
    BY <1>3, PeekedKind, Zenon DEF RPC_TASK_DONE_REQ
  <2>4. Exact(b, m)
    BY <2>2, <2>3, TaskDoneRewritten, ExactBody, Zenon
  <2> QED BY <2>2, <2>4 DEF Done
<1> QED BY <1>2, <1>3, Zenon DEF master_request

\* So does the worker, as the answer to GET_TASK_REQ.
LEMMA ExactAnswer ==
  ASSUME NEW b \in Seq(Byte), get_task_answer(b) # Fail
  PROVE  Exact(b, get_task_answer(b)[1])
<1>1. /\ Done(2) # Done(3) /\ Done(2) # Done(4) /\ Done(2) # Done(5)
      /\ Done(3) # Done(4) /\ Done(3) # Done(5) /\ Done(4) # Done(5)
  BY DEF Done
<1>2. get_task_answer(b) =
        CASE rpc_peek_kind(b) = Done(2) -> rpc_decode_task_map_resp(b)
          [] rpc_peek_kind(b) = Done(3) -> rpc_decode_task_reduce_resp(b)
          [] rpc_peek_kind(b) = Done(4) -> rpc_decode_wait_resp(b)
          [] rpc_peek_kind(b) = Done(5) -> Bare(RPC_DONE_RESP)
          [] OTHER -> Fail
  BY Zenon DEF get_task_answer, RPC_TASK_MAP_RESP, RPC_WAIT_RESP, RPC_TASK_REDUCE_RESP, RPC_DONE_RESP
<1>3. CASE rpc_peek_kind(b) = Done(2)
  <2>1. get_task_answer(b) = rpc_decode_task_map_resp(b)
    BY <1>1, <1>2, <1>3, Zenon
  <2>2. PICK n, m : /\ n = buf_read_u16(b, 14) /\ ~ (Len(b) < 15)
                    /\ ~ (n >= MAPREDUCE_PATH_MAX) /\ Len(b) = 15 + n
                    /\ get_task_answer(b) = Done(m)
                    /\ m = [kind |-> RPC_TASK_MAP_RESP, task_id |-> buf_read_u32(b, 2),
                            attempt_id |-> buf_read_u32(b, 6), n_reduce |-> buf_read_u32(b, 10),
                            input_path |-> SubSeq(b, 16, 15 + n)]
    BY <2>1, Zenon DEF rpc_decode_task_map_resp
  <2>3. b[1] = 2
    <3>1. \A k : rpc_peek_kind(b) = Done(k) => b[1] = k
      BY PeekedKind, Zenon
    <3> QED BY <1>3, <3>1, Zenon
  <2>4. 15 <= Len(b) /\ n < MAPREDUCE_PATH_MAX
    BY <2>2, PathLength, Zenon
  <2>5. Exact(b, m)
    <3>1. rpc_encode(m, MSG_MAX) = Done(b)
      BY <2>2, <2>3, <2>4, TaskMapRewritten, Zenon
    <3> QED BY <3>1, ExactBody, Zenon
  <2> QED BY <2>2, <2>5, Returned, Zenon
<1>4. CASE rpc_peek_kind(b) = Done(3)
  <2>1. get_task_answer(b) = rpc_decode_task_reduce_resp(b)
    BY <1>1, <1>2, <1>4, Zenon
  <2>2. PICK m : /\ Len(b) = 13 /\ get_task_answer(b) = Done(m)
                 /\ m = [kind |-> RPC_TASK_REDUCE_RESP, task_id |-> buf_read_u32(b, 2),
                         attempt_id |-> buf_read_u32(b, 6), n_map |-> buf_read_u32(b, 10)]
    BY <2>1, Zenon DEF rpc_decode_task_reduce_resp
  <2>3. b[1] = 3
    BY <1>4, PeekedKind, Zenon
  <2>4. Exact(b, m)
    BY <2>2, <2>3, TaskReduceRewritten, ExactBody, Zenon
  <2> QED BY <2>2, <2>4, Returned, Zenon
<1>5. CASE rpc_peek_kind(b) = Done(4)
  <2>1. get_task_answer(b) = rpc_decode_wait_resp(b)
    BY <1>1, <1>2, <1>5, Zenon
  <2>2. PICK m : /\ Len(b) = 5 /\ get_task_answer(b) = Done(m)
                 /\ m = [kind |-> RPC_WAIT_RESP, wait_ms |-> buf_read_u32(b, 2)]
    BY <2>1, Zenon DEF rpc_decode_wait_resp
  <2>3. b[1] = 4
    BY <1>5, PeekedKind, Zenon
  <2>4. Exact(b, m)
    BY <2>2, <2>3, WaitRewritten, ExactBody, Zenon
  <2> QED BY <2>2, <2>4, Returned, Zenon
<1>6. CASE rpc_peek_kind(b) = Done(5)
  <2>1. get_task_answer(b) = Bare(RPC_DONE_RESP)
    BY <1>1, <1>2, <1>6, Zenon
  <2>2. rpc_peek_kind(b) = Done(RPC_DONE_RESP)
    BY <1>6 DEF RPC_DONE_RESP
  <2> QED BY <2>1, <2>2, ExactBare, Zenon
<1> QED BY <1>2, <1>3, <1>4, <1>5, <1>6, Zenon

\* And as the answer to TASK_DONE_REQ.
LEMMA ExactAck ==
  ASSUME NEW b, task_done_answer(b) # Fail
  PROVE  Exact(b, task_done_answer(b)[1])
BY ExactBare, Zenon DEF task_done_answer

\* A payload is accepted only if it is what the encoder gives.
LEMMA CanonicalStep ==
  ASSUME ConversationInv, [Next]_vars, NEW p \in Processes,
         heard'[p] # heard[p], heard'[p] \notin {Nothing, Refused}
  PROVE  Exact(Payload(stream[Peer(p)]), heard'[p])
<1>0. ConversationType
  BY Zenon DEF ConversationInv
<1>1. recv_framed(p)
  <2>1. ASSUME NEW q \in Processes, NEW m, Send(q, m) PROVE FALSE
    BY <1>0, <2>1, Zenon DEF Send, ConversationType
  <2>2. ~ WorkerSends /\ ~ MasterSends
    BY <2>1, Peers, Zenon DEF WorkerSends, MasterSends
  <2>3. ~ UNCHANGED heard
    BY Zenon
  <2>4. PICK q \in Processes : recv_framed(q)
    BY <2>2, <2>3, Zenon DEF Next, vars, Exit, Step, Killed, write_all, recv_framed_fails
  <2>5. q = p
    BY <1>0, <2>4, Zenon DEF recv_framed, ConversationType
  <2> QED BY <2>4, <2>5, Zenon
<1> DEFINE s == stream[Peer(p)]
           b == Payload(s)
           m == Meaning(p, b)
<1>2. HasFrame(s) /\ s \in Seq(Byte) /\ heard'[p] = IF m = Fail THEN Refused ELSE m[1]
  BY <1>0, <1>1, Peers, Zenon DEF recv_framed, ConversationType
<1>3. m # Fail /\ heard'[p] = m[1]
  <2> HIDE DEF m
  <2> QED BY <1>2, Zenon
<1>4. b \in Seq(Byte)
  <2> HIDE DEF s
  <2>1. HasHeader(s) /\ Len(s) >= 4 + PayloadLen(s)
    BY <1>2, Zenon DEF HasFrame, FRAME_HDR_SIZE
  <2>2. PayloadLen(s) \in Nat
    BY <1>2, <2>1, PayloadLenType, Zenon
  <2> QED BY <1>2, <2>1, <2>2, AfterHeader, Zenon DEF Payload, FRAME_HDR_SIZE
<1>5. m = master_request(b) \/ m = get_task_answer(b) \/ m = task_done_answer(b)
  <2>1. CASE p = "master"
    BY <2>1, Meanings, Zenon
  <2>2. CASE p = "worker"
    BY <2>2, Meanings, Zenon
  <2> QED BY <2>1, <2>2, Peers, Zenon
<1> HIDE DEF s, b, m
<1>6. Exact(b, m[1])
  <2>1. CASE m = master_request(b)
    BY <1>3, <1>4, <2>1, ExactRequest, Zenon
  <2>2. CASE m = get_task_answer(b)
    BY <1>3, <1>4, <2>2, ExactAnswer, Zenon
  <2>3. CASE m = task_done_answer(b)
    BY <1>3, <2>3, ExactAck, Zenon
  <2> QED BY <1>5, <2>1, <2>2, <2>3, Zenon
<1> QED BY <1>3, <1>6, Zenon DEF b, s

\* Canonical, for every base, path size and buffer size: whatever arrives, a payload
\* with a body is accepted only if it is the encoding of the message it is taken
\* for, to the last byte (the "Reject trailing bytes" of rpc.c:191).
THEOREM CanonicalAlways == Spec => Canonical
<1>1. ConversationInv /\ [Next]_vars =>
        \A p \in Processes : heard'[p] # heard[p] /\ heard'[p] \notin {Nothing, Refused} =>
          Exact(Payload(stream[Peer(p)]), heard'[p])
  BY CanonicalStep
<1>2. ConversationInv /\ [Next]_vars =>
        [\A p \in Processes :
           heard'[p] # heard[p] /\ heard'[p] \notin {Nothing, Refused} =>
             LET b == Payload(stream[Peer(p)])
                 e == rpc_encode(heard'[p], MSG_MAX)[1]
             IN  b = e \/ (Len(e) = 1 /\ b[1] = e[1])]_vars
  BY <1>1, Zenon DEF Exact
<1> QED BY <1>2, ConversationInvariant, PTL DEF Spec, Canonical

=============================================================================
