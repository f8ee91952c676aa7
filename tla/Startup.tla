------------------------------- MODULE Startup -------------------------------
(***************************************************************************)
(* How a master comes to serve a job: master_main of src/src/master.c with *)
(* load_config of src/src/config.c, the scan of the input directory, and   *)
(* the choice between a new job and the one the log describes.             *)
(*                                                                         *)
(* The configuration file is a sequence of what fgets returns, be it a     *)
(* line or a part of one that did not fit the buffer.  A value carries     *)
(* what strtol makes of it: whether it is used up, and the number.         *)
(* The log of a path is only its job header here; module AofFile has the   *)
(* file.  The directory, the configuration and the paths it names may      *)
(* change between starts, the directory at any time.                       *)
(***************************************************************************)
EXTENDS Integers, Sequences, FiniteSets

CONSTANTS
  MAX_MAP_TASKS,     \* length of maps[]
  MAX_REDUCE_TASKS,  \* length of reduces[]
  MaxTimeout,        \* the largest task-timeout-ms, 600000 in the code
  Confs,             \* configuration files, as sequences of pieces
  Texts,             \* values of string settings that are used
  MaxEntries,        \* number of names an input directory may hold
  EntryKinds,        \* what a name may be
  NoJob              \* no log at a path

\* A word as "%255s" stores it: its first 255 characters.
Value == [whole : BOOLEAN, number : Int, text : Texts]

\* What fgets returns: a line that is skipped, or words.  key is the first one,
\* or its first 255 characters, and values what follows them, word by word.
ConfPiece == [kind : {"comment", "line"}, key : STRING, values : Seq(Value)]

ASSUME StartupAssumption ==
  /\ MAX_MAP_TASKS \in Nat \ {0}
  /\ MAX_REDUCE_TASKS \in Nat \ {0, 1, 2, 3}
  /\ MaxTimeout \in Nat /\ MaxTimeout >= 10000
  /\ MaxEntries \in Nat
  /\ EntryKinds \subseteq {"absent", "hidden", "regular", "directory",
                           "dangling", "long"}
  /\ {"absent", "regular"} \subseteq EntryKinds
  /\ {"./input", "./mr.aof"} \subseteq Texts
  /\ Confs \subseteq Seq(ConfPiece)
  /\ NoJob \notin [splits : Seq(1 .. MaxEntries), R : Nat]

VARIABLES
  stage,    \* how far master_main has got
  conf,     \* the configuration file of this start
  lineno,   \* pieces of it that have been read
  errors,   \* errors counted so far
  nums,     \* integer settings of master.config
  texts,    \* string settings of master.config
  dir,      \* what each name of ./input is
  entries,  \* names scandir returned that are still to be looked at
  job,      \* the job in memory: its input splits, R and task_timeout_ms
  logs      \* the splits and R of the job header at each path

configVars == <<conf, lineno, errors, nums, texts>>

jobVars == <<entries, job>>

startupVars == <<stage, configVars, dir, jobVars, logs>>

IntKeys == {"port", "tcp-backlog", "hz", "client-timeout", "n-reduce",
            "task-timeout-ms"}

StrKeys == {"input-dir", "aof-path"}

config_table ==
  [k \in IntKeys |-> CASE k = "n-reduce"        -> 1 .. MAX_REDUCE_TASKS
                       [] k = "hz"              -> 1 .. 500
                       [] k = "client-timeout"  -> 0 .. 86400
                       [] k = "task-timeout-ms" -> 100 .. MaxTimeout
                       [] OTHER                 -> 1 .. 65535]

DefaultNums ==
  [k \in IntKeys |-> CASE k = "port"            -> 9999
                       [] k = "tcp-backlog"     -> 511
                       [] k = "hz"              -> 10
                       [] k = "client-timeout"  -> 300
                       [] k = "n-reduce"        -> 4
                       [] OTHER                 -> 10000]

DefaultTexts == [k \in StrKeys |-> IF k = "input-dir" THEN "./input" ELSE "./mr.aof"]

NoSplits == [splits |-> << >>, R |-> 0, timeout |-> 0]

StartupInit ==
  /\ stage = "off"
  /\ conf = << >>
  /\ lineno = 0
  /\ errors = 0
  /\ nums = DefaultNums
  /\ texts = DefaultTexts
  /\ dir \in [1 .. MaxEntries -> EntryKinds]
  /\ entries = {}
  /\ job = NoSplits
  /\ logs = [p \in Texts |-> NoJob]

-----------------------------------------------------------------------------
(***************************************************************************)
(* Reading the configuration file                                          *)
(***************************************************************************)

Stopped == {"off", "failed"}

\* The tables of a new process are zeroed.  No file named is an empty one.
master_main(c) ==
  /\ stage \in Stopped
  /\ stage' = "config"
  /\ conf' = c
  /\ lineno' = 0
  /\ errors' = 0
  /\ nums' = DefaultNums
  /\ texts' = DefaultTexts
  /\ entries' = {}
  /\ job' = NoSplits
  /\ UNCHANGED <<dir, logs>>

Skipped(piece) == piece.kind = "comment"

\* sscanf stores a key and a value.  Whatever else is on the line is ignored.
Scanned(piece) == ~ Skipped(piece) /\ piece.values # << >>

value(piece) == piece.values[1]

find_config(piece) == piece.key \in IntKeys \cup StrKeys

ValueFits(piece) ==
  piece.key \in IntKeys =>
    value(piece).whole /\ value(piece).number \in config_table[piece.key]

\* Mutant: the first setting of a key is kept.
apply_config_once(piece) ==
  IF piece.key \in IntKeys
  THEN /\ nums' = IF nums[piece.key] = DefaultNums[piece.key]
                  THEN [nums EXCEPT ![piece.key] = value(piece).number] ELSE nums
       /\ texts' = texts
  ELSE /\ texts' = [texts EXCEPT ![piece.key] = value(piece).text]
       /\ nums' = nums

apply_config(piece) ==
  IF piece.key \in IntKeys
  THEN /\ nums' = [nums EXCEPT ![piece.key] = value(piece).number]
       /\ texts' = texts
  ELSE /\ texts' = [texts EXCEPT ![piece.key] = value(piece).text]
       /\ nums' = nums

\* fopen fails; afterwards nothing but an error in a line makes load_config fail.
load_config_no_file ==
  /\ stage = "config"
  /\ lineno = 0
  /\ stage' = "failed"
  /\ UNCHANGED <<configVars, dir, jobVars, logs>>

\* One turn of the loop; an error does not end it.
load_config_line ==
  LET piece == conf[lineno + 1]
  IN  /\ stage = "config"
      /\ lineno < Len(conf)
      /\ lineno' = lineno + 1
      /\ IF Skipped(piece)
         THEN UNCHANGED <<errors, nums, texts>>
         ELSE IF Scanned(piece) /\ find_config(piece) /\ ValueFits(piece)
         THEN apply_config(piece) /\ errors' = errors
         ELSE errors' = errors + 1 /\ UNCHANGED <<nums, texts>>
      /\ UNCHANGED <<stage, conf, dir, jobVars, logs>>

load_config_ends ==
  /\ stage = "config"
  /\ lineno = Len(conf)
  /\ stage' = IF errors > 0 THEN "failed" ELSE "bootstrap"
  /\ UNCHANGED <<configVars, dir, jobVars, logs>>

-----------------------------------------------------------------------------
(***************************************************************************)
(* The job                                                                 *)
(***************************************************************************)

aof_path == texts["aof-path"]

\* Mutant: the number of reduces is the configured one.
aof_load_configured ==
  job' = [splits  |-> logs[aof_path].splits,
          R       |-> nums["n-reduce"],
          timeout |-> nums["task-timeout-ms"]]

\* The job is the log's, the timeout this start's.
aof_load ==
  job' = [splits  |-> logs[aof_path].splits,
          R       |-> logs[aof_path].R,
          timeout |-> nums["task-timeout-ms"]]

bootstrap_replays ==
  /\ stage = "bootstrap"
  /\ logs[aof_path] # NoJob
  /\ aof_load
  /\ stage' = "open"
  /\ UNCHANGED <<configVars, dir, entries, logs>>

input_filter(n) == dir[n] \notin {"absent", "hidden"}

\* scandir takes the names that pass the filter; a directory other than the
\* one that is modelled does not exist.
scandir ==
  /\ stage = "bootstrap"
  /\ logs[aof_path] = NoJob
  /\ IF texts["input-dir"] = "./input"
     THEN /\ entries' = {n \in 1 .. MaxEntries : input_filter(n)}
          /\ stage' = "scan"
     ELSE entries' = entries /\ stage' = "failed"
  /\ UNCHANGED <<configVars, dir, job, logs>>

TableFull == Len(job.splits) >= MAX_MAP_TASKS

\* Mutant: whatever has a name is a split.
IsSplit_any(n) == TRUE

IsSplit(n) == dir[n] = "regular"

\* One turn of the loop of master_init_job: the path is built and stat'ed.
\* Names come in the order alphasort gives them; one may have gone since.
init_job_entry(n) ==
  /\ stage = "scan"
  /\ n \in entries
  /\ \A m \in entries : n <= m
  /\ entries' = entries \ {n}
  /\ IF \/ dir[n] \in {"long", "dangling", "absent"}
        \/ IsSplit(n) /\ TableFull
     THEN stage' = "failed" /\ job' = job
     ELSE /\ stage' = stage
          /\ job' = IF IsSplit(n)
                    THEN [job EXCEPT !.splits = Append(job.splits, n)]
                    ELSE job
  /\ UNCHANGED <<configVars, dir, logs>>

BackstopFires == nums["n-reduce"] \notin 1 .. MAX_REDUCE_TASKS

init_job_ends ==
  /\ stage = "scan"
  /\ entries = {}
  /\ IF job.splits = << >> \/ BackstopFires
     THEN stage' = "failed" /\ job' = job
     ELSE /\ stage' = "open"
          /\ job' = [splits  |-> job.splits,
                     R       |-> nums["n-reduce"],
                     timeout |-> nums["task-timeout-ms"]]
  /\ UNCHANGED <<configVars, dir, entries, logs>>

aof_init ==
  /\ stage = "open"
  /\ stage' = "bind"
  /\ logs' = IF logs[aof_path] # NoJob THEN logs
             ELSE [logs EXCEPT ![aof_path] = [splits |-> job.splits, R |-> job.R]]
  /\ UNCHANGED <<configVars, dir, jobVars>>

server_init ==
  /\ stage = "bind"
  /\ stage' = "serving"
  /\ UNCHANGED <<configVars, dir, jobVars, logs>>

\* mkdir, open or bind fails.
StepFails ==
  /\ stage \in {"bootstrap", "open", "bind"}
  /\ stage' = "failed"
  /\ UNCHANGED <<configVars, dir, jobVars, logs>>

\* A kill, or the end of the process.
MasterKilled ==
  /\ stage \notin Stopped
  /\ stage' = "off"
  /\ UNCHANGED <<configVars, dir, jobVars, logs>>

\* Somebody adds, removes or replaces a name of the directory.
EntryChanges(n, k) ==
  /\ dir[n] # k
  /\ dir' = [dir EXCEPT ![n] = k]
  /\ UNCHANGED <<stage, configVars, jobVars, logs>>

StartupNext ==
  \/ \E c \in Confs : master_main(c)
  \/ load_config_no_file \/ load_config_line \/ load_config_ends
  \/ bootstrap_replays \/ scandir \/ init_job_ends
  \/ \E n \in 1 .. MaxEntries : init_job_entry(n)
  \/ aof_init \/ server_init \/ StepFails \/ MasterKilled
  \/ \E n \in 1 .. MaxEntries, k \in EntryKinds : EntryChanges(n, k)

StartupSpec == StartupInit /\ [][StartupNext]_startupVars

-----------------------------------------------------------------------------
(***************************************************************************)
(* Properties                                                              *)
(***************************************************************************)

Loaded == {"bootstrap", "scan", "open", "bind", "serving"}

\* What the pieces of I set key k to, the default if they do not.
LastSet(I, k, default, given(_)) ==
  LET Sets == {i \in I : Scanned(conf[i]) /\ conf[i].key = k}
  IN  IF Sets = {} THEN default
      ELSE given(CHOOSE i \in Sets : \A j \in Sets : j <= i)

\* The configuration is what the pieces of I say.
SetBy(I) ==
  /\ \A k \in IntKeys :
       nums[k] = LastSet(I, k, DefaultNums[k], LAMBDA i : value(conf[i]).number)
  /\ \A k \in StrKeys :
       texts[k] = LastSet(I, k, DefaultTexts[k], LAMBDA i : value(conf[i]).text)

\* load_config goes on after an error and applies what it can.  A master
\* nevertheless gets past it only if sscanf found a key of the table with a
\* value of its type and range in everything fgets returned and that is no
\* comment, and then every setting is the last value stored for its key, or the
\* default.  It is not that the file was understood: further words, and what
\* follows the 255th character of a value, are ignored without an error.
ConfigAsScanned ==
  stage \in Loaded =>
    /\ \A i \in DOMAIN conf :
         \/ conf[i].kind = "comment"
         \/ /\ Scanned(conf[i])
            /\ \/ conf[i].key \in StrKeys
               \/ /\ conf[i].key \in IntKeys
                  /\ value(conf[i]).whole
                  /\ value(conf[i]).number \in config_table[conf[i].key]
    /\ SetBy(DOMAIN conf)

\* master_init_job checks n_reduce again although the validator has capped
\* it: the check never fires, whatever the file says.
BackstopIdle == stage \in Loaded => ~ BackstopFires

\* The job a master serves fits the tables and has work in it, also when it
\* comes from the log of an earlier start, and the times derived from the
\* configuration, the wait of an idle worker and the poll of the event
\* loop, are not zero.
ServesSound ==
  stage = "serving" =>
    /\ Len(job.splits) \in 1 .. MAX_MAP_TASKS
    /\ job.R \in 1 .. MAX_REDUCE_TASKS
    /\ job.timeout \div 2 > 0
    /\ 1000 \div nums["hz"] > 0

\* The job a master serves is the one its log describes, whatever has
\* become of the configuration and the directory since it was written:
\* map and reduce ids in the records mean the same tasks as before.
JobFromLog ==
  stage = "serving" => logs[aof_path] = [splits |-> job.splits, R |-> job.R]

\* No start changes a job header that is in the log.
LogsKept ==
  [][\A p \in Texts : logs[p] # NoJob => logs'[p] = logs[p]]_startupVars
=============================================================================
