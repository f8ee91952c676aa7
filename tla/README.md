# A TLA+ verification of C_MapReduce

The repository is a small MapReduce in C: one master process, any number of
worker processes, a TCP protocol of seven messages between them, an append-only
log that lets the master restart, and a word-count workload. This directory
models all of it that changes state, checks the models on small instances with
TLC, and proves the central safety properties, the codec's round trips and the
refinement of an abstract job for every instance with TLAPS.

Paths below are relative to the repository; `master.c` means `src/master.c` there.

## 1. The system

| Part | Source | State | Operations | Talks to |
|---|---|---|---|---|
| scheduler | `master.c`, `task.h`, `util.c` | `job` (phase, counters), `maps[]`, `reduces[]`, `workers[fd]` | GetTask, TaskDone, connect, disconnect, periodic sweep, bootstrap, shutdown | server (callbacks, `server_send`), log |
| append-only log | `aof.c` | file: header, job header, one record per completed task | append after each completion, load at start, create | scheduler |
| server | `server.c` | `clients[fd]`: buffers, `last_active_ms`; `clients_count` | accept, read, write, remove, client timeouts, before-sleep | event loop, scheduler |
| event loop | `event_loop.c` | kqueue, handlers by fd, `before_sleep_proc` | add, remove, run | server |
| worker loop | `worker.c` | its position in `main`, the task in hand | connect, GetTask, run, report, wait, exit | master by RPC |
| map runner | `worker_map.c` | temporary files, `intermediate/mr-X-Y` | tokenize, partition, rename pass | worker loop, disk |
| reduce runner | `worker_reduce.c` | records, `output/mr-out-Y` | read, sort, group walk, rename | worker loop, disk |
| codec | `rpc.c` | none | encode, decode | both ends |
| configuration | `config.c` | `master.config` | read at every start | scheduler, server |
| checksums, logging | `crc64.c`, `log.h` | none | | |

The master is single-threaded: a handler runs to completion before the next one.
What makes it hard is around it. Workers run concurrently and die at any point;
connections drop with a request unread or an answer undelivered; a timed-out
worker goes on working and reports late; the master dies between two handlers, or
inside one after the log append and before the ACK; an append may fail or be cut;
a rename pass may fail half way; frames arrive in pieces and several at once;
descriptors are reused while events for their previous owner are still queued;
and between two starts the configuration and the input directory may change.
`PROJECT.json` lists these as hazards at the lines where they bite.

## 2. Modules

    Task ── Aof ── Master ──────┐
      │      └── AofFile *      │
      └──── Network ── Worker ──┴── MapReduce ── MapReduceInvariants
                                     │    │           └── ShippedInvariants
                                    Job   MCMapReduce
    Server * ── MCServer    Rpc ── Conversation      WordCount      Startup ── MCStartup

    * with SequenceOps

### The job (composition of scheduler, log, connections, workers, files)

* **Task**: a `task_t` slot and its updates (`attempt_started`,
  `attempt_succeeded`, `task_attempt_ended`, ...), as functions from slots to
  slots. One table `tasks[kind][id]` stands for `maps[]` and `reduces[]`. The id
  of a task is kept, its input path and the clock stamps of its history are not;
  `started_at_ms` becomes `elapsed`, the ticks since the attempt started, capped
  just past `TaskTimeout`.
* **Aof**: the log as a sequence of records. An append ends `ok`, leaves nothing,
  or leaves a torn record; a log with a torn record does not load
  (`aof_read_record` fails on it). Replay marks tasks and counts records as
  `aof_load` does.
* **Master**: every path of every handler in `master.c`, and bootstrap. The
  parameter `sent` is the outcome of the final `server_send`: when it fails, the
  server has already run `master_on_disconnect`.
* **Network**: `clients[fd]`, the one outstanding request of a connection, and
  the answer in flight to each worker. A descriptor is reused once it is closed.
* **Worker**: the program counter of `worker.c`'s `main`, with
  `worker_map_run`'s rename pass one rename per step, and the published files.
* **MapReduce**: the composition, its actions, and its properties.
* **Job**: what is durable, without processes or messages: files get published;
  a task is recorded only after its files exist; no reduce publishes or is
  recorded before every map is recorded; nothing is forgotten.
* **MapReduceInvariants**, **ShippedInvariants**: the inductive invariants (section 4).
* **MCMapReduce**: the symmetry set for TLC.

| Action of MapReduce | Code |
|---|---|
| `MasterStart` | `master_main`, `master_bootstrap_job`: load, create, or refuse to start |
| `MasterStop` | `on_shutdown`, or a crash between two handlers |
| `MasterCrashAfterAppend` | a crash in `task_done_helper` between the append and the ACK, SIGPIPE in `queue_write` included |
| `GetTask`, `GetTaskAborts` | `master_handle_get_task`; the failing `assert` of `wait_for_available_tasks` |
| `TaskDone`, `TaskDoneRejected` | `master_handle_task_done`, `task_done_helper` |
| `ClientGone` | `on_read` at EOF or error, `master_on_disconnect` |
| `BeforeSleep` | `server_before_sleep`: client timeouts, `master_periodic`, `sweep_timeouts` |
| `WorkerStart`, `WorkerStep`, `WorkerCrash` | `worker.c`, `worker_map.c`, `worker_reduce.c` |

### The parts in more detail

* **AofFile** is the log below records: each `write(2)` and `fdatasync(2)` of
  `aof_init` and `aof_append_completed`, the prefix that is on stable storage,
  deaths of the process and power failures between any two calls, short and
  failing writes. A section of the file is two units, so that it can be cut; the
  pair of units a checksum accepts is the section's own. Two of its properties,
  `AppendsAsModelled` and `LoadsAsModelled`, justify **Aof**: every change of the
  file that is not a power failure is an append of `Aof` with one of its three
  outcomes, and once the headers are whole `aof_load` accepts the file exactly when
  `Aof` accepts the sequence, with the same tables.
* **Server** is `server.c` on `event_loop.c`: batches of events, events left over
  for a descriptor that was closed and accepted again, `on_accept` and its
  failures, reads of any length into `buf`, the loop of `process_buffer`, the fast
  and the slow path of `queue_write` with compaction and overflow of `wbuf`,
  `on_write`, `remove_client` and the second `remove_client` after a failed write,
  `clients_count` with its width, client timeouts, the signal handler, the
  shutdown pipe and `server_shutdown`. The peers are part of the model: they send,
  read, close and reset. The handler `on_message` is the scheduler; here it
  rejects a frame or answers it. A *setting* (chosen in `Init`) says how peers
  behave, whether the build calls `before_sleep_proc`, and whether `kevent` may
  refuse a registration (`el_add` and `el_add_write` may then fail; the first
  closes the connection, the second is ignored at `server.c:141`); **MCServer**
  lists seven.
  **Network** is this server seen message by message. The two are tied by
  argument and not by a checked mapping: `StreamIntact` and `RepliesIntact` say
  that frames arrive whole and in order, `WorkersHarmless` that with stop-and-wait
  workers no write fails inside `process_buffer`, and where `Server` computes
  which clients a pass of the timeout check looks at, `Network` allows any number.
* **Rpc** has every encoder and decoder of `rpc.c` over sequences of bytes, and
  the two receivers' dispatch on the first byte. A byte is a number below `Base`.
  **Conversation** runs one worker and the master over byte streams with
  `send_framed`, `recv_framed`, `write_all` in arbitrary pieces, and either side
  killed at any byte. It also starts from payloads no program of the repository
  sent, to see what the decoders accept.
* **WordCount** is what the workload computes: `fgets` with its buffer limit,
  `strsep`, djb2 partitioning with `size_t`'s width, the mapper's records, the
  reducer's parsing, sort and group walk with `vals[]`'s capacity. It is compared
  with a direct definition of counting words.
* **Startup** is `master_main`: `load_config` piece by piece, the table of
  settings with its ranges, a file that cannot be opened, `scandir` followed by a
  `stat` per name while the directory changes, the choice between the log's job and
  a new one, the log's job header, kills, and restarts with another configuration.
  A line is its words: `sscanf` takes the first two and ignores the rest, and a
  word says whether it was read whole or cut at the 255 characters of the format.
  **MCStartup** gives the configuration files and a history variable, the names
  that changed since `scandir`, for `InputsExact`.

`PROJECT.json`'s map gives the source lines of every definition. A definition
whose comment begins with "Mutant" is a deliberately wrong variant of the one
after it, kept to show that a property would notice.

### The commented-out callback

`el_run` tests `before_sleep_proc` but the call itself is commented out
(`event_loop.c:79`). In the build as it stands neither the task timeouts nor the
client timeouts ever run. The constant `BeforeSleepCalled` (in `Server` the field
`before_sleep` of a setting) keeps both programs apart: `FALSE` is the code as
built, `TRUE` the code with the callback that `server.c` registers and the
repository's README describes. The runs `shipped_*` use the former, `timeouts*`
the latter. What `timeouts_late_report` finds is in `master.c`'s handlers, but is
not reachable until the call is restored.

## 3. Runs

| Run | Module | States | Shows |
|---|---|---|---|
| `shipped_faults` | MCMapReduce | 765,000 | code as built, 2 maps and 1 reduce; failing attempts, retries, a worker crash and a master stop, each anywhere: tables, counters, phase, log, files and workers agree, the `assert` of `wait_for_available_tasks` holds, and the durable state implements `Job` |
| `shipped_disk_faults` | MCMapReduce | 289,000 | code as built, 1 map and 2 partitions; appends that fail or tear, a half-failed rename pass, a master stop: no reduce is handed out without its inputs, and the job ends or the start is refused |
| `timeouts` | MCMapReduce | 340,000 | callback running: sweeps, client timeouts and late reports in every order, and a restart |
| `timeouts_live` | MCMapReduce | 126,000 | callback running: a dead worker's task is released and the job finishes |
| `log_faults` | AofFile | 8,000 | what was acknowledged survives power failures and is replayed; unless a write failed, nothing follows a cut section; the file behaves like the sequence of `Aof` |
| `server_peers` | MCServer | 831,000 | a pipelining peer, a crowd with resets and refused registrations, and workers: no unit of a stream is lost, repeated or swapped, handlers follow clients as far as `kevent` takes their registration, no client is removed for what another did, dying workers never end the master |
| `server_live` | MCServer | 58,000 | every frame of a reading peer, split by the reads or several in `buf` at once, is answered or its peer dropped; silent clients are removed where the check runs; a signal ends the loop |
| `rpc_exchange` | Conversation | 81,000 | messages arrive as meant however the stream is cut; what has a body is accepted only as the exact encoding; the two ends never both wait |
| `words_counts` | WordCount | 162,000 | outputs hold each word once, sorted, with its count; a reduce fails exactly when a key has too many values |
| `startup` | MCStartup | 1,131,000 | a master serves only if every line of its file held a known key and a fitting value, and serves the job its log describes; a new job's splits are in order, and a name that did not change during the scan is a split exactly when it is a regular file |
| `shipped_orphan` | MCMapReduce | | **violated**: as built, a dead worker's task is never released |
| `timeouts_late_report` | MCMapReduce | | **violated**: a late map report completes a reduce |

Which properties belong to which run is itself a result:

* `timeouts` checks `CompletedMapsPublished` where the shipped runs check the
  stronger `CompletedPublished`, which `timeouts_late_report` refutes. For the same
  reason `DoneCounts`, `AofNoDuplicates`, `WaitAssertHolds` and
  `DurableCompletions` are claimed of the shipped code only: with the callback a
  map can be recorded twice, and a master restarted on such a log counts both
  records and may fail its assert at `master.c:168`.
* `DurableCompletions` and `ImplementsJob` are claimed for a disk that takes every
  append. The master ignores a failed append (`master.c:329`), so a reduce may
  publish while a map is not in the log.
* `AckedSurvives`, `LogInOrder` and `RefusalsAreTorn` have the premise that no write
  or flush failed, for the same reason; after a failure only `AppendsAsModelled`
  and `LoadsAsModelled` are left, which is what `shipped_disk_faults` builds on.
* `WorkersHarmless` is claimed of peers with one request outstanding. SIGPIPE is
  left at its default, so a peer that sends ahead and then closes can end the
  process, and a failed write otherwise removes a client twice, after which
  `clients_count` is one too low. Neither can happen with the repository's workers.
* `HandlersMatch` has an exact half and a conditional one. A write handler is always
  one that unsent output calls for; that unsent output has a write handler, and
  with it `FramesAnswered`, is claimed where `kevent` refuses no registration.
  `process_buffer` ignores the result of `el_add_write`, so after a refusal the
  output waits in `wbuf` until a later answer registers the handler or the client is
  removed. `RepliesIntact` holds either way: what waits is neither lost nor reordered.
* `SilentRemoved` has the premise that `ClientTimeout` is at least as many checks
  as there can be clients. `check_client_timeouts` stops when `found` reaches
  `clients_count`, which its own removals decrement (`server.c:300`); with shorter
  timeouts and clients that keep reconnecting on low descriptors, one on a high
  descriptor can be passed over for ever.
* `JobFailedIffTaskFailed` says when the job fails, not that its tasks settle: the
  first task given up ends the sweep and the job, and other tasks stay IN_PROGRESS
  (the comment at `master.c:433` takes it that none does). And a stale report leaves
  `has_task` set, although `task.h:119` says that a report clears it; the slot is
  only read by the next report, and `AofPublished` holds nevertheless.
* `RefusalsAreTorn` describes rather than excuses: a master killed while
  `aof_init` writes the headers leaves a file that every later start refuses.
  Where `aof_load`'s cleanup runs before `aof_job` is set (`aof.c:351`), the start
  ends as `aborted`, since what `free` does with that pointer is undefined.
* `CountsExact` is claimed for lines shorter than the buffers. A longer line
  arrives in pieces and a word across the cut counts as two.
* `ConfigAsScanned` is about what `sscanf` found in the pieces `fgets` returns, not
  about what the author of the file wrote. Words after the second and characters
  after the 255th of a word are dropped without an error, and the tail of a comment
  longer than the buffer is a piece like any other and is applied.
* `InputsExact` says nothing of a name that changes during the scan: whether it
  becomes a split depends on which of its states `stat` saw.

### Bounds

* `M`, `R`: 2 and 1, or 1 and 2. Two maps are needed for a phase that advances
  early or a slot that names the wrong task; two partitions for a partial rename.
  The proofs cover the rest.
* Two workers and two descriptors: every race in the scheduler is between two
  attempts, or between one attempt and the master. A third actor adds no new pair.
* `MAX_ATTEMPTS` 1 or 2 (3 in the code): no retry, or one retry and the cap.
* `MaxMasterStops`, `MaxWorkerCrashes`: 0 or 1, in the guards of those actions.
* `TaskTimeout` 0, `ClientTimeout` 0 or 1 ticks, `SweepEvery` 1 (10 in the code).
  Ticks are arbitrary, so what matters is only whether a sweep comes before or
  after a report. `Examined` is how many clients a pass of the timeout check may
  look at; `{0}` means that the check does not interfere.
* `log_faults`: two maps, one reduce, one master at a time; deaths and power
  failures are not bounded, since the file cannot grow beyond the tasks.
* Server: length prefixes of 2 units and payloads of at most 2, so that every cut of
  a frame exists; `buf` holds one frame of the largest size or two without payload,
  so that `process_buffer` can loop; `wbuf` holds two frames, as in the code;
  descriptors beyond `MAX_FDS` exist, so `on_accept` rejects; `CountWidth` 3 lets
  `clients_count` wrap below zero; up to 4 peers and 3 frames on a connection.
* `rpc_exchange`: `Base` 9, just above the seven message kinds; fields take 9, the
  first number of two digits, and 6560 = 9^4 - 1, the largest; paths up to the limit
  of `MAPREDUCE_PATH_MAX` = 3, in buffers that the longest message fills. The
  proofs are for every `Base` above 7.
* `words_counts`: all texts of 5 characters in total over two letters, space and
  newline; `LINE_MAX` 5 and `MaxValuesPerKey` 2, so that lines do not fit and keys
  overflow. `startup`: three names, tables of 2 and 4, files of up to two lines
  with every kind of error and both ends of the ranges.

Workers are interchangeable, so the safety runs of MapReduce use symmetry on them;
the liveness runs do not, and no run does on descriptors, whose order `accept` and
`check_client_timeouts` follow. Deadlock is checked in `log_faults`, `words_counts`
and `startup`. It is not in the others, because those systems do stop: with the
job over the workers exit, a master may refuse its log, a server is shut down, a
conversation ends.

### Fairness

* MapReduce: weak fairness of starting a process that is not running (the
  operator does it), of each descriptor's handler (`kevent` reports every ready
  descriptor), of the next statement of each worker, and of `before_sleep_proc`
  where it is called (once per loop iteration, with time passing). None of
  crashes, failed sends, failing renames or task results: `EventuallyFinished`
  includes the job that fails and the start that is refused.
* Server: weak fairness of the loop as a whole (it is one thread that never
  blocks while something is ready), strong fairness of an iteration in which time
  passes (a clock does not stand still for ever because iterations are short), and
  weak fairness of reading by the peers of a setting that reads. Handlers get no
  fairness of their own: that each ready descriptor is served follows from the
  batches of `kevent`.
* Conversation: weak fairness of each process's next statement; none of kills.
  Nothing is assumed about the size of the pieces a write is cut into.

## 4. Proofs

| Module | Theorems | Assumes besides the modules' ASSUMEs |
|---|---|---|
| `MapReduceProofs` | `Safety`, `TypeCorrect`, `SlotsAlwaysConsistent`, `MapsPublished`, `LogTellsTheTruth` | nothing: any append faults, with or without the callback |
| `ShippedProofs` | `ShippedSafety`, `ReportsAlwaysCurrent`, `ExecutionIsExclusive`, `OutputsPublished`, `CountersExact`, `WaitNeverAborts`, `DoneMeansDone`, `InputsPublished`, `LogHasNoDuplicates`, `FailureExact` | `BeforeSleepCalled = FALSE` |
| `ShippedProofs`, second part | `DurableSafety`, `CompletionsDurable`, `Refinement` (`Spec => ImplementsJob`) | also `AppendOutcomes = {"ok"}` |
| `AofFileProofs` | `AckedSurvivesAlways`, `ReplayExactAlways`, `RefusalsAreTornAlways`, `LogInOrderAlways` | `OneMaster` |
| `AofLogProofs` | `ShapeInvariant`, `AppendsAsModelledAlways`, `LoadsAsModelledAlways` | `OneMaster`; for the appends also `"torn" \in AppendOutcomes` |
| `ServerProofs` | `ServerInvariant`, `HandlersMatchAlways`, `RepliesIntactAlways`, `StreamIntactAlways` | nothing |
| `ServerRemovalProofs` | `NoSpuriousRemovalAlways`, `WorkersHarmlessAlways` | nothing |
| `InputProofs` | of a start: `ConfigAsScannedAlways`, `InputsExactAlways`, `BackstopUnreached`, `ServesSoundJobs`, `ServesLoggedJob`, `HeadersKept`; of the codec: `TaskDoneRoundTrip`, `WaitRoundTrip`, `TaskReduceRoundTrip`, `TaskMapRoundTrip`, `TaskDoneCanonical`; of the exchange: `ConversationInvariant`, `UnderstoodAlways`, `CanonicalAlways` | nothing |
| `SequenceFacts` | lemmas only: concatenation, cutting, flattening, and induction | nothing |

All are for every value of the constants: any number of tasks, workers,
descriptors, attempts, stops and crashes; any base above the largest message
kind; any size of the read, write and socket buffers and any length of the
frames; any set of configuration files. The modules' assumptions are positive `M`,
`R` and `MAX_ATTEMPTS`, natural timeouts and bounds, buffers that hold the largest
message, and tables of at least the default `n-reduce`; for `Conversation`, that
the strange payloads it tries are ones a base and a length field can express.

The theorems about the log carry hypotheses of their own. `OneMaster` says that one
process at a time uses a log: the repository's `README.md:54` draws the master as
"single process · single thread", and with two the properties are false (section
5). That
`"torn"` is among the outcomes is needed because `AofFile` does tear records, which
an `Aof` that is told to expect none would not allow.

### The job's argument

It has three layers, each an inductive invariant on top of the one before.

**`SafeInv`** holds of both programs. Neither `CompletedMapsPublished` nor
`AofPublished` is inductive. A report is only true because of a chain: the worker
renames file after file and reports success only when none failed
(`FilesWritten`); it has one request outstanding at most (`StopAndWait`), so the
slot of its connection still names the task it was given when the report is
handled (`SlotAgrees`, `ReportsTrue`); descriptors are reused but never shared
(`LinksDistinct`); and no slot names a reduce before the reduce phase
(`SlotsFollowPhase`), so a report looked up in `maps[]` is one of a map. That the
last link fails in the other direction (a map's slot in the reduce phase) is
exactly `timeouts_late_report`, and is why `MapsPublished` speaks of maps alone.

**`ShippedInv`** adds what is true because nothing ends an attempt behind the back
of the worker that runs it. A connected worker that executes, or whose assignment
is in flight, holds the current attempt of its task (`WorkersHold`), and so does a
report waiting to be handled (`ReportsHeld`); hence a report is always of the
current phase, every report that counts counts once, and the counters equal the
number of COMPLETED slots (`DoneCounts`), which fixes the phase (`PhaseCounts`).
A task that was recorded is COMPLETED in the tables of a running master
(`RecordedCompleted`), so it is never handed out again and never recorded twice
(`AofNoDuplicates`), and replay, which counts records, counts tasks. A master that
is down has blank tables (`DownBlank`), which is what the induction starts from
again after a crash. A sweep or client timeout breaks `WorkersHold` in one step.

**`DurableInv`** adds, for a disk that takes every append, the converse of
`RecordedCompleted` (`DurableCompletions`), and that whoever has a reduce, in hand
or on its way, may rely on every map being in the log (`ReducesFollowLog`), also
after the master that assigned it is gone. The refinement follows: a step that
renames a file is a publication of `Job`, a successful report is a completion
whose files exist by `ReportsTrue`, and every other step changes nothing durable.

`ShippedInv` was model-checked on the instances of `shipped_faults` and
`shipped_disk_faults`, and `DurableInv` on that of `shipped_faults`, before they
were proved.

### The log file

**`FileInv`** has a part that holds whatever happens (`TypeInv`, `KnownInv`: what is
written or remembered was reported to some master) and a part, `LogInv`, that
holds with one master until a call fails. Acknowledged completions survive because
of three things together: the file is a prefix of the layout of `aof.h` (`Laid`),
the records that end before `synced` include the acknowledged ones, and at every
place a master can be in, its tables are what the file says, except for the record
it is writing (`PlaceInv`). The layout is what a restart relies on: a file cut in
the middle of a section is refused, so nobody writes after the cut, and `Laid`
survives the next master.

When a call fails that is no longer so: the master goes on after a torn record.
**`ShapeInv`** is what is left then, and it is all that the comparison with `Aof`
needs: two whole headers and after them first and second halves of records, every
second half right after its own first. Reading the file from the start and
flattening what begins at each unit gives the log of records; a write of one unit
makes that log longer by a torn record, a write of two or the second half by a
whole one, which is what `aof_append_completed` allows, and `aof_load` meets the
first torn pair exactly when the log of records has a torn record.

### The server

**`ServerInv`** speaks of one descriptor at a time. With a client: its handlers are
the ones its buffers call for (`Drains`: the write handler may be missing only
where `kevent` may refuse it), `woff` points into `wbuf`, nobody but the client
being served has a whole or an oversize frame in `buf`, and both streams are in
step (`Talks`): the units in the socket followed by the unsent part of `wbuf` are
the answers still due, and the units in `buf` followed by those in the socket are
the frames still unanswered. Without a client: no handler and a fresh socket. The
second half is what makes descriptors safe to reuse. That nobody waits with a whole
frame (`Waits`) is why a read always finds room, hence why `on_read` never mistakes
a full buffer for the end of the stream, hence `NoSpuriousRemoval`.

`WorkersHarmless` needs **`HarmlessInv`**: with one request under way whose answer
fits the socket, `wbuf` is always empty, and a connection is reset only when
nothing of it is unanswered (`Quiet`), so no write can meet a reset.

### The wire

The round trips rest on `U32Bytes` and `U16Bytes` (what a read returns of what a
write wrote, by uniqueness of quotient and remainder) and on lemmas that place the
fields of a concatenation. They say that a receiver takes the encoding of a
message for that message, for every value that fits the fields. The other
direction, that a receiver accepts only what an encoder writes, is `TaskDoneCanonical`
for the message on which the master changes state, and `CanonicalAlways` for every
message with a body and every payload that arrives.

**`ConversationInv`** says that the conversation is in one of four phases (about to
ask, request under way, about to answer, answer under way) or began with a payload
that no program sent. "Under way" is the part that needs care: there is an encoding
of what was said such that the bytes in the stream, followed by the bytes its sender
still has, are the frame; a sender that was killed has none left, so the receiver
sees a proper prefix and waits for the end of the stream, and never a shorter frame.

### A start

The start-up theorems follow from `StartupInv`: settings stay within the table's
ranges although errors do not stop `load_config`, the splits found fit `maps[]`,
every header in a log was sound when it was written, and from `aof_init` on the job
in memory is the one of the header. `ConfigAsScanned` adds what the lines read so
far have set. `InputsExact` adds that the splits found so far are in order and
before every entry still to come, and that a name that has not changed is regular
exactly when it was found or is still to come as a regular file (`FoundInv`).

### Induction over sequences

The log of records and the stream of frames are concatenations of sequences of
sequences. `SequenceOps` defines `Flatten` by a recursive function, since nothing
can be proved in a module that reaches a RECURSIVE operator. The provers cannot use
the library's induction rules, which take an operator as a parameter;
`SequenceFacts` therefore proves induction for sets (`NatSetInduction`: a set of
naturals with 0 and closed under successor is `Nat`; `SeqSetInduction` likewise for
sequences) from well-foundedness, and the lemmas on `Flatten` from these.

### Left to TLC

Liveness, which needs `ENABLED` and fairness. And `WordCount`: parsing, sorting and
the group walk are RECURSIVE operators and folds over the data. Every other
invariant and action property that a passing run checks is also a theorem, with the
hypotheses of the table above. In one case the run and the theorem are about
different programs: `JobFailedIffTaskFailed` is checked by `timeouts`, where the
callback runs, and proved (`FailureExact`) for the code as built; with the callback
it is only model-checked.

## 5. Not modelled

* `crc64.c`: vendored; whether two sections collide is not a question for a model
  checker. A mismatch counts as detected. `log.h`: output only.
* The byte layout of the log's sections, and the characters `sscanf` and `strtol`
  work on: sections are pairs of units, configuration lines are tokens.
* A `kevent` that fails while `el_run` polls, other than with EINTR: it ends the
  loop and the process, which MapReduce has as a crash. A `kevent` that refuses to
  register a handler is modelled (`el_add`, `el_add_write`); one that refuses to
  delete a filter is not: the handler is gone from the table all the same, and
  `el_run` skips events that have none.
* Two masters on one directory. `AofFile` can be given two, and then shows both
  writing headers into one file, which is refused from then on; the repository
  describes a single master, and the run has one.
* Loss of the workers' files with the machine: workers never fsync what they
  rename, while the master does flush its record, so the log can outlive the files
  it speaks of. In the models what was renamed stays.
* Wall-clock values: time is ticks, and what matters is the order of events.
