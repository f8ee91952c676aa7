--------------------------------- MODULE Job ---------------------------------
(***************************************************************************)
(* What the system promises, without master, workers, messages or crashes: *)
(* durable facts only.  Files get published, tasks get recorded as         *)
(* completed, each once; a task is recorded only after its files are       *)
(* there, and a reduce produces nothing before every map is recorded.      *)
(***************************************************************************)
EXTENDS Integers

CONSTANTS
  MapIds,      \* the map tasks
  ReduceIds    \* the reduce tasks, which are also the partitions

VARIABLES
  completed,   \* tasks recorded as completed, as <<kind, id>>
  intermediate,
  output

jobVars == <<completed, intermediate, output>>

MapsCompleted == \A x \in MapIds : <<"MAP", x>> \in completed

JobInit ==
  /\ completed = {}
  /\ intermediate = {}
  /\ output = {}

PublishIntermediate(x, y) ==
  /\ intermediate' = intermediate \cup {<<x, y>>}
  /\ UNCHANGED <<completed, output>>

PublishOutput(y) ==
  /\ MapsCompleted
  /\ output' = output \cup {y}
  /\ UNCHANGED <<completed, intermediate>>

CompleteMap(x) ==
  /\ \A y \in ReduceIds : <<x, y>> \in intermediate
  /\ completed' = completed \cup {<<"MAP", x>>}
  /\ UNCHANGED <<intermediate, output>>

CompleteReduce(y) ==
  /\ MapsCompleted
  /\ y \in output
  /\ completed' = completed \cup {<<"REDUCE", y>>}
  /\ UNCHANGED <<intermediate, output>>

JobNext ==
  \/ \E x \in MapIds : CompleteMap(x) \/ \E y \in ReduceIds : PublishIntermediate(x, y)
  \/ \E y \in ReduceIds : PublishOutput(y) \/ CompleteReduce(y)

JobSpec == JobInit /\ [][JobNext]_jobVars
=============================================================================
