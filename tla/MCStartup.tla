------------------------------ MODULE MCStartup ------------------------------
(***************************************************************************)
(* Startup for TLC: the configuration files, and a history variable that   *)
(* tells which names have changed since scandir read the directory.        *)
(***************************************************************************)
EXTENDS Startup

VARIABLE touched

mcVars == <<startupVars, touched>>

Number(n) == [whole |-> TRUE, number |-> n, text |-> "./mr.aof"]

Text(s) == [whole |-> FALSE, number |-> 0, text |-> s]

Line(k, vs) == [kind |-> "line", key |-> k, values |-> vs]

Pair(k, v) == Line(k, <<v>>)

Comment == [kind |-> "comment", key |-> "", values |-> << >>]

\* Lines that are refused: one word, an unknown key, a value that is not a
\* number, and numbers beyond the bounds of the table.
Errors ==
  {Line("hz", << >>), Pair("n_reduce", Number(1)),
   Pair("hz", Text("./input")), Pair("hz", Number(0)), Pair("n-reduce", Number(0)),
   Pair("n-reduce", Number(MAX_REDUCE_TASKS + 1)), Pair("task-timeout-ms", Number(99))}

\* Files with such a line, and files without one: no setting, one given twice,
\* the second time with a word too many, numbers at the bounds, another log and
\* another directory.
ShortConfs ==
  {<<Pair("hz", Number(500)), p>> : p \in Errors} \cup
  {<< >>,
   <<Pair("n-reduce", Number(1)), Line("n-reduce", <<Number(2), Number(3)>>)>>,
   <<Pair("hz", Number(500)), Pair("task-timeout-ms", Number(100))>>,
   <<Comment, Pair("aof-path", Text("./b.aof"))>>,
   <<Pair("input-dir", Text("./none"))>>}

MCInit == StartupInit /\ touched = {}

MCNext ==
  /\ StartupNext
  /\ touched' = IF stage' \in {"scan", "open"} /\ stage # "bootstrap"
                THEN touched \cup {n \in 1 .. MaxEntries : dir'[n] # dir[n]}
                ELSE {}

MCSpec == MCInit /\ [][MCNext]_mcVars

\* Between scandir and the stat of a name the directory may change.  The splits
\* of a new job are nevertheless each there once and in the order of their
\* names, and of the names that nobody touched exactly the visible regular
\* files are among them: what happens to one name neither hides nor adds another.
InputsExact ==
  stage = "open" /\ logs[aof_path] = NoJob =>
    /\ \A a, b \in DOMAIN job.splits : a < b => job.splits[a] < job.splits[b]
    /\ \A n \in (1 .. MaxEntries) \ touched :
         dir[n] = "regular" <=> \E a \in DOMAIN job.splits : job.splits[a] = n
=============================================================================
