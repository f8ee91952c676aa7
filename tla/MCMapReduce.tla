----------------------------- MODULE MCMapReduce -----------------------------
(***************************************************************************)
(* MapReduce for TLC.                                                      *)
(***************************************************************************)
EXTENDS MapReduce, TLC

\* Worker processes are interchangeable; file descriptors and task ids are
\* not, because accept and choose_available_task take the lowest.
WorkerSymmetry == Permutations(Workers)
=============================================================================
