---------------------------- MODULE SequenceOps ----------------------------
(***************************************************************************)
(* An operator on sequences that the specifications share.                 *)
(***************************************************************************)
EXTENDS Integers, Sequences

\* The elements of ss one after the other, in a form the proofs can use.
Flatten(ss) ==
  LET flat[n \in 0 .. Len(ss)] == IF n = 0 THEN << >> ELSE flat[n - 1] \o ss[n]
  IN  flat[Len(ss)]
=============================================================================
