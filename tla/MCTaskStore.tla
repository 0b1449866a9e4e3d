----------------------------- MODULE MCTaskStore -----------------------------
(***************************************************************************)
(* TaskStore on small instances.                                            *)
(***************************************************************************)
EXTENDS TaskStore

\* Columns carry any of the values.
Values == Permutations(Value)
=============================================================================
