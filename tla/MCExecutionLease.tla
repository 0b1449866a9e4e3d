--------------------------- MODULE MCExecutionLease ---------------------------
(***************************************************************************)
(* ExecutionLease on a small instance.                                      *)
(***************************************************************************)
EXTENDS ExecutionLease

\* No call looks at who an owner is, only at whether a token is its own.
Owners == Permutations(Owner)
===============================================================================
