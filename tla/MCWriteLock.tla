----------------------------- MODULE MCWriteLock -----------------------------
(* WriteLock on a small instance. *)
EXTENDS WriteLock, TLC

ProcSymmetry == Permutations(Procs)
=============================================================================
