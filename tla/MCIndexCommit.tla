---------------------------- MODULE MCIndexCommit ----------------------------
(* IndexCommit on a small instance. *)
EXTENDS IndexCommit, TLC

DocSymmetry == Permutations(Docs)
=============================================================================
