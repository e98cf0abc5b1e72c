----------------------------- MODULE MCIndexOpen -----------------------------
(* IndexOpen on a small instance. *)
EXTENDS IndexOpen
=============================================================================
