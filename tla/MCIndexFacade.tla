---------------------------- MODULE MCIndexFacade ----------------------------
(* IndexFacade on a small instance. *)
EXTENDS IndexFacade, TLC

CONSTANTS f1, f2, d1, d2

MCOptions == {[auto_flush |-> TRUE, key |-> "field"], [auto_flush |-> FALSE, key |-> "fields"]}
MCKeyOf == (d1 :> "k1") @@ (d2 :> "k1")
Symmetry == Permutations({f1, f2}) \cup Permutations({d1, d2})
=============================================================================
