------------------------- MODULE MCRelationalIngest -------------------------
(* Instances of RelationalIngest small enough for TLC. *)
EXTENDS RelationalIngest, TLC

CONSTANTS e1, e2, k1, k2

KeySymmetry == Permutations(Keys)
=============================================================================
