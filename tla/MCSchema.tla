------------------------------ MODULE MCSchema ------------------------------
(***************************************************************************)
(* Model-checking instances of Schema.  Sizes are small numbers that keep  *)
(* the cases apart: a record that leaves room in a file, one that fills it *)
(* at once, and one that is over the limit.                                *)
(***************************************************************************)
EXTENDS Schema, TLC

CONSTANTS k1, k2, small, large, huge

MCKeys == {k1, k2}
MCValues == {small, large, huge}
MCRecSize == [k \in MCKeys |-> (small :> 2 @@ large :> 3 @@ huge :> 4)]

(* The keys are alike: every size is that of the value. *)
MCSymmetry == Permutations(MCKeys)
=============================================================================
