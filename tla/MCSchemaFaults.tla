-------------------------- MODULE MCSchemaFaults ---------------------------
(***************************************************************************)
(* Model-checking instances of SchemaFaults: a value whose record leaves   *)
(* room in a file, so that every file takes two of them, and one that is   *)
(* over the limit.                                                         *)
(***************************************************************************)
EXTENDS SchemaFaults, TLC

CONSTANTS k1, k2, val, huge

MCKeys == {k1, k2}
MCValues == {val, huge}
MCRecSize == [k \in MCKeys |-> (val :> 2 @@ huge :> 3)]
MCSymmetry == Permutations(MCKeys)
=============================================================================
