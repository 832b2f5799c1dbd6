----------------------------- MODULE MCBitcask -----------------------------
(***************************************************************************)
(* A model-checking instance of Bitcask: two schemas in one bucket, in     *)
(* each a key and three values, whose records differ in size and of which  *)
(* one is too large.                                                       *)
(***************************************************************************)
EXTENDS Bitcask

CONSTANTS k1, v1, v2, v3

a == <<"a">>
b == <<"b">>
MCMeta == <<"m", "t">>

MCNames == {a, b}
MCMapKeys == {a, b, MCMeta}
MCBuckets == 0 .. 0
MCBucket == [k \in MCMapKeys |-> 0]
MCMisnames == {}

MCKeys == {k1}
MCValues == {v1, v2, v3}
MCRecSize == [k \in MCKeys |-> [v \in MCValues |->
  IF v = v1 THEN 2 ELSE IF v = v2 THEN 3 ELSE 4]]
=============================================================================
