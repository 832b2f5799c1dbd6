----------------------------- MODULE MCContext -----------------------------
(***************************************************************************)
(* Model-checking instances of Context: schemas a and ab, of which one is  *)
(* the beginning of the other; the meta schema mt, of which the schema m   *)
(* is the beginning and which is the beginning of the schema mtx.  What a  *)
(* reload may take for a name: none, a part of one, or other bytes.        *)
(***************************************************************************)
EXTENDS Context

a == <<"a">>
b == <<"b">>
ab == <<"a", "b">>
m == <<"m">>
mtx == <<"m", "t", "x">>
MCMeta == <<"m", "t">>
strange == <<"?">>

(* And what a torn record leaves over another. *)
mb == <<"m", "b">>
abx == <<"a", "b", "x">>
at == <<"a", "t">>
atx == <<"a", "t", "x">>

MCMapKeys == {a, b, ab, m, mtx, MCMeta, strange, mb, abx, at, atx}
MCBuckets == 0 .. 1
MCBucket == [k \in MCMapKeys |-> IF k \in {a, ab, at, atx, abx} THEN 0 ELSE 1]
MCMisnames == {<<>>, b, MCMeta, strange}

(* One is the beginning of another; names in every relation to each other  *)
(* and to the meta schema's.                                               *)
Within == {a, ab}
Tangled == {a, ab, m, mtx}
=============================================================================
