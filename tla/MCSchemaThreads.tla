-------------------------- MODULE MCSchemaThreads --------------------------
(***************************************************************************)
(* Model-checking instances of SchemaThreads: two threads and two keys     *)
(* with one value each to put, so that a value tells whose it is.  The     *)
(* first file is full when the threads start, so that the first put has to *)
(* add the second; or, for a get that overlaps an overwrite, one key with  *)
(* two values and a first file that is not full.                           *)
(***************************************************************************)
EXTENDS SchemaThreads

CONSTANTS k1, k2, a, b, t1, t2

MCKeys == {k1, k2}
MCValues == {a, b}
MCPuts == {<<k1, a>>, <<k2, b>>}
OneKeyPuts == {<<k1, a>>, <<k1, b>>}
MCRecSize == [k \in MCKeys |-> [v \in MCValues |-> IF v = a THEN 3 ELSE 2]]

(* File 0 as puts of k1 and k2, or of k1 alone, leave it. *)
BothKeys == [len |-> 5, recs |-> {[off |-> 0, size |-> 2, key |-> k2, val |-> b],
                                  [off |-> 2, size |-> 3, key |-> k1, val |-> a]}]
ShortKey == [len |-> 2, recs |-> {[off |-> 0, size |-> 2, key |-> k1, val |-> b]}]
OneKey == [len |-> 3, recs |-> {[off |-> 0, size |-> 3, key |-> k1, val |-> a]}]

NoThread == {}
FirstThread == {t1}
OtherThread == {t2}
BothThreads == {t1, t2}

(* One call each; one thread makes a second one. *)
OneCall == [t \in Threads |-> 1]
ThreeCalls == [t \in Threads |-> IF t = t1 THEN 2 ELSE 1]
=============================================================================
