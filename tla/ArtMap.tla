------------------------------- MODULE ArtMap -------------------------------
(***************************************************************************)
(* What art.h promises of the tree: a map from keys to values.  An insert  *)
(* returns the value the key had, NULL when it is new, and replaces it     *)
(* unless the caller asked for none to be replaced; a delete removes the   *)
(* key and returns its value; a search returns the value.                  *)
(***************************************************************************)
CONSTANTS Keys, Values, NoValue

VARIABLES
  map,   \* the value of each key, or NoValue
  call,  \* the last call: the operation and its arguments
  ret    \* the value it returned

Init ==
  /\ map = [k \in Keys |-> NoValue]
  /\ call = <<>>
  /\ ret = NoValue

Insert(k, v) ==
  /\ call' = <<"insert", k, v>>
  /\ ret' = map[k]
  /\ map' = [map EXCEPT ![k] = v]

InsertNoReplace(k, v) ==
  /\ call' = <<"insert_no_replace", k, v>>
  /\ ret' = map[k]
  /\ map' = IF map[k] = NoValue THEN [map EXCEPT ![k] = v] ELSE map

Delete(k) ==
  /\ call' = <<"delete", k>>
  /\ ret' = map[k]
  /\ map' = [map EXCEPT ![k] = NoValue]

Search(k) ==
  /\ call' = <<"search", k>>
  /\ ret' = map[k]
  /\ UNCHANGED map

Next ==
  \E k \in Keys :
    \/ \E v \in Values : Insert(k, v) \/ InsertNoReplace(k, v)
    \/ Delete(k)
    \/ Search(k)

Spec == Init /\ [][Next]_<<map, call, ret>>
=============================================================================
