------------------------------ MODULE KVStore ------------------------------
(***************************************************************************)
(* What a schema promises its caller: a dictionary.  A put of a pair that  *)
(* fits the configured limits replaces the key's value, any other put      *)
(* changes nothing, a get answers with the value of the latest put that    *)
(* took effect since the key was last deleted, and a del removes the key.  *)
(* Puts always answer 0, as schema_put_kv does, whether they took effect   *)
(* or not.                                                                 *)
(***************************************************************************)
EXTENDS Integers

CONSTANTS
  Keys,     \* the keys
  Values,   \* the values
  NoValue,  \* the NULL a get answers for a missing key
  Fits      \* the <<key, value>> pairs small enough to be stored

VARIABLES
  store,    \* the dictionary
  reply     \* the last call and what it returned: <<op, argument, result>>

vars == <<store, reply>>

Init ==
  /\ store = [k \in Keys |-> NoValue]
  /\ reply = <<>>

Put(k, v) ==
  /\ store' = IF <<k, v>> \in Fits THEN [store EXCEPT ![k] = v] ELSE store
  /\ reply' = <<"put", <<k, v>>, 0>>

Get(k) ==
  /\ reply' = <<"get", k, store[k]>>
  /\ UNCHANGED store

Del(k) ==
  /\ store' = [store EXCEPT ![k] = NoValue]
  /\ reply' = <<"del", k, IF store[k] = NoValue THEN -1 ELSE 0>>

Next ==
  \E k \in Keys :
    \/ \E v \in Values : Put(k, v)
    \/ Get(k)
    \/ Del(k)

Spec == Init /\ [][Next]_vars
=============================================================================
