------------------------------ MODULE Hashmap ------------------------------
(***************************************************************************)
(* The chained hash map of src/src/hashmap.c.  A map is a record of its    *)
(* chains, newest pair first, and its count.  A key is a sequence of       *)
(* characters; a lookup compares only as many of them as the key it looks  *)
(* for has, so that it stops at the first key of the chain that extends    *)
(* that one.  The hash function (hash.c) is any function to the buckets.   *)
(***************************************************************************)
EXTENDS Integers, Sequences, SequencesExt

CONSTANTS
  MapKeys,    \* the keys: sequences of characters
  Buckets,    \* 0 .. max_count - 1
  Bucket,     \* hashmap_get_index: the bucket of each key
  MaxCount,   \* hashmap.max_count
  NotFound    \* the NULL of hashmap_get

ASSUME HashAssumption ==
  /\ Bucket \in [MapKeys -> Buckets]
  /\ IsFiniteSet(Buckets)
  /\ MaxCount \in Nat \ {0}
  /\ NotFound \notin MapKeys \cup {<<>>}

(* A pair owns copies of its key and value. *)
member_pair(key, val) == [key |-> key, val |-> val]

hashmap_get_index(key) == Bucket[key]

EmptyMap == [ptr |-> [b \in Buckets |-> <<>>], cur_count |-> 0]

-----------------------------------------------------------------------------
(* Mutant: a new pair loses the rest of its chain.  *)
hashmap_put_replacing(m, key, val) ==
  IF key = <<>> \/ m.cur_count >= MaxCount THEN m
  ELSE [ptr |-> [m.ptr EXCEPT ![hashmap_get_index(key)] = <<member_pair(key, val)>>],
        cur_count |-> m.cur_count + 1]

-----------------------------------------------------------------------------
(* The position in a chain of the pair a lookup of key stops at, or 0. *)
hashmap_search(chain, key) == SelectInSeq(chain, LAMBDA p : IsPrefix(key, p.key))

hashmap_get(m, key) ==
  LET chain == m.ptr[hashmap_get_index(key)]
      i     == hashmap_search(chain, key)
  IN  IF m.cur_count = 0 \/ i = 0 THEN NotFound ELSE chain[i].val

(* An empty key and a full map are refused with -1: the map is as it was. *)
hashmap_put(m, key, val) ==
  IF key = <<>> \/ m.cur_count >= MaxCount THEN m
  ELSE [ptr |-> [m.ptr EXCEPT ![hashmap_get_index(key)] = <<member_pair(key, val)>> \o @],
        cur_count |-> m.cur_count + 1]

hashmap_del(m, key) ==
  LET b == hashmap_get_index(key)
      i == hashmap_search(m.ptr[b], key)
  IN  IF i = 0 THEN m
      ELSE [ptr |-> [m.ptr EXCEPT ![b] = RemoveAt(@, i)],
            cur_count |-> m.cur_count - 1]
=============================================================================
