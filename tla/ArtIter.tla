------------------------------ MODULE ArtIter ------------------------------
(***************************************************************************)
(* The iterations over the tree of src/src/art.c, over the whole of it and *)
(* over the keys with a prefix.                                            *)
(***************************************************************************)
EXTENDS Art

(* The leaves the callback is given, in order, if it stops the iteration   *)
(* at the keys in stops: it is given none after the first of these.        *)
RECURSIVE recursive_iter(_, _)
recursive_iter(r, stops) ==
  LET n == nodes[r]
      goes_on(given) == given = <<>> \/ Last(given).key \notin stops
  IN  CASE n = NoNode -> <<>>
        [] IS_LEAF(n) -> <<n>>
        [] OTHER ->
             FoldLeft(LAMBDA given, c :
                        IF goes_on(given) THEN given \o recursive_iter(c.ref, stops)
                                          ELSE given,
                      <<>>, n.children)

art_iter(stops) == recursive_iter(Root, stops)

leaf_prefix_matches(l, key, key_len) ==
  Len(l.key) >= key_len /\ First(l.key, key_len) = First(key, key_len)

RECURSIVE IterFrom(_, _, _, _)
IterFrom(p, key, key_len, stops) ==
  LET n   == nodes[p.ref]
      len == Least(prefix_mismatch(p, key, key_len), n.partial_len)
  IN  CASE n = NoNode -> <<>>
        [] IS_LEAF(n) -> IF leaf_prefix_matches(n, key, key_len) THEN <<n>> ELSE <<>>
        [] IsInner(n) /\ p.depth = key_len ->
             IF leaf_prefix_matches(minimum(p.ref), key, key_len)
             THEN recursive_iter(p.ref, stops) ELSE <<>>
        [] OTHER ->
             CASE n.partial_len > 0 /\ len = 0 -> <<>>
               [] n.partial_len > 0 /\ len > 0 /\ p.depth + len = key_len ->
                    recursive_iter(p.ref, stops)
               [] OTHER -> IF Chosen(p, key) = 0 THEN <<>>
                           ELSE IterFrom(Below(p, key), key, key_len, stops)

art_iter_prefix(key, key_len, stops) == IterFrom(Start, key, key_len, stops)

-----------------------------------------------------------------------------
(* art_iter gives the callback every key once, and art_size counts them; a *)
(* callback that stops it, at whatever depth, is not called again.         *)
IterationComplete ==
  LET all == art_iter({})
  IN  /\ IsInjective([i \in DOMAIN all |-> all[i].key])
      /\ Len(all) = size
      /\ \A i \in DOMAIN all : art_iter({all[i].key}) = First(all, i)

(* art_iter_prefix gives the callback every key that starts with the       *)
(* prefix, once, wherever the prefix ends: at a leaf, between two nodes or *)
(* inside the bytes of a node, stored or not.                              *)
PrefixIterationComplete ==
  \A k \in Keys, rest \in Rests : \A n \in 0 .. Len(k) :
    LET p     == First(k, n)
        found == art_iter_prefix(p \o rest, n, {})
    IN  /\ {l \in Leaves : IsPrefix(p, l.key)} \subseteq ToSet(found)
        /\ IsInjective(found)

(* art_iter_prefix gives the callback no key but those, as art.h:198 says. *)
PrefixIterationExact ==
  \A k \in Keys, rest \in Rests : \A n \in 0 .. Len(k) :
    LET p == First(k, n)
    IN  \A l \in ToSet(art_iter_prefix(p \o rest, n, {})) : IsPrefix(p, l.key)
=============================================================================
