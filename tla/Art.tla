-------------------------------- MODULE Art --------------------------------
(***************************************************************************)
(* The adaptive radix tree of src/src/art.c as a state machine: the tree   *)
(* a schema keeps its index in, and the calls it makes on it, one at a     *)
(* time.  A caller hands over a buffer that holds the key and then         *)
(* whatever follows the key in memory.                                     *)
(*                                                                         *)
(* A ref is a place that points to a node: Root is the tree's own, the     *)
(* others are the entries of the nodes' arrays of children.  To store a    *)
(* pointer in a place is to put the node there.                            *)
(***************************************************************************)
EXTENDS ArtNodes

CONSTANTS
  Keys,       \* sequences of the bytes 1 .. NBytes - 1
  MaxKeyLen,  \* bound on their length
  Values,
  Rests,      \* what may follow a key in its buffer, more than a key's length
  Refs,       \* the places for nodes: no insert runs out of them
  Root        \* art_tree.root

ASSUME KeysAssumption ==
  /\ Keys \subseteq Seq(1 .. NBytes - 1)
  /\ MaxKeyLen \in Nat
  /\ \A k \in Keys : Len(k) <= MaxKeyLen
  /\ \A rest \in Rests : rest \in Seq(Bytes) /\ Len(rest) > MaxKeyLen
  /\ NoValue \notin Values

ASSUME RefsAssumption == IsFiniteSet(Refs) /\ Root \in Refs

VARIABLES
  nodes,  \* the node in each place, or NoNode
  size,   \* art_tree.size
  call,   \* the last call: the operation and its arguments
  ret     \* the value it returned

vars == <<nodes, size, call, ret>>

-----------------------------------------------------------------------------
(* x, and n times the next of it. *)
Iterate(next, x, n) ==
  LET after[i \in Nat] == IF i = 0 THEN x ELSE next[after[i - 1]] IN after[n]

(* The leaf an inner node's last children lead to. *)
maximum(r) ==
  nodes[Iterate([q \in Refs |-> IF IsInner(nodes[q]) THEN Last(nodes[q].children).ref
                                ELSE q], r, MaxKeyLen + 1)]

(* The leaf an inner node's first children lead to. *)
minimum(r) ==
  nodes[Iterate([q \in Refs |-> IF IsInner(nodes[q]) THEN Head(nodes[q].children).ref
                                ELSE q], r, MaxKeyLen + 1)]

(* A place on the way down, and the bytes of the key consumed there.       *)
Places == [ref : Refs, depth : Nat]
Start == [ref |-> Root, depth |-> 0]

(* Where the byte is that chooses the child, that child's index or 0, and  *)
(* its place.                                                              *)
Turn(p) == p.depth + nodes[p.ref].partial_len
Chosen(p, key) == find_child(nodes[p.ref], key[Turn(p) + 1])
Below(p, key) ==
  [ref |-> nodes[p.ref].children[Chosen(p, key)].ref, depth |-> Turn(p) + 1]

(* The way down along a key for as long as the place is one to go on from. *)
(* Every step consumes a byte of a key.                                    *)
Descend(from, key) ==
  Iterate([p \in Places |-> IF p \in from THEN Below(p, key) ELSE p],
          Start, MaxKeyLen + 1)

-----------------------------------------------------------------------------
(* Mutant: a prefix is compared only as far as the node stores it. *)
prefix_mismatch_stored(p, key, key_len) ==
  check_prefix(nodes[p.ref], key, key_len, p.depth)

(* Where a key leaves the prefix of a node.  Bytes of the prefix the node  *)
(* does not store are those of any leaf below it.                          *)
prefix_mismatch(p, key, key_len) ==
  LET n   == nodes[p.ref]
      idx == check_prefix(n, key, key_len, p.depth)
      l   == minimum(p.ref)
      max == Least(Len(l.key), key_len) - p.depth
  IN  IF idx < Least(Len(n.partial), key_len - p.depth)
           \/ n.partial_len <= MAX_PREFIX_LEN \/ max <= idx
      THEN idx
      ELSE Agreement(Drop(l.key, p.depth), Drop(key, p.depth), max)

(* The node's stored prefix matches and a child continues with the key.    *)
Continues(p, key, key_len) ==
  /\ IsInner(nodes[p.ref])
  /\ check_prefix(nodes[p.ref], key, key_len, p.depth) = Len(nodes[p.ref].partial)
  /\ Chosen(p, key) /= 0

(* The value art_search returns for the key. *)
art_search(key, key_len) ==
  LET n == nodes[Descend({p \in Places : Continues(p, key, key_len)}, key).ref]
  IN  IF IS_LEAF(n) /\ leaf_matches(n, key, key_len) THEN n.val ELSE NoValue

-----------------------------------------------------------------------------
(* Two places not in use: no allocation fails. *)
Unused == {r \in Refs \ {Root} : nodes[r] = NoNode}
Room == Cardinality(Unused) >= 2
NewRef == CHOOSE a \in Unused : TRUE
OtherRef == CHOOSE b \in Unused : b /= NewRef

(* Mutant: the new leaf is stored under both bytes. *)
SplitSame(r, prefix, len, c, n, d, leaf) ==
  LET new_node == [type |-> "NODE4", partial_len |-> len, partial |-> prefix,
                   children |-> <<>>]
  IN  [nodes EXCEPT ![r] = add_child(add_child(new_node, c, NewRef), d, NewRef),
                    ![NewRef] = leaf]

(* A NODE4 with this prefix takes the place r: what was there goes below   *)
(* it under the byte c, and a new leaf under the byte d.                   *)
Split(r, prefix, len, c, n, d, leaf) ==
  LET new_node == [type |-> "NODE4", partial_len |-> len, partial |-> prefix,
                   children |-> <<>>]
  IN  [nodes EXCEPT ![r] = add_child(add_child(new_node, c, NewRef), d, OtherRef),
                    ![NewRef] = n,
                    ![OtherRef] = leaf]

(* A leaf whose key differs from the new one. *)
SplitLeaf(p, key, l2) ==
  LET l      == nodes[p.ref]
      shared == Agreement(Drop(l.key, p.depth), Drop(l2.key, p.depth),
                          Least(Len(l.key), Len(l2.key)) - p.depth)
  IN  Split(p.ref, First(Drop(key, p.depth), Least(MAX_PREFIX_LEN, shared)), shared,
            LeafByte(l, p.depth + shared), l, LeafByte(l2, p.depth + shared), l2)

(* A node whose prefix the key leaves after diff bytes. *)
SplitPrefix(p, key, l2, diff) ==
  LET n      == nodes[p.ref]
      prefix == IF n.partial_len <= MAX_PREFIX_LEN THEN n.partial
                ELSE Drop(minimum(p.ref).key, p.depth)
      left   == n.partial_len - (diff + 1)
      below  == [n EXCEPT !.partial_len = left,
                          !.partial = First(Drop(prefix, diff + 1),
                                            Least(MAX_PREFIX_LEN, left))]
  IN  Split(p.ref, First(n.partial, diff), diff, prefix[diff + 1], below,
            key[p.depth + diff + 1], l2)

(* Where an insert ends: at a leaf, at a node whose prefix the key leaves, *)
(* or at a node with no child for it.                                      *)
InsertPlace(key, key_len) ==
  Descend({p \in Places : /\ IsInner(nodes[p.ref])
                          /\ prefix_mismatch(p, key, key_len) >= nodes[p.ref].partial_len
                          /\ Chosen(p, key) /= 0}, key)

recursive_insert(key, key_len, val, replace) ==
  LET p    == InsertPlace(key, key_len)
      n    == nodes[p.ref]
      l2   == make_leaf(key, key_len, val)
      diff == prefix_mismatch(p, key, key_len)
      same == IS_LEAF(n) /\ leaf_matches(n, key, key_len)
  IN  \/ /\ same
         /\ nodes' = IF replace THEN [nodes EXCEPT ![p.ref].val = val] ELSE nodes
         /\ ret' = n.val
         /\ UNCHANGED size
      \/ /\ ~same /\ Room
         /\ nodes' =
              CASE n = NoNode -> [nodes EXCEPT ![p.ref] = l2]
                [] IS_LEAF(n) -> SplitLeaf(p, key, l2)
                [] IsInner(n) /\ diff < n.partial_len -> SplitPrefix(p, key, l2, diff)
                [] OTHER ->
                     [nodes EXCEPT ![p.ref] = add_child(n, key[Turn(p) + 1], NewRef),
                                   ![NewRef] = l2]
         /\ ret' = NoValue
         /\ size' = size + 1

-----------------------------------------------------------------------------
remove_child(r, i) ==
  LET n    == nodes[r]
      m    == [n EXCEPT !.children = RemoveAt(@, i)]
      left == [nodes EXCEPT ![n.children[i].ref] = NoNode]
      only == m.children[1].ref
  IN  IF Len(m.children) /= Shrink[n.type] THEN [left EXCEPT ![r] = m]
      ELSE IF n.type = "NODE4"
      THEN [left EXCEPT ![r] = Collapsed(m, nodes[only]), ![only] = NoNode]
      ELSE [left EXCEPT ![r] = Resized(m, Smaller[n.type])]

(* Where a delete ends: at the only leaf of the tree, at the node that     *)
(* holds a leaf the key leads to, or where the key leaves the tree.        *)
DeletePlace(key, key_len) ==
  Descend({p \in Places : /\ Continues(p, key, key_len)
                          /\ ~IS_LEAF(nodes[Below(p, key).ref])}, key)

recursive_delete(key, key_len) ==
  LET p    == DeletePlace(key, key_len)
      n    == nodes[p.ref]
      leaf == IF Continues(p, key, key_len) THEN nodes[Below(p, key).ref] ELSE n
  IN  \/ /\ IS_LEAF(leaf) /\ leaf_matches(leaf, key, key_len)
         /\ nodes' = IF IS_LEAF(n) THEN [nodes EXCEPT ![p.ref] = NoNode]
                     ELSE remove_child(p.ref, Chosen(p, key))
         /\ ret' = leaf.val
         /\ size' = size - 1
      \/ /\ ~(IS_LEAF(leaf) /\ leaf_matches(leaf, key, key_len))
         /\ ret' = NoValue
         /\ UNCHANGED <<nodes, size>>

-----------------------------------------------------------------------------
Init ==
  /\ nodes = [r \in Refs |-> NoNode]
  /\ size = 0
  /\ call = <<>>
  /\ ret = NoValue

(* Mutant: an insert counts a key it only updates.  *)
art_insert_counting(k, v, rest) ==
  /\ call' = <<"insert", k, v>>
  /\ size' = size + 1
  /\ LET p == InsertPlace(k \o rest, Len(k))
     IN  \/ recursive_insert(k \o rest, Len(k), v, TRUE)
         \/ /\ IS_LEAF(nodes[p.ref]) /\ leaf_matches(nodes[p.ref], k \o rest, Len(k))
            /\ nodes' = [nodes EXCEPT ![p.ref].val = v]
            /\ ret' = nodes[p.ref].val

art_insert(k, v, rest) ==
  /\ call' = <<"insert", k, v>>
  /\ recursive_insert(k \o rest, Len(k), v, TRUE)

art_insert_no_replace(k, v, rest) ==
  /\ call' = <<"insert_no_replace", k, v>>
  /\ recursive_insert(k \o rest, Len(k), v, FALSE)

art_delete(k, rest) ==
  /\ call' = <<"delete", k>>
  /\ recursive_delete(k \o rest, Len(k))

Search(k, rest) ==
  /\ call' = <<"search", k>>
  /\ ret' = art_search(k \o rest, Len(k))
  /\ UNCHANGED <<nodes, size>>

Next ==
  \E k \in Keys, rest \in Rests :
    \/ \E v \in Values : art_insert(k, v, rest)
    \/ \E v \in Values : art_insert_no_replace(k, v, rest)
    \/ art_delete(k, rest)
    \/ Search(k, rest)

Spec == Init /\ [][Next]_vars

-----------------------------------------------------------------------------
LeafRefs == {r \in Refs : IS_LEAF(nodes[r])}
Leaves == {nodes[r] : r \in LeafRefs}

(* What the leaves say of each key. *)
Held ==
  [k \in Keys |-> LET mine == {l \in Leaves : l.key = k}
                  IN  IF mine = {} THEN NoValue ELSE (CHOOSE l \in mine : TRUE).val]

LeafNode == [type : {"LEAF"}, key : Keys, val : Values]
InnerNode ==
  [type : Types, partial_len : Nat, partial : Seq(Bytes),
   children : Seq([byte : Bytes, ref : Refs \ {Root}])]

(* An inner node holds as many children as its type has room for and more  *)
(* than the count a removal shrinks it at, one per byte.                   *)
WellLaid(n) ==
  LET count == Len(n.children)
  IN  /\ n \in InnerNode
      /\ Shrink[n.type] < count /\ count <= Capacity[n.type]
      /\ \A i, j \in 1 .. count : n.children[i].byte = n.children[j].byte => i = j

(***************************************************************************)
(* Type correctness: every place is empty or holds a leaf of a key or a    *)
(* well laid inner node.                                                   *)
(***************************************************************************)
TypeOK ==
  /\ DOMAIN nodes = Refs
  /\ \A r \in Refs : \/ nodes[r] = NoNode
                     \/ nodes[r] \in LeafNode
                     \/ WellLaid(nodes[r])
  /\ size \in Nat
  /\ call \in {<<>>} \cup ({"delete", "search"} \X Keys)
                     \cup ({"insert", "insert_no_replace"} \X Keys \X Values)
  /\ ret \in Values \cup {NoValue}

(* The nodes and the index of their entry that point to a place. *)
Owners(r) ==
  {o \in Refs \X (1 .. NBytes) : /\ IsInner(nodes[o[1]])
                                 /\ o[2] <= Len(nodes[o[1]].children)
                                 /\ nodes[o[1]].children[o[2]].ref = r}

(* Every node but the root is the child of one node, once, and no node has *)
(* a child that was freed: no split, collapse or removal leaks a node,     *)
(* shares one, or leaves a pointer behind.                                 *)
OneOwner ==
  \A r \in Refs : IF r = Root \/ nodes[r] = NoNode THEN Owners(r) = {}
                  ELSE \E o \in Owners(r) : Owners(r) = {o}

(* art_size counts the leaves, and no two of them have the same key. *)
SizeRight ==
  /\ size = Cardinality(Leaves)
  /\ \A q, r \in LeafRefs : nodes[q].key = nodes[r].key => q = r

(* The places on the way down that the bytes of a key lead to. *)
Route(key) ==
  LET from == {p \in Places : /\ IsInner(nodes[p.ref])
                              /\ Turn(p) < Len(key)
                              /\ Chosen(p, key) /= 0}
      next == [p \in Places |-> IF p \in from THEN Below(p, key) ELSE p]
  IN  {Iterate(next, Start, i) : i \in 0 .. MaxKeyLen + 1}

(* Prefixes stay those of the keys below them through every split of a     *)
(* prefix longer than a node stores and every collapse of a NODE4: the     *)
(* bytes of a leaf's own key lead to the leaf, and at every node on the    *)
(* way it agrees with the first leaf below on partial_len bytes, of which  *)
(* partial is what fits.                                                   *)
PrefixesRight ==
  \A r \in LeafRefs :
    LET key   == nodes[r].key
        route == Route(Append(key, 0))
    IN  /\ \E p \in route : p.ref = r
        /\ \A p \in route :
             IsInner(nodes[p.ref]) =>
               LET path == SubSeq(key, p.depth + 1, Turn(p))
               IN  /\ Turn(p) <= Len(key)
                   /\ nodes[p.ref].partial = First(path, MAX_PREFIX_LEN)
                   /\ path = SubSeq(minimum(p.ref).key, p.depth + 1, Turn(p))

(* The order of keys byte by byte, a key before those it is a prefix of.   *)
Before(j, k) ==
  LET same == Agreement(j, k, Least(Len(j), Len(k)))
  IN  CASE same = Len(j) -> TRUE
        [] same < Len(j) /\ same = Len(k) -> FALSE
        [] OTHER -> j[same + 1] <= k[same + 1]

(* art_minimum and art_maximum return the first and the last key, which is *)
(* what art.h:174 says of them: true, whatever types the nodes have been   *)
(* of, as long as no byte of a key is in the upper half, which a NODE16    *)
(* puts first (art.c:429).                                                 *)
EndsOrdered ==
  \A l \in Leaves : /\ Before(minimum(Root).key, l.key)
                    /\ Before(l.key, maximum(Root).key)

(***************************************************************************)
(* The tree is the map art.h promises: every call leaves in the leaves     *)
(* what the map holds and returns what the map does, whatever the bytes    *)
(* after the key's terminator are.                                         *)
(***************************************************************************)
Map == INSTANCE ArtMap WITH map <- Held

ImplementsMap == Map!Spec
=============================================================================
