------------------------------- MODULE ArtProofs -------------------------------
(***************************************************************************)
(* What the calls of the adaptive radix tree do to its shape, and the      *)
(* theorems of Art: its type invariant, the number of its leaves, the      *)
(* owner of every node, the prefixes, the order of the ends, and that the  *)
(* tree is a map.                                                          *)
(***************************************************************************)
EXTENDS ArtShapeProofs

(* Room for a split: two places, neither in use. *)
LEMMA Rooms ==
  ASSUME Room
  PROVE  /\ NewRef \in Refs \ {Root} /\ nodes[NewRef] = NoNode
         /\ OtherRef \in Refs \ {Root} /\ nodes[OtherRef] = NoNode
         /\ NewRef /= OtherRef
<1>1. IsFiniteSet(Unused)
  BY FS_Subset, RefsAssumption DEF Unused
<1>2. Cardinality(Unused) >= 2
  BY DEF Room
<1>3. Unused /= {}
  <2>1. SUFFICES ASSUME Unused = {} PROVE FALSE
    OBVIOUS
  <2>2. Cardinality(Unused) = 0
    BY <2>1, FS_EmptySet
  <2> QED BY <1>2, <2>2
<1>4. NewRef \in Unused
  BY <1>3 DEF NewRef
<1>5. \E b \in Unused : b /= NewRef
  <2>1. SUFFICES ASSUME \A b \in Unused : b = NewRef PROVE FALSE
    OBVIOUS
  <2>2. Unused = {NewRef}
    BY <2>1, <1>4
  <2>3. Cardinality({NewRef}) = 1
    BY FS_Singleton
  <2> QED BY <1>2, <2>2, <2>3
<1>6. OtherRef \in Unused /\ OtherRef /= NewRef
  BY <1>5 DEF OtherRef
<1> QED
  BY <1>4, <1>6 DEF Unused

(* The first elements of a sequence, one by one. *)
LEMMA Firsts ==
  ASSUME NEW S, NEW s \in Seq(S), NEW n \in Nat
  PROVE  /\ First(s, n) = [i \in 1 .. Least(n, Len(s)) |-> s[i]]
         /\ First(s, n) \in Seq(S)
<1>1. Least(n, Len(s)) \in Nat /\ Least(n, Len(s)) <= Len(s)
  BY DEF Least
<1> QED
  BY <1>1 DEF First

(* The same, with its length. *)
LEMMA FirstsEach ==
  ASSUME NEW S, NEW s \in Seq(S), NEW n \in Nat
  PROVE  /\ First(s, n) \in Seq(S)
         /\ Len(First(s, n)) = Least(n, Len(s))
         /\ \A i \in 1 .. Least(n, Len(s)) : First(s, n)[i] = s[i]
<1>1. Least(n, Len(s)) \in Nat /\ Least(n, Len(s)) <= Len(s)
  BY DEF Least
<1> QED
  BY <1>1 DEF First

(* What is left of a sequence after its first elements, one by one. *)
LEMMA Drops ==
  ASSUME NEW S, NEW s \in Seq(S), NEW d \in Nat, d <= Len(s)
  PROVE  /\ Drop(s, d) = [i \in 1 .. Len(s) - d |-> s[d + i]]
         /\ Drop(s, d) \in Seq(S)
         /\ Len(Drop(s, d)) = Len(s) - d
<1>1. Drop(s, d) = [i \in 1 .. Len(s) - d |-> s[d + i]]
  <2>1. Len(s) - (d + 1) + 1 = Len(s) - d
    BY Len(s) \in Nat
  <2>2. Drop(s, d) = SubSeq(s, d + 1, Len(s))
    BY DEF Drop
  <2>3. SubSeq(s, d + 1, Len(s)) = [i \in 1 .. Len(s) - d |-> s[d + 1 + i - 1]]
    BY <2>1
  <2>4. \A i \in 1 .. Len(s) - d : d + 1 + i - 1 = d + i
    OBVIOUS
  <2> QED
    BY <2>2, <2>3, <2>4
<1>2. \A i \in 1 .. Len(s) - d : s[d + i] \in S
  OBVIOUS
<1>3. Len(s) - d \in Nat
  BY Len(s) \in Nat
<1> QED
  BY <1>1, <1>2, <1>3

(* The same, element by element. *)
LEMMA DropsEach ==
  ASSUME NEW S, NEW s \in Seq(S), NEW d \in Nat, d <= Len(s)
  PROVE  /\ Drop(s, d) \in Seq(S)
         /\ Len(Drop(s, d)) = Len(s) - d
         /\ \A i \in 1 .. Len(s) - d : Drop(s, d)[i] = s[d + i]
BY Drops, Dropping

(* Where a node's prefix is on the way down, and what of it is stored. *)
Stored(r, d, n, pl, E, B) ==
  /\ E[r] = d + pl /\ d \in Nat /\ pl \in Nat
  /\ n.partial \in Seq(Bytes) /\ Len(n.partial) = Least(MAX_PREFIX_LEN, pl)
  /\ \A i \in 1 .. Least(MAX_PREFIX_LEN, pl) : n.partial[i] = B[r][d + i]
  /\ \A i \in 1 .. E[r] : B[r][i] \in Bytes /\ B[r][i] /= 0

(* A placed inner node stores its prefix that way. *)
LEMMA StoredPrefix ==
  ASSUME Laid, NEW E, NEW B, Shape(E, B), NEW p, Placed(p, E), p.ref \in InnerRefs
  PROVE  Stored(p.ref, p.depth, nodes[p.ref], nodes[p.ref].partial_len, E, B)
<1> DEFINE r == p.ref
           d == p.depth
           n == nodes[r]
           pl == n.partial_len
<1>1. /\ E[r] = d + pl /\ d \in Nat /\ pl \in Nat
      /\ \A i \in 1 .. E[r] : B[r][i] \in 1 .. NBytes - 1
  BY Turning
<1>2. /\ d \in Nat /\ n.partial_len \in Nat
      /\ n.partial = [i \in 1 .. Least(MAX_PREFIX_LEN, n.partial_len) |-> B[r][d + i]]
  <2>1. /\ n.partial_len \in Nat
        /\ n.partial = [i \in 1 .. Least(MAX_PREFIX_LEN, n.partial_len) |->
                         B[r][(E[r] - n.partial_len) + i]]
    BY <1>1 DEF Shape, LeafAt, InnerAt
  <2>2. E[r] - n.partial_len = d
    BY <1>1
  <2> QED BY <2>1, <2>2, <1>1
<1>3. n.partial \in Seq(Bytes)
  BY KindOf DEF InnerRefs, InnerNode
<1>4. MAX_PREFIX_LEN \in Nat /\ NBytes \in Nat
  BY NodeAssumption
<1>5. Least(MAX_PREFIX_LEN, pl) \in Nat
  BY <1>1, <1>4 DEF Least
<1>6. /\ Len(n.partial) = Least(MAX_PREFIX_LEN, pl)
      /\ \A i \in 1 .. Least(MAX_PREFIX_LEN, pl) : n.partial[i] = B[r][d + i]
  <2> DEFINE q == n.partial
             g == Least(MAX_PREFIX_LEN, pl)
  <2>1. q = [i \in 1 .. g |-> B[r][d + i]] /\ q \in Seq(Bytes) /\ g \in Nat
    BY <1>2, <1>3, <1>5
  <2> HIDE DEF q, g, r, d, pl
  <2>2. Len(q) = g /\ \A i \in 1 .. g : q[i] = B[r][d + i]
    BY <2>1
  <2> QED BY <2>2 DEF q, g
<1>7. ASSUME NEW i \in 1 .. E[r]
      PROVE  B[r][i] \in Bytes /\ B[r][i] /= 0
  <2>1. B[r][i] \in 1 .. NBytes - 1
    BY <1>1
  <2> QED BY <2>1, <1>4 DEF Bytes
<1> QED
  BY <1>1, <1>3, <1>6, <1>7 DEF Stored

(* The leaf an insert makes is one of a key. *)
LEMMA MadeLeaf ==
  ASSUME NEW k \in Keys, NEW key, Holds(key, k), NEW v \in Values
  PROVE  /\ make_leaf(key, Len(k), v) = [type |-> "LEAF", key |-> k, val |-> v]
         /\ make_leaf(key, Len(k), v) \in LeafNode
         /\ make_leaf(key, Len(k), v).key = k
         /\ \A i \in 0 .. Len(k) : LeafByte(make_leaf(key, Len(k), v), i) = key[i + 1]
         /\ \A i \in 0 .. Len(k) : key[i + 1] \in Bytes
<1>1. make_leaf(key, Len(k), v) = [type |-> "LEAF", key |-> k, val |-> v]
  BY DEF make_leaf, Holds
<1>2. /\ Len(k) \in Nat
      /\ \A i \in 1 .. Len(k) : key[i] = k[i] /\ key[i] \in 1 .. NBytes - 1
      /\ key[Len(k) + 1] = 0
  BY Held0
<1>3. ASSUME NEW i \in 0 .. Len(k)
      PROVE  /\ LeafByte(make_leaf(key, Len(k), v), i) = key[i + 1]
             /\ key[i + 1] \in Bytes
  <2>1. CASE i < Len(k)
    BY <2>1, <1>1, <1>2 DEF LeafByte, Bytes
  <2>2. CASE i = Len(k)
    BY <2>2, <1>1, <1>2, NodeAssumption DEF LeafByte, Bytes
  <2> QED
    BY <2>1, <2>2, <1>2
<1> QED
  BY <1>1, <1>3 DEF LeafNode

(* What a node has after it took two children. *)
TwoTaken(m, len, prefix, c, a, d, b) ==
  /\ WellLaid(m)
  /\ m.partial_len = len /\ m.partial = prefix
  /\ ToSet(m.children) = {Child(c, a), Child(d, b)}

(* A new NODE4 takes two children. *)
LEMMA TakenTwo ==
  ASSUME NEW len \in Nat, NEW prefix \in Seq(Bytes), NEW n,
         n = [type |-> "NODE4", partial_len |-> len, partial |-> prefix,
              children |-> <<>>],
         NEW c \in Bytes, NEW a \in Refs \ {Root},
         NEW d \in Bytes, NEW b \in Refs \ {Root}, c /= d
  PROVE  TwoTaken(add_child(add_child(n, c, a), d, b), len, prefix, c, a, d, b)
<1> DEFINE m == add_child(add_child(n, c, a), d, b)
<1>1. PICK q : q = m
  OBVIOUS
<1>2. q = add_child(add_child(n, c, a), d, b)
  BY <1>1
<1> HIDE DEF m
<1>3. /\ WellLaid(q)
      /\ q.partial_len = len /\ q.partial = prefix
      /\ ToSet(q.children) = {Child(c, a), Child(d, b)}
  BY <1>2, TakingTwo
<1>4. TwoTaken(m, len, prefix, c, a, d, b)
  BY <1>1, <1>3 DEF TwoTaken
<1> QED
  BY <1>4 DEF m

(* Two keys that differ: where they stop agreeing, one has a byte the      *)
(* other has not, the terminator counted.                                  *)
LEMMA Parting ==
  ASSUME NEW j \in Keys, NEW k \in Keys, j /= k, NEW d \in Nat, d <= Len(j), d <= Len(k),
         \A i \in 1 .. d : j[i] = k[i],
         NEW shared,
         shared = Agreement(Drop(j, d), Drop(k, d), Least(Len(j), Len(k)) - d),
         NEW l, l.key = j, NEW l2, l2.key = k
  PROVE  /\ shared \in Nat /\ d + shared <= Len(j) /\ d + shared <= Len(k)
         /\ \A i \in 1 .. d + shared : j[i] = k[i]
         /\ LeafByte(l, d + shared) /= LeafByte(l2, d + shared)
<1> DEFINE max == Least(Len(j), Len(k)) - d
           s == Drop(j, d)
           t == Drop(k, d)
<1>1. /\ j \in Seq(Bytes) /\ k \in Seq(Bytes) /\ Len(j) \in Nat /\ Len(k) \in Nat
      /\ \A i \in 1 .. Len(j) : j[i] /= 0
      /\ \A i \in 1 .. Len(k) : k[i] /= 0
  BY KeyFacts
<1>2. max \in Nat /\ d + max <= Len(j) /\ d + max <= Len(k)
      /\ (d + max = Len(j) \/ d + max = Len(k))
  BY <1>1 DEF Least
<1>3. /\ \A i \in 1 .. Len(j) - d : s[i] = j[d + i]
      /\ \A i \in 1 .. Len(k) - d : t[i] = k[d + i]
  BY <1>1, Dropping
<1> HIDE DEF max, s, t
<1>4. shared = Agreement(s, t, max)
  BY DEF max, s, t
<1>5. /\ shared \in Nat /\ shared <= max
      /\ \A i \in 1 .. shared : s[i] = t[i]
      /\ shared < max => s[shared + 1] /= t[shared + 1]
  BY <1>2, <1>4, Agreeing
<1>6. \A i \in 1 .. shared : j[d + i] = k[d + i]
  <2>1. TAKE i \in 1 .. shared
  <2>2. i \in 1 .. Len(j) - d /\ i \in 1 .. Len(k) - d
    BY <1>1, <1>2, <1>5
  <2> QED BY <2>2, <1>3, <1>5
<1>7. ASSUME NEW i \in 1 .. d + shared
      PROVE  j[i] = k[i]
  <2>1. CASE i <= d
    BY <2>1
  <2>2. CASE i > d
    <3>1. i - d \in 1 .. shared /\ d + (i - d) = i
      BY <2>2, <1>5
    <3> QED BY <3>1, <1>6
  <2> QED BY <2>1, <2>2, <1>5
<1>8. shared < max => j[d + shared + 1] /= k[d + shared + 1]
  <2>1. SUFFICES ASSUME shared < max PROVE j[d + shared + 1] /= k[d + shared + 1]
    OBVIOUS
  <2>2. shared + 1 \in 1 .. Len(j) - d /\ shared + 1 \in 1 .. Len(k) - d
        /\ d + (shared + 1) = d + shared + 1
    <3>1. shared \in Nat /\ max \in Nat /\ Len(j) \in Nat /\ Len(k) \in Nat
          /\ d + max <= Len(j) /\ d + max <= Len(k)
      BY <1>1, <1>2, <1>5
    <3> QED BY <2>1, <3>1
  <2> QED
    BY <2>1, <2>2, <1>3, <1>5, SMTT(20)
<1>9. shared = max => Len(j) /= Len(k)
  <2>1. SUFFICES ASSUME shared = max, Len(j) = Len(k) PROVE FALSE
    OBVIOUS
  <2>2. d + shared = Len(j)
    BY <2>1, <1>2
  <2>3. \A i \in 1 .. Len(j) : j[i] = k[i]
    BY <2>2, <1>7
  <2>4. j = k
    BY <2>1, <2>3, <1>1
  <2> QED BY <2>4
<1>10. LeafByte(l, d + shared) /= LeafByte(l2, d + shared)
  <2> DEFINE D == d + shared
  <2>1. D \in Nat /\ D <= Len(j) /\ D <= Len(k)
    BY <1>2, <1>5, <1>1
  <2>2. /\ LeafByte(l, D) = IF D < Len(j) THEN j[D + 1] ELSE 0
        /\ LeafByte(l2, D) = IF D < Len(k) THEN k[D + 1] ELSE 0
    BY DEF LeafByte
  <2>3. CASE shared < max
    <3>1. D < Len(j) /\ D < Len(k) /\ j[D + 1] /= k[D + 1]
      BY <2>3, <1>8, <1>2, <1>5, <1>1
    <3> QED BY <3>1, <2>2
  <2>4. CASE shared = max
    <3>1. Len(j) /= Len(k) /\ (D = Len(j) \/ D = Len(k))
      BY <2>4, <1>9, <1>2
    <3>2. CASE D = Len(j) /\ D < Len(k)
      <4>1. D + 1 \in 1 .. Len(k)
        BY <3>2, <2>1, <1>1
      <4> QED BY <3>2, <4>1, <2>2, <1>1
    <3>3. CASE D = Len(k) /\ D < Len(j)
      <4>1. D + 1 \in 1 .. Len(j)
        BY <3>3, <2>1, <1>1
      <4> QED BY <3>3, <4>1, <2>2, <1>1
    <3> QED BY <3>1, <3>2, <3>3, <2>1, <1>1
  <2> QED BY <2>3, <2>4, <1>5, <1>2
<1>11. d + shared <= Len(j) /\ d + shared <= Len(k)
  BY <1>1, <1>2, <1>5
<1> QED
  BY <1>5, <1>7, <1>10, <1>11

(* A leaf of another key gives way to a node above both leaves. *)
LEMMA SplittingLeaf ==
  ASSUME Laid, NEW E, NEW B, Shape(E, B), Room,
         NEW p, Placed(p, E), p.ref \in LeafRefs,
         NEW k \in Keys, NEW key, Holds(key, k), Agrees(p.ref, p.depth, key, B),
         nodes[p.ref].key /= k, NEW v \in Values,
         NEW l2, l2 = make_leaf(key, Len(k), v),
         nodes' = SplitLeaf(p, key, l2)
  PROVE  /\ Laid'
         /\ \E E2, B2 : Shape(E2, B2)'
         /\ Leaves' = Leaves \cup {l2}
<1> DEFINE r == p.ref
           l == nodes[r]
           j == l.key
           d == p.depth
           shared == Agreement(Drop(j, d), Drop(k, d), Least(Len(j), Len(k)) - d)
           D == d + shared
           prefix == First(Drop(key, d), Least(MAX_PREFIX_LEN, shared))
           new == [type |-> "NODE4", partial_len |-> shared, partial |-> prefix,
                   children |-> <<>>]
           m == add_child(add_child(new, LeafByte(l, D), NewRef), LeafByte(l2, D), OtherRef)
<1>1. /\ l2 \in LeafNode /\ l2.key = k
      /\ \A i \in 0 .. Len(k) : LeafByte(l2, i) = key[i + 1] /\ key[i + 1] \in Bytes
  BY MadeLeaf
<1>2. /\ l \in LeafNode /\ j \in Keys /\ Len(j) \in Nat
      /\ E[r] = Len(j) + 1
      /\ \A i \in 1 .. Len(j) : B[r][i] = j[i] /\ B[r][i] \in 1 .. NBytes - 1
      /\ B[r][Len(j) + 1] = 0
      /\ \A i \in 1 .. E[r] : B[r][i] = LeafByte(l, i - 1) /\ B[r][i] \in Bytes
  <2> HIDE DEF r
  <2>1. r \in LeafRefs
    BY DEF r
  <2> QED BY <2>1, LeafPath
<1>3. /\ Len(k) \in Nat /\ Len(key) \in Nat /\ Len(key) > Len(k) + MaxKeyLen
      /\ MaxKeyLen \in Nat
      /\ \A i \in 1 .. Len(k) : key[i] = k[i] /\ key[i] /= 0
      /\ key[Len(k) + 1] = 0
  BY Held0
<1>4. d \in Nat /\ d <= E[r]
  BY Depth
<1>5. \A i \in 1 .. d : B[r][i] = key[i]
  BY DEF Agrees
<1>5a. k \in Seq(Bytes) /\ j \in Seq(Bytes) /\ (\A i \in 1 .. Len(j) : j[i] /= 0)
  BY <1>2, KeyFacts
<1>6. d <= Len(j)
  <2>1. SUFFICES ASSUME d = Len(j) + 1 PROVE FALSE
    BY <1>2, <1>4
  <2>2. key[Len(j) + 1] = 0 /\ \A i \in 1 .. Len(j) : key[i] = j[i] /\ key[i] /= 0
    <3> HIDE DEF r, j, d
    <3>1. key[Len(j) + 1] = B[r][Len(j) + 1] /\ \A i \in 1 .. Len(j) : key[i] = B[r][i]
      BY <2>1, <1>2, <1>5
    <3> QED BY <3>1, <1>2, <1>5a
  <2>3. Len(j) = Len(k)
    <3>1. ~(Len(j) < Len(k))
      <4>1. SUFFICES ASSUME Len(j) < Len(k) PROVE FALSE
        OBVIOUS
      <4>2. Len(j) + 1 \in 1 .. Len(k)
        BY <4>1, <1>2, <1>3
      <4> QED BY <4>2, <2>2, <1>3
    <3>2. ~(Len(k) < Len(j))
      <4>1. SUFFICES ASSUME Len(k) < Len(j) PROVE FALSE
        OBVIOUS
      <4>2. Len(k) + 1 \in 1 .. Len(j)
        BY <4>1, <1>2, <1>3
      <4> QED BY <4>2, <2>2, <1>3
    <3> QED BY <3>1, <3>2, <1>2, <1>3
  <2>4. \A i \in 1 .. Len(j) : j[i] = k[i]
    BY <2>2, <2>3, <1>3
  <2>5. j = k
    BY <2>3, <2>4, <1>5a
  <2> QED BY <2>5
<1>7. d <= Len(k)
  <2>1. SUFFICES ASSUME Len(k) < d PROVE FALSE
    BY <1>3, <1>4
  <2>2. Len(k) + 1 \in 1 .. d /\ Len(k) + 1 \in 1 .. Len(j)
    BY <2>1, <1>6, <1>3, <1>4, <1>2
  <2> QED BY <2>2, <1>3, <1>5, <1>2, <1>5a
<1>8. \A i \in 1 .. d : j[i] = k[i]
  BY <1>2, <1>3, <1>4, <1>5, <1>6, <1>7
<1>9. /\ shared \in Nat /\ d + shared <= Len(j) /\ d + shared <= Len(k)
      /\ \A i \in 1 .. d + shared : j[i] = k[i]
      /\ LeafByte(l, d + shared) /= LeafByte(l2, d + shared)
  <2> HIDE DEF j, d
  <2>1. l.key = j
    BY DEF j
  <2>2. j /= k /\ j \in Keys /\ l2.key = k
    BY <1>1, <1>2 DEF j
  <2>3. shared = Agreement(Drop(j, d), Drop(k, d), Least(Len(j), Len(k)) - d)
    OBVIOUS
  <2> HIDE DEF l, shared
  <2> QED
    BY <2>1, <2>2, <2>3, <1>4, <1>6, <1>7, <1>8, Parting
<1>10. D \in Nat /\ D <= Len(j) /\ D <= Len(k) /\ D < E[r] /\ D = d + shared
  BY <1>2, <1>3, <1>4, <1>9
<1>11. /\ NewRef \in Refs \ {Root} /\ nodes[NewRef] = NoNode
       /\ OtherRef \in Refs \ {Root} /\ nodes[OtherRef] = NoNode
       /\ NewRef /= OtherRef
  BY Rooms
<1>12. nodes' = [nodes EXCEPT ![r] = m, ![NewRef] = l, ![OtherRef] = l2]
  <2>1. nodes' = Split(r, prefix, shared, LeafByte(l, D), l, LeafByte(l2, D), l2)
    BY <1>1, Zenon DEF SplitLeaf
  <2> HIDE DEF prefix, shared, D, l, r
  <2> QED BY <2>1 DEF Split
<1>13. B[r][D + 1] = LeafByte(l, D) /\ LeafByte(l, D) \in Bytes
  <2>1. D + 1 \in 1 .. E[r] /\ (D + 1) - 1 = D
    BY <1>10, <1>2
  <2> QED BY <2>1, <1>2
<1>14. LeafByte(l2, D) \in Bytes
  BY <1>1, <1>10
<1>15. key \in Seq(Bytes)
  BY DEF Holds
<1>16. /\ Drop(key, d) = [i \in 1 .. Len(key) - d |-> key[d + i]]
       /\ Drop(key, d) \in Seq(Bytes) /\ Len(Drop(key, d)) = Len(key) - d
  <2>1. d <= Len(key)
    BY <1>3, <1>4, <1>7
  <2> HIDE DEF d
  <2> QED BY <2>1, <1>4, <1>15, Drops
<1>17. MAX_PREFIX_LEN \in Nat
  BY NodeAssumption
<1> DEFINE g == Least(MAX_PREFIX_LEN, shared)
<1>18. g \in Nat /\ g <= shared /\ g <= Len(key) - d
  BY <1>3, <1>4, <1>7, <1>9, <1>10, <1>17 DEF Least
<1>19. prefix = [i \in 1 .. g |-> B[r][d + i]] /\ prefix \in Seq(Bytes)
  <2>1. /\ First(Drop(key, d), g) = [i \in 1 .. Least(g, Len(Drop(key, d))) |-> Drop(key, d)[i]]
        /\ First(Drop(key, d), g) \in Seq(Bytes)
    <3> HIDE DEF g
    <3> QED BY <1>16, <1>18, Firsts
  <2>2. Least(g, Len(Drop(key, d))) = g
    <3> HIDE DEF g
    <3> QED BY <1>16, <1>18, <1>3, <1>4 DEF Least
  <2>3. ASSUME NEW i \in 1 .. g PROVE Drop(key, d)[i] = B[r][d + i]
    <3> HIDE DEF g
    <3>1. i \in 1 .. Len(key) - d /\ d + i \in 1 .. D /\ d + i \in 1 .. Len(j) /\ d + i \in 1 .. Len(k)
      <4> HIDE DEF d, D, shared, j
      <4> QED BY <1>18, <1>10, <1>9, <1>3, <1>4, <1>2
    <3>2. Drop(key, d)[i] = key[d + i]
      BY <3>1, <1>16
    <3>3. key[d + i] = k[d + i] /\ B[r][d + i] = j[d + i] /\ j[d + i] = k[d + i]
      BY <3>1, <1>3, <1>2, <1>9
    <3> QED BY <3>2, <3>3
  <2>4. prefix = First(Drop(key, d), g)
    OBVIOUS
  <2> HIDE DEF g, prefix
  <2> QED BY <2>1, <2>2, <2>3, <2>4
<1>20. /\ WellLaid(m) /\ m.partial_len = shared /\ m.partial = prefix
       /\ ToSet(m.children) = {Child(LeafByte(l, D), NewRef), Child(LeafByte(l2, D), OtherRef)}
  <2>1. LeafByte(l, D) /= LeafByte(l2, D)
    BY <1>9
  <2> DEFINE c == LeafByte(l, D)
             e == LeafByte(l2, D)
  <2>2. m = add_child(add_child(new, c, NewRef), e, OtherRef)
    OBVIOUS
  <2>2a. new = [type |-> "NODE4", partial_len |-> shared, partial |-> prefix,
                children |-> <<>>]
    OBVIOUS
  <2>3. c /= e /\ c \in Bytes /\ e \in Bytes
    BY <2>1, <1>13, <1>14
  <2> HIDE DEF prefix, D, shared, m, c, e, new
  <2>4. /\ WellLaid(m) /\ m.partial_len = shared /\ m.partial = prefix
        /\ ToSet(m.children) = {Child(c, NewRef), Child(e, OtherRef)}
    <3>1. shared \in Nat /\ prefix \in Seq(Bytes)
      BY <1>9, <1>19
    <3>2. TwoTaken(m, shared, prefix, c, NewRef, e, OtherRef)
      BY <3>1, <1>11, <2>2, <2>3, <2>2a, TakenTwo
    <3> QED BY <3>2 DEF TwoTaken
  <2> QED BY <2>4 DEF c, e
<1>21. \A i \in 1 .. D : B[r][i] = l2.key[i]
  <2>1. \A i \in 1 .. D : i \in 1 .. Len(j)
    BY <1>10, <1>2
  <2> QED BY <2>1, <1>1, <1>2, <1>9
<1>22. B[r][D + 1] /= LeafByte(l2, D)
  BY <1>9, <1>13
<1>20a. p.ref = r /\ p.depth = d
  OBVIOUS
<1>21a. \A i \in 1 .. D : B[p.ref][i] = l2.key[i]
  BY <1>21
<1>22a. B[p.ref][D + 1] /= LeafByte(l2, D)
  <2> HIDE DEF m, D, shared, prefix, l, d, j, r
  <2> QED BY <1>20a, <1>22
<1>23. m.partial = [i \in 1 .. Least(MAX_PREFIX_LEN, shared) |-> B[p.ref][p.depth + i]]
  <2> HIDE DEF m, D, shared, prefix, l, d, j, r
  <2> QED BY <1>19, <1>20, <1>20a
<1>24. ToSet(m.children) = {Child(B[p.ref][D + 1], NewRef), Child(LeafByte(l2, D), OtherRef)}
  <2> HIDE DEF m, D, shared, prefix, l, d, j, r
  <2> QED BY <1>13, <1>20, <1>20a
<1>25. r \notin InnerRefs
  BY Typing
<1>26. shared \in Nat /\ D = p.depth + shared
  <2> HIDE DEF m, D, shared, prefix, l, d, j, r
  <2> QED BY <1>9, <1>10, <1>20a
<1>27. m.partial_len = shared /\ WellLaid(m)
  <2> HIDE DEF m, D, shared, prefix, l, d, j, r
  <2> QED BY <1>20
<1>28. D <= Len(l2.key) /\ l2 \in LeafNode
  <2> HIDE DEF m, D, shared, prefix, l, d, j, r
  <2> QED BY <1>1, <1>10
<1>29. Parted(p, NewRef, OtherRef, shared, D, l2, m, E, B)
  <2> HIDE DEF m, D, shared, prefix, l, d, j
  <2>1. D < E[p.ref]
    BY <1>10
  <2> HIDE DEF r
  <2> QED
    BY <2>1, <1>11, <1>21a, <1>22a, <1>23, <1>24, <1>26, <1>27, <1>28 DEF Parted
<1>30. Lowered(p, D, l, E, B)
  BY <1>25 DEF Lowered
<1>31. nodes' = [nodes EXCEPT ![p.ref] = m, ![NewRef] = l, ![OtherRef] = l2]
  BY <1>12
<1> HIDE DEF m, D, shared, prefix, r, l, d, j
<1> QED
  BY <1>29, <1>30, <1>31, Splitting

(* The bytes of a node's prefix, those it stores and those it does not.    *)
LEMMA WholePrefix ==
  ASSUME Laid, NEW E, NEW B, Shape(E, B), NEW p, Placed(p, E), p.ref \in InnerRefs,
         NEW n, n = nodes[p.ref], NEW prefix,
         prefix = IF n.partial_len <= MAX_PREFIX_LEN THEN n.partial
                  ELSE Drop(minimum(p.ref).key, p.depth)
  PROVE  /\ prefix \in Seq(Bytes) /\ Len(prefix) >= n.partial_len
         /\ \A i \in 1 .. n.partial_len : prefix[i] = B[p.ref][p.depth + i]
<1> DEFINE d == p.depth
           pl == n.partial_len
<1>1. /\ E[p.ref] = d + pl /\ d \in Nat /\ pl \in Nat
      /\ n.partial \in Seq(Bytes) /\ Len(n.partial) = Least(MAX_PREFIX_LEN, pl)
      /\ \A i \in 1 .. Least(MAX_PREFIX_LEN, pl) : n.partial[i] = B[p.ref][d + i]
  <2>1. Stored(p.ref, p.depth, nodes[p.ref], nodes[p.ref].partial_len, E, B)
    BY StoredPrefix
  <2> QED BY <2>1 DEF Stored
<1>2. MAX_PREFIX_LEN \in Nat /\ NBytes \in Nat
  BY NodeAssumption
<1>3. CASE pl <= MAX_PREFIX_LEN
  <2>1. prefix = n.partial /\ Least(MAX_PREFIX_LEN, pl) = pl
    BY <1>1, <1>2, <1>3 DEF Least
  <2> HIDE DEF d, pl
  <2> QED
    BY <2>1, <1>1 DEF pl, d
<1>4. CASE ~(pl <= MAX_PREFIX_LEN)
  <2>1. PICK l \in LeafRefs : minimum(p.ref) = nodes[l] /\ Above(p.ref, l, InnerRefs, E, B)
    BY MinimumBelow
  <2> DEFINE j == nodes[l].key
  <2>2. /\ j \in Keys /\ Len(j) \in Nat /\ E[l] = Len(j) + 1
        /\ \A i \in 1 .. Len(j) : B[l][i] = j[i]
    BY LeafPath
  <2>3. j \in Seq(Bytes)
    BY <2>2, KeyFacts
  <2>4. E[p.ref] <= Len(j) /\ \A i \in 1 .. E[p.ref] : B[p.ref][i] = j[i]
    <3>1. E[p.ref] < E[l] /\ \A i \in 1 .. E[p.ref] : B[p.ref][i] = B[l][i]
      BY <2>1 DEF Above
    <3>2. E[p.ref] <= Len(j)
      BY <3>1, <2>2, <1>1
    <3>3. \A i \in 1 .. E[p.ref] : i \in 1 .. Len(j)
      BY <3>2, <2>2, <1>1
    <3> HIDE DEF j
    <3> QED BY <3>1, <3>2, <3>3, <2>2
  <2>5. prefix = Drop(j, d)
    BY <1>4, <2>1
  <2> HIDE DEF j, d, pl
  <2>6. d <= Len(j) /\ pl <= Len(j) - d
    BY <1>1, <2>2, <2>4
  <2>7. /\ \A i \in 1 .. Len(j) - d : prefix[i] = j[d + i]
        /\ prefix \in Seq(Bytes) /\ Len(prefix) = Len(j) - d
    <3>1. /\ Drop(j, d) \in Seq(Bytes) /\ Len(Drop(j, d)) = Len(j) - d
          /\ \A i \in 1 .. Len(j) - d : Drop(j, d)[i] = j[d + i]
      <4>1. d \in Nat
        BY <1>1
      <4> QED BY <2>3, <2>6, <4>1, DropsEach
    <3> QED BY <3>1, <2>5
  <2>8. ASSUME NEW i \in 1 .. pl PROVE prefix[i] = B[p.ref][d + i]
    <3>1. i \in 1 .. Len(j) - d /\ d + i \in 1 .. E[p.ref]
      BY <1>1, <2>2, <2>6
    <3> QED BY <3>1, <2>4, <2>7
  <2> QED
    BY <2>6, <2>7, <2>8 DEF d, pl
<1> QED
  BY <1>3, <1>4

(* A node whose prefix the key leaves goes below a new one. *)
LEMMA SplittingNode ==
  ASSUME Laid, NEW E, NEW B, Shape(E, B), Room,
         NEW p, Placed(p, E), p.ref \in InnerRefs,
         NEW k \in Keys, NEW key, Holds(key, k),
         NEW diff \in Nat, diff < nodes[p.ref].partial_len, Strays(p, key, k, diff, E, B),
         NEW v \in Values, NEW l2, l2 = make_leaf(key, Len(k), v),
         nodes' = SplitPrefix(p, key, l2, diff)
  PROVE  /\ Laid'
         /\ \E E2, B2 : Shape(E2, B2)'
         /\ Leaves' = Leaves \cup {l2}
<1> DEFINE r == p.ref
           n == nodes[r]
           d == p.depth
           D == d + diff
           pl == n.partial_len
           prefix == IF n.partial_len <= MAX_PREFIX_LEN THEN n.partial
                     ELSE Drop(minimum(p.ref).key, p.depth)
           left == n.partial_len - (diff + 1)
           low == First(Drop(prefix, diff + 1), Least(MAX_PREFIX_LEN, left))
           below == [n EXCEPT !.partial_len = left, !.partial = low]
           top == First(n.partial, diff)
           new == [type |-> "NODE4", partial_len |-> diff, partial |-> top,
                   children |-> <<>>]
           c == prefix[diff + 1]
           e == key[p.depth + diff + 1]
           m == add_child(add_child(new, c, NewRef), e, OtherRef)
<1>1. /\ l2 \in LeafNode /\ l2.key = k
      /\ \A i \in 0 .. Len(k) : LeafByte(l2, i) = key[i + 1] /\ key[i + 1] \in Bytes
  BY MadeLeaf
<1>2. /\ E[r] = d + pl /\ d \in Nat /\ pl \in Nat
      /\ n.partial \in Seq(Bytes) /\ Len(n.partial) = Least(MAX_PREFIX_LEN, pl)
      /\ \A i \in 1 .. Least(MAX_PREFIX_LEN, pl) : n.partial[i] = B[r][d + i]
      /\ \A i \in 1 .. E[r] : B[r][i] \in Bytes
  <2>1. Stored(p.ref, p.depth, nodes[p.ref], nodes[p.ref].partial_len, E, B)
    <3> HIDE DEF d, pl, n, r
    <3> QED BY StoredPrefix
  <2>2. Stored(r, d, n, pl, E, B)
    BY <2>1
  <2> HIDE DEF d, pl, n, r
  <2> QED BY <2>2 DEF Stored
<1>3. MAX_PREFIX_LEN \in Nat /\ NBytes \in Nat
  BY NodeAssumption
<1>4. /\ Len(k) \in Nat
      /\ \A i \in 1 .. Len(k) : key[i] = k[i]
  BY Held0
<1>5. /\ D <= Len(k)
      /\ \A i \in 1 .. D : B[r][i] = key[i]
      /\ B[r][D + 1] /= key[D + 1]
  BY DEF Strays, Agrees
<1>6. /\ prefix \in Seq(Bytes) /\ Len(prefix) >= pl /\ Len(prefix) \in Nat
      /\ \A i \in 1 .. pl : prefix[i] = B[r][d + i]
  <2> DEFINE q == prefix
  <2>1. q = prefix
    OBVIOUS
  <2> HIDE DEF q
  <2>2. /\ q \in Seq(Bytes) /\ Len(q) >= n.partial_len
        /\ \A i \in 1 .. n.partial_len : q[i] = B[p.ref][p.depth + i]
    BY <2>1, WholePrefix
  <2>3. q \in Seq(Bytes) /\ Len(q) >= pl /\ Len(q) \in Nat
        /\ \A i \in 1 .. pl : q[i] = B[r][d + i]
    BY <2>2
  <2> QED BY <2>1, <2>3
<1>7. diff + 1 <= pl /\ left \in Nat /\ left = E[r] - (D + 1) /\ D < E[r] /\ D \in Nat
      /\ D + 1 <= E[r] /\ left = pl - (diff + 1)
  BY <1>2, SMTT(20)
<1>8. n \in InnerNode /\ WellLaid(n)
  BY KindOf DEF InnerRefs
<1>9. r \notin LeafRefs
  BY Typing
<1> DEFINE g == Least(MAX_PREFIX_LEN, left)
<1>10. g \in Nat /\ g <= left
  BY <1>3, <1>7 DEF Least
<1>11. low = [i \in 1 .. g |-> B[r][(D + 1) + i]] /\ low \in Seq(Bytes)
  <2> HIDE DEF prefix, left, g, D, d, r, pl, n
  <2>1. diff + 1 \in Nat /\ diff + 1 <= Len(prefix)
    BY <1>6, <1>7, <1>2
  <2> DEFINE q == Drop(prefix, diff + 1)
  <2>2. /\ \A i \in 1 .. Len(prefix) - (diff + 1) : q[i] = prefix[(diff + 1) + i]
        /\ q \in Seq(Bytes) /\ Len(q) = Len(prefix) - (diff + 1)
    BY <1>6, <2>1, DropsEach
  <2>3. g <= Len(q) /\ Len(q) \in Nat
    <3>1. Len(q) = Len(prefix) - (diff + 1) /\ Len(prefix) >= pl /\ Len(prefix) \in Nat
          /\ pl \in Nat /\ g \in Nat /\ g <= left /\ left = pl - (diff + 1) /\ diff + 1 <= Len(prefix)
      BY <2>2, <2>1, <1>6, <1>7, <1>10, <1>2
    <3> HIDE DEF q
    <3> QED BY <3>1
  <2> HIDE DEF q
  <2>4. /\ First(q, g) \in Seq(Bytes) /\ Len(First(q, g)) = Least(g, Len(q))
        /\ \A i \in 1 .. Least(g, Len(q)) : First(q, g)[i] = q[i]
    BY <2>2, <1>10, FirstsEach
  <2>5. Least(g, Len(q)) = g
    BY <2>3, <1>10 DEF Least
  <2>6. ASSUME NEW i \in 1 .. g PROVE q[i] = B[r][(D + 1) + i]
    <3>1. (diff + 1) + i \in 1 .. pl /\ i \in 1 .. Len(prefix) - (diff + 1)
      BY <1>2, <1>6, <1>7, <1>10
    <3>2. d + ((diff + 1) + i) = (D + 1) + i
      BY <1>2 DEF D
    <3>3. q[i] = prefix[(diff + 1) + i]
      BY <3>1, <2>2
    <3>4. prefix[(diff + 1) + i] = B[r][d + ((diff + 1) + i)]
      BY <3>1, <1>6
    <3> QED BY <3>2, <3>3, <3>4
  <2>7. low = First(q, g)
    BY DEF q, g
  <2> HIDE DEF low
  <2>8. low \in Seq(Bytes) /\ Len(low) = g /\ \A i \in 1 .. g : low[i] = B[r][(D + 1) + i]
    BY <2>4, <2>5, <2>6, <2>7
  <2> QED
    BY <2>8
<1>12. top = [i \in 1 .. Least(MAX_PREFIX_LEN, diff) |-> B[r][d + i]] /\ top \in Seq(Bytes)
  <2> DEFINE q == n.partial
             h == Least(MAX_PREFIX_LEN, pl)
             b == Least(MAX_PREFIX_LEN, diff)
  <2>1. MAX_PREFIX_LEN \in Nat /\ pl \in Nat /\ diff < pl
    BY <1>2, <1>3, <1>7
  <2>2. h \in Nat /\ b \in Nat /\ b <= h /\ Least(diff, h) = b
    <3> HIDE DEF pl
    <3> QED BY <2>1 DEF Least
  <2>3. q \in Seq(Bytes) /\ Len(q) = h /\ \A i \in 1 .. h : q[i] = B[r][d + i]
    BY <1>2
  <2> HIDE DEF q, h, b
  <2>5. /\ First(q, diff) \in Seq(Bytes) /\ Len(First(q, diff)) = Least(diff, Len(q))
        /\ \A i \in 1 .. Least(diff, Len(q)) : First(q, diff)[i] = q[i]
    BY <2>3, FirstsEach
  <2>6. top = First(q, diff)
    BY DEF q
  <2> HIDE DEF top, r, d
  <2>7. \A i \in 1 .. b : i \in 1 .. h
    BY <2>2
  <2>8. \A i \in 1 .. b : q[i] = B[r][d + i]
    BY <2>3, <2>7
  <2>9. top \in Seq(Bytes) /\ Len(top) = b /\ \A i \in 1 .. b : top[i] = q[i]
    BY <2>2, <2>3, <2>5, <2>6
  <2>10. top = [i \in 1 .. b |-> B[r][d + i]]
    BY <2>8, <2>9
  <2> QED
    BY <2>9, <2>10 DEF b
<1>13. c = B[r][D + 1] /\ c \in Bytes
  <2> HIDE DEF prefix, r, n, pl, d
  <2>1. diff + 1 \in 1 .. pl /\ d + (diff + 1) = D + 1 /\ D + 1 \in 1 .. E[r]
    BY <1>2, <1>7 DEF D
  <2>2. c = B[r][d + (diff + 1)]
    BY <2>1, <1>6
  <2>3. B[r][D + 1] \in Bytes
    BY <2>1, <1>2
  <2> HIDE DEF c, D
  <2> QED
    BY <2>1, <2>2, <2>3, <1>3 DEF Bytes
<1>14. e = key[D + 1] /\ e = LeafByte(l2, D) /\ e \in Bytes /\ c /= e
  <2>1. D \in 0 .. Len(k)
    BY <1>4, <1>5, <1>7
  <2>2. e = key[D + 1]
    OBVIOUS
  <2> HIDE DEF D, e
  <2>3. e = LeafByte(l2, D) /\ e \in Bytes
    BY <2>1, <2>2, <1>1
  <2> QED
    BY <2>2, <2>3, <1>5, <1>13
<1>15. /\ NewRef \in Refs \ {Root} /\ nodes[NewRef] = NoNode
       /\ OtherRef \in Refs \ {Root} /\ nodes[OtherRef] = NoNode
       /\ NewRef /= OtherRef
  BY Rooms
<1>16. nodes' = [nodes EXCEPT ![r] = m, ![NewRef] = below, ![OtherRef] = l2]
  <2>1. nodes' = Split(r, top, diff, c, below, e, l2)
    BY Zenon DEF SplitPrefix
  <2> HIDE DEF top, c, below, e, r
  <2> QED BY <2>1 DEF Split
<1>17. /\ WellLaid(m) /\ m.partial_len = diff /\ m.partial = top
       /\ ToSet(m.children) = {Child(c, NewRef), Child(e, OtherRef)}
  <2>1. new = [type |-> "NODE4", partial_len |-> diff, partial |-> top, children |-> <<>>]
        /\ m = add_child(add_child(new, c, NewRef), e, OtherRef)
    OBVIOUS
  <2> HIDE DEF top, c, e, m, new
  <2>2. top \in Seq(Bytes) /\ c \in Bytes /\ e \in Bytes /\ c /= e
    BY <1>12, <1>13, <1>14
  <2>3. TwoTaken(m, diff, top, c, NewRef, e, OtherRef)
    BY <2>1, <2>2, <1>15, TakenTwo
  <2> QED BY <2>3 DEF TwoTaken
<1>18. /\ below.partial_len = left /\ below.partial = low /\ below.children = n.children
       /\ below.type = n.type /\ below \in InnerNode /\ WellLaid(below)
  <2> HIDE DEF low, left, n
  <2>1. /\ below.partial_len = left /\ below.partial = low /\ below.children = n.children
        /\ below.type = n.type /\ below \in InnerNode
    BY <1>7, <1>8, <1>11 DEF InnerNode
  <2> HIDE DEF below
  <2> QED BY <2>1, <1>8 DEF WellLaid
<1>18a. p.ref = r /\ p.depth = d
  OBVIOUS
<1>19. Parted(p, NewRef, OtherRef, diff, D, l2, m, E, B)
  <2>1. \A i \in 1 .. D : B[p.ref][i] = l2.key[i]
    <3>1. \A i \in 1 .. D : i \in 1 .. Len(k)
      BY <1>4, <1>5, <1>7
    <3> HIDE DEF D
    <3> QED BY <3>1, <1>1, <1>4, <1>5
  <2>2. B[p.ref][D + 1] /= LeafByte(l2, D)
    <3> HIDE DEF m, D, top, c, e, n, r, d, prefix
    <3> QED BY <1>13, <1>14, <1>18a
  <2>3. m.partial = [i \in 1 .. Least(MAX_PREFIX_LEN, diff) |-> B[p.ref][p.depth + i]]
    <3> HIDE DEF m, D, top, c, e, n, r, d, prefix
    <3> QED BY <1>12, <1>17, <1>18a
  <2>4. ToSet(m.children) = {Child(B[p.ref][D + 1], NewRef), Child(LeafByte(l2, D), OtherRef)}
    <3> HIDE DEF m, D, top, c, e, n, r, d, prefix
    <3> QED BY <1>13, <1>14, <1>17, <1>18a
  <2>5. D < E[p.ref] /\ D = p.depth + diff /\ D <= Len(l2.key)
    BY <1>1, <1>5, <1>7
  <2> HIDE DEF m, D
  <2> QED
    BY <2>1, <2>2, <2>3, <2>4, <2>5, <1>1, <1>15, <1>17 DEF Parted
<1>20. Lowered(p, D, below, E, B)
  <2>1. below.partial_len = E[p.ref] - (D + 1)
    BY <1>7, <1>18
  <2>2. below.partial = [i \in 1 .. Least(MAX_PREFIX_LEN, below.partial_len) |->
                           B[p.ref][(D + 1) + i]]
    <3> HIDE DEF below, low, D, left
    <3> QED BY <1>11, <1>18
  <2>3. ToSet(below.children) = ToSet(nodes[p.ref].children)
    BY <1>18
  <2> HIDE DEF below, D
  <2> QED
    BY <2>1, <2>2, <2>3, <1>9, <1>18 DEF Lowered
<1> HIDE DEF m, D, below
<1>21. nodes' = [nodes EXCEPT ![p.ref] = m, ![NewRef] = below, ![OtherRef] = l2]
  BY <1>16
<1> HIDE DEF r, d, n, pl, c, e, new, low, left, prefix, top
<1> QED
  BY <1>19, <1>20, <1>21, Splitting

(* Nothing of the tree changes. *)
LEMMA Staying ==
  ASSUME Laid, NEW E, NEW B, Shape(E, B), nodes' = nodes
  PROVE  /\ Laid'
         /\ \E E2, B2 : Shape(E2, B2)'
         /\ Leaves' = Leaves
<1>1. Laid'
  BY DEF Laid
<1>2. Used' = Used /\ InnerRefs' = InnerRefs /\ LeafRefs' = LeafRefs
  BY DEF Used, InnerRefs, LeafRefs
<1>3. Kids' = Kids
  BY <1>2 DEF Kids
<1>4. Leaves' = Leaves
  BY <1>2 DEF Leaves
<1>5. \A s, d : SlotIn(s, d, InnerRefs, E, Kids) => SlotIn(s, d, InnerRefs', E, Kids')
  BY <1>2, <1>3
<1>6. /\ Trie(Used', InnerRefs', E, B, Kids')
      /\ \A r \in Used' : E[r] <= MaxKeyLen + 1
      /\ \A r \in LeafRefs' : LeafAt(nodes'[r], E[r], B[r])
      /\ \A r \in InnerRefs' : /\ SlotIn(r, E[r] - nodes'[r].partial_len, InnerRefs', E, Kids')
                               /\ InnerAt(nodes'[r], E[r], B[r])
  <2>1. /\ Trie(Used, InnerRefs, E, B, Kids)
        /\ \A r \in Used : E[r] <= MaxKeyLen + 1
        /\ \A r \in LeafRefs : LeafAt(nodes[r], E[r], B[r])
        /\ \A r \in InnerRefs : /\ SlotIn(r, E[r] - nodes[r].partial_len, InnerRefs, E, Kids)
                                 /\ InnerAt(nodes[r], E[r], B[r])
    BY DEF Shape, Slot
  <2> QED
    BY <2>1, <1>2, <1>3
<1>7. Shape(E, B)'
  BY <1>6 DEF Shape, Slot
<1> QED
  BY <1>1, <1>4, <1>7

(* What a node has after it took a child. *)
OneTaken(m, n, c, ref) ==
  /\ WellLaid(m)
  /\ m.partial_len = n.partial_len /\ m.partial = n.partial
  /\ ToSet(m.children) = ToSet(n.children) \cup {Child(c, ref)}

(* add_child in a well laid out node. *)
LEMMA TakenOne ==
  ASSUME NEW n, WellLaid(n), NEW c \in Bytes, NEW ref \in Refs \ {Root},
         \A e \in ToSet(n.children) : e.byte /= c
  PROVE  OneTaken(add_child(n, c, ref), n, c, ref)
<1>1. PICK q : q = add_child(n, c, ref)
  OBVIOUS
<1>2. /\ WellLaid(q)
      /\ q.partial_len = n.partial_len /\ q.partial = n.partial
      /\ ToSet(q.children) = ToSet(n.children) \cup {Child(c, ref)}
  BY <1>1, TakingChild
<1> QED
  BY <1>1, <1>2 DEF OneTaken

(* The last lines of recursive_insert (art.c:628-631): the leaf is a new *)
(* child.                                                                *)
LeafTaken(p, key, l2) ==
  [nodes EXCEPT ![p.ref] = add_child(nodes[p.ref], key[Turn(p) + 1], NewRef),
                ![NewRef] = l2]

(* A leaf goes below a node that has no child for its byte. *)
LEMMA TakingLeaf ==
  ASSUME Laid, NEW E, NEW B, Shape(E, B), Room,
         NEW p, Placed(p, E), p.ref \in InnerRefs,
         NEW k \in Keys, NEW key, Holds(key, k), Passes(p, key, k, E, B), Chosen(p, key) = 0,
         NEW v \in Values, NEW l2, l2 = make_leaf(key, Len(k), v),
         nodes' = LeafTaken(p, key, l2)
  PROVE  /\ Laid'
         /\ \E E2, B2 : Shape(E2, B2)'
         /\ Leaves' = Leaves \cup {l2}
<1> DEFINE r == p.ref
           n == nodes[r]
           c == key[E[r] + 1]
           m == add_child(n, c, NewRef)
<1>1. /\ l2 \in LeafNode /\ l2.key = k
      /\ \A i \in 0 .. Len(k) : LeafByte(l2, i) = key[i + 1] /\ key[i + 1] \in Bytes
  BY MadeLeaf
<1>2. /\ Len(k) \in Nat
      /\ \A i \in 1 .. Len(k) : key[i] = k[i]
  BY Held0
<1>3. Turn(p) = E[r]
  BY Turning
<1>4. E[r] \in Nat /\ r \in Refs
  BY Depth
<1>5. E[r] <= Len(k) /\ \A i \in 1 .. E[r] : B[r][i] = key[i]
  BY DEF Passes, Agrees
<1>6. \A e \in Kids[r] : e.byte /= c
  BY NotChosen
<1>7. Kids[r] = ToSet(n.children)
  BY Typing
<1>8. c = LeafByte(l2, E[r]) /\ c \in Bytes
  <2>1. E[r] \in 0 .. Len(k)
    BY <1>2, <1>4, <1>5
  <2> QED BY <2>1, <1>1
<1>9. NewRef \in Refs \ {Root} /\ nodes[NewRef] = NoNode
  BY Rooms
<1>10. WellLaid(n)
  BY <1>4, KindOf DEF InnerRefs
<1>11. /\ WellLaid(m) /\ m.partial_len = n.partial_len /\ m.partial = n.partial
       /\ ToSet(m.children) = ToSet(n.children) \cup {Child(c, NewRef)}
  <2>1. \A e \in ToSet(n.children) : e.byte /= c
    BY <1>6, <1>7
  <2> HIDE DEF n, c
  <2> QED
    <3>1. OneTaken(m, n, c, NewRef)
      BY <2>1, <1>8, <1>9, <1>10, TakenOne
    <3> HIDE DEF m
    <3> QED BY <3>1 DEF OneTaken
<1>12. Joined(r, NewRef, l2, m, E, B)
  <2>1. \A e \in Kids[r] : e.byte /= LeafByte(l2, E[r])
    BY <1>6, <1>8
  <2>2. \A i \in 1 .. E[r] : B[r][i] = l2.key[i]
    <3>1. \A i \in 1 .. E[r] : i \in 1 .. Len(k)
      BY <1>2, <1>4, <1>5
    <3> HIDE DEF r
    <3> QED BY <3>1, <1>1, <1>2, <1>5
  <2>3. /\ m.partial_len = nodes[r].partial_len /\ m.partial = nodes[r].partial
        /\ ToSet(m.children) = ToSet(nodes[r].children) \cup {Child(LeafByte(l2, E[r]), NewRef)}
    BY <1>8, <1>11
  <2> HIDE DEF r, m, c
  <2> QED
    BY <2>1, <2>2, <2>3, <1>1, <1>5, <1>9, <1>11 DEF Joined
<1>13. nodes' = [nodes EXCEPT ![r] = m, ![NewRef] = l2]
  BY <1>3 DEF LeafTaken
<1> HIDE DEF m
<1> QED
  BY <1>12, <1>13, Branching

(* What a call of recursive_insert leaves, and what it returns. *)
Updated(k, v, replace) ==
  \E l \in LeafRefs :
    /\ nodes[l].key = k
    /\ ret' = nodes[l].val
    /\ size' = size
    /\ Leaves' = IF replace THEN (Leaves \ {nodes[l]}) \cup {[nodes[l] EXCEPT !.val = v]}
                 ELSE Leaves

(* The key was not there: a leaf is added, and it is counted. *)
Added(k, v) ==
  /\ \A l \in LeafRefs : nodes[l].key /= k
  /\ ret' = NoValue
  /\ size' = size + 1
  /\ Leaves' = Leaves \cup {[type |-> "LEAF", key |-> k, val |-> v]}

(* recursive_insert keeps the shape and does one of the two. *)
LEMMA InsertingKey ==
  ASSUME Laid, NEW E, NEW B, Shape(E, B), NEW k \in Keys, NEW key, Holds(key, k),
         NEW v \in Values, NEW replace \in BOOLEAN,
         recursive_insert(key, Len(k), v, replace)
  PROVE  /\ Laid'
         /\ \E E2, B2 : Shape(E2, B2)'
         /\ Updated(k, v, replace) \/ Added(k, v)
<1> DEFINE p == InsertPlace(key, Len(k))
           n == nodes[p.ref]
           l2 == make_leaf(key, Len(k), v)
           diff == prefix_mismatch(p, key, Len(k))
           same == IS_LEAF(n) /\ leaf_matches(n, key, Len(k))
           New == CASE n = NoNode -> [nodes EXCEPT ![p.ref] = l2]
                    [] IS_LEAF(n) -> SplitLeaf(p, key, l2)
                    [] IsInner(n) /\ diff < n.partial_len -> SplitPrefix(p, key, l2, diff)
                    [] OTHER ->
                         [nodes EXCEPT ![p.ref] = add_child(n, key[Turn(p) + 1], NewRef),
                                       ![NewRef] = l2]
           Goal == /\ Laid'
                   /\ \E E2, B2 : Shape(E2, B2)'
                   /\ Updated(k, v, replace) \/ Added(k, v)
<1>1. \/ /\ same
         /\ nodes' = IF replace THEN [nodes EXCEPT ![p.ref].val = v] ELSE nodes
         /\ ret' = n.val
         /\ size' = size
      \/ /\ ~same /\ Room
         /\ nodes' = New
         /\ ret' = NoValue
         /\ size' = size + 1
  BY Zenon DEF recursive_insert
<1>2. l2 = [type |-> "LEAF", key |-> k, val |-> v] /\ l2 \in LeafNode
  BY MadeLeaf
<1>3. same <=> IS_LEAF(n) /\ n.key = k
  BY LeafFits
<1>4. Used = LeafRefs \cup InnerRefs
  BY Typing
<1>5. CASE nodes[Root] = NoNode
  <2>1. \A x \in Used : FALSE
    <3>1. \A x \in Used : Root \in Used
      BY Typing DEF Trie
    <3> QED BY <3>1, <1>5 DEF Used
  <2>2. p = Start
    BY <1>5, EmptyDescent DEF InsertPlace
  <2>3. p.ref = Root /\ n = NoNode /\ ~IS_LEAF(n) /\ ~IsInner(n)
    BY <2>2, <1>5 DEF Start, NoNode, IS_LEAF, IsInner, Types
  <2>4. nodes' = [nodes EXCEPT ![Root] = l2] /\ ret' = NoValue /\ size' = size + 1
    <3>1. nodes' = New /\ ret' = NoValue /\ size' = size + 1
      BY <1>1, <2>3
    <3>2. New = [nodes EXCEPT ![p.ref] = l2]
      <4> HIDE DEF p, l2, diff
      <4> QED BY <2>3, Zenon
    <3> HIDE DEF New, p, l2
    <3> QED BY <3>1, <3>2, <2>3
  <2> HIDE DEF p, l2, New
  <2>5. Laid' /\ (\E E2, B2 : Shape(E2, B2)') /\ Leaves' = Leaves \cup {l2}
    BY <1>2, <1>5, <2>4, Rooting
  <2>6. \A l \in LeafRefs : nodes[l].key /= k
    BY <2>1, <1>4
  <2>7. Added(k, v)
    BY <1>2, <2>4, <2>5, <2>6 DEF Added
  <2> QED
    BY <2>5, <2>7
<1>6. CASE nodes[Root] /= NoNode
  <2>1. Root \in Used
    BY <1>6, RefsAssumption DEF Used
  <2>2. /\ Placed(p, E) /\ Agrees(p.ref, p.depth, key, B)
        /\ \/ /\ p.ref \in LeafRefs
              /\ \A l \in LeafRefs : nodes[l].key = k => l = p.ref
           \/ /\ p.ref \in InnerRefs /\ p.depth <= Len(k)
              /\ diff \in Nat /\ diff < nodes[p.ref].partial_len
              /\ Strays(p, key, k, diff, E, B)
              /\ \A l \in LeafRefs : nodes[l].key /= k
           \/ /\ p.ref \in InnerRefs
              /\ ~(diff < nodes[p.ref].partial_len)
              /\ Passes(p, key, k, E, B)
              /\ Chosen(p, key) = 0
              /\ \A l \in LeafRefs : nodes[l].key /= k
    <3> DEFINE q == p
               f == diff
    <3> HIDE DEF p, diff
    <3>1. p = InsertPlace(key, Len(k)) /\ diff = prefix_mismatch(p, key, Len(k))
      BY DEF p, diff
    <3> QED BY <2>1, <3>1, InsertEnds
  <2>3. p.ref \in Used /\ p.ref \in Refs
    BY <2>2, Depth
  <2>4. n /= NoNode
    BY <2>3 DEF Used
  <2>5. CASE /\ p.ref \in LeafRefs
             /\ \A l \in LeafRefs : nodes[l].key = k => l = p.ref
    <3>1. IS_LEAF(n) /\ n \in LeafNode /\ ~IsInner(n)
      BY <2>5, <2>3, KindOf DEF LeafRefs
    <3>2. CASE n.key = k
      <4>1. same /\ nodes' = (IF replace THEN [nodes EXCEPT ![p.ref].val = v] ELSE nodes)
            /\ ret' = n.val /\ size' = size
        BY <1>1, <1>3, <3>1, <3>2
      <4> HIDE DEF p
      <4>2. CASE replace
        <5>1. nodes' = [nodes EXCEPT ![p.ref].val = v]
          BY <4>1, <4>2
        <5>2. Laid' /\ (\E E2, B2 : Shape(E2, B2)')
              /\ Leaves' = (Leaves \ {nodes[p.ref]}) \cup {[nodes[p.ref] EXCEPT !.val = v]}
          BY <5>1, <2>5, Updating
        <5>3. Updated(k, v, replace)
          BY <5>2, <4>1, <4>2, <2>5, <3>2 DEF Updated
        <5> QED BY <5>2, <5>3
      <4>3. CASE ~replace
        <5>1. nodes' = nodes
          BY <4>1, <4>3
        <5>2. Laid' /\ (\E E2, B2 : Shape(E2, B2)') /\ Leaves' = Leaves
          BY <5>1, Staying
        <5>3. Updated(k, v, replace)
          BY <5>2, <4>1, <4>3, <2>5, <3>2 DEF Updated
        <5> QED BY <5>2, <5>3
      <4> QED BY <4>2, <4>3
    <3>3. CASE n.key /= k
      <4>1. Room /\ nodes' = New /\ ret' = NoValue /\ size' = size + 1
        BY <1>1, <1>3, <3>3
      <4>2. New = SplitLeaf(p, key, l2)
        <5> HIDE DEF p, l2, diff
        <5> QED BY <2>4, <3>1, Zenon
      <4>3. nodes' = SplitLeaf(p, key, l2)
        BY <4>1, <4>2
      <4>4. Laid' /\ (\E E2, B2 : Shape(E2, B2)') /\ Leaves' = Leaves \cup {l2}
        <5> DEFINE lf == l2
        <5>1. lf = make_leaf(key, Len(k), v) /\ nodes' = SplitLeaf(p, key, lf)
          BY <4>3
        <5> HIDE DEF p, lf
        <5>2. Laid' /\ (\E E2, B2 : Shape(E2, B2)') /\ Leaves' = Leaves \cup {lf}
          BY <2>2, <2>5, <3>3, <4>1, <5>1, SplittingLeaf
        <5> QED BY <5>2 DEF lf
      <4> HIDE DEF p, l2, New
      <4>5. \A l \in LeafRefs : nodes[l].key /= k
        BY <2>5, <3>3
      <4>6. Added(k, v)
        BY <1>2, <4>1, <4>4, <4>5 DEF Added
      <4> QED BY <4>4, <4>6
    <3> QED BY <3>2, <3>3
  <2>6. CASE /\ p.ref \in InnerRefs /\ p.depth <= Len(k)
             /\ diff \in Nat /\ diff < nodes[p.ref].partial_len
             /\ Strays(p, key, k, diff, E, B)
             /\ \A l \in LeafRefs : nodes[l].key /= k
    <3>1. IsInner(n) /\ ~IS_LEAF(n)
      BY <2>6, <2>3, KindOf DEF InnerRefs
    <3>2. Room /\ nodes' = New /\ ret' = NoValue /\ size' = size + 1
      BY <1>1, <1>3, <3>1
    <3>3. New = SplitPrefix(p, key, l2, diff)
      <4> HIDE DEF p, l2, diff
      <4> QED BY <2>4, <2>6, <3>1, Zenon
    <3>4. Laid' /\ (\E E2, B2 : Shape(E2, B2)') /\ Leaves' = Leaves \cup {l2}
      <4> DEFINE lf == l2
      <4>1. lf = make_leaf(key, Len(k), v) /\ nodes' = SplitPrefix(p, key, lf, diff)
        BY <3>2, <3>3
      <4> HIDE DEF p, lf, diff
      <4>2. Laid' /\ (\E E2, B2 : Shape(E2, B2)') /\ Leaves' = Leaves \cup {lf}
        BY <2>2, <2>6, <3>2, <4>1, SplittingNode
      <4> QED BY <4>2 DEF lf
    <3> HIDE DEF p, l2, New
    <3>6. Added(k, v)
      BY <1>2, <2>6, <3>2, <3>4 DEF Added
    <3> QED BY <3>4, <3>6
  <2>7. CASE /\ p.ref \in InnerRefs
             /\ ~(diff < nodes[p.ref].partial_len)
             /\ Passes(p, key, k, E, B)
             /\ Chosen(p, key) = 0
             /\ \A l \in LeafRefs : nodes[l].key /= k
    <3>1. IsInner(n) /\ ~IS_LEAF(n)
      BY <2>7, <2>3, KindOf DEF InnerRefs
    <3>2. Room /\ nodes' = New /\ ret' = NoValue /\ size' = size + 1
      BY <1>1, <1>3, <3>1
    <3>3. New = [nodes EXCEPT ![p.ref] = add_child(n, key[Turn(p) + 1], NewRef), ![NewRef] = l2]
      <4> HIDE DEF p, l2, diff
      <4> QED BY <2>4, <2>7, <3>1, Zenon
    <3>4. Laid' /\ (\E E2, B2 : Shape(E2, B2)') /\ Leaves' = Leaves \cup {l2}
      <4> DEFINE lf == l2
      <4>1. lf = make_leaf(key, Len(k), v)
            /\ nodes' = LeafTaken(p, key, lf)
        BY <3>2, <3>3 DEF LeafTaken
      <4> HIDE DEF p, lf, diff
      <4>2. Laid' /\ (\E E2, B2 : Shape(E2, B2)') /\ Leaves' = Leaves \cup {lf}
        BY <2>2, <2>7, <3>2, <4>1, TakingLeaf
      <4> QED BY <4>2 DEF lf
    <3> HIDE DEF p, l2, New
    <3>6. Added(k, v)
      BY <1>2, <2>7, <3>2, <3>4 DEF Added
    <3> QED BY <3>4, <3>6
  <2> HIDE DEF p, diff, n
  <2> QED
    BY <2>2, <2>5, <2>6, <2>7
<1> QED
  BY <1>5, <1>6

(* The elements of a sequence are those of a path from a point on.         *)
Reads(s, path, d) == \A i \in 1 .. Len(s) : s[i] = path[d + i]

(* One sequence after another, element by element. *)
Appended(u, s, t, S) ==
  /\ u \in Seq(S) /\ Len(u) = Len(s) + Len(t)
  /\ \A i \in 1 .. Len(s) : u[i] = s[i]
  /\ \A i \in 1 .. Len(t) : u[Len(s) + i] = t[i]

(* Two sequences after one another are such a sequence. *)
LEMMA Concat ==
  ASSUME NEW S, NEW s \in Seq(S), NEW t \in Seq(S)
  PROVE  Appended(s \o t, s, t, S)
<1>1. s \o t \in Seq(S)
  OBVIOUS
<1>2. Len(s \o t) = Len(s) + Len(t)
  OBVIOUS
<1>3. \A i \in 1 .. Len(s) : (s \o t)[i] = s[i]
  OBVIOUS
<1>4. \A i \in 1 .. Len(t) : (s \o t)[Len(s) + i] = t[i]
  OBVIOUS
<1> QED
  BY <1>1, <1>2, <1>3, <1>4 DEF Appended

(* Three sequences in a row, the second of one element. *)
Row(u, s, o, t, S) ==
  /\ u \in Seq(S) /\ Len(u) = Len(s) + 1 + Len(t)
  /\ \A i \in 1 .. Len(s) : u[i] = s[i]
  /\ u[Len(s) + 1] = o[1]
  /\ \A i \in 1 .. Len(t) : u[Len(s) + 1 + i] = t[i]

(* Three after one another are such a row. *)
LEMMA ConcatWith ==
  ASSUME NEW S, NEW s \in Seq(S), NEW o \in Seq(S), Len(o) = 1, NEW t \in Seq(S),
         NEW w, Appended(w, s, o, S), NEW u, Appended(u, w, t, S)
  PROVE  Row(u, s, o, t, S)
<1>1. /\ w \in Seq(S) /\ Len(w) = Len(s) + 1
      /\ \A i \in 1 .. Len(s) : w[i] = s[i]
      /\ w[Len(s) + 1] = o[1]
  BY DEF Appended
<1>2. /\ u \in Seq(S) /\ Len(u) = Len(w) + Len(t)
      /\ \A i \in 1 .. Len(w) : u[i] = w[i]
      /\ \A i \in 1 .. Len(t) : u[Len(w) + i] = t[i]
  BY DEF Appended
<1>3. (\A i \in 1 .. Len(s) : i \in 1 .. Len(w)) /\ Len(s) + 1 \in 1 .. Len(w)
  BY <1>1
<1> QED
  BY <1>1, <1>2, <1>3 DEF Row

(* What a node stores of a prefix of m bytes. *)
Stores(s, m, path, d) ==
  s \in Seq(Bytes) /\ Len(s) = Least(MAX_PREFIX_LEN, m) /\ Reads(s, path, d)

(* The prefix of a node, the byte of a child and the prefix of the child,  *)
(* as far as a node stores a prefix.                                       *)
LEMMA Joining ==
  ASSUME NEW m \in Nat, NEW n \in Nat, NEW d \in Nat, NEW path,
         NEW s, Stores(s, m, path, d), NEW t, Stores(t, n, path, d + m + 1),
         NEW o, o[1] = path[d + m + 1], NEW u, Row(u, s, o, t, Bytes)
  PROVE  Stores(First(u, MAX_PREFIX_LEN), m + 1 + n, path, d)
<1>0. PICK f : f = First(u, MAX_PREFIX_LEN)
  OBVIOUS
<1> DEFINE M == MAX_PREFIX_LEN
           g == Least(M, m + 1 + n)
<1>0a. /\ s \in Seq(Bytes) /\ Len(s) = Least(MAX_PREFIX_LEN, m) /\ Reads(s, path, d)
       /\ t \in Seq(Bytes) /\ Len(t) = Least(MAX_PREFIX_LEN, n)
       /\ Reads(t, path, d + m + 1)
  BY DEF Stores
<1>1. M \in Nat /\ M > 0
  BY NodeAssumption
<1>2. /\ u \in Seq(Bytes) /\ Len(u) = Len(s) + 1 + Len(t)
      /\ \A i \in 1 .. Len(s) : u[i] = s[i]
      /\ u[Len(s) + 1] = o[1]
      /\ \A i \in 1 .. Len(t) : u[Len(s) + 1 + i] = t[i]
  BY DEF Row
<1>3. Len(s) \in Nat /\ Len(t) \in Nat /\ Len(u) = Len(s) + 1 + Len(t)
  BY <1>0a, <1>2
<1>4. /\ Len(s) = IF M < m THEN M ELSE m
      /\ Len(t) = IF M < n THEN M ELSE n
      /\ g = IF M < m + 1 + n THEN M ELSE m + 1 + n
      /\ Least(M, Len(u)) = IF M < Len(u) THEN M ELSE Len(u)
  BY <1>0a DEF Least
<1> HIDE DEF M, g
<1>5. g \in Nat /\ Least(M, Len(u)) = g /\ g <= Len(u) /\ (g > Len(s) => Len(s) = m)
  BY <1>1, <1>3, <1>4
<1>6. f = First(u, M)
  BY <1>0 DEF M
<1>7. f \in Seq(Bytes) /\ Len(f) = g /\ \A i \in 1 .. g : f[i] = u[i]
  <2>1. /\ First(u, M) \in Seq(Bytes)
        /\ Len(First(u, M)) = Least(M, Len(u))
        /\ \A i \in 1 .. Least(M, Len(u)) : First(u, M)[i] = u[i]
    BY <1>1, <1>2, FirstsEach
  <2> QED BY <2>1, <1>5, <1>6
<1>8. ASSUME NEW i \in 1 .. g PROVE u[i] = path[d + i]
  <2>0. i \in Nat /\ 1 <= i /\ i <= g
    BY <1>5
  <2>1. CASE i <= Len(s)
    <3>1. i \in 1 .. Len(s)
      BY <2>0, <2>1, <1>3
    <3> QED BY <3>1, <1>0a, <1>2 DEF Reads
  <2>2. CASE i > Len(s)
    <3>1. Len(s) = m
      BY <2>0, <2>2, <1>3, <1>5
    <3>2. CASE i = m + 1
      <4>1. u[i] = o[1] /\ d + i = d + m + 1
        BY <3>1, <3>2, <1>2
      <4> QED BY <4>1
    <3>3. CASE i > m + 1
      <4>1. PICK k \in Nat : k = i - (m + 1)
        BY <3>3, <2>0
      <4>2. k \in 1 .. Len(t) /\ m + 1 + k = i /\ d + m + 1 + k = d + i
        BY <4>1, <2>0, <3>1, <3>3, <1>3, <1>5
      <4>3. u[m + 1 + k] = t[k]
        BY <3>1, <4>2, <1>2
      <4>4. t[k] = path[d + m + 1 + k]
        BY <4>2, <1>0a DEF Reads
      <4> QED BY <4>2, <4>3, <4>4
    <3> QED BY <2>0, <2>2, <3>1, <3>2, <3>3
  <2> QED BY <2>0, <2>1, <2>2, <1>3
<1>9. Reads(f, path, d)
  BY <1>7, <1>8 DEF Reads
<1> QED
  BY <1>0, <1>7, <1>9 DEF g, M, Stores

(* The place a node is in, with where it starts. *)
LEMMA PlaceOf ==
  ASSUME Laid, NEW E, NEW B, Shape(E, B), NEW r \in Used, NEW d, Slot(r, d, E)
  PROVE  Placed([ref |-> r, depth |-> d], E)
<1>1. d \in Nat
  BY Typing DEF Slot, SlotIn
<1>2. r \in Refs
  BY DEF Used
<1> QED
  BY <1>1, <1>2 DEF Placed, Places

(* What a NODE4 leaves when it gives way to its only child. *)
LEMMA CollapsedNode ==
  ASSUME Laid, NEW E, NEW B, Shape(E, B), NEW r \in InnerRefs, NEW f \in Kids[r],
         NEW m, m.partial_len = nodes[r].partial_len, m.partial = nodes[r].partial,
         m.children[1] = f
  PROVE  Raised(r, f.ref, Collapsed(m, nodes[f.ref]), E, B)
<1> DEFINE n == nodes[r]
           only == f.ref
           child == nodes[only]
           n2 == Collapsed(m, child)
           d == E[r] - n.partial_len
           e == E[r] + 1
           pl == n.partial_len
           cl == child.partial_len
<1>1. only \in Used /\ r \in Used /\ only \in Refs /\ r \in Refs
      /\ E[r] \in Nat /\ E[only] \in Nat
      /\ Above(r, only, InnerRefs, E, B) /\ B[only][E[r] + 1] = f.byte
  <2>1. f \in ToSet(n.children)
    BY Typing
  <2> QED BY <2>1, ChildOf, Typing
<1>2. CASE only \in LeafRefs
  <2>1. IS_LEAF(child) /\ only \notin InnerRefs
    BY <1>2, Typing DEF LeafRefs
  <2>2. n2 = child
    BY <2>1 DEF Collapsed
  <2>3. Raised(r, only, n2, E, B)
    <3> HIDE DEF n2
    <3> QED BY <2>1, <2>2 DEF Raised
  <2> QED
    BY <2>3
<1>3. CASE only \in InnerRefs
  <2>1. only \notin LeafRefs /\ child \in InnerNode /\ WellLaid(child) /\ ~IS_LEAF(child)
    BY <1>1, <1>3, Typing, KindOf DEF InnerRefs
  <2>2. Slot(r, d, E) /\ Slot(only, E[only] - cl, E)
    BY <1>3 DEF Shape
  <2>3. Slot(only, e, E)
    BY DEF Slot, SlotIn
  <2>4. Stored(r, d, n, pl, E, B) /\ Stored(only, e, child, cl, E, B)
    <3>1. Placed([ref |-> r, depth |-> d], E) /\ Placed([ref |-> only, depth |-> e], E)
      BY <1>1, <2>2, <2>3, PlaceOf
    <3>2. PICK p : p = [ref |-> r, depth |-> d]
      OBVIOUS
    <3>3. PICK q : q = [ref |-> only, depth |-> e]
      OBVIOUS
    <3>4. p.ref = r /\ p.depth = d /\ q.ref = only /\ q.depth = e
      BY <3>2, <3>3
    <3>5. Placed(p, E) /\ Placed(q, E)
      BY <3>1, <3>2, <3>3
    <3> HIDE DEF d, e, only, n, child, pl, cl
    <3>6. Stored(p.ref, p.depth, nodes[p.ref], nodes[p.ref].partial_len, E, B)
      BY <3>4, <3>5, StoredPrefix
    <3>7. Stored(q.ref, q.depth, nodes[q.ref], nodes[q.ref].partial_len, E, B)
      BY <1>3, <3>4, <3>5, StoredPrefix
    <3> QED BY <3>4, <3>6, <3>7 DEF n, child, pl, cl
  <2>5. /\ E[r] = d + pl /\ d \in Nat /\ pl \in Nat
        /\ n.partial \in Seq(Bytes) /\ Len(n.partial) = Least(MAX_PREFIX_LEN, pl)
        /\ \A i \in 1 .. Least(MAX_PREFIX_LEN, pl) : n.partial[i] = B[r][d + i]
    <3> HIDE DEF d, n, pl
    <3> QED BY <2>4 DEF Stored
  <2>6. /\ E[only] = e + cl /\ cl \in Nat
        /\ child.partial \in Seq(Bytes) /\ Len(child.partial) = Least(MAX_PREFIX_LEN, cl)
        /\ \A i \in 1 .. Least(MAX_PREFIX_LEN, cl) : child.partial[i] = B[only][e + i]
        /\ \A i \in 1 .. E[only] : B[only][i] \in Bytes
    <3> HIDE DEF e, only, child, cl
    <3> QED BY <2>4 DEF Stored
  <2>7. E[only] - d = pl + 1 + cl /\ e = d + pl + 1 /\ E[r] \in Nat /\ pl + 1 + cl \in Nat
        /\ d + pl + 1 = E[r] + 1
    <3>1. E[r] = d + pl /\ d \in Nat /\ pl \in Nat /\ E[only] = e + cl /\ cl \in Nat
          /\ e = E[r] + 1
      BY <2>5, <2>6
    <3> HIDE DEF d, e, pl, cl
    <3> QED BY <3>1
  <2>8. E[r] < E[only] /\ \A i \in 1 .. E[r] : B[r][i] = B[only][i]
    BY <1>1 DEF Above
  <2> DEFINE g == Least(MAX_PREFIX_LEN, pl + 1 + cl)
             joined == First(n.partial \o <<f.byte>> \o child.partial, MAX_PREFIX_LEN)
  <2>9. Reads(n.partial, B[only], d)
    <3> SUFFICES ASSUME NEW i \in 1 .. Len(n.partial) PROVE n.partial[i] = B[only][d + i]
      BY DEF Reads
    <3>2. MAX_PREFIX_LEN \in Nat
      BY NodeAssumption
    <3> HIDE DEF d, n, pl, only
    <3>3. i \in 1 .. Least(MAX_PREFIX_LEN, pl) /\ d + i \in 1 .. E[r] /\ i \in Int
      <4>1. /\ i \in Nat /\ 1 <= i /\ i <= Least(MAX_PREFIX_LEN, pl)
            /\ E[r] = d + pl /\ d \in Nat /\ pl \in Nat
        BY <2>5
      <4> QED BY <4>1, <3>2 DEF Least
    <3> QED BY <3>3, <2>5, <2>8
  <2>10. f.byte = B[only][d + pl + 1] /\ f.byte \in Bytes
    <3>1. f.byte = B[only][E[r] + 1]
      BY <1>1
    <3>2. E[r] + 1 \in 1 .. E[only]
      BY <1>1, <2>8
    <3> HIDE DEF d, pl, only
    <3> QED BY <3>1, <3>2, <2>6, <2>7
  <2>11. Reads(child.partial, B[only], d + pl + 1)
    <3> HIDE DEF d, e, pl, only, child, cl
    <3> QED BY <2>6, <2>7 DEF Reads
  <2>12. joined \in Seq(Bytes) /\ Len(joined) = g /\ Reads(joined, B[only], d)
    <3> DEFINE s == n.partial
               t == child.partial
               q == joined
    <3>1. s \in Seq(Bytes) /\ t \in Seq(Bytes) /\ pl \in Nat /\ cl \in Nat /\ d \in Nat
          /\ Len(s) = Least(MAX_PREFIX_LEN, pl) /\ Len(t) = Least(MAX_PREFIX_LEN, cl)
      BY <2>5, <2>6
    <3>2. Reads(s, B[only], d) /\ Reads(t, B[only], d + pl + 1)
          /\ q = First(s \o <<f.byte>> \o t, MAX_PREFIX_LEN)
      BY <2>9, <2>11
    <3>2a. PICK o \in Seq(Bytes) : o = <<f.byte>> /\ Len(o) = 1 /\ o[1] = f.byte
      <4>1. f.byte \in Bytes
        BY <2>10
      <4> DEFINE b == f.byte
      <4> HIDE DEF b
      <4>2. b \in Bytes
        BY <4>1 DEF b
      <4>3. <<b>> \in Seq(Bytes) /\ Len(<<b>>) = 1 /\ <<b>>[1] = b
        BY <4>2
      <4> QED BY <4>3, Zenon DEF b
    <3>2b. PICK w : w = s \o o
      OBVIOUS
    <3>2c. PICK u : u = w \o t
      OBVIOUS
    <3>2d. Appended(w, s, o, Bytes)
      BY <3>1, <3>2a, <3>2b, Concat
    <3>2e. Appended(u, w, t, Bytes)
      <4>1. w \in Seq(Bytes)
        BY <3>2d DEF Appended
      <4> QED BY <4>1, <3>1, <3>2c, Concat
    <3>2f. Row(u, s, o, t, Bytes)
      BY <3>1, <3>2a, <3>2d, <3>2e, ConcatWith
    <3>2g. q = First(u, MAX_PREFIX_LEN)
      BY <3>2, <3>2a, <3>2b, <3>2c, Zenon
    <3>2h. o[1] = B[only][d + pl + 1]
      BY <3>2a, <2>10
    <3>2i. Stores(s, pl, B[only], d) /\ Stores(t, cl, B[only], d + pl + 1)
      BY <3>1, <3>2 DEF Stores
    <3>2j. Stores(First(u, MAX_PREFIX_LEN), pl + 1 + cl, B[only], d)
      BY <3>1, <3>2f, <3>2h, <3>2i, Joining
    <3>3. q \in Seq(Bytes) /\ Len(q) = Least(MAX_PREFIX_LEN, pl + 1 + cl)
          /\ Reads(q, B[only], d)
      BY <3>2g, <3>2j DEF Stores
    <3> QED BY <3>3 DEF q
  <2>13. joined = [i \in 1 .. g |-> B[only][d + i]]
    <3> DEFINE q == joined
    <3>1. q \in Seq(Bytes) /\ Len(q) = g /\ Reads(q, B[only], d)
      BY <2>12
    <3> HIDE DEF q, g, d, only
    <3>3. q = [i \in 1 .. g |-> B[only][d + i]]
      BY <3>1 DEF Reads
    <3> QED BY <3>3 DEF q
  <2>14. n2 = [child EXCEPT !.partial_len = pl + 1 + cl, !.partial = joined]
    BY <2>1 DEF Collapsed
  <2> DEFINE len == pl + 1 + cl
  <2>15. len \in Nat /\ len = E[only] - d /\ joined \in Seq(Bytes)
    BY <2>5, <2>6, <2>7, <2>12
  <2>16. /\ n2.partial_len = len /\ n2.partial = joined /\ n2.children = child.children
         /\ n2.type = child.type /\ n2 \in InnerNode
    <3> HIDE DEF n2, joined, child, len
    <3> QED BY <2>1, <2>14, <2>15 DEF InnerNode, len
  <2>17. WellLaid(n2)
    <3> HIDE DEF n2
    <3> QED BY <2>1, <2>16 DEF WellLaid
  <2> QED
    <3> HIDE DEF n2, joined, child, len, d, only
    <3>1. n2.partial = [i \in 1 .. Least(MAX_PREFIX_LEN, n2.partial_len) |-> B[only][d + i]]
      BY <2>13, <2>16 DEF len
    <3>2. Raised(r, only, n2, E, B)
      BY <2>1, <2>15, <2>16, <2>17, <3>1 DEF Raised, child, d
    <3> QED BY <3>2 DEF n2, only, child
<1> QED
  BY <1>1, <1>2, <1>3, Typing

(* A node from which an entry was taken is well laid out again, or is to   *)
(* shrink. *)
Taken(m, n, i) ==
  /\ m \in InnerNode /\ Distinct(m)
  /\ m.type = n.type /\ m.partial_len = n.partial_len /\ m.partial = n.partial
  /\ Len(m.children) = Len(n.children) - 1
  /\ ToSet(m.children) = ToSet(n.children) \ {n.children[i]}
  /\ Len(m.children) /= Shrink[n.type] => WellLaid(m)

(* An entry taken from a well laid out node. *)
LEMMA TakenOut ==
  ASSUME NEW n, WellLaid(n), NEW i \in 1 .. Len(n.children)
  PROVE  Taken([n EXCEPT !.children = RemoveAt(@, i)], n, i)
BY LosingChild DEF Taken

(* A node of the next smaller type, with the entries it had. *)
Relaid(w, m) ==
  /\ WellLaid(w)
  /\ w.partial_len = m.partial_len /\ w.partial = m.partial
  /\ ToSet(w.children) = ToSet(m.children)

(* The shrink of a node that is not a NODE4. *)
LEMMA RelaidSmaller ==
  ASSUME NEW m \in InnerNode, Distinct(m), Len(m.children) = Shrink[m.type],
         m.type /= "NODE4"
  PROVE  Relaid(Resized(m, Smaller[m.type]), m)
BY ShrinkingLayout DEF Relaid

(* The three ways remove_child leaves the tree. *)
Removal(new, r, i, m) ==
  LET left == [nodes EXCEPT ![nodes[r].children[i].ref] = NoNode]
      only == m.children[1].ref
  IN  new = IF Len(m.children) /= Shrink[nodes[r].type] THEN [left EXCEPT ![r] = m]
            ELSE IF nodes[r].type = "NODE4"
            THEN [left EXCEPT ![r] = Collapsed(m, nodes[only]), ![only] = NoNode]
            ELSE [left EXCEPT ![r] = Resized(m, Smaller[nodes[r].type])]

(* An entry and the only other one of its node. *)
Pair(r, e, f) ==
  r \in InnerRefs /\ e \in Kids[r] /\ f \in Kids[r] /\ Kids[r] = {e, f} /\ e /= f

(* The tree after a node with two children lost one of them. *)
LEMMA CollapsingPair ==
  ASSUME Laid, NEW E, NEW B, Shape(E, B), NEW r, NEW e, NEW f, Pair(r, e, f),
         e.ref \in LeafRefs, NEW n2, Raised(r, f.ref, n2, E, B),
         nodes' = [nodes EXCEPT ![e.ref] = NoNode, ![r] = n2, ![f.ref] = NoNode]
  PROVE  /\ Laid'
         /\ \E E2, B2 : Shape(E2, B2)'
         /\ Leaves' = Leaves \ {nodes[e.ref]}
<1>1. r \in InnerRefs /\ e \in Kids[r] /\ f \in Kids[r] /\ Kids[r] = {e, f} /\ e /= f
  BY DEF Pair
<1> QED
  BY <1>1, Collapsing, Zenon

(* remove_child, in each of its ways, keeps the shape and takes the leaf. *)
LEMMA RemovingChild ==
  ASSUME Laid, NEW E, NEW B, Shape(E, B), NEW r \in InnerRefs,
         NEW i \in 1 .. Len(nodes[r].children),
         nodes[r].children[i].ref \in LeafRefs,
         nodes' = remove_child(r, i)
  PROVE  /\ Laid'
         /\ \E E2, B2 : Shape(E2, B2)'
         /\ Leaves' = Leaves \ {nodes[nodes[r].children[i].ref]}
<1> DEFINE n == nodes[r]
           m == [n EXCEPT !.children = RemoveAt(@, i)]
           e == n.children[i]
           c == e.ref
<1>1. /\ WellLaid(n) /\ n \in InnerNode /\ r \in Refs
      /\ Kids[r] = ToSet(n.children)
      /\ n.children \in Seq(Entries)
  BY KindOf, Typing DEF InnerRefs, InnerNode, Entries
<1>2. Taken(m, n, i)
  BY <1>1, TakenOut
<1>3. e \in Kids[r]
  BY <1>1, Among
<1>4. Removal(nodes', r, i, m)
  BY Zenon DEF remove_child, Removal
<1> HIDE DEF m
<1>5. CASE Len(m.children) /= Shrink[n.type]
  <2>1. nodes' = [nodes EXCEPT ![c] = NoNode, ![r] = m]
    BY <1>4, <1>5 DEF Removal
  <2>2. Left(r, e, m)
    BY <1>2, <1>5 DEF Taken, Left
  <2> HIDE DEF e
  <2> QED BY <1>3, <2>1, <2>2, Pruning DEF e
<1>6. CASE Len(m.children) = Shrink[n.type] /\ n.type = "NODE4"
  <2> DEFINE f == m.children[1]
             w == Collapsed(m, nodes[f.ref])
  <2>1. Len(m.children) = 1 /\ m.children \in Seq(Entries)
    BY <1>2, <1>6, NodeAssumption DEF Taken, InnerNode, Entries
  <2>2. ToSet(m.children) = {f}
    <3>1. \A x : x \in ToSet(m.children) <=> \E j \in 1 .. 1 : m.children[j] = x
      BY <2>1, Among
    <3>2. \A x : x \in ToSet(m.children) <=> x = f
      <4> SUFFICES ASSUME NEW x PROVE x \in ToSet(m.children) <=> x = f
        OBVIOUS
      <4>1. x \in ToSet(m.children) <=> \E j \in 1 .. 1 : m.children[j] = x
        BY <3>1
      <4>2. \A j : j \in 1 .. 1 <=> j = 1
        OBVIOUS
      <4> HIDE DEF f
      <4>3. f = m.children[1]
        BY DEF f
      <4> QED BY <4>1, <4>2, <4>3
    <3> HIDE DEF f
    <3> QED BY <3>2
  <2>3. {f} = Kids[r] \ {e}
    BY <2>2, <1>1, <1>2 DEF Taken
  <2>4. f \in Kids[r] /\ f /= e /\ Kids[r] = {e, f}
    <3> HIDE DEF f, e
    <3> QED BY <2>3, <1>3
  <2>5. Raised(r, f.ref, w, E, B)
    <3>1. m.partial_len = nodes[r].partial_len /\ m.partial = nodes[r].partial
      BY <1>2 DEF Taken
    <3>2. m.children[1] = f
      OBVIOUS
    <3> HIDE DEF f
    <3> QED BY <2>4, <3>1, <3>2, CollapsedNode
  <2>6. nodes' = [nodes EXCEPT ![c] = NoNode, ![r] = w, ![f.ref] = NoNode]
    BY <1>4, <1>6 DEF Removal
  <2>7. Pair(r, e, f)
    BY <1>3, <2>4 DEF Pair
  <2> HIDE DEF w, f, e
  <2> QED
    BY <2>5, <2>6, <2>7, CollapsingPair DEF e
<1>7. CASE Len(m.children) = Shrink[n.type] /\ n.type /= "NODE4"
  <2> DEFINE w == Resized(m, Smaller[n.type])
  <2>1. Relaid(w, m)
    <3>1. m \in InnerNode /\ Distinct(m) /\ Len(m.children) = Shrink[m.type]
          /\ m.type /= "NODE4" /\ m.type = n.type
      BY <1>2, <1>7 DEF Taken
    <3> QED BY <3>1, RelaidSmaller
  <2>2. nodes' = [nodes EXCEPT ![c] = NoNode, ![r] = w]
    BY <1>4, <1>7 DEF Removal
  <2>3. Left(r, e, w)
    <3> HIDE DEF w, e
    <3>1. ToSet(m.children) = ToSet(n.children) \ {e}
      BY <1>2 DEF Taken, e
    <3> QED BY <1>2, <2>1, <3>1 DEF Taken, Relaid, Left
  <2> HIDE DEF w, e
  <2> QED BY <1>3, <2>2, <2>3, Pruning DEF e
<1> QED BY <1>5, <1>6, <1>7

(* What a call of recursive_delete leaves, and what it returns. *)
Removed(k) ==
  \E l \in LeafRefs :
    /\ nodes[l].key = k
    /\ ret' = nodes[l].val
    /\ size' = size - 1
    /\ Leaves' = Leaves \ {nodes[l]}

(* The key was not there: nothing changes. *)
Missed(k) ==
  /\ \A l \in LeafRefs : nodes[l].key /= k
  /\ ret' = NoValue
  /\ size' = size
  /\ Leaves' = Leaves

(* recursive_delete keeps the shape and does one of the two. *)
LEMMA DeletingKey ==
  ASSUME Laid, NEW E, NEW B, Shape(E, B), NEW k \in Keys, NEW key, Holds(key, k),
         recursive_delete(key, Len(k))
  PROVE  /\ Laid'
         /\ \E E2, B2 : Shape(E2, B2)'
         /\ Removed(k) \/ Missed(k)
<1> DEFINE p == DeletePlace(key, Len(k))
           n == nodes[p.ref]
           leaf == IF Continues(p, key, Len(k)) THEN nodes[Below(p, key).ref] ELSE n
           same == IS_LEAF(leaf) /\ leaf_matches(leaf, key, Len(k))
<1>1. \/ /\ same
         /\ nodes' = IF IS_LEAF(n) THEN [nodes EXCEPT ![p.ref] = NoNode]
                     ELSE remove_child(p.ref, Chosen(p, key))
         /\ ret' = leaf.val
         /\ size' = size - 1
      \/ /\ ~same
         /\ nodes' = nodes
         /\ ret' = NoValue
         /\ size' = size
  BY Zenon DEF recursive_delete
<1>2. p = DeletePlace(key, Len(k))
  OBVIOUS
<1>3. CASE \E l \in LeafRefs : nodes[l].key = k
  <2> HIDE DEF p
  <2>1. PICK l \in LeafRefs : nodes[l].key = k
    BY <1>3
  <2>2. IS_LEAF(nodes[l])
    BY DEF LeafRefs
  <2>3. CASE /\ p.ref = l /\ l = Root
             /\ ~Continues(p, key, Len(k)) /\ IS_LEAF(nodes[p.ref])
    <3>1. leaf = nodes[l] /\ n = nodes[Root]
      BY <2>3
    <3>2. same
      BY <2>1, <2>2, <3>1, LeafFits
    <3>3. nodes' = [nodes EXCEPT ![Root] = NoNode] /\ ret' = nodes[l].val /\ size' = size - 1
      BY <1>1, <3>2, <3>1, <2>3
    <3>4. Laid' /\ (\E E2, B2 : Shape(E2, B2)') /\ Leaves' = Leaves \ {nodes[Root]}
      BY <2>3, <3>3, Clearing
    <3>5. Removed(k)
      BY <2>1, <2>3, <3>3, <3>4 DEF Removed
    <3> QED BY <3>4, <3>5
  <2>4. CASE /\ Placed(p, E) /\ p.ref \in InnerRefs /\ Chosen(p, key) /= 0
             /\ Continues(p, key, Len(k)) /\ ~IS_LEAF(nodes[p.ref])
             /\ Below(p, key).ref = l
    <3>1. leaf = nodes[l]
      BY <2>4
    <3>2. same
      BY <2>1, <2>2, <3>1, LeafFits
    <3>3. nodes' = remove_child(p.ref, Chosen(p, key)) /\ ret' = nodes[l].val /\ size' = size - 1
      BY <1>1, <3>2, <3>1, <2>4
    <3>4. Chosen(p, key) \in 1 .. Len(nodes[p.ref].children)
      BY <2>4, GoingBelow
    <3>5. nodes[p.ref].children[Chosen(p, key)].ref = l
      BY <2>4 DEF Below
    <3>6. Laid' /\ (\E E2, B2 : Shape(E2, B2)') /\ Leaves' = Leaves \ {nodes[l]}
      BY <2>1, <2>4, <3>3, <3>4, <3>5, RemovingChild
    <3>7. Removed(k)
      BY <2>1, <3>3, <3>6 DEF Removed
    <3> QED BY <3>6, <3>7
  <2> QED
    BY <1>2, <2>1, <2>3, <2>4, DeleteFinds
<1>4. CASE \A l \in LeafRefs : nodes[l].key /= k
  <2>1. leaf = IF Continues(p, key, Len(k)) THEN nodes[Below(p, key).ref] ELSE nodes[p.ref]
    OBVIOUS
  <2> HIDE DEF p, leaf
  <2>2. ~same
    BY <1>2, <1>4, <2>1, DeleteMisses
  <2>3. nodes' = nodes /\ ret' = NoValue /\ size' = size
    BY <1>1, <2>2
  <2>4. Laid' /\ (\E E2, B2 : Shape(E2, B2)') /\ Leaves' = Leaves
    BY <2>3, Staying
  <2>5. Missed(k)
    BY <1>4, <2>3, <2>4 DEF Missed
  <2> QED BY <2>4, <2>5
<1> QED BY <1>3, <1>4

(* A set of leaves, no two of which have the same key, and what it says of *)
(* each key.                                                               *)
Apart(L) == \A l, m \in L : l.key = m.key => l = m

(* What a set of leaves says of each key. *)
HeldOf(L) ==
  [k \in Keys |-> LET mine == {l \in L : l.key = k}
                  IN  IF mine = {} THEN NoValue ELSE (CHOOSE l \in mine : TRUE).val]

(* No leaf has the key. *)
Lacking(L, k) == \A l \in L : l.key /= k

(* It says of a key what its leaf does. *)
LEMMA HeldEach ==
  ASSUME NEW L, Apart(L), NEW k \in Keys
  PROVE  /\ \A l \in L : l.key = k => HeldOf(L)[k] = l.val
         /\ Lacking(L, k) => HeldOf(L)[k] = NoValue
<1> DEFINE mine == {l \in L : l.key = k}
<1>1. HeldOf(L)[k] = IF mine = {} THEN NoValue ELSE (CHOOSE l \in mine : TRUE).val
  BY DEF HeldOf
<1>2. ASSUME NEW l \in L, l.key = k PROVE HeldOf(L)[k] = l.val
  <2>1. mine = {l}
    BY <1>2 DEF Apart
  <2>2. (CHOOSE m \in {l} : TRUE) = l
    OBVIOUS
  <2> HIDE DEF mine
  <2> QED BY <1>1, <2>1, <2>2
<1>3. Lacking(L, k) => mine = {}
  BY DEF Lacking
<1> QED BY <1>1, <1>2, <1>3

(* Two sets of leaves that differ at one key at most. *)
Elsewhere(L, M, k) == \A l : l.key /= k => (l \in L <=> l \in M)

(* Two sets that differ at one key say the same of all others. *)
LEMMA HeldChange ==
  ASSUME NEW L, NEW M, NEW k \in Keys, Elsewhere(L, M, k), NEW v, HeldOf(M)[k] = v
  PROVE  HeldOf(M) = [HeldOf(L) EXCEPT ![k] = v]
<1>1. \A j \in Keys : j /= k => HeldOf(M)[j] = HeldOf(L)[j]
  <2> SUFFICES ASSUME NEW j \in Keys, j /= k PROVE HeldOf(M)[j] = HeldOf(L)[j]
    OBVIOUS
  <2>1. {l \in L : l.key = j} = {l \in M : l.key = j}
    BY DEF Elsewhere
  <2> DEFINE Says(S) == IF S = {} THEN NoValue ELSE (CHOOSE l \in S : TRUE).val
  <2>2. /\ HeldOf(M)[j] = Says({l \in M : l.key = j})
        /\ HeldOf(L)[j] = Says({l \in L : l.key = j})
    BY DEF HeldOf
  <2>3. Says({l \in M : l.key = j}) = Says({l \in L : l.key = j})
    <3>1. \A S, T : S = T => Says(S) = Says(T)
      <4> SUFFICES ASSUME NEW S, NEW T, S = T PROVE Says(S) = Says(T)
        OBVIOUS
      <4> QED OBVIOUS
    <3> HIDE DEF Says
    <3> QED BY <2>1, <3>1
  <2> QED BY <2>2, <2>3
<1>2. /\ HeldOf(M) = [j \in Keys |-> HeldOf(M)[j]]
      /\ HeldOf(L) = [j \in Keys |-> HeldOf(L)[j]]
  BY DEF HeldOf
<1>3. DOMAIN HeldOf(L) = Keys
  BY DEF HeldOf
<1> DEFINE G == HeldOf(M)
           H == HeldOf(L)
<1>4. /\ \A j \in Keys : j /= k => G[j] = H[j]
      /\ G[k] = v /\ G = [j \in Keys |-> G[j]] /\ H = [j \in Keys |-> H[j]]
  BY <1>1, <1>2
<1> HIDE DEF G, H
<1>5. G = [H EXCEPT ![k] = v]
  BY <1>4
<1> QED BY <1>5 DEF G, H

(* What the refinement maps the tree to is what its leaves say. *)
LEMMA HeldIs == Held = HeldOf(Leaves)
BY DEF Held, HeldOf

(* The leaves of a tree are of keys and values. *)
LEMMA LeavesApart ==
  ASSUME Laid, NEW E, NEW B, Shape(E, B)
  PROVE  /\ Apart(Leaves)
         /\ \A l \in Leaves : l \in LeafNode
<1>1. \A l \in LeafRefs : nodes[l] \in LeafNode
  BY KindOf DEF LeafRefs
<1>2. ASSUME NEW x \in Leaves, NEW y \in Leaves, x.key = y.key PROVE x = y
  <2>1. PICK l \in LeafRefs : x = nodes[l]
    BY DEF Leaves
  <2>2. PICK m \in LeafRefs : y = nodes[m]
    BY DEF Leaves
  <2> QED BY <1>2, <2>1, <2>2, OneLeaf
<1> QED BY <1>1, <1>2 DEF Apart, Leaves

(* What the map of the leaves is after a call. *)
Answers(k) == ret' = Held[k] /\ ret' \in Values \cup {NoValue}

(* n is the number of elements of S. *)
Counted(S, n) == IsFiniteSet(S) /\ n = Cardinality(S)

(* An insert of a key the tree has, as the map sees it. *)
LEMMA UpdatedHeld ==
  ASSUME Laid, NEW E, NEW B, Shape(E, B), Counted(Leaves, size),
         NEW k \in Keys, NEW v \in Values, NEW replace \in BOOLEAN, Updated(k, v, replace)
  PROVE  /\ Held[k] \in Values /\ Answers(k)
         /\ Held' = IF replace THEN [Held EXCEPT ![k] = v] ELSE Held
         /\ Counted(Leaves', size')
<1>1. Apart(Leaves) /\ \A x \in Leaves : x \in LeafNode
  BY LeavesApart
<1>2. PICK l \in LeafRefs :
        /\ nodes[l].key = k
        /\ ret' = nodes[l].val
        /\ size' = size
        /\ Leaves' = IF replace THEN (Leaves \ {nodes[l]}) \cup {[nodes[l] EXCEPT !.val = v]}
                     ELSE Leaves
  BY DEF Updated
<1> DEFINE x == nodes[l]
           y == [x EXCEPT !.val = v]
<1>3. x \in Leaves
  BY DEF Leaves
<1>4. x \in LeafNode /\ x.key = k
  BY <1>1, <1>2, <1>3
<1>5. y.key = k /\ y.val = v
  BY <1>4 DEF LeafNode
<1> HIDE DEF x, y
<1>6. Held[k] = x.val
  BY <1>1, <1>3, <1>4, HeldEach, HeldIs
<1>7. x.val \in Values
  BY <1>4 DEF LeafNode
<1>8. Held' = HeldOf(Leaves')
  BY DEF Held, HeldOf
<1>9. Answers(k)
  BY <1>2, <1>6, <1>7 DEF Answers, x
<1>10. CASE replace
  <2>1. Leaves' = (Leaves \ {x}) \cup {y} /\ size' = size
    BY <1>2, <1>10 DEF x, y
  <2>2. Elsewhere(Leaves, Leaves', k)
    BY <2>1, <1>4, <1>5 DEF Elsewhere
  <2>3. Apart(Leaves')
    BY <2>1, <1>1, <1>3, <1>4, <1>5 DEF Apart
  <2>4. y \in Leaves'
    BY <2>1
  <2>5. HeldOf(Leaves')[k] = v
    BY <2>3, <2>4, <1>5, HeldEach
  <2>6. Held' = [Held EXCEPT ![k] = v]
    BY <2>2, <2>5, <1>8, HeldIs, HeldChange
  <2>7. y \notin Leaves \ {x}
    BY <1>1, <1>3, <1>4, <1>5 DEF Apart
  <2>8. /\ IsFiniteSet(Leaves \ {x}) /\ Cardinality(Leaves \ {x}) = Cardinality(Leaves) - 1
        /\ Cardinality(Leaves) \in Nat
    BY <1>3, FS_RemoveElement, FS_CardinalityType DEF Counted
  <2>9. /\ IsFiniteSet((Leaves \ {x}) \cup {y})
        /\ Cardinality((Leaves \ {x}) \cup {y}) = Cardinality(Leaves \ {x}) + 1
    BY <2>7, <2>8, FS_AddElement
  <2>10. Counted(Leaves', size')
    BY <2>1, <2>8, <2>9 DEF Counted
  <2> QED BY <1>6, <1>7, <1>9, <1>10, <2>6, <2>10
<1>11. CASE ~replace
  <2>1. Leaves' = Leaves /\ size' = size
    BY <1>2, <1>11
  <2> QED BY <2>1, <1>6, <1>7, <1>8, <1>9, <1>11, HeldIs
<1> QED BY <1>10, <1>11

(* A key no leaf has, as the map sees it. *)
LEMMA LackingHeld ==
  ASSUME Laid, NEW E, NEW B, Shape(E, B), NEW k \in Keys,
         \A l \in LeafRefs : nodes[l].key /= k
  PROVE  Lacking(Leaves, k) /\ Held[k] = NoValue
<1>1. Apart(Leaves)
  BY LeavesApart
<1>2. Lacking(Leaves, k)
  BY DEF Lacking, Leaves
<1> QED BY <1>1, <1>2, HeldEach, HeldIs

(* An insert of a key the tree has not, as the map sees it. *)
LEMMA AddedHeld ==
  ASSUME Laid, NEW E, NEW B, Shape(E, B), Counted(Leaves, size),
         NEW k \in Keys, NEW v \in Values, Added(k, v)
  PROVE  /\ Held[k] = NoValue /\ Answers(k)
         /\ Held' = [Held EXCEPT ![k] = v]
         /\ Counted(Leaves', size')
<1> DEFINE y == [type |-> "LEAF", key |-> k, val |-> v]
<1>1. Apart(Leaves)
  BY LeavesApart
<1>2. /\ ret' = NoValue /\ size' = size + 1 /\ Leaves' = Leaves \cup {y}
      /\ Lacking(Leaves, k) /\ Held[k] = NoValue
  BY LackingHeld DEF Added
<1>3. y.key = k /\ y.val = v
  OBVIOUS
<1> HIDE DEF y
<1>4. Held' = HeldOf(Leaves')
  BY DEF Held, HeldOf
<1>5. Elsewhere(Leaves, Leaves', k)
  BY <1>2, <1>3 DEF Elsewhere
<1>6. Apart(Leaves')
  BY <1>1, <1>2, <1>3 DEF Apart, Lacking
<1>7. HeldOf(Leaves')[k] = v
  BY <1>2, <1>3, <1>6, HeldEach
<1>8. Held' = [Held EXCEPT ![k] = v]
  BY <1>4, <1>5, <1>7, HeldIs, HeldChange
<1>9. y \notin Leaves
  BY <1>2, <1>3 DEF Lacking
<1>10. /\ IsFiniteSet(Leaves \cup {y})
       /\ Cardinality(Leaves \cup {y}) = Cardinality(Leaves) + 1
  BY <1>9, FS_AddElement DEF Counted
<1> QED BY <1>2, <1>8, <1>10 DEF Answers, Counted

(* A delete, as the map sees it. *)
LEMMA RemovedHeld ==
  ASSUME Laid, NEW E, NEW B, Shape(E, B), Counted(Leaves, size),
         NEW k \in Keys, Removed(k) \/ Missed(k)
  PROVE  /\ Answers(k)
         /\ Held' = [Held EXCEPT ![k] = NoValue]
         /\ Counted(Leaves', size')
<1>1. Apart(Leaves) /\ \A x \in Leaves : x \in LeafNode
  BY LeavesApart
<1>2. Held' = HeldOf(Leaves')
  BY DEF Held, HeldOf
<1>3. CASE Removed(k)
  <2>1. PICK l \in LeafRefs :
          /\ nodes[l].key = k
          /\ ret' = nodes[l].val
          /\ size' = size - 1
          /\ Leaves' = Leaves \ {nodes[l]}
    BY <1>3 DEF Removed
  <2> DEFINE x == nodes[l]
  <2>2. x \in Leaves /\ x \in LeafNode /\ x.key = k
    BY <1>1, <2>1 DEF Leaves
  <2>3. x.val \in Values
    BY <2>2 DEF LeafNode
  <2>4. Leaves' = Leaves \ {x} /\ ret' = x.val /\ size' = size - 1
    BY <2>1
  <2> HIDE DEF x
  <2>5. Held[k] = x.val
    BY <1>1, <2>2, HeldEach, HeldIs
  <2>6. Elsewhere(Leaves, Leaves', k)
    BY <2>2, <2>4 DEF Elsewhere
  <2>7. Apart(Leaves') /\ Lacking(Leaves', k)
    BY <1>1, <2>2, <2>4 DEF Apart, Lacking
  <2>8. HeldOf(Leaves')[k] = NoValue
    BY <2>7, HeldEach
  <2>9. Held' = [Held EXCEPT ![k] = NoValue]
    BY <1>2, <2>6, <2>8, HeldIs, HeldChange
  <2>10. /\ IsFiniteSet(Leaves \ {x})
         /\ Cardinality(Leaves \ {x}) = Cardinality(Leaves) - 1
    BY <2>2, FS_RemoveElement DEF Counted
  <2> QED BY <2>3, <2>4, <2>5, <2>9, <2>10 DEF Answers, Counted
<1>4. CASE Missed(k)
  <2>1. /\ ret' = NoValue /\ size' = size /\ Leaves' = Leaves
        /\ Lacking(Leaves, k) /\ Held[k] = NoValue
    BY <1>4, LackingHeld DEF Missed
  <2>2. Elsewhere(Leaves, Leaves', k)
    BY <2>1 DEF Elsewhere
  <2>3. Held' = [Held EXCEPT ![k] = NoValue]
    BY <1>2, <2>1, <2>2, HeldIs, HeldChange
  <2> QED BY <2>1, <2>3 DEF Answers, Counted
<1> QED BY <1>3, <1>4

(* A search answers what the map has. *)
LEMMA SearchHeld ==
  ASSUME Laid, NEW E, NEW B, Shape(E, B), NEW k \in Keys, NEW key, Holds(key, k)
  PROVE  art_search(key, Len(k)) = Held[k] /\ Held[k] \in Values \cup {NoValue}
<1>1. Apart(Leaves) /\ \A x \in Leaves : x \in LeafNode
  BY LeavesApart
<1>2. ASSUME NEW l \in LeafRefs, nodes[l].key = k
      PROVE  art_search(key, Len(k)) = Held[k] /\ Held[k] \in Values
  <2>1. art_search(key, Len(k)) = nodes[l].val
    BY <1>2, SearchFinds
  <2>2. nodes[l] \in Leaves
    BY DEF Leaves
  <2>3. Held[k] = nodes[l].val
    BY <1>1, <1>2, <2>2, HeldEach, HeldIs
  <2>4. nodes[l].val \in Values
    BY <1>1, <2>2 DEF LeafNode
  <2> QED BY <2>1, <2>3, <2>4
<1>3. CASE \A l \in LeafRefs : nodes[l].key /= k
  BY <1>3, SearchMisses, LackingHeld
<1> QED BY <1>2, <1>3

(* The hypothesis of the theorems: the byte behind a key is the 0 that *)
(* ends a C string (schema.c:169 hands over a name and its strlen).    *)
(* Nothing in art.h asks for it, and without it the theorems fail:     *)
(* ImplementsMap does where Rests has other bytes first.               *)
ZeroAfterKey == \A rest \in Rests : rest[1] = 0

(* The tree has a shape. *)
InShape == \E E, B : Shape(E, B)

(* The inductive invariant. *)
ArtInv == TypeOK /\ Counted(Leaves, size) /\ InShape

(* The empty tree has the invariant, and maps to the empty map. *)
LEMMA ArtInvInit == Init => ArtInv /\ Map!Init
<1> SUFFICES ASSUME Init PROVE ArtInv /\ Map!Init
  OBVIOUS
<1>1. /\ nodes = [r \in Refs |-> NoNode] /\ size = 0 /\ call = <<>> /\ ret = NoValue
      /\ \A r \in Refs : nodes[r] = NoNode
  BY DEF Init
<1>2. Used = {} /\ InnerRefs = {} /\ LeafRefs = {}
  BY <1>1 DEF Used, InnerRefs, LeafRefs, IS_LEAF, IsInner, NoNode, Types
<1>3. Leaves = {}
  BY <1>2 DEF Leaves
<1>4. Counted(Leaves, size)
  BY <1>1, <1>3, FS_EmptySet DEF Counted
<1>5. TypeOK
  BY <1>1 DEF TypeOK
<1>6. Shape(0, 0)
  BY <1>2 DEF Shape, Trie
<1>7. Held = [k \in Keys |-> NoValue]
  BY <1>3 DEF Held
<1> QED
  BY <1>1, <1>4, <1>5, <1>6, <1>7 DEF ArtInv, InShape, Map!Init

(* What every call keeps. *)
Kept(k) == Laid' /\ InShape' /\ Counted(Leaves', size') /\ ret' \in Values \cup {NoValue}

(* What call may be. *)
Calls == {<<>>} \cup ({"delete", "search"} \X Keys)
                \cup ({"insert", "insert_no_replace"} \X Keys \X Values)

(* What every call keeps is the invariant. *)
LEMMA InvAfter ==
  ASSUME NEW k, Kept(k), call' \in Calls
  PROVE  ArtInv'
<1>1. size' \in Nat
  BY FS_CardinalityType DEF Kept, Counted
<1>2. TypeOK'
  BY <1>1 DEF Kept, Laid, TypeOK, Calls
<1>3. Counted(Leaves, size)'
  BY DEF Kept, Counted
<1> QED
  BY <1>2, <1>3 DEF ArtInv, Kept

(* An insert keeps it and is an insert of the map. *)
LEMMA InsertStep ==
  ASSUME ArtInv, NEW k \in Keys, NEW key, Holds(key, k), NEW v \in Values,
         NEW replace \in BOOLEAN, recursive_insert(key, Len(k), v, replace)
  PROVE  /\ Kept(k) /\ ret' = Held[k]
         /\ Held' = IF replace \/ Held[k] = NoValue THEN [Held EXCEPT ![k] = v] ELSE Held
<1>1. Laid /\ Counted(Leaves, size)
  BY DEF ArtInv, TypeOK, Laid
<1>2. PICK E, B : Shape(E, B)
  BY DEF ArtInv, InShape
<1>3. Laid' /\ (\E E2, B2 : Shape(E2, B2)') /\ (Updated(k, v, replace) \/ Added(k, v))
  BY <1>1, <1>2, InsertingKey
<1>4. InShape'
  BY <1>3 DEF InShape
<1>5. CASE Updated(k, v, replace)
  <2>1. /\ Held[k] \in Values /\ Answers(k)
        /\ Held' = IF replace THEN [Held EXCEPT ![k] = v] ELSE Held
        /\ Counted(Leaves', size')
    BY <1>1, <1>2, <1>5, UpdatedHeld
  <2>2. Held[k] /= NoValue
    BY <2>1, KeysAssumption
  <2> QED BY <2>1, <2>2, <1>3, <1>4 DEF Kept, Answers
<1>6. CASE Added(k, v)
  <2>1. /\ Held[k] = NoValue /\ Answers(k)
        /\ Held' = [Held EXCEPT ![k] = v]
        /\ Counted(Leaves', size')
    BY <1>1, <1>2, <1>6, AddedHeld
  <2> QED BY <2>1, <1>3, <1>4 DEF Kept, Answers
<1> QED BY <1>3, <1>5, <1>6

(* A delete keeps it and is a delete of the map. *)
LEMMA DeleteStep ==
  ASSUME ArtInv, NEW k \in Keys, NEW key, Holds(key, k), recursive_delete(key, Len(k))
  PROVE  Kept(k) /\ ret' = Held[k] /\ Held' = [Held EXCEPT ![k] = NoValue]
<1>1. Laid /\ Counted(Leaves, size)
  BY DEF ArtInv, TypeOK, Laid
<1>2. PICK E, B : Shape(E, B)
  BY DEF ArtInv, InShape
<1>3. Laid' /\ (\E E2, B2 : Shape(E2, B2)') /\ (Removed(k) \/ Missed(k))
  BY <1>1, <1>2, DeletingKey
<1>4. InShape'
  BY <1>3 DEF InShape
<1>5. Answers(k) /\ Held' = [Held EXCEPT ![k] = NoValue] /\ Counted(Leaves', size')
  BY <1>1, <1>2, <1>3, RemovedHeld
<1> QED BY <1>3, <1>4, <1>5 DEF Kept, Answers

(* What changes neither the nodes nor the size keeps it. *)
LEMMA Unmoved ==
  ASSUME ArtInv, nodes' = nodes, size' = size
  PROVE  Laid' /\ InShape' /\ Counted(Leaves', size') /\ Held' = Held
<1>1. Laid /\ Counted(Leaves, size)
  BY DEF ArtInv, TypeOK, Laid
<1>2. PICK E, B : Shape(E, B)
  BY DEF ArtInv, InShape
<1>3. Laid' /\ (\E E2, B2 : Shape(E2, B2)') /\ Leaves' = Leaves
  BY <1>1, <1>2, Staying
<1> QED BY <1>1, <1>3 DEF InShape, Held

(* Every step keeps the invariant and is a step of the map, or none. *)
LEMMA ArtInvNext ==
  ASSUME ZeroAfterKey, ArtInv, [Next]_vars
  PROVE  ArtInv' /\ [Map!Next]_<<Held, call, ret>>
<1>1. Laid
  BY DEF ArtInv, TypeOK, Laid
<1>2. CASE UNCHANGED vars
  <2>1. nodes' = nodes /\ size' = size /\ call' = call /\ ret' = ret
    BY <1>2 DEF vars
  <2>2. Laid' /\ InShape' /\ Counted(Leaves', size') /\ Held' = Held
    BY <2>1, Unmoved
  <2>3. ret' \in Values \cup {NoValue} /\ call' \in Calls
    BY <2>1 DEF ArtInv, TypeOK, Calls
  <2>4. Kept(0)
    BY <2>2, <2>3 DEF Kept
  <2> QED BY <2>1, <2>2, <2>3, <2>4, InvAfter
<1>3. ASSUME NEW k \in Keys, NEW rest \in Rests,
             \/ \E v \in Values : art_insert(k, v, rest)
             \/ \E v \in Values : art_insert_no_replace(k, v, rest)
             \/ art_delete(k, rest)
             \/ Search(k, rest)
      PROVE  ArtInv' /\ Map!Next
  <2>1. Holds(k \o rest, k)
    BY Buffered DEF ZeroAfterKey
  <2>2. PICK key : key = k \o rest
    OBVIOUS
  <2>3. Holds(key, k)
    BY <2>1, <2>2
  <2>4. ASSUME NEW v \in Values, art_insert(k, v, rest) PROVE ArtInv' /\ Map!Next
    <3>1. call' = <<"insert", k, v>> /\ recursive_insert(key, Len(k), v, TRUE)
      BY <2>2, <2>4 DEF art_insert
    <3>2. Kept(k) /\ ret' = Held[k] /\ Held' = [Held EXCEPT ![k] = v]
      BY <3>1, <2>3, InsertStep
    <3>3. Map!Insert(k, v)
      BY <3>1, <3>2 DEF Map!Insert
    <3>4. call' \in Calls
      BY <3>1 DEF Calls
    <3> QED BY <3>2, <3>3, <3>4, InvAfter DEF Map!Next
  <2>5. ASSUME NEW v \in Values, art_insert_no_replace(k, v, rest) PROVE ArtInv' /\ Map!Next
    <3>1. call' = <<"insert_no_replace", k, v>> /\ recursive_insert(key, Len(k), v, FALSE)
      BY <2>2, <2>5 DEF art_insert_no_replace
    <3>2. /\ Kept(k) /\ ret' = Held[k]
          /\ Held' = IF Held[k] = NoValue THEN [Held EXCEPT ![k] = v] ELSE Held
      BY <3>1, <2>3, InsertStep
    <3>3. Map!InsertNoReplace(k, v)
      BY <3>1, <3>2 DEF Map!InsertNoReplace
    <3>4. call' \in Calls
      BY <3>1 DEF Calls
    <3> QED BY <3>2, <3>3, <3>4, InvAfter DEF Map!Next
  <2>6. CASE art_delete(k, rest)
    <3>1. call' = <<"delete", k>> /\ recursive_delete(key, Len(k))
      BY <2>2, <2>6 DEF art_delete
    <3>2. Kept(k) /\ ret' = Held[k] /\ Held' = [Held EXCEPT ![k] = NoValue]
      BY <3>1, <2>3, DeleteStep
    <3>3. Map!Delete(k)
      BY <3>1, <3>2 DEF Map!Delete
    <3>4. call' \in Calls
      BY <3>1 DEF Calls
    <3> QED BY <3>2, <3>3, <3>4, InvAfter DEF Map!Next
  <2>7. CASE Search(k, rest)
    <3>1. /\ call' = <<"search", k>> /\ ret' = art_search(key, Len(k))
          /\ nodes' = nodes /\ size' = size
      BY <2>2, <2>7 DEF Search
    <3>2. Laid' /\ InShape' /\ Counted(Leaves', size') /\ Held' = Held
      BY <3>1, Unmoved
    <3>3. ret' = Held[k] /\ ret' \in Values \cup {NoValue}
      <4>1. PICK E, B : Shape(E, B)
        BY DEF ArtInv, InShape
      <4> QED BY <3>1, <4>1, <1>1, <2>3, SearchHeld
    <3>4. Kept(k)
      BY <3>2, <3>3 DEF Kept
    <3>5. Map!Search(k)
      BY <3>1, <3>2, <3>3 DEF Map!Search
    <3>6. call' \in Calls
      BY <3>1 DEF Calls
    <3> QED BY <3>4, <3>5, <3>6, InvAfter DEF Map!Next
  <2> QED BY <1>3, <2>4, <2>5, <2>6, <2>7
<1>4. CASE Next
  BY <1>3, <1>4 DEF Next
<1> QED BY <1>2, <1>4

(* The invariant holds always. *)
LEMMA ArtInvAlways == ZeroAfterKey => (Spec => []ArtInv)
<1> SUFFICES ASSUME ZeroAfterKey PROVE Spec => []ArtInv
  OBVIOUS
<1>1. Init => ArtInv
  BY ArtInvInit
<1>2. ArtInv /\ [Next]_vars => ArtInv'
  BY ArtInvNext
<1> QED BY <1>1, <1>2, PTL DEF Spec

(* Every state is of its type: every inner node has as many children as *)
(* its type may (art.c:383-523 grows it, 666-773 shrinks it), one per   *)
(* byte.                                                                *)
THEOREM ArtTypeCorrect == ZeroAfterKey => (Spec => []TypeOK)
<1>1. ArtInv => TypeOK
  BY DEF ArtInv
<1> QED BY <1>1, ArtInvAlways, PTL

(* t->size is the number of leaves (art.c:646, 664 and 829 count). *)
THEOREM SizeRightAlways == ZeroAfterKey => (Spec => []SizeRight)
<1>1. ASSUME ArtInv PROVE SizeRight
  <2>1. Laid /\ size = Cardinality(Leaves)
    BY <1>1 DEF ArtInv, TypeOK, Laid, Counted
  <2>2. PICK E, B : Shape(E, B)
    BY <1>1 DEF ArtInv, InShape
  <2>3. \A q, r \in LeafRefs : nodes[q].key = nodes[r].key => q = r
    BY <2>1, <2>2, OneLeaf
  <2> QED BY <2>1, <2>3 DEF SizeRight
<1> QED BY <1>1, ArtInvAlways, PTL

(* The tree is a map: each call answers and changes what the same call of *)
(* a map from keys to values does, whatever nodes grow, split, collapse   *)
(* or shrink.                                                             *)
THEOREM ArtImplementsMap == ZeroAfterKey => (Spec => ImplementsMap)
<1> SUFFICES ASSUME ZeroAfterKey PROVE Spec => ImplementsMap
  OBVIOUS
<1>1. Init => ArtInv /\ Map!Init
  BY ArtInvInit
<1>2. ArtInv /\ [Next]_vars => ArtInv' /\ [Map!Next]_<<Held, call, ret>>
  BY ArtInvNext
<1> QED BY <1>1, <1>2, PTL DEF Spec, ImplementsMap, Map!Spec

(* Every place of a trie but the root is that of an entry. *)
LEMMA HasParent ==
  ASSUME NEW U, NEW I, NEW E, NEW B, NEW K, Trie(U, I, E, B, K),
         NEW x \in U, x /= Root
  PROVE  \E s \in I : \E e \in K[s] : e.ref = x
<1>1. /\ I \subseteq U /\ Root \in U
      /\ \A y \in U : E[y] \in Nat
      /\ Covers(Root, x, I, E, B)
  BY DEF Trie
<1>2. Root \in I /\ Above(Root, x, I, E, B)
  BY <1>1 DEF Covers, Above
<1> DEFINE S == {i \in Nat : \E s \in I : Above(s, x, I, E, B) /\ i = E[x] - E[s]}
<1>3. E[x] - E[Root] \in S
  BY <1>1, <1>2 DEF Above
<1>4. PICK i \in S : \A j \in S : i <= j
  <2>1. S \in SUBSET Nat /\ S /= {}
    BY <1>3
  <2> HIDE DEF S
  <2> QED BY <2>1, LeastOf
<1>5. PICK s \in I : Above(s, x, I, E, B) /\ i = E[x] - E[s]
  BY <1>4
<1>6. PICK e \in K[s] : Covers(e.ref, x, I, E, B) /\ e.ref \in U /\ Above(s, e.ref, I, E, B)
  BY <1>5, Onward
<1>7. CASE Above(e.ref, x, I, E, B)
  <2>1. e.ref \in I /\ E[s] < E[e.ref] /\ E[e.ref] < E[x] /\ E[s] \in Nat /\ E[e.ref] \in Nat
        /\ E[x] \in Nat
    BY <1>1, <1>5, <1>6, <1>7 DEF Above
  <2>2. E[x] - E[e.ref] \in S
    BY <2>1, <1>7
  <2> QED BY <2>1, <2>2, <1>4, <1>5
<1> QED BY <1>6, <1>7 DEF Covers

(* The owners of a place are its entries. *)
LEMMA OwnersAre ==
  ASSUME Laid, NEW E, NEW B, Shape(E, B), NEW r
  PROVE  /\ \A o \in Owners(r) :
              /\ o[1] \in InnerRefs
              /\ nodes[o[1]].children[o[2]] \in Kids[o[1]]
              /\ nodes[o[1]].children[o[2]].ref = r
              /\ o = <<o[1], o[2]>>
              /\ o[2] \in 1 .. Len(nodes[o[1]].children)
         /\ \A s \in InnerRefs : \A i \in 1 .. Len(nodes[s].children) :
              nodes[s].children[i].ref = r => <<s, i>> \in Owners(r)
<1>1. ASSUME NEW s \in InnerRefs
      PROVE  /\ Kids[s] = ToSet(nodes[s].children) /\ nodes[s].children \in Seq(Entries)
             /\ nodes[s] \in InnerNode /\ Distinct(nodes[s]) /\ s \in Refs
             /\ Len(nodes[s].children) \in Nat
  BY Typing, KindOf, LenProperties DEF InnerRefs, InnerNode, Entries, WellLaid, Distinct
<1>2. ASSUME NEW o \in Owners(r)
      PROVE  /\ o[1] \in InnerRefs
             /\ nodes[o[1]].children[o[2]].ref = r
             /\ o = <<o[1], o[2]>>
             /\ o[2] \in 1 .. Len(nodes[o[1]].children)
  <2>1. /\ o \in Refs \X (1 .. NBytes) /\ IsInner(nodes[o[1]])
        /\ o[2] <= Len(nodes[o[1]].children) /\ nodes[o[1]].children[o[2]].ref = r
    BY DEF Owners
  <2>2. o[1] \in InnerRefs /\ o[2] \in Nat /\ 1 <= o[2] /\ o = <<o[1], o[2]>>
    BY <2>1, NodeAssumption DEF InnerRefs
  <2>3. Len(nodes[o[1]].children) \in Nat
    BY <2>2, <1>1
  <2> QED BY <2>1, <2>2, <2>3
<1>3. ASSUME NEW s \in InnerRefs, NEW i \in 1 .. Len(nodes[s].children)
      PROVE  /\ nodes[s].children[i] \in Kids[s]
             /\ i \in 1 .. NBytes
  <2>1. nodes[s].children[i] \in Kids[s]
    BY <1>1, Among
  <2>2. Len(nodes[s].children) <= NBytes
    BY <1>1, AtMostBytes
  <2> QED BY <2>1, <2>2, <1>1, NodeAssumption
<1>4. ASSUME NEW s \in InnerRefs, NEW i \in 1 .. Len(nodes[s].children),
             nodes[s].children[i].ref = r
      PROVE  <<s, i>> \in Owners(r)
  <2>1. i \in 1 .. NBytes /\ s \in Refs /\ i <= Len(nodes[s].children) /\ IsInner(nodes[s])
    BY <1>1, <1>3 DEF InnerRefs
  <2> QED BY <1>4, <2>1 DEF Owners
<1>5. \A o \in Owners(r) : nodes[o[1]].children[o[2]] \in Kids[o[1]]
  BY <1>2, <1>3
<1> QED BY <1>2, <1>4, <1>5

(* Every place in use but the root is the child of exactly one entry, so *)
(* no node is lost, shared or below itself, and freeing the tree frees   *)
(* each node once.                                                       *)
THEOREM OneOwnerAlways == ZeroAfterKey => (Spec => []OneOwner)
<1>1. ASSUME ArtInv PROVE OneOwner
  <2>1. Laid
    BY <1>1 DEF ArtInv, TypeOK, Laid
  <2>2. PICK E, B : Shape(E, B)
    BY <1>1 DEF ArtInv, InShape
  <2>3. Trie(Used, InnerRefs, E, B, Kids)
    BY <2>1, <2>2, Typing
  <2>4. ASSUME NEW r \in Refs, NEW o \in Owners(r) PROVE r \in Used /\ r /= Root
    <3>1. /\ o[1] \in InnerRefs /\ nodes[o[1]].children[o[2]] \in Kids[o[1]]
          /\ nodes[o[1]].children[o[2]].ref = r
      BY <2>1, <2>2, OwnersAre
    <3>2. nodes[o[1]].children[o[2]] \in ToSet(nodes[o[1]].children)
      BY <3>1, <2>1, <2>2, Typing
    <3> QED BY <3>1, <3>2, <2>1, <2>2, ChildOf
  <2>5. ASSUME NEW r \in Refs, r /= Root, nodes[r] /= NoNode
        PROVE  \E o \in Owners(r) : Owners(r) = {o}
    <3>1. r \in Used
      BY <2>5 DEF Used
    <3>2. PICK s \in InnerRefs : \E e \in Kids[s] : e.ref = r
      BY <3>1, <2>3, <2>5, HasParent
    <3>3. PICK e \in Kids[s] : e.ref = r
      BY <3>2
    <3>4. Kids[s] = ToSet(nodes[s].children) /\ nodes[s].children \in Seq(Entries)
          /\ WellLaid(nodes[s])
      BY <2>1, <2>2, Typing, KindOf DEF InnerRefs, InnerNode, Entries
    <3>5. PICK i \in 1 .. Len(nodes[s].children) : nodes[s].children[i] = e
      BY <3>3, <3>4, Among
    <3>6. <<s, i>> \in Owners(r)
      BY <3>3, <3>5, <2>1, <2>2, OwnersAre
    <3>7. ASSUME NEW o \in Owners(r) PROVE o = <<s, i>>
      <4>1. /\ o[1] \in InnerRefs /\ nodes[o[1]].children[o[2]] \in Kids[o[1]]
            /\ nodes[o[1]].children[o[2]].ref = r /\ o = <<o[1], o[2]>>
            /\ o[2] \in 1 .. Len(nodes[o[1]].children)
        BY <2>1, <2>2, OwnersAre
      <4>2. o[1] = s /\ nodes[o[1]].children[o[2]] = e
        BY <4>1, <3>3, <2>3, OneParent
      <4>3. o[2] = i
        BY <4>1, <4>2, <3>4, <3>5 DEF WellLaid
      <4> QED BY <4>1, <4>2, <4>3
    <3> QED BY <3>6, <3>7
  <2> QED BY <2>4, <2>5 DEF OneOwner, Used
<1> QED BY <1>1, ArtInvAlways, PTL

(* A buffer starts with the bytes that lead to a leaf. *)
Leads(key, l, E, B) == \A i \in 1 .. E[l] : key[i] = B[l][i]

(* The leaf l is at the place p, or below it. *)
On(p, l, E, B) == Placed(p, E) /\ Covers(p.ref, l, InnerRefs, E, B)

(* The descent goes on towards the leaf. *)
LEMMA FollowLeaf ==
  ASSUME Laid, NEW E, NEW B, Shape(E, B), NEW p, NEW l \in LeafRefs, On(p, l, E, B),
         p.ref \in InnerRefs, NEW key, Leads(key, l, E, B)
  PROVE  /\ Chosen(p, key) /= 0 /\ On(Below(p, key), l, E, B)
         /\ Below(p, key).depth = E[p.ref] + 1
         /\ Turn(p) = E[p.ref] /\ E[p.ref] < E[l]
         /\ p.depth \in Nat /\ p.depth <= E[p.ref] /\ E[p.ref] \in Nat
         /\ \A i \in 1 .. E[p.ref] : B[p.ref][i] = B[l][i]
<1> DEFINE r == p.ref
<1>0. Placed(p, E) /\ Covers(r, l, InnerRefs, E, B)
  BY DEF On
<1>1. /\ Above(r, l, InnerRefs, E, B) /\ l \in Used /\ E[r] \in Nat /\ E[l] \in Nat
      /\ r /= l
  BY <1>0, Typing DEF Covers, Placed
<1>2. E[r] < E[l] /\ \A i \in 1 .. E[r] : B[r][i] = B[l][i]
  BY <1>1 DEF Above
<1>3. PICK e \in Kids[r] : /\ Covers(e.ref, l, InnerRefs, E, B)
                           /\ e.byte = B[l][E[r] + 1]
  BY <1>1, Typing, Onward
<1>4. e.byte = key[E[r] + 1]
  <2>1. E[r] + 1 \in 1 .. E[l]
    BY <1>1, <1>2
  <2> QED BY <2>1, <1>3 DEF Leads
<1>5. Chosen(p, key) /= 0
  BY <1>0, <1>3, <1>4, NotChosen
<1>6. /\ Placed(Below(p, key), E)
      /\ Below(p, key).depth = E[r] + 1
      /\ B[Below(p, key).ref][E[r] + 1] = key[E[r] + 1]
      /\ nodes[r].children[Chosen(p, key)] \in Kids[r]
  BY <1>0, <1>5, GoingBelow
<1>7. Below(p, key).ref = e.ref
  <2> DEFINE f == nodes[r].children[Chosen(p, key)]
  <2>1. Below(p, key).ref = f.ref
    BY DEF Below
  <2>2. Trie(Used, InnerRefs, E, B, Kids)
    BY Typing
  <2>3. f.byte = B[f.ref][E[r] + 1]
    BY <1>6, <2>2 DEF Trie
  <2>4. f.byte = e.byte
    BY <2>1, <2>3, <1>4, <1>6
  <2>5. f = e
    BY <2>2, <2>4, <1>6, <1>3 DEF Trie
  <2> QED BY <2>1, <2>5
<1>8. Turn(p) = E[r] /\ p.depth \in Nat /\ p.depth <= E[r]
  BY <1>0, Turning, Depth, ZenonT(40)
<1> QED
  BY <1>1, <1>2, <1>3, <1>5, <1>6, <1>7, <1>8 DEF On

(* A leaf's own key and a 0 is such a buffer. *)
LEMMA OwnBuffer ==
  ASSUME Laid, NEW E, NEW B, Shape(E, B), NEW l \in LeafRefs
  PROVE  /\ Leads(Append(nodes[l].key, 0), l, E, B)
         /\ Len(Append(nodes[l].key, 0)) = E[l]
<1> DEFINE k == nodes[l].key
<1>1. k \in Keys
  BY LeafPath
<1>2. /\ E[l] = Len(k) + 1 /\ Len(k) \in Nat
      /\ \A i \in 1 .. Len(k) : B[l][i] = k[i]
      /\ B[l][Len(k) + 1] = 0
  BY LeafPath
<1>3. k \in Seq(Bytes) /\ 0 \in Bytes
  BY <1>1, KeyFacts, NodeAssumption DEF Bytes
<1> HIDE DEF k
<1>4. /\ Len(Append(k, 0)) = Len(k) + 1
      /\ \A i \in 1 .. Len(k) : Append(k, 0)[i] = k[i]
      /\ Append(k, 0)[Len(k) + 1] = 0
  BY <1>3, AppendProperties
<1>5. \A i \in 1 .. Len(k) + 1 : i \in 1 .. Len(k) \/ i = Len(k) + 1
  BY <1>2
<1>6. Leads(Append(k, 0), l, E, B)
  BY <1>2, <1>4, <1>5 DEF Leads
<1> QED BY <1>2, <1>4, <1>6 DEF k

(* The places such a descent passes are above the leaf, which is the *)
(* last.                                                             *)
LEMMA RouteOf ==
  ASSUME Laid, NEW E, NEW B, Shape(E, B), NEW l \in LeafRefs,
         NEW key, Leads(key, l, E, B), Len(key) = E[l]
  PROVE  /\ \A p \in Route(key) : On(p, l, E, B)
         /\ \E p \in Route(key) : p.ref = l
<1> DEFINE from == {p \in Places : /\ IsInner(nodes[p.ref])
                                   /\ Turn(p) < Len(key)
                                   /\ Chosen(p, key) /= 0}
           next == [p \in Places |-> IF p \in from THEN Below(p, key) ELSE p]
           N == MaxKeyLen + 1
           P == [i \in Nat |-> {p \in Places : On(p, l, E, B) /\ (p.ref = l \/ p.depth >= i)}]
<1>0. N \in Nat /\ l \in Used /\ l \notin InnerRefs /\ E[l] \in Nat /\ E[l] <= N
  BY Typing, KeysAssumption
<1>1. Route(key) = {Iterate(next, Start, i) : i \in 0 .. N}
  BY DEF Route
<1>2. next \in [Places -> Places]
  <2>1. \A p \in Places : p \in from => IsInner(nodes[p.ref]) /\ Chosen(p, key) /= 0
    OBVIOUS
  <2> HIDE DEF from
  <2> QED BY <2>1, NextPlace
<1>3. Start \in Places /\ Start \in P[0]
  <2>1. Root \in Used /\ Covers(Root, l, InnerRefs, E, B)
    BY <1>0, Typing DEF Trie
  <2>2. Placed(Start, E) /\ Start.ref = Root /\ Start.depth = 0
    BY <2>1, StartPlaced DEF Start
  <2> QED BY <2>1, <2>2 DEF On, Placed
<1>4. ASSUME NEW i \in Nat, NEW p \in Places, p \in P[i] PROVE next[p] \in P[i + 1]
  <2>1. On(p, l, E, B) /\ (p.ref = l \/ p.depth >= i)
    BY <1>4
  <2>2. CASE p.ref = l
    <3>1. ~IsInner(nodes[p.ref])
      BY <2>2, <1>0, Typing DEF InnerRefs
    <3>2. next[p] = p
      BY <3>1
    <3> QED BY <3>2, <2>1, <2>2
  <2>3. CASE p.ref /= l
    <3>1. p.ref \in InnerRefs
      BY <2>1, <2>3 DEF On, Covers, Above
    <3>2. /\ Chosen(p, key) /= 0 /\ On(Below(p, key), l, E, B)
          /\ Below(p, key).depth = E[p.ref] + 1
          /\ Turn(p) = E[p.ref] /\ E[p.ref] < E[l]
          /\ p.depth \in Nat /\ p.depth <= E[p.ref] /\ E[p.ref] \in Nat
      BY <2>1, <3>1, FollowLeaf
    <3>3. p \in from
      BY <3>1, <3>2 DEF InnerRefs
    <3>4. next[p] = Below(p, key)
      BY <3>3
    <3>5. Below(p, key) \in Places
      BY <3>2 DEF On, Placed
    <3>6. Below(p, key).depth >= i + 1
      BY <3>2, <2>1, <2>3
    <3> QED BY <3>2, <3>4, <3>5, <3>6
  <2> QED BY <2>2, <2>3
<1>5. \A i \in Nat : P[i] = {p \in Places : On(p, l, E, B) /\ (p.ref = l \/ p.depth >= i)}
  OBVIOUS
<1> HIDE DEF next, P, N
<1>6. \A i \in Nat : Iterate(next, Start, i) \in P[i]
  BY <1>2, <1>3, <1>4, Stepping
<1>7. \A i \in Nat : On(Iterate(next, Start, i), l, E, B)
  BY <1>5, <1>6
<1>8. Iterate(next, Start, N).ref = l
  <2> DEFINE p == Iterate(next, Start, N)
  <2>1. On(p, l, E, B) /\ (p.ref = l \/ p.depth >= N)
    BY <1>0, <1>5, <1>6
  <2> HIDE DEF p
  <2>2. CASE p.ref /= l
    <3>1. p.ref \in InnerRefs
      BY <2>1, <2>2 DEF On, Covers, Above
    <3>2. /\ E[p.ref] < E[l]
          /\ p.depth \in Nat /\ p.depth <= E[p.ref] /\ E[p.ref] \in Nat
      BY <2>1, <3>1, FollowLeaf
    <3> QED BY <3>2, <2>1, <2>2, <1>0
  <2> QED BY <2>2 DEF p
<1>9. \A i \in 0 .. N : i \in Nat
  BY <1>0
<1>10. N \in 0 .. N
  BY <1>0
<1> QED BY <1>1, <1>7, <1>8, <1>9, <1>10

(* Two parts of sequences are the same when their elements are. *)
LEMMA SameParts ==
  ASSUME NEW S, NEW m \in Nat, NEW n \in Nat, m <= n, NEW s, NEW t,
         \A i \in 1 .. n : s[i] = t[i] /\ s[i] \in S
  PROVE  SubSeq(s, m + 1, n) = SubSeq(t, m + 1, n)
<1> DEFINE u == SubSeq(s, m + 1, n)
           w == SubSeq(t, m + 1, n)
<1>1. \A i \in m + 1 .. n : i \in 1 .. n
  OBVIOUS
<1>2. /\ u \in Seq(S) /\ Len(u) = n - m
      /\ \A i \in 1 .. n - m : u[i] = s[m + i]
  <2>1. /\ u \in Seq(S) /\ Len(u) = IF m + 1 <= n THEN n - (m + 1) + 1 ELSE 0
        /\ \A i \in 1 .. n - (m + 1) + 1 : u[i] = s[(m + 1) + i - 1]
    BY <1>1, SubSeqProperties
  <2> QED BY <2>1
<1>3. /\ w \in Seq(S) /\ Len(w) = n - m
      /\ \A i \in 1 .. n - m : w[i] = t[m + i]
  <2>1. /\ w \in Seq(S) /\ Len(w) = IF m + 1 <= n THEN n - (m + 1) + 1 ELSE 0
        /\ \A i \in 1 .. n - (m + 1) + 1 : w[i] = t[(m + 1) + i - 1]
    BY <1>1, SubSeqProperties
  <2> QED BY <2>1
<1>4. \A i \in 1 .. n - m : m + i \in 1 .. n
  OBVIOUS
<1> HIDE DEF u, w
<1>5. u = w
  BY <1>2, <1>3, <1>4, SeqEqual
<1> QED BY <1>5 DEF u, w

(* The prefix a node stores is what fits of the bytes of a leaf below it.  *)
LEMMA OwnPrefix ==
  ASSUME Laid, NEW E, NEW B, Shape(E, B), NEW p, NEW l \in LeafRefs, On(p, l, E, B),
         p.ref \in InnerRefs
  PROVE  LET key == nodes[l].key
             path == SubSeq(key, p.depth + 1, Turn(p))
         IN  /\ Turn(p) <= Len(key)
             /\ nodes[p.ref].partial = First(path, MAX_PREFIX_LEN)
             /\ path = SubSeq(minimum(p.ref).key, p.depth + 1, Turn(p))
<1> DEFINE r == p.ref
           k == nodes[l].key
           d == p.depth
           path == SubSeq(k, d + 1, Turn(p))
<1>1. /\ Turn(p) = E[r] /\ E[r] < E[l] /\ E[r] \in Nat
      /\ d \in Nat /\ d <= E[r]
      /\ \A i \in 1 .. E[r] : B[r][i] = B[l][i]
  <2>1. Leads(B[l], l, E, B)
    BY DEF Leads
  <2> QED BY <2>1, FollowLeaf
<1>2. /\ E[l] = Len(k) + 1 /\ Len(k) \in Nat /\ k \in Keys
      /\ \A i \in 1 .. Len(k) : B[l][i] = k[i]
  BY LeafPath
<1>3. E[r] <= Len(k) /\ \A i \in 1 .. E[r] : B[r][i] = k[i]
  <2>1. E[r] <= Len(k)
    BY <1>1, <1>2
  <2>2. \A i \in 1 .. E[r] : i \in 1 .. Len(k)
    BY <2>1, <1>1, <1>2
  <2> QED BY <2>1, <2>2, <1>1, <1>2
<1>4. Stored(r, d, nodes[r], nodes[r].partial_len, E, B)
  BY StoredPrefix DEF On
<1>5. \A i \in 1 .. E[r] : k[i] \in Bytes
  BY <1>3, <1>4 DEF Stored
<1> HIDE DEF k
<1>6. /\ path \in Seq(Bytes) /\ Len(path) = E[r] - d
      /\ \A i \in 1 .. E[r] - d : path[i] = k[d + i]
  <2>1. \A i \in d + 1 .. E[r] : i \in 1 .. E[r]
    BY <1>1
  <2>2. /\ path \in Seq(Bytes) /\ Len(path) = IF d + 1 <= E[r] THEN E[r] - (d + 1) + 1 ELSE 0
        /\ \A i \in 1 .. E[r] - (d + 1) + 1 : path[i] = k[(d + 1) + i - 1]
    BY <2>1, <1>1, <1>5, SubSeqProperties
  <2> QED BY <2>2, <1>1
<1> HIDE DEF path
<1>7. nodes[r].partial = First(path, MAX_PREFIX_LEN)
  <2> DEFINE s == nodes[r].partial
             t == First(path, MAX_PREFIX_LEN)
             g == Least(MAX_PREFIX_LEN, E[r] - d)
  <2>0. g \in Nat /\ g <= E[r] - d
    BY <1>1, NodeAssumption DEF Least
  <2>1. E[r] - d = nodes[r].partial_len
    BY <1>4, <1>1 DEF Stored
  <2>2. s \in Seq(Bytes) /\ Len(s) = g /\ \A i \in 1 .. g : s[i] = B[r][d + i]
    BY <1>4, <2>1 DEF Stored
  <2>3. t \in Seq(Bytes) /\ Len(t) = g /\ \A i \in 1 .. g : t[i] = path[i]
    BY <1>6, NodeAssumption, FirstsEach, ZenonT(40)
  <2>4. \A i \in 1 .. g : i \in 1 .. E[r] - d /\ d + i \in 1 .. E[r]
    BY <1>1, <2>0
  <2> HIDE DEF s, t, g
  <2>5. \A i \in 1 .. g : s[i] = t[i]
    BY <2>2, <2>3, <2>4, <1>3, <1>6
  <2>6. s = t
    BY <2>2, <2>3, <2>5, SeqEqual
  <2> QED BY <2>6 DEF s, t
<1>8. path = SubSeq(minimum(r).key, d + 1, Turn(p))
  <2>1. PICK m \in LeafRefs : minimum(r) = nodes[m] /\ Above(r, m, InnerRefs, E, B)
    BY MinimumBelow
  <2> DEFINE j == nodes[m].key
  <2>2. /\ E[m] = Len(j) + 1 /\ Len(j) \in Nat
        /\ \A i \in 1 .. Len(j) : B[m][i] = j[i]
    BY LeafPath
  <2>3. E[r] < E[m] /\ \A i \in 1 .. E[r] : B[r][i] = B[m][i]
    BY <2>1 DEF Above
  <2>4. \A i \in 1 .. E[r] : i \in 1 .. Len(j)
    BY <2>2, <2>3, <1>1
  <2>5. \A i \in 1 .. E[r] : k[i] = j[i]
    BY <2>2, <2>3, <2>4, <1>3
  <2>6. minimum(r).key = j
    BY <2>1
  <2> HIDE DEF j
  <2>7. SubSeq(k, d + 1, E[r]) = SubSeq(j, d + 1, E[r])
    BY <2>5, <1>1, <1>5, SameParts, SMTT(20)
  <2> QED BY <2>6, <2>7, <1>1 DEF path
<1> QED BY <1>1, <1>3, <1>7, <1>8 DEF path, k

(* Every inner node's partial_len is the number of bytes the leaves below *)
(* it share, and it stores the first MAX_PREFIX_LEN of them, after every  *)
(* split and collapse (art.c:568-617, 735-757).                           *)
THEOREM PrefixesRightAlways == ZeroAfterKey => (Spec => []PrefixesRight)
<1>1. ASSUME ArtInv PROVE PrefixesRight
  <2>1. Laid
    BY <1>1 DEF ArtInv, TypeOK, Laid
  <2>2. PICK E, B : Shape(E, B)
    BY <1>1 DEF ArtInv, InShape
  <2> SUFFICES ASSUME NEW r \in LeafRefs
               PROVE  LET key   == nodes[r].key
                          route == Route(Append(key, 0))
                      IN  /\ \E p \in route : p.ref = r
                          /\ \A p \in route :
                               IsInner(nodes[p.ref]) =>
                                 LET path == SubSeq(key, p.depth + 1, Turn(p))
                                 IN  /\ Turn(p) <= Len(key)
                                     /\ nodes[p.ref].partial = First(path, MAX_PREFIX_LEN)
                                     /\ path = SubSeq(minimum(p.ref).key, p.depth + 1, Turn(p))
    BY DEF PrefixesRight
  <2> DEFINE route == Route(Append(nodes[r].key, 0))
  <2>3. (\A p \in route : On(p, r, E, B)) /\ (\E p \in route : p.ref = r)
    <3>1. PICK key : key = Append(nodes[r].key, 0)
      OBVIOUS
    <3>2. Leads(key, r, E, B) /\ Len(key) = E[r]
      BY <3>1, <2>1, <2>2, OwnBuffer
    <3>3. (\A p \in Route(key) : On(p, r, E, B)) /\ \E p \in Route(key) : p.ref = r
      BY <3>2, <2>1, <2>2, RouteOf
    <3> QED BY <3>1, <3>3
  <2>4. ASSUME NEW p \in route, IsInner(nodes[p.ref])
        PROVE  LET path == SubSeq(nodes[r].key, p.depth + 1, Turn(p))
               IN  /\ Turn(p) <= Len(nodes[r].key)
                   /\ nodes[p.ref].partial = First(path, MAX_PREFIX_LEN)
                   /\ path = SubSeq(minimum(p.ref).key, p.depth + 1, Turn(p))
    <3>1. On(p, r, E, B) /\ p.ref \in InnerRefs
      BY <2>3, <2>4 DEF On, Placed, Places, InnerRefs
    <3> HIDE DEF route
    <3> QED BY <3>1, <2>1, <2>2, OwnPrefix
  <2> QED BY <2>3, <2>4
<1> QED BY <1>1, ArtInvAlways, PTL

(* The order in which the type puts the byte among those of the entries *)
(* is that of the bytes.                                                *)
InOrder(type, c, s) == \A j \in 1 .. Len(s) : Precedes(type, c, s[j].byte) <=> c < s[j].byte

(* The bytes of entries are numbers. *)
LEMMA ByteOf ==
  ASSUME NEW s \in Seq(Entries)
  PROVE  Len(s) \in Nat /\ \A i \in 1 .. Len(s) : s[i] \in Entries /\ s[i].byte \in Nat
<1>1. \A i \in 1 .. Len(s) : s[i] \in Entries
  OBVIOUS
<1>2. \A e \in Entries : e.byte \in Nat
  BY NodeAssumption DEF Entries, Bytes
<1> QED BY <1>1, <1>2

(* One more entry, at its place or at the end. *)
LEMMA SortedWith ==
  ASSUME NEW s \in Seq(Entries), Sorted(s), NEW e \in Entries,
         NEW i \in 1 .. Len(s) + 1,
         \A j \in 1 .. Len(s) : j < i => s[j].byte <= e.byte,
         \A j \in 1 .. Len(s) : i <= j => e.byte <= s[j].byte,
         NEW t, Len(t) = Len(s) + 1,
         \A j \in 1 .. Len(s) + 1 : t[j] = IF j < i THEN s[j] ELSE IF j = i THEN e ELSE s[j - 1]
  PROVE  Sorted(t)
<1>0. Len(s) \in Nat /\ e.byte \in Nat /\ \A j \in 1 .. Len(s) : s[j].byte \in Nat
  <2>1. Len(s) \in Nat /\ \A j \in 1 .. Len(s) : s[j].byte \in Nat
    BY ByteOf
  <2>2. e.byte \in Nat
    BY NodeAssumption DEF Entries, Bytes
  <2> QED BY <2>1, <2>2
<1> SUFFICES ASSUME NEW a \in 1 .. Len(t), NEW b \in 1 .. Len(t), a < b
             PROVE  t[a].byte <= t[b].byte
  BY DEF Sorted
<1>1. a \in 1 .. Len(s) + 1 /\ b \in 1 .. Len(s) + 1 /\ a \in Nat /\ b \in Nat /\ i \in Nat
  BY <1>0
<1>2. CASE b < i
  <2>1. a \in 1 .. Len(s) /\ b \in 1 .. Len(s) /\ a < i
    BY <1>0, <1>1, <1>2
  <2> QED BY <2>1, <1>1, <1>2 DEF Sorted
<1>3. CASE b = i
  <2>1. a \in 1 .. Len(s) /\ a < i
    BY <1>0, <1>1, <1>3
  <2> QED BY <2>1, <1>1, <1>3
<1>4. CASE i < b /\ a < i
  <2>1. a \in 1 .. Len(s) /\ b - 1 \in 1 .. Len(s) /\ i <= b - 1
    BY <1>0, <1>1, <1>4
  <2>2. t[a] = s[a] /\ t[b] = s[b - 1]
    BY <1>1, <1>4
  <2>3. s[a].byte <= e.byte /\ e.byte <= s[b - 1].byte
    BY <2>1, <1>4
  <2>4. s[a].byte \in Nat /\ s[b - 1].byte \in Nat
    BY <1>0, <2>1
  <2> QED BY <2>2, <2>3, <2>4, <1>0
<1>5. CASE i < b /\ a = i
  <2>1. b - 1 \in 1 .. Len(s) /\ i <= b - 1
    BY <1>0, <1>1, <1>5
  <2> QED BY <2>1, <1>1, <1>5
<1>6. CASE i < b /\ i < a
  <2>1. a - 1 \in 1 .. Len(s) /\ b - 1 \in 1 .. Len(s) /\ a - 1 < b - 1
    BY <1>0, <1>1, <1>6
  <2>2. t[a] = s[a - 1] /\ t[b] = s[b - 1]
    BY <1>1, <1>6
  <2> QED BY <2>1, <2>2 DEF Sorted
<1> QED BY <1>1, <1>2, <1>3, <1>4, <1>5, <1>6

(* The child goes where the order of the bytes has it, if the type orders *)
(* its byte among the others as it should.                                *)
LEMMA InsertedSorted ==
  ASSUME NEW n \in InnerNode, Sorted(n.children), NEW c \in Bytes,
         NEW ref \in Refs \ {Root}, InOrder(n.type, c, n.children)
  PROVE  LET m == Inserted(n, c, ref)
         IN  /\ m \in InnerNode /\ Sorted(m.children)
             /\ m.type = n.type /\ Len(m.children) = Len(n.children) + 1
<1> DEFINE s == n.children
           e == Child(c, ref)
           pos == {j \in 1 .. Len(s) : Precedes(n.type, c, s[j].byte)}
           i == SelectInSeq(s, LAMBDA f : Precedes(n.type, c, f.byte))
           t == IF i = 0 THEN Append(s, e) ELSE InsertAt(s, i, e)
           m == Inserted(n, c, ref)
<1>0. /\ s \in Seq(Entries) /\ e \in Entries /\ Len(s) \in Nat /\ e.byte = c /\ c \in Nat
      /\ \A j \in 1 .. Len(s) : s[j].byte \in Nat
  <2>1. s \in Seq(Entries) /\ e \in Entries /\ e.byte = c
    BY DEF InnerNode, Entries, Child
  <2>2. c \in Nat
    BY NodeAssumption DEF Bytes
  <2> HIDE DEF s, e
  <2> QED BY <2>1, <2>2, ByteOf
<1>1. \A j \in 1 .. Len(s) : j \in pos <=> c < s[j].byte
  BY DEF InOrder
<1>2. i = IF pos /= {} THEN Min(pos) ELSE 0
  BY DEF SelectInSeq
<1>3. pos \in SUBSET Nat /\ \A j \in pos : j \in 1 .. Len(s)
  OBVIOUS
<1>4. m = [n EXCEPT !.children = t]
  BY DEF Inserted
<1> HIDE DEF pos, i
<1>5. pos /= {} => Min(pos) \in pos /\ \A j \in pos : Min(pos) <= j
  BY <1>3, LeastOf
<1>6. CASE pos = {}
  <2>1. t = Append(s, e)
    BY <1>2, <1>6
  <2> HIDE DEF t, s, e, m
  <2>2. /\ t \in Seq(Entries) /\ Len(t) = Len(s) + 1
        /\ \A j \in 1 .. Len(s) : t[j] = s[j]
        /\ t[Len(s) + 1] = e
    BY <2>1, <1>0, AppendProperties
  <2>3. \A j \in 1 .. Len(s) + 1 : t[j] = IF j < Len(s) + 1 THEN s[j]
                                          ELSE IF j = Len(s) + 1 THEN e ELSE s[j - 1]
    BY <2>2, <1>0
  <2>4. \A j \in 1 .. Len(s) : s[j].byte <= e.byte
    BY <1>0, <1>1, <1>6
  <2>5. Len(s) + 1 \in 1 .. Len(s) + 1 /\ \A j \in 1 .. Len(s) : ~(Len(s) + 1 <= j)
    BY <1>0
  <2>6. Sorted(s)
    BY DEF s
  <2>7. Sorted(t)
    BY <2>2, <2>3, <2>4, <2>5, <2>6, <1>0, SortedWith
  <2>8. m \in InnerNode /\ m.children = t /\ m.type = n.type
    BY <2>2, <1>4 DEF InnerNode, Entries
  <2> QED BY <2>2, <2>7, <2>8 DEF s, m
<1>7. CASE pos /= {}
  <2>1. i \in pos /\ \A j \in pos : i <= j
    BY <1>2, <1>5, <1>7
  <2>2. i \in 1 .. Len(s) /\ i \in Nat
    BY <2>1, <1>3
  <2>3. t = InsertAt(s, i, e)
    BY <2>2
  <2> HIDE DEF t, s, e, m
  <2>4. /\ t \in Seq(Entries) /\ Len(t) = Len(s) + 1
        /\ \A j \in 1 .. Len(s) + 1 : t[j] = IF j < i THEN s[j]
                                             ELSE IF j = i THEN e ELSE s[j - 1]
    <3>1. s \in Seq(Entries) /\ e \in Entries /\ i \in 1 .. Len(s)
      BY <2>2, <1>0
    <3>2. /\ InsertAt(s, i, e) \in Seq(Entries) /\ Len(InsertAt(s, i, e)) = Len(s) + 1
          /\ \A j \in 1 .. Len(s) + 1 : InsertAt(s, i, e)[j] = IF j < i THEN s[j]
                                             ELSE IF j = i THEN e ELSE s[j - 1]
      BY <3>1, Inserting
    <3> QED BY <2>3, <3>2
  <2>5. \A j \in 1 .. Len(s) : j < i => s[j].byte <= e.byte
    <3> SUFFICES ASSUME NEW j \in 1 .. Len(s), j < i PROVE s[j].byte <= e.byte
      OBVIOUS
    <3>1. j \notin pos
      BY <2>1, <2>2
    <3>2. ~(c < s[j].byte) /\ s[j].byte \in Nat
      BY <3>1, <1>0, <1>1
    <3> QED BY <3>2, <1>0
  <2>6. Sorted(s)
    BY DEF s
  <2>7. \A j \in 1 .. Len(s) : i <= j => e.byte <= s[j].byte
    <3> SUFFICES ASSUME NEW j \in 1 .. Len(s), i <= j PROVE e.byte <= s[j].byte
      OBVIOUS
    <3>1. c < s[i].byte /\ s[i].byte \in Nat /\ s[j].byte \in Nat
      BY <2>1, <2>2, <1>0, <1>1
    <3>2. s[i].byte <= s[j].byte
      <4>1. CASE i = j
        BY <4>1, <3>1
      <4>2. CASE i < j
        BY <4>2, <2>2, <2>6 DEF Sorted
      <4> QED BY <4>1, <4>2, <2>2
    <3> QED BY <3>1, <3>2, <1>0
  <2>8. i \in 1 .. Len(s) + 1
    BY <2>2, <1>0
  <2>9. Sorted(t)
    BY <2>4, <2>5, <2>6, <2>7, <2>8, <1>0, SortedWith
  <2>10. m \in InnerNode /\ m.children = t /\ m.type = n.type
    BY <2>4, <1>4 DEF InnerNode, Entries
  <2> QED BY <2>4, <2>9, <2>10 DEF s, m
<1> QED BY <1>6, <1>7

(* A node of another type has its children in order if it had. *)
LEMMA RelayingSorted ==
  ASSUME NEW n \in InnerNode, Distinct(n), Sorted(n.children), NEW type \in Types
  PROVE  Sorted(Resized(n, type).children)
<1> DEFINE s == n.children
           t == IF type \in {"NODE48", "NODE256"} THEN ByByte(s) ELSE s
<1>1. s \in Seq(Entries) /\ \A i, j \in 1 .. Len(s) : s[i].byte = s[j].byte => i = j
  BY DEF InnerNode, Entries, Distinct
<1>2. Sorted(s)
  BY DEF s
<1>3. Resized(n, type).children = t
  <2>1. Resized(n, type) = [n EXCEPT !.type = type, !.children = t]
    BY DEF Resized
  <2> HIDE DEF t
  <2> QED BY <2>1 DEF InnerNode
<1>4. Sorted(t)
  <2>1. CASE type \in {"NODE48", "NODE256"}
    <3> HIDE DEF s
    <3>1. /\ Len(ByByte(s)) = Len(s)
          /\ \A i, j \in 1 .. Len(s) : i < j => ByByte(s)[i].byte <= ByByte(s)[j].byte
      BY <1>1, Sorting
    <3> QED BY <2>1, <3>1 DEF Sorted
  <2>2. CASE type \notin {"NODE48", "NODE256"}
    BY <2>2, <1>2
  <2> QED BY <2>1, <2>2
<1> QED BY <1>3, <1>4

(* One entry less. *)
LEMMA SortedWithout ==
  ASSUME NEW s \in Seq(Entries), Sorted(s), NEW i \in 1 .. Len(s)
  PROVE  Sorted(RemoveAt(s, i))
<1>1. Len(s) \in Nat
  BY LenProperties
<1> DEFINE t == RemoveAt(s, i)
<1>2. /\ Len(t) = Len(s) - 1
      /\ \A j \in 1 .. Len(s) - 1 : t[j] = IF j < i THEN s[j] ELSE s[j + 1]
  BY Removing
<1> HIDE DEF t
<1>3. SUFFICES ASSUME NEW a \in 1 .. Len(t), NEW b \in 1 .. Len(t), a < b
               PROVE  t[a].byte <= t[b].byte
  BY DEF Sorted, t
<1>4. /\ a \in 1 .. Len(s) - 1 /\ b \in 1 .. Len(s) - 1 /\ a \in 1 .. Len(s) /\ b \in 1 .. Len(s)
      /\ a + 1 \in 1 .. Len(s) /\ b + 1 \in 1 .. Len(s) /\ a + 1 < b + 1 /\ a < b + 1
  BY <1>1, <1>2, <1>3
<1>5. CASE b < i
  <2>1. a < i
    BY <1>4, <1>5, <1>3
  <2>2. t[a] = s[a] /\ t[b] = s[b]
    BY <2>1, <1>2, <1>4, <1>5
  <2> QED BY <2>2, <1>4, <1>3 DEF Sorted
<1>6. CASE ~(b < i) /\ a < i
  <2>2. t[a] = s[a] /\ t[b] = s[b + 1]
    BY <1>2, <1>4, <1>6
  <2> QED BY <2>2, <1>4, <1>3 DEF Sorted
<1>7. CASE ~(b < i) /\ ~(a < i)
  <2>2. t[a] = s[a + 1] /\ t[b] = s[b + 1]
    BY <1>2, <1>4, <1>7
  <2> QED BY <2>2, <1>4, <1>3 DEF Sorted
<1> QED
  <2>1. b < i => a < i
    BY <1>4, <1>3
  <2> QED BY <2>1, <1>5, <1>6, <1>7

(* Bytes below the half: as signed bytes they are in the same order, so *)
(* NODE16 (art.c:411-459) puts them as the other types do.              *)
Low == {c \in Bytes : c < NBytes \div 2}

(* Every type puts such bytes in their order. *)
LEMMA LowOrder ==
  ASSUME NEW c \in Low, NEW d \in Low, NEW type
  PROVE  Precedes(type, c, d) <=> c < d
<1>1. c \in Nat /\ d \in Nat /\ NBytes \in Nat
  BY NodeAssumption DEF Low, Bytes
<1>2. PICK h : h = NBytes \div 2
  OBVIOUS
<1>3. h \in Int
  BY <1>1, <1>2
<1>4. c < h /\ d < h
  BY <1>2 DEF Low
<1>5. ~(c >= h) /\ ~(d >= h)
  BY <1>1, <1>3, <1>4
<1>6. Signed(c) = c /\ Signed(d) = d
  BY <1>2, <1>5 DEF Signed
<1> QED BY <1>6 DEF Precedes

(* add_child keeps the children in order. *)
LEMMA TakenSorted ==
  ASSUME NEW n \in InnerNode, Distinct(n), Len(n.children) <= Capacity[n.type],
         Sorted(n.children), NEW c \in Low, NEW ref \in Refs \ {Root},
         \A e \in ToSet(n.children) : e.byte \in Low /\ e.byte /= c
  PROVE  Sorted(add_child(n, c, ref).children)
<1> DEFINE k == IF Len(n.children) < Capacity[n.type] THEN n ELSE Resized(n, Larger[n.type])
<1>1. k \in InnerNode /\ Sorted(k.children) /\ ToSet(k.children) = ToSet(n.children)
  <2>1. CASE Len(n.children) < Capacity[n.type]
    BY <2>1
  <2>2. CASE ~(Len(n.children) < Capacity[n.type])
    <3>1. Len(n.children) \in Nat /\ n.type \in Types
      BY DEF InnerNode
    <3>2. Len(n.children) = Capacity[n.type]
      BY <2>2, <3>1, NodeAssumption
    <3>3. c \in Bytes
      BY DEF Low
    <3>4. n.type /= "NODE256"
      BY <3>2, <3>1, <3>3, AtMostBytes, NodeAssumption
    <3>5. Larger[n.type] \in Types
      BY <3>1, <3>4 DEF Types, Larger
    <3>6. k = Resized(n, Larger[n.type])
      BY <2>2
    <3> QED BY <3>5, <3>6, Relaying, RelayingSorted
  <2> QED BY <2>1, <2>2
<1> HIDE DEF k
<1>2. InOrder(k.type, c, k.children)
  <2> SUFFICES ASSUME NEW j \in 1 .. Len(k.children)
               PROVE  Precedes(k.type, c, k.children[j].byte) <=> c < k.children[j].byte
    BY DEF InOrder
  <2>1. k.children \in Seq(Entries)
    BY <1>1 DEF InnerNode, Entries
  <2>2. k.children[j] \in ToSet(k.children)
    BY <2>1, Among
  <2>3. k.children[j].byte \in Low
    BY <2>2, <1>1
  <2> QED BY <2>3, LowOrder
<1>3. c \in Bytes
  BY DEF Low
<1>4. add_child(n, c, ref) = Inserted(k, c, ref)
  BY DEF add_child, k
<1> QED BY <1>1, <1>2, <1>3, <1>4, InsertedSorted

(* The hypothesis under which the ends are in order: the keys have only   *)
(* such bytes, as those of plain ASCII names. With others a NODE16 is out *)
(* of order.                                                              *)
LowKeys == \A k \in Keys : \A i \in 1 .. Len(k) : k[i] \in Low

(* The children of an inner node are in the order of their bytes. *)
NodeSorted(n) == IsInner(n) => Sorted(n.children)

(* So are those of every node: what the order of the ends needs beyond *)
(* the shape of the tree.                                              *)
AllSorted == \A r \in Refs : NodeSorted(nodes[r])

(* The terminator is a low byte: there are more than two bytes. *)
LEMMA ZeroLow == 0 \in Low
<1>1. /\ Capacity["NODE4"] \in Nat /\ Capacity["NODE16"] \in Nat
      /\ Capacity["NODE48"] \in Nat /\ Capacity["NODE256"] \in Nat
  BY NodeAssumption DEF Types
<1>2. /\ Capacity["NODE4"] < Capacity["NODE16"] /\ Capacity["NODE16"] < Capacity["NODE48"]
      /\ Capacity["NODE48"] < Capacity["NODE256"]
  <2>1. "NODE4" \in DOMAIN Larger /\ "NODE16" \in DOMAIN Larger /\ "NODE48" \in DOMAIN Larger
        /\ Larger["NODE4"] = "NODE16" /\ Larger["NODE16"] = "NODE48" /\ Larger["NODE48"] = "NODE256"
    BY DEF Larger
  <2> QED BY <2>1, NodeAssumption
<1>3. NBytes \in Nat /\ NBytes >= 2
  BY <1>1, <1>2, NodeAssumption
<1>4. 0 < NBytes \div 2
  BY <1>3
<1> QED BY <1>3, <1>4 DEF Low, Bytes

(* Every byte that leads to a place is a low one. *)
LEMMA LowPaths ==
  ASSUME Laid, NEW E, NEW B, Shape(E, B), LowKeys, NEW x \in Used
  PROVE  \A i \in 1 .. E[x] : B[x][i] \in Low
<1>1. ASSUME NEW l \in LeafRefs PROVE \A i \in 1 .. E[l] : B[l][i] \in Low
  <2>1. /\ nodes[l].key \in Keys /\ Len(nodes[l].key) \in Nat
        /\ E[l] = Len(nodes[l].key) + 1
        /\ \A i \in 1 .. Len(nodes[l].key) : B[l][i] = nodes[l].key[i]
        /\ B[l][Len(nodes[l].key) + 1] = 0
    BY <1>1, LeafPath
  <2>2. \A i \in 1 .. Len(nodes[l].key) : nodes[l].key[i] \in Low
    BY <2>1 DEF LowKeys
  <2> SUFFICES ASSUME NEW i \in 1 .. E[l] PROVE B[l][i] \in Low
    OBVIOUS
  <2>3. i \in 1 .. Len(nodes[l].key) \/ i = Len(nodes[l].key) + 1
    BY <2>1
  <2> QED BY <2>1, <2>2, <2>3, ZeroLow
<1>2. x \in LeafRefs \/ x \in InnerRefs
  BY Typing
<1>3. CASE x \in InnerRefs
  <2>1. PICK l \in LeafRefs : Above(x, l, InnerRefs, E, B)
    BY <1>3, MinimumBelow
  <2>2. E[x] \in Nat /\ E[l] \in Nat /\ E[x] < E[l] /\ \A i \in 1 .. E[x] : B[x][i] = B[l][i]
    BY <2>1, Typing DEF Above
  <2>3. \A i \in 1 .. E[x] : i \in 1 .. E[l]
    BY <2>2
  <2> QED BY <2>2, <2>3, <1>1
<1> QED BY <1>1, <1>2, <1>3

(* The bytes of the entries are low ones. *)
LEMMA LowChildren ==
  ASSUME Laid, NEW E, NEW B, Shape(E, B), LowKeys, NEW r \in InnerRefs,
         NEW e \in ToSet(nodes[r].children)
  PROVE  e.byte \in Low
<1>1. e.ref \in Used /\ E[r] < E[e.ref] /\ B[e.ref][E[r] + 1] = e.byte
  BY ChildOf
<1>2. E[r] \in Nat /\ E[e.ref] \in Nat
  BY <1>1, Typing
<1>3. E[r] + 1 \in 1 .. E[e.ref]
  BY <1>1, <1>2
<1> QED BY <1>1, <1>3, LowPaths

(* A node in order put into a place. *)
LEMMA PutOne ==
  ASSUME Laid, AllSorted, NEW a, NEW x, NodeSorted(x),
         nodes' = [nodes EXCEPT ![a] = x]
  PROVE  AllSorted'
<1> SUFFICES ASSUME NEW q \in Refs PROVE NodeSorted(nodes'[q])
  BY DEF AllSorted
<1>1. nodes'[q] = IF q = a THEN x ELSE nodes[q]
  BY DEF Laid
<1> QED BY <1>1 DEF AllSorted

(* Two nodes in order put into places. *)
LEMMA PutTwo ==
  ASSUME Laid, AllSorted, NEW a, NEW x, NodeSorted(x), NEW b, NEW y, NodeSorted(y),
         nodes' = [nodes EXCEPT ![a] = x, ![b] = y]
  PROVE  AllSorted'
<1> SUFFICES ASSUME NEW q \in Refs PROVE NodeSorted(nodes'[q])
  BY DEF AllSorted
<1>1. nodes'[q] = IF q = b THEN y ELSE IF q = a THEN x ELSE nodes[q]
  BY DEF Laid
<1> QED BY <1>1 DEF AllSorted

(* An empty place and a leaf have no children. *)
LEMMA PlainSorted ==
  /\ NodeSorted(NoNode)
  /\ \A l : IS_LEAF(l) => NodeSorted(l)
BY DEF NodeSorted, NoNode, IS_LEAF, IsInner, Types

(* A new NODE4 has its two children in order. *)
LEMMA TwoSorted ==
  ASSUME NEW len \in Nat, NEW prefix \in Seq(Bytes), NEW n,
         n = [type |-> "NODE4", partial_len |-> len, partial |-> prefix,
              children |-> <<>>],
         NEW c \in Bytes, NEW a \in Refs \ {Root},
         NEW d \in Bytes, NEW b \in Refs \ {Root}
  PROVE  NodeSorted(add_child(add_child(n, c, a), d, b))
<1> DEFINE m == add_child(n, c, a)
           k == add_child(m, d, b)
<1>0. Capacity["NODE4"] \in Nat /\ Capacity["NODE4"] >= 2
  BY NodeAssumption DEF Types
<1>1. \A s : InOrder("NODE4", c, s) /\ InOrder("NODE4", d, s)
  BY DEF InOrder, Precedes
<1>2. /\ n \in InnerNode /\ n.type = "NODE4" /\ n.children = <<>> /\ Len(n.children) = 0
      /\ Sorted(n.children)
  BY DEF InnerNode, Types, Sorted
<1> HIDE DEF m, k
<1>3. m = Inserted(n, c, a)
  BY <1>0, <1>2 DEF add_child, m
<1>4. m \in InnerNode /\ Sorted(m.children) /\ m.type = "NODE4" /\ Len(m.children) = 1
  <2>1. InOrder(n.type, c, n.children)
    BY <1>1, <1>2
  <2>2. /\ m \in InnerNode /\ Sorted(m.children)
        /\ m.type = n.type /\ Len(m.children) = Len(n.children) + 1
    BY <2>1, <1>2, <1>3, InsertedSorted
  <2> QED BY <2>2, <1>2
<1>5. k = Inserted(m, d, b)
  BY <1>0, <1>4 DEF add_child, k
<1>6. Sorted(k.children)
  <2>1. InOrder(m.type, d, m.children)
    BY <1>1, <1>4
  <2> QED BY <2>1, <1>4, <1>5, InsertedSorted
<1> QED BY <1>6 DEF NodeSorted, k, m

(* A split puts a new node in order above what was in the place. *)
LEMMA SplitSorted ==
  ASSUME Laid, AllSorted, Room, NEW r, NEW prefix \in Seq(Bytes), NEW len \in Nat,
         NEW c \in Bytes, NEW d \in Bytes, NEW n, NodeSorted(n), NEW leaf, IS_LEAF(leaf),
         nodes' = Split(r, prefix, len, c, n, d, leaf)
  PROVE  AllSorted'
<1> DEFINE new == [type |-> "NODE4", partial_len |-> len, partial |-> prefix,
                   children |-> <<>>]
           m == add_child(add_child(new, c, NewRef), d, OtherRef)
<1>1. NewRef \in Refs \ {Root} /\ OtherRef \in Refs \ {Root}
  BY Rooms
<1>2. new = [type |-> "NODE4", partial_len |-> len, partial |-> prefix, children |-> <<>>]
  OBVIOUS
<1>3. nodes' = [nodes EXCEPT ![r] = m, ![NewRef] = n, ![OtherRef] = leaf]
  BY DEF Split
<1> HIDE DEF new
<1>4. NodeSorted(m)
  BY <1>1, <1>2, TwoSorted
<1> HIDE DEF m
<1>5. NodeSorted(leaf)
  BY PlainSorted
<1> SUFFICES ASSUME NEW q \in Refs PROVE NodeSorted(nodes'[q])
  BY DEF AllSorted
<1>6. nodes'[q] = IF q = OtherRef THEN leaf ELSE IF q = NewRef THEN n
                  ELSE IF q = r THEN m ELSE nodes[q]
  BY <1>3 DEF Laid
<1> QED BY <1>4, <1>5, <1>6 DEF AllSorted

(* The split of a leaf keeps the order. *)
LEMMA LeafSplitSorted ==
  ASSUME Laid, NEW E, NEW B, Shape(E, B), AllSorted, Room,
         NEW p, Placed(p, E), p.ref \in LeafRefs,
         NEW k \in Keys, NEW key, Holds(key, k), NEW v \in Values,
         NEW l2, l2 = make_leaf(key, Len(k), v),
         nodes' = SplitLeaf(p, key, l2)
  PROVE  AllSorted'
<1> DEFINE l == nodes[p.ref]
           shared == Agreement(Drop(l.key, p.depth), Drop(l2.key, p.depth),
                               Least(Len(l.key), Len(l2.key)) - p.depth)
           prefix == First(Drop(key, p.depth), Least(MAX_PREFIX_LEN, shared))
           c == LeafByte(l, p.depth + shared)
           d == LeafByte(l2, p.depth + shared)
<1>1. l2 \in LeafNode /\ l2.key = k /\ IS_LEAF(l2)
  BY MadeLeaf DEF LeafNode, IS_LEAF
<1>2. l.key \in Keys /\ Len(l.key) \in 0 .. MaxKeyLen /\ E[p.ref] = Len(l.key) + 1 /\ IS_LEAF(l)
  BY LeafPath DEF LeafRefs
<1>3. p.depth \in Nat /\ p.depth <= E[p.ref]
  BY Depth
<1>4. \A j \in Keys : j \in Seq(Bytes) /\ Len(j) \in Nat
  BY KeyFacts
<1>5. /\ Len(k) \in Nat /\ Len(key) \in Nat /\ Len(key) > Len(k) + MaxKeyLen
      /\ MaxKeyLen \in Nat /\ key \in Seq(Bytes)
  BY Held0 DEF Holds
<1>6. shared \in Nat
  <2>1. Least(Len(l.key), Len(l2.key)) - p.depth \in Int
    BY <1>1, <1>2, <1>3, <1>4 DEF Least
  <2> QED BY <2>1, Agreeing
<1>7. prefix \in Seq(Bytes)
  <2>1. p.depth <= Len(key)
    BY <1>2, <1>3, <1>5
  <2>2. Drop(key, p.depth) \in Seq(Bytes)
    BY <2>1, <1>3, <1>5, DropsEach
  <2>3. Least(MAX_PREFIX_LEN, shared) \in Nat
    BY <1>6, NodeAssumption DEF Least
  <2> HIDE DEF shared
  <2> QED BY <2>2, <2>3, FirstsEach
<1>8. \A f \in Nat : LeafByte(l, f) \in Bytes /\ LeafByte(l2, f) \in Bytes
  <2>1. 0 \in Bytes
    BY NodeAssumption DEF Bytes
  <2>2. l.key \in Seq(Bytes) /\ l2.key \in Seq(Bytes)
    BY <1>1, <1>2, <1>4
  <2> HIDE DEF l
  <2> QED BY <2>1, <2>2 DEF LeafByte
<1>9. c \in Bytes /\ d \in Bytes
  <2>1. p.depth + shared \in Nat
    BY <1>3, <1>6
  <2> HIDE DEF shared, l
  <2> QED BY <2>1, <1>8
<1>10. nodes' = Split(p.ref, prefix, shared, c, l, d, l2)
  BY Zenon DEF SplitLeaf
<1> HIDE DEF l, shared, prefix, c, d
<1> QED BY <1>1, <1>2, <1>6, <1>7, <1>9, <1>10, PlainSorted, SplitSorted

(* The split of a node's prefix keeps the order. *)
LEMMA PrefixSplitSorted ==
  ASSUME Laid, NEW E, NEW B, Shape(E, B), AllSorted, Room,
         NEW p, Placed(p, E), p.ref \in InnerRefs,
         NEW k \in Keys, NEW key, Holds(key, k),
         NEW diff \in Nat, diff < nodes[p.ref].partial_len, p.depth + diff <= Len(k),
         NEW v \in Values, NEW l2, l2 = make_leaf(key, Len(k), v),
         nodes' = SplitPrefix(p, key, l2, diff)
  PROVE  AllSorted'
<1> DEFINE n == nodes[p.ref]
           prefix == IF n.partial_len <= MAX_PREFIX_LEN THEN n.partial
                     ELSE Drop(minimum(p.ref).key, p.depth)
           left == n.partial_len - (diff + 1)
           low == First(Drop(prefix, diff + 1), Least(MAX_PREFIX_LEN, left))
           below == [n EXCEPT !.partial_len = left, !.partial = low]
           top == First(n.partial, diff)
           c == prefix[diff + 1]
           e == key[p.depth + diff + 1]
<1>1. l2 \in LeafNode /\ IS_LEAF(l2)
  BY MadeLeaf DEF LeafNode, IS_LEAF
<1>2. n \in InnerNode /\ IsInner(n) /\ n.partial \in Seq(Bytes) /\ n.partial_len \in Nat
  BY KindOf DEF InnerRefs, InnerNode
<1>3. /\ prefix \in Seq(Bytes) /\ Len(prefix) >= n.partial_len
  BY WholePrefix
<1>4. p.depth \in Nat
  BY Depth
<1>5. /\ Len(k) \in Nat /\ Len(key) \in Nat /\ Len(key) > Len(k) + MaxKeyLen
      /\ MaxKeyLen \in Nat /\ key \in Seq(Bytes)
  BY Held0 DEF Holds
<1>6. c \in Bytes
  <2> HIDE DEF prefix, n
  <2>1. Len(prefix) \in Nat
    BY <1>3
  <2>2. diff + 1 \in 1 .. Len(prefix)
    BY <2>1, <1>2, <1>3 DEF n
  <2> QED BY <2>2, <1>3
<1>7. e \in Bytes
  <2>1. p.depth + diff + 1 \in 1 .. Len(key)
    BY <1>4, <1>5
  <2> QED BY <2>1, <1>5
<1>8. top \in Seq(Bytes)
  BY <1>2, FirstsEach
<1>9. below.children = n.children
  <2> HIDE DEF left, low, n
  <2> QED BY <1>2 DEF InnerNode
<1>10. NodeSorted(below)
  <2>1. NodeSorted(n)
    BY Depth DEF AllSorted
  <2>2. Sorted(n.children)
    BY <2>1, <1>2 DEF NodeSorted
  <2> HIDE DEF below, n
  <2> QED BY <2>2, <1>9 DEF NodeSorted
<1>11. nodes' = Split(p.ref, top, diff, c, below, e, l2)
  BY Zenon DEF SplitPrefix
<1> HIDE DEF n, prefix, left, low, below, top, c, e
<1> QED BY <1>1, <1>6, <1>7, <1>8, <1>10, <1>11, SplitSorted

(* A leaf that goes below a node keeps the order: its byte is a low one. *)
LEMMA TakenLeafSorted ==
  ASSUME Laid, NEW E, NEW B, Shape(E, B), AllSorted, LowKeys, Room,
         NEW p, Placed(p, E), p.ref \in InnerRefs,
         NEW k \in Keys, NEW key, Holds(key, k), Passes(p, key, k, E, B), Chosen(p, key) = 0,
         NEW l2, IS_LEAF(l2), nodes' = LeafTaken(p, key, l2)
  PROVE  AllSorted'
<1> DEFINE r == p.ref
           n == nodes[r]
           c == key[E[r] + 1]
           m == add_child(n, c, NewRef)
<1>1. Turn(p) = E[r] /\ E[r] \in Nat /\ r \in Refs
  <2>1. Turn(p) = E[r]
    BY Turning
  <2>2. E[r] \in Nat /\ r \in Refs
    BY Depth
  <2> QED BY <2>1, <2>2
<1>2. E[r] <= Len(k)
  BY DEF Passes
<1>3. c \in Low
  <2>1. /\ Len(k) \in Nat /\ \A i \in 1 .. Len(k) : key[i] = k[i]
        /\ key[Len(k) + 1] = 0
    BY Held0
  <2>2. E[r] + 1 \in 1 .. Len(k) \/ E[r] = Len(k)
    BY <1>1, <1>2, <2>1
  <2> QED BY <2>1, <2>2, ZeroLow DEF LowKeys
<1>4. \A e \in ToSet(n.children) : e.byte \in Low /\ e.byte /= c
  <2>1. \A e \in Kids[r] : e.byte /= c
    BY NotChosen
  <2>2. Kids[r] = ToSet(n.children)
    BY Typing
  <2>3. \A e \in ToSet(n.children) : e.byte \in Low
    <3> HIDE DEF c
    <3> QED BY LowChildren
  <2> HIDE DEF c
  <2> QED BY <2>1, <2>2, <2>3
<1>5. n \in InnerNode /\ Distinct(n) /\ Len(n.children) <= Capacity[n.type] /\ IsInner(n)
  BY <1>1, KindOf DEF InnerRefs, WellLaid, Distinct
<1>6. Sorted(n.children)
  BY <1>1, <1>5 DEF AllSorted, NodeSorted
<1>7. NewRef \in Refs \ {Root}
  BY Rooms
<1>8. NodeSorted(m)
  <2> HIDE DEF n, c
  <2> QED BY <1>3, <1>4, <1>5, <1>6, <1>7, TakenSorted DEF NodeSorted
<1>9. nodes' = [nodes EXCEPT ![r] = m, ![NewRef] = l2]
  BY <1>1 DEF LeafTaken
<1>10. NodeSorted(l2)
  BY PlainSorted
<1> HIDE DEF m
<1> SUFFICES ASSUME NEW q \in Refs PROVE NodeSorted(nodes'[q])
  BY DEF AllSorted
<1>11. nodes'[q] = IF q = NewRef THEN l2 ELSE IF q = r THEN m ELSE nodes[q]
  BY <1>9 DEF Laid
<1> QED BY <1>8, <1>10, <1>11 DEF AllSorted

(* What changes no node keeps the order. *)
LEMMA StaysSorted == AllSorted /\ nodes' = nodes => AllSorted'
BY DEF AllSorted

(* recursive_insert keeps the order, wherever it ends. *)
LEMMA InsertSorted ==
  ASSUME Laid, NEW E, NEW B, Shape(E, B), AllSorted, LowKeys,
         NEW k \in Keys, NEW key, Holds(key, k), NEW v \in Values, NEW replace \in BOOLEAN,
         recursive_insert(key, Len(k), v, replace)
  PROVE  AllSorted'
<1> DEFINE p == InsertPlace(key, Len(k))
           n == nodes[p.ref]
           l2 == make_leaf(key, Len(k), v)
           diff == prefix_mismatch(p, key, Len(k))
           same == IS_LEAF(n) /\ leaf_matches(n, key, Len(k))
           New == CASE n = NoNode -> [nodes EXCEPT ![p.ref] = l2]
                    [] IS_LEAF(n) -> SplitLeaf(p, key, l2)
                    [] IsInner(n) /\ diff < n.partial_len -> SplitPrefix(p, key, l2, diff)
                    [] OTHER ->
                         [nodes EXCEPT ![p.ref] = add_child(n, key[Turn(p) + 1], NewRef),
                                       ![NewRef] = l2]
<1>1. \/ /\ same
         /\ nodes' = IF replace THEN [nodes EXCEPT ![p.ref].val = v] ELSE nodes
      \/ /\ ~same /\ Room
         /\ nodes' = New
  BY Zenon DEF recursive_insert
<1>2. IS_LEAF(l2)
  BY MadeLeaf DEF LeafNode, IS_LEAF
<1>3. l2 = make_leaf(key, Len(k), v)
  OBVIOUS
<1>4. CASE nodes[Root] = NoNode
  <2>1. p = Start
    BY <1>4, EmptyDescent DEF InsertPlace
  <2>2. p.ref = Root /\ n = NoNode /\ ~IS_LEAF(n) /\ ~IsInner(n)
    BY <2>1, <1>4 DEF Start, NoNode, IS_LEAF, IsInner, Types
  <2>3. nodes' = New
    BY <1>1, <2>2
  <2>4. New = [nodes EXCEPT ![p.ref] = l2]
    <3> HIDE DEF p, l2, diff
    <3> QED BY <2>2, Zenon
  <2>5. NodeSorted(l2)
    BY <1>2, PlainSorted
  <2> HIDE DEF p, l2, New
  <2> QED BY <2>3, <2>4, <2>5, PutOne
<1>5. CASE nodes[Root] /= NoNode
  <2>1. Root \in Used
    BY <1>5, RefsAssumption DEF Used
  <2>2. p = InsertPlace(key, Len(k)) /\ diff = prefix_mismatch(p, key, Len(k))
    OBVIOUS
  <2> HIDE DEF p, diff, l2
  <2>3. /\ Placed(p, E)
        /\ \/ p.ref \in LeafRefs
           \/ /\ p.ref \in InnerRefs /\ p.depth <= Len(k)
              /\ diff \in Nat /\ diff < nodes[p.ref].partial_len
              /\ Strays(p, key, k, diff, E, B)
           \/ /\ p.ref \in InnerRefs
              /\ ~(diff < nodes[p.ref].partial_len)
              /\ Passes(p, key, k, E, B)
              /\ Chosen(p, key) = 0
    BY <2>1, <2>2, InsertEnds
  <2>4. p.ref \in Used /\ p.ref \in Refs /\ n /= NoNode
    BY <2>3, Depth DEF Used
  <2>5. CASE p.ref \in LeafRefs
    <3>1. IS_LEAF(n) /\ ~IsInner(n) /\ n \in LeafNode
      BY <2>5, <2>4, KindOf DEF LeafRefs
    <3>2. CASE same
      <4>1. CASE replace
        <5>1. nodes' = [nodes EXCEPT ![p.ref].val = v]
          BY <1>1, <3>2, <4>1
        <5>2. NodeSorted([n EXCEPT !.val = v])
          <6>1. IS_LEAF([n EXCEPT !.val = v])
            <7> HIDE DEF n
            <7> QED BY <3>1 DEF LeafNode, IS_LEAF
          <6> QED BY <6>1, PlainSorted
        <5>3. nodes' = [nodes EXCEPT ![p.ref] = [n EXCEPT !.val = v]]
          BY <5>1
        <5> HIDE DEF n
        <5> QED BY <5>2, <5>3, PutOne
      <4>2. CASE ~replace
        BY <1>1, <3>2, <4>2, StaysSorted
      <4> QED BY <4>1, <4>2
    <3>3. CASE ~same
      <4>1. New = SplitLeaf(p, key, l2)
        BY <2>4, <3>1, Zenon
      <4>2. nodes' = SplitLeaf(p, key, l2) /\ Room
        <5> HIDE DEF New, same
        <5> QED BY <1>1, <3>3, <4>1
      <4> QED BY <2>3, <2>5, <4>2, <1>3, LeafSplitSorted
    <3> QED BY <3>2, <3>3
  <2>6. CASE /\ p.ref \in InnerRefs
             /\ diff \in Nat /\ diff < nodes[p.ref].partial_len
             /\ Strays(p, key, k, diff, E, B)
    <3>1. IsInner(n) /\ ~IS_LEAF(n)
      BY <2>6, <2>4, KindOf DEF InnerRefs
    <3>2. New = SplitPrefix(p, key, l2, diff)
      BY <2>4, <2>6, <3>1, Zenon
    <3>3. nodes' = SplitPrefix(p, key, l2, diff) /\ Room
      <4> HIDE DEF New
      <4> QED BY <1>1, <3>1, <3>2
    <3>4. p.depth + diff <= Len(k)
      BY <2>6 DEF Strays
    <3> QED BY <2>3, <2>6, <3>3, <3>4, <1>3, PrefixSplitSorted
  <2>7. CASE /\ p.ref \in InnerRefs
             /\ ~(diff < nodes[p.ref].partial_len)
             /\ Passes(p, key, k, E, B)
             /\ Chosen(p, key) = 0
    <3>1. IsInner(n) /\ ~IS_LEAF(n)
      BY <2>7, <2>4, KindOf DEF InnerRefs
    <3>2. New = LeafTaken(p, key, l2)
      BY <2>4, <2>7, <3>1, Zenon DEF LeafTaken
    <3>3. nodes' = LeafTaken(p, key, l2) /\ Room
      <4> HIDE DEF New
      <4> QED BY <1>1, <3>1, <3>2
    <3> QED BY <2>3, <2>7, <3>3, <1>2, TakenLeafSorted
  <2> HIDE DEF n
  <2> QED BY <2>3, <2>5, <2>6, <2>7
<1> QED BY <1>4, <1>5

(* remove_child keeps the order, in each of its ways. *)
LEMMA RemoveSorted ==
  ASSUME Laid, NEW E, NEW B, Shape(E, B), AllSorted, NEW r \in InnerRefs,
         NEW i \in 1 .. Len(nodes[r].children), nodes' = remove_child(r, i)
  PROVE  AllSorted'
<1> DEFINE n == nodes[r]
           m == [n EXCEPT !.children = RemoveAt(@, i)]
           c == n.children[i].ref
<1>1. /\ WellLaid(n) /\ n \in InnerNode /\ r \in Refs /\ IsInner(n)
      /\ Kids[r] = ToSet(n.children)
      /\ n.children \in Seq(Entries)
  BY KindOf, Typing DEF InnerRefs, InnerNode, Entries
<1>2. Taken(m, n, i)
  BY <1>1, TakenOut
<1>3. Sorted(n.children)
  BY <1>1 DEF AllSorted, NodeSorted
<1>4. m.children = RemoveAt(n.children, i)
  <2> HIDE DEF n
  <2> QED BY <1>1 DEF InnerNode
<1>5. Sorted(m.children)
  <2> HIDE DEF m
  <2> QED BY <1>1, <1>3, <1>4, SortedWithout
<1>6. Removal(nodes', r, i, m)
  BY Zenon DEF remove_child, Removal
<1> HIDE DEF m
<1>7. NodeSorted(m) /\ NodeSorted(NoNode)
  BY <1>5, PlainSorted DEF NodeSorted
<1>8. CASE Len(m.children) /= Shrink[n.type]
  <2>1. nodes' = [nodes EXCEPT ![c] = NoNode, ![r] = m]
    BY <1>6, <1>8 DEF Removal
  <2> HIDE DEF c
  <2> QED BY <2>1, <1>7, PutTwo
<1>9. CASE Len(m.children) = Shrink[n.type] /\ n.type = "NODE4"
  <2> DEFINE f == m.children[1]
             x == nodes[f.ref]
             w == Collapsed(m, x)
  <2>1. Len(m.children) = 1 /\ m.children \in Seq(Entries)
    BY <1>2, <1>9, NodeAssumption DEF Taken, InnerNode, Entries
  <2>2. f \in ToSet(m.children)
    BY <2>1, Among
  <2>3. f \in ToSet(n.children)
    BY <2>2, <1>2 DEF Taken
  <2>4. f.ref \in Used
    BY <2>3, ChildOf
  <2>5. f.ref \in Refs /\ (IS_LEAF(x) \/ (x \in InnerNode /\ IsInner(x)))
    BY <2>4, KindOf DEF Used
  <2>6. NodeSorted(x)
    BY <2>5 DEF AllSorted
  <2>7. NodeSorted(w)
    <3> HIDE DEF x
    <3>1. CASE IS_LEAF(x)
      BY <3>1, <2>6 DEF Collapsed
    <3>2. CASE ~IS_LEAF(x)
      <4>1. x \in InnerNode /\ IsInner(x) /\ Sorted(x.children)
        BY <3>2, <2>5, <2>6 DEF NodeSorted
      <4>2. w.children = x.children
        BY <3>2, <4>1 DEF Collapsed, InnerNode
      <4> HIDE DEF w
      <4> QED BY <4>1, <4>2 DEF NodeSorted
    <3> QED BY <3>1, <3>2
  <2>8. nodes' = [nodes EXCEPT ![c] = NoNode, ![r] = w, ![f.ref] = NoNode]
    BY <1>6, <1>9 DEF Removal
  <2> HIDE DEF w, f, c, x
  <2> SUFFICES ASSUME NEW q \in Refs PROVE NodeSorted(nodes'[q])
    BY DEF AllSorted
  <2>9. nodes'[q] = IF q = f.ref THEN NoNode ELSE IF q = r THEN w
                    ELSE IF q = c THEN NoNode ELSE nodes[q]
    BY <2>8 DEF Laid
  <2> QED BY <1>7, <2>7, <2>9 DEF AllSorted
<1>10. CASE Len(m.children) = Shrink[n.type] /\ n.type /= "NODE4"
  <2> DEFINE w == Resized(m, Smaller[n.type])
  <2>1. m \in InnerNode /\ Distinct(m) /\ n.type \in Types
    BY <1>1, <1>2 DEF Taken, InnerNode
  <2>2. Smaller[n.type] \in Types
    BY <1>10, <2>1 DEF Types, Smaller
  <2>3. NodeSorted(w)
    <3> HIDE DEF n
    <3> QED BY <2>1, <2>2, <1>5, RelayingSorted DEF NodeSorted
  <2>4. nodes' = [nodes EXCEPT ![c] = NoNode, ![r] = w]
    BY <1>6, <1>10 DEF Removal
  <2> HIDE DEF w, c
  <2> QED BY <2>3, <2>4, <1>7, PutTwo
<1> QED BY <1>8, <1>9, <1>10

(* recursive_delete keeps the order. *)
LEMMA DeleteSorted ==
  ASSUME Laid, NEW E, NEW B, Shape(E, B), AllSorted, NEW k \in Keys, NEW key, Holds(key, k),
         recursive_delete(key, Len(k))
  PROVE  AllSorted'
<1> DEFINE p == DeletePlace(key, Len(k))
           n == nodes[p.ref]
           leaf == IF Continues(p, key, Len(k)) THEN nodes[Below(p, key).ref] ELSE n
           same == IS_LEAF(leaf) /\ leaf_matches(leaf, key, Len(k))
<1>1. \/ /\ same
         /\ nodes' = IF IS_LEAF(n) THEN [nodes EXCEPT ![p.ref] = NoNode]
                     ELSE remove_child(p.ref, Chosen(p, key))
      \/ nodes' = nodes
  BY Zenon DEF recursive_delete
<1>2. p = DeletePlace(key, Len(k))
  OBVIOUS
<1>3. CASE \E l \in LeafRefs : nodes[l].key = k
  <2> HIDE DEF p
  <2>1. PICK l \in LeafRefs : nodes[l].key = k
    BY <1>3
  <2>2. CASE nodes' = nodes
    BY <2>2, StaysSorted
  <2>3. CASE nodes' /= nodes /\ IS_LEAF(nodes[p.ref])
    <3>1. nodes' = [nodes EXCEPT ![p.ref] = NoNode]
      BY <1>1, <2>3
    <3>2. NodeSorted(NoNode)
      BY PlainSorted
    <3> QED BY <3>1, <3>2, PutOne
  <2>4. CASE nodes' /= nodes /\ ~IS_LEAF(nodes[p.ref])
    <3>1. Placed(p, E) /\ p.ref \in InnerRefs /\ Chosen(p, key) /= 0
      BY <1>2, <2>1, <2>4, DeleteFinds
    <3>2. nodes' = remove_child(p.ref, Chosen(p, key))
      BY <1>1, <2>4
    <3>3. Chosen(p, key) \in 1 .. Len(nodes[p.ref].children)
      BY <3>1, GoingBelow
    <3> QED BY <3>1, <3>2, <3>3, RemoveSorted
  <2> QED BY <2>2, <2>3, <2>4
<1>4. CASE \A l \in LeafRefs : nodes[l].key /= k
  <2>1. leaf = IF Continues(p, key, Len(k)) THEN nodes[Below(p, key).ref] ELSE nodes[p.ref]
    OBVIOUS
  <2> HIDE DEF p, leaf
  <2>2. ~same
    BY <1>2, <1>4, <2>1, DeleteMisses
  <2> QED BY <1>1, <2>2, StaysSorted
<1> QED BY <1>3, <1>4

(* One place's bytes are first less than another's. *)
Ahead(x, y, E, B) ==
  \E d \in Nat : /\ d < E[x] /\ d < E[y]
                 /\ \A i \in 1 .. d : B[x][i] = B[y][i]
                 /\ B[x][d + 1] < B[y][d + 1]

(* Falling from the root from node to child, MaxKeyLen + 1 times, ends at  *)
(* a leaf, with what holds of all places on the way.                       *)
LEMMA Falling ==
  ASSUME Laid, NEW E, NEW B, Shape(E, B), NEW next \in [Refs -> Refs],
         \A q \in LeafRefs : next[q] = q,
         \A q \in InnerRefs : \E e \in ToSet(nodes[q].children) : next[q] = e.ref,
         NEW Q, \A q \in Q : q \in Used, Root \in Q,
         \A q \in Q : q \in InnerRefs => next[q] \in Q
  PROVE  Iterate(next, Root, MaxKeyLen + 1) \in LeafRefs
         /\ Iterate(next, Root, MaxKeyLen + 1) \in Q
<1> DEFINE P == [i \in Nat |-> {q \in Q : q \in LeafRefs \/ E[q] >= i}]
           N == MaxKeyLen + 1
<1>1. /\ N \in Nat /\ MaxKeyLen \in Nat /\ Used = LeafRefs \cup InnerRefs
      /\ LeafRefs \cap InnerRefs = {}
      /\ \A q \in Used : E[q] \in Nat /\ E[q] <= N /\ q \in Refs
  BY Typing, KeysAssumption
<1>2. ASSUME NEW q \in InnerRefs PROVE next[q] \in Used /\ E[q] < E[next[q]]
  <2>1. PICK e \in ToSet(nodes[q].children) : next[q] = e.ref
    OBVIOUS
  <2> QED BY <2>1, ChildOf
<1>3. ASSUME NEW i \in Nat, NEW q \in Refs, q \in P[i] PROVE next[q] \in P[i + 1]
  <2>1. q \in Q /\ q \in Used /\ (q \in LeafRefs \/ E[q] >= i)
    BY <1>3
  <2>2. CASE q \in LeafRefs
    BY <2>1, <2>2
  <2>3. CASE q \in InnerRefs
    <3>1. next[q] \in Q /\ next[q] \in Used /\ E[q] < E[next[q]]
      BY <2>1, <2>3, <1>2
    <3>2. E[q] >= i /\ E[q] \in Nat /\ E[next[q]] \in Nat
      BY <2>1, <2>3, <3>1, <1>1
    <3>3. E[next[q]] >= i + 1
      BY <3>1, <3>2
    <3> QED BY <3>1, <3>3
  <2> QED BY <2>1, <2>2, <2>3, <1>1
<1>4. Root \in Refs /\ Root \in P[0]
  <2>1. Root \in Used /\ E[Root] \in Nat /\ Root \in Refs
    BY <1>1
  <2>2. E[Root] >= 0
    BY <2>1
  <2> QED BY <2>1, <2>2
<1>5. P[N] = {q \in Q : q \in LeafRefs \/ E[q] >= N}
  BY <1>1
<1> DEFINE l == Iterate(next, Root, N)
<1> HIDE DEF P, N
<1>6. l \in P[N]
  BY <1>1, <1>3, <1>4, Stepping
<1> HIDE DEF l
<1>7. l \in Q /\ l \in Used /\ (l \in LeafRefs \/ E[l] >= N)
  BY <1>5, <1>6
<1>8. l \in LeafRefs
  <2> SUFFICES ASSUME l \in InnerRefs PROVE FALSE
    BY <1>7, <1>1
  <2>1. next[l] \in Used /\ E[l] < E[next[l]]
    BY <1>2
  <2>2. E[l] \in Nat /\ E[next[l]] \in Nat /\ E[next[l]] <= N
    BY <1>7, <2>1, <1>1
  <2>3. l \notin LeafRefs
    BY <1>1
  <2> QED BY <2>1, <2>2, <2>3, <1>7, <1>1
<1> QED BY <1>7, <1>8 DEF l, N

(* A node and one of its children are on the same side of a place.         *)
LEMMA SameSide ==
  ASSUME Laid, NEW E, NEW B, Shape(E, B), NEW q \in InnerRefs,
         NEW e \in ToSet(nodes[q].children), NEW l \in LeafRefs
  PROVE  /\ Ahead(q, l, E, B) => Ahead(e.ref, l, E, B)
         /\ Ahead(l, q, E, B) => Ahead(l, e.ref, E, B)
<1>1. /\ e.ref \in Used /\ E[q] < E[e.ref]
      /\ \A i \in 1 .. E[q] : B[q][i] = B[e.ref][i]
  BY ChildOf DEF Above
<1>2. E[q] \in Nat /\ E[e.ref] \in Nat /\ E[l] \in Nat
  BY <1>1, Typing
<1>3. \A d \in Nat : d < E[q] => /\ d < E[e.ref] /\ B[q][d + 1] = B[e.ref][d + 1]
                                 /\ \A i \in 1 .. d : B[q][i] = B[e.ref][i]
  <2> SUFFICES ASSUME NEW d \in Nat, d < E[q]
               PROVE  /\ d < E[e.ref] /\ B[q][d + 1] = B[e.ref][d + 1]
                      /\ \A i \in 1 .. d : B[q][i] = B[e.ref][i]
    OBVIOUS
  <2>1. d + 1 \in 1 .. E[q] /\ d < E[e.ref] /\ \A i \in 1 .. d : i \in 1 .. E[q]
    BY <1>1, <1>2
  <2> QED BY <2>1, <1>1
<1>4. ASSUME Ahead(q, l, E, B) PROVE Ahead(e.ref, l, E, B)
  <2>1. PICK d \in Nat : /\ d < E[q] /\ d < E[l]
                         /\ \A i \in 1 .. d : B[q][i] = B[l][i]
                         /\ B[q][d + 1] < B[l][d + 1]
    BY <1>4 DEF Ahead
  <2>2. /\ d < E[e.ref] /\ B[q][d + 1] = B[e.ref][d + 1]
        /\ \A i \in 1 .. d : B[q][i] = B[e.ref][i]
    BY <2>1, <1>3
  <2> QED BY <2>1, <2>2 DEF Ahead
<1>5. ASSUME Ahead(l, q, E, B) PROVE Ahead(l, e.ref, E, B)
  <2>1. PICK d \in Nat : /\ d < E[l] /\ d < E[q]
                         /\ \A i \in 1 .. d : B[l][i] = B[q][i]
                         /\ B[l][d + 1] < B[q][d + 1]
    BY <1>5 DEF Ahead
  <2>2. /\ d < E[e.ref] /\ B[q][d + 1] = B[e.ref][d + 1]
        /\ \A i \in 1 .. d : B[q][i] = B[e.ref][i]
    BY <2>1, <1>3
  <2> QED BY <2>1, <2>2 DEF Ahead
<1> QED BY <1>4, <1>5

(* A leaf below a child is where the child's byte puts it among the        *)
(* node's other children.                                                  *)
LEMMA BesideChild ==
  ASSUME Laid, NEW E, NEW B, Shape(E, B), NEW q \in InnerRefs,
         NEW e \in ToSet(nodes[q].children), NEW f \in ToSet(nodes[q].children),
         NEW l \in LeafRefs, Covers(e.ref, l, InnerRefs, E, B)
  PROVE  /\ f.byte < e.byte => Ahead(f.ref, l, E, B)
         /\ e.byte < f.byte => Ahead(l, f.ref, E, B)
<1>1. /\ e.ref \in Used /\ E[q] < E[e.ref] /\ B[e.ref][E[q] + 1] = e.byte
      /\ \A i \in 1 .. E[q] : B[q][i] = B[e.ref][i]
  BY ChildOf DEF Above
<1>2. /\ f.ref \in Used /\ E[q] < E[f.ref] /\ B[f.ref][E[q] + 1] = f.byte
      /\ \A i \in 1 .. E[q] : B[q][i] = B[f.ref][i]
  BY ChildOf DEF Above
<1>3. E[q] \in Nat /\ E[e.ref] \in Nat /\ E[f.ref] \in Nat /\ E[l] \in Nat
  BY <1>1, <1>2, Typing
<1>4. E[e.ref] <= E[l] /\ \A i \in 1 .. E[e.ref] : B[e.ref][i] = B[l][i]
  BY <1>3 DEF Covers, Above
<1>5. E[q] < E[l] /\ E[q] + 1 \in 1 .. E[e.ref] /\ \A i \in 1 .. E[q] : i \in 1 .. E[e.ref]
  BY <1>1, <1>3, <1>4
<1>6. B[l][E[q] + 1] = e.byte /\ \A i \in 1 .. E[q] : B[l][i] = B[f.ref][i]
  BY <1>1, <1>2, <1>4, <1>5
<1> QED BY <1>2, <1>3, <1>5, <1>6 DEF Ahead

(* The first and the last child of a node with its children in order.      *)
LEMMA Outermost ==
  ASSUME Laid, AllSorted, NEW q \in InnerRefs
  PROVE  LET s == nodes[q].children
         IN  /\ Head(s) \in ToSet(s) /\ Last(s) \in ToSet(s)
             /\ \A e \in ToSet(s) : e = Head(s) \/ Head(s).byte < e.byte
             /\ \A e \in ToSet(s) : e = Last(s) \/ e.byte < Last(s).byte
<1> DEFINE s == nodes[q].children
<1>1. /\ WellLaid(nodes[q]) /\ s \in Seq(Entries) /\ nodes[q].type \in Types
      /\ q \in Refs /\ IsInner(nodes[q])
  BY KindOf DEF InnerRefs, InnerNode, Entries
<1>2. Sorted(s) /\ \A i, j \in 1 .. Len(s) : s[i].byte = s[j].byte => i = j
  BY <1>1 DEF AllSorted, NodeSorted, WellLaid
<1>3. Len(s) \in Nat /\ Len(s) /= 0
  BY <1>1, LenProperties, NodeAssumption DEF WellLaid
<1>4. Head(s) = s[1] /\ Last(s) = s[Len(s)]
  BY DEF Last
<1>5. \A i \in 1 .. Len(s) : s[i].byte \in Nat
  <2> HIDE DEF s
  <2> QED BY <1>1, ByteOf
<1> HIDE DEF s
<1>6. 1 \in 1 .. Len(s) /\ Len(s) \in 1 .. Len(s)
  BY <1>3
<1>7. s[1] \in ToSet(s) /\ s[Len(s)] \in ToSet(s)
  BY <1>1, <1>6, Among
<1>8. ASSUME NEW e \in ToSet(s)
      PROVE  /\ e = s[1] \/ s[1].byte < e.byte
             /\ e = s[Len(s)] \/ e.byte < s[Len(s)].byte
  <2>1. PICK j \in 1 .. Len(s) : s[j] = e
    BY <1>1, Among
  <2>2. s[1].byte \in Nat /\ s[j].byte \in Nat /\ s[Len(s)].byte \in Nat
    BY <1>5, <1>6
  <2>3. j = 1 \/ (1 < j /\ s[1].byte <= s[j].byte /\ s[1].byte /= s[j].byte)
    BY <1>2, <1>6, <1>3 DEF Sorted
  <2>4. j = Len(s) \/ (j < Len(s) /\ s[j].byte <= s[Len(s)].byte /\ s[j].byte /= s[Len(s)].byte)
    BY <1>2, <1>6, <1>3 DEF Sorted
  <2> QED BY <2>1, <2>2, <2>3, <2>4
<1> QED BY <1>4, <1>7, <1>8 DEF s

(* The places ahead of all leaves but those below them. *)
Foremost(E, B) ==
  {q \in Used : \A l \in LeafRefs : Covers(q, l, InnerRefs, E, B) \/ Ahead(q, l, E, B)}

(* The places behind all leaves but those below them. *)
Hindmost(E, B) ==
  {q \in Used : \A l \in LeafRefs : Covers(q, l, InnerRefs, E, B) \/ Ahead(l, q, E, B)}

(* The first child of such a place is ahead too, and the last one behind. *)
LEMMA StaysOuter ==
  ASSUME Laid, NEW E, NEW B, Shape(E, B), AllSorted, NEW q \in InnerRefs
  PROVE  /\ q \in Foremost(E, B) => Head(nodes[q].children).ref \in Foremost(E, B)
         /\ q \in Hindmost(E, B) => Last(nodes[q].children).ref \in Hindmost(E, B)
<1> DEFINE s == nodes[q].children
           f == Head(s)
           g == Last(s)
<1>1. /\ f \in ToSet(s) /\ g \in ToSet(s)
      /\ \A e \in ToSet(s) : e = f \/ f.byte < e.byte
      /\ \A e \in ToSet(s) : e = g \/ e.byte < g.byte
  BY Outermost
<1> HIDE DEF f, g
<1>2. f.ref \in Used /\ g.ref \in Used
  BY <1>1, ChildOf
<1>3. q \in Used /\ Kids[q] = ToSet(s) /\ Trie(Used, InnerRefs, E, B, Kids)
      /\ LeafRefs \subseteq Used /\ LeafRefs \cap InnerRefs = {}
  BY Typing
<1>4. ASSUME NEW l \in LeafRefs, Covers(q, l, InnerRefs, E, B)
      PROVE  \E e \in ToSet(s) : Covers(e.ref, l, InnerRefs, E, B)
  <2>1. Above(q, l, InnerRefs, E, B)
    BY <1>3, <1>4 DEF Covers
  <2>2. \E e \in Kids[q] : Covers(e.ref, l, InnerRefs, E, B)
    BY <2>1, <1>3 DEF Trie
  <2> QED BY <2>2, <1>3
<1>5. ASSUME NEW l \in LeafRefs,
             Covers(q, l, InnerRefs, E, B) \/ Ahead(q, l, E, B)
      PROVE  Covers(f.ref, l, InnerRefs, E, B) \/ Ahead(f.ref, l, E, B)
  <2>1. CASE Ahead(q, l, E, B)
    BY <2>1, <1>1, SameSide
  <2>2. CASE Covers(q, l, InnerRefs, E, B)
    <3>1. PICK e \in ToSet(s) : Covers(e.ref, l, InnerRefs, E, B)
      BY <2>2, <1>4
    <3>2. CASE e = f
      BY <3>1, <3>2
    <3>3. CASE f.byte < e.byte
      BY <3>1, <3>3, <1>1, BesideChild
    <3> QED BY <3>2, <3>3, <1>1
  <2> QED BY <2>1, <2>2, <1>5
<1>6. ASSUME NEW l \in LeafRefs,
             Covers(q, l, InnerRefs, E, B) \/ Ahead(l, q, E, B)
      PROVE  Covers(g.ref, l, InnerRefs, E, B) \/ Ahead(l, g.ref, E, B)
  <2>1. CASE Ahead(l, q, E, B)
    BY <2>1, <1>1, SameSide
  <2>2. CASE Covers(q, l, InnerRefs, E, B)
    <3>1. PICK e \in ToSet(s) : Covers(e.ref, l, InnerRefs, E, B)
      BY <2>2, <1>4
    <3>2. CASE e = g
      BY <3>1, <3>2
    <3>3. CASE e.byte < g.byte
      BY <3>1, <3>3, <1>1, BesideChild
    <3> QED BY <3>2, <3>3, <1>1
  <2> QED BY <2>1, <2>2, <1>6
<1>7. ASSUME q \in Foremost(E, B) PROVE f.ref \in Foremost(E, B)
  BY <1>2, <1>5, <1>7 DEF Foremost
<1>8. ASSUME q \in Hindmost(E, B) PROVE g.ref \in Hindmost(E, B)
  BY <1>2, <1>6, <1>8 DEF Hindmost
<1> QED BY <1>7, <1>8 DEF f, g

(* Leaves in the order of their bytes are in that of their keys.           *)
LEMMA AheadBefore ==
  ASSUME Laid, NEW E, NEW B, Shape(E, B), NEW m \in LeafRefs, NEW l \in LeafRefs,
         m = l \/ Ahead(m, l, E, B)
  PROVE  Before(nodes[m].key, nodes[l].key)
<1> DEFINE j == nodes[m].key
           k == nodes[l].key
           max == Least(Len(j), Len(k))
           same == Agreement(j, k, max)
<1>1. /\ j \in Keys /\ Len(j) \in Nat /\ E[m] = Len(j) + 1
      /\ \A i \in 1 .. Len(j) : B[m][i] = j[i]
      /\ B[m][Len(j) + 1] = 0
  BY LeafPath
<1>2. /\ k \in Keys /\ Len(k) \in Nat /\ E[l] = Len(k) + 1
      /\ \A i \in 1 .. Len(k) : B[l][i] = k[i]
      /\ B[l][Len(k) + 1] = 0
  BY LeafPath
<1>2a. \A i \in 1 .. E[m] : B[m][i] \in Nat
  <2>1. \A i \in 1 .. E[m] : B[m][i] \in Bytes
    BY LeafPath
  <2> QED BY <2>1, NodeAssumption DEF Bytes
<1> HIDE DEF j, k
<1>3. max \in Nat /\ max <= Len(j) /\ max <= Len(k) /\ (max = Len(j) \/ max = Len(k))
  BY <1>1, <1>2 DEF Least
<1>4. /\ same \in Nat /\ same <= max
      /\ \A i \in 1 .. same : j[i] = k[i]
      /\ same < max => j[same + 1] /= k[same + 1]
  <2>1. max \in Int
    BY <1>3
  <2> HIDE DEF max
  <2>2. /\ same \in Nat /\ (same <= max \/ same = 0)
        /\ \A i \in 1 .. same : j[i] = k[i]
        /\ same < max => j[same + 1] /= k[same + 1]
    BY <2>1, Agreeing
  <2> QED BY <2>2, <1>3
<1>5. Before(j, k) <=> CASE same = Len(j) -> TRUE
                         [] same < Len(j) /\ same = Len(k) -> FALSE
                         [] OTHER -> j[same + 1] <= k[same + 1]
  BY Zenon DEF Before
<1> HIDE DEF max, same
<1>6. same = Len(j) => Before(j, k)
  BY <1>5
<1>7. same < Len(j) /\ same /= Len(k) /\ j[same + 1] <= k[same + 1] => Before(j, k)
  BY <1>5, <1>1, <1>4
<1>8. CASE m = l
  <2>1. j = k
    BY <1>8 DEF j, k
  <2>2. same = Len(j)
    BY <2>1, <1>1, <1>3, <1>4
  <2> QED BY <2>2, <1>6 DEF j, k
<1>9. CASE Ahead(m, l, E, B)
  <2>1. PICK d \in Nat : /\ d < E[m] /\ d < E[l]
                         /\ \A i \in 1 .. d : B[m][i] = B[l][i]
                         /\ B[m][d + 1] < B[l][d + 1]
    BY <1>9 DEF Ahead
  <2>2. d <= Len(j) /\ d <= Len(k)
    BY <2>1, <1>1, <1>2
  <2>3. \A i \in 1 .. d : j[i] = k[i]
    <3> SUFFICES ASSUME NEW i \in 1 .. d PROVE j[i] = k[i]
      OBVIOUS
    <3>1. i \in 1 .. Len(j) /\ i \in 1 .. Len(k)
      BY <2>2, <1>1, <1>2
    <3> QED BY <3>1, <2>1, <1>1, <1>2
  <2>4. d /= Len(k)
    <3>1. d + 1 \in 1 .. E[m]
      BY <2>1, <1>1
    <3>2. B[m][d + 1] \in Nat
      BY <3>1, <1>2a
    <3> QED BY <3>2, <2>1, <1>2
  <2>5. ~(same < d)
    <3> SUFFICES ASSUME same < d PROVE FALSE
      OBVIOUS
    <3>1. same < max /\ same + 1 \in 1 .. d
      BY <2>2, <1>1, <1>2, <1>3, <1>4
    <3> QED BY <3>1, <2>3, <1>4
  <2>6. CASE d = Len(j)
    <3>1. same = Len(j)
      BY <2>5, <2>6, <1>1, <1>3, <1>4
    <3> QED BY <3>1, <1>6 DEF j, k
  <2>7. CASE d /= Len(j)
    <3>1. d + 1 \in 1 .. Len(j) /\ d + 1 \in 1 .. Len(k)
      BY <2>2, <2>4, <2>7, <1>1, <1>2
    <3>2. j[d + 1] < k[d + 1] /\ j[d + 1] \in Nat
      <4>1. d + 1 \in 1 .. E[m]
        BY <2>1, <1>1
      <4> QED BY <4>1, <3>1, <2>1, <1>1, <1>2, <1>2a
    <3>2a. k[d + 1] \in Nat
      <4>1. k[d + 1] \in 1 .. NBytes - 1
        BY <3>1, <1>2, KeyFacts
      <4> QED BY <4>1, NodeAssumption
    <3>3. ~(d < same)
      <4> SUFFICES ASSUME d < same PROVE FALSE
        OBVIOUS
      <4>1. d + 1 \in 1 .. same
        BY <1>4
      <4> QED BY <4>1, <3>2, <3>2a, <1>4
    <3>4. same = d
      BY <3>3, <2>5, <1>4
    <3>5. same < Len(j) /\ same /= Len(k) /\ j[same + 1] <= k[same + 1]
      BY <3>2, <3>2a, <3>4, <2>2, <2>4, <2>7, <1>1
    <3> QED BY <3>5, <1>7 DEF j, k
  <2> QED BY <2>6, <2>7
<1> QED BY <1>8, <1>9

(* The leaf the first children lead to is ahead of all others, and the *)
(* one the last children lead to behind.                               *)
LEMMA EndsRight ==
  ASSUME Laid, NEW E, NEW B, Shape(E, B), AllSorted
  PROVE  EndsOrdered
<1> SUFFICES ASSUME NEW r \in LeafRefs
             PROVE  /\ Before(minimum(Root).key, nodes[r].key)
                    /\ Before(nodes[r].key, maximum(Root).key)
  BY DEF EndsOrdered, Leaves
<1>1. /\ r \in Used /\ Trie(Used, InnerRefs, E, B, Kids) /\ LeafRefs \cap InnerRefs = {}
      /\ Used = LeafRefs \cup InnerRefs
      /\ \A q \in Used : q \in Refs
  BY Typing
<1>2. Root \in Used /\ \A x \in Used : Covers(Root, x, InnerRefs, E, B)
  BY <1>1 DEF Trie
<1>3. Root \in Foremost(E, B) /\ Root \in Hindmost(E, B)
  BY <1>1, <1>2 DEF Foremost, Hindmost
<1>4. \A q \in InnerRefs : /\ Head(nodes[q].children) \in ToSet(nodes[q].children)
                           /\ Last(nodes[q].children) \in ToSet(nodes[q].children)
                           /\ Head(nodes[q].children).ref \in Refs
                           /\ Last(nodes[q].children).ref \in Refs
  <2> SUFFICES ASSUME NEW q \in InnerRefs
               PROVE  /\ Head(nodes[q].children) \in ToSet(nodes[q].children)
                      /\ Last(nodes[q].children) \in ToSet(nodes[q].children)
                      /\ Head(nodes[q].children).ref \in Refs
                      /\ Last(nodes[q].children).ref \in Refs
    OBVIOUS
  <2>1. /\ Head(nodes[q].children) \in ToSet(nodes[q].children)
        /\ Last(nodes[q].children) \in ToSet(nodes[q].children)
    BY Outermost
  <2>2. \A e \in ToSet(nodes[q].children) : e.ref \in Used
    BY ChildOf
  <2> QED BY <2>1, <2>2, <1>1
<1>5. \A m \in LeafRefs, x \in LeafRefs : Covers(m, x, InnerRefs, E, B) => m = x
  BY <1>1 DEF Covers, Above
<1>6. Before(minimum(Root).key, nodes[r].key)
  <2> DEFINE next == [q \in Refs |-> IF IsInner(nodes[q]) THEN Head(nodes[q].children).ref
                                     ELSE q]
             m == Iterate(next, Root, MaxKeyLen + 1)
  <2>1. minimum(Root) = nodes[m]
    BY DEF minimum
  <2>2. next \in [Refs -> Refs]
    BY <1>4 DEF InnerRefs
  <2>3. \A q \in InnerRefs : next[q] = Head(nodes[q].children).ref
    BY DEF InnerRefs
  <2>4. \A q \in LeafRefs : next[q] = q
    BY <1>1 DEF InnerRefs, LeafRefs
  <2> HIDE DEF next
  <2>5. \A q \in InnerRefs : \E e \in ToSet(nodes[q].children) : next[q] = e.ref
    BY <2>3, <1>4
  <2>6. \A q \in Foremost(E, B) : q \in InnerRefs => next[q] \in Foremost(E, B)
    BY <2>3, StaysOuter
  <2>7. \A q \in Foremost(E, B) : q \in Used
    BY DEF Foremost
  <2>8. m \in LeafRefs /\ m \in Foremost(E, B)
    BY <2>2, <2>4, <2>5, <2>6, <2>7, <1>3, Falling
  <2> HIDE DEF m
  <2>9. m = r \/ Ahead(m, r, E, B)
    BY <2>8, <1>5 DEF Foremost
  <2> QED BY <2>1, <2>8, <2>9, AheadBefore
<1>7. Before(nodes[r].key, maximum(Root).key)
  <2> DEFINE next == [q \in Refs |-> IF IsInner(nodes[q]) THEN Last(nodes[q].children).ref
                                     ELSE q]
             m == Iterate(next, Root, MaxKeyLen + 1)
  <2>1. maximum(Root) = nodes[m]
    BY DEF maximum
  <2>2. next \in [Refs -> Refs]
    BY <1>4 DEF InnerRefs
  <2>3. \A q \in InnerRefs : next[q] = Last(nodes[q].children).ref
    BY DEF InnerRefs
  <2>4. \A q \in LeafRefs : next[q] = q
    BY <1>1 DEF InnerRefs, LeafRefs
  <2> HIDE DEF next
  <2>5. \A q \in InnerRefs : \E e \in ToSet(nodes[q].children) : next[q] = e.ref
    BY <2>3, <1>4
  <2>6. \A q \in Hindmost(E, B) : q \in InnerRefs => next[q] \in Hindmost(E, B)
    BY <2>3, StaysOuter
  <2>7. \A q \in Hindmost(E, B) : q \in Used
    BY DEF Hindmost
  <2>8. m \in LeafRefs /\ m \in Hindmost(E, B)
    BY <2>2, <2>4, <2>5, <2>6, <2>7, <1>3, Falling
  <2> HIDE DEF m
  <2>9. m = r \/ Ahead(r, m, E, B)
    BY <2>8, <1>5 DEF Hindmost
  <2> QED BY <2>1, <2>8, <2>9, AheadBefore
<1> QED BY <1>6, <1>7

(* Every call keeps the order. *)
LEMMA SortedNext ==
  ASSUME ZeroAfterKey, LowKeys, ArtInv, AllSorted, [Next]_vars
  PROVE  AllSorted'
<1>1. Laid
  BY DEF ArtInv, TypeOK, Laid
<1>2. PICK E, B : Shape(E, B)
  BY DEF ArtInv, InShape
<1>3. CASE nodes' = nodes
  BY <1>3, StaysSorted
<1>4. ASSUME NEW k \in Keys, NEW rest \in Rests, NEW v \in Values,
             art_insert(k, v, rest) \/ art_insert_no_replace(k, v, rest)
      PROVE  AllSorted'
  <2>1. PICK key : key = k \o rest
    OBVIOUS
  <2>2. Holds(key, k)
    BY <2>1, Buffered DEF ZeroAfterKey
  <2>3. PICK replace \in BOOLEAN : recursive_insert(key, Len(k), v, replace)
    BY <2>1, <1>4 DEF art_insert, art_insert_no_replace
  <2> QED BY <2>2, <2>3, <1>1, <1>2, InsertSorted
<1>5. ASSUME NEW k \in Keys, NEW rest \in Rests, art_delete(k, rest)
      PROVE  AllSorted'
  <2>1. PICK key : key = k \o rest
    OBVIOUS
  <2>2. Holds(key, k)
    BY <2>1, Buffered DEF ZeroAfterKey
  <2>3. recursive_delete(key, Len(k))
    BY <2>1, <1>5 DEF art_delete
  <2> QED BY <2>2, <2>3, <1>1, <1>2, DeleteSorted
<1>6. CASE Next
  <2>1. \A k, rest : Search(k, rest) => nodes' = nodes
    BY DEF Search
  <2> QED BY <2>1, <1>3, <1>4, <1>5, <1>6 DEF Next
<1> QED BY <1>3, <1>6 DEF vars

(* minimum and maximum return the leaves with the least and the greatest *)
(* key (art.c:294-357) as long as no byte of a key is in the upper half, *)
(* whatever nodes grew, split, collapsed or shrank.                      *)
THEOREM EndsOrderedAlways == ZeroAfterKey /\ LowKeys => (Spec => []EndsOrdered)
<1> SUFFICES ASSUME ZeroAfterKey, LowKeys PROVE Spec => []EndsOrdered
  OBVIOUS
<1>1. Init => AllSorted
  BY PlainSorted DEF Init, AllSorted
<1>2. ArtInv /\ AllSorted /\ [Next]_vars => AllSorted'
  BY SortedNext
<1>3. ArtInv /\ AllSorted => EndsOrdered
  <2> SUFFICES ASSUME ArtInv, AllSorted PROVE EndsOrdered
    OBVIOUS
  <2>1. Laid
    BY DEF ArtInv, TypeOK, Laid
  <2>2. PICK E, B : Shape(E, B)
    BY DEF ArtInv, InShape
  <2> QED BY <2>1, <2>2, EndsRight
<1>4. Spec => []ArtInv
  BY ArtInvAlways
<1> QED BY <1>1, <1>2, <1>3, <1>4, PTL DEF Spec
=============================================================================
