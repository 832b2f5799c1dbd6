----------------------------- MODULE ArtShapeProofs -----------------------------
(***************************************************************************)
(* The shape of the adaptive radix tree, what leads to each of its places, *)
(* and what every change of the nodes (src/src/art.c: a split, a new       *)
(* child, a removed one, a collapse) leaves of it.                         *)
(*                                                                         *)
(* First come trees of bytes with nothing of the code in them (Trie), then *)
(* the children arrays, then the ways down the tree, and last the changes. *)
(* ArtProofs has the calls and the theorems.                               *)
(***************************************************************************)
EXTENDS Art, FoldLemmas, SequenceTheorems, TLAPS

(* The inner place s is on the way to x: E[x] is the number of bytes that *)
(* lead to the end of x, B[x] the bytes, and I the inner places. Those of *)
(* s are the first of those of x.                                         *)
Above(s, x, I, E, B) ==
  /\ s \in I
  /\ E[s] < E[x]
  /\ \A i \in 1 .. E[s] : B[s][i] = B[x][i]

(* x is s, or below it. *)
Covers(s, x, I, E, B) == x = s \/ Above(s, x, I, E, B)

(* Two places that the same bytes lead to. *)
Same(x, y, E, B) == E[x] = E[y] /\ \A i \in 1 .. E[x] : B[x][i] = B[y][i]

(* What a tree of bytes is, whatever its nodes are: U the places in use, *)
(* I the inner ones, K[s] the entries of s. An entry leads on from its   *)
(* node by its byte; two entries of a node have two bytes; whatever is   *)
(* below a node is below an entry of it; no two places have the same     *)
(* bytes; and all of them are below the root.                            *)
Trie(U, I, E, B, K) ==
  /\ I \subseteq U
  /\ \A x \in U : E[x] \in Nat
  /\ \A s \in I : \A e \in K[s] : /\ e.ref \in U
                                  /\ Above(s, e.ref, I, E, B)
                                  /\ B[e.ref][E[s] + 1] = e.byte
  /\ \A s \in I : \A e, f \in K[s] : e.byte = f.byte => e = f
  /\ \A s \in I, x \in U : Above(s, x, I, E, B) => \E e \in K[s] : Covers(e.ref, x, I, E, B)
  /\ \A x, y \in U : Same(x, y, E, B) => x = y
  /\ \A x \in U : Root \in U /\ Covers(Root, x, I, E, B)

(* The places in use. *)
Used == {r \in Refs : nodes[r] /= NoNode}

(* Those of the inner nodes. *)
InnerRefs == {r \in Refs : IsInner(nodes[r])}

(* The entries of each of those. *)
Kids == [r \in InnerRefs |-> ToSet(nodes[r].children)]

(* The place r is reached with d bytes of the key used: it is the root, *)
(* or a child, and the child's byte is the last of them.                *)
SlotIn(r, d, I, E, K) ==
  \/ r = Root /\ d = 0
  \/ \E s \in I : \E e \in K[s] : e.ref = r /\ d = E[s] + 1

(* The same in the tree the nodes are. *)
Slot(r, d, E) == SlotIn(r, d, InnerRefs, E, Kids)

(* The bytes that lead to a leaf are those of its key and the terminator *)
(* (art.c:568-582: the byte at Len(key) is the 0 after it).              *)
LeafAt(n, e, b) ==
  /\ e = Len(n.key) + 1
  /\ \A i \in 1 .. e : b[i] = LeafByte(n, i - 1)

(* The bytes that lead to the end of an inner node are none of them 0,  *)
(* and the node stores the first MAX_PREFIX_LEN of its partial_len last *)
(* ones.                                                                *)
InnerAt(n, e, b) ==
  /\ \A i \in 1 .. e : b[i] \in 1 .. NBytes - 1
  /\ n.partial = [i \in 1 .. Least(MAX_PREFIX_LEN, n.partial_len) |->
                    b[(e - n.partial_len) + i]]

(* The shape of the tree in the nodes: E and B name, for every place, the *)
(* bytes that lead to it.                                                 *)
Shape(E, B) ==
  /\ Trie(Used, InnerRefs, E, B, Kids)
  /\ \A r \in Used : E[r] <= MaxKeyLen + 1
  /\ \A r \in LeafRefs : LeafAt(nodes[r], E[r], B[r])
  /\ \A r \in InnerRefs : /\ Slot(r, E[r] - nodes[r].partial_len, E)
                           /\ InnerAt(nodes[r], E[r], B[r])

(* What is below a place below s is below s. *)
LEMMA Through ==
  ASSUME NEW I, NEW E, NEW B, NEW s, NEW t, NEW x,
         E[s] \in Nat, E[t] \in Nat, E[x] \in Nat,
         Above(s, t, I, E, B), Covers(t, x, I, E, B)
  PROVE  Above(s, x, I, E, B)
<1>1. CASE x = t
  BY <1>1
<1>2. CASE Above(t, x, I, E, B)
  BY <1>2 DEF Above
<1> QED
  BY <1>1, <1>2 DEF Covers

(* Of two places above x the one with fewer bytes is above the other. *)
LEMMA InLine ==
  ASSUME NEW U, NEW I, NEW E, NEW B, NEW K, Trie(U, I, E, B, K),
         NEW x \in U, NEW s \in I, NEW t \in I,
         Above(s, x, I, E, B), Above(t, x, I, E, B), E[s] <= E[t]
  PROVE  Covers(s, t, I, E, B)
<1>1. E[s] \in Nat /\ E[t] \in Nat /\ s \in U /\ t \in U
  BY DEF Trie
<1>2. \A i \in 1 .. E[s] : B[s][i] = B[t][i]
  BY <1>1 DEF Above
<1>3. CASE E[s] = E[t]
  <2>1. Same(s, t, E, B)
    BY <1>2, <1>3 DEF Same
  <2> QED
    BY <2>1, <1>1 DEF Trie, Covers
<1>4. CASE E[s] < E[t]
  BY <1>2, <1>4 DEF Above, Covers
<1> QED
  BY <1>1, <1>3, <1>4

(* The way from s to a place below it starts with the entry of its next *)
(* byte.                                                                *)
LEMMA Onward ==
  ASSUME NEW U, NEW I, NEW E, NEW B, NEW K, Trie(U, I, E, B, K),
         NEW s \in I, NEW x \in U, Above(s, x, I, E, B)
  PROVE  \E e \in K[s] : /\ Covers(e.ref, x, I, E, B)
                         /\ e.ref \in U
                         /\ e.byte = B[x][E[s] + 1]
                         /\ Above(s, e.ref, I, E, B)
                         /\ B[e.ref][E[s] + 1] = B[x][E[s] + 1]
<1>1. PICK e \in K[s] : Covers(e.ref, x, I, E, B)
  BY DEF Trie
<1>2. e.ref \in U /\ Above(s, e.ref, I, E, B) /\ B[e.ref][E[s] + 1] = e.byte
  BY DEF Trie
<1>3. E[s] \in Nat /\ E[e.ref] \in Nat
  BY <1>2 DEF Trie
<1>4. B[e.ref][E[s] + 1] = B[x][E[s] + 1]
  <2>1. E[s] + 1 \in 1 .. E[e.ref]
    BY <1>2, <1>3 DEF Above
  <2> QED
    BY <2>1, <1>1 DEF Covers, Above
<1> QED
  BY <1>1, <1>2, <1>4

(* Two entries of the same place are the same entry of the same node. *)
LEMMA OneParent ==
  ASSUME NEW U, NEW I, NEW E, NEW B, NEW K, Trie(U, I, E, B, K),
         NEW s \in I, NEW t \in I, NEW e \in K[s], NEW f \in K[t], e.ref = f.ref
  PROVE  s = t /\ e = f
<1> DEFINE c == e.ref
<1>0. /\ c \in U /\ Above(s, c, I, E, B) /\ Above(t, c, I, E, B)
      /\ s \in U /\ t \in U
      /\ B[c][E[s] + 1] = e.byte /\ B[c][E[t] + 1] = f.byte
  BY DEF Trie
<1>1. E[s] \in Nat /\ E[t] \in Nat /\ E[c] \in Nat
  BY <1>0 DEF Trie
<1>2. ASSUME NEW a \in I, NEW b \in I, NEW g \in K[a], g.ref = c,
             Above(a, c, I, E, B), Above(b, c, I, E, B), a \in U, b \in U,
             E[a] <= E[b], a /= b
      PROVE  FALSE
  <2>0. E[a] \in Nat /\ E[b] \in Nat
    BY <1>2 DEF Trie
  <2>1. Above(a, b, I, E, B)
    BY <1>0, <1>2, InLine DEF Covers
  <2>2. PICK h \in K[a] : /\ Covers(h.ref, b, I, E, B)
                          /\ h.byte = B[b][E[a] + 1]
    BY <2>1, <1>2, Onward
  <2>3. B[b][E[a] + 1] = B[c][E[a] + 1]
    <3>1. E[a] + 1 \in 1 .. E[b]
      BY <2>0, <2>1 DEF Above
    <3> QED
      BY <3>1, <1>2 DEF Above
  <2>4. B[c][E[a] + 1] = g.byte
    BY <1>2 DEF Trie
  <2>5. h = g
    BY <2>2, <2>3, <2>4, <1>2 DEF Trie
  <2>6. Covers(c, b, I, E, B)
    BY <2>2, <2>5, <1>2
  <2>7. E[c] <= E[b]
    BY <2>6, <1>1, <2>0 DEF Covers, Above
  <2> QED
    BY <2>7, <1>1, <2>0, <1>2 DEF Above
<1>3. s = t
  <2>1. E[s] <= E[t] \/ E[t] <= E[s]
    BY <1>1
  <2> QED
    BY <2>1, <1>2, <1>0
<1> QED
  BY <1>3, <1>0 DEF Trie

(* Whatever agrees with x up to a place below x's parent is below x. *)
LEMMA OnlyWay ==
  ASSUME NEW U, NEW I, NEW E, NEW B, NEW K, Trie(U, I, E, B, K),
         NEW p \in U, NEW d \in Nat, d <= E[p],
         \/ p = Root 
         \/ \E q \in I : \E e \in K[q] : e.ref = p /\ E[q] < d,
         NEW y \in U, d <= E[y], \A i \in 1 .. d : B[p][i] = B[y][i]
  PROVE  Covers(p, y, I, E, B)
<1>1. CASE p = Root
  BY <1>1 DEF Trie
<1>2. CASE \E q \in I : \E e \in K[q] : e.ref = p /\ E[q] < d
  <2>0. PICK q \in I : \E e \in K[q] : e.ref = p /\ E[q] < d
    BY <1>2
  <2>1. PICK e \in K[q] : e.ref = p /\ E[q] < d
    BY <2>0
  <2>2. /\ E[q] \in Nat /\ E[y] \in Nat /\ q \in U /\ Above(q, p, I, E, B)
        /\ B[p][E[q] + 1] = e.byte
    BY <2>1 DEF Trie
  <2>3. Above(q, y, I, E, B)
    BY <2>1, <2>2 DEF Above
  <2>4. PICK f \in K[q] : Covers(f.ref, y, I, E, B) /\ f.byte = B[y][E[q] + 1]
    BY <2>3, Onward
  <2>5. E[q] + 1 \in 1 .. d
    BY <2>1, <2>2
  <2>6. f.byte = e.byte
    BY <2>2, <2>4, <2>5
  <2>7. f = e
    BY <2>6 DEF Trie
  <2> QED
    BY <2>7, <2>4, <2>1
<1> QED
  BY <1>1, <1>2

(* A node s that took an entry e for a byte of its own, and the new place *)
(* below it.                                                              *)
Branched(U, I, E, B, K, E2, B2, K2, s, e) ==
  LET x == e.ref
  IN  /\ Trie(U, I, E, B, K)
      /\ s \in I /\ x \notin U
      /\ \A y \in U : E2[y] = E[y] /\ B2[y] = B[y]
      /\ E2[x] \in Nat /\ Above(s, x, I, E2, B2)
      /\ \A t \in I : t /= s => K2[t] = K[t]
      /\ K2[s] = K[s] \cup {e} /\ e.byte = B2[x][E[s] + 1]
      /\ \A f \in K[s] : f.byte /= e.byte

(* Such a tree is one again (with the new place named, for the prover). *)
LEMMA AddKidPlace ==
  ASSUME NEW U, NEW I, NEW E, NEW B, NEW K, NEW E2, NEW B2, NEW K2, NEW s, NEW e,
         NEW x, x = e.ref, Branched(U, I, E, B, K, E2, B2, K2, s, e)
  PROVE  Trie(U \cup {x}, I, E2, B2, K2)
<1> USE DEF Branched
<1> DEFINE U2 == U \cup {x}
<1>0. /\ I \subseteq U /\ \A y \in U : E[y] \in Nat
      /\ \A y \in U2 : E2[y] \in Nat
  BY DEF Trie
<1>1. \A y, z \in U : Above(y, z, I, E2, B2) <=> Above(y, z, I, E, B)
  BY DEF Above
<1>2. \A y, z \in U : Covers(y, z, I, E2, B2) <=> Covers(y, z, I, E, B)
  BY <1>1 DEF Covers
<1>3. ASSUME NEW t \in I, NEW f \in K2[t]
      PROVE  f.ref \in U2 /\ Above(t, f.ref, I, E2, B2) /\ B2[f.ref][E2[t] + 1] = f.byte
  <2>1. CASE f \in K[t]
    <3>1. f.ref \in U /\ Above(t, f.ref, I, E, B) /\ B[f.ref][E[t] + 1] = f.byte
      BY <2>1 DEF Trie
    <3> QED
      BY <3>1, <1>1, <1>0
  <2>2. CASE t = s /\ f = e
    BY <2>2, <1>0
  <2> QED
    BY <2>1, <2>2
<1>4. \A t \in I : \A f, g \in K2[t] : f.byte = g.byte => f = g
  <2>1. \A t \in I : \A f, g \in K[t] : f.byte = g.byte => f = g
    BY DEF Trie
  <2> QED
    BY <2>1
<1>5. ASSUME NEW t \in I, Above(t, x, I, E2, B2), E[s] < E[t]
      PROVE  FALSE
  <2>1. Above(s, t, I, E, B)
    BY <1>0, <1>5 DEF Above
  <2>2. PICK f \in K[s] : f.byte = B[t][E[s] + 1]
    BY <2>1, <1>0, Onward
  <2>3. E[s] + 1 \in 1 .. E[t]
    BY <1>5, <1>0
  <2>4. B[t][E[s] + 1] = B2[x][E[s] + 1]
    BY <1>5, <2>3, <1>0 DEF Above
  <2> QED
    BY <2>2, <2>4
<1>6. ASSUME NEW t \in I, NEW y \in U2, Above(t, y, I, E2, B2)
      PROVE  \E f \in K2[t] : Covers(f.ref, y, I, E2, B2)
  <2>1. CASE y \in U
    <3>1. Above(t, y, I, E, B)
      BY <2>1, <1>6, <1>1, <1>0
    <3>2. PICK f \in K[t] : Covers(f.ref, y, I, E, B) /\ f.ref \in U
      BY <2>1, <3>1, Onward
    <3> QED
      BY <3>2, <2>1, <1>2
  <2>2. CASE y = x /\ t = s
    BY <2>2 DEF Covers
  <2>3. CASE y = x /\ t /= s
    <3>1. E[t] <= E[s]
      BY <2>3, <1>6, <1>5, <1>0
    <3>2. \A i \in 1 .. E[t] : B[t][i] = B[s][i]
      BY <2>3, <1>6, <3>1, <1>0 DEF Above
    <3>3. E[t] /= E[s]
      <4>1. ~ Same(t, s, E, B)
        BY <2>3, <1>0 DEF Trie
      <4> QED
        BY <4>1, <3>2 DEF Same
    <3>4. Above(t, s, I, E, B)
      BY <3>1, <3>2, <3>3, <1>0 DEF Above
    <3>5. PICK f \in K[t] : Covers(f.ref, s, I, E, B) /\ f.ref \in U
      BY <3>4, <1>0, Onward
    <3>6. Covers(f.ref, s, I, E2, B2)
      BY <3>5, <1>2, <1>0
    <3>7. Covers(f.ref, x, I, E2, B2)
      BY <3>5, <3>6, <1>0, Through DEF Covers
    <3> QED
      BY <3>5, <3>7, <2>3
  <2> QED
    BY <2>1, <2>2, <2>3
<1>7. ASSUME NEW y \in U PROVE ~ Same(x, y, E2, B2) /\ ~ Same(y, x, E2, B2)
  <2> SUFFICES ASSUME E2[x] = E2[y], \A i \in 1 .. E2[x] : B2[x][i] = B2[y][i]
               PROVE  FALSE
    BY DEF Same
  <2>1. Above(s, y, I, E, B)
    BY <1>0 DEF Above
  <2>2. PICK f \in K[s] : f.byte = B[y][E[s] + 1]
    BY <2>1, Onward
  <2>3. E[s] + 1 \in 1 .. E2[x]
    BY <1>0 DEF Above
  <2> QED
    BY <2>2, <2>3
<1>8. \A y, z \in U2 : Same(y, z, E2, B2) => y = z
  <2>1. \A y, z \in U : Same(y, z, E2, B2) => y = z
    BY DEF Trie, Same
  <2> QED
    BY <2>1, <1>7
<1>9. ASSUME NEW y \in U2 PROVE Root \in U2 /\ Covers(Root, y, I, E2, B2)
  <2>1. \A z \in U : Root \in U /\ Covers(Root, z, I, E2, B2)
    BY <1>2 DEF Trie
  <2>2. Covers(Root, x, I, E2, B2)
    BY <2>1, <1>0, Through DEF Covers
  <2> QED
    BY <2>1, <2>2, <1>0
<1> QED
  BY <1>0, <1>3, <1>4, <1>6, <1>8, <1>9 DEF Trie

(* Such a tree is one again. *)
LEMMA AddKid ==
  ASSUME NEW U, NEW I, NEW E, NEW B, NEW K, NEW E2, NEW B2, NEW K2, NEW s, NEW e,
         Branched(U, I, E, B, K, E2, B2, K2, s, e)
  PROVE  Trie(U \cup {e.ref}, I, E2, B2, K2)
BY AddKidPlace

(* The place p after a split at d of its bytes: what was in it is now in *)
(* the new place of e, and beside it is the new place of f with another  *)
(* byte at d + 1.                                                        *)
Divided(U, I, E, B, K, I2, E2, B2, K2, p, d, e, f) ==
  LET a == e.ref
      b == f.ref
  IN  /\ Trie(U, I, E, B, K)
      /\ p \in U /\ a \notin U /\ b \notin U /\ a /= b
      /\ d \in Nat /\ d < E[p]
      /\ \/ p = Root
         \/ \E q \in I : \E g \in K[q] : g.ref = p /\ E[q] < d
      /\ \A y \in U \ {p} : E2[y] = E[y] /\ B2[y] = B[y]
      /\ E2[a] = E[p] /\ B2[a] = B[p] /\ E2[p] = d /\ B2[p] = B[p]
      /\ E2[b] \in Nat /\ d < E2[b]
      /\ \A i \in 1 .. d : B[p][i] = B2[b][i]
      /\ B[p][d + 1] /= B2[b][d + 1]
      /\ I2 = I \cup {p} \cup (IF p \in I THEN {a} ELSE {})
      /\ \A t \in I \ {p} : K2[t] = K[t]
      /\ p \in I => K2[a] = K[p]
      /\ K2[p] = {e, f} /\ e.byte = B[p][d + 1] /\ f.byte = B2[b][d + 1]

(* A tree with such a split is one again (with the new places named). *)
LEMMA SplitAtPlaces ==
  ASSUME NEW U, NEW I, NEW E, NEW B, NEW K, NEW I2, NEW E2, NEW B2, NEW K2,
         NEW p, NEW d, NEW e, NEW f, NEW a, NEW b, a = e.ref, b = f.ref,
         Divided(U, I, E, B, K, I2, E2, B2, K2, p, d, e, f)
  PROVE  Trie(U \cup {a, b}, I2, E2, B2, K2)
<1> USE DEF Divided
<1> DEFINE U2 == U \cup {a, b}
           A1(s, x) == Above(s, x, I, E, B)
           A2(s, x) == Above(s, x, I2, E2, B2)
           C1(s, x) == Covers(s, x, I, E, B)
           C2(s, x) == Covers(s, x, I2, E2, B2)
<1>0. /\ I \subseteq U /\ \A y \in U : E[y] \in Nat
      /\ \A y \in U2 : E2[y] \in Nat
      /\ p \in U2 /\ a \in U2 /\ b \in U2 /\ p /= a /\ p /= b /\ a \notin I /\ b \notin I
      /\ I2 \subseteq U2 /\ p \in I2 /\ b \notin I2 /\ (a \in I2 <=> p \in I)
      /\ \A t : t \in I2 /\ t /= p /\ t /= a <=> t \in I \ {p}
  BY DEF Trie
<1>1. ASSUME NEW y \in U, d <= E[y], \A i \in 1 .. d : B[p][i] = B[y][i]
      PROVE  C1(p, y)
  BY <1>1, <1>0, OnlyWay
<1>2. ASSUME NEW t \in I, t /= p, A1(t, p) PROVE E[t] < d
  <2> SUFFICES ASSUME d <= E[t] PROVE FALSE
    BY <1>0
  <2>1. \A i \in 1 .. d : B[p][i] = B[t][i]
    BY <1>2, <1>0 DEF Above
  <2>2. C1(p, t)
    BY <2>1, <1>1, <1>0
  <2> QED
    BY <2>2, <1>2, <1>0 DEF Covers, Above
<1>3. \A t \in I \ {p}, y \in U \ {p} : A2(t, y) <=> A1(t, y)
  BY <1>0 DEF Above
<1>4. \A t \in I \ {p} : A2(t, a) <=> A1(t, p)
  BY <1>0 DEF Above
<1>5. \A y \in U \ {p} : p \in I => (A2(a, y) <=> A1(p, y))
  BY <1>0 DEF Above
<1>6. \A t \in I \ {p} : A2(t, p) <=> A1(t, p)
  BY <1>0, <1>2 DEF Above
<1>7. \A y \in U \ {p} : A2(p, y) <=> A1(p, y)
  <2> TAKE y \in U \ {p}
  <2>1. ASSUME A2(p, y) PROVE A1(p, y)
    <3>1. d <= E[y] /\ \A i \in 1 .. d : B[p][i] = B[y][i]
      BY <2>1, <1>0 DEF Above
    <3> QED
      BY <3>1, <1>1 DEF Covers
  <2>2. ASSUME A1(p, y) PROVE A2(p, y)
    BY <2>2, <1>0 DEF Above
  <2> QED
    BY <2>1, <2>2
<1>8. A2(p, a) /\ A2(p, b)
  BY <1>0 DEF Above
<1>9. \A t \in I \ {p} : A2(t, b) <=> A1(t, p)
  <2> TAKE t \in I \ {p}
  <2>1. ASSUME A2(t, b) PROVE A1(t, p)
    <3>1. CASE E[t] < d
      BY <2>1, <3>1, <1>0 DEF Above
    <3>2. CASE d <= E[t]
      <4>1. \A i \in 1 .. d : B[p][i] = B[t][i]
        BY <2>1, <3>2, <1>0 DEF Above
      <4>2. A1(p, t)
        BY <4>1, <3>2, <1>1, <1>0 DEF Covers
      <4>3. d + 1 \in 1 .. E[p] /\ d + 1 \in 1 .. E[t]
        BY <4>2, <1>0 DEF Above
      <4>4. B[p][d + 1] = B[t][d + 1] /\ B[t][d + 1] = B2[b][d + 1]
        BY <4>2, <4>3, <2>1, <1>0 DEF Above
      <4> QED
        BY <4>4
    <3> QED
      BY <3>1, <3>2, <1>0
  <2>2. ASSUME A1(t, p) PROVE A2(t, b)
    BY <2>2, <1>2, <1>0 DEF Above
  <2> QED
    BY <2>1, <2>2
<1>10. ~A2(a, p) /\ ~A2(a, b) /\ ~A2(a, a) /\ ~A2(p, p)
  <2>1. d + 1 \in 1 .. E[p]
    BY <1>0
  <2> QED
    BY <1>0, <2>1 DEF Above
<1> HIDE DEF A1, A2
<1>20. ASSUME NEW t \in I2, NEW g \in K2[t]
       PROVE  g.ref \in U2 /\ A2(t, g.ref) /\ B2[g.ref][E2[t] + 1] = g.byte
  <2>1. CASE t \in I \ {p}
    <3>1. g.ref \in U /\ A1(t, g.ref) /\ B[g.ref][E[t] + 1] = g.byte
      BY <2>1 DEF Trie, A1
    <3> QED
      BY <3>1, <2>1, <1>3, <1>6, <1>0
  <2>2. CASE t = a /\ p \in I
    <3>1. g.ref \in U /\ A1(p, g.ref) /\ B[g.ref][E[p] + 1] = g.byte
      BY <2>2 DEF Trie, A1
    <3>2. g.ref /= p
      BY <3>1, <1>0 DEF A1, Above
    <3> QED
      BY <3>1, <3>2, <2>2, <1>5, <1>0
  <2>3. CASE t = p
    BY <2>3, <1>8, <1>0
  <2> QED
    BY <2>1, <2>2, <2>3, <1>0
<1>21. \A t \in I2 : \A g, h \in K2[t] : g.byte = h.byte => g = h
  <2>1. \A t \in I : \A g, h \in K[t] : g.byte = h.byte => g = h
    BY DEF Trie
  <2> QED
    BY <2>1, <1>0
<1>22. ASSUME NEW g, NEW y \in U \ {p}, g \in U, C1(g, y)
       PROVE  C2(g, y) /\ (g = p => C2(a, y))
  BY <1>22, <1>3, <1>5, <1>7, <1>0 DEF Covers, A1, A2, Above
<1>23. ASSUME NEW g, g \in U, C1(g, p)
       PROVE  C2(g, p) /\ C2(g, a) /\ C2(g, b)
  BY <1>23, <1>4, <1>6, <1>8, <1>9, <1>0 DEF Covers, A1, A2, Above
<1>24. ASSUME NEW t \in I2, NEW y \in U2, A2(t, y)
       PROVE  \E g \in K2[t] : C2(g.ref, y)
  <2>1. CASE t \in I \ {p} /\ y \in U \ {p}
    <3>1. PICK g \in K[t] : C1(g.ref, y) /\ g.ref \in U
      BY <2>1, <1>24, <1>3, Onward DEF A1
    <3> QED
      BY <3>1, <2>1, <1>22
  <2>2. CASE t \in I \ {p} /\ y \in {p, a, b}
    <3>0. A1(t, p)
      BY <2>2, <1>24, <1>4, <1>6, <1>9
    <3>1. PICK g \in K[t] : C1(g.ref, p) /\ g.ref \in U
      BY <3>0, <2>2, Onward DEF A1
    <3>2. C2(g.ref, p) /\ C2(g.ref, a) /\ C2(g.ref, b)
      BY <3>1, <1>23
    <3>3. C2(g.ref, y) /\ g \in K2[t]
      BY <3>1, <3>2, <2>2
    <3> QED
      BY <3>3
  <2>3. CASE t = p /\ y \in U \ {p}
    <3>1. C1(p, y)
      BY <2>3, <1>24, <1>7 DEF Covers, A1
    <3> QED
      BY <3>1, <2>3, <1>22
  <2>4. CASE t = p /\ y \in {p, a, b}
    BY <2>4, <1>24, <1>10 DEF Covers
  <2>5. CASE t = a /\ p \in I /\ y \in U \ {p}
    <3>1. PICK g \in K[p] : C1(g.ref, y) /\ g.ref \in U
      BY <2>5, <1>24, <1>5, Onward DEF A1
    <3> QED
      BY <3>1, <2>5, <1>22
  <2>6. CASE t = a /\ y \in {p, a, b}
    BY <2>6, <1>24, <1>10
  <2> QED
    BY <2>1, <2>2, <2>3, <2>4, <2>5, <2>6, <1>0
<1>25. ASSUME NEW y \in U2, NEW z \in U2, Same(y, z, E2, B2)
       PROVE  y = z
  <2>0. \A v, w \in U : Same(v, w, E, B) => v = w
    BY DEF Trie
  <2>s. Same(z, y, E2, B2)
    BY <1>25 DEF Same
  <2>1. ASSUME NEW v \in U \ {p}, NEW w \in U \ {p}, Same(v, w, E2, B2) PROVE v = w
    BY <2>0, <2>1 DEF Same
  <2>2. ASSUME NEW v \in U \ {p}, Same(v, p, E2, B2) PROVE FALSE
    <3>1. d <= E[v] /\ \A i \in 1 .. d : B[p][i] = B[v][i]
      BY <2>2, <1>0 DEF Same
    <3>2. A1(p, v)
      BY <3>1, <1>1 DEF Covers, A1
    <3> QED
      BY <3>2, <2>2, <1>0 DEF A1, Above, Same
  <2>3. ASSUME NEW v \in U \ {p}, Same(v, a, E2, B2) PROVE FALSE
    BY <2>3, <2>0 DEF Same
  <2>4. ASSUME NEW v \in U \ {p}, Same(v, b, E2, B2) PROVE FALSE
    <3>1. d <= E[v] /\ \A i \in 1 .. d : B[p][i] = B[v][i]
      BY <2>4, <1>0 DEF Same
    <3>2. A1(p, v)
      BY <3>1, <1>1 DEF Covers, A1
    <3>3. d + 1 \in 1 .. E[p] /\ d + 1 \in 1 .. E[v]
      BY <3>2, <1>0 DEF A1, Above
    <3>4. B[p][d + 1] = B[v][d + 1]
      BY <3>2, <3>3 DEF A1, Above
    <3> QED
      BY <3>4, <3>3, <2>4 DEF Same
  <2>5. ~Same(p, a, E2, B2) /\ ~Same(p, b, E2, B2)
    BY <1>0 DEF Same
  <2>6. ~Same(a, b, E2, B2)
    <3>1. d + 1 \in 1 .. E[p]
      BY <1>0
    <3> QED
      BY <3>1 DEF Same
  <2>7. ~Same(a, p, E2, B2) /\ ~Same(b, p, E2, B2) /\ ~Same(b, a, E2, B2)
    BY <2>5, <2>6 DEF Same
  <2>8. CASE y \in U \ {p} /\ z \in U \ {p}
    BY <2>8, <2>1, <1>25
  <2>9. CASE y \in U \ {p} /\ z \in {p, a, b}
    BY <2>9, <2>2, <2>3, <2>4, <1>25
  <2>10. CASE z \in U \ {p} /\ y \in {p, a, b}
    BY <2>10, <2>2, <2>3, <2>4, <2>s
  <2>11. CASE z \in {p, a, b} /\ y \in {p, a, b}
    BY <2>11, <2>5, <2>6, <2>7, <1>25
  <2> QED
    BY <2>8, <2>9, <2>10, <2>11
<1>26. ASSUME NEW y \in U2 PROVE Root \in U2 /\ C2(Root, y)
  <2>1. \A z \in U : Root \in U /\ C1(Root, z)
    BY DEF Trie
  <2>2. Root \in U /\ C1(Root, p)
    BY <2>1
  <2>3. C2(Root, p) /\ C2(Root, a) /\ C2(Root, b)
    BY <2>2, <1>23
  <2>4. \A z \in U \ {p} : C2(Root, z)
    BY <2>1, <2>2, <1>22
  <2> HIDE DEF C2
  <2> QED
    BY <2>2, <2>3, <2>4
<1>27. \A s \in I2, x \in U2 : Above(s, x, I2, E2, B2) =>
         \E g \in K2[s] : Covers(g.ref, x, I2, E2, B2)
  BY <1>24 DEF A2
<1>28. \A s \in I2 : \A g \in K2[s] : /\ g.ref \in U2
                                      /\ Above(s, g.ref, I2, E2, B2)
                                      /\ B2[g.ref][E2[s] + 1] = g.byte
  BY <1>20 DEF A2
<1> QED
  BY <1>0, <1>28, <1>21, <1>27, <1>25, <1>26 DEF Trie

(* A tree with such a split is one again. *)
LEMMA SplitAt ==
  ASSUME NEW U, NEW I, NEW E, NEW B, NEW K, NEW I2, NEW E2, NEW B2, NEW K2,
         NEW p, NEW d, NEW e, NEW f,
         Divided(U, I, E, B, K, I2, E2, B2, K2, p, d, e, f)
  PROVE  Trie(U \cup {e.ref, f.ref}, I2, E2, B2, K2)
BY SplitAtPlaces

(* A node s that lost an entry of a leaf. *)
Pruned(U, I, E, B, K, K2, s, e) ==
  /\ Trie(U, I, E, B, K)
  /\ s \in I /\ e \in K[s] /\ e.ref \notin I
  /\ \A t \in I : t /= s => K2[t] = K[t]
  /\ K2[s] = K[s] \ {e}

(* Such a tree is one again, without the leaf's place. *)
LEMMA DropKid ==
  ASSUME NEW U, NEW I, NEW E, NEW B, NEW K, NEW K2, NEW s, NEW e,
         Pruned(U, I, E, B, K, K2, s, e)
  PROVE  Trie(U \ {e.ref}, I, E, B, K2)
<1> USE DEF Pruned
<1> DEFINE x == e.ref
           U2 == U \ {x}
<1>0. /\ I \subseteq U2 /\ \A y \in U : E[y] \in Nat
      /\ x \in U
  BY DEF Trie
<1>1. ASSUME NEW t \in I, NEW f \in K2[t]
      PROVE  f \in K[t] /\ f.ref \in U2 /\ Above(t, f.ref, I, E, B) /\ B[f.ref][E[t] + 1] = f.byte
  <2>1. f \in K[t]
    BY <1>1
  <2>2. f.ref /= x
    <3> SUFFICES ASSUME f.ref = x PROVE FALSE
      OBVIOUS
    <3>1. s = t /\ e = f
      BY <2>1, OneParent
    <3> QED
      BY <3>1
  <2> QED
    BY <2>1, <2>2 DEF Trie
<1>2. \A t \in I : \A f, g \in K2[t] : f.byte = g.byte => f = g
  <2>1. \A t \in I : \A f, g \in K[t] : f.byte = g.byte => f = g
    BY DEF Trie
  <2> QED
    BY <2>1, <1>1
<1>3. ASSUME NEW t \in I, NEW y \in U2, Above(t, y, I, E, B)
      PROVE  \E f \in K2[t] : Covers(f.ref, y, I, E, B)
  <2>1. PICK f \in K[t] : Covers(f.ref, y, I, E, B)
    BY <1>3, Onward
  <2>2. f.ref /= x
    BY <2>1 DEF Covers, Above
  <2>3. f \in K2[t]
    BY <2>2
  <2> QED
    BY <2>1, <2>3
<1>4. \A y, z \in U2 : Same(y, z, E, B) => y = z
  BY DEF Trie
<1>5. ASSUME NEW y \in U2 PROVE Root \in U2 /\ Covers(Root, y, I, E, B)
  <2>1. Root \in U /\ Covers(Root, y, I, E, B)
    BY DEF Trie
  <2>2. Root /= x
    BY <2>1 DEF Covers, Above
  <2> QED
    BY <2>1, <2>2
<1> QED
  BY <1>0, <1>1, <1>2, <1>3, <1>4, <1>5 DEF Trie

(* The only child of s takes its place. *)
Lifted(U, I, E, B, K, I2, E2, B2, K2, s, c) ==
  /\ Trie(U, I, E, B, K)
  /\ s \in I /\ \E e : K[s] = {e} /\ c = e.ref
  /\ \A y \in U \ {s, c} : E2[y] = E[y] /\ B2[y] = B[y]
  /\ E2[s] = E[c] /\ B2[s] = B[c]
  /\ I2 = IF c \in I THEN I \ {c} ELSE I \ {s}
  /\ \A t \in I \ {s, c} : K2[t] = K[t]
  /\ c \in I => K2[s] = K[c]

(* Such a tree is one again, without the place the child had. *)
LEMMA Lift ==
  ASSUME NEW U, NEW I, NEW E, NEW B, NEW K, NEW I2, NEW E2, NEW B2, NEW K2, NEW s, NEW c,
         Lifted(U, I, E, B, K, I2, E2, B2, K2, s, c)
  PROVE  Trie(U \ {c}, I2, E2, B2, K2)
<1>e. PICK e : K[s] = {e} /\ c = e.ref
  BY DEF Lifted
<1> USE <1>e DEF Lifted
<1> DEFINE U2 == U \ {c}
           A1(t, x) == Above(t, x, I, E, B)
           A2(t, x) == Above(t, x, I2, E2, B2)
           C1(t, x) == Covers(t, x, I, E, B)
           C2(t, x) == Covers(t, x, I2, E2, B2)
<1>0. /\ I \subseteq U /\ \A y \in U : E[y] \in Nat
      /\ c \in U /\ s \in U /\ A1(s, c)
      /\ c /= s /\ I2 \subseteq U2 /\ \A y \in U2 : E2[y] \in Nat
      /\ \A t : t \in I2 /\ t /= s <=> t \in I \ {s, c}
      /\ s \in I2 <=> c \in I
  BY DEF Trie, Above
<1>1. \A t \in I \ {s, c}, y \in U \ {s, c} : A2(t, y) <=> A1(t, y)
  BY <1>0 DEF Above
<1>2. \A t \in I \ {s, c} : A2(t, s) <=> A1(t, c)
  BY <1>0 DEF Above
<1>3. \A y \in U \ {s, c} : c \in I => (A2(s, y) <=> A1(c, y))
  BY <1>0 DEF Above
<1>4. ~A2(s, s)
  BY <1>0 DEF Above
<1>5. ASSUME NEW y \in U, A1(s, y) PROVE C1(c, y)
  BY <1>5, Onward
<1>6. ASSUME NEW t \in I, t /= s, NEW f \in K[t] PROVE f.ref /= c
  BY <1>6, OneParent
<1> HIDE DEF A1, A2
<1>7. ASSUME NEW t \in I2, NEW f \in K2[t]
      PROVE  f.ref \in U2 /\ A2(t, f.ref) /\ B2[f.ref][E2[t] + 1] = f.byte
  <2>1. CASE t \in I \ {s, c}
    <3>1. f.ref \in U /\ A1(t, f.ref) /\ B[f.ref][E[t] + 1] = f.byte
      BY <2>1 DEF Trie, A1
    <3>2. f.ref /= c
      BY <1>6, <2>1
    <3>3. CASE f.ref = s
      <4>1. A1(t, c)
        BY <3>1, <3>3, <1>0, Through DEF A1, Covers
      <4>2. E[t] + 1 \in 1 .. E[s]
        BY <3>1, <3>3, <1>0 DEF A1, Above
      <4>3. B[s][E[t] + 1] = B[c][E[t] + 1]
        BY <4>2, <1>0 DEF A1, Above
      <4> QED
        BY <3>1, <3>3, <4>1, <4>3, <1>2, <2>1, <1>0
    <3>4. CASE f.ref /= s
      BY <3>1, <3>2, <3>4, <2>1, <1>1, <1>0
    <3> QED
      BY <3>3, <3>4
  <2>2. CASE t = s /\ c \in I
    <3>1. f.ref \in U /\ A1(c, f.ref) /\ B[f.ref][E[c] + 1] = f.byte
      BY <2>2 DEF Trie, A1
    <3>2. f.ref /= c /\ f.ref /= s
      BY <3>1, <1>0 DEF A1, Above
    <3> QED
      BY <3>1, <3>2, <2>2, <1>3, <1>0
  <2> QED
    BY <2>1, <2>2, <1>0
<1>8. \A t \in I2 : \A f, g \in K2[t] : f.byte = g.byte => f = g
  <2>1. \A t \in I : \A f, g \in K[t] : f.byte = g.byte => f = g
    BY DEF Trie
  <2> QED
    BY <2>1, <1>0
<1>9. ASSUME NEW g \in U \ {c}, NEW y \in U \ {s, c}, C1(g, y) PROVE C2(g, y)
  <2>1. CASE g = s
    <3>1. C1(c, y)
      BY <2>1, <1>9, <1>5 DEF Covers, A1
    <3>2. A1(c, y) /\ c \in I
      BY <3>1 DEF Covers, A1, Above
    <3> QED
      BY <3>2, <2>1, <1>3 DEF Covers, A2
  <2>2. CASE g /= s
    BY <2>2, <1>9, <1>1, <1>0 DEF Covers, A1, A2, Above
  <2> QED
    BY <2>1, <2>2
<1>10. ASSUME NEW g \in U \ {c}, C1(g, c) PROVE C2(g, s)
  BY <1>10, <1>2, <1>0 DEF Covers, A1, A2, Above
<1>11. ASSUME NEW t \in I2, NEW y \in U2, A2(t, y)
       PROVE  \E f \in K2[t] : C2(f.ref, y)
  <2>1. CASE t /= s /\ y /= s
    <3>1. PICK f \in K[t] : C1(f.ref, y) /\ f.ref \in U
      BY <2>1, <1>11, <1>1, <1>0, Onward DEF A1
    <3>2. f.ref /= c /\ f \in K2[t]
      BY <2>1, <1>6, <1>0
    <3>3. C2(f.ref, y)
      BY <3>1, <3>2, <2>1, <1>9
    <3> QED
      BY <3>2, <3>3
  <2>2. CASE t /= s /\ y = s
    <3>1. PICK f \in K[t] : C1(f.ref, c) /\ f.ref \in U
      BY <2>2, <1>11, <1>2, <1>0, Onward DEF A1
    <3>2. f.ref /= c /\ f \in K2[t]
      BY <2>2, <1>6, <1>0
    <3>3. C2(f.ref, y)
      BY <3>1, <3>2, <2>2, <1>10
    <3> QED
      BY <3>2, <3>3
  <2>3. CASE t = s /\ y /= s
    <3>0. A1(c, y) /\ c \in I
      BY <2>3, <1>11, <1>3, <1>0
    <3>1. PICK f \in K[c] : C1(f.ref, y) /\ f.ref \in U
      BY <3>0, Onward DEF A1
    <3>2. f.ref /= c /\ f \in K2[t]
      BY <2>3, <3>0, <1>6, <1>0
    <3>3. C2(f.ref, y)
      BY <3>1, <3>2, <2>3, <1>9
    <3> QED
      BY <3>2, <3>3
  <2> QED
    BY <2>1, <2>2, <2>3, <1>4, <1>11
<1>12. ASSUME NEW y \in U2, NEW z \in U2, Same(y, z, E2, B2) PROVE y = z
  <2>0. \A v, w \in U : Same(v, w, E, B) => v = w
    BY DEF Trie
  <2>1. CASE y /= s /\ z /= s
    BY <2>0, <2>1, <1>12 DEF Same
  <2>2. CASE y = s /\ z /= s
    <3>1. Same(c, z, E, B)
      BY <2>2, <1>12 DEF Same
    <3> QED
      BY <3>1, <2>0, <1>0
  <2>3. CASE y /= s /\ z = s
    <3>1. Same(y, c, E, B)
      BY <2>3, <1>12 DEF Same
    <3> QED
      BY <3>1, <2>0, <1>0
  <2> QED
    BY <2>1, <2>2, <2>3
<1>13. ASSUME NEW y \in U2 PROVE Root \in U2 /\ C2(Root, y)
  <2>1. \A z \in U : Root \in U /\ C1(Root, z)
    BY DEF Trie
  <2>2. Root /= c
    <3>1. C1(Root, s)
      BY <2>1, <1>0
    <3> QED
      BY <3>1, <1>0 DEF Covers, Above, A1
  <2>3. y /= s => C2(Root, y)
    BY <2>1, <2>2, <1>9, <1>0
  <2>4. C2(Root, s)
    BY <2>1, <2>2, <1>10, <1>0
  <2> HIDE DEF C2
  <2> QED
    BY <2>1, <2>2, <2>3, <2>4
<1>14. \A t \in I2, x \in U2 : Above(t, x, I2, E2, B2) =>
         \E g \in K2[t] : Covers(g.ref, x, I2, E2, B2)
  BY <1>11 DEF A2
<1>15. \A t \in I2 : \A g \in K2[t] : /\ g.ref \in U2
                                      /\ Above(t, g.ref, I2, E2, B2)
                                      /\ B2[g.ref][E2[t] + 1] = g.byte
  BY <1>7 DEF A2
<1> QED
  BY <1>0, <1>15, <1>8, <1>14, <1>12, <1>13 DEF Trie

(* No two children of a node have the same byte. *)
Distinct(n) ==
  \A i, j \in 1 .. Len(n.children) : n.children[i].byte = n.children[j].byte => i = j

(* What a children array holds; nothing has the root as its child. *)
Entries == [byte : Bytes, ref : Refs \ {Root}]

(* Children in the order of their bytes. *)
Sorted(s) == \A i, j \in 1 .. Len(s) : i < j => s[i].byte <= s[j].byte

(* The least of some numbers is one of them. *)
LEMMA LeastOf ==
  ASSUME NEW s \in SUBSET Nat, s /= {}
  PROVE  Min(s) \in s /\ \A x \in s : Min(s) <= x
<1>1. \E x \in s : \A y \in s : x <= y
  BY LeastNat
<1> QED
  BY <1>1 DEF Min

(* The elements of a sequence are in its places. *)
LEMMA Among ==
  ASSUME NEW S, NEW s \in Seq(S), NEW e
  PROVE  e \in ToSet(s) <=> \E i \in 1 .. Len(s) : s[i] = e
<1>1. DOMAIN s = 1 .. Len(s)
  BY LenProperties
<1> QED
  BY <1>1 DEF ToSet

(* find_child finds the child of a byte, and 0 only if there is none. *)
LEMMA Finding ==
  ASSUME NEW n \in InnerNode, NEW c
  PROVE  /\ find_child(n, c) \in 0 .. Len(n.children)
         /\ find_child(n, c) = 0 => \A e \in ToSet(n.children) : e.byte /= c
         /\ find_child(n, c) /= 0 => /\ n.children[find_child(n, c)] \in ToSet(n.children)
                                     /\ n.children[find_child(n, c)].byte = c
<1> DEFINE s == {i \in 1 .. Len(n.children) : n.children[i].byte = c}
<1>1. find_child(n, c) = IF s /= {} THEN Min(s) ELSE 0
  BY DEF find_child, SelectInSeq
<1>2. s \in SUBSET Nat
  OBVIOUS
<1>3. s /= {} => Min(s) \in s
  BY <1>2, LeastOf
<1>4. Len(n.children) \in Nat /\ DOMAIN n.children = 1 .. Len(n.children)
  BY DEF InnerNode
<1>5. \A i \in s : i \in 1 .. Len(n.children) /\ n.children[i].byte = c
  OBVIOUS
<1>6. CASE s = {}
  BY <1>1, <1>4, <1>6 DEF ToSet
<1>7. CASE s /= {}
  <2>1. find_child(n, c) \in s
    BY <1>1, <1>3, <1>7
  <2> HIDE DEF s
  <2>2. find_child(n, c) \in 1 .. Len(n.children) /\ n.children[find_child(n, c)].byte = c
    BY <2>1, <1>5
  <2> QED
    BY <2>2, <1>4 DEF ToSet
<1> QED
  BY <1>6, <1>7

(* What InsertAt gives, place by place. *)
LEMMA Inserting ==
  ASSUME NEW S, NEW s \in Seq(S), NEW e \in S, NEW i \in 1 .. Len(s)
  PROVE  /\ InsertAt(s, i, e) \in Seq(S)
         /\ Len(InsertAt(s, i, e)) = Len(s) + 1
         /\ \A j \in 1 .. Len(s) + 1 :
              InsertAt(s, i, e)[j] = IF j < i THEN s[j] ELSE IF j = i THEN e ELSE s[j - 1]
<1> DEFINE a == SubSeq(s, 1, i - 1)
           b == SubSeq(s, i, Len(s))
           u == a \o <<e>>
<1>0. Len(s) \in Nat /\ \A j \in 1 .. Len(s) : s[j] \in S
  BY LenProperties, ElementOfSeq
<1>1. a \in Seq(S) /\ Len(a) = i - 1 /\ \A j \in 1 .. i - 1 : a[j] = s[j]
  BY <1>0, SubSeqProperties
<1>2. b \in Seq(S) /\ Len(b) = Len(s) - i + 1 /\ \A j \in 1 .. Len(s) - i + 1 : b[j] = s[i + j - 1]
  BY <1>0, SubSeqProperties
<1>3. <<e>> \in Seq(S) /\ Len(<<e>>) = 1 /\ <<e>>[1] = e
  OBVIOUS
<1> HIDE DEF a, b
<1>4. /\ u \in Seq(S) /\ Len(u) = i
      /\ \A j \in 1 .. i : u[j] = IF j <= i - 1 THEN a[j] ELSE <<e>>[j - (i - 1)]
  BY <1>1, <1>3, ConcatProperties
<1>5. \A j \in 1 .. i : u[j] = IF j < i THEN s[j] ELSE e
  BY <1>4, <1>1, <1>3
<1> HIDE DEF u
<1>6. /\ u \o b \in Seq(S) /\ Len(u \o b) = Len(s) + 1
      /\ \A j \in 1 .. Len(s) + 1 : (u \o b)[j] = IF j <= i THEN u[j] ELSE b[j - i]
  BY <1>4, <1>2, <1>0, ConcatProperties
<1>7. InsertAt(s, i, e) = u \o b
  BY DEF InsertAt, u, a, b
<1> QED
  BY <1>0, <1>2, <1>5, <1>6, <1>7

(* What RemoveAt gives, place by place. *)
LEMMA Removing ==
  ASSUME NEW S, NEW s \in Seq(S), NEW i \in 1 .. Len(s)
  PROVE  /\ RemoveAt(s, i) \in Seq(S)
         /\ Len(RemoveAt(s, i)) = Len(s) - 1
         /\ \A j \in 1 .. Len(s) - 1 :
              RemoveAt(s, i)[j] = IF j < i THEN s[j] ELSE s[j + 1]
<1> DEFINE a == SubSeq(s, 1, i - 1)
           b == SubSeq(s, i + 1, Len(s))
<1>0. Len(s) \in Nat /\ \A j \in 1 .. Len(s) : s[j] \in S
  BY LenProperties, ElementOfSeq
<1>1. a \in Seq(S) /\ Len(a) = i - 1 /\ \A j \in 1 .. i - 1 : a[j] = s[j]
  BY <1>0, SubSeqProperties
<1>2. b \in Seq(S) /\ Len(b) = Len(s) - i /\ \A j \in 1 .. Len(s) - i : b[j] = s[i + j]
  BY <1>0, SubSeqProperties
<1> HIDE DEF a, b
<1>5. /\ a \o b \in Seq(S) /\ Len(a \o b) = Len(a) + Len(b)
      /\ \A j \in 1 .. Len(a) + Len(b) :
            (a \o b)[j] = IF j <= Len(a) THEN a[j] ELSE b[j - Len(a)]
  BY <1>1, <1>2, ConcatProperties
<1>6. /\ a \o b \in Seq(S) /\ Len(a \o b) = Len(s) - 1
      /\ \A j \in 1 .. Len(s) - 1 : (a \o b)[j] = IF j <= i - 1 THEN a[j] ELSE b[j - (i - 1)]
  BY <1>1, <1>2, <1>0, <1>5
<1>7. RemoveAt(s, i) = a \o b
  BY DEF RemoveAt, a, b
<1> QED
  BY <1>0, <1>1, <1>2, <1>6, <1>7

(* A sequence with one entry more. *)
Grown(s, t, e) ==
  /\ Len(t) = Len(s) + 1
  /\ \E i \in 1 .. Len(s) + 1 : \A j \in 1 .. Len(s) + 1 :
        t[j] = IF j < i THEN s[j] ELSE IF j = i THEN e ELSE s[j - 1]

(* One entry more, of a new byte: the set of entries has it, and the *)
(* bytes are still distinct.                                         *)
LEMMA Growing ==
  ASSUME NEW s \in Seq(Entries), NEW t \in Seq(Entries), NEW e, Grown(s, t, e),
         \A i, j \in 1 .. Len(s) : s[i].byte = s[j].byte => i = j,
         \A f \in ToSet(s) : f.byte /= e.byte
  PROVE  /\ ToSet(t) = ToSet(s) \cup {e}
         /\ \A i, j \in 1 .. Len(t) : t[i].byte = t[j].byte => i = j
<1>0. /\ Len(s) \in Nat /\ Len(t) \in Nat
      /\ DOMAIN s = 1 .. Len(s) /\ DOMAIN t = 1 .. Len(t)
  OBVIOUS
<1>1. PICK i \in 1 .. Len(s) + 1 : \A j \in 1 .. Len(s) + 1 :
        t[j] = IF j < i THEN s[j] ELSE IF j = i THEN e ELSE s[j - 1]
  BY DEF Grown
<1>2. Len(t) = Len(s) + 1
  BY DEF Grown
<1>3. \A j \in 1 .. Len(t) : t[j] = e \/ \E k \in 1 .. Len(s) : t[j] = s[k]
  <2> TAKE j \in 1 .. Len(t)
  <2>1. CASE j < i
    BY <2>1, <1>0, <1>1, <1>2
  <2>2. CASE j = i
    BY <2>2, <1>0, <1>1, <1>2
  <2>3. CASE j > i
    <3>1. j - 1 \in 1 .. Len(s) /\ t[j] = s[j - 1]
      BY <2>3, <1>0, <1>1, <1>2
    <3> QED
      BY <3>1
  <2> QED
    BY <2>1, <2>2, <2>3, <1>0
<1>4. \A k \in 1 .. Len(s) : \E j \in 1 .. Len(t) : t[j] = s[k]
  <2> TAKE k \in 1 .. Len(s)
  <2>1. CASE k < i
    BY <2>1, <1>0, <1>1, <1>2
  <2>2. CASE k >= i
    <3>1. k + 1 \in 1 .. Len(t) /\ t[k + 1] = s[k]
      BY <2>2, <1>0, <1>1, <1>2
    <3> QED
      BY <3>1
  <2> QED
    BY <2>1, <2>2, <1>0
<1>5. t[i] = e /\ i \in 1 .. Len(t)
  BY <1>0, <1>1, <1>2
<1>6. ToSet(t) = ToSet(s) \cup {e}
  <2>1. \A f : f \in ToSet(t) <=> \E j \in 1 .. Len(t) : t[j] = f
    BY Among
  <2>2. \A f : f \in ToSet(s) <=> \E j \in 1 .. Len(s) : s[j] = f
    BY Among
  <2>3. \A f \in ToSet(t) : f \in ToSet(s) \cup {e}
    BY <2>1, <2>2, <1>3
  <2>4. \A f \in ToSet(s) \cup {e} : f \in ToSet(t)
    BY <2>1, <2>2, <1>4, <1>5
  <2> QED
    BY <2>3, <2>4
<1>7. \A j \in 1 .. Len(s) : s[j].byte /= e.byte
  BY <1>0 DEF ToSet
<1>8. ASSUME NEW j \in 1 .. Len(t), NEW k \in 1 .. Len(t), t[j].byte = t[k].byte
      PROVE  j = k
  <2> DEFINE o(m) == IF m < i THEN m ELSE m - 1
  <2>1. \A m \in 1 .. Len(t) : m /= i => o(m) \in 1 .. Len(s) /\ t[m] = s[o(m)]
    BY <1>0, <1>1, <1>2
  <2>2. j = i => k = i
    BY <2>1, <1>5, <1>7, <1>8
  <2>3. k = i => j = i
    BY <2>1, <1>5, <1>7, <1>8
  <2>4. j /= i /\ k /= i => o(j) = o(k)
    BY <2>1, <1>8
  <2> QED
    BY <2>2, <2>3, <2>4, <1>0
<1> QED
  BY <1>6, <1>8

(* One entry less: the set of entries is without it, and the bytes are *)
(* still distinct.                                                     *)
LEMMA Shrinking ==
  ASSUME NEW s \in Seq(Entries), NEW i \in 1 .. Len(s),
         \A j, k \in 1 .. Len(s) : s[j].byte = s[k].byte => j = k
  PROVE  /\ ToSet(RemoveAt(s, i)) = ToSet(s) \ {s[i]}
         /\ \A j, k \in 1 .. Len(RemoveAt(s, i)) :
              RemoveAt(s, i)[j].byte = RemoveAt(s, i)[k].byte => j = k
<1> DEFINE t == RemoveAt(s, i)
           o(m) == IF m < i THEN m ELSE m + 1
<1>0. t \in Seq(Entries) /\ Len(t) = Len(s) - 1 /\ \A j \in 1 .. Len(s) - 1 : t[j] = s[o(j)]
  BY Removing
<1> HIDE DEF t
<1>1. /\ Len(s) \in Nat /\ Len(t) \in Nat
      /\ DOMAIN s = 1 .. Len(s) /\ DOMAIN t = 1 .. Len(t)
  BY <1>0
<1>2. \A j \in 1 .. Len(t) : o(j) \in 1 .. Len(s) /\ o(j) /= i
  BY <1>0, <1>1
<1>3. \A k \in 1 .. Len(s) : k /= i => \E j \in 1 .. Len(t) : t[j] = s[k]
  <2> TAKE k \in 1 .. Len(s)
  <2>1. CASE k < i
    BY <2>1, <1>0, <1>1
  <2>2. CASE k > i
    <3>1. k - 1 \in 1 .. Len(t) /\ t[k - 1] = s[k]
      BY <2>2, <1>0, <1>1
    <3> QED
      BY <3>1
  <2> QED
    BY <2>1, <2>2, <1>1
<1>4. \A j \in 1 .. Len(t) : t[j] /= s[i]
  BY <1>0, <1>1, <1>2
<1>5. ToSet(t) = ToSet(s) \ {s[i]}
  <2>1. \A f : f \in ToSet(t) <=> \E j \in 1 .. Len(t) : t[j] = f
    BY <1>0, Among
  <2>2. \A f : f \in ToSet(s) <=> \E j \in 1 .. Len(s) : s[j] = f
    BY Among
  <2>3. \A j \in 1 .. Len(t) : t[j] = s[o(j)] /\ o(j) \in 1 .. Len(s)
    BY <1>0, <1>1, <1>2
  <2> HIDE DEF o
  <2>4. \A e \in ToSet(t) : e \in ToSet(s) /\ e /= s[i]
    BY <2>1, <2>2, <2>3, <1>4
  <2>5. \A e \in ToSet(s) : e /= s[i] => e \in ToSet(t)
    BY <2>1, <2>2, <1>3
  <2> QED
    BY <2>4, <2>5
<1>6. \A j, k \in 1 .. Len(t) : t[j].byte = t[k].byte => j = k
  <2> TAKE j, k \in 1 .. Len(t)
  <2>1. t[j].byte = t[k].byte => o(j) = o(k)
    BY <1>0, <1>1, <1>2
  <2> QED
    BY <2>1, <1>0, <1>1
<1> QED
  BY <1>5, <1>6 DEF t

(* A node that has no child for a byte yet. *)
Lacks(n, c) ==
  n \in InnerNode /\ Distinct(n) /\ \A e \in ToSet(n.children) : e.byte /= c

(* A child goes into the array of a node with room, wherever its type *)
(* puts it.                                                           *)
LEMMA InPlace ==
  ASSUME NEW n, NEW c \in Bytes, Lacks(n, c), NEW ref \in Refs \ {Root}
  PROVE  LET m == Inserted(n, c, ref)
         IN  /\ m \in InnerNode /\ Distinct(m)
             /\ m.type = n.type /\ m.partial_len = n.partial_len /\ m.partial = n.partial
             /\ Len(m.children) = Len(n.children) + 1
             /\ ToSet(m.children) = ToSet(n.children) \cup {Child(c, ref)}
<1> DEFINE s == n.children
           e == Child(c, ref)
           pos == {j \in 1 .. Len(s) : Precedes(n.type, c, s[j].byte)}
           i == SelectInSeq(s, LAMBDA f : Precedes(n.type, c, f.byte))
           t == IF i = 0 THEN Append(s, e) ELSE InsertAt(s, i, e)
           m == Inserted(n, c, ref)
<1>a. /\ n \in InnerNode /\ Distinct(n) /\ \A f \in ToSet(n.children) : f.byte /= c
  BY DEF Lacks
<1>0. s \in Seq(Entries) /\ e \in Entries /\ Len(s) \in Nat /\ e.byte = c
  BY <1>a DEF InnerNode, Entries, Child
<1>1. i \in 0 .. Len(s)
  <2>1. i = IF pos /= {} THEN Min(pos) ELSE 0
    BY DEF SelectInSeq
  <2>2. pos \in SUBSET Nat /\ \A j \in pos : j \in 1 .. Len(s)
    OBVIOUS
  <2> HIDE DEF pos, i
  <2>3. pos /= {} => Min(pos) \in pos
 BY <2>2, LeastOf
  <2>4. pos = {} => i = 0
    BY <2>1
  <2>5. pos /= {} => i \in 1 .. Len(s)
    BY <2>1, <2>2, <2>3
  <2> HIDE DEF s
  <2> QED
    BY <2>4, <2>5, <1>0
<1>2. m = [n EXCEPT !.children = t]
  BY DEF Inserted
<1> HIDE DEF i
<1>3. t \in Seq(Entries) /\ Grown(s, t, e)
  <2>1. CASE i = 0
    <3>1. t = Append(s, e)
      BY <2>1
    <3>2. /\ t \in Seq(Entries) /\ Len(t) = Len(s) + 1
          /\ \A j \in 1 .. Len(s) : t[j] = s[j]
          /\ t[Len(s) + 1] = e
      BY <3>1, <1>0, AppendProperties
    <3> HIDE DEF t, s
    <3>3. Len(s) + 1 \in 1 .. Len(s) + 1
      BY <1>0
    <3>4. \A j \in 1 .. Len(s) + 1 : t[j] = IF j < Len(s) + 1 THEN s[j]
                                            ELSE IF j = Len(s) + 1 THEN e ELSE s[j - 1]
      BY <3>2, <1>0
    <3> QED
      BY <3>2, <3>3, <3>4 DEF Grown
  <2>2. CASE i \in 1 .. Len(s)
    <3>1. t = InsertAt(s, i, e)
      BY <2>2
    <3> HIDE DEF t, s
    <3>2. /\ t \in Seq(Entries) /\ Len(t) = Len(s) + 1
          /\ \A j \in 1 .. Len(s) + 1 : t[j] = IF j < i THEN s[j]
                                               ELSE IF j = i THEN e ELSE s[j - 1]
      BY <3>1, <2>2, <1>0, Inserting
    <3>3. i \in 1 .. Len(s) + 1
      BY <2>2, <1>0
    <3> QED
      BY <3>2, <3>3 DEF Grown
  <2> QED
    BY <2>1, <2>2, <1>1, <1>0
<1> HIDE DEF t
<1>4. /\ m \in InnerNode /\ m.children = t
      /\ m.type = n.type /\ m.partial_len = n.partial_len /\ m.partial = n.partial
  BY <1>a, <1>2, <1>3 DEF InnerNode, Entries
<1> HIDE DEF m, s
<1>5. \A j, k \in 1 .. Len(s) : s[j].byte = s[k].byte => j = k
  BY <1>a DEF Distinct, s
<1>6. \A f \in ToSet(s) : f.byte /= e.byte
  BY <1>a, <1>0 DEF s
<1>7. /\ ToSet(t) = ToSet(s) \cup {e}
      /\ \A j, k \in 1 .. Len(t) : t[j].byte = t[k].byte => j = k
  BY <1>0, <1>3, <1>5, <1>6, Growing
<1>8. Len(t) = Len(s) + 1
  BY <1>3 DEF Grown
<1> QED
  BY <1>4, <1>7, <1>8 DEF Distinct, s, m

(* The entries in the order of their bytes, as a NODE48 or a NODE256 has *)
(* them: the same ones, one per byte.                                    *)
LEMMA Sorting ==
  ASSUME NEW s \in Seq(Entries),
         \A i, j \in 1 .. Len(s) : s[i].byte = s[j].byte => i = j
  PROVE  /\ ByByte(s) \in Seq(Entries)
         /\ Len(ByByte(s)) = Len(s)
         /\ ToSet(ByByte(s)) = ToSet(s)
         /\ \A i, j \in 1 .. Len(s) : ByByte(s)[i].byte = ByByte(s)[j].byte => i = j
         /\ \A i, j \in 1 .. Len(s) : i < j => ByByte(s)[i].byte <= ByByte(s)[j].byte
<1> DEFINE S == ToSet(s)
           n == Len(s)
           upto(e) == {d \in S : d.byte <= e.byte}
           R == [e \in S |-> Cardinality(upto(e))]
           t == ByByte(s)
<1>0. n \in Nat /\ s \in [1 .. n -> Entries]
  OBVIOUS
<1>1. \A e : e \in S <=> \E i \in 1 .. n : s[i] = e
  BY Among
<1>2. /\ \A e \in S : e \in Entries /\ e.byte \in Nat
      /\ \A e, f \in S : e.byte = f.byte => e = f
  <2>1. \A i \in 1 .. n : s[i] \in Entries
    BY <1>0
  <2>2. Bytes \subseteq Nat
    BY NodeAssumption DEF Bytes
  <2>3. \A e \in Entries : e.byte \in Nat
    BY <2>2 DEF Entries
  <2>4. \A i \in 1 .. n : \A j \in 1 .. n : s[i].byte = s[j].byte => s[i] = s[j]
    OBVIOUS
  <2> HIDE DEF S
  <2> QED
    BY <2>1, <2>3, <2>4, <1>1
<1>3. IsFiniteSet(S) /\ Cardinality(S) = n
  <2>1. s \in [1 .. n -> S]
    BY <1>0, <1>1
  <2>2. s \in Surjection(1 .. n, S)
    BY <2>1, <1>1 DEF Surjection
  <2>3. s \in Injection(1 .. n, S)
    BY <2>1 DEF Injection, IsInjective
  <2>4. IsFiniteSet(1 .. n) /\ Cardinality(1 .. n) = n
    BY <1>0, FS_Interval
  <2> QED
    BY <2>2, <2>3, <2>4, FS_Surjection
<1> HIDE DEF S
<1>4. \A e \in S : R[e] = Cardinality(upto(e))
  OBVIOUS
<1>5. \A e \in S : IsFiniteSet(upto(e)) /\ Cardinality(upto(e)) \in 1 .. n
  <2> TAKE e \in S
  <2>1. upto(e) \subseteq S /\ e \in upto(e)
    BY <1>2
  <2> HIDE DEF upto
  <2>2. IsFiniteSet(upto(e)) /\ Cardinality(upto(e)) <= n /\ Cardinality(upto(e)) \in Nat
    BY <2>1, <1>3, FS_Subset, FS_CardinalityType
  <2>3. Cardinality(upto(e)) /= 0
    BY <2>1, <2>2, FS_EmptySet
  <2> QED
    BY <2>2, <2>3, <1>0
<1>6. ASSUME NEW e \in S, NEW f \in S, e.byte < f.byte
      PROVE  Cardinality(upto(e)) /= Cardinality(upto(f))
  <2>1. upto(e) \subseteq upto(f) /\ f \in upto(f) /\ f \notin upto(e)
    BY <1>2, <1>6
  <2> HIDE DEF upto
  <2> QED
    BY <2>1, <1>5, FS_Subset
<1>7. ASSUME NEW e \in S, NEW f \in S, e.byte < f.byte
       PROVE  Cardinality(upto(e)) <= Cardinality(upto(f))
  <2>1. upto(e) \subseteq upto(f)
    BY <1>2, <1>7
  <2> HIDE DEF upto
  <2> QED
    BY <2>1, <1>5, FS_Subset
<1> HIDE DEF upto
<1>8. R \in Injection(S, 1 .. n)
  <2>1. R \in [S -> 1 .. n]
    BY <1>5
  <2>2. ASSUME NEW e \in S, NEW f \in S, R[e] = R[f] PROVE e = f
    <3>1. Cardinality(upto(e)) = Cardinality(upto(f))
      BY <1>4, <2>2
    <3>2. ~(e.byte < f.byte) /\ ~(f.byte < e.byte)
      BY <3>1, <1>6
    <3> QED
      BY <3>2, <1>2
  <2> HIDE DEF R
  <2> QED
    BY <2>1, <2>2 DEF Injection, IsInjective
<1>9. R \in Surjection(S, 1 .. n)
  <2>1. IsFiniteSet(1 .. n) /\ Cardinality(1 .. n) = n
    BY <1>0, FS_Interval
  <2> HIDE DEF R
  <2> QED
    BY <1>8, <2>1, <1>3, FS_Injection
<1>10. \A i \in 1 .. n : t[i] \in S /\ R[t[i]] = i
  <2> TAKE i \in 1 .. n
  <2>1. \E e \in S : Cardinality(upto(e)) = i
    <3>1. \E e \in S : R[e] = i
      BY <1>9 DEF Surjection
    <3> QED
      BY <3>1, <1>4
  <2>2. t[i] = CHOOSE e \in S : Cardinality(upto(e)) = i
    BY DEF ByByte, S, upto
  <2>3. t[i] \in S /\ Cardinality(upto(t[i])) = i
    BY <2>1, <2>2
  <2> QED
    BY <2>3, <1>4
<1>11. t \in Seq(Entries) /\ Len(t) = n
  <2> DEFINE f(i) == CHOOSE e \in ToSet(s) :
                        Cardinality({d \in ToSet(s) : d.byte <= e.byte}) = i
  <2>0. t = [i \in 1 .. n |-> f(i)]
    BY DEF ByByte
  <2> HIDE DEF f
  <2>1. DOMAIN t = 1 .. n /\ t = [i \in 1 .. n |-> t[i]]
    <3> HIDE DEF t
    <3> QED
      BY <2>0
  <2>2. \A i \in 1 .. n : t[i] \in Entries
    BY <1>10, <1>2
  <2>3. t \in [1 .. n -> Entries]
    BY <2>1, <2>2
  <2> HIDE DEF t, n
  <2> QED
    BY <2>3, <1>0
<1> HIDE DEF R, t, n
<1>12. \A e \in S : R[e] \in 1 .. n /\ t[R[e]] = e
  <2> TAKE e \in S
  <2>1. R[e] \in 1 .. n
    BY <1>8 DEF Injection, IsInjective
  <2>2. R[t[R[e]]] = R[e] /\ t[R[e]] \in S
    BY <2>1, <1>10
  <2> QED
    BY <2>1, <2>2, <1>8 DEF Injection, IsInjective
<1>13. ToSet(t) = S
  <2>1. \A e : e \in ToSet(t) <=> \E i \in 1 .. Len(t) : t[i] = e
    BY <1>11, Among
  <2> QED
    BY <2>1, <1>11, <1>10, <1>12
<1>14. \A i, j \in 1 .. n : t[i].byte = t[j].byte => i = j
  BY <1>10, <1>2
<1>15. \A i, j \in 1 .. n : i < j => t[i].byte <= t[j].byte
  <2> SUFFICES ASSUME NEW i \in 1 .. n, NEW j \in 1 .. n, i < j, t[j].byte < t[i].byte
               PROVE  FALSE
    BY <1>10, <1>2
  <2>1. Cardinality(upto(t[j])) <= Cardinality(upto(t[i]))
    BY <1>10, <1>7
  <2>2. Cardinality(upto(t[j])) = j /\ Cardinality(upto(t[i])) = i
    BY <1>4, <1>10
  <2> QED
    BY <2>1, <2>2
<1> QED
  BY <1>11, <1>13, <1>14, <1>15 DEF t, n, S

(* A node of another type has the same entries. *)
LEMMA Relaying ==
  ASSUME NEW n \in InnerNode, Distinct(n), NEW type \in Types
  PROVE  LET m == Resized(n, type)
         IN  /\ m \in InnerNode /\ Distinct(m)
             /\ m.type = type /\ m.partial_len = n.partial_len /\ m.partial = n.partial
             /\ Len(m.children) = Len(n.children)
             /\ ToSet(m.children) = ToSet(n.children)
<1> DEFINE s == n.children
           t == IF type \in {"NODE48", "NODE256"} THEN ByByte(s) ELSE s
           m == Resized(n, type)
<1>0. s \in Seq(Entries)
  BY DEF InnerNode, Entries
<1>1. \A i, j \in 1 .. Len(s) : s[i].byte = s[j].byte => i = j
  BY DEF Distinct
<1>2. /\ t \in Seq(Entries) /\ Len(t) = Len(s) /\ ToSet(t) = ToSet(s)
      /\ \A i, j \in 1 .. Len(s) : t[i].byte = t[j].byte => i = j
  <2> HIDE DEF s
  <2> QED
    BY <1>0, <1>1, Sorting
<1>3. m = [n EXCEPT !.type = type, !.children = t]
  BY DEF Resized
<1> HIDE DEF t
<1>4. /\ m \in InnerNode /\ m.children = t
      /\ m.type = type /\ m.partial_len = n.partial_len /\ m.partial = n.partial
  BY <1>3, <1>2 DEF InnerNode, Entries
<1> HIDE DEF m, s
<1> QED
  BY <1>2, <1>4 DEF Distinct, m, s

(* A node has at most as many children as there are bytes. *)
LEMMA AtMostBytes ==
  ASSUME NEW n \in InnerNode, Distinct(n)
  PROVE  /\ Len(n.children) <= NBytes
         /\ \A c \in Bytes : (\A e \in ToSet(n.children) : e.byte /= c) => Len(n.children) < NBytes
<1> DEFINE s == n.children
           f == [i \in 1 .. Len(s) |-> s[i].byte]
<1>0. Len(s) \in Nat /\ (\A i \in 1 .. Len(s) : s[i].byte \in Bytes) /\ NBytes \in Nat
  <2>1. s \in Seq(Entries)
    BY DEF InnerNode, Entries
  <2>2. \A i \in 1 .. Len(s) : s[i] \in Entries
    BY <2>1, ElementOfSeq
  <2>3. Len(s) \in Nat
    BY <2>1, LenProperties
  <2> HIDE DEF s
  <2> QED
    BY <2>2, <2>3, NodeAssumption DEF Entries
<1>1. IsFiniteSet(Bytes) /\ Cardinality(Bytes) = NBytes
  <2>1. 0 \in Int /\ NBytes - 1 \in Int /\ NBytes > 0
    BY NodeAssumption
  <2>2. /\ IsFiniteSet(0 .. (NBytes - 1))
        /\ Cardinality(0 .. (NBytes - 1)) = IF 0 > NBytes - 1 THEN 0 ELSE (NBytes - 1) - 0 + 1
    BY <2>1, FS_Interval
  <2> QED
    BY <2>1, <2>2, NodeAssumption DEF Bytes
<1>2. IsFiniteSet(1 .. Len(s)) /\ Cardinality(1 .. Len(s)) = Len(s)
  <2>1. PICK q : q = Len(s)
    OBVIOUS
  <2>2. q \in Nat /\ q \in Int /\ 1 \in Int
    BY <2>1, <1>0
  <2> HIDE DEF s
  <2>3. IsFiniteSet(1 .. q) /\ Cardinality(1 .. q) = IF 1 > q THEN 0 ELSE q - 1 + 1
    BY <2>2, FS_Interval
  <2> QED
    BY <2>1, <2>2, <2>3
<1>3. f \in Injection(1 .. Len(s), Bytes)
  BY <1>0 DEF Injection, IsInjective, Distinct
<1>4. Len(s) <= NBytes /\ (Len(s) = NBytes => f \in Surjection(1 .. Len(s), Bytes))
  <2> HIDE DEF s, f
  <2> QED
    BY <1>1, <1>2, <1>3, FS_Injection
<1>5. ASSUME NEW c \in Bytes, \A e \in ToSet(s) : e.byte /= c PROVE Len(s) /= NBytes
  <2> SUFFICES ASSUME Len(s) = NBytes PROVE FALSE
    OBVIOUS
  <2>1. PICK i \in 1 .. Len(s) : f[i] = c
    BY <1>4 DEF Surjection
  <2>2. s[i] \in ToSet(s) /\ s[i].byte = c
    BY <2>1, Among DEF InnerNode
  <2> QED
    BY <2>2, <1>5
<1> QED
  BY <1>0, <1>4, <1>5

(* add_child leaves a well laid out node that has the child too. *)
LEMMA TakingChild ==
  ASSUME NEW n, WellLaid(n), NEW c \in Bytes, NEW ref \in Refs \ {Root},
         \A e \in ToSet(n.children) : e.byte /= c
  PROVE  LET m == add_child(n, c, ref)
         IN  /\ WellLaid(m)
             /\ m.partial_len = n.partial_len /\ m.partial = n.partial
             /\ ToSet(m.children) = ToSet(n.children) \cup {Child(c, ref)}
<1> DEFINE k == IF Len(n.children) < Capacity[n.type] THEN n ELSE Resized(n, Larger[n.type])
           m == Inserted(k, c, ref)
<1>0. /\ n \in InnerNode /\ Distinct(n) /\ n.type \in Types
      /\ Shrink[n.type] < Len(n.children) /\ Len(n.children) <= Capacity[n.type]
      /\ Len(n.children) \in Nat
  BY DEF WellLaid, InnerNode, Distinct
<1>1. /\ k \in InnerNode /\ Distinct(k)
      /\ k.partial_len = n.partial_len /\ k.partial = n.partial
      /\ Len(k.children) = Len(n.children)
      /\ ToSet(k.children) = ToSet(n.children)
      /\ k.type \in Types
      /\ Shrink[k.type] < Len(n.children) + 1 /\ Len(n.children) + 1 <= Capacity[k.type]
  <2>1. CASE Len(n.children) < Capacity[n.type]
    <3>1. k = n
      BY <2>1
    <3>2. Capacity[n.type] \in Nat /\ Shrink[n.type] \in Nat
      BY <1>0, NodeAssumption
    <3> QED
      BY <3>1, <3>2, <1>0, <2>1
  <2>2. CASE ~(Len(n.children) < Capacity[n.type])
    <3>0. Len(n.children) = Capacity[n.type]
      BY <2>2, <1>0, NodeAssumption
    <3>1. n.type /= "NODE256"
      BY <3>0, <1>0, AtMostBytes, NodeAssumption
    <3>2. n.type \in DOMAIN Larger /\ Larger[n.type] \in Types
      BY <1>0, <3>1 DEF Types, Larger
    <3>3. k = Resized(n, Larger[n.type])
      BY <2>2
    <3>4. /\ Capacity[n.type] < Capacity[Larger[n.type]]
          /\ Shrink[Larger[n.type]] <= Capacity[n.type]
          /\ Capacity[n.type] \in Nat /\ Capacity[Larger[n.type]] \in Nat
          /\ Shrink[Larger[n.type]] \in Nat
      BY <3>2, <1>0, NodeAssumption
    <3>5. /\ k \in InnerNode /\ Distinct(k)
          /\ k.type = Larger[n.type] /\ k.partial_len = n.partial_len /\ k.partial = n.partial
          /\ Len(k.children) = Len(n.children)
          /\ ToSet(k.children) = ToSet(n.children)
      BY <3>2, <3>3, <1>0, Relaying
    <3> HIDE DEF k
    <3> QED
      BY <3>0, <3>2, <3>4, <3>5
  <2> QED
    BY <2>1, <2>2
<1> HIDE DEF k
<1>2. /\ m \in InnerNode /\ Distinct(m)
      /\ m.type = k.type /\ m.partial_len = k.partial_len /\ m.partial = k.partial
      /\ Len(m.children) = Len(k.children) + 1
      /\ ToSet(m.children) = ToSet(k.children) \cup {Child(c, ref)}
  <2>1. Lacks(k, c)
    BY <1>1 DEF Lacks
  <2> QED
    BY <2>1, InPlace
<1>3. add_child(n, c, ref) = m
  BY DEF add_child, k
<1> HIDE DEF m
<1>4. WellLaid(m)
  BY <1>1, <1>2 DEF WellLaid, Distinct
<1> QED
  BY <1>1, <1>2, <1>3, <1>4

(* A new NODE4 with two children. *)
LEMMA TakingTwo ==
  ASSUME NEW len \in Nat, NEW prefix \in Seq(Bytes),
         NEW c \in Bytes, NEW a \in Refs \ {Root},
         NEW d \in Bytes, NEW b \in Refs \ {Root}, c /= d
  PROVE  LET n == [type |-> "NODE4", partial_len |-> len, partial |-> prefix,
                   children |-> <<>>]
             m == add_child(add_child(n, c, a), d, b)
         IN  /\ WellLaid(m)
             /\ m.partial_len = len /\ m.partial = prefix
             /\ ToSet(m.children) = {Child(c, a), Child(d, b)}
<1> DEFINE n == [type |-> "NODE4", partial_len |-> len, partial |-> prefix, children |-> <<>>]
           k == Inserted(n, c, a)
           m == Inserted(k, d, b)
<1>0. /\ n \in InnerNode /\ Distinct(n) /\ ToSet(n.children) = {}
      /\ Len(n.children) = 0 /\ n.type = "NODE4"
      /\ n.partial_len = len /\ n.partial = prefix
  BY DEF InnerNode, Distinct, ToSet, Types
<1> HIDE DEF n
<1>1. /\ k \in InnerNode /\ Distinct(k)
      /\ k.type = n.type /\ k.partial_len = n.partial_len /\ k.partial = n.partial
      /\ Len(k.children) = Len(n.children) + 1
      /\ ToSet(k.children) = ToSet(n.children) \cup {Child(c, a)}
  <2>1. Lacks(n, c)
    BY <1>0 DEF Lacks
  <2> QED
    BY <2>1, InPlace
<1>2. Capacity["NODE4"] >= 2 /\ Capacity["NODE4"] \in Nat /\ Shrink["NODE4"] = 1
  BY NodeAssumption DEF Types
<1>3. add_child(n, c, a) = k
  BY <1>0, <1>2 DEF add_child
<1> HIDE DEF k
<1>4. \A e \in ToSet(k.children) : e.byte /= d
  BY <1>0, <1>1 DEF Child
<1>5. /\ m \in InnerNode /\ Distinct(m)
      /\ m.type = k.type /\ m.partial_len = k.partial_len /\ m.partial = k.partial
      /\ Len(m.children) = Len(k.children) + 1
      /\ ToSet(m.children) = ToSet(k.children) \cup {Child(d, b)}
  <2>1. Lacks(k, d)
    BY <1>1, <1>4 DEF Lacks
  <2> QED
    BY <2>1, InPlace
<1>6. add_child(k, d, b) = m
  BY <1>0, <1>1, <1>2 DEF add_child
<1> HIDE DEF m
<1>7. WellLaid(m)
  BY <1>0, <1>1, <1>2, <1>5 DEF WellLaid, Distinct
<1> QED
  BY <1>0, <1>1, <1>3, <1>5, <1>6, <1>7 DEF n

(* A node without one of its children, as it is before it shrinks. *)
LEMMA LosingChild ==
  ASSUME NEW n, WellLaid(n), NEW i \in 1 .. Len(n.children)
  PROVE  LET m == [n EXCEPT !.children = RemoveAt(@, i)]
         IN  /\ m \in InnerNode /\ Distinct(m)
             /\ m.type = n.type /\ m.partial_len = n.partial_len /\ m.partial = n.partial
             /\ Len(m.children) = Len(n.children) - 1
             /\ ToSet(m.children) = ToSet(n.children) \ {n.children[i]}
             /\ Len(m.children) /= Shrink[n.type] => WellLaid(m)
<1> DEFINE s == n.children
           t == RemoveAt(s, i)
           m == [n EXCEPT !.children = t]
<1>0. /\ n \in InnerNode /\ Distinct(n) /\ n.type \in Types
      /\ Shrink[n.type] < Len(s) /\ Len(s) <= Capacity[n.type]
      /\ s \in Seq(Entries) /\ Len(s) \in Nat
  BY DEF WellLaid, InnerNode, Distinct, Entries
<1>1. \A j, k \in 1 .. Len(s) : s[j].byte = s[k].byte => j = k
  BY <1>0 DEF Distinct
<1>2. /\ t \in Seq(Entries) /\ Len(t) = Len(s) - 1
      /\ ToSet(t) = ToSet(s) \ {s[i]}
      /\ \A j, k \in 1 .. Len(t) : t[j].byte = t[k].byte => j = k
  <2> HIDE DEF s
  <2> QED
    BY <1>0, <1>1, Removing, Shrinking DEF s
<1> HIDE DEF t
<1>3. /\ m \in InnerNode /\ m.children = t
      /\ m.type = n.type /\ m.partial_len = n.partial_len /\ m.partial = n.partial
  BY <1>0, <1>2 DEF InnerNode, Entries
<1> HIDE DEF m
<1>4. Distinct(m)
  BY <1>2, <1>3 DEF Distinct
<1>5. Len(t) /= Shrink[n.type] => WellLaid(m)
  <2>1. Capacity[n.type] \in Nat /\ Shrink[n.type] \in Nat
    BY <1>0, NodeAssumption
  <2> QED
    BY <2>1, <1>0, <1>2, <1>3, <1>4 DEF WellLaid, Distinct
<1> QED
  BY <1>2, <1>3, <1>4, <1>5 DEF m, t, s

(* A node that shrinks is well laid out as the next smaller type. *)
LEMMA ShrinkingLayout ==
  ASSUME NEW n \in InnerNode, Distinct(n), Len(n.children) = Shrink[n.type],
         n.type /= "NODE4"
  PROVE  LET m == Resized(n, Smaller[n.type])
         IN  /\ WellLaid(m)
             /\ m.partial_len = n.partial_len /\ m.partial = n.partial
             /\ ToSet(m.children) = ToSet(n.children)
<1> DEFINE small == Smaller[n.type]
           m == Resized(n, small)
<1>0. /\ n.type \in Types /\ Len(n.children) \in Nat
  BY DEF InnerNode
<1>1. small \in DOMAIN Larger /\ small \in Types /\ Larger[small] = n.type
  BY <1>0 DEF Types, Smaller, Larger
<1>2. /\ Shrink[n.type] <= Capacity[small] /\ Shrink[small] < Shrink[n.type]
  BY <1>1, NodeAssumption
<1> HIDE DEF small
<1>3. /\ m \in InnerNode /\ Distinct(m)
      /\ m.type = small /\ m.partial_len = n.partial_len /\ m.partial = n.partial
      /\ Len(m.children) = Len(n.children)
      /\ ToSet(m.children) = ToSet(n.children)
  BY <1>1, Relaying
<1> HIDE DEF m
<1>4. WellLaid(m)
  BY <1>2, <1>3 DEF WellLaid, Distinct
<1> QED
  BY <1>3, <1>4 DEF m, small

(* What Iterate's function is, and the part of it up to n. *)
IsIterate(g, next, x) == g = [i \in Nat |-> IF i = 0 THEN x ELSE next[g[i - 1]]]

(* The part up to n of what a step gives, one after another. *)
Run(g, next, x, T, n) ==
  g \in [0 .. n -> T] /\ g[0] = x /\ \A i \in 1 .. n : g[i] = next[g[i - 1]]

(* Two such parts agree as far as both go. *)
LEMMA RunIsOne ==
  ASSUME NEW T, NEW next, NEW x, NEW m \in Nat, NEW n \in Nat, m <= n,
         NEW g, NEW h, Run(g, next, x, T, m), Run(h, next, x, T, n)
  PROVE  \A i \in 0 .. m : g[i] = h[i]
<1> DEFINE S == {i \in Nat : i <= m => g[i] = h[i]}
<1>1. 0 \in S
  BY DEF Run
<1>2. ASSUME NEW i \in Nat, i \in S PROVE i + 1 \in S
  <2> SUFFICES ASSUME i + 1 <= m PROVE g[i + 1] = h[i + 1]
    OBVIOUS
  <2>1. g[i] = h[i] /\ i + 1 \in 1 .. m /\ i + 1 \in 1 .. n /\ (i + 1) - 1 = i
    BY <1>2
  <2>2. g[i + 1] = next[g[(i + 1) - 1]] /\ h[i + 1] = next[h[(i + 1) - 1]]
    BY <2>1 DEF Run
  <2> QED
    BY <2>1, <2>2
<1> HIDE DEF S
<1>3. \A i \in Nat : i \in S
  BY <1>1, <1>2, SetInduction
<1> QED
  BY <1>3 DEF S

(* There is such a part of every length. *)
LEMMA RunHas ==
  ASSUME NEW T, NEW next \in [T -> T], NEW x \in T
  PROVE  \A n \in Nat : \E g : Run(g, next, x, T, n)
<1> DEFINE S == {n \in Nat : \E g : Run(g, next, x, T, n)}
<1>1. 0 \in S
  <2>1. Run([i \in 0 .. 0 |-> x], next, x, T, 0)
    BY DEF Run
  <2> QED
    BY <2>1
<1>2. ASSUME NEW n \in Nat, n \in S PROVE n + 1 \in S
  <2>1. PICK g : Run(g, next, x, T, n)
    BY <1>2
  <2> DEFINE h == [i \in 0 .. n + 1 |-> IF i <= n THEN g[i] ELSE next[g[n]]]
  <2>2. g[n] \in T /\ g[0] = x /\ (\A i \in 0 .. n : g[i] \in T)
        /\ \A i \in 1 .. n : g[i] = next[g[i - 1]]
    BY <2>1 DEF Run
  <2>3. h \in [0 .. n + 1 -> T]
    BY <2>2
  <2>4. h[0] = x
    BY <2>2
  <2>5. \A i \in 1 .. n + 1 : h[i] = next[h[i - 1]]
    <3> TAKE i \in 1 .. n + 1
    <3>1. CASE i <= n
      BY <3>1, <2>2
    <3>2. CASE i = n + 1
      BY <3>2, <2>2
    <3> QED
      BY <3>1, <3>2
  <2>6. Run(h, next, x, T, n + 1)
    BY <2>3, <2>4, <2>5 DEF Run
  <2> QED
    BY <2>6
<1> HIDE DEF S
<1>3. \A i \in Nat : i \in S
  BY <1>1, <1>2, SetInduction
<1> QED
  BY <1>3 DEF S

(* Iterate applies the step n times. *)
LEMMA Iterating ==
  ASSUME NEW T, NEW next \in [T -> T], NEW x \in T
  PROVE  /\ Iterate(next, x, 0) = x
         /\ \A n \in Nat : /\ Iterate(next, x, n) \in T
                           /\ Iterate(next, x, n + 1) = next[Iterate(next, x, n)]
<1> DEFINE r(n) == CHOOSE g : Run(g, next, x, T, n)
           f == [n \in Nat |-> r(n)[n]]
<1>1. \A n \in Nat : Run(r(n), next, x, T, n)
  BY RunHas
<1> HIDE DEF r
<1>2. \A n \in Nat : f[n] \in T
  BY <1>1 DEF Run
<1>3. f[0] = x
  BY <1>1 DEF Run
<1>4. \A n \in Nat : f[n + 1] = next[f[n]]
  <2> TAKE n \in Nat
  <2>1. Run(r(n), next, x, T, n) /\ Run(r(n + 1), next, x, T, n + 1)
    BY <1>1
  <2>2. r(n)[n] = r(n + 1)[n]
    BY <2>1, RunIsOne
  <2>3. r(n + 1)[n + 1] = next[r(n + 1)[n]]
    <3>1. n + 1 \in 1 .. n + 1 /\ (n + 1) - 1 = n
      OBVIOUS
    <3> QED
      BY <3>1, <2>1 DEF Run
  <2> QED
    BY <2>2, <2>3
<1>5. IsIterate(f, next, x)
  <2>1. \A i \in Nat : f[i] = IF i = 0 THEN x ELSE next[f[i - 1]]
    <3> TAKE i \in Nat
    <3>1. CASE i = 0
      BY <3>1, <1>3
    <3>2. CASE i /= 0
      <4>1. i - 1 \in Nat /\ (i - 1) + 1 = i
        BY <3>2
      <4>2. f[(i - 1) + 1] = next[f[i - 1]]
        BY <4>1, <1>4
      <4> QED
        BY <4>1, <4>2, <3>2
    <3> QED
      BY <3>1, <3>2
  <2>2. DOMAIN f = Nat /\ f = [i \in Nat |-> f[i]]
    OBVIOUS
  <2> HIDE DEF f
  <2> QED
    BY <2>1, <2>2 DEF IsIterate
<1> DEFINE g == CHOOSE h : IsIterate(h, next, x)
<1>6. IsIterate(g, next, x)
  BY <1>5
<1>7. \A n : Iterate(next, x, n) = g[n]
  BY DEF Iterate, IsIterate
<1> HIDE DEF g, f
<1>8. g[0] = x /\ \A n \in Nat : g[n + 1] = next[g[n]]
  <2>1. \A i \in Nat : g[i] = IF i = 0 THEN x ELSE next[g[i - 1]]
    BY <1>6 DEF IsIterate
  <2>2. \A n \in Nat : n + 1 \in Nat /\ n + 1 /= 0 /\ (n + 1) - 1 = n
    OBVIOUS
  <2> QED
    BY <2>1, <2>2
<1>9. \A n \in Nat : g[n] \in T
  <2> DEFINE S == {n \in Nat : g[n] \in T}
  <2>1. 0 \in S
    BY <1>8
  <2>2. \A n \in Nat : n \in S => n + 1 \in S
    BY <1>8
  <2> HIDE DEF S
  <2>3. \A n \in Nat : n \in S
    BY <2>1, <2>2, SetInduction
  <2> QED
    BY <2>3 DEF S
<1> QED
  BY <1>7, <1>8, <1>9

(* What every step takes from stage to stage holds of what Iterate gives. *)
LEMMA Stepping ==
  ASSUME NEW T, NEW next \in [T -> T], NEW x \in T, NEW P, x \in P[0],
         \A i \in Nat : \A y \in T : y \in P[i] => next[y] \in P[i + 1],
         NEW n \in Nat
  PROVE  Iterate(next, x, n) \in P[n]
<1> DEFINE S == {i \in Nat : Iterate(next, x, i) \in P[i]}
<1>1. 0 \in S
  BY Iterating
<1>2. \A i \in Nat : i \in S => i + 1 \in S
  BY Iterating
<1> HIDE DEF S
<1>3. \A i \in Nat : i \in S
  BY <1>1, <1>2, SetInduction
<1> QED
  BY <1>3 DEF S

(* Every place is empty, a leaf, or an inner node that is well laid out. *)
Laid ==
  /\ DOMAIN nodes = Refs
  /\ \A r \in Refs : \/ nodes[r] = NoNode
                     \/ nodes[r] \in LeafNode
                     \/ WellLaid(nodes[r])

(* Every place is empty, a leaf or an inner node. *)
LEMMA KindOf ==
  ASSUME Laid, NEW r \in Refs
  PROVE  /\ nodes[r] = NoNode => ~IS_LEAF(nodes[r]) /\ ~IsInner(nodes[r])
         /\ IS_LEAF(nodes[r]) => nodes[r] \in LeafNode /\ ~IsInner(nodes[r]) /\ nodes[r] /= NoNode
         /\ IsInner(nodes[r]) => /\ WellLaid(nodes[r]) /\ nodes[r] \in InnerNode
                                 /\ ~IS_LEAF(nodes[r]) /\ nodes[r] /= NoNode
         /\ nodes[r] = NoNode \/ IS_LEAF(nodes[r]) \/ IsInner(nodes[r])
<1>1. CASE nodes[r] = NoNode
  BY <1>1 DEF NoNode, IS_LEAF, IsInner, Types
<1>2. CASE nodes[r] \in LeafNode
  BY <1>2 DEF LeafNode, NoNode, IS_LEAF, IsInner, Types
<1>3. CASE WellLaid(nodes[r])
  <2>1. nodes[r] \in InnerNode
    BY <1>3 DEF WellLaid
  <2> QED
    BY <2>1, <1>3 DEF InnerNode, NoNode, IS_LEAF, IsInner, Types
<1> QED
  BY <1>1, <1>2, <1>3 DEF Laid

(* How far two sequences agree. *)
LEMMA Agreeing ==
  ASSUME NEW s, NEW t, NEW max \in Int
  PROVE  LET a == Agreement(s, t, max)
         IN  /\ a \in Nat /\ (a <= max \/ a = 0)
             /\ \A j \in 1 .. a : s[j] = t[j]
             /\ a < max => s[a + 1] /= t[a + 1]
<1> DEFINE S == {0} \cup {i \in 1 .. max : \A j \in 1 .. i : s[j] = t[j]}
           above == {m \in Nat : \A x \in S : x <= m}
           a == Agreement(s, t, max)
<1>1. S \subseteq Nat /\ 0 \in S /\ \A x \in S : x <= max \/ x = 0
  OBVIOUS
<1>2. \A x \in S : \A j \in 1 .. x : s[j] = t[j]
  OBVIOUS
<1>3. \A x \in S : x < max /\ s[x + 1] = t[x + 1] => x + 1 \in S
  OBVIOUS
<1>4. a = Max(S)
  BY DEF Agreement
<1> HIDE DEF S, a
<1>5. above \subseteq Nat /\ above /= {}
  <2>1. CASE max \in Nat
    <3>1. max \in above
      BY <1>1, <2>1
    <3> QED
      BY <3>1
  <2>2. CASE max \notin Nat
    <3>1. 0 \in above
      BY <1>1, <2>2
    <3> QED
      BY <3>1
  <2> QED
    BY <2>1, <2>2
<1>6. PICK m \in above : \A x \in above : m <= x
  BY <1>5, LeastNat
<1>7. m \in Nat /\ \A x \in S : x <= m
  BY <1>6
<1>8. m \in S
  <2> SUFFICES ASSUME m \notin S PROVE FALSE
    OBVIOUS
  <2>1. m /= 0 /\ \A x \in S : x < m
    BY <1>1, <1>7
  <2>2. m - 1 \in above
    BY <2>1, <1>1, <1>7
  <2> HIDE DEF above
  <2> QED
    BY <2>2, <1>6, <1>7
<1>9. \E x \in S : \A y \in S : x >= y
  BY <1>1, <1>7, <1>8
<1>10. a \in S /\ \A y \in S : a >= y
  BY <1>4, <1>9 DEF Max
<1>11. a < max => s[a + 1] /= t[a + 1]
  <2> SUFFICES ASSUME a < max, s[a + 1] = t[a + 1] PROVE FALSE
    OBVIOUS
  <2>1. a + 1 \in S /\ a \in Nat
    BY <1>3, <1>10, <1>1
  <2> QED
    BY <2>1, <1>10
<1> QED
  BY <1>1, <1>2, <1>10, <1>11 DEF a

(* A key in its buffer: the byte after it is 0. *)
Holds(key, k) ==
  /\ key \in Seq(Bytes)
  /\ Len(key) > Len(k) + MaxKeyLen
  /\ \A i \in 1 .. Len(k) : key[i] = k[i]
  /\ key[Len(k) + 1] = 0
  /\ SubSeq(key, 1, Len(k)) = k

(* A key is a sequence of bytes other than 0, as long as the bound *)
(* allows.                                                         *)
LEMMA KeyFacts ==
  ASSUME NEW k \in Keys
  PROVE  /\ k \in Seq(Bytes) /\ Len(k) \in 0 .. MaxKeyLen /\ MaxKeyLen \in Nat
         /\ \A i \in 1 .. Len(k) : k[i] \in 1 .. NBytes - 1 /\ k[i] /= 0
<1>1. k \in Seq(1 .. NBytes - 1) /\ Len(k) <= MaxKeyLen /\ MaxKeyLen \in Nat
  BY KeysAssumption
<1>2. 1 .. NBytes - 1 \subseteq Bytes
  BY NodeAssumption DEF Bytes
<1>3. k \in Seq(Bytes)
  BY <1>1, <1>2, SeqMonotonic
<1>4. \A i \in 1 .. Len(k) : k[i] \in 1 .. NBytes - 1
  BY <1>1, ElementOfSeq
<1>5. \A x \in 1 .. NBytes - 1 : x /= 0
  BY NodeAssumption
<1>6. Len(k) \in Nat
  BY <1>1, LenProperties
<1> QED
  BY <1>1, <1>3, <1>4, <1>5, <1>6

(* A key and what the caller has behind it is such a buffer if a 0 comes *)
(* first: the hypothesis of the theorems below.                          *)
LEMMA Buffered ==
  ASSUME NEW k \in Keys, NEW rest \in Rests, rest[1] = 0
  PROVE  Holds(k \o rest, k)
<1> DEFINE key == k \o rest
<1>0. k \in Seq(Bytes) /\ Len(k) \in Nat /\ MaxKeyLen \in Nat
  BY KeyFacts
<1>1. rest \in Seq(Bytes) /\ Len(rest) > MaxKeyLen /\ Len(rest) \in Nat
  BY KeysAssumption, LenProperties
<1>2. /\ key \in Seq(Bytes) /\ Len(key) = Len(k) + Len(rest)
      /\ \A i \in 1 .. Len(k) + Len(rest) : key[i] = IF i <= Len(k) THEN k[i] ELSE rest[i - Len(k)]
  BY <1>0, <1>1, ConcatProperties
<1> HIDE DEF key
<1>3. Len(k) + 1 \in 1 .. Len(k) + Len(rest) /\ (Len(k) + 1) - Len(k) = 1
  BY <1>0, <1>1
<1>4. key[Len(k) + 1] = 0
  BY <1>2, <1>3, <1>0
<1>5. \A i \in 1 .. Len(k) : key[i] = k[i]
  BY <1>2, <1>0, <1>1
<1>6. SubSeq(key, 1, Len(k)) = k
  <2>1. \A i \in 1 .. Len(k) : key[i] \in Bytes
    BY <1>5, <1>0, ElementOfSeq
  <2>2. /\ SubSeq(key, 1, Len(k)) \in Seq(Bytes)
        /\ Len(SubSeq(key, 1, Len(k))) = Len(k)
        /\ \A i \in 1 .. Len(k) : SubSeq(key, 1, Len(k))[i] = key[i]
    BY <2>1, <1>0, SubSeqProperties
  <2> QED
    BY <2>2, <1>5, <1>0, SeqEqual
<1> QED
  BY <1>0, <1>1, <1>2, <1>4, <1>5, <1>6 DEF Holds, key

(* What Drop gives, place by place. *)
LEMMA Dropping ==
  ASSUME NEW S, NEW s \in Seq(S), NEW d \in Nat
  PROVE  \A j \in 1 .. Len(s) - d : Drop(s, d)[j] = s[d + j]
<1>1. Len(s) \in Nat
  BY LenProperties
<1>2. \A i \in d + 1 .. Len(s) : s[i] \in S
  BY <1>1, ElementOfSeq
<1>3. \A i \in 1 .. Len(s) - (d + 1) + 1 : SubSeq(s, d + 1, Len(s))[i] = s[(d + 1) + i - 1]
  BY <1>1, <1>2, SubSeqProperties
<1> QED
  BY <1>1, <1>3 DEF Drop

-----------------------------------------------------------------------------

(* What Shape says of the places. *)
LEMMA Typing ==
  ASSUME Laid, NEW E, NEW B, Shape(E, B)
  PROVE  /\ Trie(Used, InnerRefs, E, B, Kids)
         /\ Used = LeafRefs \cup InnerRefs /\ LeafRefs \cap InnerRefs = {}
         /\ \A r \in Used : E[r] \in Nat /\ E[r] <= MaxKeyLen + 1 /\ r \in Refs
         /\ \A r \in InnerRefs : r \in Used /\ Kids[r] = ToSet(nodes[r].children)
<1>1. Trie(Used, InnerRefs, E, B, Kids) /\ \A r \in Used : E[r] <= MaxKeyLen + 1
  BY DEF Shape, LeafAt, InnerAt
<1>2. Used = LeafRefs \cup InnerRefs /\ LeafRefs \cap InnerRefs = {}
  BY KindOf DEF Used, LeafRefs, InnerRefs
<1>3. \A r \in Used : E[r] \in Nat
  BY <1>1 DEF Trie
<1>4. \A r \in InnerRefs : Kids[r] = ToSet(nodes[r].children)
  BY DEF Kids
<1> QED
  BY <1>1, <1>2, <1>3, <1>4 DEF Used

(* What Shape says of an entry of an inner node. *)
LEMMA ChildOf ==
  ASSUME Laid, NEW E, NEW B, Shape(E, B), NEW s \in InnerRefs, NEW e \in ToSet(nodes[s].children)
  PROVE  /\ e \in Kids[s] /\ e.ref \in Used /\ e.ref /= Root
         /\ Above(s, e.ref, InnerRefs, E, B)
         /\ E[s] < E[e.ref]
         /\ B[e.ref][E[s] + 1] = e.byte
<1>1. Trie(Used, InnerRefs, E, B, Kids) /\ e \in Kids[s]
  BY Typing
<1>2. e.ref /= Root
  <2>1. nodes[s].children \in Seq(Entries)
    BY KindOf DEF InnerRefs, InnerNode, Entries
  <2>2. e \in Entries
    BY <2>1, Among, ElementOfSeq
  <2> QED
    BY <2>2 DEF Entries
<1> QED
  BY <1>1, <1>2 DEF Trie, Above

(* A place is reached with one number of bytes. *)
LEMMA OneSlot ==
  ASSUME Laid, NEW E, NEW B, Shape(E, B), NEW r, NEW c, NEW d, Slot(r, c, E), Slot(r, d, E)
  PROVE  c = d
<1>0. Trie(Used, InnerRefs, E, B, Kids) /\ \A s \in InnerRefs : Kids[s] = ToSet(nodes[s].children)
  BY Typing
<1>1. CASE r = Root
  <2>1. \A s \in InnerRefs : \A e \in Kids[s] : e.ref /= Root
    BY <1>0, ChildOf
  <2> QED
    BY <2>1, <1>1 DEF Slot, SlotIn
<1>2. CASE r /= Root
  <2>1. PICK s \in InnerRefs : \E e \in Kids[s] : e.ref = r /\ c = E[s] + 1
    BY <1>2 DEF Slot, SlotIn
  <2>2. PICK t \in InnerRefs : \E e \in Kids[t] : e.ref = r /\ d = E[t] + 1
    BY <1>2 DEF Slot, SlotIn
  <2>3. s = t
    BY <2>1, <2>2, <1>0, OneParent
  <2> QED
    BY <2>1, <2>2, <2>3
<1> QED
  BY <1>1, <1>2

(* A descent's place: it is in use, and depth is the number of bytes *)
(* used.                                                             *)
Placed(p, E) == p \in Places /\ p.ref \in Used /\ Slot(p.ref, p.depth, E)

(* Where a node's prefix starts and ends, and what it stores of it. *)
LEMMA Turning ==
  ASSUME Laid, NEW E, NEW B, Shape(E, B), NEW p, Placed(p, E), p.ref \in InnerRefs
  PROVE  /\ Turn(p) = E[p.ref] /\ E[p.ref] = p.depth + nodes[p.ref].partial_len
         /\ p.depth \in Nat /\ nodes[p.ref].partial_len \in Nat
         /\ nodes[p.ref].partial =
              [i \in 1 .. Least(MAX_PREFIX_LEN, nodes[p.ref].partial_len) |-> B[p.ref][p.depth + i]]
         /\ \A i \in 1 .. E[p.ref] : B[p.ref][i] \in 1 .. NBytes - 1
<1> DEFINE r == p.ref
           n == nodes[r]
<1>1. r \in Refs /\ p.depth \in Nat /\ Slot(r, p.depth, E)
  BY DEF Placed, Places
<1>2. n.partial_len \in Nat /\ E[r] \in Nat
  BY <1>1, KindOf, Typing DEF InnerRefs, InnerNode
<1>3. /\ Slot(r, E[r] - n.partial_len, E)
      /\ \A i \in 1 .. E[r] : B[r][i] \in 1 .. NBytes - 1
      /\ n.partial = [i \in 1 .. Least(MAX_PREFIX_LEN, n.partial_len) |->
                         B[r][(E[r] - n.partial_len) + i]]
  BY DEF Shape, LeafAt, InnerAt
<1>4. E[r] - n.partial_len = p.depth
  BY <1>1, <1>3, OneSlot, SMTT(30)
<1> QED
  BY <1>1, <1>2, <1>3, <1>4 DEF Turn

(* The next place of a descent is placed again, below the first. *)
LEMMA GoingBelow ==
  ASSUME Laid, NEW E, NEW B, Shape(E, B), NEW p, Placed(p, E), p.ref \in InnerRefs, NEW key,
         Chosen(p, key) /= 0
  PROVE  /\ Placed(Below(p, key), E)
         /\ Below(p, key).depth = E[p.ref] + 1
         /\ Above(p.ref, Below(p, key).ref, InnerRefs, E, B)
         /\ B[Below(p, key).ref][E[p.ref] + 1] = key[E[p.ref] + 1]
         /\ nodes[p.ref].children[Chosen(p, key)] \in Kids[p.ref]
         /\ Chosen(p, key) \in 1 .. Len(nodes[p.ref].children)
<1> DEFINE n == nodes[p.ref]
           i == Chosen(p, key)
           e == n.children[i]
<1>1. Turn(p) = E[p.ref] /\ p.ref \in Refs /\ E[p.ref] \in Nat
  BY Turning, Typing DEF Placed, Places
<1>2. n \in InnerNode
  BY <1>1, KindOf DEF InnerRefs
<1>3. i \in 1 .. Len(n.children) /\ e \in ToSet(n.children) /\ e.byte = key[E[p.ref] + 1]
  <2>1. i = find_child(n, key[E[p.ref] + 1])
    BY <1>1 DEF Chosen
  <2> QED
    BY <2>1, <1>2, Finding
<1>4. /\ e \in Kids[p.ref] /\ e.ref \in Used
      /\ Above(p.ref, e.ref, InnerRefs, E, B)
      /\ B[e.ref][E[p.ref] + 1] = e.byte
  BY <1>3, ChildOf
<1>5. Below(p, key) = [ref |-> e.ref, depth |-> E[p.ref] + 1]
  BY <1>1 DEF Below
<1>6. Slot(e.ref, E[p.ref] + 1, E)
  BY <1>4 DEF Slot, SlotIn
<1>7. Below(p, key).ref = e.ref /\ Below(p, key).depth = E[p.ref] + 1
  BY <1>5
<1>8. Below(p, key) \in Places
  BY <1>5, <1>4, <1>1 DEF Places, Used
<1> HIDE DEF n, i, e
<1> QED
  BY <1>3, <1>4, <1>6, <1>7, <1>8 DEF Placed, n, i, e

(* Where find_child has no child to go on to, no entry has the byte. *)
LEMMA NotChosen ==
  ASSUME Laid, NEW E, NEW B, Shape(E, B), NEW p, Placed(p, E), p.ref \in InnerRefs, NEW key,
         Chosen(p, key) = 0
  PROVE  \A e \in Kids[p.ref] : e.byte /= key[E[p.ref] + 1]
<1>1. Turn(p) = E[p.ref] /\ p.ref \in Refs /\ Kids[p.ref] = ToSet(nodes[p.ref].children)
  BY Turning, Typing DEF Placed, Places
<1>2. nodes[p.ref] \in InnerNode
  BY <1>1, KindOf DEF InnerRefs
<1> QED
  BY <1>1, <1>2, Finding DEF Chosen

(* One step of a descent stays among the places. *)
LEMMA NextPlace ==
  ASSUME Laid, NEW from, NEW key,
         \A p \in Places : p \in from => IsInner(nodes[p.ref]) /\ Chosen(p, key) /= 0
  PROVE  [p \in Places |-> IF p \in from THEN Below(p, key) ELSE p] \in [Places -> Places]
<1>1. ASSUME NEW p \in Places, p \in from PROVE Below(p, key) \in Places
  <2> DEFINE n == nodes[p.ref]
             i == Chosen(p, key)
  <2>1. p.ref \in Refs /\ p.depth \in Nat
    BY DEF Places
  <2>2. n \in InnerNode /\ i /= 0
    BY <2>1, <1>1, KindOf
  <2>3. i \in 1 .. Len(n.children)
    BY <2>2, Finding DEF Chosen
  <2>4. n.children \in Seq(Entries) /\ n.partial_len \in Nat
    BY <2>2 DEF InnerNode, Entries
  <2>5. n.children[i] \in Entries
    BY <2>3, <2>4, ElementOfSeq
  <2>6. n.children[i].ref \in Refs /\ Turn(p) + 1 \in Nat
    BY <2>1, <2>4, <2>5 DEF Entries, Turn
  <2> QED
    BY <2>6 DEF Below, Places
<1> QED
  BY <1>1

(* A descent starts at a place of the tree. *)
LEMMA StartPlaced ==
  ASSUME Laid, NEW E, NEW B, Shape(E, B), Root \in Used
  PROVE  Placed(Start, E)
BY RefsAssumption DEF Placed, Places, Start, Slot, SlotIn

(* The descent through a tree without nodes. *)
LEMMA EmptyDescent ==
  ASSUME Laid, nodes[Root] = NoNode, NEW from, NEW key,
         \A p \in Places : p \in from => IsInner(nodes[p.ref]) /\ Chosen(p, key) /= 0
  PROVE  Descend(from, key) = Start
<1> DEFINE next == [p \in Places |-> IF p \in from THEN Below(p, key) ELSE p]
           P == [i \in Nat |-> {Start}]
<1>1. Start \in Places /\ MaxKeyLen + 1 \in Nat
  BY RefsAssumption, KeysAssumption DEF Start, Places
<1>2. next \in [Places -> Places]
  BY NextPlace
<1>3. Start \notin from
  BY <1>1, KindOf, RefsAssumption DEF Start
<1>4. \A i \in Nat : \A y \in Places : y \in P[i] => next[y] \in P[i + 1]
  BY <1>1, <1>3
<1>5. Descend(from, key) = Iterate(next, Start, MaxKeyLen + 1)
  BY DEF Descend
<1>6. Start \in P[0] /\ P[MaxKeyLen + 1] = {Start}
  BY <1>1
<1> HIDE DEF next, P
<1>7. Iterate(next, Start, MaxKeyLen + 1) \in P[MaxKeyLen + 1]
  BY <1>1, <1>2, <1>4, <1>6, Stepping
<1> QED
  BY <1>5, <1>6, <1>7

(* The invariant Q of the places a descent passes, as a set.  It ends      *)
(* where there is nothing to go on from: every step consumes a byte.       *)
LEMMA Descending ==
  ASSUME Laid, NEW E, NEW B, Shape(E, B), NEW from, NEW key, NEW Q,
         \A p \in Places : p \in from => IsInner(nodes[p.ref]) /\ Chosen(p, key) /= 0,
         \A p \in Q : Placed(p, E), Start \in Q,
         \A p \in Q : p \in from => Below(p, key) \in Q
  PROVE  Descend(from, key) \in Q /\ Descend(from, key) \notin from
<1> DEFINE next == [p \in Places |-> IF p \in from THEN Below(p, key) ELSE p]
           P == [i \in Nat |-> {p \in Q : p \notin from \/ p.depth >= i}]
           N == MaxKeyLen + 1
<1>1. Start \in Places /\ N \in Nat /\ Start.depth = 0 /\ MaxKeyLen \in Nat
  BY RefsAssumption, KeysAssumption DEF Start, Places
<1>2. next \in [Places -> Places]
  BY NextPlace
<1>3. ASSUME NEW i \in Nat, NEW y \in Places, y \in P[i] PROVE next[y] \in P[i + 1]
  <2>1. y \in Q /\ (y \notin from \/ y.depth >= i) /\ Placed(y, E)
    BY <1>3
  <2>2. CASE y \notin from
    BY <2>1, <2>2
  <2>3. CASE y \in from
    <3>1. next[y] = Below(y, key) /\ Below(y, key) \in Q
      BY <2>1, <2>3
    <3>2. y.ref \in InnerRefs /\ Chosen(y, key) /= 0
      BY <2>3 DEF InnerRefs, Places
    <3>3. Below(y, key).depth = E[y.ref] + 1
      BY <2>1, <3>2, GoingBelow
    <3>4. E[y.ref] \in Nat /\ y.depth \in Nat
      BY <2>1, Typing DEF Placed, Places
    <3>5. E[y.ref] >= y.depth
      <4>1. /\ E[y.ref] = y.depth + nodes[y.ref].partial_len
            /\ nodes[y.ref].partial_len \in Nat
        BY <2>1, <3>2, Turning
      <4> QED
        BY <4>1, <3>4
    <3>6. Below(y, key).depth >= i + 1
      BY <2>1, <2>3, <3>3, <3>5, <3>4
    <3> QED
      BY <3>1, <3>6
  <2> QED
    BY <2>2, <2>3
<1>5. Descend(from, key) = Iterate(next, Start, N)
  BY DEF Descend
<1>6. Start \in P[0] /\ P[N] = {p \in Q : p \notin from \/ p.depth >= N}
  BY <1>1
<1> HIDE DEF next, P, N
<1>7. Iterate(next, Start, N) \in P[N]
  BY <1>1, <1>2, <1>3, <1>6, Stepping
<1> DEFINE p == Descend(from, key)
<1>8. p \in Q /\ (p \notin from \/ p.depth >= N)
  BY <1>5, <1>6, <1>7
<1> HIDE DEF p
<1>9. ASSUME p \in from PROVE FALSE
  <2>1. Placed(p, E) /\ p.depth >= MaxKeyLen + 1
    BY <1>8, <1>9 DEF N
  <2>2. p.ref \in InnerRefs /\ Chosen(p, key) /= 0
    BY <2>1, <1>9 DEF InnerRefs, Places, Placed
  <2>3. Above(p.ref, Below(p, key).ref, InnerRefs, E, B) /\ Placed(Below(p, key), E)
    BY <2>1, <2>2, GoingBelow
  <2>4. E[p.ref] < E[Below(p, key).ref] /\ E[Below(p, key).ref] <= MaxKeyLen + 1
        /\ E[Below(p, key).ref] \in Nat /\ E[p.ref] \in Nat
    BY <2>1, <2>3, Typing DEF Above, Placed
  <2>5. E[p.ref] >= p.depth /\ p.depth \in Nat
    <3>1. /\ E[p.ref] = p.depth + nodes[p.ref].partial_len
          /\ nodes[p.ref].partial_len \in Nat /\ p.depth \in Nat
      BY <2>1, <2>2, Turning
    <3> QED
      BY <3>1
  <2> QED
    BY <2>1, <2>4, <2>5, <1>1
<1> QED
  BY <1>8, <1>9 DEF p

(* The leaf minimum returns is below the node. *)
LEMMA MinimumBelow ==
  ASSUME Laid, NEW E, NEW B, Shape(E, B), NEW r \in InnerRefs
  PROVE  \E l \in LeafRefs : minimum(r) = nodes[l] /\ Above(r, l, InnerRefs, E, B)
<1> DEFINE next == [q \in Refs |-> IF IsInner(nodes[q]) THEN Head(nodes[q].children).ref ELSE q]
           P == [i \in Nat |-> {q \in Used : /\ Covers(r, q, InnerRefs, E, B)
                                             /\ q \in LeafRefs \/ E[q] >= i}]
           N == MaxKeyLen + 1
<1>0. /\ N \in Nat /\ MaxKeyLen \in Nat /\ Used = LeafRefs \cup InnerRefs
      /\ LeafRefs \cap InnerRefs = {}
      /\ \A q \in Used : E[q] \in Nat /\ E[q] <= N /\ q \in Refs
  BY Typing, KeysAssumption
<1>1. ASSUME NEW q \in InnerRefs
      PROVE  /\ Head(nodes[q].children).ref \in Used
             /\ Above(q, Head(nodes[q].children).ref, InnerRefs, E, B)
             /\ E[q] < E[Head(nodes[q].children).ref]
  <2>1. WellLaid(nodes[q]) /\ nodes[q].children \in Seq(Entries)
        /\ nodes[q].type \in Types
    BY KindOf DEF InnerRefs, InnerNode, Entries
  <2>2. Len(nodes[q].children) \in Nat /\ Len(nodes[q].children) /= 0
    BY <2>1, LenProperties, NodeAssumption DEF WellLaid
  <2>3. Head(nodes[q].children) = nodes[q].children[1]
    OBVIOUS
  <2>4. nodes[q].children[1] \in ToSet(nodes[q].children)
    BY <2>1, <2>2, Among
  <2> QED
    BY <2>3, <2>4, ChildOf
<1>2. next \in [Refs -> Refs]
  BY <1>0, <1>1 DEF InnerRefs
<1>3. ASSUME NEW i \in Nat, NEW q \in Refs, q \in P[i] PROVE next[q] \in P[i + 1]
  <2>1. q \in Used /\ Covers(r, q, InnerRefs, E, B) /\ (q \in LeafRefs \/ E[q] >= i)
    BY <1>3
  <2>2. CASE q \in LeafRefs
    <3>1. next[q] = q
      BY <2>2, <1>0 DEF InnerRefs
    <3> QED
      BY <2>1, <2>2, <3>1
  <2>3. CASE q \in InnerRefs
    <3> DEFINE c == Head(nodes[q].children).ref
    <3>1. next[q] = c
      BY <2>3 DEF InnerRefs
    <3>2. c \in Used /\ Above(q, c, InnerRefs, E, B) /\ E[q] < E[c]
      BY <2>3, <1>1
    <3>3. E[q] \in Nat /\ E[c] \in Nat /\ E[r] \in Nat
      BY <2>1, <3>2, <1>0
    <3> HIDE DEF c
    <3>4. Above(r, c, InnerRefs, E, B)
      <4>1. CASE q = r
        BY <4>1, <3>2
      <4>2. CASE Above(r, q, InnerRefs, E, B)
        BY <4>2, <3>2, <3>3, Through DEF Covers
      <4> QED
        BY <4>1, <4>2, <2>1 DEF Covers
    <3>5. E[c] >= i + 1
      BY <2>1, <2>3, <3>2, <3>3, <1>0
    <3> QED
      BY <3>1, <3>2, <3>4, <3>5 DEF Covers
  <2> QED
    BY <2>1, <2>2, <2>3, <1>0
<1>4. r \in Refs /\ r \in P[0]
  BY <1>0 DEF Covers
<1>5. P[N] = {q \in Used : Covers(r, q, InnerRefs, E, B) /\ (q \in LeafRefs \/ E[q] >= N)}
  BY <1>0
<1> DEFINE l == Iterate(next, r, N)
<1>6. minimum(r) = nodes[l]
  BY DEF minimum
<1> HIDE DEF next, P, N
<1>7. l \in P[N]
  BY <1>0, <1>2, <1>3, <1>4, Stepping
<1> HIDE DEF l
<1>8. l \in Used /\ Covers(r, l, InnerRefs, E, B) /\ (l \in LeafRefs \/ E[l] >= N)
  BY <1>5, <1>7
<1>9. l \in LeafRefs
  <2> SUFFICES ASSUME l \in InnerRefs PROVE FALSE
    BY <1>8, <1>0
  <2>1. PICK c \in Used : E[l] < E[c]
    BY <1>1
  <2>2. E[l] \in Nat /\ E[c] \in Nat /\ E[c] <= N
    BY <1>8, <1>0
  <2>3. l \notin LeafRefs
    BY <1>0
  <2> QED
    BY <2>1, <2>2, <2>3, <1>8, <1>0
<1>10. Above(r, l, InnerRefs, E, B)
  BY <1>8, <1>9, <1>0 DEF Covers
<1> QED
  BY <1>6, <1>9, <1>10

(* A leaf's bytes. *)
LEMMA LeafPath ==
  ASSUME Laid, NEW E, NEW B, Shape(E, B), NEW l \in LeafRefs
  PROVE  /\ nodes[l] \in LeafNode /\ nodes[l].key \in Keys /\ nodes[l].val \in Values
         /\ Len(nodes[l].key) \in 0 .. MaxKeyLen
         /\ E[l] = Len(nodes[l].key) + 1
         /\ \A i \in 1 .. Len(nodes[l].key) : /\ B[l][i] = nodes[l].key[i]
                                              /\ B[l][i] \in 1 .. NBytes - 1
         /\ B[l][Len(nodes[l].key) + 1] = 0
         /\ \A i \in 1 .. E[l] : B[l][i] = LeafByte(nodes[l], i - 1) /\ B[l][i] \in Bytes
<1>1. nodes[l] \in LeafNode
  BY KindOf DEF LeafRefs
<1>2. nodes[l].key \in Keys /\ nodes[l].val \in Values
  BY <1>1 DEF LeafNode
<1>3. /\ Len(nodes[l].key) \in 0 .. MaxKeyLen /\ MaxKeyLen \in Nat
      /\ \A i \in 1 .. Len(nodes[l].key) : nodes[l].key[i] \in 1 .. NBytes - 1
  BY <1>2, KeyFacts
<1>4. /\ E[l] = Len(nodes[l].key) + 1
      /\ \A i \in 1 .. E[l] : B[l][i] = LeafByte(nodes[l], i - 1)
  BY DEF Shape, LeafAt, InnerAt
<1>5. \A i \in 1 .. E[l] : B[l][i] = IF i - 1 < Len(nodes[l].key) THEN nodes[l].key[(i - 1) + 1] ELSE 0
  BY <1>4 DEF LeafByte
<1>6. \A i \in 1 .. Len(nodes[l].key) : B[l][i] = nodes[l].key[i]
  <2> TAKE i \in 1 .. Len(nodes[l].key)
  <2>1. i \in 1 .. E[l] /\ i - 1 < Len(nodes[l].key) /\ (i - 1) + 1 = i
    BY <1>3, <1>4
  <2> QED
    BY <2>1, <1>5
<1>7. B[l][Len(nodes[l].key) + 1] = 0
  BY <1>5, <1>4, <1>3
<1>8. \A i \in 1 .. E[l] : B[l][i] \in Bytes
  <2> TAKE i \in 1 .. E[l]
  <2>1. 0 \in Bytes /\ 1 .. NBytes - 1 \subseteq Bytes
    BY NodeAssumption DEF Bytes
  <2>2. i \in 1 .. Len(nodes[l].key) \/ i = Len(nodes[l].key) + 1
    BY <1>3, <1>4
  <2> QED
    BY <2>1, <2>2, <1>3, <1>6, <1>7
<1> QED
  BY <1>1, <1>2, <1>3, <1>4, <1>6, <1>7, <1>8

(* The first d bytes of the key lead to the node of r. *)
Agrees(r, d, key, B) == \A i \in 1 .. d : B[r][i] = key[i]

(* What a buffer with a key holds. *)
LEMMA Held0 ==
  ASSUME NEW k \in Keys, NEW key, Holds(key, k)
  PROVE  /\ Len(k) \in Nat /\ Len(k) <= MaxKeyLen /\ MaxKeyLen \in Nat /\ Len(key) \in Nat
         /\ Len(key) > Len(k) + MaxKeyLen
         /\ \A i \in 1 .. Len(k) : key[i] = k[i] /\ key[i] \in 1 .. NBytes - 1 /\ key[i] /= 0
         /\ key[Len(k) + 1] = 0
<1>1. Len(k) \in 0 .. MaxKeyLen /\ MaxKeyLen \in Nat
  BY KeyFacts
<1>2. \A i \in 1 .. Len(k) : k[i] \in 1 .. NBytes - 1 /\ k[i] /= 0
  BY KeyFacts
<1>3. Len(key) \in Nat
  BY LenProperties DEF Holds
<1> QED
  BY <1>1, <1>2, <1>3 DEF Holds

(* A key that leads to an inner node is as long as what leads there. *)
LEMMA LongEnough ==
  ASSUME Laid, NEW E, NEW B, Shape(E, B), NEW r \in InnerRefs,
         NEW k \in Keys, NEW key, Holds(key, k), NEW d \in Nat, d <= E[r],
         Agrees(r, d, key, B)
  PROVE  d <= Len(k)
<1>1. \A i \in 1 .. E[r] : B[r][i] /= 0
  <2>1. \A i \in 1 .. E[r] : B[r][i] \in 1 .. NBytes - 1
    BY DEF Shape, LeafAt, InnerAt
  <2>2. \A x \in 1 .. NBytes - 1 : x /= 0
    BY NodeAssumption
  <2> QED
    BY <2>1, <2>2
<1>2. E[r] \in Nat
  BY Typing
<1>3. Len(k) \in Nat /\ key[Len(k) + 1] = 0
  BY Held0
<1> SUFFICES ASSUME d > Len(k) PROVE FALSE
  BY <1>3
<1>4. Len(k) + 1 \in 1 .. d /\ Len(k) + 1 \in 1 .. E[r]
  BY <1>2, <1>3
<1>5. B[r][Len(k) + 1] = 0
  BY <1>3, <1>4 DEF Agrees
<1> QED
  BY <1>1, <1>4, <1>5

(* What check_prefix finds. *)
LEMMA PrefixChecked ==
  ASSUME Laid, NEW E, NEW B, Shape(E, B), NEW p, Placed(p, E), p.ref \in InnerRefs,
         NEW k \in Keys, NEW key, Holds(key, k), p.depth <= Len(k), 
         NEW c, c = check_prefix(nodes[p.ref], key, Len(k), p.depth),
         NEW m, m = Len(nodes[p.ref].partial)
  PROVE  /\ m = Least(MAX_PREFIX_LEN, nodes[p.ref].partial_len)
         /\ c \in Nat /\ c <= m /\ c <= Len(k) - p.depth
         /\ \A j \in 1 .. c : B[p.ref][p.depth + j] = key[p.depth + j]
         /\ c < m /\ c < Len(k) - p.depth => B[p.ref][p.depth + c + 1] /= key[p.depth + c + 1]
<1> DEFINE r == p.ref
           d == p.depth
           n == nodes[r]
           q == Least(m, Len(k) - d)
           t == Drop(key, d)
<1>1. /\ d \in Nat /\ n.partial_len \in Nat
      /\ n.partial = [i \in 1 .. Least(MAX_PREFIX_LEN, n.partial_len) |-> B[r][d + i]]
  BY Turning, SMTT(20)
<1>2. MAX_PREFIX_LEN \in Nat /\ Least(MAX_PREFIX_LEN, n.partial_len) \in Nat
  BY <1>1, NodeAssumption DEF Least
<1>3. m = Least(MAX_PREFIX_LEN, n.partial_len)
  BY <1>1, <1>2
<1>4. /\ Len(k) \in Nat /\ Len(k) <= MaxKeyLen /\ MaxKeyLen \in Nat /\ Len(key) \in Nat
      /\ Len(key) > Len(k) + MaxKeyLen
  BY Held0
<1>5. \A j \in 1 .. Len(key) - d : t[j] = key[d + j]
  <2>1. key \in Seq(Bytes) /\ d \in Nat
    BY <1>1 DEF Holds
  <2> HIDE DEF d
  <2> QED
    BY <2>1, Dropping
<1>6. c = Agreement(n.partial, t, q)
  BY DEF check_prefix
<1>7. q \in Nat /\ q <= m /\ q <= Len(k) - d /\ (q = m \/ q = Len(k) - d)
  BY <1>1, <1>2, <1>3, <1>4 DEF Least
<1>8. \A j \in 1 .. m : n.partial[j] = B[r][d + j]
  BY <1>1, <1>3
<1> HIDE DEF q, t
<1>9. /\ c \in Nat /\ (c <= q \/ c = 0)
      /\ \A j \in 1 .. c : n.partial[j] = t[j]
      /\ c < q => n.partial[c + 1] /= t[c + 1]
  BY <1>6, <1>7, Agreeing
<1>10. /\ m \in Nat /\ c \in Nat /\ d \in Nat /\ c <= m /\ c <= Len(k) - d
       /\ Len(k) \in Nat /\ Len(key) \in Nat /\ Len(key) > Len(k)
  <2>1. m \in Nat /\ c \in Nat /\ d \in Nat /\ c <= q
    BY <1>1, <1>2, <1>3, <1>7, <1>9
  <2>2. Len(k) \in Nat /\ Len(key) \in Nat /\ Len(key) > Len(k)
    BY <1>4
  <2> QED
    BY <2>1, <2>2, <1>7
<1>11. \A j \in 1 .. c : B[r][d + j] = key[d + j]
  <2> TAKE j \in 1 .. c
  <2>1. j \in 1 .. m /\ j \in 1 .. Len(key) - d
    BY <1>10
  <2> QED
    BY <2>1, <1>5, <1>8, <1>9
<1>12. ASSUME c < m, c < Len(k) - d PROVE B[r][d + c + 1] /= key[d + c + 1]
  <2>1. c < q
    BY <1>12, <1>7
  <2>2. c + 1 \in 1 .. m /\ c + 1 \in 1 .. Len(key) - d /\ d + (c + 1) = d + c + 1
    <3> HIDE DEF d
    <3> QED
      BY <1>12, <1>10
  <2>3. n.partial[c + 1] = B[r][d + (c + 1)] /\ t[c + 1] = key[d + (c + 1)]
    BY <2>2, <1>5, <1>8
  <2> QED
    BY <2>1, <2>2, <2>3, <1>9
<1> QED
  BY <1>3, <1>10, <1>11, <1>12

(* A leaf's own key leads past every node the leaf is below. *)
LEMMA Follow ==
  ASSUME Laid, NEW E, NEW B, Shape(E, B), NEW p, Placed(p, E), p.ref \in InnerRefs,
         NEW l \in LeafRefs, NEW k \in Keys, k = nodes[l].key, NEW key, Holds(key, k),
         Covers(p.ref, l, InnerRefs, E, B)
  PROVE  /\ Continues(p, key, Len(k)) /\ Chosen(p, key) /= 0
         /\ E[p.ref] <= Len(k)
         /\ Agrees(p.ref, E[p.ref], key, B)
         /\ Placed(Below(p, key), E)
         /\ Covers(Below(p, key).ref, l, InnerRefs, E, B)
<1> DEFINE r == p.ref
           n == nodes[r]
           c == check_prefix(n, key, Len(k), p.depth)
           m == Len(n.partial)
<1>1. Above(r, l, InnerRefs, E, B) /\ l \in Used /\ E[r] \in Nat /\ r \in Refs
  BY Typing DEF Covers, Placed
<1>2. /\ E[l] = Len(k) + 1
      /\ \A i \in 1 .. Len(k) : B[l][i] = k[i]
      /\ B[l][Len(k) + 1] = 0
  BY LeafPath
<1>3. /\ Len(k) \in Nat /\ key[Len(k) + 1] = 0
      /\ \A i \in 1 .. Len(k) : key[i] = k[i]
  BY Held0
<1>4. E[r] <= Len(k) /\ \A i \in 1 .. E[r] : B[r][i] = B[l][i]
  BY <1>1, <1>2, <1>3 DEF Above
<1>5. \A i \in 1 .. E[r] : B[r][i] = key[i]
  BY <1>1, <1>2, <1>3, <1>4
<1>6. /\ Turn(p) = E[r] /\ E[r] = p.depth + n.partial_len
      /\ p.depth \in Nat /\ n.partial_len \in Nat
  BY Turning
<1>7. p.depth <= Len(k)
  BY <1>1, <1>3, <1>4, <1>6
<1>8. /\ m = Least(MAX_PREFIX_LEN, n.partial_len)
      /\ c \in Nat /\ c <= m
      /\ c < m /\ c < Len(k) - p.depth => B[r][p.depth + c + 1] /= key[p.depth + c + 1]
  BY <1>7, PrefixChecked, SMTT(20)
<1>9. m \in Nat /\ m <= n.partial_len
  BY <1>6, <1>8, NodeAssumption DEF Least
<1> HIDE DEF c, m
<1>10. c = m
  <2> SUFFICES ASSUME c < m PROVE FALSE
    BY <1>8, <1>9
  <2>1. c < Len(k) - p.depth /\ p.depth + c + 1 \in 1 .. E[r]
    BY <1>1, <1>3, <1>4, <1>6, <1>8, <1>9, SMTT(20)
  <2> QED
    BY <2>1, <1>5, <1>8
<1>11. PICK e \in Kids[r] : /\ Covers(e.ref, l, InnerRefs, E, B)
                            /\ e.byte = B[l][E[r] + 1]
  BY <1>1, Typing, Onward
<1>12. e.byte = key[E[r] + 1]
  <2>1. E[r] + 1 \in 1 .. Len(k) \/ E[r] + 1 = Len(k) + 1
    BY <1>1, <1>3, <1>4
  <2> QED
    BY <2>1, <1>2, <1>3, <1>11
<1>13. Chosen(p, key) /= 0
  BY <1>11, <1>12, NotChosen
<1>14. IsInner(n) /\ Continues(p, key, Len(k))
  BY <1>10, <1>13 DEF Continues, InnerRefs, c, m
<1>15. /\ Placed(Below(p, key), E)
       /\ B[Below(p, key).ref][E[r] + 1] = key[E[r] + 1]
       /\ nodes[r].children[Chosen(p, key)] \in Kids[r]
       /\ Above(r, Below(p, key).ref, InnerRefs, E, B)
  BY <1>13, GoingBelow
<1>16. Below(p, key).ref = e.ref
  <2> DEFINE f == nodes[r].children[Chosen(p, key)]
  <2>1. Below(p, key).ref = f.ref
    BY DEF Below
  <2>2. Trie(Used, InnerRefs, E, B, Kids)
    BY Typing
  <2>3. f.byte = B[f.ref][E[r] + 1]
    BY <1>15, <2>2 DEF Trie
  <2>4. f.byte = e.byte
    BY <2>1, <2>3, <1>12, <1>15
  <2>5. f = e
    BY <2>2, <2>4, <1>15, <1>11 DEF Trie
  <2> QED
    BY <2>1, <2>5
<1> QED
  BY <1>4, <1>5, <1>11, <1>13, <1>14, <1>15, <1>16 DEF Agrees

(* No two leaves have the same key. *)
LEMMA OneLeaf ==
  ASSUME Laid, NEW E, NEW B, Shape(E, B), NEW l \in LeafRefs, NEW m \in LeafRefs,
         nodes[l].key = nodes[m].key
  PROVE  l = m
<1>1. /\ E[l] = Len(nodes[l].key) + 1 /\ E[m] = Len(nodes[m].key) + 1
      /\ \A i \in 1 .. E[l] : B[l][i] = LeafByte(nodes[l], i - 1)
      /\ \A i \in 1 .. E[m] : B[m][i] = LeafByte(nodes[m], i - 1)
  BY DEF Shape, LeafAt, InnerAt
<1>2. \A i : LeafByte(nodes[l], i) = LeafByte(nodes[m], i)
  BY DEF LeafByte
<1>3. Same(l, m, E, B)
  BY <1>1, <1>2 DEF Same
<1>4. l \in Used /\ m \in Used /\ Trie(Used, InnerRefs, E, B, Kids)
  BY Typing
<1> QED
  BY <1>3, <1>4 DEF Trie

(* leaf_matches compares the key of the leaf with the one asked for. *)
LEMMA LeafFits ==
  ASSUME NEW n, NEW k, NEW key, Holds(key, k)
  PROVE  leaf_matches(n, key, Len(k)) <=> n.key = k
BY DEF leaf_matches, Holds

(* art_search finds the leaf of the key. *)
LEMMA SearchFinds ==
  ASSUME Laid, NEW E, NEW B, Shape(E, B), NEW k \in Keys, NEW key, Holds(key, k),
         NEW l \in LeafRefs, nodes[l].key = k
  PROVE  art_search(key, Len(k)) = nodes[l].val
<1> DEFINE from == {p \in Places : Continues(p, key, Len(k))}
           Q == {p \in Places : Placed(p, E) /\ Covers(p.ref, l, InnerRefs, E, B)}
<1>1. \A p \in Places : p \in from => IsInner(nodes[p.ref]) /\ Chosen(p, key) /= 0
  BY DEF Continues
<1>2. l \in Used /\ Root \in Used /\ Covers(Root, l, InnerRefs, E, B)
  <2>1. l \in Used /\ Trie(Used, InnerRefs, E, B, Kids)
    BY Typing
  <2> QED
    BY <2>1 DEF Trie
<1>3. Start \in Q
  BY <1>2, StartPlaced DEF Start, Placed
<1>4. \A p \in Q : Placed(p, E)
  OBVIOUS
<1>5. ASSUME NEW p \in Q, p.ref \in InnerRefs PROVE p \in from /\ Below(p, key) \in Q
  BY <1>5, Follow DEF Placed
<1>6. ASSUME NEW p \in Q, p \in from PROVE Below(p, key) \in Q
  BY <1>5, <1>6 DEF Continues, InnerRefs, Places
<1> DEFINE e == Descend(from, key)
<1>7. art_search(key, Len(k)) = IF IS_LEAF(nodes[e.ref]) /\ leaf_matches(nodes[e.ref], key, Len(k))
                                THEN nodes[e.ref].val ELSE NoValue
  BY DEF art_search
<1> HIDE DEF from, Q
<1>8. e \in Q /\ e \notin from
  BY <1>1, <1>3, <1>4, <1>6, Descending
<1> HIDE DEF e
<1>9. e.ref \notin InnerRefs
  BY <1>5, <1>8
<1>10. e.ref = l
  BY <1>8, <1>9 DEF Q, Covers, Above
<1>11. IS_LEAF(nodes[l]) /\ leaf_matches(nodes[l], key, Len(k))
  BY LeafFits DEF LeafRefs
<1> QED
  BY <1>7, <1>10, <1>11

(* art_search finds nothing if no leaf has the key. *)
LEMMA SearchMisses ==
  ASSUME Laid, NEW k \in Keys, NEW key, Holds(key, k),
         \A l \in LeafRefs : nodes[l].key /= k
  PROVE  art_search(key, Len(k)) = NoValue
<1> DEFINE from == {p \in Places : Continues(p, key, Len(k))}
           next == [p \in Places |-> IF p \in from THEN Below(p, key) ELSE p]
           e == Descend(from, key)
<1>1. \A p \in Places : p \in from => IsInner(nodes[p.ref]) /\ Chosen(p, key) /= 0
  BY DEF Continues
<1>2. art_search(key, Len(k)) = IF IS_LEAF(nodes[e.ref]) /\ leaf_matches(nodes[e.ref], key, Len(k))
                                THEN nodes[e.ref].val ELSE NoValue
  BY DEF art_search
<1> HIDE DEF from
<1>3. next \in [Places -> Places]
  BY <1>1, NextPlace
<1>4. Start \in Places /\ MaxKeyLen + 1 \in Nat
  BY RefsAssumption, KeysAssumption DEF Start, Places
<1>5. e = Iterate(next, Start, MaxKeyLen + 1)
  BY DEF Descend
<1> HIDE DEF next, e
<1>6. e \in Places
  BY <1>3, <1>4, <1>5, Iterating
<1>7. e.ref \in Refs
  BY <1>6 DEF Places
<1>8. IS_LEAF(nodes[e.ref]) => ~leaf_matches(nodes[e.ref], key, Len(k))
  BY <1>7, LeafFits DEF LeafRefs
<1> QED
  BY <1>2, <1>8

(* Where a delete of a key the tree has ends. *)
LEMMA DeleteFinds ==
  ASSUME Laid, NEW E, NEW B, Shape(E, B), NEW k \in Keys, NEW key, Holds(key, k),
         NEW l \in LeafRefs, nodes[l].key = k, NEW p, p = DeletePlace(key, Len(k))
  PROVE  \/ /\ p.ref = l /\ l = Root
            /\ ~Continues(p, key, Len(k)) /\ IS_LEAF(nodes[p.ref])
         \/ /\ Placed(p, E) /\ p.ref \in InnerRefs /\ Chosen(p, key) /= 0
            /\ Continues(p, key, Len(k)) /\ ~IS_LEAF(nodes[p.ref])
            /\ Below(p, key).ref = l
<1> DEFINE from == {q \in Places : /\ Continues(q, key, Len(k))
                                   /\ ~IS_LEAF(nodes[Below(q, key).ref])}
           Q == {q \in Places : /\ Placed(q, E) /\ Covers(q.ref, l, InnerRefs, E, B)
                                /\ q = Start \/ q.ref \in InnerRefs}
<1>1. \A q \in Places : q \in from => IsInner(nodes[q.ref]) /\ Chosen(q, key) /= 0
  BY DEF Continues
<1>2. l \in Used /\ Root \in Used /\ Covers(Root, l, InnerRefs, E, B)
  <2>1. l \in Used /\ Trie(Used, InnerRefs, E, B, Kids)
    BY Typing
  <2> QED
    BY <2>1 DEF Trie
<1>3. Start \in Q
  BY <1>2, StartPlaced DEF Start, Placed
<1>4. \A q \in Q : Placed(q, E)
  OBVIOUS
<1>5. ASSUME NEW q \in Q, q.ref \in InnerRefs
      PROVE  /\ Continues(q, key, Len(k)) /\ Chosen(q, key) /= 0
             /\ Placed(Below(q, key), E) /\ Covers(Below(q, key).ref, l, InnerRefs, E, B)
  BY <1>5, Follow
<1>6. ASSUME NEW q \in Q, q \in from PROVE Below(q, key) \in Q
  <2>1. q.ref \in InnerRefs
    BY <1>6 DEF Continues, InnerRefs, Places
  <2>2. Placed(Below(q, key), E) /\ Covers(Below(q, key).ref, l, InnerRefs, E, B)
    BY <2>1, <1>5
  <2>3. Below(q, key).ref \in Used /\ Below(q, key) \in Places
    BY <2>2 DEF Placed
  <2>4. Below(q, key).ref \notin LeafRefs
    BY <1>6 DEF LeafRefs
  <2>5. Below(q, key).ref \in InnerRefs
    BY <2>3, <2>4, Typing
  <2> QED
    BY <2>2, <2>3, <2>5
<1>7. p = Descend(from, key)
  BY DEF DeletePlace
<1>8. ASSUME NEW q \in Q, q.ref \in InnerRefs, q \notin from
      PROVE  IS_LEAF(nodes[Below(q, key).ref])
  BY <1>5, <1>8
<1>8a. \A q \in Q : /\ Placed(q, E) /\ Covers(q.ref, l, InnerRefs, E, B)
                    /\ q = Start \/ q.ref \in InnerRefs
  OBVIOUS
<1> HIDE DEF from, Q
<1>9. p \in Q /\ p \notin from
  BY <1>1, <1>3, <1>4, <1>6, <1>7, Descending
<1>10. CASE p.ref \in InnerRefs
  <2>1. /\ Continues(p, key, Len(k)) /\ Chosen(p, key) /= 0
        /\ Placed(Below(p, key), E) /\ Covers(Below(p, key).ref, l, InnerRefs, E, B)
    BY <1>5, <1>9, <1>10
  <2>2. IS_LEAF(nodes[Below(p, key).ref])
    BY <1>8, <1>9, <1>10
  <2>3. Below(p, key).ref \notin InnerRefs
    BY <2>1, <2>2, KindOf DEF InnerRefs, Placed, Places
  <2>4. Below(p, key).ref = l
    BY <2>1, <2>3 DEF Covers, Above
  <2>5. ~IS_LEAF(nodes[p.ref])
    BY <1>10, KindOf DEF InnerRefs
  <2> QED
    BY <2>1, <2>4, <2>5, <1>8a, <1>9, <1>10
<1>11. CASE p.ref \notin InnerRefs
  <2>1. p = Start /\ Covers(p.ref, l, InnerRefs, E, B)
    BY <1>8a, <1>9, <1>11
  <2>2. p.ref = l
    BY <2>1, <1>11 DEF Covers, Above
  <2>3. l = Root
    BY <2>1, <2>2 DEF Start
  <2>4. IS_LEAF(nodes[l]) /\ ~IsInner(nodes[l])
    BY KindOf DEF LeafRefs
  <2> QED
    BY <2>2, <2>3, <2>4 DEF Continues
<1> QED
  BY <1>10, <1>11

(* A delete of a key the tree does not have ends where nothing is *)
(* removed.                                                       *)
LEMMA DeleteMisses ==
  ASSUME Laid, NEW k \in Keys, NEW key, Holds(key, k),
         \A l \in LeafRefs : nodes[l].key /= k, NEW p, p = DeletePlace(key, Len(k)),
         NEW n, n = IF Continues(p, key, Len(k)) THEN nodes[Below(p, key).ref] ELSE nodes[p.ref]
  PROVE  ~(IS_LEAF(n) /\ leaf_matches(n, key, Len(k)))
<1> DEFINE from == {q \in Places : /\ Continues(q, key, Len(k))
                                   /\ ~IS_LEAF(nodes[Below(q, key).ref])}
           all == {q \in Places : Continues(q, key, Len(k))}
           next == [q \in Places |-> IF q \in from THEN Below(q, key) ELSE q]
           more == [q \in Places |-> IF q \in all THEN Below(q, key) ELSE q]
<1>1. \A q \in Places : q \in from => IsInner(nodes[q.ref]) /\ Chosen(q, key) /= 0
  BY DEF Continues
<1>2. \A q \in Places : q \in all => IsInner(nodes[q.ref]) /\ Chosen(q, key) /= 0
  BY DEF Continues
<1>3. \A q \in Places : q \in all <=> Continues(q, key, Len(k))
  OBVIOUS
<1>4. p = Iterate(next, Start, MaxKeyLen + 1)
  BY DEF DeletePlace, Descend
<1> HIDE DEF from, all
<1>5. next \in [Places -> Places]
  BY <1>1, NextPlace
<1>6. more \in [Places -> Places]
  BY <1>2, NextPlace
<1>7. Start \in Places /\ MaxKeyLen + 1 \in Nat
  BY RefsAssumption, KeysAssumption DEF Start, Places
<1>8. p \in Places
  <2> HIDE DEF next
  <2> QED
    BY <1>4, <1>5, <1>7, Iterating
<1>9. Continues(p, key, Len(k)) => Below(p, key) \in Places
  <2>1. more[p] \in Places
    BY <1>6, <1>8
  <2> QED
    BY <2>1, <1>3, <1>8
<1>10. \E r \in Refs : n = nodes[r]
  BY <1>8, <1>9 DEF Places
<1> QED
  BY <1>10, LeafFits DEF LeafRefs

(* The key leaves what leads to the node after some of its prefix. *)
Strays(p, key, k, diff, E, B) ==
  /\ p.depth + diff <= Len(k)
  /\ Agrees(p.ref, p.depth + diff, key, B)
  /\ B[p.ref][p.depth + diff + 1] /= key[p.depth + diff + 1]

(* The key has all of the bytes that lead to the end of the node. *)
Passes(p, key, k, E, B) ==
  E[p.ref] <= Len(k) /\ Agrees(p.ref, E[p.ref], key, B)

(* prefix_mismatch is the first byte of the prefix the key has not, also *)
(* where it goes past the stored part into the minimum leaf's key.       *)
LEMMA Mismatching ==
  ASSUME Laid, NEW E, NEW B, Shape(E, B), NEW p, Placed(p, E), p.ref \in InnerRefs,
         NEW k \in Keys, NEW key, Holds(key, k), p.depth <= Len(k),
         Agrees(p.ref, p.depth, key, B),
         NEW diff, diff = prefix_mismatch(p, key, Len(k))
  PROVE  /\ diff \in Nat
         /\ diff < nodes[p.ref].partial_len => Strays(p, key, k, diff, E, B)
         /\ diff >= nodes[p.ref].partial_len => Passes(p, key, k, E, B)
<1> DEFINE r == p.ref
           d == p.depth
           n == nodes[r]
           len == n.partial_len
           c == check_prefix(n, key, Len(k), d)
           m == Len(n.partial)
<1>1. /\ E[r] = d + len /\ d \in Nat /\ len \in Nat /\ E[r] \in Nat
      /\ \A i \in 1 .. E[r] : B[r][i] \in 1 .. NBytes - 1
  <2>1. /\ E[r] = d + len /\ d \in Nat /\ len \in Nat
        /\ \A i \in 1 .. E[r] : B[r][i] \in 1 .. NBytes - 1
    BY Turning
  <2> QED
    BY <2>1
<1>2. /\ Len(k) \in Nat /\ Len(key) \in Nat /\ Len(key) > Len(k) /\ key[Len(k) + 1] = 0
  BY Held0
<1>3. /\ m = Least(MAX_PREFIX_LEN, len)
      /\ c \in Nat /\ c <= m /\ c <= Len(k) - d
      /\ \A j \in 1 .. c : B[r][d + j] = key[d + j]
      /\ c < m /\ c < Len(k) - d => B[r][d + c + 1] /= key[d + c + 1]
  BY PrefixChecked, SMTT(20)
<1>4. m \in Nat /\ m <= len /\ (m = len \/ (m = MAX_PREFIX_LEN /\ m < len)) /\ MAX_PREFIX_LEN \in Nat
      /\ (len <= MAX_PREFIX_LEN => m = len)
  <2>1. m = Least(MAX_PREFIX_LEN, len) /\ len \in Nat /\ MAX_PREFIX_LEN \in Nat
    BY <1>1, <1>3, NodeAssumption
  <2> HIDE DEF m, len
  <2> QED
    BY <2>1 DEF Least
<1>5. PICK l \in LeafRefs : minimum(r) = nodes[l] /\ Above(r, l, InnerRefs, E, B)
  BY MinimumBelow
<1> DEFINE t == nodes[l].key
           max == Least(Len(t), Len(k)) - d
           a == Agreement(Drop(t, d), Drop(key, d), max)
<1>6. /\ E[l] = Len(t) + 1 /\ Len(t) \in Nat /\ t \in Seq(Bytes)
      /\ \A i \in 1 .. Len(t) : B[l][i] = t[i]
  BY LeafPath, KeyFacts
<1>7. E[r] <= Len(t) /\ \A i \in 1 .. E[r] : B[r][i] = t[i]
  <2>1. E[r] < E[l] /\ \A i \in 1 .. E[r] : B[r][i] = B[l][i]
    BY <1>5 DEF Above
  <2>2. E[r] <= Len(t)
    BY <2>1, <1>1, <1>6
  <2> QED
    BY <2>1, <2>2, <1>1, <1>6
<1>8. diff = IF c < Least(m, Len(k) - d) \/ len <= MAX_PREFIX_LEN \/ max <= c THEN c ELSE a
  BY <1>5 DEF prefix_mismatch
<1>9. \A j \in 1 .. Len(t) - d : Drop(t, d)[j] = t[d + j]
  <2>1. d \in Nat /\ t \in Seq(Bytes)
    BY <1>1, <1>6
  <2> HIDE DEF d, t
  <2> QED
    BY <2>1, Dropping
<1>10. \A j \in 1 .. Len(key) - d : Drop(key, d)[j] = key[d + j]
  <2>1. d \in Nat /\ key \in Seq(Bytes)
    BY <1>1 DEF Holds
  <2> HIDE DEF d
  <2> QED
    BY <2>1, Dropping
<1>11. max \in Int /\ max <= Len(t) - d /\ max <= Len(k) - d /\ (max = Len(t) - d \/ max = Len(k) - d)
       /\ (max = Len(t) - d => max >= len)
  <2>1. /\ Len(t) \in Nat /\ Len(k) \in Nat /\ d \in Nat /\ len \in Nat
        /\ d + len <= Len(t)
    BY <1>1, <1>2, <1>6, <1>7
  <2> HIDE DEF t, d, len
  <2> QED
    BY <2>1 DEF Least
<1> HIDE DEF max, a
<1>12. /\ a \in Nat /\ (a <= max \/ a = 0)
       /\ \A j \in 1 .. a : Drop(t, d)[j] = Drop(key, d)[j]
       /\ a < max => Drop(t, d)[a + 1] /= Drop(key, d)[a + 1]
  BY <1>11, Agreeing DEF a
<1>13. /\ E[r] = d + len /\ d \in Nat /\ len \in Nat /\ E[r] \in Nat /\ Len(k) \in Nat
       /\ Len(key) \in Nat /\ Len(key) > Len(k) /\ Len(t) \in Nat /\ c \in Nat /\ c <= m
       /\ c <= Len(k) - d /\ m \in Nat /\ m <= len /\ MAX_PREFIX_LEN \in Nat
       /\ max \in Int /\ max <= Len(t) - d /\ max <= Len(k) - d
       /\ (max = Len(t) - d \/ max = Len(k) - d) /\ (max = Len(t) - d => max >= len)
       /\ a \in Nat /\ (a <= max \/ a = 0)
  BY <1>1, <1>2, <1>3, <1>4, <1>6, <1>11, <1>12
<1> HIDE DEF c, m, t, len, n, r, d
<1>20. ASSUME NEW g \in Nat, g <= len, g <= Len(k) - d, \A j \in 1 .. g : B[r][d + j] = key[d + j]
       PROVE  Agrees(r, d + g, key, B)
  <2> SUFFICES ASSUME NEW i \in 1 .. d + g PROVE B[r][i] = key[i]
    BY DEF Agrees
  <2>1. CASE i <= d
    BY <2>1, <1>1 DEF Agrees, r, d
  <2>2. CASE i > d
    <3>1. i - d \in 1 .. g /\ d + (i - d) = i
      BY <2>2, <1>1
    <3> QED
      BY <3>1, <1>20
  <2> QED
    BY <2>1, <2>2, <1>1
<1>21. ASSUME NEW g \in Nat, g < len, g = Len(k) - d PROVE B[r][d + g + 1] /= key[d + g + 1]
  <2>1. d + g + 1 = Len(k) + 1 /\ Len(k) + 1 \in 1 .. E[r]
    BY <1>1, <1>2, <1>21
  <2>2. B[r][Len(k) + 1] /= 0
    BY <2>1, <1>1, NodeAssumption
  <2> QED
    BY <2>1, <2>2, <1>2
(* It is enough to know how far the key agrees. *)
<1>30. ASSUME NEW g \in Nat, g <= Len(k) - d,
              \A j \in 1 .. g : j <= len => B[r][d + j] = key[d + j],
              g < len => g = Len(k) - d \/ B[r][d + g + 1] /= key[d + g + 1]
       PROVE  /\ g < len => Strays(p, key, k, g, E, B)
              /\ g >= len => Passes(p, key, k, E, B)
  <2>1. CASE g < len
    <3>1. Agrees(r, d + g, key, B)
      <4>1. \A j \in 1 .. g : B[r][d + j] = key[d + j]
        <5> TAKE j \in 1 .. g
        <5>1. j <= len
          BY <2>1, <1>13
        <5> QED
          BY <5>1, <1>30
      <4>2. g <= len
        BY <2>1, <1>1
      <4> QED
        BY <4>1, <4>2, <1>20, <1>30
    <3>2. B[r][d + g + 1] /= key[d + g + 1]
      BY <2>1, <1>21, <1>30
    <3>3. d + g <= Len(k)
      BY <1>30, <1>1, <1>2
    <3> QED
      BY <3>1, <3>2, <3>3, <2>1, <1>1 DEF Strays, r, d
  <2>2. CASE g >= len
    <3>1. len <= Len(k) - d
      BY <2>2, <1>30, <1>1, <1>2
    <3>2. \A j \in 1 .. len : B[r][d + j] = key[d + j]
      <4> TAKE j \in 1 .. len
      <4>1. j <= len /\ j \in 1 .. g
        BY <2>2, <1>13
      <4> QED
        BY <4>1, <1>30
    <3>3. Agrees(r, d + len, key, B)
      <4>1. len \in Nat /\ len <= len
        BY <1>13
      <4> QED
        BY <4>1, <3>1, <3>2, <1>20
    <3>4. E[r] <= Len(k)
      BY <3>1, <1>1, <1>2
    <3> QED
      BY <3>3, <3>4, <2>2, <1>1 DEF Passes, r
  <2> QED
    BY <2>1, <2>2, <1>1
<1>40. CASE diff = c
  <2>1. c < len => c = Len(k) - d \/ B[r][d + c + 1] /= key[d + c + 1]
    <3>1. CASE c < m /\ c < Len(k) - d
      BY <3>1, <1>3
    <3>2. CASE c = Len(k) - d
      BY <3>2
    <3>3. CASE c = m /\ c < Len(k) - d
      <4>1. ~(c < Least(m, Len(k) - d))
        BY <3>3, <1>1, <1>2, <1>4 DEF Least
      <4>2. CASE m = len
        BY <4>2, <3>3, <1>1
      <4>3. CASE m = MAX_PREFIX_LEN /\ m < len
        <5>1. ~(max <= c)
          BY <4>3, <3>3, <1>13
        <5>2. ~(len <= MAX_PREFIX_LEN)
          BY <4>3, <1>1, <1>4
        <5>3. diff = a
          BY <4>1, <5>1, <5>2, <1>8
        <5>4. a = c /\ a < max
          BY <5>3, <5>1, <1>40, <1>3, <1>11
        <5>5. Drop(t, d)[a + 1] /= Drop(key, d)[a + 1]
          BY <5>4, <1>12
        <5>6. /\ a + 1 \in 1 .. Len(t) - d /\ a + 1 \in 1 .. Len(key) - d
              /\ d + (a + 1) = d + a + 1 /\ d + a + 1 \in 1 .. E[r]
          BY <5>4, <4>3, <3>3, <1>13
        <5> QED
          BY <5>4, <5>5, <5>6, <1>7, <1>9, <1>10
      <4> QED
        BY <4>2, <4>3, <1>4
    <3> QED
      BY <3>1, <3>2, <3>3, <1>1, <1>2, <1>3, <1>4
  <2> QED
    BY <2>1, <1>3, <1>30, <1>40 DEF len, n, r
<1>41. CASE diff = a /\ diff /= c
  <2>1. max > c
    BY <1>41, <1>8, <1>3, <1>11
  <2>2. a <= max /\ a <= Len(k) - d
    BY <2>1, <1>13
  <2>3. \A j \in 1 .. a : t[d + j] = key[d + j]
    <3> TAKE j \in 1 .. a
    <3>1. j \in 1 .. Len(t) - d /\ j \in 1 .. Len(key) - d
      BY <2>2, <1>13
    <3> QED
      BY <3>1, <1>9, <1>10, <1>12
  <2>4. \A j \in 1 .. a : j <= len => B[r][d + j] = key[d + j]
    <3> TAKE j \in 1 .. a
    <3> HAVE j <= len
    <3>1. d + j \in 1 .. E[r]
      BY <1>1, <1>12
    <3> QED
      BY <3>1, <2>3, <1>7
  <2>5. a < len => a = Len(k) - d \/ B[r][d + a + 1] /= key[d + a + 1]
    <3> SUFFICES ASSUME a < len, a /= Len(k) - d PROVE B[r][d + a + 1] /= key[d + a + 1]
      OBVIOUS
    <3>1. a < max
      BY <2>2, <1>13
    <3>2. /\ a + 1 \in 1 .. Len(t) - d /\ a + 1 \in 1 .. Len(key) - d
          /\ d + (a + 1) = d + a + 1 /\ d + a + 1 \in 1 .. E[r]
      BY <3>1, <1>13
    <3>3. Drop(t, d)[a + 1] /= Drop(key, d)[a + 1]
      BY <3>1, <1>12
    <3> QED
      BY <3>2, <3>3, <1>7, <1>9, <1>10
  <2> QED
    BY <2>2, <2>4, <2>5, <1>12, <1>30, <1>41 DEF len, n, r
<1> QED
  BY <1>8, <1>40, <1>41

(* Where a place is in the tree. *)
LEMMA Depth ==
  ASSUME Laid, NEW E, NEW B, Shape(E, B), NEW p, Placed(p, E)
  PROVE  /\ p.depth \in Nat /\ p.ref \in Used /\ p.ref \in Refs /\ p \in Places
         /\ E[p.ref] \in Nat /\ p.depth <= E[p.ref]
         /\ \/ p.ref = Root /\ p.depth = 0
            \/ \E s \in InnerRefs : \E e \in Kids[s] : e.ref = p.ref /\ p.depth = E[s] + 1
<1>1. p.depth \in Nat /\ p.ref \in Used /\ p \in Places /\ Slot(p.ref, p.depth, E)
  BY DEF Placed, Places
<1>2. E[p.ref] \in Nat /\ p.ref \in Refs
  BY <1>1, Typing
<1>3. CASE p.ref = Root /\ p.depth = 0
  BY <1>1, <1>2, <1>3
<1>4. CASE \E s \in InnerRefs : \E e \in Kids[s] : e.ref = p.ref /\ p.depth = E[s] + 1
  <2>1. PICK s \in InnerRefs : \E e \in Kids[s] : e.ref = p.ref /\ p.depth = E[s] + 1
    BY <1>4
  <2>2. PICK e \in Kids[s] : e.ref = p.ref /\ p.depth = E[s] + 1
    BY <2>1
  <2>3. E[s] < E[e.ref] /\ E[s] \in Nat
    BY Typing, ChildOf
  <2>4. p.depth <= E[p.ref]
    BY <2>2, <2>3, <1>2
  <2> QED
    BY <1>1, <1>2, <1>4, <2>4
<1> QED
  BY <1>1, <1>3, <1>4 DEF Slot, SlotIn

(* A leaf with the key is below every place the key leads to. *)
LEMMA Reached ==
  ASSUME Laid, NEW E, NEW B, Shape(E, B), NEW p, Placed(p, E),
         NEW k \in Keys, NEW key, Holds(key, k), Agrees(p.ref, p.depth, key, B),
         NEW l \in LeafRefs, nodes[l].key = k
  PROVE  Covers(p.ref, l, InnerRefs, E, B)
<1> DEFINE r == p.ref
           d == p.depth
<1>1. /\ d \in Nat /\ r \in Used /\ E[r] \in Nat /\ d <= E[r]
      /\ r = Root \/ \E s \in InnerRefs : \E e \in Kids[s] : e.ref = r /\ d = E[s] + 1
  BY Depth
<1>2. /\ Len(k) \in Nat /\ key[Len(k) + 1] = 0
      /\ \A i \in 1 .. Len(k) : key[i] = k[i]
  BY Held0
<1>3. /\ E[l] = Len(k) + 1 /\ B[l][Len(k) + 1] = 0
      /\ \A i \in 1 .. Len(k) : B[l][i] = k[i]
  BY LeafPath
<1>4. d <= Len(k) + 1
  <2>1. CASE r \in InnerRefs
    BY <2>1, <1>1, <1>2, LongEnough
  <2>2. CASE r \in LeafRefs
    <3> DEFINE t == nodes[r].key
    <3>1. /\ E[r] = Len(t) + 1 /\ Len(t) \in Nat
          /\ \A i \in 1 .. Len(t) : B[r][i] \in 1 .. NBytes - 1
      BY <2>2, LeafPath
    <3> HIDE DEF t, r, d
    <3> SUFFICES ASSUME d > Len(k) + 1 PROVE FALSE
      BY <1>1, <1>2
    <3>2. Len(k) + 1 \in 1 .. Len(t) /\ Len(k) + 1 \in 1 .. d
      BY <1>1, <1>2, <3>1
    <3>3. B[r][Len(k) + 1] = 0
      BY <3>2, <1>2 DEF Agrees, r, d
    <3> QED
      BY <3>1, <3>2, <3>3
  <2> QED
    BY <2>1, <2>2, <1>1, Typing
<1>5. \A i \in 1 .. d : B[r][i] = B[l][i]
  <2> TAKE i \in 1 .. d
  <2>1. i \in 1 .. Len(k) \/ i = Len(k) + 1
    BY <1>1, <1>2, <1>4
  <2> QED
    BY <2>1, <1>2, <1>3 DEF Agrees
<1>6. r = Root \/ \E s \in InnerRefs : \E e \in Kids[s] : e.ref = r /\ E[s] < d
  <2>1. \A s \in InnerRefs : d = E[s] + 1 => E[s] < d
    BY Typing
  <2> QED
    BY <2>1, <1>1
<1>7. Trie(Used, InnerRefs, E, B, Kids) /\ l \in Used
  BY Typing
<1>8. d <= E[l]
  BY <1>3, <1>4
<1> HIDE DEF r, d
<1>9. Covers(r, l, InnerRefs, E, B)
  BY <1>1, <1>5, <1>6, <1>7, <1>8, OnlyWay
<1> QED
  BY <1>9 DEF r

(* Where the descent of an insert ends: at a leaf, at a node whose prefix *)
(* the key leaves, or at one that has no child for its byte. In all of    *)
(* them it is known whether a leaf has the key.                           *)
LEMMA InsertEnds ==
  ASSUME Laid, NEW E, NEW B, Shape(E, B), Root \in Used,
         NEW k \in Keys, NEW key, Holds(key, k),
         NEW p, p = InsertPlace(key, Len(k)),
         NEW diff, diff = prefix_mismatch(p, key, Len(k))
  PROVE  /\ Placed(p, E) /\ Agrees(p.ref, p.depth, key, B)
         /\ \/ /\ p.ref \in LeafRefs
               /\ \A l \in LeafRefs : nodes[l].key = k => l = p.ref
            \/ /\ p.ref \in InnerRefs /\ p.depth <= Len(k)
               /\ diff \in Nat /\ diff < nodes[p.ref].partial_len
               /\ Strays(p, key, k, diff, E, B)
               /\ \A l \in LeafRefs : nodes[l].key /= k
            \/ /\ p.ref \in InnerRefs
               /\ ~(diff < nodes[p.ref].partial_len)
               /\ Passes(p, key, k, E, B)
               /\ Chosen(p, key) = 0
               /\ \A l \in LeafRefs : nodes[l].key /= k
<1> DEFINE from == {q \in Places : /\ IsInner(nodes[q.ref])
                                   /\ prefix_mismatch(q, key, Len(k)) >= nodes[q.ref].partial_len
                                   /\ Chosen(q, key) /= 0}
           Q == {q \in Places : Placed(q, E) /\ Agrees(q.ref, q.depth, key, B)}
<1>1. \A q \in Places : q \in from => IsInner(nodes[q.ref]) /\ Chosen(q, key) /= 0
  OBVIOUS
<1>2. Start \in Q
  BY StartPlaced DEF Start, Placed, Agrees
<1>3. \A q \in Q : Placed(q, E) /\ Agrees(q.ref, q.depth, key, B)
  OBVIOUS
<1>4. ASSUME NEW q \in Q, q.ref \in InnerRefs
      PROVE  /\ q.depth <= Len(k)
             /\ prefix_mismatch(q, key, Len(k)) \in Nat /\ nodes[q.ref].partial_len \in Nat
             /\ prefix_mismatch(q, key, Len(k)) < nodes[q.ref].partial_len =>
                  Strays(q, key, k, prefix_mismatch(q, key, Len(k)), E, B)
             /\ prefix_mismatch(q, key, Len(k)) >= nodes[q.ref].partial_len =>
                  Passes(q, key, k, E, B)
  <2>1. q.depth \in Nat /\ q.depth <= E[q.ref] /\ Placed(q, E) /\ Agrees(q.ref, q.depth, key, B)
    BY Depth
  <2>2. q.depth <= Len(k)
    BY <2>1, <1>4, LongEnough
  <2> QED
    BY <2>1, <2>2, <1>4, Mismatching, Turning
<1>5. ASSUME NEW q \in Q, q \in from PROVE Below(q, key) \in Q
  <2>1. q.ref \in InnerRefs /\ Placed(q, E) /\ Chosen(q, key) /= 0
    BY <1>5 DEF InnerRefs, Places
  <2>2. Passes(q, key, k, E, B)
    BY <2>1, <1>4, <1>5
  <2>3. /\ Placed(Below(q, key), E) /\ Below(q, key).depth = E[q.ref] + 1
        /\ Above(q.ref, Below(q, key).ref, InnerRefs, E, B)
        /\ B[Below(q, key).ref][E[q.ref] + 1] = key[E[q.ref] + 1]
    BY <2>1, GoingBelow
  <2>4. E[q.ref] \in Nat
    BY <2>1, Depth
  <2>5. Agrees(Below(q, key).ref, Below(q, key).depth, key, B)
    <3> SUFFICES ASSUME NEW i \in 1 .. E[q.ref] + 1
                 PROVE  B[Below(q, key).ref][i] = key[i]
      BY <2>3 DEF Agrees
    <3>1. CASE i \in 1 .. E[q.ref]
      BY <3>1, <2>2, <2>3 DEF Passes, Agrees, Above
    <3>2. CASE i = E[q.ref] + 1
      BY <3>2, <2>3
    <3> QED
      BY <3>1, <3>2, <2>4
  <2> QED
    BY <2>3, <2>5 DEF Placed
<1>6. \A q \in Places : q \notin from /\ IsInner(nodes[q.ref]) =>
        \/ ~(prefix_mismatch(q, key, Len(k)) >= nodes[q.ref].partial_len)
        \/ Chosen(q, key) = 0
  OBVIOUS
<1>7. p = Descend(from, key)
  BY DEF InsertPlace
<1> HIDE DEF from, Q
<1>8. p \in Q /\ p \notin from
  BY <1>1, <1>2, <1>3, <1>5, <1>7, Descending
<1>9. Placed(p, E) /\ Agrees(p.ref, p.depth, key, B) /\ p.ref \in Used /\ p \in Places
  BY <1>3, <1>8, Depth
<1>10. \A l \in LeafRefs : nodes[l].key = k => Covers(p.ref, l, InnerRefs, E, B)
  BY <1>9, Reached
<1>11. CASE p.ref \in LeafRefs
  <2>1. p.ref \notin InnerRefs
    BY <1>11, Typing
  <2>2. \A l \in LeafRefs : nodes[l].key = k => l = p.ref
    BY <2>1, <1>10 DEF Covers, Above
  <2> QED
    BY <1>9, <1>11, <2>2
<1>12. CASE p.ref \in InnerRefs
  <2>0. /\ p.depth <= Len(k) /\ diff \in Nat /\ nodes[p.ref].partial_len \in Nat
        /\ diff < nodes[p.ref].partial_len => Strays(p, key, k, diff, E, B)
        /\ diff >= nodes[p.ref].partial_len => Passes(p, key, k, E, B)
    BY <1>4, <1>8, <1>12
  <2>1. E[p.ref] = p.depth + nodes[p.ref].partial_len /\ p.depth \in Nat
    <3>1. Placed(p, E) /\ p.ref \in InnerRefs
      BY <1>9, <1>12
    <3> QED
      BY <3>1, Turning, ZenonT(40)
  <2>2. diff < nodes[p.ref].partial_len \/ Chosen(p, key) = 0
    BY <1>6, <1>8, <1>9, <1>12, <2>0 DEF InnerRefs
  <2>3. ASSUME NEW l \in LeafRefs, nodes[l].key = k
        PROVE  Passes(p, key, k, E, B) /\ Chosen(p, key) /= 0 /\ Agrees(p.ref, E[p.ref], key, B)
    BY <1>9, <1>10, <1>12, <2>3, Follow DEF Passes
  <2>4. CASE diff < nodes[p.ref].partial_len
    <3>1. \A l \in LeafRefs : nodes[l].key /= k
      <4> SUFFICES ASSUME NEW l \in LeafRefs, nodes[l].key = k PROVE FALSE
        OBVIOUS
      <4>2. p.depth + diff + 1 \in 1 .. E[p.ref]
        BY <2>1, <2>0, <2>4
      <4> QED
        BY <4>2, <2>0, <2>3, <2>4 DEF Strays, Agrees
    <3> QED
      BY <3>1, <2>0, <2>4, <1>9, <1>12
  <2>5. CASE ~(diff < nodes[p.ref].partial_len)
    <3>1. Passes(p, key, k, E, B) /\ Chosen(p, key) = 0
      BY <2>0, <2>2, <2>5
    <3>2. \A l \in LeafRefs : nodes[l].key /= k
      BY <3>1, <2>3
    <3> QED
      BY <3>1, <3>2, <2>5, <1>9, <1>12
  <2> QED
    BY <2>4, <2>5
<1> QED
  BY <1>9, <1>11, <1>12, Typing

(* The bytes that lead to a leaf. *)
LeafPathOf(l) == [i \in Int |-> LeafByte(l, i - 1)]

(* The bytes of a leaf that is not in the tree yet. *)
LEMMA NewLeaf ==
  ASSUME NEW l \in LeafNode
  PROVE  /\ l.key \in Keys /\ Len(l.key) \in Nat /\ Len(l.key) <= MaxKeyLen
         /\ l /= NoNode /\ IS_LEAF(l) /\ ~IsInner(l)
         /\ \A i \in 1 .. Len(l.key) : l.key[i] \in 1 .. NBytes - 1
         /\ \A i \in 1 .. Len(l.key) + 1 : LeafPathOf(l)[i] = LeafByte(l, i - 1)
         /\ \A i \in 1 .. Len(l.key) : LeafPathOf(l)[i] = l.key[i] 
         /\ \A i \in 1 .. Len(l.key) : LeafPathOf(l)[i] \in 1 .. NBytes - 1
         /\ LeafPathOf(l)[Len(l.key) + 1] = 0
<1>1. l.key \in Keys /\ l.type = "LEAF"
  BY DEF LeafNode
<1>2. /\ Len(l.key) \in Nat /\ Len(l.key) <= MaxKeyLen
      /\ \A i \in 1 .. Len(l.key) : l.key[i] \in 1 .. NBytes - 1
  BY <1>1, KeyFacts
<1>3. \A i \in 1 .. Len(l.key) + 1 : LeafPathOf(l)[i] = LeafByte(l, i - 1)
  BY <1>2 DEF LeafPathOf
<1>4. \A i \in 1 .. Len(l.key) : LeafPathOf(l)[i] = l.key[i]
  <2> TAKE i \in 1 .. Len(l.key)
  <2>1. i \in 1 .. Len(l.key) + 1 /\ i - 1 < Len(l.key) /\ (i - 1) + 1 = i
    BY <1>2
  <2> QED
    BY <2>1, <1>3 DEF LeafByte
<1>5. LeafPathOf(l)[Len(l.key) + 1] = 0
  <2>1. /\ Len(l.key) + 1 \in 1 .. Len(l.key) + 1
        /\ ~((Len(l.key) + 1) - 1 < Len(l.key))
    BY <1>2
  <2> QED
    BY <2>1, <1>3 DEF LeafByte
<1>6. l /= NoNode /\ IS_LEAF(l) /\ ~IsInner(l)
  BY <1>1 DEF NoNode, IS_LEAF, IsInner, Types
<1> QED
  BY <1>1, <1>2, <1>3, <1>4, <1>5, <1>6

(* A well laid out node is no leaf. *)
LEMMA LaidInner ==
  ASSUME NEW m, WellLaid(m)
  PROVE  /\ m /= NoNode /\ ~IS_LEAF(m) /\ IsInner(m) /\ m.partial_len \in Nat
<1>1. m \in InnerNode
  BY DEF WellLaid
<1> QED
  BY <1>1 DEF InnerNode, NoNode, IS_LEAF, IsInner, Types

(* What a split puts in place. *)
Parted(p, a, b, len, D, l2, m, E, B) ==
  /\ a \in Refs \ {Root} /\ b \in Refs \ {Root} /\ a /= b
  /\ nodes[a] = NoNode /\ nodes[b] = NoNode
  /\ len \in Nat /\ D = p.depth + len /\ D < E[p.ref]
  /\ l2 \in LeafNode /\ D <= Len(l2.key)
  /\ \A i \in 1 .. D : B[p.ref][i] = l2.key[i]
  /\ B[p.ref][D + 1] /= LeafByte(l2, D)
  /\ WellLaid(m) /\ m.partial_len = len
  /\ m.partial = [i \in 1 .. Least(MAX_PREFIX_LEN, len) |-> B[p.ref][p.depth + i]]
  /\ ToSet(m.children) = {Child(B[p.ref][D + 1], a), Child(LeafByte(l2, D), b)}

(* What was in the place, below it: a node has lost the bytes down to D. *)
Lowered(p, D, n2, E, B) ==
  /\ p.ref \in LeafRefs => n2 = nodes[p.ref]
  /\ p.ref \in InnerRefs =>
       /\ WellLaid(n2) /\ ToSet(n2.children) = ToSet(nodes[p.ref].children)
       /\ n2.partial_len = E[p.ref] - (D + 1)
       /\ n2.partial = [i \in 1 .. Least(MAX_PREFIX_LEN, n2.partial_len) |->
                          B[p.ref][(D + 1) + i]]

(* What was in a place goes below a new node with a new leaf beside it. *)
LEMMA Splitting ==
  ASSUME Laid, NEW E, NEW B, Shape(E, B), NEW p, Placed(p, E),
         NEW a, NEW b, NEW len, NEW D, NEW l2, NEW m, NEW n2,
         Parted(p, a, b, len, D, l2, m, E, B), Lowered(p, D, n2, E, B),
         nodes' = [nodes EXCEPT ![p.ref] = m, ![a] = n2, ![b] = l2]
  PROVE  /\ Laid'
         /\ \E E2, B2 : Shape(E2, B2)'
         /\ Leaves' = Leaves \cup {l2}
<1> SUFFICES
      ASSUME a \in Refs \ {Root}, b \in Refs \ {Root}, a /= b,
             nodes[a] = NoNode, nodes[b] = NoNode,
             len \in Nat, D = p.depth + len, D < E[p.ref],
             l2 \in LeafNode, D <= Len(l2.key),
             \A i \in 1 .. D : B[p.ref][i] = l2.key[i],
             B[p.ref][D + 1] /= LeafByte(l2, D),
             WellLaid(m), m.partial_len = len,
             m.partial = [i \in 1 .. Least(MAX_PREFIX_LEN, len) |-> B[p.ref][p.depth + i]],
             ToSet(m.children) = {Child(B[p.ref][D + 1], a), Child(LeafByte(l2, D), b)},
             p.ref \in LeafRefs => n2 = nodes[p.ref],
             p.ref \in InnerRefs =>
               /\ WellLaid(n2) /\ ToSet(n2.children) = ToSet(nodes[p.ref].children)
               /\ n2.partial_len = E[p.ref] - (D + 1)
               /\ n2.partial = [i \in 1 .. Least(MAX_PREFIX_LEN, n2.partial_len) |->
                                  B[p.ref][(D + 1) + i]]
      PROVE  /\ Laid'
             /\ \E E2, B2 : Shape(E2, B2)'
             /\ Leaves' = Leaves \cup {l2}
  BY Zenon DEF Parted, Lowered
<1> DEFINE r == p.ref
           d == p.depth
           e == Child(B[r][D + 1], a)
           f == Child(LeafByte(l2, D), b)
<1>1. /\ d \in Nat /\ r \in Used /\ r \in Refs /\ E[r] \in Nat /\ d <= E[r]
      /\ \/ r = Root /\ d = 0
         \/ \E s \in InnerRefs : \E g \in Kids[s] : g.ref = r /\ d = E[s] + 1
  BY Depth
<1>2. D \in Nat /\ d <= D
  BY <1>1
<1>3. r /= a /\ r /= b /\ a \notin Used /\ b \notin Used
  BY <1>1 DEF Used
<1>4. /\ Trie(Used, InnerRefs, E, B, Kids)
      /\ Used = LeafRefs \cup InnerRefs /\ LeafRefs \cap InnerRefs = {}
      /\ \A x \in Used : E[x] \in Nat /\ E[x] <= MaxKeyLen + 1 /\ x \in Refs
      /\ \A x \in InnerRefs : x \in Used /\ Kids[x] = ToSet(nodes[x].children)
  BY Typing
<1>5. /\ nodes'[r] = m /\ nodes'[a] = n2 /\ nodes'[b] = l2 /\ DOMAIN nodes' = Refs
      /\ \A x \in Refs \ {r, a, b} : nodes'[x] = nodes[x]
  BY <1>1, <1>3 DEF Laid
<1>6. /\ l2.key \in Keys /\ Len(l2.key) \in Nat /\ Len(l2.key) <= MaxKeyLen
      /\ l2 /= NoNode /\ IS_LEAF(l2) /\ ~IsInner(l2)
      /\ \A i \in 1 .. Len(l2.key) : l2.key[i] \in 1 .. NBytes - 1
      /\ \A i \in 1 .. Len(l2.key) + 1 : LeafPathOf(l2)[i] = LeafByte(l2, i - 1)
      /\ \A i \in 1 .. Len(l2.key) : LeafPathOf(l2)[i] = l2.key[i]
  BY NewLeaf
<1>7. m /= NoNode /\ ~IS_LEAF(m) /\ IsInner(m)
  BY LaidInner
<1>8. /\ n2 /= NoNode /\ (IS_LEAF(n2) <=> r \in LeafRefs) /\ (IsInner(n2) <=> r \in InnerRefs)
      /\ n2 \in LeafNode \/ WellLaid(n2)
  <2>1. CASE r \in LeafRefs
    <3>1. n2 = nodes[r] /\ IS_LEAF(nodes[r])
      BY <2>1 DEF LeafRefs
    <3>2. n2 \in LeafNode /\ ~IsInner(n2) /\ n2 /= NoNode
      BY <1>1, <3>1, KindOf
    <3> QED
      BY <2>1, <3>1, <3>2, <1>4
  <2>2. CASE r \in InnerRefs
    <3>1. WellLaid(n2)
      BY <2>2
    <3> QED
      BY <2>2, <3>1, <1>4, LaidInner
  <2> QED
    BY <2>1, <2>2, <1>1, <1>4
<1>9. Laid'
  <2>1. \A x \in Refs : nodes'[x] = NoNode \/ nodes'[x] \in LeafNode \/ WellLaid(nodes'[x])
    BY <1>5, <1>8 DEF Laid
  <2> QED
    BY <2>1, <1>5 DEF Laid, LeafNode, WellLaid, InnerNode, Types
<1>10. Used' = Used \cup {a, b}
  BY <1>1, <1>5, <1>6, <1>7, <1>8 DEF Used
<1>11. InnerRefs' = InnerRefs \cup {r} \cup (IF r \in InnerRefs THEN {a} ELSE {})
  <2>1. \A x \in Refs : x \in InnerRefs' <=> IsInner(nodes'[x])
    BY DEF InnerRefs, IsInner, Types
  <2>2. \A x \in Refs : x \in InnerRefs <=> IsInner(nodes[x])
    BY DEF InnerRefs
  <2>3. ~IsInner(nodes[b]) /\ ~IsInner(nodes[a])
    BY KindOf
  <2>4. InnerRefs' \subseteq Refs
    BY DEF InnerRefs
  <2> QED
    BY <2>1, <2>2, <2>3, <2>4, <1>1, <1>3, <1>4, <1>5, <1>6, <1>7, <1>8
<1>12. LeafRefs' = (LeafRefs \ {r}) \cup {b} \cup (IF r \in LeafRefs THEN {a} ELSE {})
  <2>1. \A x \in Refs : x \in LeafRefs' <=> IS_LEAF(nodes'[x])
    BY DEF LeafRefs, IS_LEAF
  <2>2. \A x \in Refs : x \in LeafRefs <=> IS_LEAF(nodes[x])
    BY DEF LeafRefs
  <2>3. ~IS_LEAF(nodes[b]) /\ ~IS_LEAF(nodes[a])
    BY KindOf
  <2>4. LeafRefs' \subseteq Refs /\ LeafRefs \subseteq Refs
    BY DEF LeafRefs
  <2> QED
    BY <2>1, <2>2, <2>3, <2>4, <1>1, <1>3, <1>4, <1>5, <1>6, <1>7, <1>8
<1>13. Leaves' = Leaves \cup {l2}
  <2>1. Leaves' = {nodes'[x] : x \in LeafRefs'}
    BY DEF Leaves
  <2>2. r \in LeafRefs => nodes'[a] = nodes[r]
    BY <1>5
  <2>3. a \notin LeafRefs /\ b \notin LeafRefs /\ LeafRefs \subseteq Refs
    BY <1>3, <1>4
  <2> QED
    BY <2>1, <2>2, <2>3, <1>5, <1>12 DEF Leaves
<1>14. /\ \A s \in InnerRefs \ {r} : Kids'[s] = Kids[s]
       /\ r \in InnerRefs => Kids'[a] = Kids[r]
       /\ Kids'[r] = {e, f}
  <2>1. \A s \in InnerRefs' : Kids'[s] = ToSet(nodes'[s].children)
    BY DEF Kids, ToSet
  <2>2. \A s \in InnerRefs \ {r} : nodes'[s] = nodes[s]
    BY <1>3, <1>4, <1>5
  <2>3. ToSet(nodes'[r].children) = {e, f}
    BY <1>5
  <2>4. r \in InnerRefs => ToSet(nodes'[a].children) = ToSet(nodes[r].children)
    BY <1>5
  <2> QED
    <3>1. ASSUME NEW s \in InnerRefs \ {r} PROVE Kids'[s] = Kids[s]
      <4>1. s \in InnerRefs' /\ nodes'[s] = nodes[s]
        BY <2>2, <1>11
      <4>2. Kids'[s] = ToSet(nodes[s].children)
        BY <4>1, <2>1
      <4> QED
        BY <4>2, <1>4
    <3>2. ASSUME r \in InnerRefs PROVE Kids'[a] = Kids[r]
      <4>1. a \in InnerRefs'
        BY <3>2, <1>11
      <4>2. Kids'[a] = ToSet(nodes[r].children)
        BY <3>2, <4>1, <2>1, <2>4
      <4> QED
        BY <3>2, <4>2, <1>4
    <3>3. Kids'[r] = {e, f}
      BY <2>1, <2>3, <1>11
    <3> QED
      BY <3>1, <3>2, <3>3
<1>15. PICK E2, B2 :
         /\ \A y \in Used \ {r} : E2[y] = E[y] /\ B2[y] = B[y]
         /\ E2[a] = E[r] /\ B2[a] = B[r] /\ E2[r] = D /\ B2[r] = B[r]
         /\ E2[b] = Len(l2.key) + 1 /\ B2[b] = LeafPathOf(l2)
  <2> DEFINE E3 == [x \in Refs |-> IF x = r THEN D ELSE IF x = a THEN E[r]
                                   ELSE IF x = b THEN Len(l2.key) + 1 ELSE E[x]]
             B3 == [x \in Refs |-> IF x = a THEN B[r] ELSE IF x = b THEN LeafPathOf(l2) ELSE B[x]]
  <2>1. /\ \A y \in Used \ {r} : E3[y] = E[y] /\ B3[y] = B[y]
        /\ E3[a] = E[r] /\ B3[a] = B[r] /\ E3[r] = D /\ B3[r] = B[r]
        /\ E3[b] = Len(l2.key) + 1 /\ B3[b] = LeafPathOf(l2)
    BY <1>1, <1>3, <1>4
  <2> HIDE DEF E3, B3
  <2> QED
    BY <2>1
<1>16. LeafPathOf(l2)[D + 1] = LeafByte(l2, D)
  <2>1. D + 1 \in 1 .. Len(l2.key) + 1 /\ (D + 1) - 1 = D
    BY <1>2, <1>6
  <2> QED
    BY <2>1, <1>6
<1>17. Trie(Used \cup {a, b}, InnerRefs', E2, B2, Kids')
  <2>1. r = Root \/ \E q \in InnerRefs : \E g \in Kids[q] : g.ref = r /\ E[q] < D
    <3>1. \A s \in InnerRefs : d = E[s] + 1 => E[s] < D
      BY <1>1, <1>2, <1>4
    <3> QED
      BY <3>1, <1>1
  <2>2. \A i \in 1 .. D : B[r][i] = B2[b][i]
    <3> TAKE i \in 1 .. D
    <3>1. i \in 1 .. Len(l2.key)
      BY <1>2, <1>6
    <3> QED
      BY <3>1, <1>6, <1>15
  <2>3. /\ e.ref = a /\ e.byte = B[r][D + 1] /\ f.ref = b /\ f.byte = B2[b][D + 1]
        /\ B[r][D + 1] /= B2[b][D + 1]
    BY <1>15, <1>16 DEF Child
  <2>4. E2[b] \in Nat /\ D < E2[b]
    BY <1>2, <1>6, <1>15
  <2>5. Kids'[r] = {e, f}
    BY <1>14
  <2> HIDE DEF e, f, r, d
  <2> DEFINE K2 == Kids'
             I2 == InnerRefs'
  <2>6. /\ I2 = InnerRefs \cup {r} \cup (IF r \in InnerRefs THEN {a} ELSE {})
        /\ \A t \in InnerRefs \ {r} : K2[t] = Kids[t]
        /\ r \in InnerRefs => K2[a] = Kids[r]
        /\ K2[r] = {e, f}
    BY <1>11, <1>14, <2>5
  <2> HIDE DEF K2, I2
  <2>7. D < E[r]
    BY DEF r
  <2>8. Divided(Used, InnerRefs, E, B, Kids, I2, E2, B2, K2, r, D, e, f)
    <3>1. /\ Trie(Used, InnerRefs, E, B, Kids)
          /\ r \in Used /\ e.ref \notin Used /\ f.ref \notin Used /\ e.ref /= f.ref
          /\ D \in Nat /\ D < E[r]
      BY <2>3, <2>7, <1>1, <1>2, <1>3, <1>4
    <3>2. /\ \A y \in Used \ {r} : E2[y] = E[y] /\ B2[y] = B[y]
          /\ E2[e.ref] = E[r] /\ B2[e.ref] = B[r] /\ E2[r] = D /\ B2[r] = B[r]
          /\ E2[f.ref] \in Nat /\ D < E2[f.ref]
          /\ \A i \in 1 .. D : B[r][i] = B2[f.ref][i]
          /\ B[r][D + 1] /= B2[f.ref][D + 1]
      BY <2>2, <2>3, <2>4, <1>15
    <3>3. /\ I2 = InnerRefs \cup {r} \cup (IF r \in InnerRefs THEN {e.ref} ELSE {})
          /\ \A t \in InnerRefs \ {r} : K2[t] = Kids[t]
          /\ r \in InnerRefs => K2[e.ref] = Kids[r]
          /\ K2[r] = {e, f} /\ e.byte = B[r][D + 1] /\ f.byte = B2[f.ref][D + 1]
      BY <2>3, <2>6
    <3> QED
      BY <2>1, <3>1, <3>2, <3>3 DEF Divided
  <2>9. Trie(Used \cup {e.ref, f.ref}, I2, E2, B2, K2)
    BY <2>8, SplitAt
  <2> QED
    BY <2>3, <2>9 DEF K2, I2
<1>18. Trie(Used, InnerRefs, E2, B2, Kids)'
  <2>1. Trie(Used', InnerRefs', E2, B2, Kids')
    BY <1>10, <1>17
  <2> QED
    BY <2>1 DEF Trie, Covers, Above, Same
<1>19. \A x \in Used' : E2[x] <= MaxKeyLen + 1
  <2> TAKE x \in Used'
  <2>1. MaxKeyLen \in Nat /\ D < E[r] /\ E[r] <= MaxKeyLen + 1 /\ E[r] \in Nat
    BY <1>1, <1>4, KeysAssumption
  <2>2. CASE x \in Used \ {r}
    BY <2>2, <1>4, <1>15
  <2>3. CASE x = r
    <3>1. E2[x] = D
      BY <2>3, <1>15
    <3> QED
      BY <3>1, <2>1, <1>2
  <2>4. CASE x = a
    <3>1. E2[x] = E[r]
      BY <2>4, <1>15
    <3> QED
      BY <3>1, <2>1
  <2>5. CASE x = b
    <3>1. E2[x] = Len(l2.key) + 1
      BY <2>5, <1>15
    <3> QED
      BY <3>1, <2>1, <1>6
  <2> QED
    BY <2>2, <2>3, <2>4, <2>5, <1>10
<1>20. ASSUME NEW x \in LeafRefs' PROVE LeafAt(nodes'[x], E2[x], B2[x])
  <2>1. \A y \in LeafRefs : LeafAt(nodes[y], E[y], B[y])
    BY DEF Shape
  <2>2. CASE x \in LeafRefs \ {r}
    <3>1. nodes'[x] = nodes[x] /\ E2[x] = E[x] /\ B2[x] = B[x]
      BY <2>2, <1>3, <1>4, <1>5, <1>15
    <3> QED
      BY <3>1, <2>1, <2>2
  <2>3. CASE x = b
    <3>1. nodes'[x] = l2 /\ E2[x] = Len(l2.key) + 1 /\ B2[x] = LeafPathOf(l2)
      BY <2>3, <1>5, <1>15
    <3>2. LeafAt(l2, Len(l2.key) + 1, LeafPathOf(l2))
      BY <1>6 DEF LeafAt
    <3> QED
      BY <3>1, <3>2
  <2>4. CASE r \in LeafRefs /\ x = a
    <3>1. nodes'[x] = nodes[r] /\ E2[x] = E[r] /\ B2[x] = B[r]
      BY <2>4, <1>5, <1>15
    <3> QED
      BY <3>1, <2>1, <2>4
  <2> QED
    BY <2>2, <2>3, <2>4, <1>12
<1>21. ASSUME NEW x \in Refs, NEW c, Slot(x, c, E) PROVE SlotIn(x, c, InnerRefs', E2, Kids')
  <2>1. CASE x = Root /\ c = 0
    BY <2>1 DEF Slot, SlotIn
  <2>2. CASE \E s \in InnerRefs : \E g \in Kids[s] : g.ref = x /\ c = E[s] + 1
    <3>1. PICK s \in InnerRefs : \E g \in Kids[s] : g.ref = x /\ c = E[s] + 1
      BY <2>2
    <3>2. PICK g \in Kids[s] : g.ref = x /\ c = E[s] + 1
      BY <3>1
    <3>3. \E s2 \in InnerRefs' : g \in Kids'[s2] /\ c = E2[s2] + 1
      <4>1. CASE s = r
        <5>1. a \in InnerRefs' /\ Kids'[a] = Kids[r] /\ E2[a] = E[r]
          BY <4>1, <1>11, <1>14, <1>15
        <5> QED
          BY <4>1, <5>1, <3>2
      <4>2. CASE s /= r
        <5>1. s \in InnerRefs' /\ Kids'[s] = Kids[s] /\ E2[s] = E[s]
          BY <4>2, <1>4, <1>11, <1>14, <1>15
        <5> QED
          BY <4>2, <5>1, <3>2
      <4> QED
        BY <4>1, <4>2
    <3> QED
      BY <3>2, <3>3 DEF Slot, SlotIn
  <2> QED
    BY <2>1, <2>2, <1>21 DEF Slot, SlotIn
<1>22. ASSUME NEW x \in InnerRefs'
       PROVE  /\ SlotIn(x, E2[x] - nodes'[x].partial_len, InnerRefs', E2, Kids')
              /\ InnerAt(nodes'[x], E2[x], B2[x])
  <2>0. \A y \in InnerRefs : /\ Slot(y, E[y] - nodes[y].partial_len, E)
                             /\ InnerAt(nodes[y], E[y], B[y])
    BY DEF Shape
  <2>1. CASE x = r
    <3>1. E2[x] = D /\ B2[x] = B[r] /\ nodes'[x] = m /\ D - len = d
      BY <2>1, <1>1, <1>2, <1>5, <1>15
    <3>2. SlotIn(r, d, InnerRefs', E2, Kids')
      BY <1>1, <1>21 DEF Placed
    <3>3. \A i \in 1 .. D : B[r][i] \in 1 .. NBytes - 1
      <4> TAKE i \in 1 .. D
      <4>1. i \in 1 .. Len(l2.key)
        BY <1>2, <1>6
      <4> QED
        BY <4>1, <1>6
    <3>4. InnerAt(m, D, B[r])
      BY <3>1, <3>3 DEF InnerAt
    <3> QED
      BY <3>1, <3>2, <3>4, <2>1
  <2>2. CASE x = a /\ r \in InnerRefs
    <3>1. E2[x] = E[r] /\ B2[x] = B[r] /\ nodes'[x] = n2
      BY <2>2, <1>5, <1>15
    <3>2. /\ n2.partial_len = E[r] - (D + 1)
          /\ n2.partial = [i \in 1 .. Least(MAX_PREFIX_LEN, n2.partial_len) |->
                              B[r][(D + 1) + i]]
      BY <2>2
    <3>3. E[r] - n2.partial_len = D + 1
      BY <3>2, <1>1, <1>2
    <3>4. r \in InnerRefs' /\ e \in Kids'[r] /\ e.ref = a /\ E2[r] = D
      BY <1>11, <1>14, <1>15 DEF Child
    <3>5. SlotIn(a, D + 1, InnerRefs', E2, Kids')
      BY <3>4 DEF SlotIn
    <3>6. InnerAt(n2, E[r], B[r])
      BY <3>2, <3>3, <2>0, <2>2 DEF InnerAt
    <3> QED
      BY <3>1, <3>3, <3>5, <3>6, <2>2
  <2>3. CASE x \in InnerRefs \ {r}
    <3>1. E2[x] = E[x] /\ B2[x] = B[x] /\ nodes'[x] = nodes[x] /\ x \in Refs
      BY <2>3, <1>3, <1>4, <1>5, <1>15
    <3>2. SlotIn(x, E[x] - nodes[x].partial_len, InnerRefs', E2, Kids')
      BY <3>1, <2>0, <2>3, <1>21
    <3> QED
      BY <3>1, <3>2, <2>0, <2>3
  <2> QED
    BY <2>1, <2>2, <2>3, <1>11
<1>23. Shape(E2, B2)'
  BY <1>18, <1>19, <1>20, <1>22 DEF Shape, Slot, LeafAt, InnerAt, LeafByte
<1> QED
  BY <1>9, <1>13, <1>23

(* What a node has after it took a new leaf under a byte of its own. *)
Joined(r, a, l2, m, E, B) ==
  /\ a \in Refs \ {Root} /\ nodes[a] = NoNode
  /\ l2 \in LeafNode /\ E[r] <= Len(l2.key)
  /\ \A i \in 1 .. E[r] : B[r][i] = l2.key[i]
  /\ \A e \in Kids[r] : e.byte /= LeafByte(l2, E[r])
  /\ WellLaid(m) /\ m.partial_len = nodes[r].partial_len /\ m.partial = nodes[r].partial
  /\ ToSet(m.children) = ToSet(nodes[r].children) \cup {Child(LeafByte(l2, E[r]), a)}

(* The tree after a node took a new leaf. *)
LEMMA Branching ==
  ASSUME Laid, NEW E, NEW B, Shape(E, B), NEW r \in InnerRefs,
         NEW a, NEW l2, NEW m, Joined(r, a, l2, m, E, B),
         nodes' = [nodes EXCEPT ![r] = m, ![a] = l2]
  PROVE  /\ Laid'
         /\ \E E2, B2 : Shape(E2, B2)'
         /\ Leaves' = Leaves \cup {l2}
<1> SUFFICES
      ASSUME a \in Refs \ {Root}, nodes[a] = NoNode,
             l2 \in LeafNode, E[r] <= Len(l2.key),
             \A i \in 1 .. E[r] : B[r][i] = l2.key[i],
             \A e \in Kids[r] : e.byte /= LeafByte(l2, E[r]),
             WellLaid(m), m.partial_len = nodes[r].partial_len, m.partial = nodes[r].partial,
             ToSet(m.children) = ToSet(nodes[r].children) \cup {Child(LeafByte(l2, E[r]), a)}
      PROVE  /\ Laid'
             /\ \E E2, B2 : Shape(E2, B2)'
             /\ Leaves' = Leaves \cup {l2}
  BY Zenon DEF Joined
<1> DEFINE e == Child(LeafByte(l2, E[r]), a)
<1>1. /\ Trie(Used, InnerRefs, E, B, Kids)
      /\ Used = LeafRefs \cup InnerRefs /\ LeafRefs \cap InnerRefs = {}
      /\ \A x \in Used : E[x] \in Nat /\ E[x] <= MaxKeyLen + 1 /\ x \in Refs
      /\ \A x \in InnerRefs : x \in Used /\ Kids[x] = ToSet(nodes[x].children)
  BY Typing
<1>2. r /= a /\ a \notin Used /\ r \in Refs /\ E[r] \in Nat
  BY <1>1 DEF Used
<1>3. /\ nodes'[r] = m /\ nodes'[a] = l2 /\ DOMAIN nodes' = Refs
      /\ \A x \in Refs \ {r, a} : nodes'[x] = nodes[x]
  BY <1>2 DEF Laid
<1>4. /\ l2.key \in Keys /\ Len(l2.key) \in Nat /\ Len(l2.key) <= MaxKeyLen
      /\ l2 /= NoNode /\ IS_LEAF(l2) /\ ~IsInner(l2)
      /\ \A i \in 1 .. Len(l2.key) + 1 : LeafPathOf(l2)[i] = LeafByte(l2, i - 1)
      /\ \A i \in 1 .. Len(l2.key) : LeafPathOf(l2)[i] = l2.key[i]
  BY NewLeaf
<1>5. m /= NoNode /\ ~IS_LEAF(m) /\ IsInner(m)
  BY LaidInner
<1>6. Laid'
  <2>1. \A x \in Refs : nodes'[x] = NoNode \/ nodes'[x] \in LeafNode \/ WellLaid(nodes'[x])
    BY <1>3 DEF Laid
  <2> QED
    BY <2>1, <1>3 DEF Laid, LeafNode, WellLaid, InnerNode, Types
<1>7. Used' = Used \cup {a}
  BY <1>1, <1>2, <1>3, <1>4, <1>5 DEF Used
<1>8. InnerRefs' = InnerRefs
  <2>1. \A x \in Refs : x \in InnerRefs' <=> IsInner(nodes'[x])
    BY DEF InnerRefs, IsInner, Types
  <2>2. \A x \in Refs : x \in InnerRefs <=> IsInner(nodes[x])
    BY DEF InnerRefs
  <2>3. ~IsInner(nodes[a])
    BY KindOf
  <2>4. InnerRefs' \subseteq Refs /\ InnerRefs \subseteq Refs
    BY DEF InnerRefs
  <2>5. \A x \in Refs : IsInner(nodes'[x]) <=> IsInner(nodes[x])
    <3> TAKE x \in Refs
    <3>1. CASE x = r
      BY <3>1, <2>2, <1>2, <1>3, <1>5
    <3>2. CASE x = a
      BY <3>2, <2>3, <1>3, <1>4
    <3>3. CASE x \in Refs \ {r, a}
      BY <3>3, <1>3
    <3> QED
      BY <3>1, <3>2, <3>3
  <2> QED
    BY <2>1, <2>2, <2>4, <2>5
<1>9. LeafRefs' = LeafRefs \cup {a}
  <2>1. \A x \in Refs : x \in LeafRefs' <=> IS_LEAF(nodes'[x])
    BY DEF LeafRefs, IS_LEAF
  <2>2. \A x \in Refs : x \in LeafRefs <=> IS_LEAF(nodes[x])
    BY DEF LeafRefs
  <2>3. ~IS_LEAF(nodes[r])
    BY <1>2, KindOf DEF InnerRefs
  <2>4. LeafRefs' \subseteq Refs /\ LeafRefs \subseteq Refs
    BY DEF LeafRefs
  <2> QED
    BY <2>1, <2>2, <2>3, <2>4, <1>2, <1>3, <1>4, <1>5
<1>10. Leaves' = Leaves \cup {l2}
  <2>1. Leaves' = {nodes'[x] : x \in LeafRefs'}
    BY DEF Leaves
  <2>2. r \notin LeafRefs /\ a \notin LeafRefs /\ LeafRefs \subseteq Refs
    BY <1>1, <1>2
  <2> QED
    BY <2>1, <2>2, <1>3, <1>9 DEF Leaves
<1>11. /\ \A s \in InnerRefs : s /= r => Kids'[s] = Kids[s]
       /\ Kids'[r] = Kids[r] \cup {e}
  <2>1. \A s \in InnerRefs' : Kids'[s] = ToSet(nodes'[s].children)
    BY DEF Kids, ToSet
  <2>2. ASSUME NEW s \in InnerRefs, s /= r PROVE Kids'[s] = Kids[s]
    <3>1. nodes'[s] = nodes[s]
      BY <2>2, <1>1, <1>2, <1>3
    <3>2. Kids'[s] = ToSet(nodes[s].children)
      BY <3>1, <2>1, <1>8
    <3> QED
      BY <3>2, <1>1
  <2>3. Kids'[r] = Kids[r] \cup {e}
    BY <2>1, <1>1, <1>3, <1>8
  <2> QED
    BY <2>2, <2>3
<1>12. PICK E2, B2 :
         /\ \A y \in Used : E2[y] = E[y] /\ B2[y] = B[y]
         /\ E2[a] = Len(l2.key) + 1 /\ B2[a] = LeafPathOf(l2)
  <2> DEFINE E3 == [x \in Refs |-> IF x = a THEN Len(l2.key) + 1 ELSE E[x]]
             B3 == [x \in Refs |-> IF x = a THEN LeafPathOf(l2) ELSE B[x]]
  <2>1. /\ \A y \in Used : E3[y] = E[y] /\ B3[y] = B[y]
        /\ E3[a] = Len(l2.key) + 1 /\ B3[a] = LeafPathOf(l2)
    BY <1>1, <1>2
  <2> HIDE DEF E3, B3
  <2> QED
    BY <2>1
<1>13. Trie(Used \cup {a}, InnerRefs', E2, B2, Kids')
  <2>1. e.ref = a /\ e.byte = LeafByte(l2, E[r])
    BY DEF Child
  <2>2. E2[a] \in Nat /\ E[r] < E2[a] /\ E2[r] = E[r] /\ B2[r] = B[r]
    BY <1>1, <1>2, <1>4, <1>12
  <2>3. \A i \in 1 .. E[r] : B[r][i] = B2[a][i]
    <3> TAKE i \in 1 .. E[r]
    <3>1. i \in 1 .. Len(l2.key)
      BY <1>2, <1>4
    <3> QED
      BY <3>1, <1>4, <1>12
  <2>4. Above(r, a, InnerRefs, E2, B2)
    BY <2>2, <2>3 DEF Above
  <2>5. B2[a][E[r] + 1] = LeafByte(l2, E[r])
    <3>1. E[r] + 1 \in 1 .. Len(l2.key) + 1 /\ (E[r] + 1) - 1 = E[r]
      BY <1>2, <1>4
    <3> QED
      BY <3>1, <1>4, <1>12
  <2>6. Kids'[r] = Kids[r] \cup {e}
    BY <1>11
  <2>7. \A f \in Kids[r] : f.byte /= e.byte
    BY <2>1
  <2> HIDE DEF e
  <2> DEFINE K2 == Kids'
             I2 == InnerRefs'
  <2>8. /\ I2 = InnerRefs /\ K2[r] = Kids[r] \cup {e}
        /\ \A s \in InnerRefs : s /= r => K2[s] = Kids[s]
    BY <2>6, <1>8, <1>11
  <2> HIDE DEF K2, I2
  <2>9. Branched(Used, InnerRefs, E, B, Kids, E2, B2, K2, r, e)
    BY <2>1, <2>2, <2>4, <2>5, <2>7, <2>8, <1>1, <1>2, <1>12 DEF Branched
  <2>10. Trie(Used \cup {e.ref}, InnerRefs, E2, B2, K2)
    BY <2>9, AddKid
  <2> QED
    BY <2>1, <2>8, <2>10 DEF K2, I2
<1>14. Trie(Used, InnerRefs, E2, B2, Kids)'
  <2>1. Trie(Used', InnerRefs', E2, B2, Kids')
    BY <1>7, <1>13
  <2> QED
    BY <2>1 DEF Trie, Covers, Above, Same
<1>15. \A x \in Used' : E2[x] <= MaxKeyLen + 1
  <2> TAKE x \in Used'
  <2>1. CASE x \in Used
    BY <2>1, <1>1, <1>12
  <2>2. CASE x = a
    <3>1. E2[x] = Len(l2.key) + 1
      BY <2>2, <1>12
    <3> QED
      BY <3>1, <1>4, KeysAssumption
  <2> QED
    BY <2>1, <2>2, <1>7
<1>16. ASSUME NEW x \in LeafRefs' PROVE LeafAt(nodes'[x], E2[x], B2[x])
  <2>1. \A y \in LeafRefs : LeafAt(nodes[y], E[y], B[y])
    BY DEF Shape
  <2>2. CASE x \in LeafRefs
    <3>1. nodes'[x] = nodes[x] /\ E2[x] = E[x] /\ B2[x] = B[x]
      BY <2>2, <1>1, <1>2, <1>3, <1>12
    <3> QED
      BY <3>1, <2>1, <2>2
  <2>3. CASE x = a
    <3>1. nodes'[x] = l2 /\ E2[x] = Len(l2.key) + 1 /\ B2[x] = LeafPathOf(l2)
      BY <2>3, <1>3, <1>12
    <3>2. LeafAt(l2, Len(l2.key) + 1, LeafPathOf(l2))
      BY <1>4 DEF LeafAt
    <3> QED
      BY <3>1, <3>2
  <2> QED
    BY <2>2, <2>3, <1>9
<1>17. ASSUME NEW x, NEW c, Slot(x, c, E) PROVE SlotIn(x, c, InnerRefs', E2, Kids')
  <2>1. CASE x = Root /\ c = 0
    BY <2>1 DEF SlotIn
  <2>2. CASE \E s \in InnerRefs : \E g \in Kids[s] : g.ref = x /\ c = E[s] + 1
    <3>1. PICK s \in InnerRefs : \E g \in Kids[s] : g.ref = x /\ c = E[s] + 1
      BY <2>2
    <3>2. PICK g \in Kids[s] : g.ref = x /\ c = E[s] + 1
      BY <3>1
    <3>3. s \in InnerRefs' /\ g \in Kids'[s] /\ E2[s] = E[s]
      BY <1>1, <1>8, <1>11, <1>12
    <3> QED
      BY <3>2, <3>3 DEF SlotIn
  <2> QED
    BY <2>1, <2>2, <1>17 DEF Slot, SlotIn
<1>18. ASSUME NEW x \in InnerRefs'
       PROVE  /\ SlotIn(x, E2[x] - nodes'[x].partial_len, InnerRefs', E2, Kids')
              /\ InnerAt(nodes'[x], E2[x], B2[x])
  <2>0. x \in InnerRefs /\ Slot(x, E[x] - nodes[x].partial_len, E) /\ InnerAt(nodes[x], E[x], B[x])
    BY <1>8 DEF Shape
  <2>1. E2[x] = E[x] /\ B2[x] = B[x] /\ x \in Refs /\ x /= a
    BY <2>0, <1>1, <1>2, <1>12
  <2>2. /\ nodes'[x].partial_len = nodes[x].partial_len
        /\ nodes'[x].partial = nodes[x].partial
    BY <2>1, <1>3
  <2>3. SlotIn(x, E[x] - nodes[x].partial_len, InnerRefs', E2, Kids')
    BY <2>0, <1>17
  <2>4. InnerAt(nodes'[x], E[x], B[x])
    BY <2>0, <2>2 DEF InnerAt
  <2> QED
    BY <2>1, <2>2, <2>3, <2>4
<1>19. Shape(E2, B2)'
  BY <1>14, <1>15, <1>16, <1>18 DEF Shape, Slot, LeafAt, InnerAt, LeafByte
<1> QED
  BY <1>6, <1>10, <1>19

(* The first leaf. *)
LEMMA Rooting ==
  ASSUME Laid, NEW E, NEW B, Shape(E, B), nodes[Root] = NoNode, NEW l2 \in LeafNode,
         nodes' = [nodes EXCEPT ![Root] = l2]
  PROVE  /\ Laid'
         /\ \E E2, B2 : Shape(E2, B2)'
         /\ Leaves' = Leaves \cup {l2}
<1>1. Used = {} /\ LeafRefs = {} /\ Root \in Refs
  <2>1. Root \notin Used /\ Trie(Used, InnerRefs, E, B, Kids)
    BY Typing DEF Used
  <2>2. Used = {}
    BY <2>1 DEF Trie
  <2> QED
    BY <2>2, Typing, RefsAssumption
<1>2. nodes'[Root] = l2 /\ DOMAIN nodes' = Refs /\ \A x \in Refs \ {Root} : nodes'[x] = NoNode
  BY <1>1 DEF Laid, Used
<1>3. /\ Len(l2.key) \in Nat /\ Len(l2.key) <= MaxKeyLen
      /\ l2 /= NoNode /\ IS_LEAF(l2) /\ ~IsInner(l2)
      /\ \A i \in 1 .. Len(l2.key) + 1 : LeafPathOf(l2)[i] = LeafByte(l2, i - 1)
  BY NewLeaf
<1>4. Laid'
  <2>1. \A x \in Refs : nodes'[x] = NoNode \/ nodes'[x] \in LeafNode \/ WellLaid(nodes'[x])
    BY <1>2
  <2> QED
    BY <2>1, <1>2 DEF Laid, LeafNode, WellLaid, InnerNode, Types
<1>5. ~IsInner(NoNode) /\ ~IS_LEAF(NoNode)
  BY DEF IsInner, IS_LEAF, NoNode, Types
<1>6. Used' = {Root} /\ InnerRefs' = {} /\ LeafRefs' = {Root}
  <2>1. \A x \in Refs : x \in InnerRefs' <=> IsInner(nodes'[x])
    BY DEF InnerRefs, IsInner, Types
  <2>2. \A x \in Refs : x \in LeafRefs' <=> IS_LEAF(nodes'[x])
    BY DEF LeafRefs, IS_LEAF
  <2>3. \A x \in Refs : x \in Used' <=> nodes'[x] /= NoNode
    BY DEF Used
  <2>4. InnerRefs' \subseteq Refs /\ LeafRefs' \subseteq Refs /\ Used' \subseteq Refs
    BY DEF InnerRefs, LeafRefs, Used
  <2> QED
    BY <2>1, <2>2, <2>3, <2>4, <1>1, <1>2, <1>3, <1>5
<1>7. Leaves' = Leaves \cup {l2}
  <2>1. Leaves' = {nodes'[x] : x \in LeafRefs'} /\ Leaves = {}
    BY <1>1 DEF Leaves
  <2> QED
    BY <2>1, <1>2, <1>6
<1>8. PICK E2, B2 : E2[Root] = Len(l2.key) + 1 /\ B2[Root] = LeafPathOf(l2)
  <2> DEFINE E3 == [x \in {Root} |-> Len(l2.key) + 1]
             B3 == [x \in {Root} |-> LeafPathOf(l2)]
  <2>1. E3[Root] = Len(l2.key) + 1 /\ B3[Root] = LeafPathOf(l2)
    OBVIOUS
  <2> HIDE DEF E3, B3
  <2> QED
    BY <2>1
<1>9. E2[Root] \in Nat /\ E2[Root] <= MaxKeyLen + 1
  BY <1>3, <1>8, KeysAssumption
<1>10. Trie(Used, InnerRefs, E2, B2, Kids)'
  BY <1>6, <1>9 DEF Trie, Covers, Above, Same
<1>11. LeafAt(l2, Len(l2.key) + 1, LeafPathOf(l2))
  BY <1>3 DEF LeafAt
<1>12. ASSUME NEW x \in LeafRefs' PROVE LeafAt(nodes'[x], E2[x], B2[x])
  BY <1>2, <1>6, <1>8, <1>11
<1>13. Shape(E2, B2)'
  BY <1>6, <1>9, <1>10, <1>12 DEF Shape, Slot, LeafAt, InnerAt, LeafByte
<1> QED
  BY <1>4, <1>7, <1>13

(* A leaf's value is replaced. *)
LEMMA Updating ==
  ASSUME Laid, NEW E, NEW B, Shape(E, B), NEW r \in LeafRefs, NEW v \in Values,
         nodes' = [nodes EXCEPT ![r].val = v]
  PROVE  /\ Laid'
         /\ \E E2, B2 : Shape(E2, B2)'
         /\ Leaves' = (Leaves \ {nodes[r]}) \cup {[nodes[r] EXCEPT !.val = v]}
<1> DEFINE l2 == [nodes[r] EXCEPT !.val = v]
<1>1. r \in Refs /\ nodes[r] \in LeafNode /\ ~IsInner(nodes[r]) /\ DOMAIN nodes = Refs
  BY KindOf DEF LeafRefs, Laid
<1>2. l2 \in LeafNode /\ l2.key = nodes[r].key /\ l2.type = nodes[r].type
  BY <1>1 DEF LeafNode
<1>3. l2 /= NoNode /\ IS_LEAF(l2) /\ ~IsInner(l2)
  BY <1>2, NewLeaf
<1>4. nodes'[r] = l2 /\ DOMAIN nodes' = Refs /\ \A x \in Refs \ {r} : nodes'[x] = nodes[x]
  BY <1>1
<1>h. IS_LEAF(nodes[r]) /\ nodes[r] /= NoNode
  BY <1>1, KindOf DEF LeafRefs
<1> HIDE DEF l2
<1>5. Laid'
  <2>1. \A x \in Refs : nodes'[x] = NoNode \/ nodes'[x] \in LeafNode \/ WellLaid(nodes'[x])
    BY <1>2, <1>4 DEF Laid
  <2> QED
    BY <2>1, <1>4 DEF Laid, LeafNode, WellLaid, InnerNode, Types
<1>6. /\ \A x \in Refs : IsInner(nodes'[x]) <=> IsInner(nodes[x])
      /\ \A x \in Refs : IS_LEAF(nodes'[x]) <=> IS_LEAF(nodes[x])
      /\ \A x \in Refs : nodes'[x] /= NoNode <=> nodes[x] /= NoNode
  <2> SUFFICES ASSUME NEW x \in Refs
               PROVE  /\ IsInner(nodes'[x]) <=> IsInner(nodes[x])
                      /\ IS_LEAF(nodes'[x]) <=> IS_LEAF(nodes[x])
                      /\ nodes'[x] /= NoNode <=> nodes[x] /= NoNode
    OBVIOUS
  <2>1. CASE x = r
    BY <2>1, <1>1, <1>3, <1>4, <1>h
  <2>2. CASE x /= r
    BY <2>2, <1>4
  <2> QED
    BY <2>1, <2>2
<1>7. Used' = Used /\ InnerRefs' = InnerRefs /\ LeafRefs' = LeafRefs
  BY <1>6 DEF Used, InnerRefs, LeafRefs, IsInner, IS_LEAF, Types
<1>8. Kids' = Kids
  <2>1. \A s \in InnerRefs : nodes'[s] = nodes[s]
    BY <1>1, <1>4 DEF InnerRefs
  <2> QED
    BY <2>1, <1>7 DEF Kids, ToSet
<1>9. Trie(Used, InnerRefs, E, B, Kids)'
  <2>1. Trie(Used', InnerRefs', E, B, Kids')
    BY <1>7, <1>8, Typing
  <2> QED
    BY <2>1 DEF Trie, Covers, Above, Same
<1>10. ASSUME NEW x \in LeafRefs' PROVE LeafAt(nodes'[x], E[x], B[x])
  <2>1. LeafAt(nodes[x], E[x], B[x]) /\ x \in Refs
    BY <1>7 DEF Shape, LeafRefs
  <2>2. nodes'[x].key = nodes[x].key
    BY <2>1, <1>2, <1>4
  <2> QED
    BY <2>1, <2>2 DEF LeafAt, LeafByte
<1>11. ASSUME NEW x \in InnerRefs'
       PROVE  /\ SlotIn(x, E[x] - nodes'[x].partial_len, InnerRefs', E, Kids')
              /\ InnerAt(nodes'[x], E[x], B[x])
  <2>1. nodes'[x] = nodes[x] /\ x \in InnerRefs
    BY <1>1, <1>4, <1>7 DEF InnerRefs
  <2>2. Slot(x, E[x] - nodes[x].partial_len, E) /\ InnerAt(nodes[x], E[x], B[x])
    BY <2>1 DEF Shape
  <2> QED
    BY <2>1, <2>2, <1>7, <1>8 DEF Slot
<1>12. \A x \in Used' : E[x] <= MaxKeyLen + 1
  BY <1>7 DEF Shape
<1>13. Shape(E, B)'
  BY <1>9, <1>10, <1>11, <1>12 DEF Shape, Slot, LeafAt, InnerAt, LeafByte
<1>14. Leaves' = (Leaves \ {nodes[r]}) \cup {l2}
  <2>1. Leaves' = {nodes'[x] : x \in LeafRefs}
    BY <1>7 DEF Leaves
  <2>2. \A x \in LeafRefs \ {r} : nodes'[x] = nodes[x] /\ nodes[x] /= nodes[r]
    BY <1>4, OneLeaf DEF LeafRefs
  <2> QED
    BY <2>1, <2>2, <1>4 DEF Leaves
<1> QED
  BY <1>5, <1>13, <1>14 DEF l2

(* The only leaf of the tree is removed. *)
LEMMA Clearing ==
  ASSUME Laid, NEW E, NEW B, Shape(E, B), Root \in LeafRefs,
         nodes' = [nodes EXCEPT ![Root] = NoNode]
  PROVE  /\ Laid'
         /\ \E E2, B2 : Shape(E2, B2)'
         /\ Leaves' = Leaves \ {nodes[Root]}
<1>1. Used = {Root} /\ LeafRefs = {Root} /\ Root \in Refs
  <2>1. /\ Trie(Used, InnerRefs, E, B, Kids)
        /\ Used = LeafRefs \cup InnerRefs /\ LeafRefs \cap InnerRefs = {}
    BY Typing
  <2>2. \A x \in Used : Covers(Root, x, InnerRefs, E, B)
    BY <2>1 DEF Trie
  <2>3. \A x \in Used : x = Root
    BY <2>1, <2>2 DEF Covers, Above
  <2> QED
    BY <2>1, <2>3, RefsAssumption
<1>2. DOMAIN nodes' = Refs /\ \A x \in Refs : nodes'[x] = NoNode
  BY <1>1 DEF Laid, Used
<1>3. ~IsInner(NoNode) /\ ~IS_LEAF(NoNode)
  BY DEF IsInner, IS_LEAF, NoNode, Types
<1>4. Laid'
  BY <1>2 DEF Laid, LeafNode, WellLaid, InnerNode, Types
<1>5. Used' = {} /\ InnerRefs' = {} /\ LeafRefs' = {}
  BY <1>2, <1>3 DEF Used, InnerRefs, LeafRefs, IsInner, IS_LEAF, Types
<1>6. Leaves' = Leaves \ {nodes[Root]}
  BY <1>1, <1>5 DEF Leaves
<1>7. Shape(E, B)'
  BY <1>5 DEF Shape, Trie, Slot, LeafAt, InnerAt, LeafByte
<1> QED
  BY <1>4, <1>6, <1>7

(* What a node has after it lost the child e. *)
Left(r, e, m) ==
  /\ WellLaid(m) /\ m.partial_len = nodes[r].partial_len /\ m.partial = nodes[r].partial
  /\ ToSet(m.children) = ToSet(nodes[r].children) \ {e}

(* The tree after a node lost a leaf and kept children enough. *)
LEMMA Pruning ==
  ASSUME Laid, NEW E, NEW B, Shape(E, B), NEW r \in InnerRefs, NEW e \in Kids[r],
         NEW c, c = e.ref, c \in LeafRefs, NEW m, Left(r, e, m),
         nodes' = [nodes EXCEPT ![c] = NoNode, ![r] = m]
  PROVE  /\ Laid'
         /\ \E E2, B2 : Shape(E2, B2)'
         /\ Leaves' = Leaves \ {nodes[c]}
<1> SUFFICES
      ASSUME WellLaid(m), m.partial_len = nodes[r].partial_len, m.partial = nodes[r].partial,
             ToSet(m.children) = ToSet(nodes[r].children) \ {e}
      PROVE  /\ Laid'
             /\ \E E2, B2 : Shape(E2, B2)'
             /\ Leaves' = Leaves \ {nodes[c]}
  BY Zenon DEF Left
<1>1. /\ Trie(Used, InnerRefs, E, B, Kids)
      /\ Used = LeafRefs \cup InnerRefs /\ LeafRefs \cap InnerRefs = {}
      /\ \A x \in Used : E[x] \in Nat /\ E[x] <= MaxKeyLen + 1 /\ x \in Refs
      /\ \A x \in InnerRefs : x \in Used /\ Kids[x] = ToSet(nodes[x].children)
  BY Typing
<1>2. r /= c /\ c \notin InnerRefs /\ r \in Refs /\ c \in Refs
  BY <1>1
<1>3. /\ nodes'[r] = m /\ nodes'[c] = NoNode /\ DOMAIN nodes' = Refs
      /\ \A x \in Refs \ {r, c} : nodes'[x] = nodes[x]
  BY <1>2 DEF Laid
<1>4. ~IsInner(NoNode) /\ ~IS_LEAF(NoNode)
  BY DEF IsInner, IS_LEAF, NoNode, Types
<1>5. m /= NoNode /\ ~IS_LEAF(m) /\ IsInner(m)
  BY LaidInner
<1>6. Laid'
  <2>1. \A x \in Refs : nodes'[x] = NoNode \/ nodes'[x] \in LeafNode \/ WellLaid(nodes'[x])
    BY <1>3 DEF Laid
  <2> QED
    BY <2>1, <1>3 DEF Laid, LeafNode, WellLaid, InnerNode, Types
<1>7. ASSUME NEW x \in Refs
      PROVE  /\ IsInner(nodes'[x]) <=> IsInner(nodes[x])
             /\ IS_LEAF(nodes'[x]) <=> IS_LEAF(nodes[x]) /\ x /= c
             /\ nodes'[x] /= NoNode <=> nodes[x] /= NoNode /\ x /= c
  <2>1. CASE x = r
    <3>1. ~IS_LEAF(nodes[r]) /\ IsInner(nodes[r]) /\ nodes[r] /= NoNode
      BY <1>2, KindOf DEF InnerRefs
    <3> QED
      BY <3>1, <2>1, <1>2, <1>3, <1>5
  <2>2. CASE x = c
    <3>1. ~IsInner(nodes[c])
      BY <1>2 DEF InnerRefs
    <3> QED
      BY <3>1, <2>2, <1>3, <1>4
  <2>3. CASE x \in Refs \ {r, c}
    BY <2>3, <1>3
  <2> QED
    BY <2>1, <2>2, <2>3
<1>8. Used' = Used \ {c} /\ InnerRefs' = InnerRefs /\ LeafRefs' = LeafRefs \ {c}
  <2>1. /\ InnerRefs' = {x \in Refs : IsInner(nodes'[x])}
        /\ LeafRefs' = {x \in Refs : IS_LEAF(nodes'[x])}
        /\ Used' = {x \in Refs : nodes'[x] /= NoNode}
    BY DEF InnerRefs, LeafRefs, Used, IsInner, IS_LEAF, Types
  <2>2. /\ InnerRefs = {x \in Refs : IsInner(nodes[x])}
        /\ LeafRefs = {x \in Refs : IS_LEAF(nodes[x])}
        /\ Used = {x \in Refs : nodes[x] /= NoNode}
    BY DEF InnerRefs, LeafRefs, Used
  <2> QED
    BY <2>1, <2>2, <1>7
<1>9. Leaves' = Leaves \ {nodes[c]}
  <2>1. Leaves' = {nodes'[x] : x \in LeafRefs'}
    BY DEF Leaves
  <2>2. \A x \in LeafRefs \ {c} : nodes'[x] = nodes[x] /\ nodes[x] /= nodes[c]
    BY <1>1, <1>3, OneLeaf
  <2>3. ASSUME NEW y \in Leaves' PROVE y \in Leaves \ {nodes[c]}
    <3>1. PICK x \in LeafRefs \ {c} : y = nodes'[x]
      BY <2>1, <1>8
    <3> QED
      BY <3>1, <2>2 DEF Leaves
  <2>4. ASSUME NEW y \in Leaves \ {nodes[c]} PROVE y \in Leaves'
    <3>1. PICK x \in LeafRefs : y = nodes[x]
      BY DEF Leaves
    <3>2. x \in LeafRefs \ {c} /\ y = nodes'[x]
      BY <3>1, <2>2
    <3> QED
      BY <3>2, <2>1, <1>8
  <2> QED
    BY <2>3, <2>4
<1>10. \A s \in InnerRefs : Kids'[s] = IF s = r THEN Kids[r] \ {e} ELSE Kids[s]
  <2>1. \A s \in InnerRefs' : Kids'[s] = ToSet(nodes'[s].children)
    BY DEF Kids, ToSet
  <2>2. ASSUME NEW s \in InnerRefs, s /= r PROVE Kids'[s] = Kids[s]
    <3>1. nodes'[s] = nodes[s]
      BY <2>2, <1>1, <1>2, <1>3
    <3>2. Kids'[s] = ToSet(nodes[s].children)
      BY <3>1, <2>1, <1>8
    <3> QED
      BY <3>2, <1>1
  <2>3. Kids'[r] = Kids[r] \ {e}
    BY <2>1, <1>1, <1>3, <1>8
  <2> QED
    BY <2>2, <2>3
<1>11. Trie(Used, InnerRefs, E, B, Kids)'
  <2> DEFINE K2 == Kids'
  <2>1. \A s \in InnerRefs : K2[s] = IF s = r THEN Kids[r] \ {e} ELSE Kids[s]
    BY <1>10
  <2> HIDE DEF K2
  <2>2. Pruned(Used, InnerRefs, E, B, Kids, K2, r, e)
    BY <2>1, <1>1, <1>2 DEF Pruned
  <2>3. Trie(Used \ {e.ref}, InnerRefs, E, B, K2)
    BY <2>2, DropKid
  <2>4. Trie(Used', InnerRefs', E, B, Kids')
    BY <2>3, <1>8 DEF K2
  <2> QED
    BY <2>4 DEF Trie, Covers, Above, Same
<1>12. ASSUME NEW x \in LeafRefs' PROVE LeafAt(nodes'[x], E[x], B[x])
  <2>1. nodes'[x] = nodes[x] /\ x \in LeafRefs
    BY <1>1, <1>3, <1>8
  <2> QED
    BY <2>1 DEF Shape
<1>13. ASSUME NEW x \in InnerRefs'
       PROVE  /\ SlotIn(x, E[x] - nodes'[x].partial_len, InnerRefs', E, Kids')
              /\ InnerAt(nodes'[x], E[x], B[x])
  <2>1. /\ x \in InnerRefs /\ x /= c /\ x \in Refs
        /\ nodes'[x].partial_len = nodes[x].partial_len
        /\ nodes'[x].partial = nodes[x].partial
    BY <1>1, <1>2, <1>3, <1>8
  <2>2. Slot(x, E[x] - nodes[x].partial_len, E) /\ InnerAt(nodes[x], E[x], B[x])
    BY <2>1 DEF Shape
  <2>3. InnerAt(nodes'[x], E[x], B[x])
    BY <2>1, <2>2 DEF InnerAt
  <2>4. ASSUME NEW s \in InnerRefs, NEW g \in Kids[s], g.ref = x PROVE g \in Kids'[s]
    BY <2>1, <2>4, <1>10
  <2>5. SlotIn(x, E[x] - nodes[x].partial_len, InnerRefs', E, Kids')
    BY <2>2, <2>4, <1>8 DEF Slot, SlotIn
  <2> QED
    BY <2>1, <2>3, <2>5
<1>14. \A x \in Used' : E[x] <= MaxKeyLen + 1
  BY <1>8 DEF Shape
<1>15. Shape(E, B)'
  BY <1>11, <1>12, <1>13, <1>14 DEF Shape, Slot, LeafAt, InnerAt, LeafByte
<1> QED
  BY <1>6, <1>9, <1>15

(* The only child left of a node, in its place: it has the bytes of both.  *)
Raised(r, only, n2, E, B) ==
  /\ only \in LeafRefs => n2 = nodes[only]
  /\ only \in InnerRefs =>
       /\ WellLaid(n2) /\ ToSet(n2.children) = ToSet(nodes[only].children)
       /\ n2.partial_len = E[only] - (E[r] - nodes[r].partial_len)
       /\ n2.partial = [i \in 1 .. Least(MAX_PREFIX_LEN, n2.partial_len) |->
                          B[only][(E[r] - nodes[r].partial_len) + i]]

(* The tree after a NODE4 with one child left gave way to it. *)
LEMMA Collapsing ==
  ASSUME Laid, NEW E, NEW B, Shape(E, B), NEW r \in InnerRefs,
         NEW e \in Kids[r], NEW f \in Kids[r], Kids[r] = {e, f}, e /= f,
         NEW c, c = e.ref, c \in LeafRefs, NEW only, only = f.ref,
         NEW n2, Raised(r, only, n2, E, B),
         nodes' = [nodes EXCEPT ![c] = NoNode, ![r] = n2, ![only] = NoNode]
  PROVE  /\ Laid'
         /\ \E E2, B2 : Shape(E2, B2)'
         /\ Leaves' = Leaves \ {nodes[c]}
<1> SUFFICES
      ASSUME only \in LeafRefs => n2 = nodes[only],
             only \in InnerRefs =>
               /\ WellLaid(n2) /\ ToSet(n2.children) = ToSet(nodes[only].children)
               /\ n2.partial_len = E[only] - (E[r] - nodes[r].partial_len)
               /\ n2.partial = [i \in 1 .. Least(MAX_PREFIX_LEN, n2.partial_len) |->
                                  B[only][(E[r] - nodes[r].partial_len) + i]]
      PROVE  /\ Laid'
             /\ \E E2, B2 : Shape(E2, B2)'
             /\ Leaves' = Leaves \ {nodes[c]}
  BY Zenon DEF Raised
<1> DEFINE d == E[r] - nodes[r].partial_len
           inner == only \in InnerRefs
<1>1. /\ Trie(Used, InnerRefs, E, B, Kids)
      /\ Used = LeafRefs \cup InnerRefs /\ LeafRefs \cap InnerRefs = {}
      /\ \A x \in Used : E[x] \in Nat /\ E[x] <= MaxKeyLen + 1 /\ x \in Refs
      /\ \A x \in InnerRefs : x \in Used /\ Kids[x] = ToSet(nodes[x].children)
  BY Typing
<1>2. /\ only \in Used /\ E[r] < E[only] /\ Above(r, only, InnerRefs, E, B)
      /\ c \in Used /\ E[r] < E[c]
  BY <1>1, ChildOf
<1>3. /\ c /= only /\ c /= r /\ only /= r
      /\ c \in Refs /\ only \in Refs /\ r \in Refs /\ c \notin InnerRefs
  <2>1. c /= only
    BY <1>1, OneParent
  <2>2. c \notin InnerRefs /\ c /= r
    BY <1>1
  <2>3. only /= r
    BY <1>1, <1>2
  <2> QED
    BY <2>1, <2>2, <2>3, <1>1, <1>2
<1>4. /\ nodes'[r] = n2 /\ nodes'[c] = NoNode /\ nodes'[only] = NoNode /\ DOMAIN nodes' = Refs
      /\ \A x \in Refs \ {r, c, only} : nodes'[x] = nodes[x]
  BY <1>3 DEF Laid
<1>5. ~IsInner(NoNode) /\ ~IS_LEAF(NoNode)
  BY DEF IsInner, IS_LEAF, NoNode, Types
<1>6. /\ n2 /= NoNode /\ (IS_LEAF(n2) <=> only \in LeafRefs) /\ (IsInner(n2) <=> inner)
      /\ n2 \in LeafNode \/ WellLaid(n2)
  <2>1. CASE only \in LeafRefs
    <3>1. n2 = nodes[only] /\ IS_LEAF(nodes[only])
      BY <2>1 DEF LeafRefs
    <3>2. n2 \in LeafNode /\ ~IsInner(n2) /\ n2 /= NoNode
      BY <1>3, <3>1, KindOf
    <3> QED
      BY <2>1, <3>1, <3>2, <1>1
  <2>2. CASE inner
    <3>1. WellLaid(n2)
      BY <2>2
    <3> QED
      BY <2>2, <3>1, <1>1, LaidInner
  <2> QED
    BY <2>1, <2>2, <1>1, <1>2
<1>7. Laid'
  <2>1. \A x \in Refs : nodes'[x] = NoNode \/ nodes'[x] \in LeafNode \/ WellLaid(nodes'[x])
    BY <1>4, <1>6 DEF Laid
  <2> QED
    BY <2>1, <1>4 DEF Laid, LeafNode, WellLaid, InnerNode, Types
<1>8. ASSUME NEW x \in Refs
      PROVE  /\ IsInner(nodes'[x]) <=> (x = r /\ inner) \/ (x /= r /\ x /= only /\ IsInner(nodes[x]))
             /\ IS_LEAF(nodes'[x]) <=> \/ x = r /\ only \in LeafRefs 
                                       \/ x /= r /\ x /= c /\ x /= only /\ IS_LEAF(nodes[x])
             /\ nodes'[x] /= NoNode <=> nodes[x] /= NoNode /\ x /= c /\ x /= only
  <2>1. CASE x = r
    <3>1. ~IS_LEAF(nodes[r]) /\ IsInner(nodes[r]) /\ nodes[r] /= NoNode
      BY <1>3, KindOf DEF InnerRefs
    <3> QED
      BY <3>1, <2>1, <1>3, <1>4, <1>6
  <2>2. CASE x = c
    <3>1. ~IsInner(nodes[c])
      BY <1>3 DEF InnerRefs
    <3> QED
      BY <3>1, <2>2, <1>3, <1>4, <1>5
  <2>3. CASE x = only
    BY <2>3, <1>3, <1>4, <1>5
  <2>4. CASE x \in Refs \ {r, c, only}
    BY <2>4, <1>4
  <2> QED
    BY <2>1, <2>2, <2>3, <2>4
<1>9. /\ Used' = Used \ {c, only}
      /\ InnerRefs' = IF inner THEN InnerRefs \ {only} ELSE InnerRefs \ {r}
      /\ LeafRefs' = IF inner THEN LeafRefs \ {c} ELSE (LeafRefs \ {c, only}) \cup {r}
  <2>1. /\ InnerRefs' = {x \in Refs : IsInner(nodes'[x])}
        /\ LeafRefs' = {x \in Refs : IS_LEAF(nodes'[x])}
        /\ Used' = {x \in Refs : nodes'[x] /= NoNode}
    BY DEF InnerRefs, LeafRefs, Used, IsInner, IS_LEAF, Types
  <2>2. /\ InnerRefs = {x \in Refs : IsInner(nodes[x])}
        /\ LeafRefs = {x \in Refs : IS_LEAF(nodes[x])}
        /\ Used = {x \in Refs : nodes[x] /= NoNode}
    BY DEF InnerRefs, LeafRefs, Used
  <2>3. Used' = Used \ {c, only}
    BY <2>1, <2>2, <1>8, ZenonT(40)
  <2>4. CASE inner
    <3>1. r \in InnerRefs /\ r \notin LeafRefs /\ only \notin LeafRefs /\ inner
      BY <2>4, <1>1
    <3>2. InnerRefs' = InnerRefs \ {only}
      BY <3>1, <2>1, <2>2, <1>3, <1>8
    <3>3. LeafRefs' = LeafRefs \ {c}
      BY <3>1, <2>1, <2>2, <1>3, <1>8
    <3> QED
      BY <2>3, <2>4, <3>2, <3>3
  <2>5. CASE ~inner
    <3>1. r \in InnerRefs /\ r \notin LeafRefs /\ only \in LeafRefs /\ ~inner
      BY <2>5, <1>1, <1>2
    <3>2. InnerRefs' = InnerRefs \ {r}
      BY <3>1, <2>1, <2>2, <1>3, <1>8
    <3>3. LeafRefs' = (LeafRefs \ {c, only}) \cup {r}
      BY <3>1, <2>1, <2>2, <1>3, <1>8
    <3> QED
      BY <2>3, <2>5, <3>2, <3>3
  <2> QED
    BY <2>4, <2>5
<1>10. Leaves' = Leaves \ {nodes[c]}
  <2>1. Leaves' = {nodes'[x] : x \in LeafRefs'}
    BY DEF Leaves
  <2>2. \A x \in LeafRefs \ {c} : nodes[x] /= nodes[c]
    BY OneLeaf
  <2>3. \A x \in LeafRefs \ {c, only} : x \in LeafRefs' /\ nodes'[x] = nodes[x]
    BY <1>1, <1>4, <1>9
  <2>4. only \in LeafRefs => r \in LeafRefs' /\ nodes'[r] = nodes[only]
    BY <1>1, <1>4, <1>9
  <2>5. ASSUME NEW y \in Leaves' PROVE y \in Leaves \ {nodes[c]}
    <3>1. PICK x \in LeafRefs' : y = nodes'[x]
      BY <2>1
    <3>2. \E z \in LeafRefs \ {c} : y = nodes[z]
      <4>1. CASE x = r /\ only \in LeafRefs
        BY <4>1, <3>1, <2>4, <1>3
      <4>2. CASE x \in LeafRefs \ {c, only}
        BY <4>2, <3>1, <2>3
      <4> QED
        BY <4>1, <4>2, <1>1, <1>2, <1>9
    <3> QED
      BY <3>2, <2>2 DEF Leaves
  <2>6. ASSUME NEW y \in Leaves \ {nodes[c]} PROVE y \in Leaves'
    <3>1. PICK x \in LeafRefs : y = nodes[x]
      BY DEF Leaves
    <3>2. x \in LeafRefs \ {c}
      BY <3>1
    <3>3. \E z \in LeafRefs' : y = nodes'[z]
      <4>1. CASE x = only
        BY <4>1, <3>1, <2>4
      <4>2. CASE x /= only
        BY <4>2, <3>1, <3>2, <2>3
      <4> QED
        BY <4>1, <4>2
    <3> QED
      BY <3>3, <2>1
  <2> QED
    BY <2>5, <2>6
<1>11. /\ \A s \in InnerRefs \ {r, only} : s \in InnerRefs' /\ Kids'[s] = Kids[s]
       /\ inner => r \in InnerRefs' /\ Kids'[r] = Kids[only]
  <2>1. \A s \in InnerRefs' : Kids'[s] = ToSet(nodes'[s].children)
    BY DEF Kids, ToSet
  <2>2. ASSUME NEW s \in InnerRefs \ {r, only} PROVE s \in InnerRefs' /\ Kids'[s] = Kids[s]
    <3>1. nodes'[s] = nodes[s] /\ s \in InnerRefs'
      BY <1>1, <1>3, <1>4, <1>9
    <3>2. Kids'[s] = ToSet(nodes[s].children)
      BY <3>1, <2>1
    <3> QED
      BY <3>1, <3>2, <1>1
  <2>3. ASSUME inner PROVE r \in InnerRefs' /\ Kids'[r] = Kids[only]
    <3>1. r \in InnerRefs' /\ nodes'[r] = n2
      BY <2>3, <1>3, <1>4, <1>9
    <3>2. ToSet(n2.children) = ToSet(nodes[only].children)
      BY <2>3
    <3> QED
      BY <2>1, <2>3, <3>1, <3>2, <1>1
  <2> QED
    BY <2>2, <2>3
<1>12. PICK E2, B2 :
         /\ \A y \in Used \ {r, only} : E2[y] = E[y] /\ B2[y] = B[y]
         /\ E2[r] = E[only] /\ B2[r] = B[only]
  <2> DEFINE E3 == [x \in Refs |-> IF x = r THEN E[only] ELSE E[x]]
             B3 == [x \in Refs |-> IF x = r THEN B[only] ELSE B[x]]
  <2>1. /\ \A y \in Used \ {r, only} : E3[y] = E[y] /\ B3[y] = B[y]
        /\ E3[r] = E[only] /\ B3[r] = B[only]
    BY <1>1, <1>3
  <2> HIDE DEF E3, B3
  <2> QED
    BY <2>1
<1>13. Trie(Used, InnerRefs, E2, B2, Kids)'
  <2> DEFINE K1 == [s \in InnerRefs |-> IF s = r THEN {f} ELSE Kids[s]]
             K2 == Kids'
             I2 == InnerRefs'
  <2>1. /\ \A s \in InnerRefs : s /= r => K1[s] = Kids[s]
        /\ K1[r] = {f} /\ K1[r] = Kids[r] \ {e}
    OBVIOUS
  <2>2. /\ I2 = IF only \in InnerRefs THEN InnerRefs \ {only} ELSE InnerRefs \ {r}
        /\ \A s \in InnerRefs \ {r, only} : K2[s] = Kids[s]
        /\ only \in InnerRefs => K2[r] = Kids[only]
    BY <1>9, <1>11
  <2> HIDE DEF K1, K2, I2
  <2>3. Pruned(Used, InnerRefs, E, B, Kids, K1, r, e)
    BY <2>1, <1>1, <1>3 DEF Pruned
  <2>4. Trie(Used \ {c}, InnerRefs, E, B, K1)
    BY <2>3, DropKid
  <2>5. Lifted(Used \ {c}, InnerRefs, E, B, K1, I2, E2, B2, K2, r, only)
    <3>1. \A s \in InnerRefs \ {r, only} : K2[s] = K1[s]
      BY <2>1, <2>2
    <3>2. only \in InnerRefs => K2[r] = K1[only]
      BY <2>1, <2>2, <1>3
    <3>3. \E g : K1[r] = {g} /\ only = g.ref
      BY <2>1
    <3>4. \A y \in (Used \ {c}) \ {r, only} : E2[y] = E[y] /\ B2[y] = B[y]
      BY <1>12
    <3> QED
      BY <2>2, <2>4, <3>1, <3>2, <3>3, <3>4, <1>12 DEF Lifted
  <2>6. Trie((Used \ {c}) \ {only}, I2, E2, B2, K2)
    BY <2>5, Lift
  <2>7. Used' = (Used \ {c}) \ {only}
    BY <1>9
  <2>8. Trie(Used', InnerRefs', E2, B2, Kids')
    BY <2>6, <2>7 DEF I2, K2
  <2> QED
    BY <2>8 DEF Trie, Covers, Above, Same
<1>14. \A x \in Used' : E2[x] <= MaxKeyLen + 1
  <2> TAKE x \in Used'
  <2>1. CASE x = r
    BY <2>1, <1>1, <1>2, <1>12
  <2>2. CASE x /= r
    BY <2>2, <1>1, <1>9, <1>12
  <2> QED
    BY <2>1, <2>2
<1>15. ASSUME NEW x \in LeafRefs' PROVE LeafAt(nodes'[x], E2[x], B2[x])
  <2>0. \A y \in LeafRefs : LeafAt(nodes[y], E[y], B[y])
    BY DEF Shape
  <2>1. CASE x = r
    <3>1. only \in LeafRefs
      BY <2>1, <1>1, <1>2, <1>9
    <3>2. nodes'[x] = nodes[only] /\ E2[x] = E[only] /\ B2[x] = B[only]
      BY <2>1, <3>1, <1>4, <1>12
    <3> QED
      BY <3>1, <3>2, <2>0
  <2>2. CASE x /= r
    <3>1. x \in LeafRefs /\ x /= c /\ x /= only
      BY <2>2, <1>1, <1>9
    <3>2. nodes'[x] = nodes[x] /\ E2[x] = E[x] /\ B2[x] = B[x]
      BY <2>2, <3>1, <1>1, <1>4, <1>12
    <3> QED
      BY <3>1, <3>2, <2>0
  <2> QED
    BY <2>1, <2>2
<1>16. ASSUME NEW s \in InnerRefs, NEW g \in Kids[s], g.ref /= c, g.ref /= only
       PROVE  \E s2 \in InnerRefs' : g \in Kids'[s2] /\ E2[s2] = E[s]
  <2>1. s /= r
    BY <1>16
  <2>2. CASE s = only
    BY <2>2, <1>11, <1>12
  <2>3. CASE s /= only
    BY <2>1, <2>3, <1>1, <1>11, <1>12
  <2> QED
    BY <2>2, <2>3
<1>17. ASSUME NEW x, NEW z, x /= c, x /= only, Slot(x, z, E)
       PROVE  SlotIn(x, z, InnerRefs', E2, Kids')
  <2>1. CASE x = Root /\ z = 0
    BY <2>1 DEF SlotIn
  <2>2. CASE \E s \in InnerRefs : \E g \in Kids[s] : g.ref = x /\ z = E[s] + 1
    <3>1. PICK s \in InnerRefs : \E g \in Kids[s] : g.ref = x /\ z = E[s] + 1
      BY <2>2
    <3>2. PICK g \in Kids[s] : g.ref = x /\ z = E[s] + 1
      BY <3>1
    <3>3. PICK s2 \in InnerRefs' : g \in Kids'[s2] /\ E2[s2] = E[s]
      BY <3>2, <1>16, <1>17
    <3> QED
      BY <3>2, <3>3 DEF SlotIn
  <2> QED
    BY <2>1, <2>2, <1>17 DEF Slot, SlotIn
<1>18. ASSUME NEW x \in InnerRefs'
       PROVE  /\ SlotIn(x, E2[x] - nodes'[x].partial_len, InnerRefs', E2, Kids')
              /\ InnerAt(nodes'[x], E2[x], B2[x])
  <2>0. \A y \in InnerRefs : /\ Slot(y, E[y] - nodes[y].partial_len, E)
                             /\ InnerAt(nodes[y], E[y], B[y])
    BY DEF Shape
  <2>1. CASE x = r
    <3>1. inner
      BY <2>1, <1>9
    <3>2. nodes'[x] = n2 /\ E2[x] = E[only] /\ B2[x] = B[only]
      BY <2>1, <1>4, <1>12
    <3>3. /\ n2.partial_len = E[only] - d
          /\ n2.partial = [i \in 1 .. Least(MAX_PREFIX_LEN, n2.partial_len) |-> B[only][d + i]]
      BY <3>1
    <3>4. d \in Int /\ E[only] \in Nat
      <4>1. nodes[r].partial_len \in Nat
        BY <1>3, KindOf DEF InnerRefs, InnerNode
      <4> QED
        BY <4>1, <1>1, <1>2
    <3>5. E[only] - n2.partial_len = d
      <4> HIDE DEF d
      <4> QED
        BY <3>3, <3>4
    <3>6. SlotIn(r, d, InnerRefs', E2, Kids')
      BY <2>0, <1>3, <1>17
    <3> HIDE DEF d
    <3>7. \A i \in 1 .. E[only] : B[only][i] \in 1 .. NBytes - 1
      BY <3>1, <2>0 DEF InnerAt
    <3>8. InnerAt(n2, E[only], B[only])
      BY <3>3, <3>5, <3>7 DEF InnerAt
    <3> QED
      BY <3>2, <3>5, <3>6, <3>8, <2>1
  <2>2. CASE x /= r
    <3>1. x \in InnerRefs /\ x /= only /\ x /= c
      BY <2>2, <1>3, <1>9
    <3>2. nodes'[x] = nodes[x] /\ E2[x] = E[x] /\ B2[x] = B[x]
      BY <2>2, <3>1, <1>1, <1>4, <1>12
    <3>3. SlotIn(x, E[x] - nodes[x].partial_len, InnerRefs', E2, Kids')
      BY <3>1, <2>0, <1>17
    <3> QED
      BY <3>1, <3>2, <3>3, <2>0
  <2> QED
    BY <2>1, <2>2
<1>19. Shape(E2, B2)'
  BY <1>13, <1>14, <1>15, <1>18 DEF Shape, Slot, LeafAt, InnerAt, LeafByte
<1> QED
  BY <1>7, <1>10, <1>19
=============================================================================
