------------------------------- MODULE MCArt -------------------------------
(* Model-checking instances of Art. *)
EXTENDS ArtIter, TLC

CONSTANTS v1, v2

Node(a, b, c, d) ==
  "NODE4" :> a @@ "NODE16" :> b @@ "NODE48" :> c @@ "NODE256" :> d

MCTwoValues == {v1, v2}
MCOneValue == {v1}

(* A node behind three bytes of which it stores two, with up to six        *)
(* children, 0 among them: it passes through every type.  One of its       *)
(* children has a prefix of its own; other keys end within the prefix or   *)
(* leave it at the byte that is not stored.                                *)
WideKeys == {<<1, 1, 1>>, <<1, 1, 1, 1>>} \cup {<<1, 1, 1, b>> : b \in 2 .. 5}
DeepKeys == {<<1, 1, 1, 1, 1, 1, 1>>, <<1, 1, 1, 1, 1, 1, 2>>}
EarlyKeys == {<<1>>, <<1, 1, 2, 2>>}
TreeKeys == WideKeys \cup DeepKeys \cup EarlyKeys
TreeCapacity == Node(3, 4, 5, 16)
TreeShrink == Node(1, 2, 3, 4)
TreeRefs == 0 .. 20

(* Two keys behind a node with bytes of its own, and one that leaves those *)
(* of the node above it halfway.                                           *)
ForkKeys == {<<1, 1, 1>>, <<1, 1, 2, 1, 1>>, <<1, 1, 2, 1, 2>>, <<1, 2, 2, 1>>}
ForkRefs == 0 .. 7

(* What follows a key: the terminator of a string and then more of it, or  *)
(* other bytes.                                                            *)
Terminated == {[i \in 1 .. 8 |-> IF i = 1 THEN 0 ELSE b] : b \in 0 .. 1}

(* No step depends on the last call or what it returned, on which places   *)
(* the nodes are in or on the values in the leaves: states that differ in  *)
(* these alone are checked, and explored once.                             *)
RECURSIVE Tree(_)
Tree(r) ==
  LET n == nodes[r]
  IN  IF IsInner(n)
      THEN [n EXCEPT !.children =
              [i \in DOMAIN @ |-> <<@[i].byte, Tree(@[i].ref)>>]]
      ELSE IF IS_LEAF(n) THEN n.key ELSE <<>>

MCView == <<Tree(Root), size>>
=============================================================================
