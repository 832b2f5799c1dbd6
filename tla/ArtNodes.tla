------------------------------ MODULE ArtNodes ------------------------------
(***************************************************************************)
(* The nodes of the adaptive radix tree of src/src/art.c, one at a time.   *)
(* A leaf holds a whole key and its value.  An inner node holds the number *)
(* of bytes all its keys share after the bytes that lead to it             *)
(* (partial_len), the first MAX_PREFIX_LEN of them (partial), and for each *)
(* child the byte that leads to it and the place it is in, in the order    *)
(* the code visits them: the order of the arrays of a NODE4 or a NODE16,   *)
(* and by byte for a NODE48 or a NODE256.                                  *)
(*                                                                         *)
(* A key is handed to the code as a buffer and a length, and the code may  *)
(* read the buffer past that length: key is the buffer here too.  depth is *)
(* the number of bytes of it already consumed.                             *)
(***************************************************************************)
EXTENDS Integers, Sequences, FiniteSets, SequencesExt

CONSTANTS
  NBytes,          \* the bytes are 0 .. NBytes - 1 (256 in the code)
  MAX_PREFIX_LEN,  \* how many bytes of a node's prefix it stores (10)
  Capacity,        \* children a node of each type holds (4, 16, 48, 256)
  Shrink,          \* count a removal shrinks a node at (1, 3, 12, 37)
  NoValue          \* the NULL value

Types == {"NODE4", "NODE16", "NODE48", "NODE256"}

Larger  == [NODE4 |-> "NODE16", NODE16 |-> "NODE48", NODE48 |-> "NODE256"]
Smaller == [NODE16 |-> "NODE4", NODE48 |-> "NODE16", NODE256 |-> "NODE48"]

(* A node that has just grown is above the count it shrinks at, and one    *)
(* that has just shrunk has room.                                          *)
ASSUME NodeAssumption ==
  /\ NBytes \in Nat \ {0}
  /\ MAX_PREFIX_LEN \in Nat \ {0}
  /\ Capacity \in [Types -> Nat]
  /\ Shrink \in [Types -> Nat]
  /\ Capacity["NODE4"] >= 2
  /\ Capacity["NODE256"] = NBytes
  /\ Shrink["NODE4"] = 1
  /\ \A t \in DOMAIN Larger : /\ Capacity[t] < Capacity[Larger[t]]
                              /\ Shrink[Larger[t]] <= Capacity[t]
                              /\ Shrink[t] < Shrink[Larger[t]]

Bytes == 0 .. NBytes - 1

NoNode == [type |-> "NULL"]
IS_LEAF(n) == n.type = "LEAF"
IsInner(n) == n.type \in Types
make_leaf(key, key_len, val) ==
  [type |-> "LEAF", key |-> SubSeq(key, 1, key_len), val |-> val]
Child(byte, ref) == [byte |-> byte, ref |-> ref]

(* A leaf is allocated with zeroed padding: the byte after its key is 0.  *)
LeafByte(l, depth) == IF depth < Len(l.key) THEN l.key[depth + 1] ELSE 0

Least(a, b) == IF a < b THEN a ELSE b
First(s, n) == SubSeq(s, 1, Least(n, Len(s)))
Drop(s, n) == SubSeq(s, n + 1, Len(s))

(* How many of the first max elements of two sequences agree. *)
Agreement(s, t, max) ==
  Max({0} \cup {i \in 1 .. max : \A j \in 1 .. i : s[j] = t[j]})

-----------------------------------------------------------------------------
(* Mutant: a NODE16 finds no child that goes behind the new one. *)
PrecedesNone(type, c, d) == type /= "NODE16" /\ c < d

(* NODE16 compares bytes as signed ones where it makes room for a child;   *)
(* where it looks for one it tests equality, as every type does.           *)
Signed(b) == IF b >= NBytes \div 2 THEN b - NBytes ELSE b

Precedes(type, c, d) ==
  IF type = "NODE16" THEN Signed(c) < Signed(d) ELSE c < d

(* The index of the child a byte leads to, or 0. *)
find_child(n, c) == SelectInSeq(n.children, LAMBDA e : e.byte = c)

leaf_matches(l, key, key_len) == l.key = SubSeq(key, 1, key_len)

check_prefix(n, key, key_len, depth) ==
  Agreement(n.partial, Drop(key, depth), Least(Len(n.partial), key_len - depth))

(* Children by byte. *)
ByByte(children) ==
  [i \in 1 .. Len(children) |->
     CHOOSE e \in ToSet(children) :
       Cardinality({d \in ToSet(children) : d.byte <= e.byte}) = i]

(* Mutant: the copy into the other layout leaves the last child behind.    *)
ResizedShort(n, type) == [n EXCEPT !.type = type, !.children = Front(@)]

(* A node of one type laid out for another.  The arrays of NODE48 and      *)
(* NODE256 are indexed by the byte.                                        *)
Resized(n, type) ==
  [n EXCEPT !.type = type,
            !.children = IF type \in {"NODE48", "NODE256"} THEN ByByte(@) ELSE @]

(* The child in its place among the others of the node. *)
Inserted(n, c, ref) ==
  LET i == SelectInSeq(n.children, LAMBDA e : Precedes(n.type, c, e.byte))
  IN  [n EXCEPT !.children = IF i = 0 THEN Append(@, Child(c, ref))
                             ELSE InsertAt(@, i, Child(c, ref))]

(* Mutant: a full node takes one more child before it grows. *)
add_child_late(n, c, ref) ==
  Inserted(IF Len(n.children) <= Capacity[n.type] THEN n
           ELSE Resized(n, Larger[n.type]), c, ref)

(* A full node grows before it takes the child. *)
add_child(n, c, ref) ==
  Inserted(IF Len(n.children) < Capacity[n.type] THEN n
           ELSE Resized(n, Larger[n.type]), c, ref)

-----------------------------------------------------------------------------
(* Mutant: a collapsed node forgets the byte that led to its child. *)
CollapsedShort(n, child) ==
  IF IS_LEAF(child) THEN child
  ELSE [child EXCEPT !.partial_len = n.partial_len + @,
                     !.partial = First(n.partial \o @, MAX_PREFIX_LEN)]

(* A NODE4 with one child gives way to it, and its prefix and the child's  *)
(* byte go in front of the child's prefix.                                 *)
Collapsed(n, child) ==
  IF IS_LEAF(child) THEN child
  ELSE [child EXCEPT
          !.partial_len = n.partial_len + 1 + @,
          !.partial = First(n.partial \o <<n.children[1].byte>> \o @, MAX_PREFIX_LEN)]
=============================================================================
