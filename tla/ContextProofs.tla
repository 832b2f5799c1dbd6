---------------------------- MODULE ContextProofs ----------------------------
(***************************************************************************)
(* Theorems about Context, and the hash map and array it is built from,    *)
(* for every set of names, whatever is the beginning of what, every hash   *)
(* function, and caches, arrays and files of every size: what the cache    *)
(* counts, what a write may do to the records, what an open restores, and, *)
(* for names of which none begins another, that Context implements the     *)
(* catalogue.                                                              *)
(***************************************************************************)
EXTENDS Context, FoldLemmas, SequenceTheorems, TLAPS

-----------------------------------------------------------------------------
(* The hash map.  Its count is that of the pairs in its chains.            *)
Maps == [ptr : [Buckets -> Seq(Pairs)], cur_count : Nat]

Lens(ptr) == [b \in Buckets |-> Len(ptr[b])]

MapOK(map) ==
  /\ map \in Maps
  /\ map.cur_count = SumOver(Lens(map.ptr), Buckets)
  /\ map.cur_count <= MaxCount

(* Buckets are finitely many, and every key has one. *)
LEMMA BucketFacts ==
  /\ IsFiniteSet(Buckets) /\ MaxCount \in Nat /\ MaxCount > 0
  /\ \A key \in MapKeys : Bucket[key] \in Buckets
BY HashAssumption

(* The lengths of the chains. *)
LEMMA LensTyped ==
  ASSUME NEW ptr \in [Buckets -> Seq(Pairs)]
  PROVE  Lens(ptr) \in [Buckets -> Nat]
BY LenProperties DEF Lens

(* An empty map is in order. *)
LEMMA EmptyMapOK == MapOK(EmptyMap) /\ EmptyMap \in Maps
<1> DEFINE ptr == [b \in Buckets |-> <<>>]
<1>1. ptr \in [Buckets -> Seq(Pairs)] /\ \A b \in Buckets : Len(ptr[b]) = 0
  BY EmptySeq
<1>2. EmptyMap.ptr = ptr /\ EmptyMap.cur_count = 0 /\ EmptyMap \in Maps
  BY <1>1 DEF EmptyMap, Maps
<1> HIDE DEF ptr
<1>3. \A b \in Buckets : Lens(ptr)[b] = 0
  BY <1>1 DEF Lens
<1>4. SumOver(Lens(ptr), Buckets) = 0
  BY <1>1, <1>3, LensTyped, SumZero, BucketFacts
<1> QED
  BY <1>2, <1>4, BucketFacts DEF MapOK

(* A chain that changes changes the sum of the lengths as much.            *)
LEMMA ChainChange ==
  ASSUME NEW ptr \in [Buckets -> Seq(Pairs)], NEW b \in Buckets, NEW chain \in Seq(Pairs)
  PROVE  /\ [ptr EXCEPT ![b] = chain] \in [Buckets -> Seq(Pairs)]
         /\ SumOver(Lens([ptr EXCEPT ![b] = chain]), Buckets) =
              SumOver(Lens(ptr), Buckets) - Len(ptr[b]) + Len(chain)
         /\ Len(ptr[b]) \in Nat /\ Len(chain) \in Nat
         /\ SumOver(Lens(ptr), Buckets) \in Nat /\ Len(ptr[b]) <= SumOver(Lens(ptr), Buckets)
<1>1. Len(ptr[b]) \in Nat /\ Len(chain) \in Nat
  BY LenProperties
<1> DEFINE new == [ptr EXCEPT ![b] = chain]
<1>2. new \in [Buckets -> Seq(Pairs)] /\ new[b] = chain
      /\ \A c \in Buckets \ {b} : new[c] = ptr[c]
  OBVIOUS
<1> HIDE DEF new
<1>3. /\ Lens(ptr) \in [Buckets -> Nat] /\ Lens(ptr)[b] = Len(ptr[b])
      /\ Lens(new) \in [Buckets -> Nat] /\ Lens(new)[b] = Len(chain)
      /\ \A c \in Buckets \ {b} : Lens(new)[c] = Lens(ptr)[c]
  BY <1>2, LensTyped DEF Lens
<1>4. /\ SumOver(Lens(new), Buckets) =
           SumOver(Lens(ptr), Buckets) - Lens(ptr)[b] + Lens(new)[b]
      /\ SumOver(Lens(ptr), Buckets) \in Nat /\ Lens(ptr)[b] <= SumOver(Lens(ptr), Buckets)
  <2>1. Differ(Lens(ptr), Lens(new), Buckets, b)
    BY <1>3 DEF Differ
  <2> QED
    BY <2>1, BucketFacts, SumChange
<1> QED
  BY <1>1, <1>2, <1>3, <1>4 DEF new

(* hashmap_put keeps the count that of the chains. *)
LEMMA PutOK ==
  ASSUME NEW map \in Maps, NEW key \in MapKeys \cup {<<>>}, NEW val \in MapKeys \cup {<<>>},
         key # <<>> => val # <<>>
  PROVE  /\ hashmap_put(map, key, val) \in Maps
         /\ MapOK(map) => MapOK(hashmap_put(map, key, val))
<1>1. CASE key = <<>> \/ map.cur_count >= MaxCount
  BY <1>1 DEF hashmap_put
<1>2. CASE ~ (key = <<>> \/ map.cur_count >= MaxCount)
  <2> DEFINE b == Bucket[key]
             new == <<member_pair(key, val)>> \o map.ptr[b]
  <2>1. b \in Buckets /\ member_pair(key, val) \in Pairs /\ map.ptr[b] \in Seq(Pairs)
        /\ map.ptr \in [Buckets -> Seq(Pairs)] /\ map.cur_count \in Nat
    BY <1>2, BucketFacts DEF Maps, member_pair, Pairs
  <2>2. <<member_pair(key, val)>> \in Seq(Pairs) /\ Len(<<member_pair(key, val)>>) = 1
    BY <2>1
  <2>3. new \in Seq(Pairs) /\ Len(new) = 1 + Len(map.ptr[b])
    BY <2>1, <2>2, ConcatProperties
  <2>4. hashmap_put(map, key, val) =
          [ptr |-> [map.ptr EXCEPT ![b] = new], cur_count |-> map.cur_count + 1]
    BY <1>2 DEF hashmap_put, hashmap_get_index
  <2> HIDE DEF b, new
  <2>5. /\ [map.ptr EXCEPT ![b] = new] \in [Buckets -> Seq(Pairs)]
        /\ SumOver(Lens([map.ptr EXCEPT ![b] = new]), Buckets) =
             SumOver(Lens(map.ptr), Buckets) + 1
    <3>1. /\ [map.ptr EXCEPT ![b] = new] \in [Buckets -> Seq(Pairs)]
          /\ SumOver(Lens([map.ptr EXCEPT ![b] = new]), Buckets) =
               SumOver(Lens(map.ptr), Buckets) - Len(map.ptr[b]) + Len(new)
          /\ Len(map.ptr[b]) \in Nat /\ SumOver(Lens(map.ptr), Buckets) \in Nat
      BY <2>1, <2>3, ChainChange
    <3> QED
      BY <2>3, <3>1
  <2>6. hashmap_put(map, key, val) \in Maps
    BY <2>1, <2>4, <2>5 DEF Maps
  <2> QED
    BY <1>2, <2>1, <2>4, <2>5, <2>6, BucketFacts DEF MapOK
<1> QED
  BY <1>1, <1>2

(* Where a lookup stops. *)
LEMMA SearchFacts ==
  ASSUME NEW chain \in Seq(Pairs), NEW key
  PROVE  LET i == hashmap_search(chain, key) IN
         /\ i \in 0 .. Len(chain)
         /\ i # 0 => IsPrefix(key, chain[i].key)
         /\ i = 0 => \A j \in 1 .. Len(chain) : ~ IsPrefix(key, chain[j].key)
<1> DEFINE I == {j \in 1 .. Len(chain) : IsPrefix(key, chain[j].key)}
<1>1. hashmap_search(chain, key) = IF I # {} THEN Min(I) ELSE 0
  BY DEF hashmap_search, SelectInSeq
<1>2. Len(chain) \in Nat
  BY LenProperties
<1>3. ASSUME I # {} PROVE Min(I) \in I
  <2>1. I \subseteq Nat
    BY <1>2
  <2>2. \E n \in I : \A m \in I : n <= m
    <3> HIDE DEF I
    <3> QED
      BY <1>3, <2>1, LeastNat
  <2> QED
    BY <2>2 DEF Min
<1> QED
  BY <1>1, <1>2, <1>3

(* Removing an element of a sequence takes that one only. *)
LEMMA RemoveFacts ==
  ASSUME NEW T, NEW s \in Seq(T), NEW i \in 1 .. Len(s)
  PROVE  /\ RemoveAt(s, i) \in Seq(T)
         /\ Len(RemoveAt(s, i)) = Len(s) - 1
         /\ \A j \in 1 .. Len(s) :
              j # i => \E k \in 1 .. Len(RemoveAt(s, i)) : RemoveAt(s, i)[k] = s[j]
<1> DEFINE front == SubSeq(s, 1, i - 1)
           back == SubSeq(s, i + 1, Len(s))
<1>1. Len(s) \in Nat /\ \A j \in 1 .. Len(s) : s[j] \in T
  BY LenProperties, ElementOfSeq
<1>2. /\ front \in Seq(T) /\ Len(front) = i - 1
      /\ \A j \in 1 .. (i - 1) : front[j] = s[j]
  BY <1>1, SubSeqProperties
<1>3. /\ back \in Seq(T) /\ Len(back) = Len(s) - i
      /\ \A j \in 1 .. (Len(s) - i) : back[j] = s[i + j]
  <2>1. \A j \in (i + 1) .. Len(s) : s[j] \in T
    BY <1>1
  <2>2. /\ back \in Seq(T)
        /\ Len(back) = IF i + 1 <= Len(s) THEN Len(s) - (i + 1) + 1 ELSE 0
        /\ \A j \in 1 .. (Len(s) - (i + 1) + 1) : back[j] = s[(i + 1) + j - 1]
    BY <1>1, <2>1, SubSeqProperties
  <2> QED
    BY <1>1, <2>2
<1>4. RemoveAt(s, i) = front \o back
  BY DEF RemoveAt
<1> HIDE DEF front, back
<1>5. /\ front \o back \in Seq(T)
      /\ Len(front \o back) = Len(s) - 1
      /\ \A j \in 1 .. (Len(s) - 1) :
           (front \o back)[j] = IF j <= i - 1 THEN front[j] ELSE back[j - (i - 1)]
  <2>1. /\ front \o back \in Seq(T)
        /\ Len(front \o back) = Len(front) + Len(back)
        /\ \A j \in 1 .. (Len(front) + Len(back)) :
             (front \o back)[j] = IF j <= Len(front) THEN front[j]
                                                     ELSE back[j - Len(front)]
    BY <1>2, <1>3, ConcatProperties
  <2>2. Len(front) + Len(back) = Len(s) - 1
    BY <1>1, <1>2, <1>3
  <2> QED
    BY <1>2, <2>1, <2>2
<1>6. ASSUME NEW j \in 1 .. Len(s), j # i
      PROVE  \E k \in 1 .. (Len(s) - 1) : (front \o back)[k] = s[j]
  <2>1. CASE j < i
    <3>1. j \in 1 .. (Len(s) - 1) /\ j <= i - 1 /\ j \in 1 .. (i - 1)
      BY <1>1, <2>1
    <3> QED
      BY <1>2, <1>5, <3>1
  <2>2. CASE j > i
    <3>1. /\ j - 1 \in 1 .. (Len(s) - 1) /\ ~ (j - 1 <= i - 1)
          /\ (j - 1) - (i - 1) = j - i /\ j - i \in 1 .. (Len(s) - i) /\ i + (j - i) = j
      BY <1>1, <2>2
    <3>2. (front \o back)[j - 1] = back[j - i]
      BY <1>5, <3>1
    <3> QED
      BY <1>3, <3>1, <3>2
  <2>3. j < i \/ j > i
    BY <1>1, <1>6
  <2> QED
    BY <2>1, <2>2, <2>3
<1> QED
  BY <1>4, <1>5, <1>6

(* hashmap_del keeps the count that of the chains. *)
LEMMA DelOK ==
  ASSUME NEW map, MapOK(map), NEW key \in MapKeys
  PROVE  MapOK(hashmap_del(map, key))
<1> DEFINE b == Bucket[key]
           i == hashmap_search(map.ptr[b], key)
           new == RemoveAt(map.ptr[b], i)
<1>1. b \in Buckets /\ map.ptr[b] \in Seq(Pairs) /\ map.ptr \in [Buckets -> Seq(Pairs)]
      /\ map.cur_count \in Nat
  BY BucketFacts DEF MapOK, Maps
<1>2. i \in 0 .. Len(map.ptr[b])
  BY <1>1, SearchFacts
<1>3. hashmap_del(map, key) =
        IF i = 0 THEN map
        ELSE [ptr |-> [map.ptr EXCEPT ![b] = new], cur_count |-> map.cur_count - 1]
  BY DEF hashmap_del, hashmap_get_index
<1>4. CASE i = 0
  BY <1>3, <1>4
<1>5. CASE i # 0
  <2>1. i \in 1 .. Len(map.ptr[b]) /\ Len(map.ptr[b]) \in Nat
    BY <1>1, <1>2, <1>5, LenProperties
  <2>2. new \in Seq(Pairs) /\ Len(new) = Len(map.ptr[b]) - 1
    BY <1>1, <2>1, RemoveFacts
  <2> HIDE DEF b, i, new
  <2>3. /\ [map.ptr EXCEPT ![b] = new] \in [Buckets -> Seq(Pairs)]
        /\ SumOver(Lens([map.ptr EXCEPT ![b] = new]), Buckets) = SumOver(Lens(map.ptr), Buckets) - 1
        /\ SumOver(Lens(map.ptr), Buckets) \in Nat
        /\ Len(map.ptr[b]) <= SumOver(Lens(map.ptr), Buckets)
    <3>1. /\ [map.ptr EXCEPT ![b] = new] \in [Buckets -> Seq(Pairs)]
          /\ SumOver(Lens([map.ptr EXCEPT ![b] = new]), Buckets) =
               SumOver(Lens(map.ptr), Buckets) - Len(map.ptr[b]) + Len(new)
          /\ SumOver(Lens(map.ptr), Buckets) \in Nat
          /\ Len(map.ptr[b]) <= SumOver(Lens(map.ptr), Buckets)
      BY <1>1, <2>2, ChainChange
    <3> QED
      BY <2>1, <2>2, <3>1
  <2>4. map.cur_count = SumOver(Lens(map.ptr), Buckets) /\ map.cur_count <= MaxCount
    BY DEF MapOK
  <2>5. map.cur_count - 1 \in Nat /\ map.cur_count - 1 <= MaxCount
    BY <1>1, <2>1, <2>3, <2>4, BucketFacts
  <2>6. hashmap_del(map, key) =
          [ptr |-> [map.ptr EXCEPT ![b] = new], cur_count |-> map.cur_count - 1]
    BY <1>3, <1>5
  <2> QED
    BY <2>3, <2>4, <2>5, <2>6 DEF MapOK, Maps
<1> QED
  BY <1>4, <1>5

(* The count as the property writes it is the sum of these proofs. *)
LEMMA CountIs ==
  ASSUME NEW ptr \in [Buckets -> Seq(Pairs)]
  PROVE  FoldFunction(LAMBDA chain, n : Len(chain) + n, 0, ptr) = SumOver(Lens(ptr), Buckets)
<1> DEFINE S == DOMAIN ptr
           D(h) == h = [s \in SUBSET S |-> IF s = {} THEN 0
                                            ELSE Len(ptr[AnyOf(s)]) + h[s \ {AnyOf(s)}]]
           c == CHOOSE h : D(h)
<1>1. FoldFunction(LAMBDA chain, n : Len(chain) + n, 0, ptr) = c[S]
  BY DEF FoldFunction, FoldFunctionOnSet, MapThenFoldSet, AnyOf
<1>2. S = Buckets /\ IsFiniteSet(S) /\ Lens(ptr) \in [S -> Nat]
  BY LensTyped, BucketFacts
<1> HIDE DEF S
<1>3. \A h : D(h) <=> IsSum(h, Lens(ptr), S)
  <2>1. \A s \in SUBSET S : s # {} => Len(ptr[AnyOf(s)]) = Lens(ptr)[AnyOf(s)]
    BY <1>2, AnyMember DEF Lens
  <2> QED
    BY <2>1 DEF IsSum
<1>4. D(c)
  <2> HIDE DEF D
  <2>1. \E h : D(h)
    BY <1>2, <1>3, SumExists
  <2> QED
    BY <2>1, Zenon
<1> HIDE DEF c, D
<1>5. SumOver(Lens(ptr), S) = c[S]
  BY <1>2, <1>3, <1>4, SumIs
<1> QED
  BY <1>1, <1>2, <1>5

-----------------------------------------------------------------------------
(* The array takes what there is room for: where it might have grown, the  *)
(* index is refused.                                                       *)
Strings == MapKeys \cup {<<>>}
Arrays == [ptr : Seq(Strings), auto_expand : {TRUE}, max_count : Nat]

(* array_push_back appends, as long as there is room. *)
LEMMA PushBack ==
  ASSUME NEW arr \in Arrays, NEW string \in Strings
  PROVE  /\ array_push_back(arr, string) \in Arrays
         /\ array_push_back(arr, string).max_count = arr.max_count
         /\ array_push_back(arr, string).ptr =
              IF Len(arr.ptr) >= arr.max_count THEN arr.ptr ELSE Append(arr.ptr, string)
<1>1. /\ arr.ptr \in Seq(Strings) /\ Len(arr.ptr) \in Nat /\ arr.max_count \in Nat
      /\ arr = [ptr |-> arr.ptr, auto_expand |-> arr.auto_expand,
                max_count |-> arr.max_count]
      /\ arr.auto_expand = TRUE
  BY LenProperties DEF Arrays
<1>2. CASE Len(arr.ptr) >= arr.max_count
  BY <1>2 DEF array_push_back, array_add, array_len
<1>3. CASE ~ (Len(arr.ptr) >= arr.max_count)
  <2>1. array_push_back(arr, string) = [arr EXCEPT !.ptr = Append(arr.ptr, string)]
    BY <1>1, <1>3 DEF array_push_back, array_add, array_len
  <2>2. Append(arr.ptr, string) \in Seq(Strings)
    BY <1>1, AppendProperties
  <2> QED
    BY <1>1, <1>3, <2>1, <2>2 DEF Arrays
<1> QED
  BY <1>2, <1>3

(* What an array of this capacity holds after these were pushed. *)
Collected(names) == FoldLeft(array_push_back, array_init(ArrayCount, TRUE), names)
Capacity == array_init(ArrayCount, TRUE).max_count

(* The array of a reload, before anything is pushed. *)
LEMMA ArrayInitFacts ==
  /\ array_init(ArrayCount, TRUE) \in Arrays
  /\ array_init(ArrayCount, TRUE).ptr = <<>>
  /\ Capacity \in Nat /\ Capacity > 0
<1>1. array_init(ArrayCount, TRUE).ptr = <<>> /\ Capacity \in Nat /\ Capacity > 0
  BY ArrayAssumption, ContextAssumption DEF array_init, Capacity
<1>2. <<>> \in Seq(Strings)
  BY EmptySeq
<1> QED
  BY <1>1, <1>2 DEF array_init, Arrays, Capacity

(* What the array holds of the names pushed: as many of the first as fit. *)
LEMMA ArrayLoad ==
  ASSUME NEW names \in Seq(Strings)
  PROVE  LET ptr == Collected(names).ptr IN
         /\ ptr \in Seq(Strings)
         /\ Len(ptr) = IF Len(names) <= Capacity THEN Len(names) ELSE Capacity
         /\ \A i \in 1 .. Len(ptr) : ptr[i] = names[i]
<1> DEFINE n == Len(names)
           S == DOMAIN names
           init == array_init(ArrayCount, TRUE)
           D(h) == h = [s \in SUBSET S |->
                          IF s = {} THEN init
                          ELSE array_push_back(h[s \ {Max(s)}], names[Max(s)])]
           c == CHOOSE h : D(h)
<1>1. Collected(names) = c[S]
  BY DEF Collected, FoldLeft, MapThenFoldSet
<1>2. n \in Nat /\ S = 1 .. n /\ \A i \in 1 .. n : names[i] \in Strings
  BY LenProperties, ElementOfSeq
<1> HIDE DEF n, S
<1>3. init \in Arrays /\ init.ptr = <<>> /\ init.max_count = Capacity /\ Capacity \in Nat
  BY ArrayInitFacts DEF Capacity
<1> HIDE DEF init
<1>4. \E h : D(h)
  <2> DEFINE step == [p \in (1 .. n) \X Arrays |-> array_push_back(p[2], names[p[1]])]
  <2>1. step \in [(1 .. n) \X Arrays -> Arrays]
    BY <1>2, PushBack
  <2>2. \A i \in 1 .. n, arr \in Arrays : step[i, arr] = array_push_back(arr, names[i])
    OBVIOUS
  <2> HIDE DEF step
  <2>3. PICK g \in [SUBSET (1 .. n) -> Arrays] : IsRun(g, n, init, step)
    <3>1. n \in Nat /\ init \in Arrays
      BY <1>2, <1>3
    <3> HIDE DEF D
    <3> QED
      BY <2>1, <3>1, RunExists
  <2>4. \A s \in SUBSET (1 .. n) :
          g[s] = IF s = {} THEN init
                 ELSE array_push_back(g[s \ {Max(s)}], names[Max(s)])
    BY <1>2, <2>2, <2>3, LastOf DEF IsRun
  <2>5. g = [s \in SUBSET S |-> IF s = {} THEN init
                                ELSE array_push_back(g[s \ {Max(s)}], names[Max(s)])]
    BY <1>2, <2>4
  <2> QED
    BY <2>5
<1>5. D(c)
  <2> HIDE DEF D
  <2> QED
    BY <1>4, Zenon
<1> HIDE DEF c
<1>6. /\ c[1 .. 0] = init
      /\ \A k \in 1 .. n : c[1 .. k] = array_push_back(c[1 .. (k - 1)], names[k])
  <2>1. c[1 .. 0] = init
    BY <1>2, <1>5
  <2>2. ASSUME NEW k \in 1 .. n
        PROVE  c[1 .. k] = array_push_back(c[1 .. (k - 1)], names[k])
    <3>1. 1 .. k \in SUBSET S /\ 1 .. k # {}
      <4>1. 1 \in 1 .. k
        BY <1>2
      <4>2. 1 .. k \subseteq 1 .. n
        BY <1>2
      <4> QED
        BY <1>2, <4>1, <4>2
    <3>2. Max(1 .. k) = k /\ (1 .. k) \ {k} = 1 .. (k - 1)
      BY <1>2, LastOf
    <3> QED
      BY <1>5, <3>1, <3>2
  <2> QED
    BY <2>1, <2>2
<1> HIDE DEF D
<1> DEFINE Room(k) == IF k <= Capacity THEN k ELSE Capacity
           T == {k \in Nat : k <= n =>
                   /\ c[1 .. k] \in Arrays /\ c[1 .. k].max_count = Capacity
                   /\ Len(c[1 .. k].ptr) = Room(k)
                   /\ \A i \in 1 .. Room(k) : c[1 .. k].ptr[i] = names[i]}
<1>7. 0 \in T
  <2>1. Len(init.ptr) = 0
    BY <1>3
  <2> QED
    BY <1>3, <1>6, <2>1
<1>8. ASSUME NEW k \in Nat, k \in T PROVE k + 1 \in T
  <2> SUFFICES ASSUME k + 1 <= n
      PROVE  /\ c[1 .. (k + 1)] \in Arrays /\ c[1 .. (k + 1)].max_count = Capacity
             /\ Len(c[1 .. (k + 1)].ptr) = Room(k + 1)
             /\ \A i \in 1 .. Room(k + 1) : c[1 .. (k + 1)].ptr[i] = names[i]
    OBVIOUS
  <2> DEFINE a == c[1 .. k]
             b == c[1 .. (k + 1)]
  <2>1. /\ a \in Arrays /\ a.max_count = Capacity /\ Len(a.ptr) = Room(k)
        /\ \A i \in 1 .. Room(k) : a.ptr[i] = names[i]
    BY <1>2, <1>8
  <2>2. b = array_push_back(a, names[k + 1]) /\ names[k + 1] \in Strings
    <3>1. k + 1 \in 1 .. n /\ (k + 1) - 1 = k
      BY <1>2
    <3> QED
      BY <1>2, <1>6, <3>1
  <2> HIDE DEF a, b, T
  <2>3. /\ b \in Arrays /\ b.max_count = Capacity
        /\ b.ptr = IF Room(k) >= Capacity THEN a.ptr ELSE Append(a.ptr, names[k + 1])
    BY <2>1, <2>2, PushBack
  <2>4. CASE Room(k) >= Capacity
    <3>1. Room(k + 1) = Room(k)
      BY <1>3, <2>4
    <3> QED
      BY <2>1, <2>3, <2>4, <3>1 DEF b
  <2>5. CASE ~ (Room(k) >= Capacity)
    <3>1. Room(k) = k /\ Room(k + 1) = k + 1
      BY <1>3, <2>5
    <3>2. a.ptr \in Seq(Strings) /\ b.ptr = Append(a.ptr, names[k + 1])
      BY <2>1, <2>3, <2>5 DEF Arrays
    <3>3. /\ Len(b.ptr) = k + 1 /\ b.ptr[k + 1] = names[k + 1]
          /\ \A i \in 1 .. k : b.ptr[i] = a.ptr[i]
      BY <2>1, <2>2, <3>1, <3>2, AppendProperties
    <3> HIDE DEF Room
    <3>4. \A i \in 1 .. (k + 1) : b.ptr[i] = names[i]
      BY <2>1, <3>1, <3>3
    <3> QED
      BY <2>3, <3>1, <3>3, <3>4 DEF b
  <2> QED
    BY <2>4, <2>5
<1>9. n \in T
  <2> HIDE DEF T
  <2>1. \A k \in Nat : k \in T
    BY <1>7, <1>8, SetInduction
  <2> QED
    BY <1>2, <2>1
<1>10. /\ c[S] \in Arrays
       /\ Len(c[S].ptr) = Room(n) /\ \A i \in 1 .. Room(n) : c[S].ptr[i] = names[i]
  BY <1>2, <1>9
<1> QED
  BY <1>1, <1>10 DEF Arrays, n

-----------------------------------------------------------------------------
(* The cache of an open: one put after the other.                          *)
Filled(arr, map) ==
  FoldLeft(LAMBDA m, i : LET s == array_value(arr, i, NotFound) IN hashmap_put(m, s, s),
           map, [i \in 1 .. array_len(arr) |-> i - 1])

(* The cache after a reload is reached by one put per element of the       *)
(* array.                                                                  *)
LEMMA CacheRun ==
  ASSUME NEW arr, arr.ptr \in Seq(Strings), NEW map \in Maps
  PROVE  \E run \in [0 .. Len(arr.ptr) -> Maps] :
           /\ run[0] = map
           /\ \A k \in 1 .. Len(arr.ptr) :
                run[k] = hashmap_put(run[k - 1], arr.ptr[k], arr.ptr[k])
           /\ Filled(arr, map) = run[Len(arr.ptr)]
<1> DEFINE n == Len(arr.ptr)
           seq == [i \in 1 .. array_len(arr) |-> i - 1]
           value(i) == array_value(arr, i, NotFound)
           S == DOMAIN seq
           D(h) == h = [s \in SUBSET S |->
                          IF s = {} THEN map
                          ELSE hashmap_put(h[s \ {Max(s)}],
                                           value(seq[Max(s)]), value(seq[Max(s)]))]
           c == CHOOSE h : D(h)
<1>1. Filled(arr, map) = c[S]
  BY DEF Filled, FoldLeft, MapThenFoldSet
<1>2. /\ n \in Nat /\ S = 1 .. n
      /\ \A i \in 1 .. n : value(seq[i]) = arr.ptr[i] /\ arr.ptr[i] \in Strings
  <2>1. n \in Nat /\ array_len(arr) = n /\ \A i \in 1 .. n : arr.ptr[i] \in Strings
    BY LenProperties, ElementOfSeq DEF array_len
  <2>2. ASSUME NEW i \in 1 .. n PROVE value(seq[i]) = arr.ptr[i]
    <3>1. seq[i] = i - 1 /\ i - 1 < n /\ (i - 1) + 1 = i
      BY <2>1
    <3> QED
      BY <2>1, <3>1 DEF array_value
  <2> QED
    BY <2>1, <2>2
<1> HIDE DEF n, S, seq, value
<1>3. \A m \in Maps, i \in 1 .. n : hashmap_put(m, arr.ptr[i], arr.ptr[i]) \in Maps
  BY <1>2, PutOK DEF Strings
<1>4. \E h : D(h)
  <2> DEFINE step == [p \in (1 .. n) \X Maps |->
                        hashmap_put(p[2], arr.ptr[p[1]], arr.ptr[p[1]])]
  <2>1. step \in [(1 .. n) \X Maps -> Maps]
    BY <1>3
  <2>2. \A i \in 1 .. n, m \in Maps : step[i, m] = hashmap_put(m, arr.ptr[i], arr.ptr[i])
    OBVIOUS
  <2> HIDE DEF step
  <2>3. PICK g \in [SUBSET (1 .. n) -> Maps] : IsRun(g, n, map, step)
    <3>1. n \in Nat
      BY <1>2
    <3> HIDE DEF D
    <3> QED
      BY <2>1, <3>1, RunExists
  <2>4. \A s \in SUBSET (1 .. n) :
          g[s] = IF s = {} THEN map
                 ELSE hashmap_put(g[s \ {Max(s)}], value(seq[Max(s)]), value(seq[Max(s)]))
    <3> HIDE DEF D
    <3> SUFFICES ASSUME NEW s \in SUBSET (1 .. n)
                 PROVE  g[s] = IF s = {} THEN map
                               ELSE hashmap_put(g[s \ {Max(s)}], value(seq[Max(s)]),
                                                value(seq[Max(s)]))
      OBVIOUS
    <3>1. g[s] = IF s = {} THEN map ELSE step[Max(s), g[s \ {Max(s)}]]
      BY <2>3 DEF IsRun
    <3>2. CASE s = {}
      BY <3>1, <3>2
    <3>3. CASE s # {}
      <4>1. Max(s) \in 1 .. n /\ s \ {Max(s)} \in SUBSET (1 .. n)
        BY <1>2, <3>3, LastOf
      <4>2. g[s \ {Max(s)}] \in Maps
        BY <4>1
      <4>3. step[Max(s), g[s \ {Max(s)}]] =
              hashmap_put(g[s \ {Max(s)}], arr.ptr[Max(s)], arr.ptr[Max(s)])
        BY <2>2, <4>1, <4>2
      <4> QED
        BY <1>2, <3>1, <3>3, <4>1, <4>3
    <3> QED
      BY <3>2, <3>3
  <2>5. D(g)
    BY <1>2, <2>4
  <2> QED
    BY <2>5
<1>5. D(c)
  <2> HIDE DEF D
  <2> QED
    BY <1>4, Zenon
<1> HIDE DEF c
<1>6. c[1 .. 0] = map
  BY <1>2, <1>5
<1>7. ASSUME NEW k \in 1 .. n
      PROVE  c[1 .. k] = hashmap_put(c[1 .. (k - 1)], arr.ptr[k], arr.ptr[k])
  <2>1. 1 .. k \in SUBSET S /\ 1 .. k # {}
    <3>1. 1 \in 1 .. k
      BY <1>2
    <3>2. 1 .. k \subseteq 1 .. n
      BY <1>2
    <3> QED
      BY <1>2, <3>1, <3>2
  <2>2. Max(1 .. k) = k /\ (1 .. k) \ {k} = 1 .. (k - 1)
    BY <1>2, LastOf
  <2>3. c[1 .. k] = hashmap_put(c[1 .. (k - 1)], value(seq[k]), value(seq[k]))
    BY <1>5, <2>1, <2>2
  <2> QED
    BY <1>2, <2>3
<1> HIDE DEF D
<1> DEFINE T == {k \in Nat : k <= n => c[1 .. k] \in Maps}
<1>8. \A k \in Nat : k \in T
  <2>1. 0 \in T
    BY <1>6
  <2>2. ASSUME NEW k \in Nat, k \in T PROVE k + 1 \in T
    <3> SUFFICES ASSUME k + 1 <= n PROVE c[1 .. (k + 1)] \in Maps
      OBVIOUS
    <3>1. k + 1 \in 1 .. n /\ (k + 1) - 1 = k /\ c[1 .. k] \in Maps
      BY <1>2, <2>2
    <3>2. c[1 .. (k + 1)] = hashmap_put(c[1 .. k], arr.ptr[k + 1], arr.ptr[k + 1])
      BY <1>7, <3>1
    <3> QED
      BY <1>3, <3>1, <3>2
  <2> HIDE DEF T
  <2> QED
    BY <2>1, <2>2, SetInduction
<1> DEFINE run == [k \in 0 .. n |-> c[1 .. k]]
<1>9. run \in [0 .. n -> Maps]
  BY <1>2, <1>8
<1>10. run[0] = map /\ run[n] = c[S]
  BY <1>2, <1>6
<1>11. \A k \in 1 .. n : run[k] = hashmap_put(run[k - 1], arr.ptr[k], arr.ptr[k])
  BY <1>2, <1>7
<1> HIDE DEF run
<1> QED
  BY <1>1, <1>9, <1>10, <1>11 DEF n

-----------------------------------------------------------------------------
(* The meta file, and what a reload makes of it.                           *)
Records == [name : Names, kept : -1 .. NameSize]

(* Names are strings that fit into a record. *)
LEMMA NameFacts ==
  /\ Names \subseteq MapKeys /\ Names \subseteq Strings /\ Meta \in MapKeys
  /\ Meta \in Strings /\ Meta \notin Names /\ Misnames \subseteq Strings
  /\ MapKeys \subseteq Strings
  /\ NameSize \in Nat /\ MetaPerFile \in Nat /\ MetaPerFile > 0 /\ MaxTears \in Nat
BY ContextAssumption DEF Strings

(* Their lengths, and that none is empty. *)
LEMMA NameLengths ==
  \A n \in Names \cup {Meta} : Len(n) \in Nat /\ Len(n) < NameSize /\ n # <<>>
<1> SUFFICES ASSUME NEW n \in Names \cup {Meta}
             PROVE  Len(n) \in Nat /\ Len(n) < NameSize /\ n # <<>>
  OBVIOUS
<1>1. Len(n) \in 1 .. (NameSize - 1) /\ NameSize \in Nat
  BY ContextAssumption
<1>2. Len(<<>>) = 0
  BY EmptySeq
<1> QED
  BY <1>1, <1>2

(* FirstTorn is the first record that is torn, or 0. *)
LEMMA FirstTornFacts ==
  ASSUME meta_records \in Seq(Records)
  PROVE  /\ FirstTorn \in 0 .. Len(meta_records)
         /\ FirstTorn = 0 => \A i \in 1 .. Len(meta_records) : ~ IsTorn(meta_records[i])
         /\ FirstTorn # 0 => IsTorn(meta_records[FirstTorn])
<1> DEFINE I == {i \in 1 .. Len(meta_records) : IsTorn(meta_records[i])}
<1>1. FirstTorn = IF I # {} THEN Min(I) ELSE 0
  BY DEF FirstTorn, SelectInSeq
<1>2. Len(meta_records) \in Nat
  BY LenProperties
<1>3. ASSUME I # {} PROVE Min(I) \in I
  <2>1. I \subseteq Nat
    BY <1>2
  <2>2. \E n \in I : \A m \in I : n <= m
    <3> HIDE DEF I
    <3> QED
      BY <1>3, <2>1, LeastNat
  <2> QED
    BY <2>2 DEF Min
<1> QED
  BY <1>1, <1>2, <1>3

(* Untorn are the names of the records before it. *)
LEMMA UntornFacts ==
  ASSUME meta_records \in Seq(Records)
  PROVE  /\ Untorn \in Seq(Names)
         /\ Len(Untorn) = IF FirstTorn = 0 THEN Len(meta_records) ELSE FirstTorn - 1
         /\ \A i \in 1 .. Len(Untorn) :
              i \in 1 .. Len(meta_records) /\ Untorn[i] = meta_records[i].name
<1> DEFINE last == IF FirstTorn = 0 THEN Len(meta_records) ELSE FirstTorn - 1
<1>1. Len(meta_records) \in Nat /\ last \in Nat /\ last <= Len(meta_records)
  BY LenProperties, FirstTornFacts
<1>2. \A i \in 1 .. last : meta_records[i] \in Records
  BY <1>1, ElementOfSeq
<1>3. Untorn = [i \in 1 .. last |-> meta_records[i].name]
  BY DEF Untorn
<1>4. Untorn \in [1 .. last -> Names]
  BY <1>2, <1>3 DEF Records
<1> HIDE DEF last
<1>5. Untorn \in Seq(Names)
  BY <1>1, <1>4, SeqDef
<1>6. Len(Untorn) = last
  BY <1>1, <1>4, <1>5, LenProperties
<1> QED
  BY <1>1, <1>3, <1>5, <1>6 DEF last

(* What is misread are strings. *)
LEMMA MisreadFacts ==
  ASSUME NEW blocks \in Nat
  PROVE  Misread(blocks) \subseteq Seq(Strings)
<1> SUFFICES ASSUME NEW m \in 0 .. blocks, NEW s \in [1 .. m -> Misnames]
             PROVE  s \in Seq(Strings)
  BY DEF Misread, SeqOf
<1>1. s \in [1 .. m -> Strings] /\ m \in Nat
  BY NameFacts
<1> QED
  BY <1>1, SeqDef

(* Whatever is made of the records from the first torn one on, it comes    *)
(* behind the names of those before it.                                    *)
LEMMA LoadedFacts ==
  ASSUME meta_records \in Seq(Records), NEW names \in Loaded
  PROVE  /\ names \in Seq(Strings)
         /\ Len(Untorn) <= Len(names)
         /\ \A i \in 1 .. Len(Untorn) : names[i] = Untorn[i]
<1>1. Untorn \in Seq(Names) /\ Untorn \in Seq(Strings) /\ Len(Untorn) \in Nat
  BY UntornFacts, NameFacts, SeqMonotonic, LenProperties
<1>2. CASE FirstTorn = 0
  BY <1>1, <1>2 DEF Loaded
<1>3. CASE FirstTorn # 0
  <2> DEFINE r == meta_records[FirstTorn]
             behind == Len(meta_records) - FirstTorn
             previous == IF Untorn = <<>> THEN <<>> ELSE Last(Untorn)
             rest == IF behind = 0
                     THEN IF r.kept < 0 /\ Untorn = <<>> THEN {<<>>}
                          ELSE {<<NameOver(r, previous)>>}
                     ELSE IF r.kept > Len(r.name)
                     THEN {<<r.name>> \o s : s \in Misread(behind)}
                     ELSE Misread(behind + 1)
  <2>1. PICK s \in rest : names = Untorn \o s
    BY <1>3 DEF Loaded
  <2>2. FirstTorn \in 1 .. Len(meta_records) /\ behind \in Nat /\ r \in Records
    <3>1. Len(meta_records) \in Nat
      BY LenProperties
    <3>2. FirstTorn \in 1 .. Len(meta_records)
      BY <1>3, <3>1, FirstTornFacts
    <3> QED
      BY <3>1, <3>2, ElementOfSeq
  <2>3. <<>> \in Seq(Strings)
    BY EmptySeq
  <2>4. <<NameOver(r, previous)>> \in Seq(Strings)
    <3>1. previous \in Names \cup {<<>>}
      <4>1. ASSUME Untorn # <<>> PROVE Untorn[Len(Untorn)] \in Names
        <5>1. Len(Untorn) \in Nat \ {0}
          BY <1>1, <4>1, EmptySeq
        <5> QED
          BY <1>1, <5>1, ElementOfSeq
      <4> QED
        BY <4>1 DEF Last
    <3>2. r = schema_meta(r.name, r.kept) /\ r.name \in Names /\ r.kept \in -1 .. NameSize
      BY <2>2 DEF Records, schema_meta
    <3> HIDE DEF r, previous
    <3>3. NameOver(schema_meta(r.name, r.kept), previous) \in Strings
      BY <3>1, <3>2, NamesOver DEF Strings
    <3>4. NameOver(r, previous) \in Strings
      BY <3>2, <3>3
    <3> QED
      BY <3>4
  <2>5. {<<r.name>> \o t : t \in Misread(behind)} \subseteq Seq(Strings)
    <3>1. <<r.name>> \in Seq(Strings)
      <4>1. r.name \in Strings
        BY <2>2, NameFacts DEF Records
      <4> QED
        BY <4>1
    <3>2. Misread(behind) \subseteq Seq(Strings)
      BY <2>2, MisreadFacts
    <3> HIDE DEF r, behind
    <3> QED
      BY <3>1, <3>2, ConcatProperties
  <2>6. Misread(behind + 1) \subseteq Seq(Strings)
    BY <2>2, MisreadFacts
  <2> HIDE DEF r, behind, previous
  <2>7. s \in Seq(Strings)
    BY <2>1, <2>3, <2>4, <2>5, <2>6
  <2>8. Len(s) \in Nat
    BY <2>7, LenProperties
  <2>9. /\ Untorn \o s \in Seq(Strings)
        /\ Len(Untorn \o s) = Len(Untorn) + Len(s)
        /\ \A i \in 1 .. (Len(Untorn) + Len(s)) :
             (Untorn \o s)[i] = IF i <= Len(Untorn) THEN Untorn[i] ELSE s[i - Len(Untorn)]
    BY <1>1, <2>7, ConcatProperties
  <2>10. Len(Untorn) <= Len(Untorn \o s)
    BY <1>1, <2>8, <2>9
  <2>11. \A i \in 1 .. Len(Untorn) : (Untorn \o s)[i] = Untorn[i]
    <3>1. \A i \in 1 .. Len(Untorn) : i \in 1 .. (Len(Untorn) + Len(s)) /\ i <= Len(Untorn)
      BY <1>1, <2>8
    <3> QED
      BY <2>9, <3>1
  <2> QED
    BY <2>1, <2>9, <2>10, <2>11
<1> QED
  BY <1>2, <1>3

(* What an open puts into the cache, after the meta schema. *)
LEMMA OpenFacts ==
  ASSUME meta_records \in Seq(Records), context_open
  PROVE  \E strings \in Seq(Strings) : \E run \in [0 .. Len(strings) -> Maps] :
           /\ run[0] = hashmap_put(EmptyMap, Meta, Meta)
           /\ \A k \in 1 .. Len(strings) :
                run[k] = hashmap_put(run[k - 1], strings[k], strings[k])
           /\ schema_cache' = run[Len(strings)]
           /\ \A i \in 1 .. Len(Untorn) :
                i <= Capacity => i \in 1 .. Len(strings) /\ strings[i] = Untorn[i]
           /\ FirstTorn = 0 => Len(strings) <= Len(Untorn)
<1> DEFINE first == hashmap_put(EmptyMap, Meta, Meta)
<1>1. PICK names \in Loaded : schema_cache' = Filled(Collected(names), first)
  BY DEF context_open, Filled, Collected
<1>2. /\ names \in Seq(Strings) /\ Len(Untorn) <= Len(names)
      /\ \A i \in 1 .. Len(Untorn) : names[i] = Untorn[i]
  BY LoadedFacts
<1>3. FirstTorn = 0 => names = Untorn
  BY DEF Loaded
<1>4. first \in Maps
  <2>1. Meta \in MapKeys \cup {<<>>} /\ EmptyMap \in Maps
    BY NameFacts, EmptyMapOK
  <2> QED
    BY <2>1, PutOK
<1> DEFINE strings == Collected(names).ptr
<1>5. /\ strings \in Seq(Strings)
      /\ Len(strings) = IF Len(names) <= Capacity THEN Len(names) ELSE Capacity
      /\ \A i \in 1 .. Len(strings) : strings[i] = names[i]
  BY <1>2, ArrayLoad
<1>6. Len(names) \in Nat /\ Len(Untorn) \in Nat /\ Len(strings) \in Nat /\ Capacity \in Nat
  BY <1>2, <1>5, UntornFacts, LenProperties, ArrayInitFacts
<1> HIDE DEF first
<1>7. PICK run \in [0 .. Len(strings) -> Maps] :
        /\ run[0] = first
        /\ \A k \in 1 .. Len(strings) : run[k] = hashmap_put(run[k - 1], strings[k], strings[k])
        /\ Filled(Collected(names), first) = run[Len(strings)]
  BY <1>4, <1>5, CacheRun
<1> HIDE DEF strings
<1>8. \A i \in 1 .. Len(Untorn) :
        i <= Capacity => i \in 1 .. Len(strings) /\ strings[i] = Untorn[i]
  BY <1>2, <1>5, <1>6
<1>9. FirstTorn = 0 => Len(strings) <= Len(Untorn)
  BY <1>3, <1>5, <1>6
<1> QED
  BY <1>1, <1>5, <1>7, <1>8, <1>9 DEF first

-----------------------------------------------------------------------------
(* The inductive invariant: the types, and what the count of the cache is. *)
CInv ==
  /\ up \in BOOLEAN
  /\ MapOK(schema_cache)
  /\ meta_records \in Seq(Records)
  /\ meta_rest \in Seq(Names)
  /\ meta_written \in 0 .. MetaPerFile
  /\ tears \in 0 .. MaxTears

(* The invariant holds of an empty database. *)
LEMMA CInvInit == Init => CInv
<1>1. <<>> \in Seq(Records) /\ <<>> \in Seq(Names)
  BY EmptySeq
<1>2. MetaPerFile \in Nat /\ MaxTears \in Nat
  BY NameFacts
<1> SUFFICES ASSUME Init PROVE CInv
  OBVIOUS
<1>3. MapOK(schema_cache)
  BY EmptyMapOK DEF Init
<1>4. up \in BOOLEAN
  BY DEF Init
<1>5. meta_written \in 0 .. MetaPerFile /\ tears \in 0 .. MaxTears
  BY <1>2 DEF Init
<1> QED
  BY <1>1, <1>3, <1>4, <1>5 DEF Init, CInv

(* An open leaves the cache as its puts do. *)
LEMMA OpenCache ==
  ASSUME CInv, context_open
  PROVE  MapOK(schema_cache')
<1>1. PICK strings \in Seq(Strings) : \E run \in [0 .. Len(strings) -> Maps] :
           /\ run[0] = hashmap_put(EmptyMap, Meta, Meta)
           /\ \A k \in 1 .. Len(strings) :
                run[k] = hashmap_put(run[k - 1], strings[k], strings[k])
           /\ schema_cache' = run[Len(strings)]
  BY OpenFacts DEF CInv
<1>2. PICK run \in [0 .. Len(strings) -> Maps] :
           /\ run[0] = hashmap_put(EmptyMap, Meta, Meta)
           /\ \A k \in 1 .. Len(strings) :
                run[k] = hashmap_put(run[k - 1], strings[k], strings[k])
           /\ schema_cache' = run[Len(strings)]
  BY <1>1
<1>3. MapOK(run[0])
  <2>1. Meta \in MapKeys \cup {<<>>} /\ EmptyMap \in Maps /\ MapOK(EmptyMap)
    BY NameFacts, EmptyMapOK
  <2> QED
    BY <1>2, <2>1, PutOK
<1> DEFINE n == Len(strings)
           T == {k \in Nat : k <= n => MapOK(run[k])}
<1>4. n \in Nat /\ \A k \in 1 .. n : strings[k] \in Strings
  BY LenProperties, ElementOfSeq
<1>5. \A k \in Nat : k \in T
  <2>1. 0 \in T
    BY <1>3
  <2>2. ASSUME NEW k \in Nat, k \in T PROVE k + 1 \in T
    <3> SUFFICES ASSUME k + 1 <= n PROVE MapOK(run[k + 1])
      OBVIOUS
    <3>1. k + 1 \in 1 .. n /\ (k + 1) - 1 = k /\ k \in 0 .. n /\ MapOK(run[k])
      BY <1>4, <2>2
    <3>2. run[k + 1] = hashmap_put(run[k], strings[k + 1], strings[k + 1])
      BY <1>2, <3>1
    <3>3. run[k] \in Maps /\ strings[k + 1] \in MapKeys \cup {<<>>}
      BY <1>4, <3>1 DEF Strings
    <3> HIDE DEF T, n
    <3> QED
      BY <3>1, <3>2, <3>3, PutOK
  <2> HIDE DEF T
  <2> QED
    BY <2>1, <2>2, SetInduction
<1>6. MapOK(run[n])
  BY <1>4, <1>5
<1> QED
  BY <1>2, <1>6

(* What a write may leave of a record is no more than one. *)
LEMMA WrittenFacts ==
  ASSUME NEW n \in Names, NEW written \in Remains(n) \cup {<<Whole(n)>>}
  PROVE  written \in Seq(Records)
<1>1. CASE written = <<>>
  BY <1>1, EmptySeq
<1>2. CASE written # <<>>
  <2>1. PICK k \in -1 .. NameSize : written = <<schema_meta(n, k)>>
    <3>1. Len(n) \in Nat /\ Len(n) < NameSize /\ NameSize \in Nat
      BY NameLengths, NameFacts
    <3>2. NameSize \in -1 .. NameSize /\ -1 .. (Len(n) + 1) \subseteq -1 .. NameSize
      BY <3>1
    <3> QED
      BY <1>2, <3>2 DEF Remains, Whole
  <2>2. schema_meta(n, k) \in Records
    BY DEF schema_meta, Records
  <2> QED
    BY <2>1, <2>2
<1> QED
  BY <1>1, <1>2

(* What a step makes of the files. *)
FilesKept ==
  meta_records' \in Seq(Records) /\ meta_rest' \in Seq(Names)

(* One that writes to them counts no more records than fill file 0. *)
LEMMA RecordedKept ==
  ASSUME CInv, NEW n \in Names, NEW written \in Seq(Records), Recorded(n, written)
  PROVE  FilesKept /\ meta_written' \in 0 .. MetaPerFile
<1>1. /\ meta_records \in Seq(Records) /\ meta_rest \in Seq(Names)
      /\ meta_written \in 0 .. MetaPerFile /\ MetaPerFile \in Nat
  BY NameFacts DEF CInv
<1>2. CASE UNCHANGED <<meta_records, meta_rest, meta_written>>
  BY <1>1, <1>2 DEF FilesKept
<1>3. CASE /\ meta_written < MetaPerFile
           /\ meta_records' = meta_records \o written
           /\ meta_written' = meta_written + 1
           /\ UNCHANGED meta_rest
  <2>1. meta_records \o written \in Seq(Records)
    BY <1>1, ConcatProperties
  <2> QED
    BY <1>1, <1>3, <2>1 DEF FilesKept
<1>4. CASE meta_rest' = Append(meta_rest, n) /\ UNCHANGED <<meta_records, meta_written>>
  <2>1. Append(meta_rest, n) \in Seq(Names)
    BY <1>1, AppendProperties
  <2> QED
    BY <1>1, <1>4, <2>1 DEF FilesKept
<1> QED
  BY <1>2, <1>3, <1>4 DEF Recorded

(* The end of a process leaves nothing in memory. *)
LEMMA CInvEnds ==
  ASSUME CInv, NEW why, Ends(why)
  PROVE  up' \in BOOLEAN /\ MapOK(schema_cache') /\ meta_written' \in 0 .. MetaPerFile
<1>1. MapOK(schema_cache')
  BY EmptyMapOK DEF Ends
<1>2. up' \in BOOLEAN
  BY DEF Ends
<1>3. meta_written' \in 0 .. MetaPerFile
  BY NameFacts DEF Ends
<1> QED
  BY <1>1, <1>2, <1>3

(* A create keeps the invariant. *)
LEMMA CInvPut ==
  ASSUME CInv, NEW n \in Names, context_put_schema(n)
  PROVE  CInv'
<1> DEFINE cache == hashmap_put(schema_cache, n, n)
           meta == context_fetch_meta_schema(cache)
<1>1. CASE Found(n) /\ Replies(<<"create", n, "-1">>)
           /\ UNCHANGED <<schema_cache, disk, meta_written>>
  BY <1>1 DEF CInv, Replies, disk
<1>2. CASE meta = NotFound /\ Ends(<<"crash", "create", n>>) /\ UNCHANGED disk
  BY <1>2, CInvEnds DEF CInv, disk
<1>3. CASE /\ schema_cache' = cache /\ Replies(<<"create", n, "0">>)
           /\ \/ UNCHANGED <<disk, meta_written>>
              \/ Recorded(n, <<Whole(n)>>) /\ UNCHANGED tears
              \/ /\ tears < MaxTears
                 /\ \E written \in Remains(n) : Recorded(n, written)
                 /\ tears' = tears + 1
  <2>1. MapOK(schema_cache')
    <3>1. n \in MapKeys \cup {<<>>} /\ schema_cache \in Maps /\ MapOK(schema_cache)
      BY NameFacts DEF CInv, MapOK
    <3>2. MapOK(cache)
      BY <3>1, PutOK
    <3> QED
      BY <1>3, <3>2
  <2> HIDE DEF cache
  <2>2. up' \in BOOLEAN
    BY <1>3 DEF Replies, CInv
  <2>3. tears' \in 0 .. MaxTears
    BY <1>3, NameFacts DEF CInv, disk
  <2>4. FilesKept /\ meta_written' \in 0 .. MetaPerFile
    <3>1. CASE UNCHANGED <<disk, meta_written>>
      BY <3>1 DEF disk, CInv, FilesKept
    <3>2. CASE \E written \in Remains(n) \cup {<<Whole(n)>>} : Recorded(n, written)
      BY <3>2, WrittenFacts, RecordedKept
    <3> QED
      BY <1>3, <3>1, <3>2
  <2> QED
    BY <2>1, <2>2, <2>3, <2>4 DEF CInv, FilesKept
<1> QED
  BY <1>1, <1>2, <1>3 DEF context_put_schema

(* Every step keeps the invariant, and lets the meta file only grow. *)
LEMMA CInvNext ==
  ASSUME CInv, [Next]_vars
  PROVE  CInv'
<1>1. CASE context_open
  <2>1. MapOK(schema_cache')
    BY <1>1, OpenCache
  <2>2. up' \in BOOLEAN
    BY <1>1 DEF context_open
  <2>3. meta_written' \in 0 .. MetaPerFile
    <3>1. meta_written' = 0
      BY <1>1 DEF context_open
    <3> QED
      BY <3>1, NameFacts
  <2>4. UNCHANGED <<meta_records, meta_rest, tears>>
    BY <1>1 DEF context_open, disk
  <2> QED
    BY <2>1, <2>2, <2>3, <2>4 DEF CInv
<1>2. CASE CrashInOpen
  BY <1>2, CInvEnds DEF CrashInOpen, CInv, disk
<1>3. CASE Kill
  BY <1>3, CInvEnds DEF Kill, CInv, disk
<1>4. ASSUME NEW n \in Names, context_put_schema(n) PROVE CInv'
  BY <1>4, CInvPut
<1>5. ASSUME NEW n \in Names, KilledInCreate(n) PROVE CInv'
  <2>1. PICK written \in Remains(n) : meta_records' = meta_records \o written
    BY <1>5 DEF KilledInCreate
  <2>2. meta_records' \in Seq(Records)
    <3>1. written \in Seq(Records) /\ meta_records \in Seq(Records)
      BY WrittenFacts DEF CInv
    <3> QED
      BY <2>1, <3>1, ConcatProperties
  <2>3. meta_rest' \in Seq(Names)
    BY <1>5 DEF KilledInCreate, CInv
  <2>4. tears' \in 0 .. MaxTears
    BY <1>5, NameFacts DEF KilledInCreate, CInv
  <2>5. up' \in BOOLEAN /\ MapOK(schema_cache') /\ meta_written' \in 0 .. MetaPerFile
    BY <1>5, CInvEnds DEF KilledInCreate
  <2> QED
    BY <2>2, <2>3, <2>4, <2>5 DEF CInv
<1>6. ASSUME NEW n \in Names, context_get_schema(n) PROVE CInv'
  BY <1>6, CInvEnds DEF context_get_schema, Replies, CInv, disk
<1>7. ASSUME NEW n \in Names, context_del_schema(n) PROVE CInv'
  <2> DEFINE cache == hashmap_del(schema_cache, n)
  <2>1. CASE /\ schema_cache' = cache /\ Replies(<<"drop", n, "0">>)
             /\ UNCHANGED <<disk, meta_written>>
    <3>1. n \in MapKeys /\ MapOK(schema_cache)
      BY NameFacts DEF CInv
    <3>2. MapOK(cache)
      BY <3>1, DelOK
    <3> HIDE DEF cache
    <3> QED
      BY <2>1, <3>2 DEF Replies, CInv, disk
  <2>2. CASE Ends(<<"crash", "drop", n>>) /\ UNCHANGED disk
    BY <2>2, CInvEnds DEF CInv, disk
  <2> QED
    BY <1>7, <2>1, <2>2 DEF context_del_schema
<1>8. ASSUME NEW n \in Names, bitcask_del(n) PROVE CInv'
  BY <1>8, CInvEnds DEF bitcask_del, Replies, CInv, disk
<1>9. CASE UNCHANGED vars
  BY <1>9 DEF vars, CInv
<1> QED
  BY <1>1, <1>2, <1>3, <1>4, <1>5, <1>6, <1>7, <1>8, <1>9 DEF Next

(* The invariant holds throughout every behaviour. *)
LEMMA CInvAlways == Spec => []CInv
<1>1. Init => CInv
  BY CInvInit
<1>2. CInv /\ [Next]_vars => CInv'
  BY CInvNext
<1> QED
  BY <1>1, <1>2, PTL DEF Spec

(* The cache, the files and the counters keep their types, and no process  *)
(* gives file 0 of the meta schema more records than fill it.              *)
THEOREM ContextTypeCorrect == Spec => []TypeOK
<1>1. CInv => TypeOK
  <2> SUFFICES ASSUME CInv PROVE TypeOK
    OBVIOUS
  <2>1. /\ schema_cache.ptr \in [Buckets -> Seq(Pairs)]
        /\ schema_cache.cur_count \in Nat /\ schema_cache.cur_count <= MaxCount
    BY DEF CInv, MapOK, Maps
  <2>2. schema_cache.cur_count \in 0 .. MaxCount
    BY <2>1, BucketFacts
  <2> QED
    BY <2>1, <2>2 DEF CInv, TypeOK, Records
<1> QED
  BY <1>1, CInvAlways, PTL

(* The count by which a put decides whether the cache is full is the       *)
(* number of the pairs in its chains, whatever was put into it and deleted *)
(* from it, and whichever of them lookups still reach.                     *)
THEOREM CacheCountedAlways == Spec => []CacheCounted
<1>1. CInv => CacheCounted
  BY CountIs DEF CInv, CacheCounted, MapOK, Maps
<1> QED
  BY <1>1, CInvAlways, PTL

-----------------------------------------------------------------------------
(* A put loses no pair, and adds its own when there is room.               *)
InChain(map, string) == member_pair(string, string) \in ToSet(map.ptr[Bucket[string]])

(* A put adds at most one pair to a chain, and one to the count. *)
LEMMA PutChains ==
  ASSUME NEW map \in Maps, NEW key \in MapKeys, NEW b \in Buckets
  PROVE  /\ ToSet(map.ptr[b]) \subseteq ToSet(hashmap_put(map, key, key).ptr[b])
         /\ ToSet(hashmap_put(map, key, key).ptr[b])
              \subseteq ToSet(map.ptr[b]) \cup {member_pair(key, key)}
         /\ hashmap_put(map, key, key).cur_count <= map.cur_count + 1
         /\ b # Bucket[key] => hashmap_put(map, key, key).ptr[b] = map.ptr[b]
         /\ key # <<>> /\ map.cur_count < MaxCount =>
              /\ InChain(hashmap_put(map, key, key), key)
              /\ hashmap_put(map, key, key).cur_count = map.cur_count + 1
<1>1. /\ map.ptr \in [Buckets -> Seq(Pairs)] /\ map.cur_count \in Nat
      /\ Bucket[key] \in Buckets /\ MaxCount \in Nat
  BY BucketFacts DEF Maps
<1>2. CASE key = <<>> \/ map.cur_count >= MaxCount
  BY <1>1, <1>2 DEF hashmap_put
<1>3. CASE ~ (key = <<>> \/ map.cur_count >= MaxCount)
  <2> DEFINE pair == member_pair(key, key)
             old == map.ptr[Bucket[key]]
             new == <<pair>> \o old
  <2>1. hashmap_put(map, key, key) =
          [ptr |-> [map.ptr EXCEPT ![Bucket[key]] = new], cur_count |-> map.cur_count + 1]
    BY <1>3 DEF hashmap_put, hashmap_get_index
  <2>2. ToSet(new) = ToSet(old) \cup {pair}
    <3>1. old \in Seq(Pairs) /\ pair \in Pairs
      BY <1>1 DEF Pairs, member_pair
    <3> HIDE DEF pair, old
    <3>2. /\ <<pair>> \in Seq(Pairs) /\ Len(<<pair>>) = 1 /\ <<pair>>[1] = pair
          /\ Len(old) \in Nat /\ DOMAIN old = 1 .. Len(old)
      BY <3>1, LenProperties
    <3>3. /\ new \in Seq(Pairs) /\ Len(new) = 1 + Len(old)
          /\ \A i \in 1 .. (1 + Len(old)) : new[i] = IF i <= 1 THEN <<pair>>[i] ELSE old[i - 1]
      BY <3>1, <3>2, ConcatProperties
    <3>4. DOMAIN new = 1 .. (1 + Len(old))
      BY <3>3, LenProperties
    <3> HIDE DEF new
    <3>5. new[1] = pair
      BY <3>2, <3>3
    <3>6. \A i \in 1 .. Len(old) : i + 1 \in 1 .. (1 + Len(old)) /\ new[i + 1] = old[i]
      BY <3>2, <3>3
    <3>7. \A i \in 1 .. (1 + Len(old)) : i # 1 =>
            i - 1 \in 1 .. Len(old) /\ new[i] = old[i - 1]
      BY <3>2, <3>3
    <3>8. 1 \in 1 .. (1 + Len(old))
      BY <3>2
    <3> QED
      BY <3>2, <3>4, <3>5, <3>6, <3>7, <3>8, SMTT(30) DEF ToSet
  <2> HIDE DEF new, old, pair
  <2>3. /\ hashmap_put(map, key, key).ptr[Bucket[key]] = new
        /\ b # Bucket[key] => hashmap_put(map, key, key).ptr[b] = map.ptr[b]
        /\ hashmap_put(map, key, key).cur_count = map.cur_count + 1
    BY <1>1, <2>1
  <2>4. CASE b = Bucket[key]
    BY <1>1, <2>2, <2>3, <2>4 DEF InChain, pair, old
  <2>5. CASE b # Bucket[key]
    BY <1>1, <2>2, <2>3, <2>5 DEF InChain, pair, old
  <2> QED
    BY <2>4, <2>5
<1> QED
  BY <1>2, <1>3

(* LoadRoom is within array and cache. *)
LEMMA RoomFacts ==
  /\ LoadRoom <= Capacity /\ LoadRoom <= MaxCount - 1 /\ LoadRoom \in Nat
<1>1. LoadRoom = IF Capacity < MaxCount THEN Capacity ELSE MaxCount - 1
  BY DEF LoadRoom, Capacity
<1> QED
  BY <1>1, ArrayInitFacts, BucketFacts

(* An open has every recorded schema in the cache that array and cache     *)
(* have room for, however the records behind the first torn one are read.  *)
LEMMA OpenRestoresStep ==
  ASSUME CInv, context_open, NEW j \in DOMAIN Untorn, j <= LoadRoom
  PROVE  InChain(schema_cache', Untorn[j])
<1>1. PICK strings \in Seq(Strings) : \E run \in [0 .. Len(strings) -> Maps] :
           /\ run[0] = hashmap_put(EmptyMap, Meta, Meta)
           /\ \A k \in 1 .. Len(strings) :
                run[k] = hashmap_put(run[k - 1], strings[k], strings[k])
           /\ schema_cache' = run[Len(strings)]
           /\ \A i \in 1 .. Len(Untorn) :
                i <= Capacity => i \in 1 .. Len(strings) /\ strings[i] = Untorn[i]
  BY OpenFacts DEF CInv
<1>2. PICK run \in [0 .. Len(strings) -> Maps] :
           /\ run[0] = hashmap_put(EmptyMap, Meta, Meta)
           /\ \A k \in 1 .. Len(strings) :
                run[k] = hashmap_put(run[k - 1], strings[k], strings[k])
           /\ schema_cache' = run[Len(strings)]
  BY <1>1
<1> DEFINE n == Len(strings)
           name == Untorn[j]
<1>3. /\ n \in Nat /\ (\A k \in 1 .. n : strings[k] \in Strings)
      /\ j \in 1 .. n /\ strings[j] = name /\ name \in MapKeys /\ name # <<>>
      /\ j <= MaxCount - 1 /\ MaxCount \in Nat
  <2>1. n \in Nat /\ \A k \in 1 .. n : strings[k] \in Strings
    BY LenProperties, ElementOfSeq
  <2>2. meta_records \in Seq(Records)
    BY DEF CInv
  <2>3. Untorn \in Seq(Names) /\ j \in 1 .. Len(Untorn)
    BY <2>2, UntornFacts, LenProperties
  <2>4. j <= Capacity /\ j <= MaxCount - 1
    BY <2>3, RoomFacts, ArrayInitFacts, BucketFacts
  <2>5. name \in Names
    BY <2>3, ElementOfSeq
  <2> HIDE DEF name, n
  <2>6. name \in MapKeys /\ name # <<>>
    BY <2>5, NameFacts, NameLengths
  <2> QED
    BY <1>1, <2>1, <2>3, <2>4, <2>6, BucketFacts DEF name, n
<1> HIDE DEF name, n
<1> DEFINE T == {k \in Nat : k <= n =>
                   /\ run[k].cur_count <= k + 1
                   /\ k >= j => InChain(run[k], name)}
<1>4. 0 \in T
  <2>1. /\ hashmap_put(EmptyMap, Meta, Meta).cur_count <= EmptyMap.cur_count + 1
        /\ EmptyMap.cur_count = 0
    <3>1. \E b \in Buckets : TRUE
      BY BucketFacts, NameFacts
    <3>2. EmptyMap \in Maps /\ Meta \in MapKeys
      BY EmptyMapOK, NameFacts
    <3> QED
      BY <3>1, <3>2, PutChains DEF EmptyMap
  <2>2. 0 \in Nat /\ ~ (0 >= j)
    BY <1>3
  <2> QED
    BY <1>2, <2>1, <2>2
<1>5. ASSUME NEW k \in Nat, k \in T PROVE k + 1 \in T
  <2> SUFFICES ASSUME k + 1 <= n
      PROVE  run[k + 1].cur_count <= (k + 1) + 1 /\ (k + 1 >= j => InChain(run[k + 1], name))
    OBVIOUS
  <2>1. /\ k + 1 \in 1 .. n /\ (k + 1) - 1 = k /\ k \in 0 .. n
        /\ run[k].cur_count <= k + 1 /\ (k >= j => InChain(run[k], name))
    BY <1>3, <1>5
  <2> HIDE DEF T
  <2>2. /\ run[k + 1] = hashmap_put(run[k], strings[k + 1], strings[k + 1])
        /\ run[k] \in Maps /\ strings[k + 1] \in Strings /\ Bucket[name] \in Buckets
        /\ run[k + 1] \in Maps
    <3>1. k + 1 \in 0 .. n
      BY <2>1
    <3> QED
      BY <1>2, <1>3, <2>1, <3>1, BucketFacts DEF n
  <2>3. run[k].cur_count \in Nat /\ run[k + 1].cur_count \in Nat
    BY <2>2 DEF Maps
  <2>4. CASE strings[k + 1] = <<>>
    <3>1. run[k + 1] = run[k] /\ k + 1 # j
      BY <1>3, <2>2, <2>4 DEF hashmap_put
    <3> QED
      BY <1>3, <2>1, <2>3, <3>1
  <2>5. CASE strings[k + 1] # <<>>
    <3>1. strings[k + 1] \in MapKeys
      BY <2>2, <2>5 DEF Strings
    <3>2. /\ ToSet(run[k].ptr[Bucket[name]]) \subseteq ToSet(run[k + 1].ptr[Bucket[name]])
          /\ run[k + 1].cur_count <= run[k].cur_count + 1
          /\ run[k].cur_count < MaxCount => InChain(run[k + 1], strings[k + 1])
      BY <2>2, <2>5, <3>1, PutChains
    <3>3. run[k + 1].cur_count <= (k + 1) + 1
      BY <2>1, <2>3, <3>2
    <3>4. CASE k >= j
      BY <2>1, <3>2, <3>3, <3>4 DEF InChain
    <3>5. CASE k + 1 = j
      BY <1>3, <2>1, <2>3, <3>2, <3>3, <3>5
    <3>6. CASE k + 1 < j
      BY <1>3, <3>3, <3>6
    <3> QED
      BY <1>3, <3>4, <3>5, <3>6
  <2> QED
    BY <2>4, <2>5
<1>6. \A k \in Nat : k \in T
  <2> HIDE DEF T
  <2> QED
    BY <1>4, <1>5, SetInduction
<1>7. InChain(run[n], name)
  BY <1>3, <1>6
<1> QED
  BY <1>2, <1>7 DEF n, name

(* Wherever earlier processes ended, and whatever is misread behind a torn *)
(* record, an open has every schema in the cache that was recorded before  *)
(* it, as far as array and cache have room.                                *)
THEOREM OpenRestoresAlways == Spec => OpenRestores
<1>1. ASSUME CInv, [Next]_vars, ~ up, up', NEW i \in DOMAIN Untorn, i <= LoadRoom
      PROVE  Cached(Untorn[i])'
  <2>1. context_open
    <3>1. CASE context_open \/ CrashInOpen \/ Kill
      BY <1>1, <3>1 DEF CrashInOpen, Kill, Ends
    <3>2. CASE \E n \in Names : context_put_schema(n) \/ KilledInCreate(n)
                 \/ context_get_schema(n) \/ context_del_schema(n) \/ bitcask_del(n)
      BY <1>1, <3>2 DEF context_put_schema, KilledInCreate, context_get_schema,
                        context_del_schema, bitcask_del
    <3>3. CASE UNCHANGED vars
      BY <1>1, <3>3 DEF vars
    <3> QED
      BY <1>1, <3>1, <3>2, <3>3 DEF Next
  <2>2. InChain(schema_cache', Untorn[i])
    BY <1>1, <2>1, OpenRestoresStep
  <2>3. meta_records' = meta_records
    BY <2>1 DEF context_open, disk
  <2>4. Untorn' = Untorn
    BY <2>3 DEF Untorn, FirstTorn
  <2> QED
    BY <2>2, <2>4 DEF Cached, InChain
<1>2. CInv /\ [Next]_vars => [~up /\ up' =>
        \A i \in DOMAIN Untorn : i <= LoadRoom => Cached(Untorn[i])']_vars
  BY <1>1
<1> QED
  BY <1>2, CInvAlways, PTL DEF Spec, OpenRestores

-----------------------------------------------------------------------------
(* Context implements Catalogue, for every set of names of which none      *)
(* begins another, every hash function and every capacity there is room    *)
(* in: the inductive invariant is that the cache of a running process      *)
(* holds exactly the meta schema and the schemas recorded in file 0, each  *)
(* of which is recorded once.                                              *)

(* The names a cache may hold. *)
Known == Names \cup {Meta}

(* Names, and that of the meta schema, are keys of the hash map. *)
LEMMA KnownFacts ==
  /\ Known \subseteq MapKeys /\ Meta \in Known /\ Names \subseteq Known /\ Meta \notin Names
  /\ \A n \in Known : n # <<>> /\ n # NotFound /\ IsPrefix(n, n)
<1>1. /\ Known \subseteq MapKeys /\ Meta \in Known /\ Names \subseteq Known
      /\ Meta \notin Names
  BY NameFacts DEF Known
<1>2. NotFound \notin MapKeys
  BY HashAssumption
<1>3. ASSUME NEW n \in Known PROVE n # <<>> /\ n # NotFound /\ IsPrefix(n, n)
  <2>1. Len(n) \in Nat /\ n # <<>>
    BY NameLengths DEF Known
  <2> QED
    BY <1>1, <1>2, <2>1 DEF IsPrefix
<1> QED
  BY <1>1, <1>3

(* What holds of the constants when there is room. *)
LEMMA RoomyFacts ==
  ASSUME Roomy
  PROVE  /\ \A n, p \in Known : IsPrefix(n, p) => n = p
         /\ IsFiniteSet(Names) /\ Cardinality(Names) \in Nat
         /\ Cardinality(Names) <= Capacity /\ Cardinality(Names) < MaxCount
         /\ Cardinality(Names) <= MetaPerFile /\ MetaRecordFits
         /\ MaxTears = 0
<1>1. IsFiniteSet(Names) /\ Cardinality(Names) <= LoadRoom
  BY DEF Roomy
<1>2. Cardinality(Names) \in Nat
  BY <1>1, FS_CardinalityType
<1>3. Cardinality(Names) <= Capacity /\ Cardinality(Names) < MaxCount
  BY <1>1, <1>2, RoomFacts, ArrayInitFacts, BucketFacts
<1> QED
  BY <1>1, <1>2, <1>3 DEF Roomy, Known

(* As long as a known name is missing in a cache it is not full. *)
LEMMA RoomLeft ==
  ASSUME Roomy, NEW K \in SUBSET Known, NEW key \in Known, key \notin K
  PROVE  /\ IsFiniteSet(K) /\ Cardinality(K) \in Nat /\ Cardinality(K) < MaxCount
         /\ Cardinality(K \cup {key}) = Cardinality(K) + 1
<1>1. IsFiniteSet(Known) /\ Cardinality(Known) = Cardinality(Names) + 1
  BY RoomyFacts, KnownFacts, FS_AddElement DEF Known
<1>2. IsFiniteSet(K) /\ Cardinality(K) \in Nat
  BY <1>1, FS_Subset, FS_CardinalityType
<1>3. Cardinality(K \cup {key}) = Cardinality(K) + 1
  BY <1>2, FS_AddElement
<1>4. Cardinality(K \cup {key}) <= Cardinality(Known)
  <2>1. K \cup {key} \in SUBSET Known
    OBVIOUS
  <2> QED
    BY <1>1, <2>1, FS_Subset
<1> QED
  BY <1>1, <1>2, <1>3, <1>4, RoomyFacts, BucketFacts

-----------------------------------------------------------------------------
(* A cache that holds the schemas of the names in K, and nothing else.     *)
HeldPairs(K, b) == {member_pair(k, k) : k \in {n \in K : Bucket[n] = b}}

Holds(map, K) ==
  /\ map \in Maps
  /\ map.cur_count = Cardinality(K)
  /\ \A b \in Buckets : ToSet(map.ptr[b]) = HeldPairs(K, b)

(* An empty map holds nothing. *)
LEMMA EmptyHolds == Holds(EmptyMap, {})
<1>1. EmptyMap \in Maps /\ EmptyMap.cur_count = Cardinality({})
  BY EmptyMapOK, FS_EmptySet DEF EmptyMap
<1>2. ASSUME NEW b \in Buckets PROVE ToSet(EmptyMap.ptr[b]) = HeldPairs({}, b)
  <2>1. EmptyMap.ptr[b] = <<>>
    BY DEF EmptyMap
  <2>2. ToSet(<<>>) = {}
    BY DEF ToSet
  <2> QED
    BY <2>1, <2>2 DEF HeldPairs
<1> QED
  BY <1>1, <1>2 DEF Holds

(* A chain of such a cache, position by position. *)
IsHeld(chain, K, b) ==
  /\ chain \in Seq(Pairs) /\ Len(chain) \in Nat
  /\ \A j \in 1 .. Len(chain) : \E k \in K : chain[j] = member_pair(k, k)
  /\ \A k \in K : Bucket[k] = b => \E j \in 1 .. Len(chain) : chain[j] = member_pair(k, k)

(* Each chain of a map holds the keys of its bucket. *)
LEMMA HeldChain ==
  ASSUME NEW K \in SUBSET Known, NEW map, Holds(map, K), NEW b \in Buckets
  PROVE  IsHeld(map.ptr[b], K, b)
<1>1. map.ptr[b] \in Seq(Pairs)
  BY DEF Holds, Maps
<1>2. Len(map.ptr[b]) \in Nat /\ DOMAIN map.ptr[b] = 1 .. Len(map.ptr[b])
  BY <1>1, LenProperties
<1>3. ToSet(map.ptr[b]) = HeldPairs(K, b)
  BY DEF Holds
<1>4. ToSet(map.ptr[b]) = {map.ptr[b][i] : i \in 1 .. Len(map.ptr[b])}
  BY <1>2 DEF ToSet
<1> QED
  BY <1>1, <1>2, <1>3, <1>4 DEF HeldPairs, IsHeld

(* A lookup finds the schema of its name, or none. *)
LEMMA GetHeld ==
  ASSUME Roomy, NEW K \in SUBSET Known, NEW map, Holds(map, K), NEW key \in Known
  PROVE  hashmap_get(map, key) = IF key \in K THEN key ELSE NotFound
<1> DEFINE b == Bucket[key]
           chain == map.ptr[b]
           i == hashmap_search(chain, key)
<1>1. b \in Buckets
  BY BucketFacts, KnownFacts
<1>2. /\ chain \in Seq(Pairs) /\ Len(chain) \in Nat
      /\ \A j \in 1 .. Len(chain) : \E k \in K : chain[j] = member_pair(k, k)
      /\ \A k \in K : Bucket[k] = b => \E j \in 1 .. Len(chain) : chain[j] = member_pair(k, k)
  <2> HIDE DEF b
  <2>1. IsHeld(map.ptr[b], K, b)
    BY <1>1, HeldChain
  <2> QED
    BY <2>1 DEF IsHeld
<1>3. /\ i \in 0 .. Len(chain)
      /\ i # 0 => IsPrefix(key, chain[i].key)
      /\ i = 0 => \A j \in 1 .. Len(chain) : ~ IsPrefix(key, chain[j].key)
  <2> HIDE DEF chain
  <2> QED
    BY <1>2, SearchFacts
<1>4. hashmap_get(map, key) = IF map.cur_count = 0 \/ i = 0 THEN NotFound ELSE chain[i].val
  BY DEF hashmap_get, hashmap_get_index
<1>5. map.cur_count = Cardinality(K) /\ IsFiniteSet(K)
  <2>1. IsFiniteSet(Known)
    BY RoomyFacts, FS_AddElement DEF Known
  <2> QED
    BY <2>1, FS_Subset DEF Holds
<1> HIDE DEF i, chain
<1>6. CASE i # 0
  <2>1. i \in 1 .. Len(chain)
    BY <1>2, <1>3, <1>6
  <2>2. PICK k \in K : chain[i] = member_pair(k, k)
    BY <1>2, <2>1
  <2>3. k = key
    <3>1. IsPrefix(key, k) /\ k \in Known
      BY <1>3, <1>6, <2>2 DEF member_pair
    <3> QED
      BY <3>1, RoomyFacts
  <2>4. Cardinality(K) # 0
    BY <1>5, FS_EmptySet
  <2> QED
    BY <1>4, <1>5, <1>6, <2>2, <2>3, <2>4 DEF member_pair
<1>7. CASE i = 0
  <2>1. key \notin K
    <3> SUFFICES ASSUME key \in K PROVE FALSE
      OBVIOUS
    <3>1. PICK j \in 1 .. Len(chain) : chain[j] = member_pair(key, key)
      BY <1>2
    <3>2. IsPrefix(key, chain[j].key)
      BY <3>1, KnownFacts DEF member_pair
    <3> QED
      BY <1>3, <1>7, <3>2
  <2> QED
    BY <1>4, <1>7, <2>1
<1> QED
  BY <1>6, <1>7

(* A put of a name that is not there adds it. *)
LEMMA PutHeld ==
  ASSUME Roomy, NEW K \in SUBSET Known, NEW map, Holds(map, K),
         NEW key \in Known, key \notin K
  PROVE  Holds(hashmap_put(map, key, key), K \cup {key})
<1> DEFINE new == hashmap_put(map, key, key)
           pair == member_pair(key, key)
<1>1. /\ map \in Maps /\ key \in MapKeys /\ key # <<>> /\ map.cur_count < MaxCount
      /\ Cardinality(K \cup {key}) = map.cur_count + 1 /\ Bucket[key] \in Buckets
  BY RoomLeft, KnownFacts, BucketFacts DEF Holds
<1>2. new \in Maps
  BY <1>1, PutOK
<1>3. ASSUME NEW b \in Buckets
      PROVE  ToSet(new.ptr[b]) = HeldPairs(K \cup {key}, b)
  <2>1. ToSet(map.ptr[b]) = HeldPairs(K, b)
    BY DEF Holds
  <2>2. /\ ToSet(map.ptr[b]) \subseteq ToSet(new.ptr[b])
        /\ ToSet(new.ptr[b]) \subseteq ToSet(map.ptr[b]) \cup {pair}
        /\ b # Bucket[key] => new.ptr[b] = map.ptr[b]
        /\ InChain(new, key)
    BY <1>1, PutChains
  <2> HIDE DEF new
  <2>3. CASE b = Bucket[key]
    <3>1. HeldPairs(K \cup {key}, b) = HeldPairs(K, b) \cup {pair}
      BY <2>3 DEF HeldPairs
    <3>2. pair \in ToSet(new.ptr[b])
      BY <2>2, <2>3 DEF InChain
    <3> HIDE DEF pair
    <3> QED
      BY <2>1, <2>2, <3>1, <3>2
  <2>4. CASE b # Bucket[key]
    <3>1. HeldPairs(K \cup {key}, b) = HeldPairs(K, b)
      BY <2>4 DEF HeldPairs
    <3> QED
      BY <2>1, <2>2, <2>4, <3>1
  <2> QED
    BY <2>3, <2>4
<1>4. new.cur_count = Cardinality(K \cup {key})
  <2>1. new.cur_count = map.cur_count + 1
    BY <1>1, PutChains
  <2> HIDE DEF new
  <2> QED
    BY <1>1, <2>1
<1> HIDE DEF new
<1> QED
  BY <1>2, <1>3, <1>4 DEF Holds, new

(* A drop of another schema leaves the meta schema where it is found. *)
LEMMA DelHeld ==
  ASSUME Roomy, NEW K \in SUBSET Known, Meta \in K, NEW map, Holds(map, K), NEW n \in Names
  PROVE  hashmap_get(hashmap_del(map, n), Meta) # NotFound
<1> DEFINE b == Bucket[n]
           chain == map.ptr[b]
           i == hashmap_search(chain, n)
           rest == RemoveAt(chain, i)
<1>1. b \in Buckets /\ n \in Known /\ n # Meta
  BY BucketFacts, KnownFacts
<1>2. /\ chain \in Seq(Pairs) /\ Len(chain) \in Nat
      /\ \A j \in 1 .. Len(chain) : \E k \in K : chain[j] = member_pair(k, k)
      /\ \A k \in K : Bucket[k] = b => \E j \in 1 .. Len(chain) : chain[j] = member_pair(k, k)
  <2> HIDE DEF b
  <2>1. IsHeld(map.ptr[b], K, b)
    BY <1>1, HeldChain
  <2> QED
    BY <2>1 DEF IsHeld
<1>3. /\ i \in 0 .. Len(chain)
      /\ i # 0 => IsPrefix(n, chain[i].key)
  <2> HIDE DEF chain
  <2> QED
    BY <1>2, SearchFacts
<1>4. hashmap_del(map, n) =
        IF i = 0 THEN map
        ELSE [ptr |-> [map.ptr EXCEPT ![b] = rest], cur_count |-> map.cur_count - 1]
  BY DEF hashmap_del, hashmap_get_index
<1> HIDE DEF i, chain, rest
<1>5. CASE i = 0
  BY <1>4, <1>5, GetHeld, KnownFacts
<1>6. CASE i # 0
  <2>1. i \in 1 .. Len(chain)
    BY <1>2, <1>3, <1>6
  <2>2. PICK k \in K : chain[i] = member_pair(k, k)
    BY <1>2, <2>1
  <2>3. k = n
    <3>1. IsPrefix(n, k) /\ k \in Known
      BY <1>3, <1>6, <2>2 DEF member_pair
    <3> QED
      BY <1>1, <3>1, RoomyFacts
  <2>4. /\ rest \in Seq(Pairs)
        /\ \A j \in 1 .. Len(chain) : j # i => \E h \in 1 .. Len(rest) : rest[h] = chain[j]
    BY <1>2, <2>1, RemoveFacts DEF rest
  <2> DEFINE after == hashmap_del(map, n)
             other == after.ptr[Bucket[Meta]]
             at == hashmap_search(other, Meta)
  <2>5. /\ after.ptr = [map.ptr EXCEPT ![b] = rest] /\ after.cur_count = map.cur_count - 1
        /\ map.ptr \in [Buckets -> Seq(Pairs)] /\ Bucket[Meta] \in Buckets
    BY <1>4, <1>6, BucketFacts, KnownFacts DEF Holds, Maps
  <2> HIDE DEF after
  <2>6. /\ other \in Seq(Pairs)
        /\ \E j \in 1 .. Len(other) : other[j] = member_pair(Meta, Meta)
    <3>1. CASE Bucket[Meta] = b
      <4>1. other = rest
        BY <2>5, <3>1
      <4>2. PICK j \in 1 .. Len(chain) : chain[j] = member_pair(Meta, Meta)
        BY <1>2, <3>1
      <4>3. j # i
        BY <1>1, <2>2, <2>3, <4>2 DEF member_pair
      <4> HIDE DEF other
      <4> QED
        BY <2>4, <4>1, <4>2, <4>3
    <3>2. CASE Bucket[Meta] # b
      <4>1. other = map.ptr[Bucket[Meta]]
        BY <2>5, <3>2
      <4>2. IsHeld(map.ptr[Bucket[Meta]], K, Bucket[Meta])
        BY <2>5, HeldChain
      <4> HIDE DEF other
      <4> QED
        BY <4>1, <4>2 DEF IsHeld
    <3> QED
      BY <3>1, <3>2
  <2>7. at # 0 /\ at \in 1 .. Len(other)
    <3> HIDE DEF other
    <3>1. PICK j \in 1 .. Len(other) : other[j] = member_pair(Meta, Meta)
      BY <2>6
    <3>2. IsPrefix(Meta, other[j].key)
      BY <3>1, KnownFacts DEF member_pair
    <3>3. /\ at \in 0 .. Len(other)
          /\ at = 0 => \A h \in 1 .. Len(other) : ~ IsPrefix(Meta, other[h].key)
      BY <2>6, SearchFacts
    <3>4. Len(other) \in Nat
      BY <2>6, LenProperties
    <3> QED
      BY <3>2, <3>3, <3>4
  <2>8. after.cur_count # 0
    <3>1. map.cur_count = Cardinality(K)
      BY DEF Holds
    <3>2. IsFiniteSet(Known)
      BY RoomyFacts, FS_AddElement DEF Known
    <3>3. IsFiniteSet(K) /\ Cardinality(K) \in Nat
      BY <3>2, FS_Subset, FS_CardinalityType
    <3>4. Cardinality(K) # 1
      BY <1>1, <2>3, <3>3, FS_Singleton
    <3> QED
      BY <2>5, <3>1, <3>3, <3>4
  <2>9. other[at].val \in MapKeys
    <3> HIDE DEF other, at
    <3>1. other[at] \in Pairs
      BY <2>6, <2>7, ElementOfSeq
    <3> QED
      BY <3>1 DEF Pairs
  <2>10. hashmap_get(after, Meta) = other[at].val
    BY <2>7, <2>8 DEF hashmap_get, hashmap_get_index
  <2> QED
    BY <2>9, <2>10, HashAssumption DEF after
<1> QED
  BY <1>5, <1>6

-----------------------------------------------------------------------------
(* The inductive invariant. *)
NoneTorn == \A i \in 1 .. Len(meta_records) : ~ IsTorn(meta_records[i])

CatInv ==
  /\ CInv
  /\ NoneTorn
  /\ RecordedOnce
  /\ Len(meta_records) = Cardinality(RecordedNames)
  /\ meta_written <= Len(meta_records)
  /\ up => Holds(schema_cache, {Meta} \cup RecordedNames)

(* The recorded names, position by position. *)
LEMMA RecordedFacts ==
  ASSUME meta_records \in Seq(Records), NoneTorn
  PROVE  /\ RecordedNames = {meta_records[i].name : i \in 1 .. Len(meta_records)}
         /\ RecordedNames \subseteq Names /\ Meta \notin RecordedNames
         /\ {Meta} \cup RecordedNames \in SUBSET Known
         /\ Len(meta_records) \in Nat /\ DOMAIN meta_records = 1 .. Len(meta_records)
<1>1. Len(meta_records) \in Nat /\ DOMAIN meta_records = 1 .. Len(meta_records)
  BY LenProperties
<1>2. RecordedNames = {meta_records[i].name : i \in 1 .. Len(meta_records)}
  BY <1>1 DEF RecordedNames, ToSet, NoneTorn
<1>3. \A i \in 1 .. Len(meta_records) : meta_records[i].name \in Names
  <2>1. \A i \in 1 .. Len(meta_records) : meta_records[i] \in Records
    BY ElementOfSeq
  <2> QED
    BY <2>1 DEF Records
<1>4. RecordedNames \subseteq Names
  BY <1>2, <1>3
<1> QED
  BY <1>1, <1>2, <1>4, KnownFacts DEF Known

(* The invariant holds of an empty database. *)
LEMMA CatInvInit ==
  ASSUME Init
  PROVE  CatInv
<1>1. CInv
  BY CInvInit
<1>2. Len(meta_records) = 0 /\ meta_records = <<>>
  BY EmptySeq DEF Init
<1>3. NoneTorn
  BY <1>2 DEF NoneTorn
<1>4. RecordedNames = {}
  BY <1>1, <1>2, <1>3, RecordedFacts DEF CInv
<1>5. RecordedOnce
  BY <1>1, <1>2, <1>3, RecordedFacts DEF CInv, RecordedOnce
<1> QED
  BY <1>1, <1>2, <1>3, <1>4, <1>5, FS_EmptySet DEF CatInv, Init

(* While the records are left alone, what is said of them stays. *)
LEMMA SameRecords ==
  ASSUME CatInv, CInv', meta_records' = meta_records,
         meta_written' = 0 \/ UNCHANGED meta_written,
         up' => Holds(schema_cache', {Meta} \cup RecordedNames)
  PROVE  CatInv' /\ RecordedNames' = RecordedNames
<1>1. RecordedNames' = RecordedNames /\ RecordedOnce' /\ NoneTorn'
  BY DEF RecordedNames, RecordedOnce, NoneTorn, CatInv
<1>2. meta_written' <= Len(meta_records)
  <2>1. Len(meta_records) \in Nat
    BY LenProperties DEF CatInv, CInv
  <2> QED
    BY <2>1 DEF CatInv
<1> QED
  BY <1>1, <1>2 DEF CatInv

(* A record of a name that was not recorded. *)
LEMMA MoreRecords ==
  ASSUME CatInv, CInv', NEW n \in Names \ RecordedNames, Roomy,
         meta_records' = meta_records \o <<Whole(n)>>,
         meta_written' = meta_written + 1,
         up' => Holds(schema_cache', ({Meta} \cup RecordedNames) \cup {n})
  PROVE  CatInv' /\ RecordedNames' = RecordedNames \cup {n}
<1> DEFINE s == meta_records
           t == meta_records \o <<Whole(n)>>
           len == Len(meta_records)
<1>1. /\ s \in Seq(Records) /\ <<Whole(n)>> \in Seq(Records) /\ Len(<<Whole(n)>>) = 1
      /\ <<Whole(n)>>[1] = Whole(n) /\ len \in Nat
      /\ RecordedNames = {s[i].name : i \in 1 .. len} /\ DOMAIN s = 1 .. len
      /\ RecordedNames \subseteq Names
  <2>1. <<Whole(n)>> \in Seq(Records)
    BY WrittenFacts
  <2> QED
    BY <2>1, RecordedFacts DEF CatInv, CInv
<1>2. /\ t \in Seq(Records) /\ Len(t) = len + 1
      /\ \A i \in 1 .. (len + 1) :
           t[i] = IF i <= len THEN s[i] ELSE <<Whole(n)>>[i - len]
  BY <1>1, ConcatProperties
<1>3. /\ \A i \in 1 .. len : t[i] = s[i] /\ i \in 1 .. (len + 1)
      /\ t[len + 1] = Whole(n) /\ len + 1 \in 1 .. (len + 1)
      /\ \A i \in 1 .. (len + 1) : i \in 1 .. len \/ i = len + 1
  BY <1>1, <1>2
<1> HIDE DEF t
<1>4. Whole(n).name = n /\ ~ IsTorn(Whole(n))
  <2>1. NameSize \in Nat
    BY NameFacts
  <2> QED
    BY <2>1 DEF Whole, schema_meta, IsTorn
<1>5. meta_records' = t
  BY DEF t
<1>6. \A i \in 1 .. (len + 1) : ~ IsTorn(t[i])
  BY <1>3, <1>4 DEF CatInv, NoneTorn
<1>7. NoneTorn'
  BY <1>2, <1>5, <1>6 DEF NoneTorn, IsTorn
<1>8. /\ RecordedNames' = {t[i].name : i \in 1 .. (len + 1)}
      /\ DOMAIN t = 1 .. (len + 1)
  <2>1. DOMAIN t = 1 .. (len + 1)
    BY <1>2, LenProperties
  <2>2. RecordedNames' = {r.name : r \in {r \in {t[i] : i \in 1 .. (len + 1)} : ~ IsTorn(r)}}
    BY <1>5, <2>1 DEF RecordedNames, ToSet, IsTorn
  <2> QED
    BY <1>6, <2>1, <2>2
<1>9. RecordedNames' = RecordedNames \cup {n}
  BY <1>1, <1>3, <1>4, <1>8
<1>10. RecordedOnce'
  <2>1. ASSUME NEW i \in 1 .. (len + 1), NEW j \in 1 .. (len + 1), t[i].name = t[j].name
        PROVE  i = j
    <3>1. \A h, k \in 1 .. len : s[h].name = s[k].name => h = k
      BY <1>1 DEF CatInv, RecordedOnce
    <3>2. \A h \in 1 .. len : s[h].name # n
      BY <1>1
    <3> QED
      BY <1>3, <1>4, <2>1, <3>1, <3>2
  <2> QED
    BY <1>5, <1>8, <2>1 DEF RecordedOnce
<1>11. Cardinality(RecordedNames') = len + 1
  <2>1. IsFiniteSet(RecordedNames)
    BY <1>1, RoomyFacts, FS_Subset
  <2> QED
    BY <1>9, <2>1, FS_AddElement DEF CatInv
<1>12. meta_written' <= Len(meta_records')
  <2>1. meta_written <= len /\ meta_written \in 0 .. MetaPerFile
    BY DEF CatInv, CInv
  <2> QED
    BY <1>1, <1>2, <1>5, <2>1
<1>13. up' => Holds(schema_cache', {Meta} \cup RecordedNames')
  BY <1>9
<1> QED
  BY <1>2, <1>5, <1>7, <1>9, <1>10, <1>11, <1>12, <1>13 DEF CatInv

(* An open has the recorded schemas in the cache, each once. *)
LEMMA OpenHeld ==
  ASSUME Roomy, CatInv, context_open
  PROVE  Holds(schema_cache', {Meta} \cup RecordedNames)
<1> DEFINE n == Len(meta_records)
           name(i) == meta_records[i].name
           K(k) == {Meta} \cup {name(i) : i \in 1 .. k}
<1>1. meta_records \in Seq(Records) /\ NoneTorn /\ n = Cardinality(RecordedNames)
      /\ RecordedOnce
  BY DEF CatInv, CInv
<1>2. /\ n \in Nat /\ RecordedNames = {name(i) : i \in 1 .. n}
      /\ RecordedNames \subseteq Names /\ DOMAIN meta_records = 1 .. n
  BY <1>1, RecordedFacts
<1>3. FirstTorn = 0
  <2>1. FirstTorn \in 0 .. n /\ (FirstTorn # 0 => IsTorn(meta_records[FirstTorn]))
    BY <1>1, FirstTornFacts
  <2>2. FirstTorn # 0 => FirstTorn \in 1 .. n
    BY <1>2, <2>1
  <2> QED
    BY <1>1, <2>1, <2>2 DEF NoneTorn
<1>4. Len(Untorn) = n /\ \A i \in 1 .. n : Untorn[i] = name(i)
  BY <1>1, <1>3, UntornFacts
<1>5. n <= Capacity
  <2>1. Cardinality(RecordedNames) <= Cardinality(Names) /\ Cardinality(Names) <= Capacity
    BY <1>2, RoomyFacts, FS_Subset
  <2>2. Capacity \in Nat /\ Cardinality(Names) \in Nat
    BY ArrayInitFacts, RoomyFacts
  <2>3. n \in Nat /\ n = Cardinality(RecordedNames)
    BY <1>1, <1>2
  <2> HIDE DEF n
  <2> QED
    BY <2>1, <2>2, <2>3
<1>6. \A i \in 1 .. n : i <= Capacity
  BY <1>2, <1>5, ArrayInitFacts
<1>7. PICK strings \in Seq(Strings) : \E run \in [0 .. Len(strings) -> Maps] :
           /\ run[0] = hashmap_put(EmptyMap, Meta, Meta)
           /\ \A k \in 1 .. Len(strings) :
                run[k] = hashmap_put(run[k - 1], strings[k], strings[k])
           /\ schema_cache' = run[Len(strings)]
           /\ \A i \in 1 .. Len(Untorn) :
                i <= Capacity => i \in 1 .. Len(strings) /\ strings[i] = Untorn[i]
           /\ FirstTorn = 0 => Len(strings) <= Len(Untorn)
  BY <1>1, OpenFacts
<1>8. PICK run \in [0 .. Len(strings) -> Maps] :
           /\ run[0] = hashmap_put(EmptyMap, Meta, Meta)
           /\ \A k \in 1 .. Len(strings) :
                run[k] = hashmap_put(run[k - 1], strings[k], strings[k])
           /\ schema_cache' = run[Len(strings)]
  BY <1>7
<1>9. Len(strings) = n /\ \A i \in 1 .. n : strings[i] = name(i)
  <2>1. Len(strings) \in Nat /\ Len(strings) <= n
    BY <1>3, <1>4, <1>7, LenProperties
  <2>2. \A i \in 1 .. n : i \in 1 .. Len(strings) /\ strings[i] = name(i)
    BY <1>4, <1>6, <1>7
  <2>3. n = 0 \/ n \in 1 .. n
    BY <1>2
  <2> QED
    BY <1>2, <2>1, <2>2, <2>3
<1>10. ASSUME NEW k \in 0 .. n
       PROVE  K(k) \in SUBSET Known /\ \A j \in 1 .. n : j > k => name(j) \notin K(k)
  <2>1. \A i \in 1 .. k : i \in 1 .. n
    BY <1>2
  <2>2. \A i \in 1 .. n : name(i) \in Names
    BY <1>2
  <2>3. \A i, j \in 1 .. n : name(i) = name(j) => i = j
    BY <1>1, <1>2 DEF RecordedOnce
  <2>4. \A j \in 1 .. n : j > k => \A i \in 1 .. k : i # j
    BY <1>2
  <2> HIDE DEF n, name
  <2> QED
    BY <2>1, <2>2, <2>3, <2>4, KnownFacts
<1> DEFINE T == {k \in Nat : k <= n => Holds(run[k], K(k))}
<1>11. 0 \in T
  <2>1. Holds(hashmap_put(EmptyMap, Meta, Meta), {} \cup {Meta})
    BY EmptyHolds, PutHeld, KnownFacts
  <2>2. K(0) = {} \cup {Meta}
    OBVIOUS
  <2> QED
    BY <1>8, <2>1, <2>2, Zenon
<1>12. ASSUME NEW k \in Nat, k \in T PROVE k + 1 \in T
  <2> SUFFICES ASSUME k + 1 <= n PROVE Holds(run[k + 1], K(k + 1))
    OBVIOUS
  <2>1. k \in 0 .. n /\ k + 1 \in 1 .. n /\ k + 1 > k /\ (k + 1) - 1 = k
    BY <1>2
  <2>2. Holds(run[k], K(k))
    BY <1>2, <1>12, <2>1
  <2>3. run[k + 1] = hashmap_put(run[k], name(k + 1), name(k + 1))
    BY <1>8, <1>9, <2>1
  <2>4. K(k) \in SUBSET Known /\ name(k + 1) \notin K(k) /\ name(k + 1) \in Known
    <3>1. name(k + 1) \in Names
      BY <1>2, <2>1
    <3>2. K(k) \in SUBSET Known /\ name(k + 1) \notin K(k)
      BY <1>10, <2>1
    <3> QED
      BY <3>1, <3>2, KnownFacts
  <2>5. K(k + 1) = K(k) \cup {name(k + 1)}
    <3>1. 1 .. (k + 1) = (1 .. k) \cup {k + 1}
      OBVIOUS
    <3> HIDE DEF name
    <3> QED
      BY <3>1
  <2> HIDE DEF K, name, T, n
  <2>6. Holds(hashmap_put(run[k], name(k + 1), name(k + 1)), K(k) \cup {name(k + 1)})
    BY <2>2, <2>4, PutHeld
  <2> QED
    BY <2>3, <2>5, <2>6
<1>13. \A k \in Nat : k \in T
  <2> HIDE DEF T
  <2> QED
    BY <1>11, <1>12, SetInduction
<1>14. Holds(run[n], K(n))
  <2> HIDE DEF K, n
  <2> QED
    BY <1>2, <1>13
<1> QED
  BY <1>2, <1>8, <1>9, <1>14

-----------------------------------------------------------------------------
(* Each call keeps the invariant and is a call of the catalogue.           *)
LEMMA FoundFacts ==
  ASSUME Roomy, CatInv, up, NEW n \in Names
  PROVE  /\ Found(n) <=> n \in RecordedNames
         /\ Found(n) => hashmap_get(schema_cache, n) = n
<1> DEFINE K == {Meta} \cup RecordedNames
<1>1. K \in SUBSET Known /\ Holds(schema_cache, K)
  BY RecordedFacts DEF CatInv, CInv
<1>2. n \in Known /\ n # NotFound /\ n # Meta
  BY KnownFacts
<1>3. n \in K <=> n \in RecordedNames
  BY <1>2
<1> HIDE DEF K
<1>4. hashmap_get(schema_cache, n) = IF n \in K THEN n ELSE NotFound
  BY <1>1, <1>2, GetHeld
<1> QED
  BY <1>2, <1>3, <1>4 DEF Found

(* A process that ends leaves the files, and with them the catalogue. *)
LEMMA EndStep ==
  ASSUME CatInv, CInv', NEW why, Ends(why), UNCHANGED disk
  PROVE  CatInv' /\ RecordedNames' = RecordedNames /\ up' = FALSE /\ reply' = why
<1>1. /\ meta_records' = meta_records /\ meta_written' = 0 /\ up' = FALSE /\ reply' = why
  BY DEF Ends, disk
<1> QED
  BY <1>1, SameRecords

(* So does a call that changes neither cache nor files. *)
LEMMA StayStep ==
  ASSUME CatInv, CInv', UNCHANGED <<up, schema_cache, disk, meta_written>>
  PROVE  CatInv' /\ RecordedNames' = RecordedNames
<1>1. /\ meta_records' = meta_records /\ UNCHANGED meta_written
      /\ up' => Holds(schema_cache', {Meta} \cup RecordedNames)
  BY DEF CatInv, disk
<1> QED
  BY <1>1, SameRecords

(* context_open is Open: it brings every recorded schema back. *)
LEMMA OpenStep ==
  ASSUME Roomy, CatInv, CInv', context_open
  PROVE  CatInv' /\ Cat!Open
<1>1. /\ ~ up /\ up' = TRUE /\ meta_records' = meta_records /\ meta_written' = 0
      /\ reply' = <<>>
  BY DEF context_open, disk
<1>2. Holds(schema_cache', {Meta} \cup RecordedNames)
  BY OpenHeld
<1>3. CatInv' /\ RecordedNames' = RecordedNames
  BY <1>1, <1>2, SameRecords
<1> QED
  BY <1>1, <1>3 DEF Cat!Open

(* Without torn records an open has nothing to stumble over. *)
LEMMA NoCrashInOpen == Roomy /\ CatInv => ~ CrashInOpen
<1> SUFFICES ASSUME Roomy, CatInv, CrashInOpen PROVE FALSE
  OBVIOUS
<1>1. meta_records \in Seq(Records) /\ NoneTorn
  BY DEF CatInv, CInv
<1>2. Len(meta_records) \in Nat
  BY <1>1, LenProperties
<1>3. FirstTorn # 0 /\ FirstTorn \in 1 .. Len(meta_records)
  BY <1>2 DEF CrashInOpen
<1>4. IsTorn(meta_records[FirstTorn])
  BY <1>1, <1>3, FirstTornFacts
<1> QED
  BY <1>1, <1>3, <1>4 DEF NoneTorn

(* A kill is Killed. *)
LEMMA KillStep ==
  ASSUME CatInv, CInv', Kill
  PROVE  CatInv' /\ Cat!Killed
<1>1. Ends(<<>>) /\ UNCHANGED disk
  BY DEF Kill
<1> QED
  BY <1>1, EndStep DEF Cat!Killed

(* context_put_schema is Create, of a new schema or of one there is. *)
LEMMA PutStep ==
  ASSUME Roomy, CatInv, CInv', NEW n \in Names, context_put_schema(n)
  PROVE  CatInv' /\ up' /\ Cat!Create(n)
<1> DEFINE cache == hashmap_put(schema_cache, n, n)
           K == {Meta} \cup RecordedNames
<1>0. up /\ up \in BOOLEAN
  BY DEF context_put_schema, CatInv, CInv
<1>1. CASE Found(n)
  <2>1. /\ Replies(<<"create", n, "-1">>)
        /\ UNCHANGED <<schema_cache, disk, meta_written>>
    BY <1>1 DEF context_put_schema
  <2>2. UNCHANGED up /\ reply' = <<"create", n, "-1">>
    BY <2>1 DEF Replies
  <2>3. CatInv' /\ RecordedNames' = RecordedNames
    BY <2>1, <2>2, StayStep
  <2>4. n \in RecordedNames /\ RecordedNames \cup {n} = RecordedNames
    BY <1>0, <1>1, FoundFacts
  <2> QED
    BY <1>0, <2>2, <2>3, <2>4 DEF Cat!Create
<1>2. CASE ~ Found(n)
  <2>1. n \in Names \ RecordedNames
    BY <1>0, <1>2, FoundFacts
  <2>2. K \in SUBSET Known /\ Holds(schema_cache, K) /\ n \notin K /\ n \in Known
        /\ Meta \in K \cup {n}
    BY <1>0, <2>1, RecordedFacts, KnownFacts DEF CatInv, CInv
  <2> HIDE DEF K
  <2>3. Holds(cache, K \cup {n})
    BY <2>2, PutHeld
  <2>4. K \cup {n} \in SUBSET Known
    BY <2>2
  <2> HIDE DEF cache
  <2>5. context_fetch_meta_schema(cache) = Meta
    BY <2>2, <2>3, <2>4, GetHeld, KnownFacts DEF context_fetch_meta_schema
  <2>6. /\ schema_cache' = cache
        /\ Replies(<<"create", n, "0">>)
        /\ \/ Recorded(n, <<Whole(n)>>)
           \/ tears < MaxTears
    BY <1>2, <2>2, <2>5, KnownFacts DEF context_put_schema, cache
  <2>7. ~ (tears < MaxTears)
    BY RoomyFacts DEF CatInv, CInv
  <2>8. MetaRecordFits /\ meta_written < MetaPerFile
    <3>1. Cardinality(RecordedNames) < Cardinality(Names)
      <4>1. RecordedNames \in SUBSET Names /\ IsFiniteSet(Names)
        BY RoomyFacts, RecordedFacts DEF CatInv, CInv
      <4>2. /\ Cardinality(RecordedNames) <= Cardinality(Names)
            /\ Cardinality(Names) # Cardinality(RecordedNames)
        BY <2>1, <4>1, FS_Subset
      <4>3. Cardinality(RecordedNames) \in Nat /\ Cardinality(Names) \in Nat
        BY <4>1, FS_Subset, FS_CardinalityType
      <4> QED
        BY <4>2, <4>3
    <3>2. /\ meta_written <= Cardinality(RecordedNames) /\ meta_written \in Nat
          /\ Cardinality(RecordedNames) \in Nat
      <4>1. meta_written \in Nat
        BY NameFacts DEF CatInv, CInv
      <4>2. Len(meta_records) \in Nat
        BY LenProperties DEF CatInv, CInv
      <4> QED
        BY <4>1, <4>2 DEF CatInv
    <3> QED
      BY <3>1, <3>2, RoomyFacts, NameFacts
  <2>9. /\ meta_records' = meta_records \o <<Whole(n)>> /\ meta_written' = meta_written + 1
    BY <2>6, <2>7, <2>8 DEF Recorded
  <2>10. CatInv' /\ RecordedNames' = RecordedNames \cup {n}
    BY <2>1, <2>3, <2>6, <2>9, MoreRecords DEF K
  <2>11. UNCHANGED up /\ reply' = <<"create", n, "0">>
    BY <2>6 DEF Replies
  <2> QED
    BY <1>0, <2>1, <2>10, <2>11 DEF Cat!Create
<1> QED
  BY <1>1, <1>2

(* A kill inside a write takes a torn record. *)
LEMMA NotKilledInCreate == Roomy /\ CatInv => \A n \in Names : ~ KilledInCreate(n)
BY RoomyFacts DEF CatInv, CInv, KilledInCreate

(* context_get_schema is Fetch, or FetchMissing if there is no such        *)
(* schema.                                                                 *)
LEMMA FetchStep ==
  ASSUME Roomy, CatInv, CInv', NEW n \in Names, context_get_schema(n)
  PROVE  /\ CatInv'
         /\ Found(n) => Cat!Fetch(n) /\ up /\ up' = up /\ UNCHANGED schema_cache
         /\ ~ Found(n) => Cat!FetchMissing(n) /\ up' = FALSE
<1>0. up
  BY DEF context_get_schema
<1>1. CASE Found(n)
  <2>1. /\ Replies(<<"fetch", n, hashmap_get(schema_cache, n)>>)
        /\ UNCHANGED <<schema_cache, disk, meta_written>>
    BY <1>1 DEF context_get_schema
  <2>2. UNCHANGED up /\ reply' = <<"fetch", n, n>> /\ n \in RecordedNames
    BY <1>0, <1>1, <2>1, FoundFacts DEF Replies
  <2>3. CatInv' /\ RecordedNames' = RecordedNames
    BY <2>1, <2>2, StayStep
  <2> QED
    BY <1>0, <1>1, <2>1, <2>2, <2>3 DEF Cat!Fetch
<1>2. CASE ~ Found(n)
  <2>1. Ends(<<"crash", "fetch", n>>) /\ UNCHANGED disk /\ n \notin RecordedNames
    BY <1>0, <1>2, FoundFacts DEF context_get_schema
  <2>2. CatInv' /\ RecordedNames' = RecordedNames /\ up' = FALSE
        /\ reply' = <<"crash", "fetch", n>>
    BY <2>1, EndStep
  <2> QED
    BY <1>0, <1>2, <2>1, <2>2 DEF Cat!FetchMissing, Cat!Crashes
<1> QED
  BY <1>1, <1>2

(* context_del_schema is Drop. *)
LEMMA DropStep ==
  ASSUME Roomy, CatInv, CInv', NEW n \in Names, context_del_schema(n)
  PROVE  CatInv' /\ Cat!Drop(n) /\ up' = FALSE
<1>0. up
  BY DEF context_del_schema
<1>1. hashmap_get(hashmap_del(schema_cache, n), Meta) # NotFound
  <2> DEFINE K == {Meta} \cup RecordedNames
  <2>1. K \in SUBSET Known /\ Meta \in K /\ Holds(schema_cache, K)
    BY <1>0, RecordedFacts DEF CatInv, CInv
  <2> HIDE DEF K
  <2> QED
    BY <2>1, DelHeld
<1>2. Ends(<<"crash", "drop", n>>) /\ UNCHANGED disk
  BY <1>1 DEF context_del_schema
<1>3. CatInv' /\ RecordedNames' = RecordedNames /\ up' = FALSE
      /\ reply' = <<"crash", "drop", n>>
  BY <1>2, EndStep
<1> QED
  BY <1>0, <1>3 DEF Cat!Drop, Cat!Crashes

(* bitcask_del is DelKey. *)
LEMMA DelKeyStep ==
  ASSUME Roomy, CatInv, CInv', NEW n \in Names, bitcask_del(n)
  PROVE  CatInv' /\ Cat!DelKey(n)
<1>0. up
  BY DEF bitcask_del
<1>1. CASE Replies(<<"del", n, "-1">>) /\ UNCHANGED <<schema_cache, disk, meta_written>>
  <2>1. UNCHANGED up /\ reply' = <<"del", n, "-1">>
    BY <1>1 DEF Replies
  <2>2. CatInv' /\ RecordedNames' = RecordedNames
    BY <1>1, <2>1, StayStep
  <2> QED
    BY <1>0, <2>1, <2>2 DEF Cat!DelKey
<1>2. CASE Found(n) /\ Ends(<<"crash", "del", n>>) /\ UNCHANGED disk
  <2>1. n \in RecordedNames
    BY <1>0, <1>2, FoundFacts
  <2>2. CatInv' /\ RecordedNames' = RecordedNames /\ up' = FALSE
        /\ reply' = <<"crash", "del", n>>
    BY <1>2, EndStep
  <2> QED
    BY <1>0, <2>1, <2>2 DEF Cat!DelKey, Cat!Crashes
<1> QED
  BY <1>1, <1>2 DEF bitcask_del

(* Every step keeps the invariant and is a step of Catalogue. *)
LEMMA CatStep ==
  ASSUME Roomy, CatInv, [Next]_vars
  PROVE  CatInv' /\ [Cat!Next]_(Cat!vars)
<1>0. CInv'
  BY CInvNext DEF CatInv
<1>1. CASE context_open
  BY <1>0, <1>1, OpenStep DEF Cat!Next
<1>2. CASE Kill
  BY <1>0, <1>2, KillStep DEF Cat!Next
<1>3. ASSUME NEW n \in Names, context_put_schema(n) PROVE CatInv' /\ Cat!Next
  BY <1>0, <1>3, PutStep DEF Cat!Next
<1>4. ASSUME NEW n \in Names, context_get_schema(n) PROVE CatInv' /\ Cat!Next
  BY <1>0, <1>4, FetchStep DEF Cat!Next
<1>5. ASSUME NEW n \in Names, context_del_schema(n) PROVE CatInv' /\ Cat!Next
  BY <1>0, <1>5, DropStep DEF Cat!Next
<1>6. ASSUME NEW n \in Names, bitcask_del(n) PROVE CatInv' /\ Cat!Next
  BY <1>0, <1>6, DelKeyStep DEF Cat!Next
<1>7. CASE UNCHANGED vars
  <2>1. UNCHANGED <<up, schema_cache, disk, meta_written, reply>>
    BY <1>7 DEF vars, disk
  <2>2. CatInv' /\ RecordedNames' = RecordedNames
    BY <1>0, <2>1, StayStep
  <2> QED
    BY <2>1, <2>2 DEF Cat!vars
<1> QED
  BY <1>1, <1>2, <1>3, <1>4, <1>5, <1>6, <1>7, NoCrashInOpen, NotKilledInCreate DEF Next

-----------------------------------------------------------------------------
(* A schema is recorded once, however often it is created, by whichever    *)
(* processes, and wherever they end: every open restores what tells the    *)
(* next create that the schema is there.                                   *)
THEOREM RecordedOnceAlways == Roomy => (Spec => []RecordedOnce)
<1> SUFFICES ASSUME Roomy PROVE Spec => []RecordedOnce
  OBVIOUS
<1>1. Init => CatInv
  BY CatInvInit
<1>2. CatInv /\ [Next]_vars => CatInv'
  BY CatStep
<1>3. CatInv => RecordedOnce
  BY DEF CatInv
<1> QED
  BY <1>1, <1>2, <1>3, PTL DEF Spec

(* Cache, meta file and reload implement the catalogue: a schema that was  *)
(* created is found from then on, under its name and by every process.     *)
THEOREM ContextImplementsCatalogue == Roomy => (Spec => ImplementsCatalogue)
<1> SUFFICES ASSUME Roomy PROVE Spec => ImplementsCatalogue
  OBVIOUS
<1>1. Init => CatInv
  BY CatInvInit
<1>2. CatInv /\ [Next]_vars => CatInv' /\ [Cat!Next]_(Cat!vars)
  BY CatStep
<1>3. Init => Cat!Init
  BY DEF Init, Cat!Init, RecordedNames, ToSet
<1> QED
  BY <1>1, <1>2, <1>3, PTL DEF Spec, ImplementsCatalogue, Cat!Spec
=============================================================================
