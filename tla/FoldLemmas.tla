----------------------------- MODULE FoldLemmas ------------------------------
(***************************************************************************)
(* Sums and folds, as the models take them from the community modules:     *)
(* what the proofs need to know of them, for any finite set.  A fold is    *)
(* defined by a function that is chosen, so that first such a function is  *)
(* shown to exist, and then what it is follows from its equation.  Both    *)
(* are by induction on the size of a set, which has to be put in terms of  *)
(* sets of numbers: the library's induction theorems have operators as     *)
(* parameters, which the provers do not take.                              *)
(***************************************************************************)
EXTENDS FiniteSetsExt, FiniteSetTheorems, WellFoundedInduction, TLAPS

(* Every set of numbers that is not empty has a least one. *)
LEMMA LeastNat ==
  ASSUME NEW T, T \subseteq Nat, T # {}
  PROVE  \E n \in T : \A m \in T : n <= m
<1>1. IsWellFoundedOn(OpToRel(<, Nat), Nat)
  BY NatLessThanWellFounded
<1>2. PICK n \in T : \A m \in T : ~ (<<m, n>> \in OpToRel(<, Nat))
  BY <1>1, WFMin, Zenon
<1>3. \A m \in T : ~ (m < n)
  BY <1>2 DEF OpToRel
<1> QED
  BY <1>3

(* Induction, for a property that is given as the set of numbers it has. *)
LEMMA SetInduction ==
  ASSUME NEW T, 0 \in T, \A n \in Nat : n \in T => n + 1 \in T
  PROVE  \A n \in Nat : n \in T
<1> SUFFICES ASSUME Nat \ T # {} PROVE FALSE
  OBVIOUS
<1>1. PICK n \in Nat \ T : \A m \in Nat \ T : n <= m
  <2> DEFINE U == Nat \ T
  <2>1. U \subseteq Nat /\ U # {}
    OBVIOUS
  <2> HIDE DEF U
  <2>2. \E n \in U : \A m \in U : n <= m
    BY <2>1, LeastNat
  <2> QED
    BY <2>2 DEF U
<1>2. n # 0 /\ n - 1 \in Nat
  OBVIOUS
<1>3. n - 1 \in T
  BY <1>1, <1>2
<1> QED
  BY <1>2, <1>3

-----------------------------------------------------------------------------
(* The function a fold over the set S is defined by. *)
IsFold(g, S, base, choose, step) ==
  g = [s \in SUBSET S |-> IF s = {} THEN base
                          ELSE step[choose[s], g[s \ {choose[s]}]]]

(* There is one, for every base, step and choice. *)
LEMMA FoldExists ==
  ASSUME NEW S, IsFiniteSet(S), NEW V, NEW base \in V,
         NEW choose \in [(SUBSET S) \ {{}} -> S],
         \A s \in (SUBSET S) \ {{}} : choose[s] \in s,
         NEW step \in [S \X V -> V]
  PROVE  \E g \in [SUBSET S -> V] : IsFold(g, S, base, choose, step)
<1> DEFINE Next(g, s) == IF s = {} THEN base ELSE step[choose[s], g[s \ {choose[s]}]]
           T == {n \in Nat : \E g \in [SUBSET S -> V] :
                    \A s \in SUBSET S : Cardinality(s) <= n => g[s] = Next(g, s)}
<1>0. \A s \in SUBSET S : /\ IsFiniteSet(s) /\ Cardinality(s) \in Nat
                          /\ s # {} => Cardinality(s \ {choose[s]}) = Cardinality(s) - 1
                          /\ s # {} => Cardinality(s) # 0
  <2> SUFFICES ASSUME NEW s \in SUBSET S
               PROVE  /\ IsFiniteSet(s) /\ Cardinality(s) \in Nat
                      /\ s # {} => Cardinality(s \ {choose[s]}) = Cardinality(s) - 1
                      /\ s # {} => Cardinality(s) # 0
    OBVIOUS
  <2>1. IsFiniteSet(s) /\ Cardinality(s) \in Nat
    BY FS_Subset, FS_CardinalityType
  <2> QED
    BY <2>1, FS_RemoveElement, FS_EmptySet
<1>1. 0 \in T
  <2> DEFINE g == [s \in SUBSET S |-> base]
  <2>1. g \in [SUBSET S -> V]
    OBVIOUS
  <2>2. ASSUME NEW s \in SUBSET S, Cardinality(s) <= 0 PROVE g[s] = Next(g, s)
    <3>1. s = {}
      <4> HIDE DEF Next, T, g
      <4>1. IsFiniteSet(s) /\ Cardinality(s) \in Nat
        BY <1>0
      <4> QED
        BY <2>2, <4>1, FS_EmptySet
    <3> QED
      BY <3>1
  <2> HIDE DEF Next
  <2> QED
    BY <2>1, <2>2
<1>2. \A n \in Nat : n \in T => n + 1 \in T
  <2> SUFFICES ASSUME NEW n \in Nat, n \in T PROVE n + 1 \in T
    OBVIOUS
  <2>1. PICK g \in [SUBSET S -> V] :
          \A s \in SUBSET S : Cardinality(s) <= n => g[s] = Next(g, s)
    OBVIOUS
  <2> DEFINE h == [s \in SUBSET S |-> IF Cardinality(s) <= n THEN g[s] ELSE Next(g, s)]
  <2>2. h \in [SUBSET S -> V]
    OBVIOUS
  <2>3. \A s \in SUBSET S : Cardinality(s) <= n + 1 => h[s] = Next(h, s)
    <3> SUFFICES ASSUME NEW s \in SUBSET S, Cardinality(s) <= n + 1
                 PROVE  h[s] = Next(h, s)
      OBVIOUS
    <3>1. h[s] = Next(g, s)
      BY <2>1
    <3>2. CASE s = {}
      BY <3>1, <3>2
    <3>3. CASE s # {}
      <4>1. s \ {choose[s]} \in SUBSET S /\ Cardinality(s \ {choose[s]}) <= n
        <5> HIDE DEF Next, T, h
        <5>1. Cardinality(s \ {choose[s]}) = Cardinality(s) - 1 /\ Cardinality(s) \in Nat
          BY <1>0, <3>3
        <5> QED
          BY <5>1
      <4>2. h[s \ {choose[s]}] = g[s \ {choose[s]}]
        BY <4>1
      <4> QED
        BY <3>1, <3>3, <4>2
    <3> QED
      BY <3>2, <3>3
  <2> HIDE DEF Next, h
  <2> QED
    BY <2>2, <2>3
<1>3. Cardinality(S) \in T
  <2> HIDE DEF T
  <2>1. \A n \in Nat : n \in T
    BY <1>1, <1>2, SetInduction
  <2> QED
    BY <2>1, FS_CardinalityType
<1>4. PICK g \in [SUBSET S -> V] :
        \A s \in SUBSET S : Cardinality(s) <= Cardinality(S) => g[s] = Next(g, s)
  BY <1>3
<1>5. \A s \in SUBSET S : g[s] = Next(g, s)
  BY <1>4, FS_Subset
<1>6. g = [s \in SUBSET S |-> Next(g, s)]
  BY <1>5
<1> QED
  BY <1>6 DEF IsFold

-----------------------------------------------------------------------------
(* The sum of a function over a set, as the models write it, and the       *)
(* function that it is defined by.                                         *)
SumOver(f, S) == MapThenSumSet(LAMBDA x : f[x], S)

AnyOf(s) == CHOOSE x \in s : TRUE

IsSum(g, f, S) ==
  g = [s \in SUBSET S |-> IF s = {} THEN 0 ELSE f[AnyOf(s)] + g[s \ {AnyOf(s)}]]

(* Any picks a member. *)
LEMMA AnyMember == \A s : s # {} => AnyOf(s) \in s
BY DEF AnyOf

(* What is left of a finite set without a member has fewer. *)
LEMMA OneLess ==
  ASSUME NEW s, IsFiniteSet(s), NEW x \in s
  PROVE  /\ IsFiniteSet(s \ {x})
         /\ Cardinality(s) \in Nat \ {0}
         /\ Cardinality(s \ {x}) = Cardinality(s) - 1
BY FS_RemoveElement, FS_CardinalityType, FS_EmptySet

(* Sums of numbers are defined. *)
LEMMA SumExists ==
  ASSUME NEW S, IsFiniteSet(S), NEW f \in [S -> Nat]
  PROVE  \E g \in [SUBSET S -> Nat] : IsSum(g, f, S)
<1> DEFINE choose == [s \in (SUBSET S) \ {{}} |-> AnyOf(s)]
           step == [p \in S \X Nat |-> f[p[1]] + p[2]]
<1>1. /\ choose \in [(SUBSET S) \ {{}} -> S]
      /\ \A s \in (SUBSET S) \ {{}} : choose[s] \in s
  BY AnyMember
<1>2. step \in [S \X Nat -> Nat]
  OBVIOUS
<1>3. PICK g \in [SUBSET S -> Nat] : IsFold(g, S, 0, choose, step)
  <2> HIDE DEF choose, step
  <2> QED
    BY <1>1, <1>2, FoldExists
<1>4. \A s \in SUBSET S : g[s] = IF s = {} THEN 0 ELSE step[choose[s], g[s \ {choose[s]}]]
  <2> HIDE DEF choose, step
  <2> QED
    BY <1>3 DEF IsFold
<1>5. \A s \in SUBSET S : s # {} =>
        step[choose[s], g[s \ {choose[s]}]] = f[AnyOf(s)] + g[s \ {AnyOf(s)}]
  BY AnyMember
<1>6. \A s \in SUBSET S : g[s] = IF s = {} THEN 0 ELSE f[AnyOf(s)] + g[s \ {AnyOf(s)}]
  <2> HIDE DEF choose, step
  <2> QED
    BY <1>4, <1>5
<1>7. g = [s \in SUBSET S |-> IF s = {} THEN 0 ELSE f[AnyOf(s)] + g[s \ {AnyOf(s)}]]
  BY <1>6
<1> QED
  BY <1>7 DEF IsSum

(* Two such functions agree wherever both are defined. *)
LEMMA SumUnique ==
  ASSUME NEW S, IsFiniteSet(S), NEW R, R \subseteq S, NEW f, NEW g, NEW h,
         IsSum(g, f, S), IsSum(h, f, R)
  PROVE  \A s \in SUBSET R : g[s] = h[s]
<1> DEFINE T == {n \in Nat : \A s \in SUBSET R : Cardinality(s) <= n => g[s] = h[s]}
<1>0. \A s \in SUBSET R : IsFiniteSet(s) /\ Cardinality(s) \in Nat
  BY FS_Subset, FS_CardinalityType
<1>1. 0 \in T
  <2> SUFFICES ASSUME NEW s \in SUBSET R, Cardinality(s) <= 0 PROVE g[s] = h[s]
    OBVIOUS
  <2>1. s = {}
    BY <1>0, FS_EmptySet
  <2> QED
    BY <2>1 DEF IsSum
<1>2. \A n \in Nat : n \in T => n + 1 \in T
  <2> SUFFICES ASSUME NEW n \in Nat, n \in T,
                      NEW s \in SUBSET R, Cardinality(s) <= n + 1
               PROVE  g[s] = h[s]
    OBVIOUS
  <2>1. CASE s = {}
    BY <2>1 DEF IsSum
  <2>2. CASE s # {}
    <3>1. /\ s \ {AnyOf(s)} \in SUBSET R
          /\ Cardinality(s \ {AnyOf(s)}) <= n
      BY <1>0, <2>2, AnyMember, OneLess
    <3>2. g[s \ {AnyOf(s)}] = h[s \ {AnyOf(s)}]
      BY <3>1
    <3> QED
      BY <2>2, <3>2 DEF IsSum
  <2> QED
    BY <2>1, <2>2
<1>3. \A n \in Nat : n \in T
  <2> HIDE DEF T
  <2> QED
    BY <1>1, <1>2, SetInduction
<1> QED
  BY <1>0, <1>3

(* A sum is what such a function says of it. *)
LEMMA SumIs ==
  ASSUME NEW S, IsFiniteSet(S), NEW f, NEW g, IsSum(g, f, S), NEW R \in SUBSET S,
         \E h : IsSum(h, f, R)
  PROVE  SumOver(f, R) = g[R]
<1> DEFINE D(h) == h = [s \in SUBSET R |-> IF s = {} THEN 0 ELSE f[AnyOf(s)] + h[s \ {AnyOf(s)}]]
           c == CHOOSE h : D(h)
<1>1. SumOver(f, R) = c[R]
  BY DEF SumOver, MapThenSumSet, MapThenFoldSet, AnyOf
<1>2. D(c)
  <2>1. \E h : D(h)
    BY DEF IsSum
  <2> HIDE DEF D
  <2> QED
    BY <2>1, Zenon
<1>3. IsSum(c, f, R)
  BY <1>2 DEF IsSum
<1> HIDE DEF c
<1> QED
  BY <1>1, <1>3, SumUnique

(* Whichever member is taken out of it first, a sum is the same. *)
LEMMA SumOrder ==
  ASSUME NEW S, IsFiniteSet(S), NEW f \in [S -> Nat], NEW g \in [SUBSET S -> Nat],
         IsSum(g, f, S)
  PROVE  \A s \in SUBSET S : \A x \in s : g[s] = f[x] + g[s \ {x}]
<1> DEFINE T == {n \in Nat : \A s \in SUBSET S : Cardinality(s) <= n =>
                    \A x \in s : g[s] = f[x] + g[s \ {x}]}
<1>0. \A s \in SUBSET S : IsFiniteSet(s) /\ Cardinality(s) \in Nat
  BY FS_Subset, FS_CardinalityType
<1>1. 0 \in T
  BY <1>0, FS_EmptySet
<1>2. ASSUME NEW n \in Nat, n \in T,
             NEW s \in SUBSET S, Cardinality(s) <= n + 1, NEW x \in s
      PROVE  g[s] = f[x] + g[s \ {x}]
  <2>0. \A r \in SUBSET S : Cardinality(r) <= n => \A z \in r : g[r] = f[z] + g[r \ {z}]
    BY <1>2
  <2> HIDE DEF T
  <2> DEFINE y == AnyOf(s)
  <2>1. y \in s
    BY AnyMember
  <2>2. g[s] = f[y] + g[s \ {y}]
    BY DEF IsSum
  <2>3. CASE x = y
    BY <2>2, <2>3
  <2>4. CASE x # y
    <3> HIDE DEF y
    <3>1. /\ Cardinality(s \ {x}) <= n /\ Cardinality(s \ {y}) <= n
          /\ s \ {x} \in SUBSET S /\ s \ {y} \in SUBSET S
          /\ y \in s \ {x} /\ x \in s \ {y}
      BY <1>0, <1>2, <2>1, <2>4, OneLess
    <3>2. g[s \ {x}] = f[y] + g[(s \ {x}) \ {y}] /\ g[s \ {y}] = f[x] + g[(s \ {y}) \ {x}]
      BY <2>0, <3>1
    <3>3. (s \ {x}) \ {y} = (s \ {y}) \ {x} /\ (s \ {x}) \ {y} \in SUBSET S
      OBVIOUS
    <3>4. f[x] \in Nat /\ f[y] \in Nat /\ g[(s \ {x}) \ {y}] \in Nat
      BY <2>1, <3>3
    <3>5. f[y] + (f[x] + g[(s \ {x}) \ {y}]) = f[x] + (f[y] + g[(s \ {x}) \ {y}])
      BY <3>4
    <3>6. g[s] = f[y] + (f[x] + g[(s \ {x}) \ {y}])
      BY <2>2, <3>2, <3>3, Zenon
    <3> QED
      BY <3>2, <3>5, <3>6, Zenon
  <2> QED
    BY <2>3, <2>4
<1>3. ASSUME NEW n \in Nat, n \in T PROVE n + 1 \in T
  <2>1. \A s \in SUBSET S : Cardinality(s) <= n + 1 =>
          \A x \in s : g[s] = f[x] + g[s \ {x}]
    <3> HIDE DEF T
    <3> QED
      BY <1>2, <1>3
  <2> QED
    BY <2>1
<1>4. \A n \in Nat : n \in T
  <2> HIDE DEF T
  <2> QED
    BY <1>1, <1>3, SetInduction
<1>5. ASSUME NEW s \in SUBSET S, NEW x \in s PROVE g[s] = f[x] + g[s \ {x}]
  <2>1. Cardinality(s) \in T
    BY <1>0, <1>4
  <2> QED
    BY <1>0, <2>1
<1> QED
  BY <1>5

-----------------------------------------------------------------------------
(* What the proofs need of sums: a sum is a number, 0 over no element, and *)
(* loses with an element what the function is there.                       *)
LEMMA SumFacts ==
  ASSUME NEW S, IsFiniteSet(S), NEW f \in [S -> Nat]
  PROVE  /\ SumOver(f, {}) = 0
         /\ \A R \in SUBSET S : SumOver(f, R) \in Nat
         /\ \A R \in SUBSET S : \A x \in R : SumOver(f, R) = f[x] + SumOver(f, R \ {x})
<1>1. PICK g \in [SUBSET S -> Nat] : IsSum(g, f, S)
  BY SumExists
<1>2. \A R \in SUBSET S : SumOver(f, R) = g[R]
  <2> SUFFICES ASSUME NEW R \in SUBSET S PROVE SumOver(f, R) = g[R]
    OBVIOUS
  <2> DEFINE h == [s \in SUBSET R |-> g[s]]
  <2>1. h = [s \in SUBSET R |-> IF s = {} THEN 0 ELSE f[AnyOf(s)] + h[s \ {AnyOf(s)}]]
    BY <1>1 DEF IsSum
  <2>2. IsSum(h, f, R)
    BY <2>1 DEF IsSum
  <2> HIDE DEF h
  <2> QED
    BY <1>1, <2>2, SumIs
<1>3. g[{}] = 0
  BY <1>1 DEF IsSum
<1>4. SumOver(f, {}) = 0
  BY <1>2, <1>3
<1>5. ASSUME NEW R \in SUBSET S PROVE SumOver(f, R) \in Nat
  BY <1>2
<1>6. ASSUME NEW R \in SUBSET S, NEW x \in R
      PROVE  SumOver(f, R) = f[x] + SumOver(f, R \ {x})
  <2>1. g[R] = f[x] + g[R \ {x}]
    BY <1>1, SumOrder
  <2>2. R \ {x} \in SUBSET S
    OBVIOUS
  <2> QED
    BY <1>2, <2>1, <2>2, Zenon
<1> QED
  BY <1>4, <1>5, <1>6

(* It depends on the function only where it is taken. *)
LEMMA SumSame ==
  ASSUME NEW R, IsFiniteSet(R), NEW f, NEW g, \A x \in R : f[x] = g[x] /\ f[x] \in Nat
  PROVE  SumOver(f, R) = SumOver(g, R)
<1> DEFINE e == [x \in R |-> f[x]]
<1>1. e \in [R -> Nat]
  OBVIOUS
<1>2. PICK h \in [SUBSET R -> Nat] : IsSum(h, e, R)
  <2> HIDE DEF e
  <2> QED
    BY <1>1, SumExists
<1>3. \A s \in SUBSET R : s # {} => e[AnyOf(s)] = f[AnyOf(s)] /\ e[AnyOf(s)] = g[AnyOf(s)]
  BY AnyMember
<1>4. IsSum(h, f, R) /\ IsSum(h, g, R)
  <2>1. \A s \in SUBSET R : h[s] = IF s = {} THEN 0 ELSE e[AnyOf(s)] + h[s \ {AnyOf(s)}]
    <3> HIDE DEF e
    <3> QED
      BY <1>2 DEF IsSum
  <2> HIDE DEF e
  <2>2. h = [s \in SUBSET R |-> IF s = {} THEN 0 ELSE f[AnyOf(s)] + h[s \ {AnyOf(s)}]]
    BY <1>3, <2>1
  <2>3. h = [s \in SUBSET R |-> IF s = {} THEN 0 ELSE g[AnyOf(s)] + h[s \ {AnyOf(s)}]]
    BY <1>3, <2>1
  <2> QED
    BY <2>2, <2>3 DEF IsSum
<1> HIDE DEF e
<1> QED
  BY <1>4, SumIs

(* Nothing, taken any number of times, is nothing. *)
LEMMA SumZero ==
  ASSUME NEW S, IsFiniteSet(S), NEW f \in [S -> Nat], \A x \in S : f[x] = 0
  PROVE  SumOver(f, S) = 0
<1> DEFINE T == {n \in Nat : \A R \in SUBSET S : Cardinality(R) <= n => SumOver(f, R) = 0}
<1>0. \A R \in SUBSET S : IsFiniteSet(R) /\ Cardinality(R) \in Nat
  BY FS_Subset, FS_CardinalityType
<1>1. 0 \in T
  <2> SUFFICES ASSUME NEW R \in SUBSET S, Cardinality(R) <= 0 PROVE SumOver(f, R) = 0
    OBVIOUS
  <2>1. R = {}
    BY <1>0, FS_EmptySet
  <2> QED
    BY <2>1, SumFacts
<1>2. ASSUME NEW n \in Nat, n \in T PROVE n + 1 \in T
  <2> SUFFICES ASSUME NEW R \in SUBSET S, Cardinality(R) <= n + 1
               PROVE  SumOver(f, R) = 0
    OBVIOUS
  <2>0. CASE R = {}
    BY <2>0, SumFacts
  <2> SUFFICES ASSUME R # {} PROVE SumOver(f, R) = 0
    BY <2>0
  <2>1. PICK x \in R : TRUE
    OBVIOUS
  <2>2. Cardinality(R \ {x}) <= n /\ R \ {x} \in SUBSET S
    BY <1>0, <2>1, OneLess
  <2>3. SumOver(f, R \ {x}) = 0
    BY <1>2, <2>2
  <2>4. SumOver(f, R) = f[x] + SumOver(f, R \ {x})
    BY <2>1, SumFacts
  <2> QED
    BY <2>1, <2>3, <2>4
<1>3. \A n \in Nat : n \in T
  <2> HIDE DEF T
  <2> QED
    BY <1>1, <1>2, SetInduction
<1>4. Cardinality(S) \in T
  BY <1>0, <1>3
<1> QED
  BY <1>0, <1>4

(* Two functions that differ at x only. *)
Differ(f, g, S, x) ==
  /\ f \in [S -> Nat] /\ g \in [S -> Nat] /\ x \in S
  /\ \A y \in S \ {x} : g[y] = f[y]

(* A sum changes as much as the function does. *)
LEMMA SumChange ==
  ASSUME NEW S, IsFiniteSet(S), NEW f, NEW g, NEW x, Differ(f, g, S, x)
  PROVE  /\ SumOver(g, S) = SumOver(f, S) - f[x] + g[x]
         /\ SumOver(f, S) \in Nat /\ f[x] <= SumOver(f, S)
<1>0. /\ f \in [S -> Nat] /\ g \in [S -> Nat] /\ x \in S
      /\ \A y \in S \ {x} : g[y] = f[y]
  BY DEF Differ
<1>1. SumOver(g, S) = g[x] + SumOver(g, S \ {x})
  BY <1>0, SumFacts
<1>2. SumOver(f, S) = f[x] + SumOver(f, S \ {x})
  BY <1>0, SumFacts
<1>3. SumOver(g, S \ {x}) = SumOver(f, S \ {x})
  <2>1. IsFiniteSet(S \ {x})
    BY FS_Subset
  <2> DEFINE R == S \ {x}
  <2>2. \A y \in R : g[y] = f[y] /\ g[y] \in Nat
    BY <1>0
  <2> HIDE DEF R
  <2>3. SumOver(g, R) = SumOver(f, R)
    BY <2>1, <2>2, SumSame DEF R
  <2> QED
    BY <2>3 DEF R
<1>4. SumOver(f, S \ {x}) \in Nat /\ f[x] \in Nat /\ g[x] \in Nat /\ SumOver(f, S) \in Nat
  BY <1>0, SumFacts
<1> QED
  BY <1>1, <1>2, <1>3, <1>4

-----------------------------------------------------------------------------
(* Folds along a sequence take the last position first.                    *)
LEMMA LastOf ==
  ASSUME NEW n \in Nat
  PROVE  /\ \A s \in SUBSET (1 .. n) : s # {} => Max(s) \in s
         /\ \A k \in 1 .. n : Max(1 .. k) = k /\ (1 .. k) \ {k} = 1 .. (k - 1)
<1>1. ASSUME NEW s \in SUBSET (1 .. n), s # {} PROVE Max(s) \in s
  <2> DEFINE above == {m \in Nat : \A x \in s : x <= m}
  <2>1. above \subseteq Nat /\ above # {}
    <3>1. n \in above
      OBVIOUS
    <3> QED
      BY <3>1
  <2>2. PICK m \in above : \A j \in above : m <= j
    <3> HIDE DEF above
    <3> QED
      BY <2>1, LeastNat
  <2>3. m \in s
    <3>1. PICK x \in s : TRUE
      BY <1>1
    <3>2. m \in Nat /\ x \in 1 .. n /\ x <= m
      BY <2>2, <3>1
    <3>3. m - 1 \in Nat /\ ~ (m <= m - 1)
      BY <3>2
    <3>4. m - 1 \notin above
      BY <2>2, <3>3
    <3>5. PICK y \in s : ~ (y <= m - 1)
      BY <3>3, <3>4
    <3> QED
      BY <2>2, <3>2, <3>5
  <2>4. \A y \in s : m >= y
    BY <2>2
  <2> QED
    BY <2>3, <2>4 DEF Max
<1>2. ASSUME NEW k \in 1 .. n PROVE Max(1 .. k) = k /\ (1 .. k) \ {k} = 1 .. (k - 1)
  <2>1. k \in 1 .. k /\ \A y \in 1 .. k : k >= y
    OBVIOUS
  <2>2. \A x \in 1 .. k : (\A y \in 1 .. k : x >= y) => x = k
    OBVIOUS
  <2> QED
    BY <2>1, <2>2 DEF Max
<1> QED
  BY <1>1, <1>2

(* The function such a fold is defined by. *)
IsRun(g, n, base, step) ==
  \A s \in SUBSET (1 .. n) :
    g[s] = IF s = {} THEN base ELSE step[Max(s), g[s \ {Max(s)}]]

(* There is such a run over every interval. *)
LEMMA RunExists ==
  ASSUME NEW n \in Nat, NEW V, NEW base \in V, NEW step \in [(1 .. n) \X V -> V]
  PROVE  \E g \in [SUBSET (1 .. n) -> V] : IsRun(g, n, base, step)
<1> DEFINE S == 1 .. n
           choose == [s \in (SUBSET S) \ {{}} |-> Max(s)]
<1>1. IsFiniteSet(S)
  BY FS_Interval
<1>2. /\ choose \in [(SUBSET S) \ {{}} -> S]
      /\ \A s \in (SUBSET S) \ {{}} : choose[s] \in s /\ choose[s] = Max(s)
  BY LastOf
<1> HIDE DEF S, choose
<1>3. PICK g \in [SUBSET S -> V] : IsFold(g, S, base, choose, step)
  BY <1>1, <1>2, FoldExists DEF S
<1>4. \A s \in SUBSET S : g[s] = IF s = {} THEN base
                                 ELSE step[choose[s], g[s \ {choose[s]}]]
  BY <1>3 DEF IsFold
<1>5. \A s \in SUBSET S : g[s] = IF s = {} THEN base ELSE step[Max(s), g[s \ {Max(s)}]]
  BY <1>2, <1>4
<1> QED
  BY <1>5 DEF S, IsRun
=============================================================================
