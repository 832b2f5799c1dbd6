------------------------------- MODULE Array -------------------------------
(***************************************************************************)
(* The vector of pointers of src/src/array.c, in which a reload collects   *)
(* schemas: the pointers that are in use and the number allocated.         *)
(***************************************************************************)
EXTENDS Integers, Sequences, SequencesExt

CONSTANT ARRAY_INIT_SIZE  \* the least capacity, 8

ASSUME ArrayAssumption == ARRAY_INIT_SIZE \in Nat \ {0}

array_init(count, auto_expand) ==
  [ptr |-> <<>>, auto_expand |-> auto_expand,
   max_count |-> IF count <= ARRAY_INIT_SIZE THEN ARRAY_INIT_SIZE ELSE count]

array_len(a) == Len(a.ptr)

(* A quarter more, rounded down: ARRAY_INCR_FACCTOR is 0.25. *)
array_expand(a) == [a EXCEPT !.max_count = (@ * 5) \div 4]

(* Index is 0 only for an empty array: the loop that makes room in front   *)
(* of a member does not end there.  An index outside the array is refused, *)
(* also where the array might have grown.                                  *)
array_add(a, data, index) ==
  LET m == IF array_len(a) >= a.max_count /\ a.auto_expand
           THEN array_expand(a) ELSE a
  IN  IF index >= a.max_count THEN a
      ELSE [m EXCEPT !.ptr = IF index >= Len(@) THEN Append(@, data)
                                                ELSE InsertAt(@, index + 1, data)]

array_push_back(a, data) == array_add(a, data, array_len(a))

(* The pointers beyond the last are NULL until something is stored there. *)
array_value(a, index, null) ==
  IF index < array_len(a) THEN a.ptr[index + 1] ELSE null
=============================================================================
