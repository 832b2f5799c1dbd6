---------------------------- MODULE SchemaProofs ----------------------------
(***************************************************************************)
(* Theorems about Schema, for every set of keys and values, every record   *)
(* size and every limit.                                                   *)
(*                                                                         *)
(* The inductive invariant is IInv.  LeafIsLatest alone is not inductive:  *)
(* that a new record is behind every earlier one of its key needs the      *)
(* tiling of the files, the agreement of cur_size with the file's length,  *)
(* and the emptiness of the files not yet added.  That a get stays within  *)
(* its memory in turn rests on LeafIsLatest.                               *)
(***************************************************************************)
EXTENDS Schema, FiniteSetTheorems, TLAPS

(* The counters of the file table agree, and name a file. *)
CountersAgree == file_cnt = fid

(* The file table is the one first allocated, and has a slot for each file *)
(* added: the step that would have it reallocated is past the first one    *)
(* that is undefined.                                                      *)
TableIsFirst == slots = MinLen /\ fid <= MinLen

(* The whole inductive invariant. *)
IInv ==
  /\ TypeOK
  /\ CountersAgree
  /\ FilesTiled
  /\ FilesFillInOrder
  /\ LeafIsLatest
  /\ TableIsFirst
  /\ UndefinedAtTableEnd

USE GarbageAssumption, NoValueAssumption, SizeAssumption, TableAssumption
USE DEF data_file, Tiled, Writable, Indexed, table

-----------------------------------------------------------------------------
(* Dividing a natural number by a positive one gives a natural number. *)
LEMMA DivNat ==
  ASSUME NEW n \in Nat, NEW d \in Nat \ {0}
  PROVE  n \div d \in Nat
OBVIOUS

(* A record's size is positive. *)
LEMMA RecSizePos ==
  ASSUME NEW k \in Keys, NEW v \in Values
  PROVE  RecSize[k][v] \in Nat \ {0}
OBVIOUS

(* What a file gains by an append. *)
LEMMA AppendedFacts ==
  ASSUME NEW file \in data_file,
         NEW k \in Keys, NEW v \in Values
  PROVE  /\ Appended(file, k, v) \in data_file
         /\ Appended(file, k, v).len = file.len + RecSize[k][v]
         /\ Appended(file, k, v).recs =
              file.recs \cup {[off |-> file.len, size |-> RecSize[k][v],
                               key |-> k, val |-> v]}
BY RecSizePos DEF Appended, kv_value

(* What rotation does to the file table and to the sizes, whichever way    *)
(* the check of the last file comes out.                                   *)
LEMMA RotateFacts ==
  ASSUME IInv, Rotate
  PROVE  /\ fid' \in 1 .. MaxFiles
         /\ file_cnt' = fid'
         /\ slots' \in Nat
         /\ fid' - 1 \in FileIds
         /\ fid <= fid'
         /\ Sizes = cur_size
         /\ Sizes[fid' - 1] = disk[fid' - 1].len
         /\ Sizes[fid' - 1] < MaxDataFileSize
         /\ \A f \in FileIds : f < fid' - 1 => Sizes[f] >= MaxDataFileSize
         /\ \A f \in FileIds : f >= fid' => disk[f] = EmptyFile
<1> USE DEF IInv, CountersAgree, FileIds
<1>0. disk \in [FileIds -> data_file]
      /\ cur_size \in [FileIds -> Nat] /\ fid \in 1 .. MaxFiles
      /\ slots \in Nat
  BY DEF TypeOK
<1>1. CASE Full
  <2>1. fid < MaxFiles /\ fid' = fid + 1 /\ file_cnt' = fid + 1
        /\ slots' = SlotsFor(fid, slots)
    BY <1>1 DEF Rotate, schema_add_data_file
  <2>2. slots' \in Nat
    <3>1. (MinLen * 2) \div PtrSize \in Nat
      BY DivNat
    <3> QED
      BY <2>1, <1>0, <3>1 DEF SlotsFor
  <2>3. cur_size[fid - 1] >= MaxDataFileSize
    BY <1>1 DEF Full
  <2>4. disk[fid] = EmptyFile /\ cur_size[fid] = 0
    <3>1. fid \in FileIds
      BY <2>1, <1>0
    <3>2. disk[fid] = EmptyFile
      BY <3>1, <1>0 DEF FilesFillInOrder
    <3>3. cur_size[fid] = disk[fid].len
      BY <3>1 DEF FilesTiled
    <3> QED
      BY <3>2, <3>3 DEF EmptyFile
  <2>5. Sizes = cur_size
    BY <2>4, <1>1, <1>0 DEF Sizes
  <2>6. \A f \in FileIds : f < fid => cur_size[f] >= MaxDataFileSize
    BY <2>3, <1>0 DEF FilesFillInOrder
  <2>7. \A f \in FileIds : f >= fid => disk[f] = EmptyFile
    BY DEF FilesFillInOrder
  <2> QED
    BY <2>1, <2>2, <2>4, <2>5, <2>6, <2>7, <1>0 DEF EmptyFile
<1>2. CASE ~Full
  <2>1. fid' = fid /\ file_cnt' = fid /\ slots' = slots
    BY <1>2 DEF Rotate
  <2>2. Sizes = cur_size /\ cur_size[fid - 1] < MaxDataFileSize
    BY <1>2, <1>0 DEF Sizes, Full
  <2>3. cur_size[fid - 1] = disk[fid - 1].len
    BY <1>0 DEF FilesTiled
  <2> QED
    BY <2>1, <2>2, <2>3, <1>0 DEF FilesFillInOrder
<1> QED
  BY <1>1, <1>2

-----------------------------------------------------------------------------
(* A freshly created schema. *)
LEMMA InitInv == Init => IInv
<1> SUFFICES ASSUME Init PROVE IInv
  OBVIOUS
<1> USE DEF Init, FileIds, EmptyFile
<1>1. TypeOK
  <2>1. disk \in [FileIds -> data_file] /\ index_tree \in [Keys -> kv_index \cup {NoLeaf}]
    BY DEF kv_value, NoLeaf
  <2>2. reply \in Replies /\ undefined \in BOOLEAN
    BY DEF Replies
  <2> QED
    BY <2>1, <2>2 DEF TypeOK
<1>2. CountersAgree
  BY DEF CountersAgree
<1>3. FilesTiled
  BY DEF FilesTiled
<1>4. FilesFillInOrder
  BY DEF FilesFillInOrder
<1>5. LeafIsLatest
  BY DEF LeafIsLatest, Live
<1>6. TableIsFirst /\ UndefinedAtTableEnd
  BY DEF TableIsFirst, UndefinedAtTableEnd
<1> QED
  BY <1>1, <1>2, <1>3, <1>4, <1>5, <1>6 DEF IInv

-----------------------------------------------------------------------------
(* A put that stores its record, one conjunct of the invariant at a time.  *)

(* The file a put writes to, and the leaf and the record it writes. *)
Target == fid' - 1
NewLeaf(k, v) ==
  [fid |-> Target, offset |-> disk[Target].len, size |-> RecSize[k][v]]
NewRec(k, v) ==
  [off |-> disk[Target].len, size |-> RecSize[k][v], key |-> k, val |-> v]

(* The state after a stored put, in those terms. *)
LEMMA PutStoredFacts ==
  ASSUME IInv, NEW k \in Keys, NEW v \in Values, PutStored(k, v)
  PROVE  /\ Target \in FileIds
         /\ RecSize[k][v] < MaxKvSize
         /\ disk[Target].len \in Nat
         /\ disk[Target].len < MaxDataFileSize
         /\ NewLeaf(k, v) \in kv_index
         /\ NewRec(k, v) \in kv_value
         /\ cur_size' = [cur_size EXCEPT ![Target] = disk[Target].len + RecSize[k][v]]
         /\ disk' = [disk EXCEPT ![Target] = Appended(disk[Target], k, v)]
         /\ index_tree' = [index_tree EXCEPT ![k] = NewLeaf(k, v)]
<1>0. TypeOK
  BY DEF IInv
<1>1. Rotate
  BY DEF PutStored
<1>2. Target \in FileIds /\ Sizes = cur_size /\ Sizes[Target] = disk[Target].len
      /\ Sizes[Target] < MaxDataFileSize
  BY <1>1, RotateFacts DEF Target
<1>3. RecSize[k][v] \in Nat \ {0} /\ RecSize[k][v] < MaxKvSize
  BY RecSizePos DEF PutStored
<1>4. disk[Target].len \in Nat
  BY <1>0, <1>2 DEF TypeOK
<1>5. /\ cur_size' = [cur_size EXCEPT ![Target] = disk[Target].len + RecSize[k][v]]
      /\ disk' = [disk EXCEPT ![Target] = Appended(disk[Target], k, v)]
      /\ index_tree' = [index_tree EXCEPT ![k] = NewLeaf(k, v)]
  BY <1>2 DEF PutStored, Target, NewLeaf
<1>6. NewLeaf(k, v) \in kv_index /\ NewRec(k, v) \in kv_value
  BY <1>2, <1>3, <1>4 DEF NewLeaf, NewRec, kv_index, kv_value
<1> QED
  BY <1>2, <1>3, <1>4, <1>5, <1>6

(* What the files hold after a stored put. *)
LEMMA PutStoredFiles ==
  ASSUME IInv, NEW k \in Keys, NEW v \in Values, PutStored(k, v)
  PROVE  /\ disk' \in [FileIds -> data_file]
         /\ disk'[Target].len = disk[Target].len + RecSize[k][v]
         /\ disk'[Target].recs = disk[Target].recs \cup {NewRec(k, v)}
         /\ cur_size'[Target] = disk[Target].len + RecSize[k][v]
         /\ \A f \in FileIds \ {Target} :
              disk'[f] = disk[f] /\ cur_size'[f] = cur_size[f]
         /\ \A r \in disk[Target].recs : r.off + r.size <= disk[Target].len
<1>0. TypeOK /\ FilesTiled
  BY DEF IInv
<1>1. /\ Target \in FileIds
      /\ disk' = [disk EXCEPT ![Target] = Appended(disk[Target], k, v)]
      /\ cur_size' = [cur_size EXCEPT ![Target] = disk[Target].len + RecSize[k][v]]
  BY PutStoredFacts
<1>2. disk[Target] \in data_file
  BY <1>0, <1>1 DEF TypeOK
<1>3. Appended(disk[Target], k, v) \in data_file
  BY <1>2, AppendedFacts
<1>4. disk'[Target] = Appended(disk[Target], k, v)
  BY <1>0, <1>1 DEF TypeOK
<1>5. \A r \in disk[Target].recs : r.off + r.size <= disk[Target].len
  BY <1>0, <1>1 DEF FilesTiled
<1>6. /\ disk'[Target].len = disk[Target].len + RecSize[k][v]
      /\ disk'[Target].recs = disk[Target].recs \cup {NewRec(k, v)}
  BY <1>2, <1>4, AppendedFacts DEF NewRec
<1> QED
  BY <1>0, <1>1, <1>3, <1>5, <1>6 DEF TypeOK

(* A put keeps types and counters, *)
LEMMA PutStoredType ==
  ASSUME IInv, NEW k \in Keys, NEW v \in Values, PutStored(k, v), UNCHANGED undefined
  PROVE  TypeOK' /\ CountersAgree'
<1>0. TypeOK /\ Rotate /\ kv_count' \in Nat /\ reply' = <<"put", <<k, v>>, 0>>
  BY DEF IInv, TypeOK, PutStored
<1>1. fid' \in 1 .. MaxFiles /\ file_cnt' = fid' /\ slots' \in Nat
  BY <1>0, RotateFacts
<1>2. disk' \in [FileIds -> data_file]
  BY PutStoredFiles
<1>3. cur_size' \in [FileIds -> Nat]
  BY <1>0, PutStoredFacts, RecSizePos DEF TypeOK
<1>4. index_tree' \in [Keys -> kv_index \cup {NoLeaf}]
  BY <1>0, PutStoredFacts DEF TypeOK
<1>5. reply' \in Replies
  BY <1>0 DEF Replies
<1> QED
  BY <1>0, <1>1, <1>2, <1>3, <1>4, <1>5 DEF TypeOK, CountersAgree, IInv

(* ... the tiling, *)
LEMMA PutStoredTiled ==
  ASSUME IInv, NEW k \in Keys, NEW v \in Values, PutStored(k, v)
  PROVE  FilesTiled'
<1>0. TypeOK /\ FilesTiled
  BY DEF IInv
<1>1. SUFFICES ASSUME NEW f \in FileIds
               PROVE  /\ cur_size'[f] = disk'[f].len
                      /\ \A r \in disk'[f].recs : r.off + r.size <= disk'[f].len
                      /\ \A r, s \in disk'[f].recs :
                           r # s => r.off + r.size <= s.off \/ s.off + s.size <= r.off
  BY DEF FilesTiled
<1>2. CASE f # Target
  BY <1>0, <1>2, PutStoredFiles DEF FilesTiled
<1>3. CASE f = Target
  <2>1. /\ cur_size'[f] = disk[f].len + RecSize[k][v]
        /\ disk'[f].len = disk[f].len + RecSize[k][v]
        /\ disk'[f].recs = disk[f].recs \cup {NewRec(k, v)}
        /\ \A r \in disk[f].recs : r.off + r.size <= disk[f].len
    BY <1>3, PutStoredFiles
  <2>2. \A r \in disk[f].recs : r.off \in Nat /\ r.size \in Nat
    BY <1>0 DEF TypeOK, kv_value
  <2>3. \A r, s \in disk[f].recs :
          r # s => r.off + r.size <= s.off \/ s.off + s.size <= r.off
    BY <1>0 DEF FilesTiled
  <2>4. NewRec(k, v).off = disk[f].len /\ NewRec(k, v).size = RecSize[k][v]
    BY <1>3 DEF NewRec
  <2>5. disk[f].len \in Nat /\ RecSize[k][v] \in Nat
    BY <1>0, RecSizePos DEF TypeOK
  <2> QED
    BY <2>1, <2>2, <2>3, <2>4, <2>5
<1> QED
  BY <1>2, <1>3

(* ... and the order in which files fill. *)
LEMMA PutStoredFill ==
  ASSUME IInv, NEW k \in Keys, NEW v \in Values, PutStored(k, v)
  PROVE  FilesFillInOrder'
<1>0. TypeOK /\ FilesFillInOrder /\ Rotate
  BY DEF IInv, PutStored
<1>1. /\ fid' \in 1 .. MaxFiles
      /\ \A f \in FileIds : f < fid' - 1 => cur_size[f] >= MaxDataFileSize
      /\ \A f \in FileIds : f >= fid' => disk[f] = EmptyFile
  BY <1>0, RotateFacts
<1>2. SUFFICES ASSUME NEW f \in FileIds
               PROVE  /\ f < fid' - 1 => cur_size'[f] >= MaxDataFileSize
                      /\ \A r \in disk'[f].recs : r.off < MaxDataFileSize
                      /\ f >= fid' => disk'[f] = EmptyFile
  BY DEF FilesFillInOrder
<1>3. f \in Int /\ Target = fid' - 1 /\ fid' \in Int
  BY <1>1 DEF FileIds, Target
<1>4. CASE f # Target
  BY <1>0, <1>1, <1>3, <1>4, PutStoredFiles DEF FilesFillInOrder
<1>5. CASE f = Target
  <2>1. /\ disk'[f].recs = disk[f].recs \cup {NewRec(k, v)}
        /\ NewRec(k, v).off < MaxDataFileSize
        /\ \A r \in disk[f].recs : r.off < MaxDataFileSize
    BY <1>0, <1>5, PutStoredFacts, PutStoredFiles DEF FilesFillInOrder, NewRec
  <2> QED
    BY <2>1, <1>3, <1>5
<1> QED
  BY <1>4, <1>5

(* The one step that needs the whole invariant: the record just written is *)
(* behind every earlier record of its key, because it is at the end of the *)
(* last file that holds anything.                                          *)
LEMMA PutStoredLatest ==
  ASSUME IInv, NEW k \in Keys, NEW v \in Values, PutStored(k, v)
  PROVE  LeafIsLatest'
<1>0. TypeOK /\ LeafIsLatest /\ Rotate
  BY DEF IInv, PutStored
<1>1. /\ fid' \in 1 .. MaxFiles
      /\ \A f \in FileIds : f >= fid' => disk[f] = EmptyFile
  BY <1>0, RotateFacts
<1>2. /\ Target \in FileIds
      /\ index_tree' = [index_tree EXCEPT ![k] = NewLeaf(k, v)]
      /\ NewLeaf(k, v).fid = Target
      /\ NewLeaf(k, v).offset = disk[Target].len
      /\ NewLeaf(k, v).size = RecSize[k][v]
  BY PutStoredFacts DEF NewLeaf
<1>3. /\ disk'[Target].recs = disk[Target].recs \cup {NewRec(k, v)}
      /\ \A f \in FileIds \ {Target} : disk'[f] = disk[f]
      /\ \A r \in disk[Target].recs : r.off + r.size <= disk[Target].len
  BY PutStoredFiles
<1>4. /\ NewRec(k, v).off = disk[Target].len
      /\ NewRec(k, v).size = RecSize[k][v]
      /\ NewRec(k, v).key = k
  BY DEF NewRec
<1>5. SUFFICES ASSUME NEW j \in Keys, Live(j)'
               PROVE  /\ \E r \in disk'[index_tree'[j].fid].recs :
                           /\ r.off = index_tree'[j].offset
                           /\ r.size = index_tree'[j].size
                           /\ r.key = j
                      /\ \A f \in FileIds : \A r \in disk'[f].recs :
                           r.key = j => NotAfter(f, r, index_tree'[j])
  BY DEF LeafIsLatest
<1>6. CASE j = k
  <2>1. index_tree'[j] = NewLeaf(k, v)
    BY <1>0, <1>2, <1>6 DEF TypeOK
  <2>2. \E r \in disk'[index_tree'[j].fid].recs :
          /\ r.off = index_tree'[j].offset
          /\ r.size = index_tree'[j].size
          /\ r.key = j
    BY <1>2, <1>3, <1>4, <1>6, <2>1
  <2>3. ASSUME NEW f \in FileIds, NEW r \in disk'[f].recs
        PROVE  NotAfter(f, r, NewLeaf(k, v))
    <3>1. CASE f = Target
      <4>1. CASE r = NewRec(k, v)
        BY <1>0, <1>2, <1>4, <3>1, <4>1 DEF NotAfter, TypeOK
      <4>2. CASE r \in disk[Target].recs
        <5>1. r.off \in Nat /\ r.size \in Nat /\ disk[Target].len \in Nat
          BY <1>0, <1>2, <4>2 DEF TypeOK, kv_value
        <5>2. r.off <= disk[Target].len
          BY <1>3, <4>2, <5>1
        <5> QED
          BY <1>2, <3>1, <5>2 DEF NotAfter
      <4> QED
        BY <1>3, <3>1, <4>1, <4>2
    <3>2. CASE f # Target
      <4>1. disk[f] # EmptyFile
        BY <1>3, <3>2 DEF EmptyFile
      <4>2. f < Target
        BY <1>1, <1>2, <3>2, <4>1 DEF Target, FileIds
      <4> QED
        BY <1>2, <4>2 DEF NotAfter
    <3> QED
      BY <3>1, <3>2
  <2> QED
    BY <2>1, <2>2, <2>3
<1>7. CASE j # k
  <2>1. index_tree'[j] = index_tree[j] /\ Live(j)
    BY <1>0, <1>2, <1>5, <1>7 DEF TypeOK, Live
  <2>2. index_tree[j].fid \in FileIds
    BY <1>0, <2>1 DEF TypeOK, Live, kv_index
  <2>3. \E r \in disk[index_tree[j].fid].recs :
          /\ r.off = index_tree[j].offset
          /\ r.size = index_tree[j].size
          /\ r.key = j
    BY <1>0, <2>1 DEF LeafIsLatest
  <2>4. \A f \in FileIds : \A r \in disk[f].recs :
          r.key = j => NotAfter(f, r, index_tree[j])
    BY <1>0, <2>1 DEF LeafIsLatest
  <2>5. \A f \in FileIds : disk[f].recs \subseteq disk'[f].recs
    BY <1>3
  <2>6. \A f \in FileIds : \A r \in disk'[f].recs :
          r.key = j => r \in disk[f].recs
    BY <1>3, <1>4, <1>7
  <2> QED
    BY <2>1, <2>2, <2>3, <2>4, <2>5, <2>6
<1> QED
  BY <1>6, <1>7

-----------------------------------------------------------------------------
(* The other steps. *)

(* Rotation within the table leaves it as it was first allocated. *)
LEMMA RotateInTable ==
  ASSUME IInv, PutInTable, Rotate
  PROVE  TableIsFirst'
<1>1. fid \in 1 .. MaxFiles /\ slots = MinLen /\ fid <= MinLen
  BY DEF IInv, TypeOK, TableIsFirst
<1>2. SlotsFor(fid, slots) = MinLen
  BY <1>1 DEF SlotsFor
<1> QED
  BY <1>1, <1>2 DEF Rotate, PutInTable, schema_add_data_file, TableIsFirst, table

(* A put that is refused keeps the invariant, whether or not it rotates. *)
LEMMA PutTooLargeInv ==
  ASSUME IInv, ~undefined, NEW k \in Keys, NEW v \in Values,
         PutInTable, PutTooLarge(k, v), UNCHANGED undefined
  PROVE  IInv'
<1>0. TypeOK /\ Rotate /\ UNCHANGED <<disk, index_tree, kv_count>>
      /\ cur_size' = Sizes /\ reply' = <<"put", <<k, v>>, 0>>
  BY DEF IInv, PutTooLarge
<1>1. /\ fid' \in 1 .. MaxFiles /\ file_cnt' = fid' /\ slots' \in Nat
      /\ cur_size' = cur_size
      /\ \A f \in FileIds : f < fid' - 1 => cur_size[f] >= MaxDataFileSize
      /\ \A f \in FileIds : f >= fid' => disk[f] = EmptyFile
  BY <1>0, RotateFacts
<1>2. TypeOK' /\ CountersAgree'
  BY <1>0, <1>1 DEF TypeOK, CountersAgree, Replies
<1>3. FilesTiled'
  BY <1>0, <1>1 DEF IInv, FilesTiled
<1>4. FilesFillInOrder'
  BY <1>0, <1>1 DEF IInv, FilesFillInOrder
<1>5. LeafIsLatest'
  BY <1>0 DEF IInv, LeafIsLatest, Live
<1>6. TableIsFirst' /\ UndefinedAtTableEnd'
  BY <1>0, RotateInTable DEF UndefinedAtTableEnd
<1> QED
  BY <1>2, <1>3, <1>4, <1>5, <1>6 DEF IInv

(* A put that reaches outside the table finds it full of full files. *)
LEMMA BeyondInv ==
  ASSUME IInv, ~PutInTable, GoesBeyond
  PROVE  IInv'
<1>0. /\ undefined' = TRUE
      /\ UNCHANGED <<disk, cur_size, table, index_tree, kv_count, reply>>
  BY DEF GoesBeyond
<1>1. TypeOK' /\ CountersAgree' /\ FilesTiled' /\ FilesFillInOrder' /\ TableIsFirst'
  BY <1>0 DEF IInv, TypeOK, CountersAgree, FilesTiled, FilesFillInOrder,
              TableIsFirst, table
<1>2. LeafIsLatest'
  BY <1>0 DEF IInv, LeafIsLatest, Live
<1>3. /\ fid \in 1 .. MaxFiles /\ file_cnt = fid /\ slots = MinLen /\ fid <= MinLen
      /\ cur_size \in [FileIds -> Nat]
  BY DEF IInv, TypeOK, CountersAgree, TableIsFirst
<1>4. Full /\ fid = MinLen
  <2>1. SlotsFor(fid, slots) = MinLen
    BY <1>3 DEF SlotsFor
  <2>2. file_cnt - 1 < slots
    BY <1>3
  <2> QED
    BY <1>3, <2>1, <2>2 DEF PutInTable
<1>5. \A f \in 0 .. (fid - 1) : cur_size[f] >= MaxDataFileSize
  <2> SUFFICES ASSUME NEW f \in 0 .. (fid - 1) PROVE cur_size[f] >= MaxDataFileSize
    OBVIOUS
  <2>1. CASE f = fid - 1
    BY <1>3, <1>4, <2>1 DEF Full
  <2>2. CASE f # fid - 1
    <3>1. f \in FileIds /\ f < fid - 1
      BY <1>3, <2>2 DEF FileIds
    <3> QED
      BY <3>1 DEF IInv, FilesFillInOrder
  <2> QED
    BY <2>1, <2>2
<1>6. UndefinedAtTableEnd'
  BY <1>0, <1>4, <1>5 DEF UndefinedAtTableEnd, table
<1> QED
  BY <1>1, <1>2, <1>6 DEF IInv

(* Reading a file without overlaps where a record is, in its size, gives   *)
(* back the record's value.                                                *)
LEMMA ReadBack ==
  ASSUME NEW file \in data_file,
         NEW r \in file.recs,
         Tiled(file)
  PROVE  data_file_read(file, r.off, r.size) = r.val
<1> DEFINE hits == {s \in file.recs : s.off = r.off /\ s.size <= r.size}
<1>1. \A s \in file.recs : s.off \in Nat /\ s.size \in Nat \ {0}
  BY DEF kv_value
<1>2. \A s \in file.recs : s.off = r.off => s = r
  BY <1>1
<1>3. hits = {r}
  BY <1>1, <1>2
<1> QED
  BY <1>3 DEF data_file_read

(* The dictionary binds the live keys, each to the value of a record that  *)
(* its leaf names.                                                         *)
LEMMA StoredIs ==
  ASSUME IInv, NEW k \in Keys, Live(k)
  PROVE  /\ Stored(k) \in Values
         /\ index_tree[k].fid \in FileIds
         /\ \E r \in disk[index_tree[k].fid].recs :
              /\ r.off = index_tree[k].offset
              /\ r.size = index_tree[k].size
              /\ r.val = Stored(k)
<1>1. PICK r \in disk[index_tree[k].fid].recs :
        r.off = index_tree[k].offset /\ r.size = index_tree[k].size
  BY DEF IInv, LeafIsLatest
<1>2. index_tree[k].fid \in FileIds
  BY DEF IInv, TypeOK, Live, kv_index
<1>3. data_file_read(disk[index_tree[k].fid], r.off, r.size) = r.val
  BY <1>2, ReadBack DEF IInv, TypeOK, FilesTiled
<1>4. r.val \in Values
  BY <1>2 DEF IInv, TypeOK, kv_value
<1>5. Stored(k) = r.val
  BY <1>1, <1>3 DEF Stored, Live
<1> QED
  BY <1>1, <1>2, <1>4, <1>5

(* A get reads a record, through a slot of the table. *)
LEMMA GetDefined ==
  ASSUME IInv, NEW k \in Keys, schema_get_kv(k)
  PROVE  undefined' = FALSE
<1>1. CASE ~Live(k)
  <2>1. Stored(k) = NoValue /\ GetInTable(k)
    BY <1>1 DEF Stored, Live, GetInTable
  <2> QED
    BY <2>1 DEF schema_get_kv, Strays
<1>2. CASE Live(k)
  <2>1. Stored(k) \in Values /\ index_tree[k].fid \in FileIds
    BY <1>2, StoredIs
  <2>2. disk[index_tree[k].fid].recs # {}
    BY <1>2, StoredIs
  <2>3. index_tree[k].fid < fid
    <3>1. fid \in Int /\ index_tree[k].fid \in Int
      BY <2>1 DEF IInv, TypeOK, FileIds
    <3>2. disk[index_tree[k].fid] # EmptyFile
      BY <2>2 DEF EmptyFile
    <3> QED
      BY <2>1, <3>1, <3>2 DEF IInv, FilesFillInOrder
  <2>4. GetInTable(k)
    BY <2>1, <2>3 DEF GetInTable, IInv, TableIsFirst, TypeOK, FileIds
  <2> QED
    BY <2>1, <2>4 DEF schema_get_kv, Strays
<1> QED
  BY <1>1, <1>2

(* So does a get, which changes nothing but the answer. *)
LEMMA GetInv ==
  ASSUME IInv, NEW k \in Keys, schema_get_kv(k)
  PROVE  IInv'
<1>0. /\ TypeOK /\ UNCHANGED <<disk, cur_size, table, index_tree, kv_count>>
      /\ reply' = <<"get", k, Stored(k)>> /\ undefined' = FALSE
  BY GetDefined DEF IInv, schema_get_kv
<1>1. Stored(k) \in Values \cup {NoValue}
  BY StoredIs DEF Stored, Live
<1>2. reply' \in Replies
  BY <1>0, <1>1 DEF Replies
<1>3. TypeOK'
  BY <1>0, <1>2 DEF TypeOK, table
<1>4. CountersAgree' /\ FilesTiled' /\ FilesFillInOrder' /\ TableIsFirst'
  BY <1>0 DEF IInv, CountersAgree, FilesTiled, FilesFillInOrder, TableIsFirst, table
<1>5. LeafIsLatest' /\ UndefinedAtTableEnd'
  BY <1>0 DEF IInv, LeafIsLatest, Live, UndefinedAtTableEnd
<1> QED
  BY <1>2, <1>3, <1>4, <1>5 DEF IInv

(* So does a del, which takes one leaf away. *)
LEMMA DelInv ==
  ASSUME IInv, NEW k \in Keys, schema_del_kv(k)
  PROVE  IInv'
<1>0. /\ TypeOK
      /\ index_tree' = [index_tree EXCEPT ![k] = NoLeaf]
      /\ reply' = <<"del", k, IF index_tree[k] = NoLeaf THEN -1 ELSE 0>>
      /\ UNCHANGED <<disk, cur_size, table, kv_count, undefined>>
  BY DEF IInv, schema_del_kv
<1>1. TypeOK'
  BY <1>0 DEF TypeOK, Replies, table
<1>2. /\ CountersAgree' /\ FilesTiled' /\ FilesFillInOrder'
      /\ TableIsFirst' /\ UndefinedAtTableEnd'
  BY <1>0 DEF IInv, CountersAgree, FilesTiled, FilesFillInOrder, TableIsFirst,
              UndefinedAtTableEnd, table
<1>3. LeafIsLatest'
  <2>1. \A j \in Keys : Live(j)' => Live(j) /\ index_tree'[j] = index_tree[j]
    BY <1>0 DEF TypeOK, Live
  <2> QED
    BY <1>0, <2>1 DEF IInv, LeafIsLatest
<1> QED
  BY <1>1, <1>2, <1>3 DEF IInv

(* Every step preserves the invariant. *)
LEMMA NextInv == IInv /\ [Next]_vars => IInv'
<1> SUFFICES ASSUME IInv, [Next]_vars PROVE IInv'
  OBVIOUS
<1>1. ASSUME NEW k \in Keys, NEW v \in Values, ~undefined,
             PutInTable, PutStored(k, v), UNCHANGED undefined
      PROVE  IInv'
  <2>1. TypeOK' /\ CountersAgree' /\ FilesTiled' /\ FilesFillInOrder' /\ LeafIsLatest'
    BY <1>1, PutStoredType, PutStoredTiled, PutStoredFill, PutStoredLatest
  <2>2. TableIsFirst' /\ UndefinedAtTableEnd'
    BY <1>1, RotateInTable DEF PutStored, UndefinedAtTableEnd
  <2> QED
    BY <2>1, <2>2 DEF IInv
<1>2. ASSUME NEW k \in Keys, NEW v \in Values, ~undefined,
             PutInTable, PutTooLarge(k, v), UNCHANGED undefined
      PROVE  IInv'
  BY <1>2, PutTooLargeInv
<1>3. ASSUME NEW k \in Keys, schema_get_kv(k) PROVE IInv'
  BY <1>3, GetInv
<1>4. ASSUME NEW k \in Keys, schema_del_kv(k) PROVE IInv'
  BY <1>4, DelInv
<1>5. CASE UNCHANGED vars
  BY <1>5 DEF vars, IInv, TypeOK, CountersAgree, FilesTiled, FilesFillInOrder,
              LeafIsLatest, Live, TableIsFirst, UndefinedAtTableEnd, table
<1>6. ASSUME ~PutInTable, GoesBeyond PROVE IInv'
  BY <1>6, BeyondInv
<1> QED
  BY <1>1, <1>2, <1>3, <1>4, <1>5, <1>6 DEF Next, schema_put_kv

(* IInv holds in every state of every run. *)
THEOREM Inductive == Spec => []IInv
BY InitInv, NextInv, PTL DEF Spec

-----------------------------------------------------------------------------
(* The variables keep their types: counters stay in range, leaves name     *)
(* files that may exist, offsets are never negative.                       *)
THEOREM TypeCorrect == Spec => []TypeOK
<1>1. IInv => TypeOK
  BY DEF IInv
<1> QED
  BY <1>1, Inductive, PTL

(* A leaf always names the last record written for its key, and stays so   *)
(* until a put has no slot left in the file table.                         *)
THEOREM LeafIsLatestAlways == Spec => []LeafIsLatest
<1>1. IInv => LeafIsLatest
  BY DEF IInv
<1> QED
  BY <1>1, Inductive, PTL

(* Records never overlap, and the in-memory size is where the next goes.   *)
THEOREM FilesTiledAlways == Spec => []FilesTiled
<1>1. IInv => FilesTiled
  BY DEF IInv
<1> QED
  BY <1>1, Inductive, PTL

(* Files fill one after the other, and no record begins beyond the limit.  *)
THEOREM FilesFillInOrderAlways == Spec => []FilesFillInOrder
<1>1. IInv => FilesFillInOrder
  BY DEF IInv
<1> QED
  BY <1>1, Inductive, PTL

(* No call reaches outside its memory before MinLen files are full: this   *)
(* is how much a schema holds.                                             *)
THEOREM UndefinedAtTableEndAlways == Spec => []UndefinedAtTableEnd
<1>1. IInv => UndefinedAtTableEnd
  BY DEF IInv
<1> QED
  BY <1>1, Inductive, PTL

-----------------------------------------------------------------------------
(* kv_count never falls behind the keys in the index: a put that adds a    *)
(* key counts it, and a del takes keys away and counts nothing.            *)
LEMMA CountInit == Init => CountCoversKeys
<1> SUFFICES ASSUME Init PROVE CountCoversKeys
  OBVIOUS
<1>1. LiveKeys = {}
  BY DEF Init, LiveKeys, Live
<1> QED
  BY <1>1, FS_EmptySet DEF Init, CountCoversKeys

(* Each step counts at least the keys it adds. *)
LEMMA CountStep ==
  ASSUME IInv, CountCoversKeys, [Next]_vars
  PROVE  CountCoversKeys'
<1>0. /\ index_tree \in [Keys -> kv_index \cup {NoLeaf}] /\ kv_count \in Nat
      /\ IsFiniteSet(LiveKeys) /\ Cardinality(LiveKeys) <= kv_count
  BY DEF IInv, TypeOK, CountCoversKeys
<1>1. Cardinality(LiveKeys) \in Nat
  BY <1>0, FS_CardinalityType
<1>2. ASSUME LiveKeys' \subseteq LiveKeys, kv_count' = kv_count
      PROVE  CountCoversKeys'
  <2>1. IsFiniteSet(LiveKeys') /\ Cardinality(LiveKeys') <= Cardinality(LiveKeys)
    BY <1>0, <1>2, FS_Subset
  <2>2. Cardinality(LiveKeys') \in Nat
    BY <2>1, FS_CardinalityType
  <2> QED
    BY <1>0, <1>1, <1>2, <2>1, <2>2 DEF CountCoversKeys
<1>3. ASSUME NEW k \in Keys, NEW v \in Values, PutStored(k, v)
      PROVE  CountCoversKeys'
  <2>1. LiveKeys' \subseteq LiveKeys \cup {k}
    BY <1>0, <1>3 DEF PutStored, LiveKeys, Live
  <2>2. CASE Live(k)
    <3>1. k \in LiveKeys /\ kv_count' = kv_count
      BY <1>3, <2>2 DEF PutStored, LiveKeys, Live
    <3> QED
      BY <1>2, <2>1, <3>1
  <2>3. CASE ~Live(k)
    <3>1. kv_count' = kv_count + 1 /\ k \notin LiveKeys
      BY <1>3, <2>3 DEF PutStored, LiveKeys, Live
    <3>2. /\ IsFiniteSet(LiveKeys \cup {k})
          /\ Cardinality(LiveKeys \cup {k}) = Cardinality(LiveKeys) + 1
      BY <1>0, <3>1, FS_AddElement
    <3>3. /\ IsFiniteSet(LiveKeys')
          /\ Cardinality(LiveKeys') <= Cardinality(LiveKeys \cup {k})
      BY <2>1, <3>2, FS_Subset
    <3>4. Cardinality(LiveKeys') \in Nat
      BY <3>3, FS_CardinalityType
    <3> QED
      BY <1>0, <1>1, <3>1, <3>2, <3>3, <3>4 DEF CountCoversKeys
  <2> QED
    BY <2>2, <2>3
<1>4. ASSUME NEW k \in Keys, NEW v \in Values, PutTooLarge(k, v)
      PROVE  CountCoversKeys'
  <2>1. index_tree' = index_tree /\ kv_count' = kv_count
    BY <1>4 DEF PutTooLarge
  <2> QED
    BY <1>2, <2>1 DEF LiveKeys, Live
<1>5. ASSUME NEW k \in Keys, schema_get_kv(k)
      PROVE  CountCoversKeys'
  <2>1. index_tree' = index_tree /\ kv_count' = kv_count
    BY <1>5 DEF schema_get_kv
  <2> QED
    BY <1>2, <2>1 DEF LiveKeys, Live
<1>6. ASSUME NEW k \in Keys, schema_del_kv(k)
      PROVE  CountCoversKeys'
  <2>1. LiveKeys' \subseteq LiveKeys /\ kv_count' = kv_count
    BY <1>0, <1>6 DEF schema_del_kv, LiveKeys, Live
  <2> QED
    BY <1>2, <2>1
<1>7. CASE UNCHANGED vars
  <2>1. index_tree' = index_tree /\ kv_count' = kv_count
    BY <1>7 DEF vars
  <2> QED
    BY <1>2, <2>1 DEF LiveKeys, Live
<1>8. CASE GoesBeyond
  <2>1. index_tree' = index_tree /\ kv_count' = kv_count
    BY <1>8 DEF GoesBeyond
  <2> QED
    BY <1>2, <2>1 DEF LiveKeys, Live
<1> QED
  BY <1>3, <1>4, <1>5, <1>6, <1>7, <1>8 DEF Next, schema_put_kv

(* kv_count is never less than the number of keys in the index. *)
THEOREM CountCoversKeysAlways == Spec => []CountCoversKeys
<1>1. IInv /\ CountCoversKeys /\ [Next]_vars => CountCoversKeys'
  BY CountStep
<1> QED
  BY <1>1, CountInit, Inductive, PTL DEF Spec

-----------------------------------------------------------------------------
(* The schema implements the dictionary of KVStore.                        *)

(* A stored put changes the dictionary at its key only. *)
LEMMA PutStoredStores ==
  ASSUME IInv, IInv', NEW k \in Keys, NEW v \in Values, PutStored(k, v)
  PROVE  /\ Stored(k)' = v
         /\ \A j \in Keys \ {k} : Stored(j)' = Stored(j)
<1>0. TypeOK
  BY DEF IInv
<1>1. /\ Target \in FileIds
      /\ index_tree' = [index_tree EXCEPT ![k] = NewLeaf(k, v)]
      /\ NewLeaf(k, v) \in kv_index
  BY PutStoredFacts
<1>2. /\ disk'[Target].recs = disk[Target].recs \cup {NewRec(k, v)}
      /\ \A f \in FileIds \ {Target} : disk'[f] = disk[f]
  BY PutStoredFiles
<1>3. Stored(k)' = v
  <2>1. index_tree'[k] = NewLeaf(k, v) /\ NewLeaf(k, v) # NoLeaf
    BY <1>0, <1>1 DEF TypeOK, kv_index, NoLeaf, FileIds
  <2>2. data_file_read(disk'[Target], NewRec(k, v).off, NewRec(k, v).size)
          = NewRec(k, v).val
    BY <1>1, <1>2, ReadBack DEF IInv, TypeOK, FilesTiled
  <2> QED
    BY <2>1, <2>2 DEF Stored, NewLeaf, NewRec
<1>4. ASSUME NEW j \in Keys \ {k} PROVE Stored(j)' = Stored(j)
  <2>1. index_tree'[j] = index_tree[j]
    BY <1>0, <1>1 DEF TypeOK
  <2>2. CASE ~Live(j)
    BY <2>1, <2>2 DEF Stored, Live
  <2>3. CASE Live(j)
    <3>1. PICK r \in disk[index_tree[j].fid].recs :
            /\ r.off = index_tree[j].offset
            /\ r.size = index_tree[j].size
            /\ r.val = Stored(j)
      BY <2>3, StoredIs
    <3>2. index_tree[j].fid \in FileIds
      BY <2>3, StoredIs
    <3>3. r \in disk'[index_tree[j].fid].recs
      BY <1>2, <3>1, <3>2
    <3>4. data_file_read(disk'[index_tree[j].fid], r.off, r.size) = r.val
      BY <3>2, <3>3, ReadBack DEF IInv, TypeOK, FilesTiled
    <3> QED
      BY <2>1, <2>3, <3>1, <3>4 DEF Stored, Live
  <2> QED
    BY <2>2, <2>3
<1> QED
  BY <1>3, <1>4

(* The dictionary's initial state. *)
LEMMA InitRefines == Init => KV!Init
<1> SUFFICES ASSUME Init PROVE KV!Init
  OBVIOUS
<1>1. \A k \in Keys : Stored(k) = NoValue
  BY DEF Init, Stored
<1> QED
  BY <1>1 DEF Init, KV!Init

(* Every step of the schema is a step of the dictionary, or leaves it as   *)
(* it is.                                                                  *)
LEMMA NextRefines ==
  IInv /\ IInv' /\ [Next]_vars => [KV!Next]_(KV!vars)
<1> SUFFICES ASSUME IInv, IInv', [Next]_vars
             PROVE  [KV!Next]_(KV!vars)
  OBVIOUS
<1> DEFINE store == [k \in Keys |-> Stored(k)]
<1>1. disk' = disk /\ index_tree' = index_tree => store' = store
  BY DEF Stored
<1>2. ASSUME NEW k \in Keys, NEW v \in Values, PutStored(k, v)
      PROVE  KV!Put(k, v)
  <2>1. <<k, v>> \in StoredPairs /\ reply' = <<"put", <<k, v>>, 0>>
    BY <1>2 DEF PutStored, StoredPairs
  <2>2. store' = [store EXCEPT ![k] = v]
    BY <1>2, PutStoredStores
  <2> QED
    BY <2>1, <2>2 DEF KV!Put
<1>3. ASSUME NEW k \in Keys, NEW v \in Values, PutTooLarge(k, v)
      PROVE  KV!Put(k, v)
  <2>1. <<k, v>> \notin StoredPairs /\ reply' = <<"put", <<k, v>>, 0>>
    BY <1>3, RecSizePos DEF PutTooLarge, StoredPairs
  <2>2. store' = store
    BY <1>1, <1>3 DEF PutTooLarge
  <2> QED
    BY <2>1, <2>2 DEF KV!Put
<1>4. ASSUME NEW k \in Keys, schema_get_kv(k)
      PROVE  KV!Get(k)
  <2>1. reply' = <<"get", k, Stored(k)>>
    BY <1>4 DEF schema_get_kv
  <2>2. store' = store
    BY <1>1, <1>4 DEF schema_get_kv
  <2> QED
    BY <2>1, <2>2 DEF KV!Get
<1>5. ASSUME NEW k \in Keys, schema_del_kv(k)
      PROVE  KV!Del(k)
  <2>1. /\ index_tree' = [index_tree EXCEPT ![k] = NoLeaf]
        /\ disk' = disk
        /\ reply' = <<"del", k, IF index_tree[k] = NoLeaf THEN -1 ELSE 0>>
    BY <1>5 DEF schema_del_kv
  <2>2. \A j \in Keys : Stored(j)' = IF j = k THEN NoValue ELSE Stored(j)
    BY <2>1 DEF Stored, IInv, TypeOK
  <2>3. store' = [store EXCEPT ![k] = NoValue]
    BY <2>2
  <2>4. index_tree[k] = NoLeaf <=> Stored(k) = NoValue
    BY StoredIs DEF Stored, Live
  <2> QED
    BY <2>1, <2>3, <2>4 DEF KV!Del
<1>6. CASE UNCHANGED vars \/ GoesBeyond
  BY <1>1, <1>6 DEF vars, KV!vars, GoesBeyond
<1> QED
  BY <1>2, <1>3, <1>4, <1>5, <1>6 DEF Next, schema_put_kv, KV!Next

(* A schema is a dictionary: every get answers with the latest value put,  *)
(* across overwrites, deletes and rotation of the data file, up to the put *)
(* that finds MinLen files full.                                           *)
THEOREM SchemaImplementsKVStore == Spec => ImplementsKVStore
<1>1. IInv /\ IInv' /\ [Next]_vars => [KV!Next]_(KV!vars)
  BY NextRefines
<1> QED
  BY <1>1, InitRefines, Inductive, PTL DEF Spec, ImplementsKVStore, KV!Spec
=============================================================================
