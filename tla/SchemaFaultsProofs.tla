------------------------- MODULE SchemaFaultsProofs -------------------------
(***************************************************************************)
(* Theorems about SchemaFaults, for every set of keys and values, every    *)
(* record size and limit, and any number of failed calls and restarts.     *)
(*                                                                         *)
(* What Schema rests on is lost: cur_size need not be a file's length, and *)
(* a file may be opened with something in it.  What is left is that leaves *)
(* claim only what cur_size has passed (LeavesClaimed), and that a file    *)
(* opened without damage is empty.                                         *)
(***************************************************************************)
EXTENDS SchemaFaults, SchemaProofs

(* A leaf claims bytes of an open file, below that file's cur_size. *)
LeavesClaimed ==
  \A k \in Keys : Live(k) =>
    /\ index_tree[k].fid < fid
    /\ index_tree[k].offset + index_tree[k].size <= cur_size[index_tree[k].fid]

FInv ==
  /\ FaultTypeOK
  /\ CountersAgree
  /\ RecordsDisjoint
  /\ LeavesClaimed
  /\ LeavesDisjoint
  /\ DamageContained

USE GarbageAssumption, NoValueAssumption, SizeAssumption, TableAssumption, FaultAssumption
USE DEF data_file, Writable, Indexed, CountersAgree, table, WriteHappens

-----------------------------------------------------------------------------
(* Complete records stay apart when one is appended, and when a part of    *)
(* one is.                                                                 *)
LEMMA AppendedTiled ==
  ASSUME NEW file \in data_file, Tiled(file), NEW k \in Keys, NEW v \in Values
  PROVE  Tiled(Appended(file, k, v))
<1>1. /\ Appended(file, k, v).len = file.len + RecSize[k][v]
      /\ Appended(file, k, v).recs =
           file.recs \cup {[off |-> file.len, size |-> RecSize[k][v], key |-> k, val |-> v]}
  BY AppendedFacts
<1>2. \A r \in file.recs : r.off \in Nat /\ r.size \in Nat /\ r.off + r.size <= file.len
  BY DEF kv_value, Tiled
<1>3. RecSize[k][v] \in Nat /\ file.len \in Nat
  BY RecSizePos
<1> QED
  BY <1>1, <1>2, <1>3 DEF Tiled

(* The bytes of a torn record belong to none. *)
LEMMA TornTiled ==
  ASSUME NEW file \in data_file, Tiled(file), NEW n \in Nat
  PROVE  /\ [file EXCEPT !.len = @ + n] \in data_file
         /\ Tiled([file EXCEPT !.len = @ + n])
<1>1. \A r \in file.recs : r.off \in Nat /\ r.size \in Nat /\ r.off + r.size <= file.len
  BY DEF kv_value, Tiled
<1> QED
  BY <1>1 DEF Tiled

(* The open files are files. *)
LEMMA OpenIds ==
  ASSUME NEW n \in 1 .. MaxFiles, NEW f \in 0 .. (n - 1)
  PROVE  f \in FileIds /\ f < n
BY DEF FileIds

(* A file that holds nothing has no record. *)
LEMMA NothingInIt ==
  ASSUME NEW file \in data_file, Tiled(file), file.len = 0
  PROVE  file.recs = {}
<1>1. \A r \in file.recs : r.off \in Nat /\ r.size \in Nat \ {0} /\ r.off + r.size <= 0
  BY DEF kv_value, Tiled
<1> QED
  BY <1>1

(* The file a put goes to is the last, or a new one that starts at 0, in   *)
(* which nothing is claimed.                                               *)
LEMMA TargetFacts ==
  ASSUME FInv, Rotate
  PROVE  /\ fid' \in 1 .. MaxFiles /\ file_cnt' = fid' /\ slots' \in Nat
         /\ Target \in FileIds /\ fid <= fid' /\ fid' <= Target + 1
         /\ Sizes \in [FileIds -> Nat]
         /\ \A f \in FileIds : f < fid => Sizes[f] = cur_size[f]
         /\ \/ Target < fid /\ ~Full
            \/ Target = fid /\ Full /\ Sizes[Target] = 0
<1> USE DEF Target, FileIds
<1>0. /\ fid \in 1 .. MaxFiles /\ file_cnt = fid /\ slots \in Nat
      /\ cur_size \in [FileIds -> Nat]
  BY DEF FInv, FaultTypeOK, TypeOK
<1>1. CASE Full
  <2>1. fid < MaxFiles /\ fid' = fid + 1 /\ file_cnt' = fid + 1 /\ slots' = SlotsFor(fid, slots)
    BY <1>0, <1>1 DEF Rotate, schema_add_data_file
  <2>2. slots' \in Nat
    <3>1. (MinLen * 2) \div PtrSize \in Nat
      BY DivNat
    <3> QED
      BY <1>0, <2>1, <3>1 DEF SlotsFor
  <2>3. Sizes = [cur_size EXCEPT ![fid] = 0]
    BY <1>1 DEF Sizes
  <2> QED
    BY <1>0, <1>1, <2>1, <2>2, <2>3
<1>2. CASE ~Full
  <2>1. fid' = fid /\ file_cnt' = fid /\ slots' = slots /\ Sizes = cur_size
    BY <1>0, <1>2 DEF Rotate, Sizes
  <2> QED
    BY <1>0, <1>2, <2>1
<1> QED
  BY <1>1, <1>2

-----------------------------------------------------------------------------
(* One conjunct of the invariant at a time, by what a step does to it.     *)

(* Leaves that stay, or go, while the counters only grow. *)
LEMMA LeavesKept ==
  ASSUME FInv, fid <= fid', fid' \in Nat, cur_size' \in [FileIds -> Nat],
         \A k \in Keys : index_tree'[k] = index_tree[k] \/ index_tree'[k] = NoLeaf,
         \A f \in FileIds : f < fid => cur_size[f] <= cur_size'[f]
  PROVE  LeavesClaimed' /\ LeavesDisjoint'
<1>0. /\ fid \in Nat /\ cur_size \in [FileIds -> Nat]
      /\ index_tree \in [Keys -> kv_index \cup {NoLeaf}]
  BY DEF FInv, FaultTypeOK, TypeOK
<1>1. \A k \in Keys : Live(k)' => Live(k) /\ index_tree'[k] = index_tree[k]
  BY DEF Live
<1>2. \A k \in Keys : Live(k) =>
        /\ index_tree[k].fid \in FileIds /\ index_tree[k].fid \in Int
        /\ index_tree[k].offset \in Nat /\ index_tree[k].size \in Nat
  BY <1>0 DEF Live, kv_index, FileIds
<1>3. LeavesClaimed'
  BY <1>0, <1>1, <1>2 DEF FInv, LeavesClaimed
<1>4. LeavesDisjoint'
  BY <1>1 DEF FInv, LeavesDisjoint
<1> QED
  BY <1>3, <1>4

(* A leaf that claims what its put has reserved. *)
LEMMA LeafAdded ==
  ASSUME FInv, Rotate, NEW k \in Keys, NEW v \in Values,
         cur_size' = [Sizes EXCEPT ![Target] = @ + RecSize[k][v]],
         index_tree' = Indexed(k, Target, Sizes[Target], RecSize[k][v])
  PROVE  /\ index_tree' \in [Keys -> kv_index \cup {NoLeaf}]
         /\ LeavesClaimed' /\ LeavesDisjoint'
<1> DEFINE new == [fid |-> Target, offset |-> Sizes[Target], size |-> RecSize[k][v]]
<1>0. /\ fid \in Nat /\ cur_size \in [FileIds -> Nat]
      /\ index_tree \in [Keys -> kv_index \cup {NoLeaf}]
  BY DEF FInv, FaultTypeOK, TypeOK
<1>1. /\ Target \in FileIds /\ Target < fid' /\ fid' \in Nat /\ fid <= fid'
      /\ Sizes \in [FileIds -> Nat] /\ \A f \in FileIds : f < fid => Sizes[f] = cur_size[f]
      /\ Target < fid \/ Target = fid
  BY TargetFacts DEF Target
<1>2. RecSize[k][v] \in Nat \ {0}
  BY RecSizePos
<1>3. new \in kv_index
  BY <1>1, <1>2 DEF kv_index
<1>4. index_tree' = [index_tree EXCEPT ![k] = new]
  OBVIOUS
<1>5. index_tree' \in [Keys -> kv_index \cup {NoLeaf}]
  BY <1>0, <1>3, <1>4
<1>6. ASSUME NEW j \in Keys, Live(j)', j # k
      PROVE  /\ Live(j) /\ index_tree'[j] = index_tree[j]
             /\ index_tree[j].fid \in FileIds /\ index_tree[j].fid < fid
             /\ index_tree[j].offset \in Nat /\ index_tree[j].size \in Nat
             /\ index_tree[j].offset + index_tree[j].size <= Sizes[index_tree[j].fid]
  <2>1. Live(j) /\ index_tree'[j] = index_tree[j]
    BY <1>0, <1>4, <1>6 DEF Live
  <2>2. /\ index_tree[j].fid \in FileIds /\ index_tree[j].offset \in Nat
        /\ index_tree[j].size \in Nat
    BY <1>0, <2>1 DEF Live, kv_index
  <2>3. /\ index_tree[j].fid < fid
        /\ index_tree[j].offset + index_tree[j].size <= cur_size[index_tree[j].fid]
    BY <2>1 DEF FInv, LeavesClaimed
  <2> QED
    BY <1>1, <2>1, <2>2, <2>3
<1>7. index_tree'[k] = new
  BY <1>0, <1>4
<1>8. LeavesClaimed'
  <2> SUFFICES ASSUME NEW j \in Keys, Live(j)'
               PROVE  /\ index_tree'[j].fid < fid'
                      /\ index_tree'[j].offset + index_tree'[j].size
                           <= cur_size'[index_tree'[j].fid]
    BY DEF LeavesClaimed
  <2>1. CASE j = k
    BY <1>1, <1>2, <1>7, <2>1
  <2>2. CASE j # k
    <3>1. \A f \in FileIds : Sizes[f] <= cur_size'[f]
      BY <1>1, <1>2
    <3>2. /\ index_tree'[j] = index_tree[j]
          /\ index_tree[j].fid \in FileIds /\ index_tree[j].fid < fid
          /\ index_tree[j].offset + index_tree[j].size \in Nat
          /\ index_tree[j].offset + index_tree[j].size <= Sizes[index_tree[j].fid]
      BY <1>6, <2>2
    <3>3. index_tree[j].fid < fid'
      <4>1. fid \in Nat /\ fid' \in Nat /\ fid <= fid' /\ index_tree[j].fid < fid
        BY <1>0, <1>1, <3>2
      <4>2. index_tree[j].fid \in Int
        BY <3>2 DEF FileIds
      <4> QED
        BY <4>1, <4>2
    <3>4. cur_size' \in [FileIds -> Nat]
      BY <1>1, <1>2
    <3> QED
      BY <1>1, <3>1, <3>2, <3>3, <3>4
  <2> QED
    BY <2>1, <2>2
<1>9. LeavesDisjoint'
  <2> SUFFICES ASSUME NEW i \in Keys, NEW j \in Keys, i # j, Live(i)', Live(j)',
                      index_tree'[i].fid = index_tree'[j].fid
               PROVE  \/ index_tree'[i].offset + index_tree'[i].size <= index_tree'[j].offset
                      \/ index_tree'[j].offset + index_tree'[j].size <= index_tree'[i].offset
    BY DEF LeavesDisjoint
  <2>1. CASE i = k
    BY <1>6, <1>7, <2>1
  <2>2. CASE j = k
    BY <1>6, <1>7, <2>2
  <2>3. CASE i # k /\ j # k
    BY <1>6, <2>3 DEF FInv, LeavesDisjoint
  <2> QED
    BY <2>1, <2>2, <2>3
<1> QED
  BY <1>5, <1>8, <1>9

(* What is right about a file that is open and not damaged. *)
FileRight(f) ==
  /\ cur_size[f] = disk[f].len
  /\ \A k \in Keys : index_tree[k].fid = f =>
       /\ \E r \in disk[f].recs :
            /\ r.off = index_tree[k].offset
            /\ r.size = index_tree[k].size
            /\ r.key = k
       /\ \A r \in disk[f].recs : r.key = k => r.off <= index_tree[k].offset

(* A file that is not touched stays right if no leaf comes to name it. *)
LEMMA RightKept ==
  ASSUME NEW f \in FileIds, FileRight(f),
         disk'[f] = disk[f], cur_size'[f] = cur_size[f],
         \A k \in Keys : index_tree'[k].fid = f => index_tree'[k] = index_tree[k]
  PROVE  FileRight(f)'
BY DEF FileRight

(* What a put finds in the file it goes to, unless that is damaged. *)
LEMMA TargetRight ==
  ASSUME FInv, Rotate, Target \notin DamagedByRotate
  PROVE  /\ Sizes[Target] = disk[Target].len
         /\ \A k \in Keys : index_tree[k].fid = Target =>
              /\ \E r \in disk[Target].recs :
                   /\ r.off = index_tree[k].offset
                   /\ r.size = index_tree[k].size
                   /\ r.key = k
              /\ \A r \in disk[Target].recs : r.key = k => r.off <= index_tree[k].offset
<1>0. /\ fid \in 1 .. MaxFiles /\ disk \in [FileIds -> data_file]
      /\ index_tree \in [Keys -> kv_index \cup {NoLeaf}]
  BY DEF FInv, FaultTypeOK, TypeOK
<1>1. /\ Target \in FileIds
      /\ \A f \in FileIds : f < fid => Sizes[f] = cur_size[f]
      /\ \/ Target < fid /\ ~Full
         \/ Target = fid /\ Full /\ Sizes[Target] = 0
  BY TargetFacts
<1>2. CASE Target < fid /\ ~Full
  <2>1. Target \in 0 .. fid - 1 /\ Target \notin damaged
    BY <1>0, <1>1, <1>2 DEF DamagedByRotate, FileIds
  <2> QED
    BY <1>1, <1>2, <2>1 DEF FInv, DamageContained
<1>3. CASE Target = fid /\ Full /\ Sizes[Target] = 0
  <2>1. disk[Target].len = 0
    BY <1>0, <1>1, <1>3 DEF DamagedByRotate
  <2>2. \A k \in Keys : index_tree[k].fid # Target
    BY <1>0, <1>3 DEF FInv, LeavesClaimed, Live, NoLeaf
  <2> QED
    BY <1>3, <2>1, <2>2
<1> QED
  BY <1>1, <1>2, <1>3

(* Files a put does not go to are as right as they were. *)
LEMMA OthersRight ==
  ASSUME FInv, Rotate, NEW f \in FileIds, f < fid', f # Target, f \notin damaged,
         disk'[f] = disk[f], cur_size'[f] = Sizes[f],
         \A k \in Keys : index_tree'[k].fid = f => index_tree'[k] = index_tree[k]
  PROVE  FileRight(f)'
<1>0. fid \in 1 .. MaxFiles
  BY DEF FInv, FaultTypeOK, TypeOK
<1>1. /\ fid' \in Nat /\ fid' <= Target + 1 /\ Target \in FileIds
      /\ \A g \in FileIds : g < fid => Sizes[g] = cur_size[g]
      /\ Target < fid \/ Target = fid
  BY TargetFacts
<1>2. f \in 0 .. fid - 1
  BY <1>0, <1>1 DEF FileIds
<1>3. FileRight(f) /\ cur_size'[f] = cur_size[f]
  BY <1>0, <1>1, <1>2 DEF FInv, DamageContained, FileRight
<1> QED
  BY <1>3, RightKept

-----------------------------------------------------------------------------
(* The steps.  First what all puts have in common: the file table.         *)
LEMMA PutTable ==
  ASSUME FInv, Rotate, NEW k \in Keys, NEW v \in Values,
         reply' = <<"put", <<k, v>>, 0>>
  PROVE  /\ fid' \in 1 .. MaxFiles /\ file_cnt' = fid' /\ slots' \in Nat
         /\ reply' \in Replies
         /\ DamagedByRotate \subseteq FileIds /\ damaged \subseteq DamagedByRotate
         /\ fid' - 1 = Target /\ Target \in FileIds
         /\ disk[Target] \in data_file /\ Tiled(disk[Target])
<1>1. /\ fid' \in 1 .. MaxFiles /\ file_cnt' = fid' /\ slots' \in Nat
      /\ Target \in FileIds
  BY TargetFacts
<1>2. reply' \in Replies
  BY DEF Replies
<1>3. DamagedByRotate \subseteq FileIds /\ damaged \subseteq DamagedByRotate
  <2>1. damaged \subseteq FileIds /\ fid \in 1 .. MaxFiles
    BY DEF FInv, FaultTypeOK, TypeOK
  <2>2. Full => fid \in FileIds
    BY <2>1 DEF Rotate, FileIds
  <2> QED
    BY <2>1, <2>2 DEF DamagedByRotate
<1>4. disk[Target] \in data_file /\ Tiled(disk[Target])
  BY <1>1 DEF FInv, FaultTypeOK, TypeOK, RecordsDisjoint
<1> QED
  BY <1>1, <1>2, <1>3, <1>4 DEF Target

(* A step that reserves the bytes of a record in the file it goes to, and  *)
(* leaves that file right or damaged.                                      *)
LEMMA ReservedInv ==
  ASSUME FInv, Rotate, NEW t \in FileIds, t = Target, NEW k \in Keys, NEW v \in Values,
         reply' = <<"put", <<k, v>>, 0>>, kv_count' \in Nat,
         cur_size' = [Sizes EXCEPT ![Target] = @ + RecSize[k][v]],
         index_tree' = Indexed(k, Target, Sizes[Target], RecSize[k][v])
           \/ index_tree' = index_tree,
         NEW file \in data_file, Tiled(file), disk' = [disk EXCEPT ![Target] = file],
         damaged' = DamagedByRotate \/ damaged' = DamagedByRotate \cup {Target},
         t \notin damaged' => FileRight(t)',
         faults' \in 0 .. MaxFaults, restarts' \in 0 .. MaxRestarts,
         undefined' \in BOOLEAN
  PROVE  FInv'
<1>0. /\ disk \in [FileIds -> data_file] /\ cur_size \in [FileIds -> Nat]
      /\ index_tree \in [Keys -> kv_index \cup {NoLeaf}]
      /\ fid \in 1 .. MaxFiles
      /\ \A f \in FileIds : Tiled(disk[f])
  BY DEF FInv, FaultTypeOK, TypeOK, RecordsDisjoint
<1>1. /\ fid' \in 1 .. MaxFiles /\ file_cnt' = fid' /\ slots' \in Nat
      /\ Target \in FileIds /\ fid <= fid' /\ fid' - 1 = Target
      /\ Sizes \in [FileIds -> Nat]
      /\ \A f \in FileIds : f < fid => Sizes[f] = cur_size[f]
      /\ reply' \in Replies
      /\ DamagedByRotate \subseteq FileIds /\ damaged \subseteq DamagedByRotate
  BY TargetFacts, PutTable
<1>2. RecSize[k][v] \in Nat
  BY RecSizePos
<1>3. cur_size' \in [FileIds -> Nat] /\ \A f \in FileIds : Sizes[f] <= cur_size'[f]
  BY <1>1, <1>2
<1>4. index_tree' \in [Keys -> kv_index \cup {NoLeaf}] /\ LeavesClaimed' /\ LeavesDisjoint'
  <2>1. CASE index_tree' = Indexed(k, Target, Sizes[Target], RecSize[k][v])
    BY <2>1, LeafAdded
  <2>2. CASE index_tree' = index_tree
    <3>1. \A f \in FileIds : f < fid => cur_size[f] <= cur_size'[f]
      BY <1>1, <1>3
    <3> QED
      BY <1>0, <1>1, <1>3, <2>2, <3>1, LeavesKept
  <2> QED
    BY <2>1, <2>2
<1>5. disk' \in [FileIds -> data_file] /\ RecordsDisjoint'
  BY <1>0, <1>1 DEF RecordsDisjoint
<1>6. FaultTypeOK'
  BY <1>1, <1>3, <1>4, <1>5 DEF FaultTypeOK, TypeOK
<1>7. DamageContained'
  <2> SUFFICES ASSUME NEW f \in 0 .. (fid' - 1), f \notin damaged' PROVE FileRight(f)'
    BY DEF DamageContained, FileRight
  <2>1. CASE f = t
    BY <2>1
  <2>2. CASE f # t
    <3>1. f \in FileIds /\ f < fid' /\ f \notin damaged
      <4>1. f \in FileIds /\ f < fid'
        BY <1>1, OpenIds
      <4>2. f \notin damaged
        BY <1>1
      <4> QED
        BY <4>1, <4>2
    <3>2. disk'[f] = disk[f] /\ cur_size'[f] = Sizes[f]
      BY <1>0, <1>1, <2>2, <3>1
    <3>3. \A j \in Keys : index_tree'[j].fid = f => index_tree'[j] = index_tree[j]
      BY <1>0, <2>2
    <3> QED
      BY <2>2, <3>1, <3>2, <3>3, OthersRight
  <2> QED
    BY <2>1, <2>2
<1> QED
  BY <1>1, <1>4, <1>5, <1>6, <1>7 DEF FInv

(* A put that is stored keeps its file right: the offset it takes is the   *)
(* end of the file, behind every record of the key.                        *)
LEMMA PutStoredFInv ==
  ASSUME FInv, NEW k \in Keys, NEW v \in Values, PutStored(k, v),
         damaged' = DamagedByRotate, NothingFails, UNCHANGED undefined
  PROVE  FInv'
<1>0. /\ disk \in [FileIds -> data_file] /\ kv_count \in Nat
      /\ index_tree \in [Keys -> kv_index \cup {NoLeaf}]
      /\ faults \in 0 .. MaxFaults /\ restarts \in 0 .. MaxRestarts /\ undefined \in BOOLEAN
  BY DEF FInv, FaultTypeOK, TypeOK
<1>1. Rotate /\ reply' = <<"put", <<k, v>>, 0>> /\ kv_count' \in Nat
  BY <1>0 DEF PutStored
<1>2. Target \in FileIds /\ disk[Target] \in data_file /\ Tiled(disk[Target])
  BY <1>1, PutTable
<1>3. /\ cur_size' = [Sizes EXCEPT ![Target] = Sizes[Target] + RecSize[k][v]]
      /\ disk' = [disk EXCEPT ![Target] = Appended(disk[Target], k, v)]
      /\ index_tree' = Indexed(k, Target, Sizes[Target], RecSize[k][v])
  BY DEF PutStored, Target
<1>4. Appended(disk[Target], k, v) \in data_file /\ Tiled(Appended(disk[Target], k, v))
  BY <1>2, AppendedFacts, AppendedTiled
<1>5. ASSUME NEW t \in FileIds, t = Target, t \notin damaged' PROVE FileRight(t)'
  <2> DEFINE rec == [off |-> disk[t].len, size |-> RecSize[k][v], key |-> k, val |-> v]
  <2>0. /\ disk[t] \in data_file /\ Tiled(disk[t])
        /\ cur_size' = [Sizes EXCEPT ![t] = Sizes[t] + RecSize[k][v]]
        /\ disk' = [disk EXCEPT ![t] = Appended(disk[t], k, v)]
        /\ index_tree' = Indexed(k, t, Sizes[t], RecSize[k][v])
    BY <1>2, <1>3, <1>5
  <2>1. /\ disk'[t].len = disk[t].len + RecSize[k][v]
        /\ disk'[t].recs = disk[t].recs \cup {rec}
    BY <1>0, <2>0, AppendedFacts
  <2>2. /\ Sizes[t] = disk[t].len
        /\ \A j \in Keys : index_tree[j].fid = t =>
             /\ \E r \in disk[t].recs :
                  /\ r.off = index_tree[j].offset
                  /\ r.size = index_tree[j].size
                  /\ r.key = j
             /\ \A r \in disk[t].recs : r.key = j => r.off <= index_tree[j].offset
    BY <1>1, <1>5, TargetRight
  <2>3. cur_size'[t] = disk'[t].len
    <3>1. Sizes \in [FileIds -> Nat]
      BY <1>1, TargetFacts
    <3> QED
      BY <2>0, <2>1, <2>2, <3>1
  <2>4. ASSUME NEW j \in Keys, index_tree'[j].fid = t
        PROVE  /\ \E r \in disk'[t].recs :
                    /\ r.off = index_tree'[j].offset
                    /\ r.size = index_tree'[j].size
                    /\ r.key = j
               /\ \A r \in disk'[t].recs : r.key = j => r.off <= index_tree'[j].offset
    <3>1. CASE j = k
      <4>1. /\ index_tree'[j].offset = disk[t].len
            /\ index_tree'[j].size = RecSize[k][v]
        BY <1>0, <2>0, <2>2, <3>1
      <4>2. \A r \in disk[t].recs : r.off \in Nat /\ r.size \in Nat
                                       /\ r.off + r.size <= disk[t].len
        BY <2>0 DEF kv_value, Tiled
      <4>3. disk[t].len \in Nat
        BY <2>0
      <4>4. \A r \in disk'[t].recs : r.off <= disk[t].len
        BY <2>1, <4>2, <4>3
      <4>5. rec \in disk'[t].recs
        BY <2>1
      <4>6. rec.off = disk[t].len /\ rec.size = RecSize[k][v] /\ rec.key = k
        OBVIOUS
      <4> HIDE DEF rec
      <4> QED
        BY <3>1, <4>1, <4>4, <4>5, <4>6
    <3>2. CASE j # k
      <4>1. index_tree'[j] = index_tree[j]
        BY <1>0, <2>0, <3>2
      <4>2. index_tree[j].fid = t
        BY <2>4, <4>1
      <4>3. PICK r \in disk[t].recs :
              r.off = index_tree[j].offset /\ r.size = index_tree[j].size /\ r.key = j
        BY <2>2, <4>2
      <4>4. \A q \in disk'[t].recs : q.key = j => q \in disk[t].recs
        BY <2>1, <3>2
      <4>5. \A q \in disk[t].recs : q.key = j => q.off <= index_tree[j].offset
        BY <2>2, <4>2
      <4>6. r \in disk'[t].recs
        BY <2>1, <4>3
      <4> QED
        BY <4>1, <4>3, <4>4, <4>5, <4>6
    <3> QED
      BY <3>1, <3>2
  <2> QED
    BY <2>3, <2>4 DEF FileRight
<1>6. faults' \in 0 .. MaxFaults /\ restarts' \in 0 .. MaxRestarts /\ undefined' \in BOOLEAN
  BY <1>0 DEF NothingFails
<1> QED
  BY <1>1, <1>2, <1>3, <1>4, <1>5, <1>6, ReservedInv

(* A put that is refused may have added a file. *)
LEMMA PutTooLargeFInv ==
  ASSUME FInv, NEW k \in Keys, NEW v \in Values, PutTooLarge(k, v),
         damaged' = DamagedByRotate, NothingFails, UNCHANGED undefined
  PROVE  FInv'
<1>0. /\ disk \in [FileIds -> data_file] /\ kv_count \in Nat /\ fid \in 1 .. MaxFiles
      /\ index_tree \in [Keys -> kv_index \cup {NoLeaf}]
      /\ cur_size \in [FileIds -> Nat]
      /\ faults \in 0 .. MaxFaults /\ restarts \in 0 .. MaxRestarts /\ undefined \in BOOLEAN
  BY DEF FInv, FaultTypeOK, TypeOK
<1>1. /\ Rotate /\ reply' = <<"put", <<k, v>>, 0>> /\ cur_size' = Sizes
      /\ disk' = disk /\ index_tree' = index_tree /\ kv_count' = kv_count
  BY DEF PutTooLarge
<1>2. /\ fid' \in 1 .. MaxFiles /\ file_cnt' = fid' /\ slots' \in Nat
      /\ Target \in FileIds /\ fid <= fid' /\ fid' - 1 = Target
      /\ Sizes \in [FileIds -> Nat]
      /\ \A f \in FileIds : f < fid => Sizes[f] = cur_size[f]
      /\ reply' \in Replies
      /\ DamagedByRotate \subseteq FileIds /\ damaged \subseteq DamagedByRotate
  BY <1>1, TargetFacts, PutTable
<1>3. LeavesClaimed' /\ LeavesDisjoint'
  <2>1. \A f \in FileIds : f < fid => cur_size[f] <= cur_size'[f]
    BY <1>0, <1>1, <1>2
  <2> QED
    BY <1>0, <1>1, <1>2, <2>1, LeavesKept
<1>4. FaultTypeOK'
  BY <1>0, <1>1, <1>2 DEF FaultTypeOK, TypeOK, NothingFails
<1>5. RecordsDisjoint'
  BY <1>1 DEF FInv, RecordsDisjoint
<1>6. DamageContained'
  <2> SUFFICES ASSUME NEW f \in 0 .. (fid' - 1), f \notin damaged' PROVE FileRight(f)'
    BY DEF DamageContained, FileRight
  <2>1. CASE f = Target
    <3>1. Target \notin DamagedByRotate
      BY <2>1
    <3>2. disk'[f] = disk[f] /\ cur_size'[f] = Sizes[f] /\ index_tree' = index_tree
      BY <1>1
    <3> QED
      BY <1>1, <2>1, <3>1, <3>2, TargetRight DEF FileRight
  <2>2. CASE f # Target
    <3>1. f \in FileIds /\ f < fid' /\ f \notin damaged
      <4>1. f \in FileIds /\ f < fid'
        BY <1>2, OpenIds
      <4>2. f \notin damaged
        BY <1>2
      <4> QED
        BY <4>1, <4>2
    <3> QED
      BY <1>1, <2>2, <3>1, OthersRight
  <2> QED
    BY <2>1, <2>2
<1> QED
  BY <1>2, <1>3, <1>4, <1>5, <1>6 DEF FInv

(* write answers -1: bytes are reserved that nobody writes. *)
LEMMA WriteFailsFInv ==
  ASSUME FInv, NEW k \in Keys, NEW v \in Values, WriteFails(k, v)
  PROVE  FInv'
<1>0. /\ disk \in [FileIds -> data_file] /\ kv_count \in Nat
      /\ faults \in 0 .. MaxFaults /\ restarts \in 0 .. MaxRestarts /\ undefined \in BOOLEAN
  BY DEF FInv, FaultTypeOK, TypeOK
<1>1. /\ Rotate /\ reply' = <<"put", <<k, v>>, 0>> /\ kv_count' = kv_count
      /\ disk' = disk /\ index_tree' = index_tree /\ FaultHappens /\ UNCHANGED undefined
  BY DEF WriteFails
<1>2. Target \in FileIds /\ disk[Target] \in data_file /\ Tiled(disk[Target])
  BY <1>1, PutTable
<1>3. /\ cur_size' = [Sizes EXCEPT ![Target] = Sizes[Target] + RecSize[k][v]]
      /\ damaged' = DamagedByRotate \cup {Target}
  BY DEF WriteFails, Target
<1>4. disk' = [disk EXCEPT ![Target] = disk[Target]]
  BY <1>0, <1>1, <1>2
<1>5. faults' \in 0 .. MaxFaults /\ restarts' \in 0 .. MaxRestarts /\ undefined' \in BOOLEAN
  BY <1>0, <1>1 DEF FaultHappens
<1> QED
  BY <1>0, <1>1, <1>2, <1>3, <1>4, <1>5, ReservedInv

(* write writes a part: bytes are claimed by a leaf that are not all there. *)
LEMMA WriteShortFInv ==
  ASSUME FInv, NEW k \in Keys, NEW v \in Values, WriteShort(k, v)
  PROVE  FInv'
<1>0. /\ disk \in [FileIds -> data_file] /\ kv_count \in Nat
      /\ faults \in 0 .. MaxFaults /\ restarts \in 0 .. MaxRestarts /\ undefined \in BOOLEAN
  BY DEF FInv, FaultTypeOK, TypeOK
<1>1. /\ Rotate /\ reply' = <<"put", <<k, v>>, 0>> /\ FaultHappens /\ UNCHANGED undefined
      /\ kv_count' \in Nat
  BY <1>0 DEF WriteShort
<1>2. Target \in FileIds /\ disk[Target] \in data_file /\ Tiled(disk[Target])
  BY <1>1, PutTable
<1>3. PICK n \in 1 .. (RecSize[k][v] - 1) :
        /\ cur_size' = [Sizes EXCEPT ![Target] = Sizes[Target] + RecSize[k][v]]
        /\ disk' = [disk EXCEPT ![Target] = [disk[Target] EXCEPT !.len = @ + n]]
        /\ index_tree' = Indexed(k, Target, Sizes[Target], RecSize[k][v])
        /\ damaged' = DamagedByRotate \cup {Target}
  BY <1>0, <1>2 DEF WriteShort, Target
<1>4. n \in Nat
  BY RecSizePos
<1>5. /\ [disk[Target] EXCEPT !.len = @ + n] \in data_file
      /\ Tiled([disk[Target] EXCEPT !.len = @ + n])
  BY <1>2, <1>4, TornTiled
<1>6. faults' \in 0 .. MaxFaults /\ restarts' \in 0 .. MaxRestarts /\ undefined' \in BOOLEAN
  BY <1>0, <1>1 DEF FaultHappens
<1> QED
  BY <1>1, <1>2, <1>3, <1>5, <1>6, ReservedInv

(* Steps that write nothing: leaves stay or go. *)
LEMMA QuietFInv ==
  ASSUME FInv, UNCHANGED <<disk, cur_size, table, kv_count, damaged>>,
         \A k \in Keys : index_tree'[k] = index_tree[k] \/ index_tree'[k] = NoLeaf,
         index_tree' \in [Keys -> kv_index \cup {NoLeaf}], reply' \in Replies,
         faults' \in 0 .. MaxFaults, restarts' \in 0 .. MaxRestarts,
         undefined' \in BOOLEAN
  PROVE  FInv'
<1>0. FaultTypeOK /\ fid \in Nat /\ cur_size \in [FileIds -> Nat]
  BY DEF FInv, FaultTypeOK, TypeOK
<1>1. FaultTypeOK'
  BY <1>0 DEF FaultTypeOK, TypeOK
<1>2. LeavesClaimed' /\ LeavesDisjoint'
  <2>1. \A f \in FileIds : f < fid => cur_size[f] <= cur_size'[f]
    BY <1>0
  <2> QED
    BY <1>0, <2>1, LeavesKept
<1>3. CountersAgree' /\ RecordsDisjoint'
  BY DEF FInv, RecordsDisjoint
<1>4. DamageContained'
  <2>1. ASSUME NEW f \in 0 .. (fid - 1), f \notin damaged
        PROVE  FileRight(f)'
    <3>1. fid \in 1 .. MaxFiles
      BY DEF FInv, FaultTypeOK, TypeOK
    <3>2. f \in FileIds /\ FileRight(f)
      BY <2>1, <3>1, OpenIds DEF FInv, DamageContained, FileRight
    <3>3. \A k \in Keys : index_tree'[k].fid = f => index_tree'[k] = index_tree[k]
      BY <2>1 DEF NoLeaf
    <3> QED
      BY <3>2, <3>3, RightKept
  <2> QED
    BY <2>1 DEF DamageContained, FileRight
<1> QED
  BY <1>1, <1>2, <1>3, <1>4 DEF FInv

(* A new process opens one file, which is damaged unless it is empty. *)
LEMMA RestartFInv ==
  ASSUME FInv, RestartHappens, schema_alloc_from_meta,
         disk' \in [FileIds -> data_file], RecordsDisjoint'
  PROVE  FInv'
<1>0. /\ faults' \in 0 .. MaxFaults /\ restarts' \in 0 .. MaxRestarts
  BY DEF FInv, FaultTypeOK, RestartHappens
<1>1. /\ cur_size' = [f \in FileIds |-> 0] /\ fid' = 1 /\ file_cnt' = 1
      /\ slots' = MinLen /\ index_tree' = [k \in Keys |-> NoLeaf]
      /\ kv_count' = 0 /\ reply' = <<>> /\ undefined' \in BOOLEAN
      /\ damaged' = IF disk'[0].len > 0 THEN {0} ELSE {}
  BY DEF schema_alloc_from_meta, FInv, FaultTypeOK, TypeOK
<1>2. 0 \in FileIds
  BY DEF FileIds
<1>3. TypeOK'
  BY <1>1 DEF TypeOK, Replies
<1>4. FaultTypeOK'
  BY <1>0, <1>1, <1>2, <1>3 DEF FaultTypeOK
<1>5. LeavesClaimed' /\ LeavesDisjoint'
  BY <1>1 DEF LeavesClaimed, LeavesDisjoint, Live
<1>6. DamageContained'
  <2> SUFFICES ASSUME NEW f \in 0 .. (fid' - 1), f \notin damaged' PROVE FileRight(f)'
    BY DEF DamageContained, FileRight
  <2>1. f = 0
    BY <1>1
  <2>2. disk'[0].len = 0
    BY <1>1, <1>2, <2>1
  <2>3. cur_size'[f] = disk'[f].len
    BY <1>1, <1>2, <2>1, <2>2
  <2>4. \A k \in Keys : index_tree'[k].fid # f
    BY <1>1, <2>1 DEF NoLeaf
  <2> QED
    BY <2>3, <2>4 DEF FileRight
<1> QED
  BY <1>1, <1>4, <1>5, <1>6 DEF FInv

(* Whatever part of a record a killed put leaves, records stay apart. *)
LEMMA KilledInPutFInv ==
  ASSUME FInv, NEW k \in Keys, NEW v \in Values, KilledInPut(k, v)
  PROVE  FInv'
<1> DEFINE f == IF Full THEN fid ELSE fid - 1
<1>0. /\ disk \in [FileIds -> data_file] /\ fid \in 1 .. MaxFiles
      /\ \A g \in FileIds : Tiled(disk[g])
  BY DEF FInv, FaultTypeOK, TypeOK, RecordsDisjoint
<1>1. f \in FileIds
  BY <1>0 DEF KilledInPut, FileIds
<1>2. disk[f] \in data_file /\ Tiled(disk[f])
  BY <1>0, <1>1
<1>3. \E file \in data_file : Tiled(file) /\ disk' = [disk EXCEPT ![f] = file]
  <2>1. CASE disk' = [disk EXCEPT ![f] = Appended(disk[f], k, v)]
    BY <1>2, <2>1, AppendedFacts, AppendedTiled
  <2>2. ASSUME NEW n \in 1 .. (RecSize[k][v] - 1),
               disk' = [disk EXCEPT ![f] = [disk[f] EXCEPT !.len = @ + n]]
        PROVE  \E file \in data_file : Tiled(file) /\ disk' = [disk EXCEPT ![f] = file]
    <3>1. n \in Nat
      BY RecSizePos
    <3> QED
      BY <1>2, <2>2, <3>1, TornTiled
  <2>3. \/ disk' = [disk EXCEPT ![f] = Appended(disk[f], k, v)]
        \/ \E n \in 1 .. (RecSize[k][v] - 1) :
             disk' = [disk EXCEPT ![f] = [disk[f] EXCEPT !.len = @ + n]]
    BY <1>0, <1>1 DEF KilledInPut
  <2> QED
    BY <2>1, <2>2, <2>3
<1>4. disk' \in [FileIds -> data_file] /\ RecordsDisjoint'
  BY <1>0, <1>1, <1>3 DEF RecordsDisjoint
<1> QED
  BY <1>4, RestartFInv DEF KilledInPut

-----------------------------------------------------------------------------
(* A get answers with a value, with none, or with garbage. *)
LEMMA ReadIn ==
  ASSUME NEW file \in data_file, NEW o \in Nat, NEW n \in Nat
  PROVE  data_file_read(file, o, n) \in Values \cup {Garbage}
<1> DEFINE hits == {r \in file.recs : r.off = o /\ r.size <= n}
<1>1. CASE hits = {}
  BY <1>1 DEF data_file_read
<1>2. CASE hits # {}
  <2>1. (CHOOSE r \in hits : TRUE) \in hits
    BY <1>2
  <2>2. (CHOOSE r \in hits : TRUE).val \in Values
    BY <2>1 DEF kv_value
  <2> QED
    BY <1>2, <2>2 DEF data_file_read
<1> QED
  BY <1>1, <1>2

(* What a get reads is a value, nothing, or garbage. *)
LEMMA StoredIn ==
  ASSUME FInv, NEW k \in Keys
  PROVE  Stored(k) \in Values \cup {NoValue, Garbage}
<1>1. disk \in [FileIds -> data_file] /\ index_tree \in [Keys -> kv_index \cup {NoLeaf}]
  BY DEF FInv, FaultTypeOK, TypeOK
<1>2. CASE index_tree[k] = NoLeaf
  BY <1>2 DEF Stored
<1>3. CASE index_tree[k] # NoLeaf
  <2>1. /\ index_tree[k].fid \in FileIds /\ index_tree[k].offset \in Nat
        /\ index_tree[k].size \in Nat
    BY <1>1, <1>3 DEF kv_index
  <2>2. data_file_read(disk[index_tree[k].fid], index_tree[k].offset, index_tree[k].size)
          \in Values \cup {Garbage}
    BY <1>1, <2>1, ReadIn
  <2> QED
    BY <1>3, <2>2 DEF Stored
<1> QED
  BY <1>2, <1>3

(* The state a schema is created in. *)
LEMMA FaultInitInv == FaultInit => FInv
<1> SUFFICES ASSUME FaultInit PROVE FInv
  OBVIOUS
<1>1. IInv
  BY InitInv DEF FaultInit
<1>2. FaultTypeOK /\ CountersAgree
  BY <1>1 DEF IInv, FaultInit, FaultTypeOK
<1>3. RecordsDisjoint
  BY <1>1 DEF IInv, FilesTiled, RecordsDisjoint
<1>4. LeavesClaimed /\ LeavesDisjoint
  BY DEF FaultInit, Init, LeavesClaimed, LeavesDisjoint, Live
<1>5. DamageContained
  BY DEF FaultInit, Init, DamageContained, NoLeaf, EmptyFile, FileIds
<1> QED
  BY <1>2, <1>3, <1>4, <1>5 DEF FInv

(* Every step keeps the invariant, those that fail too. *)
LEMMA FaultStep == FInv /\ [FaultNext]_faultVars => FInv'
<1> SUFFICES ASSUME FInv, [FaultNext]_faultVars PROVE FInv'
  OBVIOUS
<1>0. /\ index_tree \in [Keys -> kv_index \cup {NoLeaf}]
      /\ disk \in [FileIds -> data_file] /\ reply \in Replies
      /\ faults \in 0 .. MaxFaults /\ restarts \in 0 .. MaxRestarts /\ undefined \in BOOLEAN
  BY DEF FInv, FaultTypeOK, TypeOK
<1>1. ASSUME NEW k \in Keys, NEW v \in Values, Put(k, v)
      PROVE  FInv'
  <2>1. CASE PutInTable
    BY <1>1, <2>1, PutStoredFInv, PutTooLargeFInv DEF Put, schema_put_kv
  <2>2. CASE ~PutInTable
    <3>1. /\ UNCHANGED <<disk, cur_size, table, index_tree, kv_count, reply, damaged>>
          /\ undefined' = TRUE /\ NothingFails
      BY <1>1, <2>2 DEF Put, schema_put_kv, GoesBeyond
    <3> QED
      BY <1>0, <3>1, QuietFInv DEF NothingFails
  <2> QED
    BY <2>1, <2>2
<1>2. ASSUME NEW k \in Keys, GetOrDel(k) \/ ReadFails(k)
      PROVE  FInv'
  <2>1. UNCHANGED <<disk, cur_size, table, kv_count, damaged>>
    BY <1>2 DEF GetOrDel, ReadFails, schema_get_kv, schema_del_kv
  <2>2. index_tree' = index_tree \/ index_tree' = [index_tree EXCEPT ![k] = NoLeaf]
    BY <1>2 DEF GetOrDel, ReadFails, schema_get_kv, schema_del_kv
  <2>3. /\ \A j \in Keys : index_tree'[j] = index_tree[j] \/ index_tree'[j] = NoLeaf
        /\ index_tree' \in [Keys -> kv_index \cup {NoLeaf}]
    BY <1>0, <2>2
  <2>4. faults' \in 0 .. MaxFaults /\ restarts' \in 0 .. MaxRestarts
    BY <1>0, <1>2 DEF GetOrDel, ReadFails, NothingFails, FaultHappens
  <2>5. reply' \in Replies
    <3>1. CASE schema_get_kv(k)
      <4>1. Stored(k) \in Values \cup {NoValue, Garbage}
        BY StoredIn
      <4> QED
        BY <3>1, <4>1 DEF schema_get_kv, Replies
    <3>2. CASE schema_del_kv(k)
      BY <3>2 DEF schema_del_kv, Replies
    <3>3. CASE ReadFails(k)
      BY <3>3 DEF ReadFails, Replies
    <3> QED
      BY <1>2, <3>1, <3>2, <3>3 DEF GetOrDel
  <2>6. undefined' \in BOOLEAN
    BY <1>2 DEF GetOrDel, ReadFails, schema_get_kv, schema_del_kv, Strays, FInv,
                FaultTypeOK, TypeOK
  <2> QED
    BY <2>1, <2>3, <2>4, <2>5, <2>6, QuietFInv
<1>3. ASSUME NEW k \in Keys, NEW v \in Values,
             WriteFails(k, v) \/ WriteShort(k, v) \/ KilledInPut(k, v)
      PROVE  FInv'
  BY <1>3, WriteFailsFInv, WriteShortFInv, KilledInPutFInv
<1>4. CASE Restart
  <2>1. disk' = disk /\ RecordsDisjoint'
    BY <1>4 DEF Restart, FInv, RecordsDisjoint
  <2> QED
    BY <1>0, <1>4, <2>1, RestartFInv DEF Restart
<1>5. CASE UNCHANGED faultVars
  <2>1. /\ UNCHANGED <<disk, cur_size, table, index_tree, kv_count, reply, undefined>>
        /\ UNCHANGED <<damaged, faults, restarts>>
    BY <1>5 DEF faultVars, vars
  <2> QED
    BY <1>0, <2>1, QuietFInv
<1> QED
  BY <1>1, <1>2, <1>3, <1>4, <1>5 DEF FaultNext

(* FInv holds whatever fails and however often the process is restarted. *)
THEOREM FaultInductive == FaultSpec => []FInv
BY FaultInitInv, FaultStep, PTL DEF FaultSpec

-----------------------------------------------------------------------------
(* The variables keep their types across failures and restarts: no offset  *)
(* is negative and no leaf names a file that may not exist.                *)
THEOREM FaultTypeCorrect == FaultSpec => []FaultTypeOK
<1>1. FInv => FaultTypeOK
  BY DEF FInv
<1> QED
  BY <1>1, FaultInductive, PTL

(* Neither failed or torn writes nor restarts make complete records of a   *)
(* file overlap.                                                           *)
THEOREM RecordsDisjointAlways == FaultSpec => []RecordsDisjoint
<1>1. FInv => RecordsDisjoint
  BY DEF FInv
<1> QED
  BY <1>1, FaultInductive, PTL

(* No two leaves lay claim to the same bytes of a file.                    *)
THEOREM LeavesDisjointAlways == FaultSpec => []LeavesDisjoint
<1>1. FInv => LeavesDisjoint
  BY DEF FInv
<1> QED
  BY <1>1, FaultInductive, PTL

(* A file that no failure happened to and that was opened empty is right,  *)
(* whatever happened to the others.                                        *)
THEOREM DamageContainedAlways == FaultSpec => []DamageContained
<1>1. FInv => DamageContained
  BY DEF FInv
<1> QED
  BY <1>1, FaultInductive, PTL

-----------------------------------------------------------------------------
(* What a step does to a file: it appends a record, or a part of one.      *)
Extends(file, old) ==
  /\ old.recs \subseteq file.recs
  /\ old.len <= file.len
  /\ \A r \in file.recs \ old.recs : r.off >= old.len

(* An append extends a file. *)
LEMMA AppendedExtends ==
  ASSUME NEW file \in data_file, NEW k \in Keys, NEW v \in Values
  PROVE  Extends(Appended(file, k, v), file)
<1>1. /\ Appended(file, k, v).len = file.len + RecSize[k][v]
      /\ Appended(file, k, v).recs =
           file.recs \cup {[off |-> file.len, size |-> RecSize[k][v], key |-> k, val |-> v]}
  BY AppendedFacts
<1>2. RecSize[k][v] \in Nat /\ file.len \in Nat
  BY RecSizePos
<1> QED
  BY <1>1, <1>2 DEF Extends

(* Every file is extended, or stays, when one of them is. *)
LEMMA FilesExtended ==
  ASSUME FInv, NEW f \in FileIds, NEW k \in Keys, NEW v \in Values,
         \/ disk' = [disk EXCEPT ![f] = Appended(disk[f], k, v)]
         \/ \E n \in 1 .. (RecSize[k][v] - 1) :
              disk' = [disk EXCEPT ![f] = [disk[f] EXCEPT !.len = @ + n]]
  PROVE  \A g \in FileIds : Extends(disk'[g], disk[g])
<1>0. disk \in [FileIds -> data_file]
  BY DEF FInv, FaultTypeOK, TypeOK
<1>1. \A g \in FileIds : Extends(disk[g], disk[g])
  BY <1>0 DEF Extends
<1>2. Extends(disk'[f], disk[f])
  <2>1. CASE disk' = [disk EXCEPT ![f] = Appended(disk[f], k, v)]
    BY <1>0, <2>1, AppendedExtends
  <2>2. ASSUME NEW n \in 1 .. (RecSize[k][v] - 1),
               disk' = [disk EXCEPT ![f] = [disk[f] EXCEPT !.len = @ + n]]
        PROVE  Extends(disk'[f], disk[f])
    <3>1. disk'[f].recs = disk[f].recs /\ disk'[f].len = disk[f].len + n
      BY <1>0, <2>2
    <3>2. disk[f].len \in Nat /\ n \in Nat
      BY <1>0, RecSizePos
    <3> QED
      BY <3>1, <3>2 DEF Extends
  <2> QED
    BY <2>1, <2>2
<1>3. \A g \in FileIds \ {f} : disk'[g] = disk[g]
  BY <1>0
<1> QED
  BY <1>1, <1>2, <1>3

(* Files only ever grow at their end, across failures, kills and restarts. *)
THEOREM FaultAppendOnly == FaultSpec => AppendOnly
<1> DEFINE Grows == \A f \in FileIds : Extends(disk'[f], disk[f])
<1>1. FInv /\ [FaultNext]_faultVars => Grows
  <2> SUFFICES ASSUME FInv, [FaultNext]_faultVars PROVE Grows
    OBVIOUS
  <2>0. disk \in [FileIds -> data_file] /\ fid \in 1 .. MaxFiles
    BY DEF FInv, FaultTypeOK, TypeOK
  <2>1. disk' = disk => Grows
    BY <2>0 DEF Extends
  <2>2. ASSUME NEW k \in Keys, NEW v \in Values, PutStored(k, v)
        PROVE  Grows
    <3>1. Rotate /\ disk' = [disk EXCEPT ![Target] = Appended(disk[Target], k, v)]
      BY <2>2 DEF PutStored, Target
    <3>2. Target \in FileIds
      BY <3>1, TargetFacts
    <3> QED
      BY <3>1, <3>2, FilesExtended
  <2>3. ASSUME NEW k \in Keys, NEW v \in Values, WriteShort(k, v)
        PROVE  Grows
    <3>1. Rotate
      BY <2>3 DEF WriteShort
    <3>2. Target \in FileIds
      BY <3>1, TargetFacts
    <3>3. \E n \in 1 .. (RecSize[k][v] - 1) :
            disk' = [disk EXCEPT ![Target] = [disk[Target] EXCEPT !.len = @ + n]]
      BY <2>0, <2>3, <3>2 DEF WriteShort, Target
    <3> QED
      BY <3>2, <3>3, FilesExtended
  <2>4. ASSUME NEW k \in Keys, NEW v \in Values, KilledInPut(k, v)
        PROVE  Grows
    <3> DEFINE f == IF Full THEN fid ELSE fid - 1
    <3>1. f \in FileIds
      BY <2>0, <2>4 DEF KilledInPut, FileIds
    <3>2. \/ disk' = [disk EXCEPT ![f] = Appended(disk[f], k, v)]
          \/ \E n \in 1 .. (RecSize[k][v] - 1) :
               disk' = [disk EXCEPT ![f] = [disk[f] EXCEPT !.len = @ + n]]
      BY <2>0, <2>4, <3>1 DEF KilledInPut
    <3> HIDE DEF f
    <3> QED
      BY <3>1, <3>2, FilesExtended
  <2>5. ASSUME NEW k \in Keys, NEW v \in Values,
               PutTooLarge(k, v) \/ WriteFails(k, v)
        PROVE  disk' = disk
    BY <2>5 DEF PutTooLarge, WriteFails
  <2>6. ASSUME NEW k \in Keys, GetOrDel(k) \/ ReadFails(k)
        PROVE  disk' = disk
    BY <2>6 DEF GetOrDel, schema_get_kv, schema_del_kv, ReadFails
  <2>7. Restart \/ UNCHANGED faultVars => disk' = disk
    BY DEF Restart, faultVars, vars
  <2> HIDE DEF Grows
  <2>8. GoesBeyond => disk' = disk
    BY DEF GoesBeyond
  <2> QED
    BY <2>1, <2>2, <2>3, <2>4, <2>5, <2>6, <2>7, <2>8 DEF FaultNext, Put, schema_put_kv
<1>2. Grows => [Grows]_vars
  OBVIOUS
<1>3. [][Grows]_vars => AppendOnly
  BY PTL DEF AppendOnly, Extends
<1> QED
  BY <1>1, <1>2, <1>3, FaultInductive, PTL DEF FaultSpec
=============================================================================
