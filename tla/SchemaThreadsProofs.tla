------------------------ MODULE SchemaThreadsProofs -------------------------
(***************************************************************************)
(* Theorems about SchemaThreads, for any number of threads that make any   *)
(* number of calls of any kind, and for every set of keys, values and      *)
(* record sizes.                                                           *)
(*                                                                         *)
(* What a thread may find in the file table while another adds to it       *)
(* depends on how far that one is, so that the inductive invariant says,   *)
(* for each place of the locked section, what the table holds there, and   *)
(* that only the owner of the lock is in it.  What is on its way into a    *)
(* file, and what is added for a full one, follow from that.  The number   *)
(* of files is not bounded by the table: the one that does not fit makes   *)
(* the program undefined, after which nothing is claimed of it.            *)
(***************************************************************************)
EXTENDS SchemaThreads, FoldLemmas, TLAPS

Places == {"idle"} \cup PutPlaces \cup LeafPlaces \cup GetPlaces \cup DelPlaces

(* The places under schema.lock. *)
AddPlaces == {"open", "bump_file_cnt", "bump_fid", "unlock"}

(* The places of a thread that has taken a file, or a kv_index, and will   *)
(* use it again.                                                           *)
FilePlaces == {"size", "offset", "reserve", "write", "search", "insert", "set_fid",
               "seek", "read"} \cup LoadPlaces
LeafUses == {"set_fid", "set_offset", "set_size", "get_fid"} \cup LoadPlaces

(* A thread inside a call has been counted, and none makes too many. *)
CallsInBounds ==
  \A t \in Threads : ops[t] <= MaxOps[t] /\ (pc[t] # "idle" => ops[t] >= 1)

(* The owner of the lock, and no other thread, is in the locked section.   *)
LockHeld == \A t \in Threads : pc[t] \in AddPlaces <=> lock = t

(* What the table and its counters are, by the place of the lock's owner. *)
TableAt(opened_files, counted) == opened = 0 .. opened_files - 1 /\ file_cnt = counted

TableShape ==
  /\ lock = Nobody => TableAt(fid, fid)
  /\ \A t \in Threads :
       /\ pc[t] = "open" => TableAt(fid, fid)
       /\ pc[t] = "bump_file_cnt" => TableAt(fid + 1, fid)
       /\ pc[t] = "bump_fid" => TableAt(fid + 1, fid + 1)
       /\ pc[t] = "unlock" => TableAt(fid, fid)

(* The table is the one that was allocated first, and as long as nothing   *)
(* is undefined every file has its place in it: the file that would have   *)
(* it reallocated comes after one that has none.                           *)
TableFirst ==
  /\ slots = MinLen
  /\ ~undefined => opened \subseteq 0 .. (MinLen - 1)

(* Files in use are in the table: those of the threads, and those that     *)
(* leaves name.                                                            *)
FilesOpen ==
  /\ \A t \in Threads : pc[t] \in FilePlaces => loc[t].f \in opened
  /\ \A id \in LeafIds : kv_indexes[id] \in kv_index => kv_indexes[id].fid \in opened

(* Pointers, in the tree and in the threads, are to allocated kv_indexes. *)
PointersMade ==
  /\ \A k \in Keys : index_tree[k] # NULL => kv_indexes[index_tree[k]] \in kv_index
  /\ \A t \in Threads : pc[t] \in LeafUses =>
       loc[t].leaf \in LeafIds /\ kv_indexes[loc[t].leaf] \in kv_index

IInv ==
  /\ TypeOK
  /\ CallsInBounds
  /\ LockHeld
  /\ TableShape
  /\ TableFirst
  /\ FilesOpen
  /\ PointersMade

USE GarbageAssumption, SizeAssumption, TableAssumption, ThreadAssumption,
    FirstFileAssumption
USE DEF Places, PutPlaces, LeafPlaces, GetPlaces, DelPlaces, LoadPlaces, AddPlaces,
        FilePlaces, LeafUses, Goto, Locals

-----------------------------------------------------------------------------
(* What a file gains by an append. *)
LEMMA AppendedType ==
  ASSUME NEW file \in data_file, NEW k \in Keys, NEW v \in Values
  PROVE  Appended(file, k, v) \in data_file
BY DEF Appended, data_file, kv_value

(* A read answers with a value or with garbage. *)
LEMMA ReadType ==
  ASSUME NEW file \in data_file, NEW o \in Nat, NEW n \in Nat
  PROVE  data_file_read(file, o, n) \in Values \cup {Garbage}
<1> DEFINE hits == {r \in file.recs : r.off = o /\ r.size <= n}
<1>1. CASE hits = {}
  BY <1>1 DEF data_file_read
<1>2. CASE hits # {}
  <2>1. (CHOOSE r \in hits : TRUE) \in hits
    BY <1>2
  <2>2. (CHOOSE r \in hits : TRUE).val \in Values
    BY <2>1 DEF data_file, kv_value
  <2> QED
    BY <1>2, <2>2 DEF data_file_read
<1> QED
  BY <1>1, <1>2

(* The kv_index a call allocates, and what it is before that. *)
LEMMA LeafFacts ==
  /\ \A t \in Threads : \A n \in 1 .. MaxOps[t] : <<t, n>> \in LeafIds
  /\ \A k \in Keys : <<Nobody, k>> \in LeafIds
  /\ NULL \notin LeafIds
  /\ NoLeaf \notin kv_index
<1>1. ASSUME NEW t \in Threads, NEW n \in 1 .. MaxOps[t] PROVE <<t, n>> \in LeafIds
  <2>1. <<t, n>> \in {t} \X (1 .. MaxOps[t])
    OBVIOUS
  <2> QED
    BY <2>1 DEF LeafIds, CallIds
<1>2. ASSUME NEW k \in Keys PROVE <<Nobody, k>> \in LeafIds
  <2>1. <<Nobody, k>> \in {Nobody} \X Keys
    OBVIOUS
  <2> QED
    BY <2>1 DEF LeafIds
<1>3. NULL \notin LeafIds
  BY NullAssumption
<1>4. NoLeaf \notin kv_index
  BY DEF NoLeaf, kv_index, FileIds
<1> QED
  BY <1>1, <1>2, <1>3, <1>4

-----------------------------------------------------------------------------
(* The state the threads start in. *)
LEMMA InitInv == Init => IInv
<1> SUFFICES ASSUME Init PROVE IInv
  OBVIOUS
<1> USE DEF Init
<1>1. \A id \in LeafIds : kv_indexes[id] \in kv_index \cup {NoLeaf}
  <2> SUFFICES ASSUME NEW id \in LeafIds PROVE kv_indexes[id] \in kv_index \cup {NoLeaf}
    OBVIOUS
  <2> DEFINE r == CHOOSE r \in FirstFile.recs : r.key = id[2]
  <2>1. CASE id[1] = Nobody /\ id[2] \in Preloaded
    <3>1. r \in FirstFile.recs
      BY <2>1 DEF Preloaded
    <3>2. r.off \in Nat /\ r.size \in Nat \ {0}
      BY <3>1 DEF data_file, kv_value
    <3>3. kv_indexes[id] = [fid |-> 0, offset |-> r.off, size |-> r.size]
      BY <2>1
    <3> QED
      BY <3>2, <3>3 DEF kv_index, FileIds
  <2>2. CASE ~(id[1] = Nobody /\ id[2] \in Preloaded)
    BY <2>2
  <2> QED
    BY <2>1, <2>2
<1>2. \A id \in LeafIds : kv_indexes[id] \in kv_index => kv_indexes[id].fid = 0
  BY LeafFacts
<1>3. \A k \in Preloaded : k \in Keys /\ kv_indexes[<<Nobody, k>>] \in kv_index
  <2> SUFFICES ASSUME NEW k \in Preloaded
               PROVE  k \in Keys /\ kv_indexes[<<Nobody, k>>] \in kv_index
    OBVIOUS
  <2> DEFINE r == CHOOSE r \in FirstFile.recs : r.key = k
  <2>1. r \in FirstFile.recs /\ r.key = k
    BY DEF Preloaded
  <2>2. r.off \in Nat /\ r.size \in Nat \ {0} /\ k \in Keys
    BY <2>1 DEF data_file, kv_value
  <2>3. kv_indexes[<<Nobody, k>>] = [fid |-> 0, offset |-> r.off, size |-> r.size]
    BY <2>2, LeafFacts
  <2> QED
    BY <2>2, <2>3 DEF kv_index, FileIds
<1>4. kv_count \in Nat
  <2>1. IsFiniteSet(Preloaded)
    <3> DEFINE key == [r \in FirstFile.recs |-> r.key]
    <3>1. key \in Surjection(FirstFile.recs, Preloaded)
      BY DEF Preloaded, Surjection
    <3> QED
      BY <3>1, FS_Surjection
  <2> QED
    BY <2>1, FS_CardinalityType
<1>5. (CHOOSE p \in Puts : TRUE) \in Keys \X Values
  OBVIOUS
<1>6. TypeOK
  <2>1. kv_indexes \in [LeafIds -> kv_index \cup {NoLeaf}]
    BY <1>1
  <2>2. index_tree \in [Keys -> LeafIds \cup {NULL}]
    BY <1>3, LeafFacts
  <2>3. disk \in [FileIds -> data_file] /\ cur_size \in [FileIds -> Nat]
    BY DEF EmptyFile, data_file
  <2>4. args \in [Threads -> Keys \X Values]
    BY <1>5
  <2> QED
    <3>1. pc \in [Threads -> Places] /\ lock \in Threads \cup {Nobody}
      OBVIOUS
    <3>2. loc \in [Threads -> Locals]
      BY DEF FileIds
    <3>3. opened \in SUBSET FileIds /\ fid \in 1 .. MaxFiles /\ file_cnt \in 1 .. MaxFiles
      BY DEF FileIds
    <3>4. /\ pos \in [FileIds -> Nat] /\ ops \in [Threads -> Nat]
          /\ slots \in Nat /\ undefined \in BOOLEAN
      OBVIOUS
    <3>5. result \in [Threads -> (Keys \X (Values \cup {Garbage})) \cup {NULL}]
      OBVIOUS
    <3> QED
      BY <1>4, <2>1, <2>2, <2>3, <2>4, <3>1, <3>2, <3>3, <3>4, <3>5 DEF TypeOK
<1>7. CallsInBounds /\ LockHeld
  BY DEF CallsInBounds, LockHeld
<1>8. TableShape /\ TableFirst
  BY DEF TableShape, TableAt, TableFirst
<1>9. FilesOpen
  BY <1>2 DEF FilesOpen
<1>10. PointersMade
  BY <1>3 DEF PointersMade
<1> QED
  BY <1>6, <1>7, <1>8, <1>9, <1>10 DEF IInv
-----------------------------------------------------------------------------
(* The steps under the lock, and the others. *)
AddStep(t) == Lock(t) \/ OpenFile(t) \/ BumpFileCnt(t) \/ BumpFid(t) \/ Unlock(t)

OtherPut(t) ==
  \/ ReadCount(t) \/ CheckSize(t) \/ PickFile(t) \/ ReadOffset(t)
  \/ Reserve(t) \/ Write(t) \/ Search(t) \/ Insert(t) \/ BumpKvCount(t)
  \/ SetFid(t) \/ SetOffset(t) \/ SetSize(t)

OtherStep(t) == Call(t) \/ OtherPut(t) \/ GetStep(t) \/ DelStep(t)

(* Where a thread goes: a step outside the locked section leaves the table *)
(* and the lock alone and begins and ends outside that section.            *)
LEMMA OtherFacts ==
  ASSUME TypeOK, NEW t \in Threads, OtherStep(t)
  PROVE  /\ UNCHANGED <<opened, slots, table>>
         /\ pc[t] \in Places \ AddPlaces
         /\ \E to \in Places \ AddPlaces : pc' = [pc EXCEPT ![t] = to]
<1>1. CASE Call(t)
  BY <1>1 DEF Call, shared, files, memory, table
<1>2. CASE OtherPut(t)
  BY <1>2 DEF OtherPut, ReadCount, CheckSize, PickFile, ReadOffset, Reserve, Write, Search,
              Insert, BumpKvCount, SetFid, SetOffset, SetSize, shared, files, memory, table,
              TypeOK
<1>3. CASE GetStep(t)
  BY <1>3 DEF GetStep, Find, GetFid, GetSize, GetOffset, GetSizeAgain, Seek, Read, shared,
              files, memory, table
<1>4. CASE DelStep(t)
  BY <1>4 DEF DelStep, FindToDel, Delete, shared, files, memory, table
<1> QED
  BY <1>1, <1>2, <1>3, <1>4 DEF OtherStep

(* Only a read makes what is not under the lock undefined. *)
LEMMA OtherDefined ==
  ASSUME NEW t \in Threads, OtherStep(t), ~Read(t)
  PROVE  UNCHANGED undefined
<1>1. CASE Call(t)
  BY <1>1 DEF Call, shared, files, memory
<1>2. CASE OtherPut(t)
  BY <1>2 DEF OtherPut, ReadCount, CheckSize, PickFile, ReadOffset, Reserve, Write, Search,
              Insert, BumpKvCount, SetFid, SetOffset, SetSize, shared, files, memory
<1>3. CASE GetStep(t)
  BY <1>3 DEF GetStep, Find, GetFid, GetSize, GetOffset, GetSizeAgain, Seek, shared,
              files, memory
<1>4. CASE DelStep(t)
  BY <1>4 DEF DelStep, FindToDel, Delete, shared, files, memory
<1> QED
  BY <1>1, <1>2, <1>3, <1>4 DEF OtherStep

(* What the steps under the lock leave alone. *)
LEMMA AddFacts ==
  ASSUME NEW t \in Threads, AddStep(t)
  PROVE  UNCHANGED <<disk, pos, index, loc, call>>
BY DEF AddStep, Lock, OpenFile, BumpFileCnt, BumpFid, Unlock, files, index, call

-----------------------------------------------------------------------------
(* One conjunct of the invariant at a time.  Mutual exclusion, and what    *)
(* the table is at each place of the locked section, first.                *)
LEMMA LockStep ==
  ASSUME TypeOK, LockHeld, TableShape, NEW t \in Threads, AddStep(t) \/ OtherStep(t)
  PROVE  LockHeld' /\ TableShape'
<1>0. pc \in [Threads -> Places] /\ fid \in Nat /\ fid >= 1 /\ lock \in Threads \cup {Nobody}
  <2>1. pc \in [Threads -> Places]
    BY DEF TypeOK
  <2>2. fid \in 1 .. MaxFiles /\ lock \in Threads \cup {Nobody}
    BY DEF TypeOK
  <2> QED
    BY <2>1, <2>2
<1> USE DEF LockHeld, TableShape, TableAt
<1>1. CASE Lock(t)
  BY <1>0, <1>1 DEF Lock, files
<1>2. CASE OpenFile(t)
  <2>1. opened' = 0 .. fid /\ fid' = fid /\ file_cnt' = fid /\ lock' = lock /\ lock = t
    BY <1>0, <1>2 DEF OpenFile, table
  <2> QED
    BY <1>0, <1>2, <2>1 DEF OpenFile
<1>3. CASE BumpFileCnt(t)
  BY <1>0, <1>3 DEF BumpFileCnt, files
<1>4. CASE BumpFid(t)
  BY <1>0, <1>4 DEF BumpFid, files
<1>5. CASE Unlock(t)
  BY <1>0, <1>5 DEF Unlock, files
<1>6. CASE OtherStep(t)
  <2>1. UNCHANGED <<opened, fid, file_cnt, lock>> /\ pc[t] \notin AddPlaces
    BY <1>6, OtherFacts DEF table
  <2>2. PICK to \in Places \ AddPlaces : pc' = [pc EXCEPT ![t] = to]
    BY <1>6, OtherFacts
  <2> QED
    BY <1>0, <2>1, <2>2
<1> QED
  BY <1>1, <1>2, <1>3, <1>4, <1>5, <1>6 DEF AddStep

(* The last file that still has its place in the table does not have it    *)
(* reallocated, and the next one is stored beyond its end.                 *)
LEMMA TableFirstStep ==
  ASSUME TypeOK, TableShape, TableFirst, ~undefined,
         NEW t \in Threads, AddStep(t) \/ OtherStep(t)
  PROVE  TableFirst'
<1> USE DEF TableFirst
<1>1. CASE OpenFile(t)
  <2>1. opened = 0 .. fid - 1 /\ fid \in Nat /\ fid >= 1
    BY <1>1 DEF OpenFile, TableShape, TableAt, TypeOK
  <2>2. fid <= MinLen
    <3>1. fid - 1 \in 0 .. fid - 1
      BY <2>1
    <3>2. fid - 1 \in 0 .. (MinLen - 1)
      BY <2>1, <3>1
    <3> QED
      BY <2>1, <3>2
  <2>3. slots' = slots
    BY <1>1, <2>1, <2>2 DEF OpenFile, SlotsFor
  <2>4. ~undefined' => opened' \subseteq 0 .. (MinLen - 1)
    <3>1. opened' = opened \cup {fid} /\ (~undefined' => ~(fid >= MinLen))
      BY <1>1, <2>3 DEF OpenFile
    <3>2. fid \in Nat /\ MinLen \in Nat
      BY <2>1
    <3>3. ~(fid >= MinLen) => fid \in 0 .. (MinLen - 1)
      BY <3>2
    <3> QED
      BY <3>1, <3>3
  <2> QED
    BY <2>3, <2>4
<1>2. CASE AddStep(t) /\ ~OpenFile(t)
  BY <1>2 DEF AddStep, Lock, BumpFileCnt, BumpFid, Unlock, files, memory
<1>3. CASE OtherStep(t)
  BY <1>3, OtherFacts
<1> QED
  BY <1>1, <1>2, <1>3

(* The counter that is read without the lock, and the one a put takes its  *)
(* file from, name a file in the table at any moment.                      *)
LEMMA TableNow ==
  ASSUME TypeOK, LockHeld, TableShape, TableFirst
  PROVE  /\ TableInStep
         /\ file_cnt - 1 \in opened /\ fid - 1 \in opened
<1>0. fid \in Nat /\ fid >= 1 /\ lock \in Threads \cup {Nobody}
  BY DEF TypeOK
<1>1. CASE lock = Nobody
  BY <1>0, <1>1 DEF TableShape, TableAt, TableFirst, TableInStep
<1>2. ASSUME NEW t \in Threads, lock = t
      PROVE  TableInStep /\ file_cnt - 1 \in opened /\ fid - 1 \in opened
  <2>1. pc[t] \in AddPlaces /\ lock # Nobody
    BY <1>2 DEF LockHeld
  <2> QED
    BY <1>0, <2>1 DEF TableShape, TableAt, TableFirst, TableInStep
<1> QED
  BY <1>0, <1>1, <1>2

(* The table only grows. *)
LEMMA OpenedGrows ==
  ASSUME NEW t \in Threads, TypeOK, AddStep(t) \/ OtherStep(t)
  PROVE  opened \subseteq opened'
<1>1. CASE AddStep(t)
  BY <1>1 DEF AddStep, Lock, OpenFile, BumpFileCnt, BumpFid, Unlock, files
<1>2. CASE OtherStep(t)
  BY <1>2, OtherFacts
<1> QED
  BY <1>1, <1>2
-----------------------------------------------------------------------------
(* A thread begins a call only when it has one left. *)
LEMMA BoundsStep ==
  ASSUME TypeOK, CallsInBounds, NEW t \in Threads, AddStep(t) \/ OtherStep(t)
  PROVE  CallsInBounds'
<1> USE DEF CallsInBounds
<1>1. pc \in [Threads -> Places] /\ ops \in [Threads -> Nat]
  BY DEF TypeOK
<1>2. CASE Call(t)
  BY <1>1, <1>2 DEF Call
<1>3. CASE ~Call(t)
  <2>1. ops' = ops /\ pc[t] # "idle"
    <3>1. CASE AddStep(t)
      BY <3>1, AddFacts DEF AddStep, Lock, OpenFile, BumpFileCnt, BumpFid, Unlock, call
    <3>2. CASE OtherPut(t)
      BY <3>2 DEF OtherPut, ReadCount, CheckSize, PickFile, ReadOffset, Reserve, Write,
         Search, Insert, BumpKvCount, SetFid, SetOffset, SetSize, call
    <3>3. CASE GetStep(t)
      BY <3>3 DEF GetStep, Find, GetFid, GetSize, GetOffset, GetSizeAgain, Seek, Read, call
    <3>4. CASE DelStep(t)
      BY <3>4 DEF DelStep, FindToDel, Delete, call
    <3> QED
      BY <1>3, <3>1, <3>2, <3>3, <3>4 DEF OtherStep
  <2>2. \E to : pc' = [pc EXCEPT ![t] = to]
    <3>1. CASE AddStep(t)
      BY <3>1 DEF AddStep, Lock, OpenFile, BumpFileCnt, BumpFid, Unlock
    <3>2. CASE OtherStep(t)
      BY <3>2, OtherFacts
    <3> QED
      BY <3>1, <3>2
  <2> QED
    BY <1>1, <2>1, <2>2
<1> QED
  BY <1>2, <1>3

(* A thread takes only pointers to allocated kv_indexes, out of the tree,  *)
(* and no kv_index is given up.                                            *)
LEMMA PointersStep ==
  ASSUME TypeOK, CallsInBounds, FilesOpen, PointersMade, TypeOK',
         NEW t \in Threads, AddStep(t) \/ OtherStep(t)
  PROVE  PointersMade'
<1> USE DEF PointersMade
<1>0. /\ pc \in [Threads -> Places] /\ index_tree \in [Keys -> LeafIds \cup {NULL}]
      /\ kv_indexes \in [LeafIds -> kv_index \cup {NoLeaf}]
      /\ kv_indexes' \in [LeafIds -> kv_index \cup {NoLeaf}]
      /\ loc \in [Threads -> Locals]
      /\ args \in [Threads -> Keys \X Values]
  <2>1. pc \in [Threads -> Places]
    BY DEF TypeOK
  <2> QED
    BY <2>1 DEF TypeOK
<1>1. CASE AddStep(t)
  BY <1>0, <1>1, AddFacts DEF AddStep, Lock, OpenFile, BumpFileCnt, BumpFid, Unlock, index
<1>2. CASE Call(t)
  BY <1>0, <1>2 DEF Call, shared, index
<1>3. CASE ReadCount(t) \/ CheckSize(t) \/ PickFile(t) \/ ReadOffset(t)
  BY <1>0, <1>3 DEF ReadCount, CheckSize, PickFile, ReadOffset, shared, index
<1>4. CASE Reserve(t) \/ Write(t) \/ BumpKvCount(t)
  BY <1>0, <1>4 DEF Reserve, Write, BumpKvCount, index
<1>5. CASE Search(t) \/ Find(t)
  <2>1. Key(t) \in Keys
    BY <1>0 DEF Key
  <2>2. UNCHANGED index
    BY <1>5 DEF Search, Find, shared
  <2>3. loc' = [loc EXCEPT ![t].leaf = index_tree[Key(t)]]
    BY <1>5 DEF Search, Find
  <2>4. PICK to \in Places : /\ pc' = [pc EXCEPT ![t] = to]
                             /\ to \in LeafUses => index_tree[Key(t)] # NULL
    <3> DEFINE found == index_tree[Key(t)] # NULL
    <3>1. CASE Search(t)
      <4>1. found => pc' = [pc EXCEPT ![t] = "set_fid"]
        BY <3>1 DEF Search
      <4>2. ~found => pc' = [pc EXCEPT ![t] = "insert"]
        BY <3>1 DEF Search
      <4> QED
        BY <4>1, <4>2
    <3>2. CASE Find(t)
      <4>1. found => pc' = [pc EXCEPT ![t] = "get_fid"]
        BY <3>2 DEF Find
      <4>2. ~found => pc' = [pc EXCEPT ![t] = "idle"]
        BY <3>2 DEF Find
      <4> QED
        BY <4>1, <4>2
    <3> QED
      BY <1>5, <3>1, <3>2
  <2>5. index_tree[Key(t)] # NULL => kv_indexes[index_tree[Key(t)]] \in kv_index
    BY <2>1
  <2>6. \A s \in Threads : s # t => loc'[s] = loc[s] /\ pc'[s] = pc[s]
    BY <1>0, <2>3, <2>4
  <2>7. loc'[t].leaf = index_tree[Key(t)]
    BY <1>0, <2>3
  <2>8. pc'[t] \in LeafUses => index_tree[Key(t)] # NULL
    BY <1>0, <2>4
  <2>9. index_tree[Key(t)] # NULL => index_tree[Key(t)] \in LeafIds
    BY <1>0, <2>1
  <2> QED
    BY <2>2, <2>5, <2>6, <2>7, <2>8, <2>9 DEF index
<1>6. CASE Insert(t)
  <2>1. <<t, ops[t]>> \in LeafIds /\ Key(t) \in Keys
    BY <1>0, <1>6, LeafFacts DEF Insert, CallsInBounds, Key, TypeOK
  <2> DEFINE leaf == [fid |-> loc[t].f, offset |-> loc[t].offset, size |-> Size(t)]
  <2>2. leaf \in kv_index
    BY <1>0 DEF kv_index, Size
  <2>3. kv_indexes' = [kv_indexes EXCEPT ![<<t, ops[t]>>] = leaf]
    BY <1>6 DEF Insert
  <2>4. \A id \in LeafIds : kv_indexes[id] \in kv_index => kv_indexes'[id] \in kv_index
    BY <1>0, <2>2, <2>3
  <2>5. kv_indexes'[<<t, ops[t]>>] \in kv_index
    BY <1>0, <2>1, <2>2, <2>3
  <2> QED
    BY <1>0, <1>6, <2>1, <2>4, <2>5 DEF Insert
<1>7. CASE SetFid(t) \/ SetOffset(t) \/ SetSize(t)
  <2> DEFINE id == loc[t].leaf
  <2>1. id \in LeafIds /\ kv_indexes[id] \in kv_index
    BY <1>7 DEF SetFid, SetOffset, SetSize
  <2>2. loc[t].f \in FileIds /\ loc[t].offset \in Nat /\ Size(t) \in Nat \ {0}
    BY <1>0 DEF Size
  <2>3. kv_indexes'[id] \in kv_index
    <3> DEFINE leaf == kv_indexes[id]
    <3>1. /\ [leaf EXCEPT !.fid = loc[t].f] \in kv_index
          /\ [leaf EXCEPT !.offset = loc[t].offset] \in kv_index
          /\ [leaf EXCEPT !.size = Size(t)] \in kv_index
      BY <2>1, <2>2 DEF kv_index
    <3>2. \/ kv_indexes' = [kv_indexes EXCEPT ![id] = [leaf EXCEPT !.fid = loc[t].f]]
          \/ kv_indexes' = [kv_indexes EXCEPT ![id] = [leaf EXCEPT !.offset = loc[t].offset]]
          \/ kv_indexes' = [kv_indexes EXCEPT ![id] = [leaf EXCEPT !.size = Size(t)]]
      BY <1>7 DEF SetFid, SetOffset, SetSize
    <3> HIDE DEF leaf
    <3> QED
      BY <1>0, <2>1, <3>1, <3>2
  <2>4. \A other \in LeafIds : kv_indexes[other] \in kv_index => kv_indexes'[other] \in kv_index
    BY <1>0, <1>7, <2>1, <2>3 DEF SetFid, SetOffset, SetSize
  <2> QED
    BY <1>0, <1>7, <2>4 DEF SetFid, SetOffset, SetSize
<1>8. CASE GetFid(t) \/ GetSize(t) \/ GetOffset(t) \/ GetSizeAgain(t)
  <2>1. UNCHANGED index
    BY <1>8 DEF GetFid, GetSize, GetOffset, GetSizeAgain, shared
  <2>2. \A s \in Threads : loc'[s].leaf = loc[s].leaf
    <3>1. CASE GetFid(t)
      BY <1>0, <3>1 DEF GetFid
    <3>2. CASE GetSize(t)
      BY <1>0, <3>2 DEF GetSize
    <3>3. CASE GetOffset(t)
      BY <1>0, <3>3 DEF GetOffset
    <3>4. CASE GetSizeAgain(t)
      BY <1>0, <3>4 DEF GetSizeAgain
    <3> QED
      BY <1>8, <3>1, <3>2, <3>3, <3>4
  <2>3. \A s \in Threads : pc'[s] \in LeafUses => pc[s] \in LeafUses
    BY <1>0, <1>8 DEF GetFid, GetSize, GetOffset, GetSizeAgain
  <2> QED
    BY <2>1, <2>2, <2>3 DEF index
<1>9. CASE Seek(t) \/ Read(t)
  BY <1>0, <1>9 DEF Seek, Read, index
<1>10. CASE DelStep(t)
  BY <1>0, <1>10 DEF DelStep, FindToDel, Delete, Key, shared, index
<1> QED
  BY <1>1, <1>2, <1>3, <1>4, <1>5, <1>6, <1>7, <1>8, <1>9, <1>10
     DEF OtherStep, OtherPut, GetStep
-----------------------------------------------------------------------------
(* A thread takes only files that are in the table: by a counter, because  *)
(* a counter is moved after the table, or out of a leaf, because a leaf is *)
(* given the file its thread has taken.                                    *)
LEMMA FilesStep ==
  ASSUME TypeOK, LockHeld, TableShape, TableFirst, CallsInBounds, FilesOpen,
         PointersMade, NEW t \in Threads, AddStep(t) \/ OtherStep(t)
  PROVE  FilesOpen'
<1> USE DEF FilesOpen
<1>0. /\ pc \in [Threads -> Places]
      /\ kv_indexes \in [LeafIds -> kv_index \cup {NoLeaf}]
      /\ loc \in [Threads -> Locals]
  <2>1. pc \in [Threads -> Places]
    BY DEF TypeOK
  <2> QED
    BY <2>1 DEF TypeOK
<1>1. CASE AddStep(t)
  <2>1. UNCHANGED <<loc, kv_indexes>> /\ opened \subseteq opened'
    BY <1>1, AddFacts, OpenedGrows DEF index
  <2>2. \A s \in Threads : pc'[s] \in FilePlaces => pc[s] \in FilePlaces
    BY <1>0, <1>1 DEF AddStep, Lock, OpenFile, BumpFileCnt, BumpFid, Unlock
  <2> QED
    BY <2>1, <2>2
<1>2. ASSUME OtherStep(t) PROVE opened' = opened
  BY <1>2, OtherFacts
<1>3. CASE Call(t) \/ DelStep(t) \/ CheckSize(t) \/ BumpKvCount(t) \/ Find(t)
  <2>1. UNCHANGED kv_indexes /\ opened' = opened
    BY <1>2, <1>3 DEF OtherStep, OtherPut, GetStep, Call, DelStep, FindToDel, Delete,
       CheckSize, BumpKvCount, Find, shared, index
  <2>2. pc'[t] \notin FilePlaces
    <3>1. CASE CheckSize(t)
      BY <1>0, <3>1 DEF CheckSize
    <3>2. CASE Call(t) \/ DelStep(t) \/ BumpKvCount(t)
      BY <1>0, <3>2 DEF Call, DelStep, FindToDel, Delete, BumpKvCount
    <3>3. CASE Find(t)
      BY <1>0, <3>3 DEF Find
    <3> QED
      BY <1>3, <3>1, <3>2, <3>3
  <2>3. \A s \in Threads : s # t => loc'[s] = loc[s] /\ pc'[s] = pc[s]
    BY <1>0, <1>3 DEF Call, DelStep, FindToDel, Delete, CheckSize, BumpKvCount, Find
  <2> QED
    BY <2>1, <2>2, <2>3
<1>4. CASE ReadCount(t) \/ PickFile(t)
  <2>1. UNCHANGED kv_indexes /\ opened' = opened
    BY <1>2, <1>4 DEF OtherStep, OtherPut, ReadCount, PickFile, shared, index
  <2>2. loc'[t].f \in opened
    BY <1>0, <1>4, TableNow DEF ReadCount, PickFile
  <2>3. \A s \in Threads : s # t => loc'[s] = loc[s] /\ pc'[s] = pc[s]
    BY <1>0, <1>4 DEF ReadCount, PickFile
  <2> QED
    BY <2>1, <2>2, <2>3
<1>5. CASE ReadOffset(t) \/ Reserve(t) \/ Write(t) \/ Search(t)
  <2>1. UNCHANGED kv_indexes /\ opened' = opened
    BY <1>2, <1>5 DEF OtherStep, OtherPut, ReadOffset, Reserve, Write, Search, shared, index
  <2>2. loc'[t].f = loc[t].f
    BY <1>0, <1>5 DEF ReadOffset, Reserve, Write, Search
  <2>3. pc[t] \in FilePlaces
    BY <1>5 DEF ReadOffset, Reserve, Write, Search
  <2>4. \A s \in Threads : s # t => loc'[s] = loc[s] /\ pc'[s] = pc[s]
    BY <1>0, <1>5 DEF ReadOffset, Reserve, Write, Search
  <2> QED
    BY <2>1, <2>2, <2>3, <2>4
<1>6. CASE Insert(t) \/ SetFid(t) \/ SetOffset(t) \/ SetSize(t)
  <2>1. UNCHANGED loc /\ opened' = opened /\ pc'[t] \notin FilePlaces
    BY <1>0, <1>2, <1>6 DEF OtherStep, OtherPut, Insert, SetFid, SetOffset, SetSize
  <2>2. \A s \in Threads : s # t => pc'[s] = pc[s]
    BY <1>0, <1>6 DEF Insert, SetFid, SetOffset, SetSize
  <2>3. \A id \in LeafIds : kv_indexes'[id] \in kv_index => kv_indexes'[id].fid \in opened
    <3> SUFFICES ASSUME NEW id \in LeafIds, kv_indexes'[id] \in kv_index
                 PROVE  kv_indexes'[id].fid \in opened
      OBVIOUS
    <3>1. CASE Insert(t)
      BY <1>0, <3>1 DEF Insert
    <3>2. CASE SetFid(t)
      <4>1. loc[t].leaf \in LeafIds /\ kv_indexes[loc[t].leaf] \in kv_index
        BY <3>2 DEF SetFid, PointersMade
      <4>2. loc[t].f \in opened
        BY <3>2 DEF SetFid
      <4>3. CASE id = loc[t].leaf
        BY <1>0, <3>2, <4>1, <4>2, <4>3 DEF SetFid, kv_index
      <4>4. CASE id # loc[t].leaf
        BY <1>0, <3>2, <4>4 DEF SetFid
      <4> QED
        BY <4>3, <4>4
    <3>3. CASE SetOffset(t) \/ SetSize(t)
      <4>1. loc[t].leaf \in LeafIds /\ kv_indexes[loc[t].leaf] \in kv_index
        BY <3>3 DEF SetOffset, SetSize, PointersMade
      <4>2. CASE id = loc[t].leaf
        <5>1. kv_indexes'[id].fid = kv_indexes[id].fid
          <6>1. CASE SetOffset(t)
            BY <1>0, <4>1, <4>2, <6>1 DEF SetOffset, kv_index
          <6>2. CASE SetSize(t)
            BY <1>0, <4>1, <4>2, <6>2 DEF SetSize, kv_index
          <6> QED
            BY <3>3, <6>1, <6>2
        <5> QED
          BY <4>1, <4>2, <5>1
      <4>3. CASE id # loc[t].leaf
        BY <1>0, <3>3, <4>3 DEF SetOffset, SetSize
      <4> QED
        BY <4>2, <4>3
    <3> QED
      BY <1>6, <3>1, <3>2, <3>3
  <2> QED
    BY <2>1, <2>2, <2>3
<1>7. CASE GetFid(t)
  <2>1. UNCHANGED kv_indexes /\ opened' = opened
    BY <1>2, <1>7 DEF OtherStep, GetStep, GetFid, shared, index
  <2>2. loc'[t].f \in opened
    BY <1>0, <1>7 DEF GetFid, PointersMade
  <2>3. \A s \in Threads : s # t => loc'[s] = loc[s] /\ pc'[s] = pc[s]
    BY <1>0, <1>7 DEF GetFid
  <2> QED
    BY <2>1, <2>2, <2>3
<1>8. CASE GetSize(t) \/ GetOffset(t) \/ GetSizeAgain(t) \/ Seek(t) \/ Read(t)
  <2>1. UNCHANGED kv_indexes /\ opened' = opened
    BY <1>2, <1>8 DEF OtherStep, GetStep, GetSize, GetOffset, GetSizeAgain, Seek, Read, shared, index
  <2>2. loc'[t].f = loc[t].f /\ pc[t] \in FilePlaces
    <3>1. CASE GetSize(t)
      BY <1>0, <3>1 DEF GetSize
    <3>2. CASE Seek(t) \/ Read(t)
      BY <3>2 DEF Seek, Read
    <3>3. CASE GetOffset(t)
      BY <1>0, <3>3 DEF GetOffset
    <3>4. CASE GetSizeAgain(t)
      BY <1>0, <3>4 DEF GetSizeAgain
    <3> QED
      BY <1>8, <3>1, <3>3, <3>4, <3>2
  <2>3. \A s \in Threads : s # t => loc'[s] = loc[s] /\ pc'[s] = pc[s]
    BY <1>0, <1>8 DEF GetSize, GetOffset, GetSizeAgain, Seek, Read
  <2> QED
    BY <2>1, <2>2, <2>3
<1> QED
  BY <1>1, <1>3, <1>4, <1>5, <1>6, <1>7, <1>8 DEF OtherStep, OtherPut, GetStep
-----------------------------------------------------------------------------
(* A thread that sets one of its local variables keeps their types. *)
LEMMA LocalsKept ==
  ASSUME loc \in [Threads -> Locals], NEW t \in Threads
  PROVE  /\ \A x \in FileIds : [loc EXCEPT ![t].f = x] \in [Threads -> Locals]
         /\ \A x \in Nat : [loc EXCEPT ![t].offset = x] \in [Threads -> Locals]
         /\ \A x \in Nat : [loc EXCEPT ![t].size = x] \in [Threads -> Locals]
         /\ \A x \in LeafIds \cup {NULL} : [loc EXCEPT ![t].leaf = x] \in [Threads -> Locals]
         /\ \A x \in Nat : [loc EXCEPT ![t].room = x] \in [Threads -> Locals]
<1>1. loc[t] \in Locals
  OBVIOUS
<1>2. /\ \A x \in FileIds : [loc[t] EXCEPT !.f = x] \in Locals
      /\ \A x \in Nat : [loc[t] EXCEPT !.offset = x] \in Locals
      /\ \A x \in Nat : [loc[t] EXCEPT !.size = x] \in Locals
      /\ \A x \in LeafIds \cup {NULL} : [loc[t] EXCEPT !.leaf = x] \in Locals
      /\ \A x \in Nat : [loc[t] EXCEPT !.room = x] \in Locals
  BY <1>1
<1>3. \A r \in Locals : [loc EXCEPT ![t] = r] \in [Threads -> Locals]
  OBVIOUS
<1> QED
  BY <1>2, <1>3

-----------------------------------------------------------------------------
(* Every step keeps the types.  The steps under the lock need the shape of *)
(* the table: the counters stay below MaxFiles because the file they count *)
(* was opened below it.                                                    *)
LEMMA AddTypeStep ==
  ASSUME TypeOK, LockHeld, TableShape, TableFirst, ~undefined,
         NEW t \in Threads, AddStep(t)
  PROVE  TypeOK'
<1>0. /\ pc \in [Threads -> Places] /\ fid \in 1 .. MaxFiles
      /\ opened \in SUBSET FileIds /\ cur_size \in [FileIds -> Nat]
  <2>1. pc \in [Threads -> Places]
    BY DEF TypeOK
  <2> QED
    BY <2>1 DEF TypeOK
<1>1. UNCHANGED <<disk, pos, kv_indexes, index_tree, kv_count, args, loc, ops, result>>
  BY AddFacts DEF index, call
<1>2. pc' \in [Threads -> Places]
  BY <1>0 DEF AddStep, Lock, OpenFile, BumpFileCnt, BumpFid, Unlock
<1>3. lock' \in Threads \cup {Nobody}
  BY DEF AddStep, Lock, OpenFile, BumpFileCnt, BumpFid, Unlock, table, TypeOK
<1>4. opened' \in SUBSET FileIds /\ cur_size' \in [FileIds -> Nat]
  <2>1. CASE OpenFile(t)
    <3>1. fid \in FileIds
      BY <1>0, <2>1 DEF OpenFile, FileIds
    <3> QED
      BY <1>0, <2>1, <3>1 DEF OpenFile
  <2>2. CASE ~OpenFile(t)
    BY <1>0, <2>2 DEF AddStep, Lock, BumpFileCnt, BumpFid, Unlock, files
  <2> QED
    BY <2>1, <2>2
<1>5. fid' \in 1 .. MaxFiles /\ file_cnt' \in 1 .. MaxFiles
  <2>1. CASE BumpFileCnt(t) \/ BumpFid(t)
    <3>1. fid \in opened
      BY <1>0, <2>1 DEF BumpFileCnt, BumpFid, TableShape, TableAt
    <3>2. fid + 1 \in 1 .. MaxFiles
      BY <1>0, <3>1 DEF FileIds
    <3> QED
      BY <1>0, <2>1, <3>2 DEF BumpFileCnt, BumpFid, TableShape, TableAt
  <2>2. CASE Lock(t) \/ OpenFile(t) \/ Unlock(t)
    BY <2>2 DEF Lock, OpenFile, Unlock, table, TypeOK
  <2> QED
    BY <2>1, <2>2 DEF AddStep
<1>6. slots' \in Nat /\ undefined' \in BOOLEAN
  <2>1. slots' \in Nat
    BY TableFirstStep DEF TableFirst
  <2>2. undefined' \in BOOLEAN
    <3>1. CASE OpenFile(t)
      BY <3>1 DEF OpenFile
    <3>2. CASE ~OpenFile(t)
      BY <3>2 DEF AddStep, Lock, BumpFileCnt, BumpFid, Unlock, files, memory, TypeOK
    <3> QED
      BY <3>1, <3>2
  <2> QED
    BY <2>1, <2>2
<1> QED
  BY <1>1, <1>2, <1>3, <1>4, <1>5, <1>6 DEF TypeOK

(* Types of the steps outside the locked section. *)
LEMMA OtherTypeStep ==
  ASSUME TypeOK, LockHeld, TableShape, CallsInBounds, PointersMade,
         NEW t \in Threads, OtherStep(t)
  PROVE  TypeOK'
<1>0. /\ pc \in [Threads -> Places] /\ args \in [Threads -> Keys \X Values]
      /\ loc \in [Threads -> Locals]
      /\ disk \in [FileIds -> data_file] /\ cur_size \in [FileIds -> Nat]
      /\ pos \in [FileIds -> Nat] /\ kv_count \in Nat /\ ops \in [Threads -> Nat]
      /\ kv_indexes \in [LeafIds -> kv_index \cup {NoLeaf}]
      /\ index_tree \in [Keys -> LeafIds \cup {NULL}]
      /\ result \in [Threads -> (Keys \X (Values \cup {Garbage})) \cup {NULL}]
  <2>1. pc \in [Threads -> Places]
    BY DEF TypeOK
  <2> QED
    BY <2>1 DEF TypeOK
<1>1. /\ opened' = opened /\ fid' = fid /\ file_cnt' = file_cnt /\ lock' = lock
      /\ slots' = slots
  BY OtherFacts DEF table
<1>2. undefined' \in BOOLEAN
  <2>1. CASE Read(t)
    <3> DEFINE f == loc[t].f
               value == data_file_read(disk[f], pos[f], loc[t].size)
    <3>1. undefined' \in {TRUE} \/ undefined' \in Strays(value)
      BY <2>1 DEF Read
    <3> QED
      BY <3>1 DEF Strays
  <2>2. CASE ~Read(t)
    BY <2>2, OtherDefined DEF TypeOK
  <2> QED
    BY <2>1, <2>2
<1>3. pc' \in [Threads -> Places]
  <2>1. PICK to \in Places \ AddPlaces : pc' = [pc EXCEPT ![t] = to]
    BY OtherFacts
  <2> QED
    BY <1>0, <2>1
<1>4. Key(t) \in Keys /\ args[t][2] \in Values /\ Size(t) \in Nat \ {0}
  BY <1>0 DEF Key, Size
<1>5. loc[t].f \in FileIds /\ loc[t].offset \in Nat /\ loc[t].size \in Nat
  BY <1>0
<1>6. CASE Call(t)
  <2>1. args' \in [Threads -> Keys \X Values] /\ ops' \in [Threads -> Nat]
    BY <1>0, <1>6 DEF Call
  <2>2. UNCHANGED <<disk, cur_size, pos, kv_indexes, index_tree, kv_count, loc, result>>
    BY <1>6 DEF Call, shared, files, index
  <2> QED
    BY <1>1, <1>3, <1>2, <2>1, <2>2 DEF TypeOK
<1>7. CASE ReadCount(t) \/ PickFile(t) \/ ReadOffset(t) \/ Search(t)
           \/ GetFid(t) \/ GetSize(t) \/ GetOffset(t) \/ GetSizeAgain(t)
  <2>1. loc' \in [Threads -> Locals]
    <3>1. CASE ReadCount(t) \/ PickFile(t)
      <4>1. file_cnt - 1 \in FileIds /\ fid - 1 \in FileIds
        BY DEF TypeOK, FileIds
      <4>2. CASE ReadCount(t)
        <5>1. loc' = [loc EXCEPT ![t].f = file_cnt - 1]
          BY <4>2 DEF ReadCount
        <5> QED
          BY <1>0, <4>1, <5>1, LocalsKept
      <4>3. CASE PickFile(t)
        <5>1. loc' = [loc EXCEPT ![t].f = fid - 1]
          BY <4>3 DEF PickFile
        <5> QED
          BY <1>0, <4>1, <5>1, LocalsKept
      <4> QED
        BY <3>1, <4>2, <4>3
    <3>2. CASE ReadOffset(t)
      BY <1>0, <1>5, <3>2, LocalsKept DEF ReadOffset
    <3>3. CASE Search(t)
      BY <1>0, <1>4, <3>3, LocalsKept DEF Search
    <3>4. CASE GetFid(t) \/ GetSize(t) \/ GetOffset(t) \/ GetSizeAgain(t)
      <4>1. kv_indexes[loc[t].leaf] \in kv_index
        BY <3>4 DEF GetFid, GetSize, GetOffset, GetSizeAgain, PointersMade
      <4>2. /\ kv_indexes[loc[t].leaf].fid \in FileIds
            /\ kv_indexes[loc[t].leaf].offset \in Nat
            /\ kv_indexes[loc[t].leaf].size \in Nat
        BY <4>1 DEF kv_index
      <4>3. CASE GetFid(t)
        <5>1. loc' = [loc EXCEPT ![t].f = kv_indexes[loc[t].leaf].fid]
          BY <4>3 DEF GetFid
        <5> QED
          BY <1>0, <4>2, <5>1, LocalsKept
      <4>4. CASE GetSize(t)
        <5>1. loc' = [loc EXCEPT ![t].room = kv_indexes[loc[t].leaf].size]
          BY <4>4 DEF GetSize
        <5> QED
          BY <1>0, <4>2, <5>1, LocalsKept
      <4>5. CASE GetOffset(t)
        <5>1. loc' = [loc EXCEPT ![t].offset = kv_indexes[loc[t].leaf].offset]
          BY <4>5 DEF GetOffset
        <5> QED
          BY <1>0, <4>2, <5>1, LocalsKept
      <4>6. CASE GetSizeAgain(t)
        <5>1. loc' = [loc EXCEPT ![t].size = kv_indexes[loc[t].leaf].size]
          BY <4>6 DEF GetSizeAgain
        <5> QED
          BY <1>0, <4>2, <5>1, LocalsKept
      <4> QED
        BY <3>4, <4>3, <4>4, <4>5, <4>6
    <3> QED
      BY <1>7, <3>1, <3>2, <3>3, <3>4
  <2>2. UNCHANGED <<disk, cur_size, pos, kv_indexes, index_tree, kv_count, args, ops, result>>
    BY <1>7 DEF ReadCount, PickFile, ReadOffset, Search, GetFid, GetSize, GetOffset, GetSizeAgain,
                shared, files, index, call
  <2> QED
    BY <1>1, <1>3, <1>2, <2>1, <2>2 DEF TypeOK
<1>8. CASE CheckSize(t) \/ FindToDel(t)
  <2>1. UNCHANGED <<disk, cur_size, pos, kv_indexes, index_tree, kv_count, loc, args, ops, result>>
    BY <1>8 DEF CheckSize, FindToDel, shared, files, index, call
  <2> QED
    BY <1>1, <1>3, <1>2, <2>1 DEF TypeOK
<1>9. CASE Reserve(t) \/ Write(t) \/ Seek(t)
  <2>1. cur_size' \in [FileIds -> Nat]
    <3>1. CASE Reserve(t)
      <4>1. cur_size[loc[t].f] + Size(t) \in Nat
        BY <1>0, <1>4, <1>5
      <4> QED
        BY <1>0, <3>1, <4>1 DEF Reserve
    <3>2. CASE Write(t) \/ Seek(t)
      BY <1>0, <3>2 DEF Write, Seek
    <3> QED
      BY <1>9, <3>1, <3>2
  <2>2. disk' \in [FileIds -> data_file]
    <3>1. CASE Write(t)
      <4>1. Appended(disk[loc[t].f], args[t][1], args[t][2]) \in data_file
        BY <1>0, <1>4, <1>5, AppendedType DEF Key
      <4> QED
        BY <1>0, <1>5, <3>1, <4>1 DEF Write
    <3>2. CASE Reserve(t) \/ Seek(t)
      BY <1>0, <3>2 DEF Reserve, Seek
    <3> QED
      BY <1>9, <3>1, <3>2
  <2>3. pos' \in [FileIds -> Nat]
    BY <1>0, <1>5, <1>9 DEF Reserve, Write, Seek
  <2>4. UNCHANGED <<kv_indexes, index_tree, kv_count, loc, args, ops, result>>
    BY <1>9 DEF Reserve, Write, Seek, index, call
  <2> QED
    BY <1>1, <1>3, <1>2, <2>1, <2>2, <2>3, <2>4 DEF TypeOK
<1>10. CASE Insert(t) \/ BumpKvCount(t) \/ SetFid(t) \/ SetOffset(t) \/ SetSize(t) \/ Delete(t)
  <2>1. kv_indexes' \in [LeafIds -> kv_index \cup {NoLeaf}]
    <3>1. CASE Insert(t)
      <4> DEFINE leaf == [fid |-> loc[t].f, offset |-> loc[t].offset, size |-> Size(t)]
      <4>1. leaf \in kv_index
        BY <1>4, <1>5 DEF kv_index
      <4> QED
        BY <1>0, <3>1, <4>1 DEF Insert
    <3>2. CASE SetFid(t) \/ SetOffset(t) \/ SetSize(t)
      <4> DEFINE id == loc[t].leaf
      <4> DEFINE leaf == kv_indexes[id]
      <4>1. leaf \in kv_index
        BY <3>2 DEF SetFid, SetOffset, SetSize, PointersMade
      <4>2. /\ [leaf EXCEPT !.fid = loc[t].f] \in kv_index
            /\ [leaf EXCEPT !.offset = loc[t].offset] \in kv_index
            /\ [leaf EXCEPT !.size = Size(t)] \in kv_index
        BY <1>4, <1>5, <4>1 DEF kv_index
      <4>3. \/ kv_indexes' = [kv_indexes EXCEPT ![id] = [leaf EXCEPT !.fid = loc[t].f]]
            \/ kv_indexes' = [kv_indexes EXCEPT ![id] = [leaf EXCEPT !.offset = loc[t].offset]]
            \/ kv_indexes' = [kv_indexes EXCEPT ![id] = [leaf EXCEPT !.size = Size(t)]]
        BY <3>2 DEF SetFid, SetOffset, SetSize
      <4> HIDE DEF leaf
      <4> QED
        BY <1>0, <4>2, <4>3
    <3>3. CASE BumpKvCount(t) \/ Delete(t)
      BY <1>0, <3>3 DEF BumpKvCount, Delete
    <3> QED
      BY <1>10, <3>1, <3>2, <3>3
  <2>2. index_tree' \in [Keys -> LeafIds \cup {NULL}]
    <3>1. CASE Insert(t)
      <4>1. <<t, ops[t]>> \in LeafIds
        <5>1. ops[t] \in 1 .. MaxOps[t]
          BY <1>0, <3>1 DEF Insert, CallsInBounds
        <5> QED
          BY <5>1, LeafFacts
      <4> QED
        BY <1>0, <3>1, <4>1 DEF Insert
    <3>2. CASE ~Insert(t)
      BY <1>0, <1>10, <3>2 DEF BumpKvCount, SetFid, SetOffset, SetSize, Delete
    <3> QED
      BY <3>1, <3>2
  <2>3. kv_count' \in Nat
    BY <1>0, <1>10 DEF Insert, BumpKvCount, SetFid, SetOffset, SetSize, Delete
  <2>4. UNCHANGED <<disk, cur_size, pos, loc, args, ops, result>>
    BY <1>10 DEF Insert, BumpKvCount, SetFid, SetOffset, SetSize, Delete, files, call
  <2> QED
    BY <1>1, <1>3, <1>2, <2>1, <2>2, <2>3, <2>4 DEF TypeOK
<1>11. CASE Find(t)
  <2>1. loc' \in [Threads -> Locals]
    BY <1>0, <1>4, <1>11, LocalsKept DEF Find
  <2>2. result' \in [Threads -> (Keys \X (Values \cup {Garbage})) \cup {NULL}]
    BY <1>0, <1>11 DEF Find
  <2>3. UNCHANGED <<disk, cur_size, pos, kv_indexes, index_tree, kv_count, args, ops>>
    BY <1>11 DEF Find, shared, files, index
  <2> QED
    BY <1>1, <1>3, <1>2, <2>1, <2>2, <2>3 DEF TypeOK
<1>12. CASE Read(t)
  <2> DEFINE f == loc[t].f
  <2>1. disk[f] \in data_file /\ disk[f].len \in Nat /\ pos[f] \in Nat
    BY <1>0, <1>5 DEF data_file
  <2>2. data_file_read(disk[f], pos[f], loc[t].size) \in Values \cup {Garbage}
    BY <1>5, <2>1, ReadType
  <2>3. result' \in [Threads -> (Keys \X (Values \cup {Garbage})) \cup {NULL}]
    BY <1>0, <1>4, <1>12, <2>2 DEF Read
  <2>4. pos' \in [FileIds -> Nat]
    BY <1>0, <1>5, <1>12, <2>1 DEF Read
  <2>5. UNCHANGED <<disk, cur_size, kv_indexes, index_tree, kv_count, loc, args, ops>>
    BY <1>12 DEF Read, index
  <2> QED
    BY <1>1, <1>3, <1>2, <2>3, <2>4, <2>5 DEF TypeOK
<1> QED
  BY <1>6, <1>7, <1>8, <1>9, <1>10, <1>11, <1>12 DEF OtherStep, OtherPut, GetStep, DelStep

-----------------------------------------------------------------------------
(* A step that changes nothing changes none of the invariant. *)
LEMMA StutterStep ==
  ASSUME IInv, UNCHANGED vars
  PROVE  IInv'
<1>1. /\ UNCHANGED <<disk, opened, cur_size, pos, slots, undefined, fid, file_cnt, lock>>
      /\ UNCHANGED <<kv_indexes, index_tree, kv_count, pc, args, loc, ops, result>>
  BY DEF vars, shared, files, memory, table, index, call
<1>2. TypeOK'
  BY <1>1 DEF IInv, TypeOK
<1>3. CallsInBounds' /\ LockHeld' /\ TableShape' /\ TableFirst'
  BY <1>1 DEF IInv, CallsInBounds, LockHeld, TableShape, TableAt, TableFirst
<1>4. FilesOpen' /\ PointersMade'
  BY <1>1 DEF IInv, FilesOpen, PointersMade
<1> QED
  BY <1>2, <1>3, <1>4 DEF IInv

(* Every step of every thread keeps the invariant. *)
LEMMA ThreadsStep == IInv /\ [Next]_vars => IInv'
<1> SUFFICES ASSUME IInv, [Next]_vars PROVE IInv'
  OBVIOUS
<1>1. CASE UNCHANGED vars
  BY <1>1, StutterStep
<1>2. ASSUME NEW t \in Threads, Call(t) \/ Step(t)
      PROVE  IInv'
  <2>1. ~undefined /\ (AddStep(t) \/ OtherStep(t))
    BY <1>2 DEF Call, Step, PutStep, AddStep, OtherStep, OtherPut
  <2>2. /\ TypeOK /\ CallsInBounds /\ LockHeld /\ TableShape /\ TableFirst
        /\ FilesOpen /\ PointersMade
    BY DEF IInv
  <2>3. TypeOK'
    BY <2>1, <2>2, AddTypeStep, OtherTypeStep
  <2>4. CallsInBounds'
    BY <2>1, <2>2, BoundsStep
  <2>5. LockHeld' /\ TableShape'
    BY <2>1, <2>2, LockStep
  <2>6. FilesOpen'
    BY <2>1, <2>2, FilesStep
  <2>7. PointersMade'
    BY <2>1, <2>2, <2>3, PointersStep
  <2>8. TableFirst'
    BY <2>1, <2>2, TableFirstStep
  <2> QED
    BY <2>3, <2>4, <2>5, <2>6, <2>7, <2>8 DEF IInv
<1> QED
  BY <1>1, <1>2 DEF Next

(* The invariant holds whatever the threads do and however their steps     *)
(* interleave: only the owner of schema.lock is in schema_add_data_file.   *)
THEOREM ThreadsInductive == Spec => []IInv
<1>1. Init => IInv
  BY InitInv
<1>2. IInv /\ [Next]_vars => IInv'
  BY ThreadsStep
<1> QED
  BY <1>1, <1>2, PTL DEF Spec

-----------------------------------------------------------------------------
(* Every variable keeps its type: the counters of files stay in their      *)
(* range, and a thread's pointer is NULL or to some kv_index.              *)
THEOREM ThreadsTypeCorrect == Spec => []TypeOK
<1>1. IInv => TypeOK
  BY DEF IInv
<1> QED
  BY <1>1, ThreadsInductive, PTL

(* The table of files and its two counters stay in step under any number   *)
(* of writers that find the same file full, and no thread ever indexes a   *)
(* table that another reallocates: before the file that has it reallocated *)
(* comes the one that is stored beyond its end.                            *)
THEOREM TableInStepAlways == Spec => []TableInStep
<1>1. IInv => TableInStep
  BY TableNow DEF IInv
<1> QED
  BY <1>1, ThreadsInductive, PTL

(* As long as nothing is undefined, no thread follows a pointer of         *)
(* schema.files that is not stored yet or lies beyond the table's end.     *)
THEOREM UsedFilesOpenAlways == Spec => []UsedFilesOpen
<1>1. IInv => UsedFilesOpen
  <2> SUFFICES ASSUME IInv, NEW t \in Threads,
                      pc[t] \in {"size", "offset", "reserve", "write", "seek", "read"}
                                 \cup LoadPlaces
               PROVE  loc[t].f \in opened /\ (undefined \/ loc[t].f < slots)
    BY DEF UsedFilesOpen
  <2>1. loc[t].f \in opened
    BY DEF IInv, FilesOpen
  <2>2. ~undefined => loc[t].f \in 0 .. (MinLen - 1)
    BY <2>1 DEF IInv, TableFirst
  <2> QED
    BY <2>1, <2>2 DEF IInv, TableFirst
<1> QED
  BY <1>1, ThreadsInductive, PTL

-----------------------------------------------------------------------------
(* That kv_count never falls behind.  A call has not inserted its kv_index *)
(* before it comes to do so, no kv_index is the leaf of two keys, and each *)
(* was counted or is about to be.                                          *)
BeforeInsert == PutPlaces \cup {"search", "insert"}

FreshCalls ==
  \A t \in Threads : \A n \in 1 .. MaxOps[t] :
    (n > ops[t] \/ (n = ops[t] /\ pc[t] \in BeforeInsert)) => kv_indexes[<<t, n>>] = NoLeaf

OneKeyEach ==
  \A j, k \in Keys : index_tree[j] # NULL /\ index_tree[j] = index_tree[k] => j = k

AllCounted ==
  /\ IsFiniteSet(Made) /\ IsFiniteSet(Pending)
  /\ kv_count + Cardinality(Pending) = Cardinality(Made)

CInv == FreshCalls /\ OneKeyEach /\ AllCounted

(* The keys indexed at the start are finitely many. *)
LEMMA PreloadedFinite == IsFiniteSet(Preloaded)
<1> DEFINE key == [r \in FirstFile.recs |-> r.key]
<1>1. key \in Surjection(FirstFile.recs, Preloaded)
  BY DEF Preloaded, Surjection
<1> QED
  BY <1>1, FS_Surjection

(* The second invariant holds at the start. *)
LEMMA CountInit == Init => CInv
<1> SUFFICES ASSUME Init PROVE CInv
  OBVIOUS
<1>0. IInv
  BY InitInv
<1>1. \A id \in LeafIds : kv_indexes[id] # NoLeaf <=> id[1] = Nobody /\ id[2] \in Preloaded
  <2> SUFFICES ASSUME NEW id \in LeafIds, id[1] = Nobody, id[2] \in Preloaded
               PROVE  kv_indexes[id] # NoLeaf
    BY DEF Init
  <2> DEFINE r == CHOOSE r \in FirstFile.recs : r.key = id[2]
  <2>1. kv_indexes[id] = [fid |-> 0, offset |-> r.off, size |-> r.size]
    BY DEF Init
  <2> QED
    BY <2>1 DEF NoLeaf
<1>2. \A k \in Preloaded : k \in Keys
  BY DEF Preloaded, data_file, kv_value
<1>3. IsFiniteSet(Made) /\ Cardinality(Made) = Cardinality(Preloaded)
  <2> DEFINE f == [k \in Preloaded |-> <<Nobody, k>>]
  <2>1. \A k \in Preloaded : <<Nobody, k>> \in Made
    BY <1>1, <1>2, LeafFacts DEF Made
  <2>2. \A id \in Made : \E k \in Preloaded : id = <<Nobody, k>>
    <3> SUFFICES ASSUME NEW id \in Made PROVE \E k \in Preloaded : id = <<Nobody, k>>
      OBVIOUS
    <3>1. id \in LeafIds /\ id[1] = Nobody /\ id[2] \in Preloaded
      BY <1>1 DEF Made
    <3>2. id \in CallIds => id[1] \in Threads
      BY DEF CallIds
    <3>3. id \in {Nobody} \X Keys
      BY <3>1, <3>2 DEF LeafIds
    <3> QED
      BY <3>1, <3>3
  <2>3. f \in Surjection(Preloaded, Made)
    BY <2>1, <2>2 DEF Surjection
  <2>4. f \in Injection(Preloaded, Made)
    BY <2>1 DEF Injection, IsInjective
  <2> QED
    BY <2>3, <2>4, PreloadedFinite, FS_Surjection
<1>4. Pending = {}
  BY DEF Init, Pending
<1>5. AllCounted
  <2>1. Cardinality(Preloaded) \in Nat
    BY PreloadedFinite, FS_CardinalityType
  <2> QED
    BY <1>3, <1>4, <2>1, FS_EmptySet DEF Init, AllCounted
<1>6. FreshCalls
  BY <1>1, LeafFacts DEF FreshCalls
<1>7. OneKeyEach
  BY LeafFacts DEF Init, OneKeyEach
<1> QED
  BY <1>5, <1>6, <1>7 DEF CInv

(* An insert makes one kv_index more and leaves it to be counted. *)
LEMMA CountInsert ==
  ASSUME IInv, CInv, NEW t \in Threads, Insert(t)
  PROVE  CInv'
<1> DEFINE id == <<t, ops[t]>>
<1>0. /\ pc \in [Threads -> Places] /\ index_tree \in [Keys -> LeafIds \cup {NULL}]
      /\ kv_indexes \in [LeafIds -> kv_index \cup {NoLeaf}]
      /\ loc \in [Threads -> Locals] /\ ops \in [Threads -> Nat]
      /\ args \in [Threads -> Keys \X Values] /\ kv_count \in Nat
  <2>1. pc \in [Threads -> Places]
    BY DEF IInv, TypeOK
  <2> QED
    BY <2>1 DEF IInv, TypeOK
<1>1. ops[t] \in 1 .. MaxOps[t] /\ id \in LeafIds
  <2>1. ops[t] \in 1 .. MaxOps[t]
    BY <1>0 DEF Insert, IInv, CallsInBounds
  <2> QED
    BY <2>1, LeafFacts
<1>2. kv_indexes[id] = NoLeaf
  BY <1>1 DEF CInv, FreshCalls, Insert, BeforeInsert
<1>3. \E x \in kv_index : kv_indexes' = [kv_indexes EXCEPT ![id] = x]
  <2> DEFINE x == [fid |-> loc[t].f, offset |-> loc[t].offset, size |-> Size(t)]
  <2>1. x \in kv_index
    <3>1. args[t][1] \in Keys /\ args[t][2] \in Values
      BY <1>0
    <3>2. Size(t) \in Nat \ {0}
      BY <3>1 DEF Size
    <3> QED
      BY <1>0, <3>2 DEF kv_index
  <2> QED
    BY <2>1 DEF Insert
<1>4. /\ index_tree' = [index_tree EXCEPT ![Key(t)] = id] /\ Key(t) \in Keys
      /\ pc' = [pc EXCEPT ![t] = "bump_kv_count"] /\ pc[t] = "insert"
      /\ ops' = ops /\ kv_count' = kv_count
  BY <1>0 DEF Insert, Key, call
<1>5. Made' = Made \cup {id} /\ id \notin Made
  BY <1>0, <1>1, <1>2, <1>3, LeafFacts DEF Made
<1>6. Pending' = Pending \cup {t} /\ t \notin Pending
  BY <1>0, <1>4 DEF Pending
<1>7. AllCounted'
  <2>1. IsFiniteSet(Made) /\ IsFiniteSet(Pending)
    BY DEF CInv, AllCounted
  <2>2. IsFiniteSet(Made') /\ Cardinality(Made') = Cardinality(Made) + 1
    BY <1>5, <2>1, FS_AddElement
  <2>3. IsFiniteSet(Pending') /\ Cardinality(Pending') = Cardinality(Pending) + 1
    BY <1>6, <2>1, FS_AddElement
  <2>4. Cardinality(Made) \in Nat /\ Cardinality(Pending) \in Nat
    BY <2>1, FS_CardinalityType
  <2> QED
    BY <1>0, <1>4, <2>2, <2>3, <2>4 DEF CInv, AllCounted
<1>8. FreshCalls'
  <2> SUFFICES ASSUME NEW s \in Threads, NEW n \in 1 .. MaxOps[s],
                      n > ops[s] \/ (n = ops[s] /\ pc'[s] \in BeforeInsert)
               PROVE  kv_indexes'[<<s, n>>] = NoLeaf
    BY <1>4 DEF FreshCalls
  <2>1. <<s, n>> \in LeafIds
    BY LeafFacts
  <2>2. <<s, n>> # id
    BY <1>0, <1>4 DEF BeforeInsert
  <2>3. n > ops[s] \/ (n = ops[s] /\ pc[s] \in BeforeInsert)
    BY <1>0, <1>4 DEF BeforeInsert
  <2>4. kv_indexes[<<s, n>>] = NoLeaf
    BY <2>3 DEF CInv, FreshCalls
  <2> QED
    BY <1>0, <1>3, <2>1, <2>2, <2>4
<1>9. OneKeyEach'
  <2>1. \A k \in Keys : index_tree[k] # id
    BY <1>0, <1>1, <1>2, LeafFacts DEF IInv, PointersMade
  <2> QED
    BY <1>0, <1>1, <1>4, <2>1 DEF CInv, OneKeyEach
<1> QED
  BY <1>7, <1>8, <1>9 DEF CInv

(* Counting takes a thread from those that are to count. *)
LEMMA CountBump ==
  ASSUME IInv, CInv, NEW t \in Threads, BumpKvCount(t)
  PROVE  CInv'
<1>0. pc \in [Threads -> Places] /\ kv_count \in Nat
  <2>1. pc \in [Threads -> Places]
    BY DEF IInv, TypeOK
  <2> QED
    BY <2>1 DEF IInv, TypeOK
<1>1. /\ pc[t] = "bump_kv_count" /\ pc' = [pc EXCEPT ![t] = "idle"]
      /\ kv_count' = kv_count + 1 /\ UNCHANGED <<kv_indexes, index_tree, ops>>
  BY DEF BumpKvCount, call
<1>2. Pending' = Pending \ {t} /\ t \in Pending
  BY <1>0, <1>1 DEF Pending
<1>3. Made' = Made
  BY <1>1 DEF Made
<1>4. AllCounted'
  <2>1. IsFiniteSet(Made) /\ IsFiniteSet(Pending)
    BY DEF CInv, AllCounted
  <2>2. IsFiniteSet(Pending') /\ Cardinality(Pending') = Cardinality(Pending) - 1
    BY <1>2, <2>1, FS_RemoveElement
  <2>3. Cardinality(Made) \in Nat /\ Cardinality(Pending) \in Nat
    BY <2>1, FS_CardinalityType
  <2> QED
    BY <1>0, <1>1, <1>3, <2>1, <2>2, <2>3 DEF CInv, AllCounted
<1>5. FreshCalls'
  BY <1>0, <1>1 DEF CInv, FreshCalls, BeforeInsert
<1>6. OneKeyEach'
  BY <1>1 DEF CInv, OneKeyEach
<1> QED
  BY <1>4, <1>5, <1>6 DEF CInv

(* What keeps the kv_indexes that are made, and lets no thread in or out   *)
(* of those that are to count, keeps the count.                            *)
LEMMA CountKept ==
  ASSUME CInv, UNCHANGED kv_count,
         \A id \in LeafIds : kv_indexes'[id] = NoLeaf <=> kv_indexes[id] = NoLeaf,
         \A k \in Keys : index_tree'[k] = index_tree[k] \/ index_tree'[k] = NULL,
         \A s \in Threads : pc'[s] = "bump_kv_count" <=> pc[s] = "bump_kv_count",
         \A s \in Threads : \A n \in 1 .. MaxOps[s] :
           (n > ops'[s] \/ (n = ops'[s] /\ pc'[s] \in BeforeInsert)) =>
             (n > ops[s] \/ (n = ops[s] /\ pc[s] \in BeforeInsert))
  PROVE  CInv'
<1>1. Made' = Made /\ Pending' = Pending
  BY DEF Made, Pending
<1>2. AllCounted'
  BY <1>1 DEF CInv, AllCounted
<1>3. FreshCalls'
  BY LeafFacts DEF CInv, FreshCalls
<1>4. OneKeyEach'
  BY DEF CInv, OneKeyEach
<1> QED
  BY <1>2, <1>3, <1>4 DEF CInv

(* No other step makes or loses a kv_index, puts one in the tree, or lets  *)
(* a thread in or out of those that are to count.                          *)
LEMMA CountOthers ==
  ASSUME IInv, CInv, NEW t \in Threads, AddStep(t) \/ OtherStep(t),
         ~Insert(t), ~BumpKvCount(t)
  PROVE  CInv'
<1>0. /\ pc \in [Threads -> Places] /\ index_tree \in [Keys -> LeafIds \cup {NULL}]
      /\ kv_indexes \in [LeafIds -> kv_index \cup {NoLeaf}]
      /\ ops \in [Threads -> Nat] /\ args \in [Threads -> Keys \X Values]
      /\ loc \in [Threads -> Locals]
  <2>1. pc \in [Threads -> Places]
    BY DEF IInv, TypeOK
  <2> QED
    BY <2>1 DEF IInv, TypeOK
<1>1. CASE Call(t)
  <2>1. UNCHANGED <<kv_indexes, index_tree, kv_count>>
    BY <1>1 DEF Call, shared, index
  <2>2. ops' = [ops EXCEPT ![t] = ops[t] + 1] /\ pc[t] = "idle"
    BY <1>1 DEF Call
  <2>3. \E to \in {"count", "find", "find_to_del"} : pc' = [pc EXCEPT ![t] = to]
    BY <1>1 DEF Call
  <2>4. \A s \in Threads : pc'[s] = "bump_kv_count" <=> pc[s] = "bump_kv_count"
    BY <1>0, <2>2, <2>3
  <2>5. ASSUME NEW s \in Threads, NEW n \in 1 .. MaxOps[s],
               n > ops'[s] \/ (n = ops'[s] /\ pc'[s] \in BeforeInsert)
        PROVE  n > ops[s] \/ (n = ops[s] /\ pc[s] \in BeforeInsert)
    <3>1. ops[s] \in Nat /\ MaxOps[s] \in Nat
      BY <1>0
    <3>2. CASE s = t
      BY <1>0, <2>2, <2>5, <3>1, <3>2
    <3>3. CASE s # t
      BY <1>0, <2>2, <2>3, <2>5, <3>3
    <3> QED
      BY <3>2, <3>3
  <2> QED
    BY <2>1, <2>4, <2>5, CountKept
<1>2. CASE SetFid(t) \/ SetOffset(t) \/ SetSize(t)
  <2>1. UNCHANGED <<index_tree, kv_count, ops>>
    BY <1>2 DEF SetFid, SetOffset, SetSize, call
  <2>2. pc[t] \in {"set_fid", "set_offset", "set_size"}
    BY <1>2 DEF SetFid, SetOffset, SetSize
  <2>3. \E to \in {"set_offset", "set_size", "idle"} : pc' = [pc EXCEPT ![t] = to]
    BY <1>2 DEF SetFid, SetOffset, SetSize
  <2>4. \E x \in kv_index : kv_indexes' = [kv_indexes EXCEPT ![loc[t].leaf] = x]
    <3> DEFINE leaf == kv_indexes[loc[t].leaf]
    <3>1. loc[t].leaf \in LeafIds /\ leaf \in kv_index
      BY <2>2 DEF IInv, PointersMade
    <3>2. loc[t].f \in FileIds /\ loc[t].offset \in Nat /\ Size(t) \in Nat \ {0}
      <4>1. args[t][1] \in Keys /\ args[t][2] \in Values
        BY <1>0
      <4> QED
        BY <1>0, <4>1 DEF Size
    <3>3. CASE SetFid(t)
      <4>1. [leaf EXCEPT !.fid = loc[t].f] \in kv_index
        BY <3>1, <3>2 DEF kv_index
      <4> QED
        BY <3>3, <4>1 DEF SetFid
    <3>4. CASE SetOffset(t)
      <4>1. [leaf EXCEPT !.offset = loc[t].offset] \in kv_index
        BY <3>1, <3>2 DEF kv_index
      <4> QED
        BY <3>4, <4>1 DEF SetOffset
    <3>5. CASE SetSize(t)
      <4>1. [leaf EXCEPT !.size = Size(t)] \in kv_index
        BY <3>1, <3>2 DEF kv_index
      <4> QED
        BY <3>5, <4>1 DEF SetSize
    <3> QED
      BY <1>2, <3>3, <3>4, <3>5
  <2>5. loc[t].leaf \in LeafIds /\ kv_indexes[loc[t].leaf] \in kv_index
    BY <2>2 DEF IInv, PointersMade
  <2>6. \A id \in LeafIds : kv_indexes'[id] = NoLeaf <=> kv_indexes[id] = NoLeaf
    BY <1>0, <2>4, <2>5, LeafFacts
  <2>7. \A s \in Threads : /\ pc'[s] = "bump_kv_count" <=> pc[s] = "bump_kv_count"
                           /\ pc'[s] \in BeforeInsert => pc[s] \in BeforeInsert
    BY <1>0, <2>2, <2>3 DEF BeforeInsert
  <2> QED
    BY <2>1, <2>6, <2>7, CountKept
<1>3. CASE Delete(t)
  <2>1. /\ UNCHANGED <<kv_indexes, kv_count, ops>>
        /\ index_tree' = [index_tree EXCEPT ![Key(t)] = NULL]
        /\ pc[t] = "delete" /\ pc' = [pc EXCEPT ![t] = "idle"]
    BY <1>3 DEF Delete, call
  <2>2. \A s \in Threads : /\ pc'[s] = "bump_kv_count" <=> pc[s] = "bump_kv_count"
                           /\ pc'[s] \in BeforeInsert => pc[s] \in BeforeInsert
    BY <1>0, <2>1 DEF BeforeInsert
  <2>3. \A k \in Keys : index_tree'[k] = index_tree[k] \/ index_tree'[k] = NULL
    BY <1>0, <2>1
  <2> QED
    BY <2>1, <2>2, <2>3, CountKept
<1>4. CASE \/ AddStep(t) \/ ReadCount(t) \/ CheckSize(t) \/ PickFile(t) \/ ReadOffset(t)
           \/ Reserve(t) \/ Write(t) \/ Search(t)
  <2>1. UNCHANGED <<kv_indexes, index_tree, kv_count, ops>>
    <3>1. CASE AddStep(t)
      BY <3>1, AddFacts DEF index, call
    <3>2. CASE ~AddStep(t)
      BY <1>4, <3>2 DEF ReadCount, CheckSize, PickFile, ReadOffset, Reserve, Write,
         Search, shared, index, call
    <3> QED
      BY <3>1, <3>2
  <2>2. /\ pc[t] \in PutPlaces \cup {"search"}
        /\ \E to \in Places \ {"bump_kv_count"} : pc' = [pc EXCEPT ![t] = to]
    <3>1. CASE AddStep(t)
      BY <3>1 DEF AddStep, Lock, OpenFile, BumpFileCnt, BumpFid, Unlock
    <3>2. CASE ReadCount(t) \/ PickFile(t) \/ ReadOffset(t) \/ Reserve(t) \/ Write(t)
      BY <3>2 DEF ReadCount, PickFile, ReadOffset, Reserve, Write
    <3>3. CASE CheckSize(t)
      <4>1. pc' = [pc EXCEPT ![t] = "lock"] \/ pc' = [pc EXCEPT ![t] = "pick"]
        BY <3>3 DEF CheckSize
      <4> QED
        BY <3>3, <4>1 DEF CheckSize
    <3>4. CASE Search(t)
      <4>1. pc' = [pc EXCEPT ![t] = "insert"] \/ pc' = [pc EXCEPT ![t] = "set_fid"]
        BY <3>4 DEF Search
      <4> QED
        BY <3>4, <4>1 DEF Search
    <3> QED
      BY <1>4, <3>1, <3>2, <3>3, <3>4
  <2>3. \A s \in Threads : /\ pc'[s] = "bump_kv_count" <=> pc[s] = "bump_kv_count"
                           /\ pc'[s] \in BeforeInsert => pc[s] \in BeforeInsert
    BY <1>0, <2>2 DEF BeforeInsert
  <2> QED
    BY <2>1, <2>3, CountKept
<1>5. CASE GetStep(t) \/ FindToDel(t)
  <2>1. UNCHANGED <<kv_indexes, index_tree, kv_count, ops>>
    BY <1>5 DEF GetStep, Find, GetFid, GetSize, GetOffset, GetSizeAgain, Seek, Read, FindToDel,
       shared, index, call
  <2>2. /\ pc[t] \in GetPlaces \cup DelPlaces
        /\ \E to \in {"idle"} \cup GetPlaces \cup DelPlaces : pc' = [pc EXCEPT ![t] = to]
    BY <1>5 DEF GetStep, Find, GetFid, GetSize, GetOffset, GetSizeAgain, Seek, Read, FindToDel
  <2>3. \A s \in Threads : /\ pc'[s] = "bump_kv_count" <=> pc[s] = "bump_kv_count"
                           /\ pc'[s] \in BeforeInsert => pc[s] \in BeforeInsert
    BY <1>0, <2>2 DEF BeforeInsert
  <2> QED
    BY <2>1, <2>3, CountKept
<1> QED
  BY <1>1, <1>2, <1>3, <1>4, <1>5 DEF OtherStep, OtherPut, DelStep

(* Nor does a step that changes nothing.                                   *)
LEMMA CountStutter ==
  ASSUME CInv, UNCHANGED vars
  PROVE  CInv'
<1>1. UNCHANGED <<kv_indexes, index_tree, kv_count, pc, ops>>
  BY DEF vars, shared, index, call
<1> QED
  BY <1>1, CountKept

(* kv_count, with what is about to be counted, is exactly the number of    *)
(* kv_indexes ever inserted, and never less than the number of keys in the *)
(* index: a key is counted twice by two first puts, never not at all.      *)
THEOREM KeysCountedAlways == Spec => []KeysCounted
<1>1. Init => CInv
  BY CountInit
<1>2. IInv /\ CInv /\ [Next]_vars => CInv'
  <2> SUFFICES ASSUME IInv, CInv, [Next]_vars PROVE CInv'
    OBVIOUS
  <2>1. CASE UNCHANGED vars
    BY <2>1, CountStutter
  <2>2. ASSUME NEW t \in Threads, Call(t) \/ Step(t) PROVE CInv'
    <3>1. AddStep(t) \/ OtherStep(t)
      BY <2>2 DEF Step, PutStep, AddStep, OtherStep, OtherPut
    <3>2. CASE Insert(t)
      BY <3>2, CountInsert
    <3>3. CASE BumpKvCount(t)
      BY <3>3, CountBump
    <3>4. CASE ~Insert(t) /\ ~BumpKvCount(t)
      BY <3>1, <3>4, CountOthers
    <3> QED
      BY <3>2, <3>3, <3>4
  <2> QED
    BY <2>1, <2>2 DEF Next
<1>3. IInv /\ CInv => KeysCounted
  <2> SUFFICES ASSUME IInv, CInv PROVE KeysCounted
    OBVIOUS
  <2> DEFINE leaf == [k \in IndexedKeys |-> index_tree[k]]
  <2>1. ASSUME NEW k \in IndexedKeys PROVE index_tree[k] \in Made
    <3>1. index_tree \in [Keys -> LeafIds \cup {NULL}]
      BY DEF IInv, TypeOK
    <3> QED
      BY <3>1, LeafFacts DEF IndexedKeys, Made, IInv, PointersMade
  <2>2. leaf \in Injection(IndexedKeys, Made)
    BY <2>1 DEF Injection, IsInjective, CInv, OneKeyEach, IndexedKeys
  <2>3. Cardinality(IndexedKeys) <= Cardinality(Made)
    BY <2>2, FS_Injection DEF CInv, AllCounted
  <2> QED
    BY <2>3 DEF CInv, AllCounted, KeysCounted
<1> QED
  BY <1>1, <1>2, <1>3, ThreadsInductive, PTL DEF Spec

-----------------------------------------------------------------------------
(* What cur_size says of a file while records are on their way into it,    *)
(* and how many files are added for one that is full.                      *)
USE GarbageAssumption, SizeAssumption, ThreadAssumption
USE DEF Places, PutPlaces, LeafPlaces, GetPlaces, DelPlaces, AddPlaces, Goto, Locals

(* What a step of a thread does to the places, the files and the calls of  *)
(* all threads, in the terms of this module.                               *)
LEMMA PlacesTyped ==
  ASSUME TypeOK
  PROVE  /\ pc \in [Threads -> Places] /\ loc \in [Threads -> Locals]
         /\ args \in [Threads -> Keys \X Values]
         /\ cur_size \in [FileIds -> Nat] /\ disk \in [FileIds -> data_file]
         /\ fid \in Nat /\ fid >= 1 /\ file_cnt \in Nat
         /\ opened \subseteq FileIds /\ FileIds \subseteq Nat
<1>1. pc \in [Threads -> Places]
  BY DEF TypeOK
<1>2. fid \in 1 .. MaxFiles /\ file_cnt \in 1 .. MaxFiles
  BY DEF TypeOK
<1>3. FileIds \subseteq Nat
  BY DEF FileIds
<1>4. fid \in Nat /\ fid >= 1 /\ file_cnt \in Nat
  BY <1>2
<1> QED
  BY <1>1, <1>3, <1>4 DEF TypeOK

-----------------------------------------------------------------------------
(* The bytes on their way into a file: of the threads that have counted    *)
(* their record and not written it, the sizes.                             *)
InFlight(f) == {t \in Threads : pc[t] = "write" /\ loc[t].f = f}
Sizes == [t \in Threads |-> Size(t)]

(* A file that has not been opened is empty, and counted so. *)
ClosedEmpty == \A f \in FileIds \ opened : disk[f].len = 0 /\ cur_size[f] = 0

Accounted == \A f \in FileIds : cur_size[f] = disk[f].len + SumOver(Sizes, InFlight(f))

SInv == ClosedEmpty /\ Accounted

(* The bytes each thread has in flight. *)
LEMMA SizesTyped ==
  ASSUME TypeOK
  PROVE  Sizes \in [Threads -> Nat]
<1>1. ASSUME NEW t \in Threads PROVE Size(t) \in Nat
  <2>1. args[t][1] \in Keys /\ args[t][2] \in Values
    BY PlacesTyped
  <2> QED
    BY <2>1 DEF Size
<1> QED
  BY <1>1 DEF Sizes

(* Nothing is in flight at first. *)
LEMMA SizesInit == Init => SInv
<1> SUFFICES ASSUME Init PROVE SInv
  OBVIOUS
<1>0. TypeOK
  BY InitInv DEF IInv
<1>1. \A f \in FileIds : cur_size[f] = disk[f].len
  BY DEF Init, EmptyFile
<1>2. \A f \in FileIds : InFlight(f) = {}
  BY DEF Init, InFlight
<1>3. SumOver(Sizes, {}) = 0
  BY <1>0, SizesTyped, SumFacts
<1>4. \A f \in FileIds : disk[f].len \in Nat
  BY <1>0, PlacesTyped DEF data_file
<1>5. ASSUME NEW f \in FileIds
      PROVE  cur_size[f] = disk[f].len + SumOver(Sizes, InFlight(f))
  <2>1. SumOver(Sizes, InFlight(f)) = 0
    BY <1>2, <1>3
  <2> QED
    BY <1>1, <1>4, <2>1
<1>6. ClosedEmpty
  BY DEF Init, EmptyFile, ClosedEmpty
<1> QED
  BY <1>5, <1>6 DEF SInv, Accounted

(* A step that lets no record in or out of flight keeps the sum. *)
LEMMA FlightKept ==
  ASSUME TypeOK, TypeOK', NEW f \in FileIds,
         InFlight(f)' = InFlight(f),
         \A t \in InFlight(f) : args'[t] = args[t]
  PROVE  SumOver(Sizes, InFlight(f))' = SumOver(Sizes, InFlight(f))
<1>1. \A t \in InFlight(f) : Sizes'[t] = Sizes[t] /\ Sizes[t] \in Nat
  BY SizesTyped DEF Sizes, Size, InFlight
<1>2. IsFiniteSet(InFlight(f))
  BY FS_Subset DEF InFlight
<1>3. SumOver(Sizes', InFlight(f)) = SumOver(Sizes, InFlight(f))
  BY <1>1, <1>2, SumSame
<1> QED
  BY <1>3

(* A put that counts its record and goes on to write it. *)
LEMMA SizesReserve ==
  ASSUME IInv, TypeOK', SInv, NEW t \in Threads, Reserve(t)
  PROVE  SInv'
<1>0. TypeOK /\ FilesOpen
  BY DEF IInv
<1> DEFINE g == loc[t].f
<1>1. /\ g \in opened /\ g \in FileIds /\ pc[t] = "reserve"
      /\ pc' = [pc EXCEPT ![t] = "write"]
      /\ cur_size' = [cur_size EXCEPT ![g] = @ + Size(t)]
      /\ UNCHANGED <<disk, opened, loc, args>>
  BY <1>0, PlacesTyped DEF Reserve, FilesOpen, FilePlaces, call
<1>2. Sizes' = Sizes /\ Sizes[t] = Size(t) /\ Size(t) \in Nat
  BY <1>0, <1>1, SizesTyped DEF Sizes, Size
<1> HIDE DEF g
<1>3. ClosedEmpty'
  BY <1>0, <1>1, PlacesTyped DEF SInv, ClosedEmpty
<1>4. ASSUME NEW f \in FileIds
      PROVE  cur_size'[f] = disk'[f].len + SumOver(Sizes', InFlight(f)')
  <2>1. cur_size[f] = disk[f].len + SumOver(Sizes, InFlight(f))
    BY DEF SInv, Accounted
  <2>2. CASE f # g
    <3>1. InFlight(f)' = InFlight(f)
      BY <1>0, <1>1, <2>2, PlacesTyped DEF InFlight, g
    <3>2. cur_size'[f] = cur_size[f] /\ disk'[f] = disk[f]
      BY <1>0, <1>1, <2>2, PlacesTyped
    <3> QED
      BY <1>2, <2>1, <3>1, <3>2
  <2>3. CASE f = g
    <3>1. t \in InFlight(f)' /\ InFlight(f)' \in SUBSET Threads
          /\ InFlight(f)' \ {t} = InFlight(f)
      BY <1>0, <1>1, <2>3, PlacesTyped DEF InFlight, g
    <3>2. SumOver(Sizes, InFlight(f)') = Sizes[t] + SumOver(Sizes, InFlight(f))
      BY <1>0, <3>1, SizesTyped, SumFacts, SMTT(30)
    <3>3. SumOver(Sizes, InFlight(f)) \in Nat
      BY <1>0, SizesTyped, SumFacts DEF InFlight
    <3>4. cur_size'[f] = cur_size[f] + Size(t) /\ disk'[f] = disk[f] /\ disk[f].len \in Nat
      BY <1>0, <1>1, <2>3, PlacesTyped DEF data_file
    <3>5. SumOver(Sizes', InFlight(f)') = Size(t) + SumOver(Sizes, InFlight(f))
      BY <1>2, <3>2
    <3> QED
      BY <1>2, <2>1, <3>3, <3>4, <3>5
  <2> QED
    BY <2>2, <2>3
<1> QED
  BY <1>3, <1>4 DEF SInv, Accounted

(* A put that writes the record it has counted. *)
LEMMA SizesWrite ==
  ASSUME IInv, TypeOK', SInv, NEW t \in Threads, Write(t)
  PROVE  SInv'
<1>0. TypeOK /\ FilesOpen
  BY DEF IInv
<1> DEFINE g == loc[t].f
<1>1. /\ g \in opened /\ g \in FileIds /\ pc[t] = "write"
      /\ pc' = [pc EXCEPT ![t] = "search"]
      /\ disk' = [disk EXCEPT ![g] = Appended(@, args[t][1], args[t][2])]
      /\ UNCHANGED <<cur_size, opened, loc, args>>
  BY <1>0, PlacesTyped DEF Write, FilesOpen, FilePlaces, call
<1>2. Sizes' = Sizes /\ Sizes[t] = Size(t) /\ Size(t) \in Nat
  BY <1>0, <1>1, SizesTyped DEF Sizes, Size
<1>3. disk'[g].len = disk[g].len + Size(t)
  BY <1>0, <1>1, PlacesTyped DEF Appended, Size
<1> HIDE DEF g
<1>4. ClosedEmpty'
  BY <1>0, <1>1, PlacesTyped DEF SInv, ClosedEmpty
<1>5. ASSUME NEW f \in FileIds
      PROVE  cur_size'[f] = disk'[f].len + SumOver(Sizes', InFlight(f)')
  <2>1. cur_size[f] = disk[f].len + SumOver(Sizes, InFlight(f))
    BY DEF SInv, Accounted
  <2>2. CASE f # g
    <3>1. InFlight(f)' = InFlight(f)
      BY <1>0, <1>1, <2>2, PlacesTyped DEF InFlight, g
    <3>2. cur_size'[f] = cur_size[f] /\ disk'[f] = disk[f]
      BY <1>0, <1>1, <2>2, PlacesTyped
    <3> QED
      BY <1>2, <2>1, <3>1, <3>2
  <2>3. CASE f = g
    <3>1. t \in InFlight(f) /\ InFlight(f) \in SUBSET Threads
          /\ InFlight(f)' = InFlight(f) \ {t}
      BY <1>0, <1>1, <2>3, PlacesTyped DEF InFlight, g
    <3>2. SumOver(Sizes, InFlight(f)) = Sizes[t] + SumOver(Sizes, InFlight(f)')
      BY <1>0, <3>1, SizesTyped, SumFacts
    <3>3. SumOver(Sizes, InFlight(f)') \in Nat
      BY <1>0, <3>1, SizesTyped, SumFacts
    <3>4. disk[f].len \in Nat
      BY <1>0, PlacesTyped DEF data_file
    <3>5. SumOver(Sizes', InFlight(f)') = SumOver(Sizes, InFlight(f)')
      BY <1>2
    <3> QED
      BY <1>1, <1>2, <1>3, <2>1, <2>3, <3>2, <3>3, <3>4, <3>5
  <2> QED
    BY <2>2, <2>3
<1> QED
  BY <1>4, <1>5 DEF SInv, Accounted

(* A new file: nothing can be on its way into it. *)
LEMMA SizesOpen ==
  ASSUME IInv, TypeOK', SInv, NEW t \in Threads, OpenFile(t)
  PROVE  SInv'
<1>0. TypeOK /\ FilesOpen /\ TableShape
  BY DEF IInv
<1>1. /\ fid \notin opened /\ fid \in FileIds
  <2>1. opened = 0 .. fid - 1 /\ fid < MaxFiles
    BY <1>0 DEF OpenFile, TableShape, TableAt
  <2>2. fid \in Nat /\ MaxFiles \in Nat
    BY <1>0, PlacesTyped
  <2> QED
    BY <2>1, <2>2 DEF FileIds
<1>2. /\ pc' = [pc EXCEPT ![t] = "bump_file_cnt"] /\ pc[t] = "open"
      /\ opened' = opened \cup {fid}
      /\ cur_size' = [cur_size EXCEPT ![fid] = 0]
      /\ UNCHANGED <<disk, loc, args>>
  BY DEF OpenFile, call
<1>3. cur_size'  = cur_size
  BY <1>0, <1>1, <1>2, PlacesTyped DEF SInv, ClosedEmpty
<1>4. ClosedEmpty'
  BY <1>2, <1>3 DEF SInv, ClosedEmpty
<1>5. \A f \in FileIds : InFlight(f)' = InFlight(f)
  BY <1>0, <1>2, PlacesTyped DEF InFlight
<1>6. Sizes' = Sizes
  BY <1>2 DEF Sizes, Size
<1> QED
  BY <1>2, <1>3, <1>4, <1>5, <1>6 DEF SInv, Accounted

(* All other steps let no record in or out of flight. *)
LEMMA SizesKept ==
  ASSUME TypeOK, TypeOK', SInv, NEW t \in Threads,
         UNCHANGED <<disk, cur_size, opened>>,
         pc[t] # "write", pc'[t] # "write",
         \A u \in Threads \ {t} : pc'[u] = pc[u] /\ loc'[u] = loc[u] /\ args'[u] = args[u]
  PROVE  SInv'
<1>1. ASSUME NEW f \in FileIds
      PROVE  SumOver(Sizes, InFlight(f))' = SumOver(Sizes, InFlight(f))
  <2>1. InFlight(f)' = InFlight(f) /\ \A u \in InFlight(f) : args'[u] = args[u]
    BY DEF InFlight
  <2> QED
    BY <2>1, FlightKept
<1>2. ClosedEmpty'
  BY DEF SInv, ClosedEmpty
<1> QED
  BY <1>1, <1>2 DEF SInv, Accounted

(* Steps that neither reserve nor write bytes keep the sums. *)
LEMMA SizesOthers ==
  ASSUME TypeOK, TypeOK', SInv, NEW t \in Threads, Call(t) \/ Step(t),
         ~ Reserve(t), ~ Write(t), ~ OpenFile(t)
  PROVE  SInv'
<1> DEFINE Elsewhere ==
      /\ UNCHANGED <<disk, cur_size, opened>>
      /\ pc[t] # "write" /\ pc'[t] # "write"
      /\ \A u \in Threads \ {t} :
           pc'[u] = pc[u] /\ loc'[u] = loc[u] /\ args'[u] = args[u]
<1> SUFFICES Elsewhere
  BY SizesKept
<1>0. pc \in [Threads -> Places] /\ loc \in [Threads -> Locals]
      /\ args \in [Threads -> Keys \X Values]
  BY PlacesTyped
<1> HIDE DEF Places, Locals
<1>1. CASE Call(t)
  BY <1>0, <1>1 DEF Call, shared, files
<1>2. CASE PutStep(t)
  <2>1. CASE ReadCount(t) \/ CheckSize(t) \/ PickFile(t) \/ ReadOffset(t)
    BY <1>0, <2>1 DEF ReadCount, CheckSize, PickFile, ReadOffset, shared, files, call
  <2>2. CASE Lock(t) \/ BumpFileCnt(t) \/ BumpFid(t) \/ Unlock(t)
    BY <1>0, <2>2 DEF Lock, BumpFileCnt, BumpFid, Unlock, files, call
  <2>3. CASE Search(t) \/ Insert(t) \/ BumpKvCount(t)
    BY <1>0, <2>3 DEF Search, Insert, BumpKvCount, shared, files, call
  <2>4. CASE SetFid(t) \/ SetOffset(t) \/ SetSize(t)
    BY <1>0, <2>4 DEF SetFid, SetOffset, SetSize, files, call
  <2> QED
    BY <1>2, <2>1, <2>2, <2>3, <2>4 DEF PutStep
<1>3. CASE GetStep(t)
  <2>1. CASE Find(t) \/ GetFid(t) \/ GetSize(t) \/ GetOffset(t) \/ GetSizeAgain(t)
    BY <1>0, <2>1 DEF Find, GetFid, GetSize, GetOffset, GetSizeAgain, shared, files, call
  <2>2. CASE Seek(t) \/ Read(t)
    BY <1>0, <2>2 DEF Seek, Read, call
  <2> QED
    BY <1>3, <2>1, <2>2 DEF GetStep
<1>4. CASE DelStep(t)
  BY <1>0, <1>4 DEF DelStep, FindToDel, Delete, shared, files, call
<1> QED
  BY <1>1, <1>2, <1>3, <1>4 DEF Step

(* Every step keeps the sums. *)
LEMMA SizesStep == IInv /\ TypeOK' /\ SInv /\ [Next]_vars => SInv'
<1> SUFFICES ASSUME IInv, TypeOK', SInv, [Next]_vars PROVE SInv'
  OBVIOUS
<1>0. TypeOK
  BY DEF IInv
<1>1. CASE Next
  <2>1. PICK t \in Threads : Call(t) \/ Step(t)
    BY <1>1 DEF Next
  <2> QED
    BY <1>0, <2>1, SizesReserve, SizesWrite, SizesOpen, SizesOthers
<1>2. CASE UNCHANGED vars
  <2>1. UNCHANGED <<disk, cur_size, opened, pc, loc, args>>
    BY <1>2 DEF vars, shared, files, call
  <2> QED
    BY <2>1 DEF SInv, ClosedEmpty, Accounted, InFlight, Sizes, Size
<1> QED
  BY <1>1, <1>2

(* The sum as the model writes it is the sum of these proofs. *)
LEMMA AccountedIs == TypeOK /\ Accounted => SizesAccounted
<1> SUFFICES ASSUME TypeOK, Accounted, NEW f \in FileIds
             PROVE  cur_size[f] = disk[f].len +
                      MapThenSumSet(Size, {t \in Threads : pc[t] = "write" /\ loc[t].f = f})
  BY DEF SizesAccounted
<1> DEFINE S == InFlight(f)
           D(h) == h = [s \in SUBSET S |-> IF s = {} THEN 0
                                            ELSE Size(AnyOf(s)) + h[s \ {AnyOf(s)}]]
           c == CHOOSE h : D(h)
<1>1. S \subseteq Threads /\ IsFiniteSet(S) /\ Sizes \in [Threads -> Nat]
  BY SizesTyped, FS_Subset DEF InFlight
<1>2. MapThenSumSet(Size, S) = c[S]
  BY DEF MapThenSumSet, MapThenFoldSet, AnyOf
<1> HIDE DEF S
<1>3. \A h : D(h) <=> IsSum(h, Sizes, S)
  <2>1. \A s \in SUBSET S : s # {} => Size(AnyOf(s)) = Sizes[AnyOf(s)]
    BY <1>1, AnyMember DEF Sizes
  <2> QED
    BY <2>1 DEF IsSum
<1>4. PICK g \in [SUBSET S -> Nat] : IsSum(g, Sizes, S)
  <2>1. [t \in S |-> Sizes[t]] \in [S -> Nat]
    BY <1>1
  <2>2. PICK g \in [SUBSET S -> Nat] : IsSum(g, [t \in S |-> Sizes[t]], S)
    BY <1>1, <2>1, SumExists
  <2>3. IsSum(g, Sizes, S)
    BY <2>2, AnyMember DEF IsSum
  <2> QED
    BY <2>3
<1>5. D(c)
  <2>1. \E h : D(h)
    BY <1>3, <1>4
  <2> HIDE DEF D
  <2> QED
    BY <2>1, Zenon
<1> HIDE DEF c, D
<1>6. IsSum(c, Sizes, S)
  BY <1>3, <1>5
<1>7. SumOver(Sizes, S) = c[S]
  BY <1>1, <1>6, SumIs
<1>8. cur_size[f] = disk[f].len + SumOver(Sizes, S)
  BY DEF Accounted, S
<1> QED
  BY <1>2, <1>7, <1>8 DEF S, InFlight

(* cur_size is at any moment the length of the file with the records that  *)
(* are counted in it and not yet written: with any number of threads, no   *)
(* reservation is lost and none is counted twice.                          *)
THEOREM SizesAccountedAlways == Spec => []SizesAccounted
<1>1. Init => SInv
  BY SizesInit
<1>2. IInv /\ IInv' /\ SInv /\ [Next]_vars => SInv'
  BY SizesStep DEF IInv
<1>3. IInv /\ SInv => SizesAccounted
  BY AccountedIs DEF IInv, SInv
<1> QED
  BY <1>1, <1>2, <1>3, ThreadsInductive, PTL DEF Spec

-----------------------------------------------------------------------------
(* Who added which file: adder[g], for a file g that was added. *)
FullFiles == {f \in FileIds : cur_size[f] >= MaxDataFileSize}
AddedFiles == opened \ {0}

(* The places of a put from which it may still add a file. *)
AddingPlaces == {"count", "size", "lock", "open"}

(* A file found full is in the table, and full. *)
FoundFull ==
  \A t \in Threads :
    /\ pc[t] \in AddingPlaces => t \in Writers
    /\ pc[t] \in {"lock", "open"} => loc[t].f \in opened /\ loc[t].f \in FullFiles

AddedBy(adder) ==
  /\ \A g \in AddedFiles : adder[g] \in Writers
  /\ \A g, h \in AddedFiles :
       g < h /\ adder[g] = adder[h] => \E e \in g .. (h - 1) : e \in FullFiles
  /\ \A g \in AddedFiles :
       pc[adder[g]] \in {"size", "lock", "open"} => g <= loc[adder[g]].f
  /\ \A g \in AddedFiles : g >= file_cnt => pc[adder[g]] = "bump_file_cnt"

AInv ==
  /\ FoundFull
  /\ 1 \in opened => 0 \in FullFiles
  /\ \E adder \in [FileIds -> Threads \cup {Nobody}] : AddedBy(adder)

(* The steps that add no file and move neither counter, if what the thread *)
(* that moves knows of a file is still right.                              *)
LEMMA AddedKept ==
  ASSUME TypeOK, AInv, NEW t \in Threads,
         UNCHANGED <<opened, file_cnt>>,
         pc[t] # "bump_file_cnt",
         \A u \in Threads \ {t} : pc'[u] = pc[u] /\ loc'[u] = loc[u],
         \A f \in FileIds : f \in FullFiles => f \in FullFiles',
         pc'[t] \in AddingPlaces => t \in Writers,
         pc'[t] \in {"lock", "open"} => loc'[t].f \in opened /\ loc'[t].f \in FullFiles',
         NEW adder \in [FileIds -> Threads \cup {Nobody}], AddedBy(adder),
         \A g \in AddedFiles :
           adder[g] = t /\ pc'[t] \in {"size", "lock", "open"} => g <= loc'[t].f
  PROVE  AInv'
<1>0. opened \subseteq FileIds /\ FileIds \subseteq Nat /\ Writers \subseteq Threads
  BY PlacesTyped DEF Threads
<1>1. FoundFull'
  <2> SUFFICES ASSUME NEW u \in Threads \ {t}
               PROVE  /\ pc'[u] \in AddingPlaces => u \in Writers
                      /\ pc'[u] \in {"lock", "open"} =>
                           loc'[u].f \in opened' /\ loc'[u].f \in FullFiles'
    BY DEF FoundFull
  <2>1. pc'[u] = pc[u] /\ loc'[u] = loc[u]
    OBVIOUS
  <2>2. pc[u] \in AddingPlaces => u \in Writers
    BY DEF AInv, FoundFull
  <2>3. pc[u] \in {"lock", "open"} => loc[u].f \in opened /\ loc[u].f \in FullFiles'
    BY <1>0 DEF AInv, FoundFull
  <2> QED
    BY <2>1, <2>2, <2>3 DEF FullFiles
<1>2. (1 \in opened)' => 0 \in FullFiles'
  <2>1. 1 \in opened => 0 \in FileIds
    BY <1>0 DEF FileIds
  <2> QED
    BY <2>1 DEF AInv
<1>3. \A g, h \in AddedFiles :
        g < h /\ adder[g] = adder[h] => \E e \in g .. (h - 1) : e \in FullFiles'
  <2> SUFFICES ASSUME NEW g \in AddedFiles, NEW h \in AddedFiles,
                      g < h /\ adder[g] = adder[h]
               PROVE  \E e \in g .. (h - 1) : e \in FullFiles'
    OBVIOUS
  <2>1. PICK e \in g .. (h - 1) : e \in FullFiles
    BY DEF AddedBy
  <2>2. e \in FileIds
    <3>1. g \in FileIds /\ h \in FileIds
      BY <1>0 DEF AddedFiles
    <3> QED
      BY <3>1 DEF FileIds
  <2> QED
    BY <2>1, <2>2
<1>4. ASSUME NEW g \in AddedFiles
      PROVE  /\ adder[g] \in Writers
             /\ pc'[adder[g]] \in {"size", "lock", "open"} => g <= loc'[adder[g]].f
             /\ g >= file_cnt => pc'[adder[g]] = "bump_file_cnt"
  <2>1. /\ adder[g] \in Writers /\ adder[g] \in Threads
        /\ pc[adder[g]] \in {"size", "lock", "open"} => g <= loc[adder[g]].f
        /\ g >= file_cnt => pc[adder[g]] = "bump_file_cnt"
    BY <1>0 DEF AddedBy
  <2>2. CASE adder[g] = t
    BY <2>1, <2>2
  <2>3. CASE adder[g] # t
    BY <2>1, <2>3
  <2> QED
    BY <2>1, <2>2, <2>3
<1>5. AddedBy(adder)'
  BY <1>3, <1>4 DEF AddedBy, AddedFiles
<1> QED
  BY <1>1, <1>2, <1>5 DEF AInv

(* The counters of the files that are in the table only grow. *)
LEMMA FullKept ==
  ASSUME IInv, SInv, NEW t \in Threads, Call(t) \/ PutStep(t) \/ GetStep(t) \/ DelStep(t),
         NEW f \in FileIds, f \in FullFiles
  PROVE  f \in FullFiles'
<1>0. TypeOK /\ cur_size[f] \in Nat /\ MaxDataFileSize \in Nat \ {0}
  BY PlacesTyped DEF IInv
<1>1. CASE Reserve(t)
  <2>1. cur_size' = [cur_size EXCEPT ![loc[t].f] = @ + Size(t)]
    BY <1>1 DEF Reserve
  <2>2. Size(t) \in Nat
    BY <1>0, SizesTyped DEF Sizes
  <2>3. cur_size'[f] = cur_size[f] \/ cur_size'[f] = cur_size[f] + Size(t)
    BY <1>0, <2>1, PlacesTyped
  <2> QED
    BY <1>0, <2>2, <2>3 DEF FullFiles
<1>2. CASE OpenFile(t)
  <2>1. f \in opened
    BY <1>0 DEF SInv, ClosedEmpty, FullFiles
  <2>2. opened = 0 .. fid - 1 /\ cur_size' = [cur_size EXCEPT ![fid] = 0]
    BY <1>2 DEF OpenFile, IInv, TableShape, TableAt
  <2>3. f # fid
    BY <1>0, <2>1, <2>2, PlacesTyped
  <2> QED
    BY <1>0, <2>2, <2>3, PlacesTyped DEF FullFiles
<1>3. CASE ~ Reserve(t) /\ ~ OpenFile(t)
  <2>1. cur_size' = cur_size
    <3>1. CASE Call(t)
      BY <3>1 DEF Call, shared, files
    <3>2. CASE PutStep(t)
      BY <1>3, <3>2 DEF PutStep, ReadCount, CheckSize, Lock, BumpFileCnt, BumpFid, Unlock,
              PickFile, ReadOffset, Write, Search, Insert, BumpKvCount,
              SetFid, SetOffset, SetSize, shared, files
    <3>3. CASE GetStep(t) \/ DelStep(t)
      BY <3>3 DEF GetStep, Find, GetFid, GetSize, GetOffset, GetSizeAgain, Seek, Read,
              DelStep, FindToDel, Delete, shared, files
    <3> QED
      BY <3>1, <3>2, <3>3 DEF Step
  <2> QED
    BY <2>1 DEF FullFiles
<1> QED
  BY <1>1, <1>2, <1>3

(* The steps that look for a full file. *)
LEMMA AddedLook ==
  ASSUME IInv, SInv, AInv, NEW t \in Threads,
         ReadCount(t) \/ CheckSize(t) \/ Lock(t)
  PROVE  AInv'
<1>0. /\ TypeOK /\ FilesOpen /\ file_cnt - 1 \in opened
      /\ pc \in [Threads -> Places] /\ loc \in [Threads -> Locals]
      /\ opened \subseteq FileIds /\ FileIds \subseteq Nat /\ file_cnt \in Nat
  BY TableNow, PlacesTyped DEF IInv
<1> HIDE DEF Places, Locals
<1>1. PICK adder \in [FileIds -> Threads \cup {Nobody}] : AddedBy(adder)
  BY DEF AInv
<1>2. \A f \in FileIds : f \in FullFiles => f \in FullFiles'
  BY FullKept DEF PutStep
<1>3. /\ UNCHANGED <<opened, file_cnt>>
      /\ pc[t] \in {"count", "size", "lock"}
      /\ \A u \in Threads \ {t} : pc'[u] = pc[u] /\ loc'[u] = loc[u]
  BY <1>0 DEF ReadCount, CheckSize, Lock, shared, files, table
<1>4. t \in Writers
  BY <1>3 DEF AInv, FoundFull, AddingPlaces
<1>5. /\ pc'[t] \in {"lock", "open"} => loc'[t].f \in opened /\ loc'[t].f \in FullFiles'
      /\ \A g \in AddedFiles :
           adder[g] = t /\ pc'[t] \in {"size", "lock", "open"} => g <= loc'[t].f
  <2>1. CASE ReadCount(t)
    <3>1. pc'[t] = "size" /\ loc'[t].f = file_cnt - 1 /\ pc[t] = "count"
      BY <1>0, <2>1 DEF ReadCount, Locals
    <3>2. \A g \in AddedFiles : adder[g] = t => g < file_cnt
      BY <1>0, <1>1, <3>1 DEF AddedBy, AddedFiles
    <3>3. \A g \in AddedFiles : g \in Nat
      BY <1>0 DEF AddedFiles
    <3> QED
      BY <1>0, <3>1, <3>2, <3>3
  <2>2. CASE CheckSize(t)
    <3>1. pc[t] = "size" /\ loc' = loc /\ loc[t].f \in opened
      BY <1>0, <2>2 DEF CheckSize, FilesOpen, FilePlaces
    <3>2. (pc'[t] = "lock" /\ loc[t].f \in FullFiles) \/ pc'[t] = "pick"
      <4>1. pc' = [pc EXCEPT ![t] = IF cur_size[loc[t].f] >= MaxDataFileSize
                                    THEN "lock" ELSE "pick"]
        BY <2>2 DEF CheckSize
      <4> QED
        BY <1>0, <3>1, <4>1 DEF FullFiles
    <3>3. \A g \in AddedFiles : adder[g] = t => g <= loc[t].f
      BY <1>1, <3>1 DEF AddedBy
    <3>4. loc[t].f \in FullFiles => loc[t].f \in FullFiles'
      BY <1>0, <1>2, <3>1
    <3> QED
      BY <3>1, <3>2, <3>3, <3>4 DEF FullFiles
  <2>3. CASE Lock(t)
    <3>1. pc[t] = "lock" /\ loc' = loc /\ loc[t].f \in opened /\ loc[t].f \in FullFiles
      BY <1>0, <2>3 DEF Lock, AInv, FoundFull
    <3>2. \A g \in AddedFiles : adder[g] = t => g <= loc[t].f
      BY <1>1, <3>1 DEF AddedBy
    <3>3. loc[t].f \in FullFiles'
      BY <1>0, <1>2, <3>1
    <3> QED
      BY <3>1, <3>2, <3>3 DEF FullFiles
  <2> QED
    BY <2>1, <2>2, <2>3
<1> QED
  BY <1>0, <1>1, <1>2, <1>3, <1>4, <1>5, AddedKept

(* A file is added by a thread that has found a full one below it, and     *)
(* that one is no older than the last this thread has added.               *)
LEMMA AddedOpen ==
  ASSUME IInv, SInv, AInv, NEW t \in Threads, OpenFile(t)
  PROVE  AInv'
<1>0. /\ TypeOK
      /\ pc \in [Threads -> Places] /\ fid \in Nat /\ fid >= 1
      /\ opened \subseteq FileIds /\ FileIds \subseteq Nat
      /\ opened = 0 .. fid - 1 /\ file_cnt = fid /\ fid \in FileIds
  <2>1. TypeOK /\ opened = 0 .. fid - 1 /\ file_cnt = fid /\ fid < MaxFiles
    BY DEF OpenFile, IInv, TableShape, TableAt
  <2>2. fid \in Nat /\ fid >= 1 /\ MaxFiles \in Nat
    BY <2>1, PlacesTyped
  <2> QED
    BY <2>1, <2>2, PlacesTyped, SMTT(30) DEF FileIds
<1> HIDE DEF Places, Locals
<1>1. PICK adder \in [FileIds -> Threads \cup {Nobody}] : AddedBy(adder)
  BY DEF AInv
<1>2. /\ pc' = [pc EXCEPT ![t] = "bump_file_cnt"] /\ pc[t] = "open"
      /\ opened' = opened \cup {fid}
      /\ UNCHANGED <<loc, file_cnt>>
  BY DEF OpenFile, table
<1>3. FullFiles \subseteq FullFiles'
  BY FullKept DEF PutStep, FullFiles
<1>4. t \in Writers /\ loc[t].f \in opened /\ loc[t].f \in FullFiles
  BY <1>2 DEF AInv, FoundFull, AddingPlaces
<1>5. FoundFull'
  <2> SUFFICES ASSUME NEW u \in Threads
               PROVE  /\ pc'[u] \in AddingPlaces => u \in Writers
                      /\ pc'[u] \in {"lock", "open"} =>
                           loc'[u].f \in opened' /\ loc'[u].f \in FullFiles'
    BY DEF FoundFull
  <2> QED
    BY <1>0, <1>2, <1>3, <1>4 DEF AInv, FoundFull
<1>6. (1 \in opened)' => 0 \in FullFiles'
  <2>1. CASE fid = 1
    <3>1. loc[t].f = 0
      BY <1>0, <1>4, <2>1
    <3> QED
      BY <1>3, <1>4, <3>1
  <2>2. CASE fid # 1
    BY <1>2, <1>3, <2>2 DEF AInv
  <2> QED
    BY <2>1, <2>2
<1>7. PICK adder2 \in [FileIds -> Threads \cup {Nobody}] :
        /\ adder2[fid] = t /\ \A g \in AddedFiles : adder2[g] = adder[g]
        /\ AddedFiles' = AddedFiles \cup {fid}
        /\ \A g \in AddedFiles : g \in Nat /\ g < fid
  <2> DEFINE a2 == [adder EXCEPT ![fid] = t]
  <2>1. /\ a2 \in [FileIds -> Threads \cup {Nobody}]
        /\ a2[fid] = t /\ \A g \in AddedFiles : a2[g] = adder[g]
        /\ AddedFiles' = AddedFiles \cup {fid}
        /\ \A g \in AddedFiles : g \in Nat /\ g < fid
    BY <1>0, <1>1, <1>2 DEF AddedFiles
  <2> HIDE DEF a2
  <2> QED
    BY <2>1
<1>8. ASSUME NEW g \in AddedFiles', NEW h \in AddedFiles', g < h, adder2[g] = adder2[h]
      PROVE  \E e \in g .. (h - 1) : e \in FullFiles'
  <2>0. g \in Nat /\ h \in Nat
    BY <1>0, <1>7
  <2>1. CASE h = fid
    <3>1. g \in AddedFiles /\ adder[g] = t
      BY <1>7, <1>8, <2>0, <2>1
    <3>2. g <= loc[t].f
      BY <1>1, <1>2, <3>1 DEF AddedBy
    <3>3. loc[t].f \in g .. (h - 1)
      BY <1>0, <1>4, <2>0, <2>1, <3>2
    <3> QED
      BY <1>3, <1>4, <3>3
  <2>2. CASE h # fid
    <3>1. g \in AddedFiles /\ h \in AddedFiles /\ adder[g] = adder[h]
      BY <1>7, <1>8, <2>0, <2>2
    <3>2. \E e \in g .. (h - 1) : e \in FullFiles
      BY <1>1, <1>8, <3>1 DEF AddedBy
    <3> QED
      BY <1>3, <3>2
  <2> QED
    BY <2>1, <2>2
<1>9. ASSUME NEW g \in AddedFiles'
      PROVE  /\ adder2[g] \in Writers
             /\ pc'[adder2[g]] \in {"size", "lock", "open"} => g <= loc'[adder2[g]].f
             /\ g >= file_cnt' => pc'[adder2[g]] = "bump_file_cnt"
  <2>1. CASE g = fid
    BY <1>0, <1>2, <1>4, <1>7, <2>1
  <2>2. CASE g # fid
    <3>1. g \in AddedFiles /\ adder2[g] = adder[g] /\ g \in Nat /\ g < file_cnt
      BY <1>0, <1>7, <2>2
    <3>2. adder[g] \in Writers /\ adder[g] \in Threads
      BY <1>1, <3>1 DEF AddedBy, Threads
    <3>3. pc'[adder[g]] \in {"size", "lock", "open"} =>
            pc'[adder[g]] = pc[adder[g]]
      BY <1>0, <1>2, <3>2
    <3>4. pc[adder[g]] \in {"size", "lock", "open"} => g <= loc[adder[g]].f
      BY <1>1, <3>1 DEF AddedBy
    <3> QED
      BY <1>0, <1>2, <3>1, <3>2, <3>3, <3>4
  <2> QED
    BY <2>1, <2>2
<1>10. AddedBy(adder2)'
  BY <1>8, <1>9 DEF AddedBy
<1> QED
  BY <1>5, <1>6, <1>7, <1>10 DEF AInv

(* Once the file is counted, a put of its thread looks at it or beyond. *)
LEMMA AddedBump ==
  ASSUME IInv, SInv, AInv, NEW t \in Threads, BumpFileCnt(t)
  PROVE  AInv'
<1>0. /\ TypeOK /\ pc \in [Threads -> Places] /\ fid \in Nat
      /\ opened = 0 .. fid /\ file_cnt = fid
      /\ pc' = [pc EXCEPT ![t] = "bump_fid"] /\ pc[t] = "bump_file_cnt"
      /\ file_cnt' = file_cnt + 1
      /\ UNCHANGED <<loc, opened, cur_size>>
  BY PlacesTyped DEF BumpFileCnt, IInv, TableShape, TableAt, files
<1> HIDE DEF Places, Locals
<1>1. PICK adder \in [FileIds -> Threads \cup {Nobody}] : AddedBy(adder)
  BY DEF AInv
<1>2. FullFiles' = FullFiles /\ AddedFiles' = AddedFiles
  BY <1>0 DEF FullFiles, AddedFiles
<1>3. \A u \in Threads : pc'[u] \in AddingPlaces => pc'[u] = pc[u]
  BY <1>0 DEF AddingPlaces
<1>4. FoundFull'
  BY <1>0, <1>2, <1>3 DEF AInv, FoundFull, AddingPlaces
<1>5. \A g \in AddedFiles : adder[g] \in Threads /\ ~ (g >= file_cnt')
  BY <1>0, <1>1 DEF AddedBy, AddedFiles, Threads
<1>6. ASSUME NEW g \in AddedFiles, pc'[adder[g]] \in {"size", "lock", "open"}
      PROVE  g <= loc'[adder[g]].f
  BY <1>0, <1>1, <1>3, <1>5, <1>6 DEF AddedBy, AddingPlaces
<1>7. AddedBy(adder)'
  BY <1>1, <1>2, <1>5, <1>6 DEF AddedBy
<1> QED
  BY <1>0, <1>1, <1>2, <1>4, <1>7 DEF AInv

(* The other steps end at places from which no file is added, but for the  *)
(* first of a put.                                                         *)
LEMMA AddedOthers ==
  ASSUME IInv, SInv, AInv, NEW t \in Threads, Call(t) \/ Step(t),
         ~ ReadCount(t), ~ CheckSize(t), ~ Lock(t), ~ OpenFile(t), ~ BumpFileCnt(t)
  PROVE  AInv'
<1> DEFINE Elsewhere ==
      /\ UNCHANGED <<opened, file_cnt>>
      /\ pc[t] # "bump_file_cnt"
      /\ \A u \in Threads \ {t} : pc'[u] = pc[u] /\ loc'[u] = loc[u]
      /\ pc'[t] \notin AddingPlaces \/ (pc'[t] = "count" /\ t \in Writers)
<1>0. /\ TypeOK /\ pc \in [Threads -> Places] /\ loc \in [Threads -> Locals]
  BY PlacesTyped DEF IInv
<1> HIDE DEF Places, Locals
<1>1. \A f \in FileIds : f \in FullFiles => f \in FullFiles'
  BY FullKept DEF Step
<1>2. SUFFICES Elsewhere
  BY <1>0, <1>1, AddedKept DEF AddingPlaces, AInv
<1> USE DEF AddingPlaces
<1>3. CASE Call(t)
  BY <1>0, <1>3 DEF Call, shared, files, table
<1>4. CASE PutStep(t)
  <2>1. CASE BumpFid(t) \/ Unlock(t) \/ PickFile(t) \/ ReadOffset(t)
    BY <1>0, <2>1 DEF BumpFid, Unlock, PickFile, ReadOffset, shared, files, table
  <2>2. CASE Reserve(t) \/ Write(t)
    BY <1>0, <2>2 DEF Reserve, Write, table
  <2>3. CASE Search(t) \/ Insert(t) \/ BumpKvCount(t)
    BY <1>0, <2>3 DEF Search, Insert, BumpKvCount, shared, files, table
  <2>4. CASE SetFid(t) \/ SetOffset(t) \/ SetSize(t)
    BY <1>0, <2>4 DEF SetFid, SetOffset, SetSize, files, table
  <2> QED
    BY <1>4, <2>1, <2>2, <2>3, <2>4 DEF PutStep
<1>5. CASE GetStep(t)
  <2>1. CASE Find(t) \/ GetFid(t) \/ GetSize(t) \/ GetOffset(t) \/ GetSizeAgain(t)
    BY <1>0, <2>1 DEF Find, GetFid, GetSize, GetOffset, GetSizeAgain, shared, files, table
  <2>2. CASE Seek(t) \/ Read(t)
    BY <1>0, <2>2 DEF Seek, Read, table
  <2> QED
    BY <1>5, <2>1, <2>2 DEF GetStep
<1>6. CASE DelStep(t)
  BY <1>0, <1>6 DEF DelStep, FindToDel, Delete, shared, files, table
<1> QED
  BY <1>3, <1>4, <1>5, <1>6 DEF Step

(* Every step keeps the account of the files added. *)
LEMMA AddedStep == IInv /\ SInv /\ AInv /\ [Next]_vars => AInv'
<1> SUFFICES ASSUME IInv, SInv, AInv, [Next]_vars PROVE AInv'
  OBVIOUS
<1>1. CASE Next
  <2>1. PICK t \in Threads : Call(t) \/ Step(t)
    BY <1>1 DEF Next
  <2> QED
    BY <2>1, AddedLook, AddedOpen, AddedBump, AddedOthers
<1>2. CASE UNCHANGED vars
  <2>1. UNCHANGED <<cur_size, opened, pc, loc, file_cnt>>
    BY <1>2 DEF vars, shared, files, table
  <2> QED
    BY <2>1 DEF AInv, FoundFull, AddedBy, AddedFiles, FullFiles
<1> QED
  BY <1>1, <1>2

(* No file is added before the first call. *)
LEMMA AddedInit == Init => AInv
<1> SUFFICES ASSUME Init PROVE AInv
  OBVIOUS
<1>1. AddedFiles = {} /\ 1 \notin opened /\ \A t \in Threads : pc[t] = "idle"
  BY DEF Init, AddedFiles
<1>2. AddedBy([g \in FileIds |-> Nobody])
  BY <1>1 DEF AddedBy
<1>3. [g \in FileIds |-> Nobody] \in [FileIds -> Threads \cup {Nobody}]
  OBVIOUS
<1> QED
  BY <1>1, <1>2, <1>3 DEF AInv, FoundFull, AddingPlaces

(* Of more files in a row than there are writers, one writer has added     *)
(* two.                                                                    *)
LEMMA AddedForFull == IInv /\ AInv => FilesAddedForFull
<1> SUFFICES ASSUME IInv, AInv, NEW f \in opened, NEW l \in opened,
                    f < l, f + Cardinality(Writers) <= l
             PROVE  \E g \in f .. (l - 1) : cur_size[g] >= MaxDataFileSize
  BY DEF FilesAddedForFull
<1>0. /\ TypeOK /\ TableInStep
      /\ opened \subseteq FileIds /\ FileIds \subseteq Nat /\ fid \in Nat /\ fid >= 1
  BY TableNow, PlacesTyped DEF IInv
<1>1. f \in Nat /\ l \in Nat /\ IsFiniteSet(Writers) /\ Cardinality(Writers) \in Nat
  BY <1>0, FS_Subset, FS_CardinalityType DEF Threads
<1>2. f .. l \subseteq opened
  <2>1. opened = 0 .. (fid - 1) \/ opened = 0 .. fid
    BY <1>0 DEF TableInStep
  <2> QED
    BY <1>0, <1>1, <2>1
<1>3. CASE f = 0
  <2>1. 1 \in f .. l /\ 0 \in f .. (l - 1)
    BY <1>1, <1>3
  <2>2. 0 \in FullFiles
    BY <1>2, <2>1 DEF AInv
  <2> QED
    BY <2>1, <2>2 DEF FullFiles
<1>4. CASE f # 0
  <2>1. PICK adder \in [FileIds -> Threads \cup {Nobody}] : AddedBy(adder)
    BY DEF AInv
  <2>2. f .. l \subseteq AddedFiles
    BY <1>1, <1>2, <1>4 DEF AddedFiles
  <2> DEFINE row == [g \in f .. l |-> adder[g]]
  <2>3. row \in [f .. l -> Writers]
    BY <2>1, <2>2 DEF AddedBy
  <2>4. IsFiniteSet(f .. l) /\ Cardinality(f .. l) = l - f + 1
    BY <1>1, FS_Interval
  <2>5. Cardinality(Writers) < Cardinality(f .. l)
    BY <1>1, <2>4
  <2>6. PICK g \in f .. l, h \in f .. l : g # h /\ row[g] = row[h]
    <3> DEFINE S == f .. l
    <3>1. /\ IsFiniteSet(S) /\ IsFiniteSet(Writers)
          /\ Cardinality(Writers) < Cardinality(S) /\ row \in [S -> Writers]
      BY <1>1, <2>3, <2>4, <2>5
    <3> HIDE DEF row, S
    <3>2. \E g, h \in S : g # h /\ row[g] = row[h]
      BY <3>1, FS_PigeonHole
    <3> QED
      BY <3>2 DEF S
  <2>7. PICK i \in f .. l, j \in f .. l : i < j /\ adder[i] = adder[j]
    <3>1. g \in Nat /\ h \in Nat
      BY <1>1
    <3>2. g < h \/ h < g
      BY <2>6, <3>1
    <3> QED
      BY <2>6, <3>1, <3>2
  <2>8. PICK e \in i .. (j - 1) : e \in FullFiles
    BY <2>1, <2>2, <2>7 DEF AddedBy
  <2>9. e \in f .. (l - 1)
    BY <1>1, <2>7
  <2> QED
    BY <2>8, <2>9 DEF FullFiles
<1> QED
  BY <1>3, <1>4

(* Files that puts add in vain, because others found the same file full,   *)
(* never pile up: with any number of writers, of as many files in a row as *)
(* there are writers, if another follows, one is full.                     *)
THEOREM FilesAddedForFullAlways == Spec => []FilesAddedForFull
<1>1. Init => SInv /\ AInv
  BY SizesInit, AddedInit
<1>2. IInv /\ IInv' /\ SInv /\ [Next]_vars => SInv'
  BY SizesStep DEF IInv
<1>3. IInv /\ SInv /\ AInv /\ [Next]_vars => AInv'
  BY AddedStep
<1>4. IInv /\ AInv => FilesAddedForFull
  BY AddedForFull
<1> QED
  BY <1>1, <1>2, <1>3, <1>4, ThreadsInductive, PTL DEF Spec
=============================================================================
