------------------------------- MODULE Schema -------------------------------
(***************************************************************************)
(* One schema: a directory of append-only data files and the index that    *)
(* says where each key's latest record is (src/src/schema.c).  Calls come  *)
(* one at a time and every system call succeeds; SchemaFaults lifts the    *)
(* second restriction and SchemaThreads the first.  The index is the map   *)
(* that the radix tree of art.c implements (Art).                          *)
(*                                                                         *)
(* A call that reaches outside the allocation of schema.files, or of the   *)
(* buffer it reads into, sets undefined, and nothing is said of what the   *)
(* process does from then on.                                              *)
(***************************************************************************)
EXTENDS DataFiles

CONSTANTS NoValue  \* the NULL of schema_get_kv

ASSUME NoValueAssumption == NoValue \notin Values \cup {Garbage}

VARIABLES
  disk,        \* the content of each data file, whether it exists or not
  cur_size,    \* data_file.cur_size of each open file
  fid,         \* schema.fid: the number of files added
  file_cnt,    \* schema.meta->file_cnt
  slots,       \* how many pointers the allocation of schema.files holds
  index_tree,  \* key -> the kv_index of its leaf
  kv_count,    \* schema.meta->kv_count
  reply,       \* the last call and what it returned: <<op, argument, result>>
  undefined    \* has a call reached outside the memory it may use?

table == <<fid, file_cnt, slots>>

vars == <<disk, cur_size, table, index_tree, kv_count, reply, undefined>>

-----------------------------------------------------------------------------
(* The file table. *)

schema_add_data_file(i) ==
  /\ slots' = SlotsFor(i, slots)
  /\ file_cnt' = file_cnt + 1
  /\ fid' = fid + 1

-----------------------------------------------------------------------------
(* The handlers. *)

(* Mutants: a file is left before it is full; a new file keeps the size    *)
(* counter of the one before; an overwrite leaves the leaf where it was; a *)
(* del counts down, found or not.                                          *)
FullEarly == cur_size[file_cnt - 1] >= MaxDataFileSize - 1

SizesKept ==
  IF cur_size[file_cnt - 1] >= MaxDataFileSize
  THEN [cur_size EXCEPT ![fid] = cur_size[fid - 1]] ELSE cur_size

IndexedOnce(k, f, offset, size) ==
  IF index_tree[k] # NoLeaf THEN index_tree
  ELSE [index_tree EXCEPT ![k] = [fid |-> f, offset |-> offset, size |-> size]]

schema_del_kv_counting(k) ==
  /\ index_tree' = [index_tree EXCEPT ![k] = NoLeaf]
  /\ kv_count' = kv_count - 1
  /\ reply' = <<"del", k, IF index_tree[k] = NoLeaf THEN -1 ELSE 0>>
  /\ UNCHANGED <<disk, cur_size, table, undefined>>

Full == cur_size[file_cnt - 1] >= MaxDataFileSize

Rotate ==
  IF Full
  THEN fid < MaxFiles /\ schema_add_data_file(fid)
  ELSE UNCHANGED table

(* Is what a put does to schema.files within its allocation?  It looks at  *)
(* the last file counted, and, if that is full, stores one at fid.         *)
PutInTable ==
  /\ file_cnt - 1 < slots
  /\ Full => fid < SlotsFor(fid, slots)

GoesBeyond ==
  /\ undefined' = TRUE
  /\ UNCHANGED <<disk, cur_size, table, index_tree, kv_count, reply>>

(* cur_size after Rotate: data_file_alloc starts a file at 0. *)
Sizes == IF Full THEN [cur_size EXCEPT ![fid] = 0] ELSE cur_size

(* The index once it names the new record of k: its leaf is inserted if    *)
(* art_search finds none, and overwritten if it does.                      *)
Indexed(k, f, offset, size) ==
  [index_tree EXCEPT ![k] = [fid |-> f, offset |-> offset, size |-> size]]

(* The record fits: it is appended, and the key's leaf made to name it. *)
PutStored(k, v) ==
  /\ Writable(k, v)
  /\ Rotate
  /\ LET f      == fid' - 1
         offset == Sizes[f]
         size   == RecSize[k][v]
     IN  /\ cur_size' = [Sizes EXCEPT ![f] = offset + size]
         /\ disk' = [disk EXCEPT ![f] = Appended(disk[f], k, v)]
         /\ index_tree' = Indexed(k, f, offset, size)
         /\ kv_count' = IF index_tree[k] = NoLeaf THEN kv_count + 1 ELSE kv_count
         /\ reply' = <<"put", <<k, v>>, 0>>

(* data_file_write refuses the record; the caller still gets a 0. *)
PutTooLarge(k, v) ==
  /\ ~Writable(k, v)
  /\ Rotate
  /\ cur_size' = Sizes
  /\ reply' = <<"put", <<k, v>>, 0>>
  /\ UNCHANGED <<disk, index_tree, kv_count>>

schema_put_kv(k, v) ==
  \/ PutInTable /\ (PutStored(k, v) \/ PutTooLarge(k, v)) /\ UNCHANGED undefined
  \/ ~PutInTable /\ GoesBeyond

(* What a get of k reads. *)
Stored(k) ==
  LET leaf == index_tree[k] IN
  IF leaf = NoLeaf THEN NoValue
  ELSE data_file_read(disk[leaf.fid], leaf.offset, leaf.size)

(* The file of the leaf has a slot in the table. *)
GetInTable(k) == index_tree[k] = NoLeaf \/ index_tree[k].fid < slots

schema_get_kv(k) ==
  /\ reply' = <<"get", k, Stored(k)>>
  /\ undefined' \in IF GetInTable(k) THEN Strays(Stored(k)) ELSE {TRUE}
  /\ UNCHANGED <<disk, cur_size, table, index_tree, kv_count>>

(* The leaf goes; the records stay on disk and kv_count stays as it is. *)
schema_del_kv(k) ==
  /\ index_tree' = [index_tree EXCEPT ![k] = NoLeaf]
  /\ reply' = <<"del", k, IF index_tree[k] = NoLeaf THEN -1 ELSE 0>>
  /\ UNCHANGED <<disk, cur_size, table, kv_count, undefined>>

-----------------------------------------------------------------------------
(* A schema just created: schema_alloc, then schema_add_data_file(s, 0). *)
Init ==
  /\ disk = [f \in FileIds |-> EmptyFile]
  /\ cur_size = [f \in FileIds |-> 0]
  /\ fid = 1
  /\ file_cnt = 1
  /\ slots = MinLen
  /\ index_tree = [k \in Keys |-> NoLeaf]
  /\ kv_count = 0
  /\ reply = <<>>
  /\ undefined = FALSE

Next ==
  /\ ~undefined
  /\ \E k \in Keys :
       \/ \E v \in Values : schema_put_kv(k, v)
       \/ schema_get_kv(k)
       \/ schema_del_kv(k)

Spec == Init /\ [][Next]_vars

-----------------------------------------------------------------------------
(* Properties. *)

Replies ==
  {<<>>} \cup ({"put"} \X (Keys \X Values) \X {0})
         \cup ({"get"} \X Keys \X (Values \cup {NoValue, Garbage}))
         \cup ({"del"} \X Keys \X {0, -1})

(* Every variable keeps the type its C declaration intends. *)
TypeOK ==
  /\ disk \in [FileIds -> data_file]
  /\ cur_size \in [FileIds -> Nat]
  /\ fid \in 1 .. MaxFiles
  /\ file_cnt \in 1 .. MaxFiles
  /\ slots \in Nat
  /\ index_tree \in [Keys -> kv_index \cup {NoLeaf}]
  /\ kv_count \in Nat
  /\ reply \in Replies
  /\ undefined \in BOOLEAN

Live(k) == index_tree[k] # NoLeaf

(* A record lies before a leaf in the order in which they were written. *)
NotAfter(f, r, leaf) ==
  \/ f < leaf.fid
  \/ f = leaf.fid /\ r.off <= leaf.offset

(* The leaf of a key names a record that is on disk in full, carries that  *)
(* key, and is the last one any file holds for it.                         *)
LeafIsLatest ==
  \A k \in Keys : Live(k) =>
    LET leaf == index_tree[k] IN
    /\ \E r \in disk[leaf.fid].recs :
         r.off = leaf.offset /\ r.size = leaf.size /\ r.key = k
    /\ \A f \in FileIds : \A r \in disk[f].recs :
         r.key = k => NotAfter(f, r, leaf)

(* The records of a file follow one another without overlap inside its     *)
(* length, and the in-memory size is that length, so that the next offset  *)
(* taken from it is the place the kernel will append at.                   *)
FilesTiled ==
  \A f \in FileIds :
    /\ cur_size[f] = disk[f].len
    /\ Tiled(disk[f])

(* Files fill in order: all but the last are full, no record begins at or  *)
(* beyond the limit, and a file not yet added holds nothing.               *)
FilesFillInOrder ==
  \A f \in FileIds :
    /\ f < fid - 1 => cur_size[f] >= MaxDataFileSize
    /\ \A r \in disk[f].recs : r.off < MaxDataFileSize
    /\ f >= fid => disk[f] = EmptyFile

(* The first call that reaches outside its memory is a put that finds      *)
(* MinLen data files, every one of them full: until then each file that is *)
(* counted or that a leaf names has a slot in the table, and what a get    *)
(* reads is a record.                                                      *)
UndefinedAtTableEnd ==
  undefined =>
    /\ fid = MinLen
    /\ \A f \in 0 .. (fid - 1) : cur_size[f] >= MaxDataFileSize

(* No call ever reaches outside its memory, however many records are put:  *)
(* context.c:21 speaks of 65535 data files, and test/bitcask_demo.c:47     *)
(* puts as many records as it is told to.                                  *)
Defined == ~undefined

(* kv_count, which is counted up for every key that was not in the index   *)
(* and never down, is never behind the number of keys in the index.        *)
LiveKeys == {k \in Keys : Live(k)}

CountCoversKeys == IsFiniteSet(LiveKeys) /\ Cardinality(LiveKeys) <= kv_count

(* What is on disk is never changed or removed, and what a step adds goes  *)
(* behind everything the file held: all writes are sequential appends.     *)
AppendOnly ==
  [][\A f \in FileIds :
       /\ disk[f].recs \subseteq disk'[f].recs
       /\ disk[f].len <= disk'[f].len
       /\ \A r \in disk'[f].recs \ disk[f].recs : r.off >= disk[f].len]_vars

StoredPairs == {kv \in Keys \X Values : Writable(kv[1], kv[2])}

KV == INSTANCE KVStore WITH
        store <- [k \in Keys |-> Stored(k)],
        Fits  <- StoredPairs

(* The schema implements the dictionary that binds each key to what a get  *)
(* of it reads: every get answers with the latest value put, across        *)
(* overwrites, deletes and file rotation, as long as nothing is undefined. *)
ImplementsKVStore == KV!Spec
=============================================================================
