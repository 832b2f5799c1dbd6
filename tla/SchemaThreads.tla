--------------------------- MODULE SchemaThreads ----------------------------
(***************************************************************************)
(* Threads that put, get and delete through one schema handle at the same  *)
(* time (src/src/schema.c, data_file.c): one action per access to what     *)
(* they share.  The counters are _Atomic, adding a file is under           *)
(* schema.lock, an append is one write to a descriptor opened with         *)
(* O_APPEND; everything else is unprotected: the check for a full file,    *)
(* the offset that is read before it is reserved, what art_search found    *)
(* and is used after it, the fields of a kv_index, and the one read        *)
(* descriptor of a file with its position.                                 *)
(*                                                                         *)
(* A call of the tree is one step: what art.c does when two of its calls   *)
(* overlap is undefined and not modelled.  A thread that reaches outside   *)
(* the allocation of schema.files or the buffer it reads into sets         *)
(* undefined, and nothing is said of what happens then.                    *)
(***************************************************************************)
EXTENDS DataFiles, Sequences, FiniteSetsExt

CONSTANTS
  Writers,    \* the threads that call schema_put_kv
  Readers,    \* the threads that call schema_get_kv
  Deleters,   \* the threads that call schema_del_kv
  Puts,       \* the <<key, value>> pairs they put
  FirstFile,  \* data file 0 when the threads start, one record for a key
  MaxOps,     \* bound: how many calls each thread makes
  Nobody,     \* the owner of a free mutex
  NULL        \* the pointer art_search answers with if it finds nothing

Threads == Writers \cup Readers \cup Deleters

Preloaded == {r.key : r \in FirstFile.recs}

ASSUME ThreadAssumption ==
  /\ IsFiniteSet(Threads)
  /\ Nobody \notin Threads
  /\ MaxOps \in [Threads -> Nat]
  /\ Puts \subseteq Keys \X Values /\ Puts # {}
  /\ \A p \in Puts : Writable(p[1], p[2])
ASSUME FirstFileAssumption ==
  /\ FirstFile \in data_file /\ IsFiniteSet(FirstFile.recs)
  /\ \A r, s \in FirstFile.recs : r.key = s.key => r = s
(* Every put adds at most one file, so that no thread runs out of them.    *)
ASSUME EnoughFiles == MaxFiles > MapThenSumSet(LAMBDA w : MaxOps[w], Writers)

(* A kv_index is known by who allocated it: a put of a thread, or, before  *)
(* the threads started, one for a key.                                     *)
CallIds == UNION {{t} \X (1 .. MaxOps[t]) : t \in Threads}
LeafIds == CallIds \cup ({Nobody} \X Keys)

ASSUME NullAssumption == NULL \notin LeafIds

VARIABLES
  disk,        \* the content of each data file
  opened,      \* the indices of schema.files that hold a data_file
  cur_size,    \* data_file.cur_size
  pos,         \* the position of data_file.r_fd
  slots,       \* how many pointers the allocation of schema.files holds
  undefined,   \* has a thread reached outside the memory it may use?
  fid,         \* schema.fid
  file_cnt,    \* schema.meta->file_cnt
  lock,        \* the owner of schema.lock
  kv_indexes,  \* every kv_index allocated so far, field by field
  index_tree,  \* key -> which kv_index its leaf points to, or NULL
  kv_count,    \* schema.meta->kv_count
  pc,          \* what each thread does next
  args,        \* the key and value of its call
  loc,         \* its local variables: a file, an offset, a size, a pointer,
               \* and the size of the buffer of a get
  ops,         \* how many calls it has made
  result       \* what its last get returned: <<key, value>>, or NULL

memory == <<slots, undefined>>
files == <<disk, opened, cur_size, pos, memory>>
table == <<fid, file_cnt, lock>>
index == <<kv_indexes, index_tree, kv_count>>
shared == <<files, table, index>>
call == <<args, ops, result>>

vars == <<shared, pc, loc, call>>

-----------------------------------------------------------------------------
Init ==
  /\ disk = [f \in FileIds |-> IF f = 0 THEN FirstFile ELSE EmptyFile]
  /\ opened = {0}
  /\ cur_size = [f \in FileIds |-> IF f = 0 THEN FirstFile.len ELSE 0]
  /\ pos = [f \in FileIds |-> 0]
  /\ slots = MinLen
  /\ undefined = FALSE
  /\ fid = 1
  /\ file_cnt = 1
  /\ lock = Nobody
  /\ kv_indexes = [id \in LeafIds |->
       IF id[1] = Nobody /\ id[2] \in Preloaded
       THEN LET r == CHOOSE r \in FirstFile.recs : r.key = id[2]
            IN  [fid |-> 0, offset |-> r.off, size |-> r.size]
       ELSE NoLeaf]
  /\ index_tree = [k \in Keys |-> IF k \in Preloaded THEN <<Nobody, k>> ELSE NULL]
  /\ kv_count = Cardinality(Preloaded)
  /\ pc = [t \in Threads |-> "idle"]
  /\ args = [t \in Threads |-> CHOOSE p \in Puts : TRUE]
  /\ loc = [t \in Threads |->
              [f |-> 0, offset |-> 0, size |-> 0, leaf |-> NULL, room |-> 0]]
  /\ ops = [t \in Threads |-> 0]
  /\ result = [t \in Threads |-> NULL]

-----------------------------------------------------------------------------
Key(t) == args[t][1]
Size(t) == RecSize[args[t][1]][args[t][2]]

(* Thread t goes from one place of the code to another. *)
Goto(t, from, to) == pc[t] = from /\ pc' = [pc EXCEPT ![t] = to]

(* It calls schema_put_kv, schema_get_kv or schema_del_kv on the handle.   *)
Call(t) ==
  /\ ~undefined
  /\ ops[t] < MaxOps[t]
  /\ ops' = [ops EXCEPT ![t] = @ + 1]
  /\ \E p \in Puts : args' = [args EXCEPT ![t] = p]
  /\ \/ t \in Writers /\ Goto(t, "idle", "count")
     \/ t \in Readers /\ Goto(t, "idle", "find")
     \/ t \in Deleters /\ Goto(t, "idle", "find_to_del")
  /\ UNCHANGED <<shared, loc, result>>

-----------------------------------------------------------------------------
(* Mutants: it is the first file that is looked at; the new file is        *)
(* counted before it is in the table; schema.lock is not taken; it is not  *)
(* released; a put goes to the file after the last; the counter is set     *)
(* from the offset read before; an insert is not counted.                  *)
ReadNoCount(t) ==
  /\ Goto(t, "count", "size")
  /\ loc' = [loc EXCEPT ![t].f = 0]
  /\ UNCHANGED <<shared, call>>

LockAndCount(t) ==
  /\ Goto(t, "lock", "open")
  /\ lock = Nobody
  /\ lock' = t
  /\ file_cnt' = file_cnt + 1
  /\ UNCHANGED <<files, fid, index, loc, call>>

LockNothing(t) ==
  /\ Goto(t, "lock", "open")
  /\ UNCHANGED <<shared, loc, call>>

UnlockNothing(t) ==
  /\ Goto(t, "unlock", "pick")
  /\ UNCHANGED <<shared, loc, call>>

PickFileAfter(t) ==
  /\ Goto(t, "pick", "offset")
  /\ loc' = [loc EXCEPT ![t].f = fid]
  /\ UNCHANGED <<shared, call>>

ReserveFromOffset(t) ==
  /\ Goto(t, "reserve", "write")
  /\ cur_size' = [cur_size EXCEPT ![loc[t].f] = loc[t].offset + Size(t)]
  /\ UNCHANGED <<disk, opened, pos, memory, table, index, loc, call>>

InsertUncounted(t) ==
  /\ Goto(t, "insert", "idle")
  /\ kv_indexes' = [kv_indexes EXCEPT ![<<t, ops[t]>>] =
                      [fid |-> loc[t].f, offset |-> loc[t].offset, size |-> Size(t)]]
  /\ index_tree' = [index_tree EXCEPT ![Key(t)] = <<t, ops[t]>>]
  /\ UNCHANGED <<files, table, kv_count, loc, call>>

-----------------------------------------------------------------------------
(* schema_put_kv: is the last file full?  Nothing is locked yet. *)
ReadCount(t) ==
  /\ Goto(t, "count", "size")
  /\ loc' = [loc EXCEPT ![t].f = file_cnt - 1]
  /\ UNCHANGED <<shared, call>>

CheckSize(t) ==
  /\ Goto(t, "size", IF cur_size[loc[t].f] >= MaxDataFileSize THEN "lock" ELSE "pick")
  /\ UNCHANGED <<shared, loc, call>>

(* schema_add_data_file, under the lock. *)
Lock(t) ==
  /\ Goto(t, "lock", "open")
  /\ lock = Nobody
  /\ lock' = t
  /\ UNCHANGED <<files, fid, file_cnt, index, loc, call>>

(* The table is reallocated if it is time to, and the file stored in it,   *)
(* or beyond its end.                                                      *)
OpenFile(t) ==
  /\ Goto(t, "open", "bump_file_cnt")
  /\ fid < MaxFiles
  /\ slots' = SlotsFor(fid, slots)
  /\ undefined' = (fid >= slots')
  /\ opened' = opened \cup {fid}
  /\ cur_size' = [cur_size EXCEPT ![fid] = 0]
  /\ UNCHANGED <<disk, pos, table, index, loc, call>>

BumpFileCnt(t) ==
  /\ Goto(t, "bump_file_cnt", "bump_fid")
  /\ file_cnt' = file_cnt + 1
  /\ UNCHANGED <<files, fid, lock, index, loc, call>>

BumpFid(t) ==
  /\ Goto(t, "bump_fid", "unlock")
  /\ fid' = fid + 1
  /\ UNCHANGED <<files, file_cnt, lock, index, loc, call>>

Unlock(t) ==
  /\ Goto(t, "unlock", "pick")
  /\ lock' = Nobody
  /\ UNCHANGED <<files, fid, file_cnt, index, loc, call>>

(* The file to write to, and the offset the leaf will carry. *)
PickFile(t) ==
  /\ Goto(t, "pick", "offset")
  /\ loc' = [loc EXCEPT ![t].f = fid - 1]
  /\ UNCHANGED <<shared, call>>

ReadOffset(t) ==
  /\ Goto(t, "offset", "reserve")
  /\ loc' = [loc EXCEPT ![t].offset = cur_size[loc[t].f]]
  /\ UNCHANGED <<shared, call>>

(* data_file_write: the counter first, then the file. *)
Reserve(t) ==
  /\ Goto(t, "reserve", "write")
  /\ cur_size' = [cur_size EXCEPT ![loc[t].f] = @ + Size(t)]
  /\ UNCHANGED <<disk, opened, pos, memory, table, index, loc, call>>

Write(t) ==
  /\ Goto(t, "write", "search")
  /\ disk' = [disk EXCEPT ![loc[t].f] = Appended(@, args[t][1], args[t][2])]
  /\ UNCHANGED <<opened, cur_size, pos, memory, table, index, loc, call>>

(* art_search; what it answers is used, found or not, in later steps. *)
Search(t) ==
  /\ Goto(t, "search", IF index_tree[Key(t)] = NULL THEN "insert" ELSE "set_fid")
  /\ loc' = [loc EXCEPT ![t].leaf = index_tree[Key(t)]]
  /\ UNCHANGED <<shared, call>>

(* kv_index_alloc and art_insert, which puts the new kv_index in the place *)
(* of one that is there by now; then the key is counted.                   *)
Insert(t) ==
  /\ Goto(t, "insert", "bump_kv_count")
  /\ kv_indexes' = [kv_indexes EXCEPT ![<<t, ops[t]>>] =
                      [fid |-> loc[t].f, offset |-> loc[t].offset, size |-> Size(t)]]
  /\ index_tree' = [index_tree EXCEPT ![Key(t)] = <<t, ops[t]>>]
  /\ UNCHANGED <<files, table, kv_count, loc, call>>

BumpKvCount(t) ==
  /\ Goto(t, "bump_kv_count", "idle")
  /\ kv_count' = kv_count + 1
  /\ UNCHANGED <<files, table, kv_indexes, index_tree, loc, call>>

(* The memcpy over the kv_index that art_search found, which the tree may  *)
(* have given up or replaced since.                                        *)
SetFid(t) ==
  /\ Goto(t, "set_fid", "set_offset")
  /\ kv_indexes' = [kv_indexes EXCEPT ![loc[t].leaf].fid = loc[t].f]
  /\ UNCHANGED <<files, table, index_tree, kv_count, loc, call>>

SetOffset(t) ==
  /\ Goto(t, "set_offset", "set_size")
  /\ kv_indexes' = [kv_indexes EXCEPT ![loc[t].leaf].offset = loc[t].offset]
  /\ UNCHANGED <<files, table, index_tree, kv_count, loc, call>>

SetSize(t) ==
  /\ Goto(t, "set_size", "idle")
  /\ kv_indexes' = [kv_indexes EXCEPT ![loc[t].leaf].size = Size(t)]
  /\ UNCHANGED <<files, table, index_tree, kv_count, loc, call>>

-----------------------------------------------------------------------------
(* schema_get_kv: the leaf, its fields one at a time, and the read.  The   *)
(* size is loaded for the buffer, and again, before or after the offset,   *)
(* for the read.                                                           *)
Find(t) ==
  /\ loc' = [loc EXCEPT ![t].leaf = index_tree[Key(t)]]
  /\ IF index_tree[Key(t)] = NULL
     THEN Goto(t, "find", "idle") /\ result' = [result EXCEPT ![t] = NULL]
     ELSE Goto(t, "find", "get_fid") /\ UNCHANGED result
  /\ UNCHANGED <<shared, args, ops>>

GetFid(t) ==
  /\ Goto(t, "get_fid", "get_size")
  /\ loc' = [loc EXCEPT ![t].f = kv_indexes[loc[t].leaf].fid]
  /\ UNCHANGED <<shared, call>>

GetSize(t) ==
  /\ Goto(t, "get_size", "get_both")
  /\ loc' = [loc EXCEPT ![t].room = kv_indexes[loc[t].leaf].size]
  /\ UNCHANGED <<shared, call>>

GetOffset(t) ==
  /\ Goto(t, "get_both", "get_size_again") \/ Goto(t, "get_offset", "seek")
  /\ loc' = [loc EXCEPT ![t].offset = kv_indexes[loc[t].leaf].offset]
  /\ UNCHANGED <<shared, call>>

GetSizeAgain(t) ==
  /\ Goto(t, "get_both", "get_offset") \/ Goto(t, "get_size_again", "seek")
  /\ loc' = [loc EXCEPT ![t].size = kv_indexes[loc[t].leaf].size]
  /\ UNCHANGED <<shared, call>>

(* data_file_read: the position belongs to the descriptor. *)
Seek(t) ==
  /\ Goto(t, "seek", "read")
  /\ pos' = [pos EXCEPT ![loc[t].f] = loc[t].offset]
  /\ UNCHANGED <<disk, opened, cur_size, memory, table, index, loc, call>>

(* A read stops at the end of the file; beyond it, it does not move.  The  *)
(* bytes read may not fit the buffer, or be those of no record.            *)
Read(t) ==
  LET f == loc[t].f
      stop == IF pos[f] + loc[t].size <= disk[f].len THEN pos[f] + loc[t].size
              ELSE IF pos[f] <= disk[f].len THEN disk[f].len ELSE pos[f]
      value == data_file_read(disk[f], pos[f], loc[t].size)
  IN  /\ Goto(t, "read", "idle")
      /\ result' = [result EXCEPT ![t] = <<Key(t), value>>]
      /\ pos' = [pos EXCEPT ![f] = stop]
      /\ undefined' \in IF stop > pos[f] + loc[t].room THEN {TRUE} ELSE Strays(value)
      /\ UNCHANGED <<disk, opened, cur_size, slots, table, index, loc, args, ops>>

-----------------------------------------------------------------------------
(* schema_del_kv: art_search, and art_delete if it found something. *)
FindToDel(t) ==
  /\ Goto(t, "find_to_del", IF index_tree[Key(t)] = NULL THEN "idle" ELSE "delete")
  /\ UNCHANGED <<shared, loc, call>>

Delete(t) ==
  /\ Goto(t, "delete", "idle")
  /\ index_tree' = [index_tree EXCEPT ![Key(t)] = NULL]
  /\ UNCHANGED <<files, table, kv_indexes, kv_count, loc, call>>

-----------------------------------------------------------------------------
PutStep(t) ==
  \/ ReadCount(t) \/ CheckSize(t)
  \/ Lock(t) \/ OpenFile(t) \/ BumpFileCnt(t) \/ BumpFid(t) \/ Unlock(t)
  \/ PickFile(t) \/ ReadOffset(t) \/ Reserve(t) \/ Write(t)
  \/ Search(t) \/ Insert(t) \/ BumpKvCount(t)
  \/ SetFid(t) \/ SetOffset(t) \/ SetSize(t)

GetStep(t) ==
  \/ Find(t) \/ GetFid(t) \/ GetSize(t) \/ GetOffset(t) \/ GetSizeAgain(t)
  \/ Seek(t) \/ Read(t)

DelStep(t) == FindToDel(t) \/ Delete(t)

Step(t) == ~undefined /\ (PutStep(t) \/ GetStep(t) \/ DelStep(t))

Next == \E t \in Threads : Call(t) \/ Step(t)

(* A thread inside a call is scheduled again and again. *)
Spec == Init /\ [][Next]_vars /\ \A t \in Threads : WF_vars(Step(t))

-----------------------------------------------------------------------------
(* Properties. *)

(* Where a put is before its record is in the file, where it is after      *)
(* that, and where gets and dels are.                                      *)
PutPlaces ==
  {"count", "size", "lock", "open", "bump_file_cnt", "bump_fid", "unlock",
   "pick", "offset", "reserve", "write"}
LeafPlaces == {"search", "insert", "bump_kv_count", "set_fid", "set_offset", "set_size"}
GetPlaces ==
  {"find", "get_fid", "get_size", "get_both", "get_offset", "get_size_again",
   "seek", "read"}
DelPlaces == {"find_to_del", "delete"}

(* Where a get has its file and loads the rest of the leaf. *)
LoadPlaces == {"get_size", "get_both", "get_offset", "get_size_again"}

Locals ==
  [f : FileIds, offset : Nat, size : Nat, leaf : LeafIds \cup {NULL}, room : Nat]

(* Every variable keeps its type. *)
TypeOK ==
  /\ disk \in [FileIds -> data_file]
  /\ opened \in SUBSET FileIds
  /\ cur_size \in [FileIds -> Nat]
  /\ pos \in [FileIds -> Nat]
  /\ slots \in Nat
  /\ undefined \in BOOLEAN
  /\ fid \in 1 .. MaxFiles
  /\ file_cnt \in 1 .. MaxFiles
  /\ lock \in Threads \cup {Nobody}
  /\ kv_indexes \in [LeafIds -> kv_index \cup {NoLeaf}]
  /\ index_tree \in [Keys -> LeafIds \cup {NULL}]
  /\ kv_count \in Nat
  /\ pc \in [Threads -> {"idle"} \cup PutPlaces \cup LeafPlaces \cup GetPlaces \cup DelPlaces]
  /\ args \in [Threads -> Keys \X Values]
  /\ loc \in [Threads -> Locals]
  /\ ops \in [Threads -> Nat]
  /\ result \in [Threads -> (Keys \X (Values \cup {Garbage})) \cup {NULL}]

(* No thread follows a pointer of schema.files that has not been stored    *)
(* yet, or that is beyond the end of the table: neither the one it takes   *)
(* from file_cnt without a lock, nor the one it takes from fid, nor one    *)
(* that a leaf, whole or half written, names.                              *)
UsedFilesOpen ==
  \A t \in Threads :
    pc[t] \in {"size", "offset", "reserve", "write", "seek", "read"} \cup LoadPlaces =>
      loc[t].f \in opened /\ (undefined \/ loc[t].f < slots)

(* The two counters of files and the table stay in step: the table has no  *)
(* hole, fid, which says where to write, never runs ahead of file_cnt, and *)
(* what is between them is the one file being added under the lock; and    *)
(* the table is never reallocated, before or after it is overrun, while    *)
(* other threads index it without the lock.                                *)
TableInStep ==
  /\ slots = MinLen
  /\ fid <= file_cnt /\ file_cnt <= fid + 1
  /\ opened = 0 .. (fid - 1) \/ opened = 0 .. fid
  /\ file_cnt - 1 \in opened
  /\ lock = Nobody => opened = 0 .. (fid - 1) /\ file_cnt = fid

(* cur_size is the length of the file plus what is reserved in it and not  *)
(* yet written: no reservation is lost and none is counted twice.          *)
SizesAccounted ==
  \A f \in FileIds :
    cur_size[f] = disk[f].len +
      MapThenSumSet(Size, {t \in Threads : pc[t] = "write" /\ loc[t].f = f})

(* Writers that find the same file full all add one, and only one of those *)
(* files need ever be used; but files added in vain do not pile up: of as  *)
(* many files in a row as there are writers, if another follows, one is    *)
(* full.                                                                   *)
FilesAddedForFull ==
  \A f, l \in opened : f < l /\ f + Cardinality(Writers) <= l =>
    \E g \in f .. (l - 1) : cur_size[g] >= MaxDataFileSize

Made == {id \in LeafIds : kv_indexes[id] # NoLeaf}
IndexedKeys == {k \in Keys : index_tree[k] # NULL}
Pending == {t \in Threads : pc[t] = "bump_kv_count"}

(* kv_count counts the kv_indexes that were ever inserted, each once: two  *)
(* first puts of a key are counted twice, but the count, with those about  *)
(* to be counted, never falls behind the number of keys in the index.      *)
KeysCounted ==
  /\ kv_count + Cardinality(Pending) = Cardinality(Made)
  /\ Cardinality(IndexedKeys) <= Cardinality(Made)

(* Every call returns, as long as nothing is undefined: nobody waits       *)
(* forever for schema.lock.                                                *)
CallsReturn == \A t \in Threads : pc[t] # "idle" ~> pc[t] = "idle" \/ undefined

(* When no call is running, every leaf names a record of its key. *)
QuietLeavesRight ==
  (\A t \in Threads : pc[t] = "idle") =>
    \A k \in Keys : index_tree[k] # NULL =>
      LET leaf == kv_indexes[index_tree[k]] IN
      \E r \in disk[leaf.fid].recs :
        r.off = leaf.offset /\ r.size = leaf.size /\ r.key = k

(* The buffer of a get holds the bytes that its read may store there.      *)
BufferHolds ==
  \A t \in Threads : pc[t] = "read" => loc[t].size <= loc[t].room

(* A get answers with a value that was put for its key, or with none. *)
GetsOwnValue ==
  \A t \in Threads :
    result[t] \in Puts \cup {NULL} \cup {<<r.key, r.val>> : r \in FirstFile.recs}
=============================================================================
