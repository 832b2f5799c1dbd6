----------------------------- MODULE DataFiles ------------------------------
(***************************************************************************)
(* The data files of a schema and the leaves that name records in them     *)
(* (src/src/data_file.c, kv_value.c, kv_index.c): the constants and the    *)
(* operators that Schema, SchemaFaults and SchemaThreads share.            *)
(*                                                                         *)
(* A file is the set of records written to it, each with the offset at     *)
(* which O_APPEND put it, and its length.  A record is abstracted to its   *)
(* key, its value and its size, sizeof(kv_value) + k_sz + v_sz.            *)
(***************************************************************************)
EXTENDS Integers, FiniteSets

CONSTANTS
  Keys,             \* the keys of the callers
  Values,           \* the values of the callers
  Garbage,          \* bytes that are not the value of a record
  RecSize,          \* RecSize[k][v]: the size of the record of k and v
  MaxDataFileSize,  \* cf->max_data_file_size
  MaxKvSize,        \* cf->max_key_size + cf->max_value_size
  MinLen,           \* SCHEMA_DATA_FILE_MIN_LEN
  PtrSize,          \* sizeof(data_file *)
  MaxFiles          \* bound: the number of data files a run may create

ASSUME GarbageAssumption == Garbage \notin Values
ASSUME SizeAssumption ==
  /\ RecSize \in [Keys -> [Values -> Nat \ {0}]]
  /\ MaxDataFileSize \in Nat \ {0}
  /\ MaxKvSize \in Nat
  /\ MaxFiles \in Nat \ {0}
ASSUME TableAssumption ==
  /\ MinLen \in Nat \ {0}
  /\ PtrSize \in Nat \ {0}

FileIds == 0 .. (MaxFiles - 1)
kv_value == [off : Nat, size : Nat \ {0}, key : Keys, val : Values]
kv_index == [fid : FileIds, offset : Nat, size : Nat \ {0}]
NoLeaf == [fid |-> -1, offset |-> 0, size |-> 0]
EmptyFile == [len |-> 0, recs |-> {}]
data_file == [len : Nat, recs : SUBSET kv_value]

(* data_file_write refuses a record of max_kv_size or more. *)
Writable(k, v) == RecSize[k][v] < MaxKvSize

-----------------------------------------------------------------------------
(* Mutants of the definitions below: a write that is not an append, a read *)
(* that forgets to seek, a file table reallocated from the second file on. *)
AppendedAtStart(file, k, v) ==
  [len  |-> file.len + RecSize[k][v],
   recs |-> file.recs \cup {[off |-> 0, size |-> RecSize[k][v],
                             key |-> k, val |-> v]}]

ReadWithoutSeek(file, offset, size) ==
  LET hits == {r \in file.recs : r.off = 0 /\ r.size <= size}
  IN  IF hits = {} THEN Garbage ELSE (CHOOSE r \in hits : TRUE).val

SlotsForEarly(i, n) ==
  CASE i <= 0  -> MinLen
    [] i > 0   -> (MinLen * 2) \div PtrSize

-----------------------------------------------------------------------------
(* write(2) on a descriptor opened with O_APPEND. *)
Appended(file, k, v) ==
  [len  |-> file.len + RecSize[k][v],
   recs |-> file.recs \cup {[off |-> file.len, size |-> RecSize[k][v],
                             key |-> k, val |-> v]}]

(* The value found by reading size bytes at offset: that of the record     *)
(* that starts there, if one does and the bytes read hold all of it.       *)
data_file_read(file, offset, size) ==
  LET hits == {r \in file.recs : r.off = offset /\ r.size <= size}
  IN  IF hits = {} THEN Garbage ELSE (CHOOSE r \in hits : TRUE).val

(* What schema_get_kv does with the bytes read goes by the sizes found in  *)
(* them: crc32 runs over k_sz + v_sz bytes and the value is k_sz bytes     *)
(* ahead.  If the bytes are those of a record, both stay in the buffer;    *)
(* otherwise they may leave it, or not.                                    *)
Strays(x) == IF x = Garbage THEN BOOLEAN ELSE {FALSE}

(* How many pointers the file table holds once data file i is added to a   *)
(* table of n: the first file allocates it, a file after the one numbered  *)
(* MinLen has it reallocated, to a size given in bytes.                    *)
SlotsFor(i, n) ==
  CASE i <= 0      -> MinLen
    [] i > MinLen  -> (MinLen * 2) \div PtrSize
    [] OTHER       -> n

(* No two records of a file overlap, and none goes beyond its end. *)
Tiled(file) ==
  /\ \A r \in file.recs : r.off + r.size <= file.len
  /\ \A r, s \in file.recs :
       r # s => r.off + r.size <= s.off \/ s.off + s.size <= r.off
=============================================================================
