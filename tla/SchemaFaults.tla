---------------------------- MODULE SchemaFaults ----------------------------
(***************************************************************************)
(* A schema whose system calls fail and whose process is killed and        *)
(* started again (src/src/schema.c, data_file.c, context.c).               *)
(*                                                                         *)
(* data_file_write advances cur_size before it calls write, and nobody     *)
(* looks at how much write wrote; a new process opens the first data file  *)
(* with cur_size at 0 whatever the file holds, and has an empty index.     *)
(* A get that finds no record goes on (Strays); if it brings the process   *)
(* down, the next state is that of a restart.                              *)
(* The ghost variable damaged collects the open files in which cur_size    *)
(* has parted from the file's length.                                      *)
(***************************************************************************)
EXTENDS Schema

CONSTANTS
  MaxFaults,   \* bound: how many system calls fail in a run
  MaxRestarts  \* bound: how many times the process is started again

ASSUME FaultAssumption == MaxFaults \in Nat /\ MaxRestarts \in Nat

VARIABLES
  damaged,   \* ghost: the open files whose cur_size is not their length
  faults,    \* the failed system calls so far
  restarts   \* the restarts so far

faultVars == <<vars, damaged, faults, restarts>>

FaultHappens == faults < MaxFaults /\ faults' = faults + 1 /\ UNCHANGED restarts
RestartHappens == restarts < MaxRestarts /\ restarts' = restarts + 1 /\ UNCHANGED faults
NothingFails == UNCHANGED <<faults, restarts>>

(* A file that holds something is damaged by being opened. *)
DamagedByRotate ==
  IF Full /\ disk[fid].len > 0 THEN damaged \cup {fid} ELSE damaged

-----------------------------------------------------------------------------
(* Calls during which nothing fails. *)

Put(k, v) ==
  /\ schema_put_kv(k, v)
  /\ damaged' = IF PutInTable THEN DamagedByRotate ELSE damaged
  /\ NothingFails

GetOrDel(k) ==
  /\ schema_get_kv(k) \/ schema_del_kv(k)
  /\ NothingFails
  /\ UNCHANGED damaged

-----------------------------------------------------------------------------
(* A put of a record that is not too large gets as far as its write. *)
WriteHappens(k, v) ==
  Writable(k, v) /\ PutInTable /\ FaultHappens /\ Rotate /\ UNCHANGED undefined

(* Mutants: a short write moves cur_size by what was written; its leaf is  *)
(* given the file that was the last before the rotation.                   *)
WriteShortExact(k, v) ==
  /\ WriteHappens(k, v)
  /\ LET f == fid' - 1 IN
     \E n \in 1 .. (RecSize[k][v] - 1) :
       /\ cur_size' = [Sizes EXCEPT ![f] = @ + n]
       /\ disk' = [disk EXCEPT ![f].len = @ + n]
       /\ index_tree' = Indexed(k, f, Sizes[f], RecSize[k][v])
       /\ damaged' = DamagedByRotate
  /\ kv_count' = IF index_tree[k] = NoLeaf THEN kv_count + 1 ELSE kv_count
  /\ reply' = <<"put", <<k, v>>, 0>>

WriteShortStale(k, v) ==
  /\ WriteHappens(k, v)
  /\ LET f == fid' - 1 IN
     \E n \in 1 .. (RecSize[k][v] - 1) :
       /\ cur_size' = [Sizes EXCEPT ![f] = @ + RecSize[k][v]]
       /\ disk' = [disk EXCEPT ![f].len = @ + n]
       /\ index_tree' = Indexed(k, fid - 1, Sizes[f], RecSize[k][v])
       /\ damaged' = DamagedByRotate \cup {f}
  /\ kv_count' = IF index_tree[k] = NoLeaf THEN kv_count + 1 ELSE kv_count
  /\ reply' = <<"put", <<k, v>>, 0>>

-----------------------------------------------------------------------------
(* Calls during which a system call fails. *)

(* write answers -1: cur_size has moved, the file and the index have not,  *)
(* and the caller gets a 0.                                                *)
WriteFails(k, v) ==
  /\ WriteHappens(k, v)
  /\ cur_size' = [Sizes EXCEPT ![fid' - 1] = @ + RecSize[k][v]]
  /\ damaged' = DamagedByRotate \cup {fid' - 1}
  /\ reply' = <<"put", <<k, v>>, 0>>
  /\ UNCHANGED <<disk, index_tree, kv_count>>

(* write writes n bytes only, which is more than 0 and so a success. *)
WriteShort(k, v) ==
  /\ WriteHappens(k, v)
  /\ LET f == fid' - 1 IN
     \E n \in 1 .. (RecSize[k][v] - 1) :
       /\ cur_size' = [Sizes EXCEPT ![f] = @ + RecSize[k][v]]
       /\ disk' = [disk EXCEPT ![f].len = @ + n]
       /\ index_tree' = Indexed(k, f, Sizes[f], RecSize[k][v])
       /\ damaged' = DamagedByRotate \cup {f}
  /\ kv_count' = IF index_tree[k] = NoLeaf THEN kv_count + 1 ELSE kv_count
  /\ reply' = <<"put", <<k, v>>, 0>>

(* read answers -1: the caller gets a pointer into the zeroed buffer, in   *)
(* which k_sz and v_sz are 0.                                              *)
ReadFails(k) ==
  /\ index_tree[k] # NoLeaf /\ GetInTable(k) /\ FaultHappens
  /\ reply' = <<"get", k, Garbage>>
  /\ UNCHANGED <<disk, cur_size, table, index_tree, kv_count, undefined, damaged>>

-----------------------------------------------------------------------------
(* Restarts.  The meta record of a schema is written once, by the call     *)
(* that creates it, with a file_cnt of 1: a new process opens file 0 only. *)

(* Mutant: the data file is opened with O_TRUNC. *)
RestartTruncating ==
  /\ RestartHappens
  /\ disk' = [disk EXCEPT ![0] = EmptyFile]
  /\ cur_size' = [f \in FileIds |-> 0]
  /\ fid' = 1 /\ file_cnt' = 1 /\ slots' = MinLen
  /\ index_tree' = [k \in Keys |-> NoLeaf]
  /\ kv_count' = 0 /\ reply' = <<>> /\ damaged' = {} /\ UNCHANGED undefined

schema_alloc_from_meta ==
  /\ cur_size' = [f \in FileIds |-> 0]
  /\ fid' = 1
  /\ file_cnt' = 1
  /\ slots' = MinLen
  /\ index_tree' = [k \in Keys |-> NoLeaf]
  /\ kv_count' = 0
  /\ reply' = <<>>
  /\ UNCHANGED undefined
  /\ damaged' = IF disk'[0].len > 0 THEN {0} ELSE {}

Restart == RestartHappens /\ UNCHANGED disk /\ schema_alloc_from_meta

(* The process is killed during a put, when n bytes of the record are in   *)
(* the file.                                                               *)
KilledInPut(k, v) ==
  /\ Writable(k, v) /\ PutInTable /\ RestartHappens
  /\ Full => fid < MaxFiles
  /\ LET f == IF Full THEN fid ELSE fid - 1 IN
     \/ disk' = [disk EXCEPT ![f] = Appended(disk[f], k, v)]
     \/ \E n \in 1 .. (RecSize[k][v] - 1) : disk' = [disk EXCEPT ![f].len = @ + n]
  /\ schema_alloc_from_meta

-----------------------------------------------------------------------------
FaultInit == Init /\ damaged = {} /\ faults = 0 /\ restarts = 0

FaultNext ==
  /\ ~undefined
  /\ \/ \E k \in Keys :
          \/ GetOrDel(k)
          \/ ReadFails(k)
          \/ \E v \in Values :
               \/ Put(k, v)
               \/ WriteFails(k, v)
               \/ WriteShort(k, v)
               \/ KilledInPut(k, v)
     \/ Restart

FaultSpec == FaultInit /\ [][FaultNext]_faultVars

-----------------------------------------------------------------------------
(* Properties. *)

(* Every variable, the ghost and the counters too, keeps its type. *)
FaultTypeOK ==
  /\ TypeOK
  /\ damaged \in SUBSET FileIds
  /\ faults \in 0 .. MaxFaults
  /\ restarts \in 0 .. MaxRestarts

(* Damage does not spread: in an open file whose writes all went through   *)
(* and that was empty when opened, the offsets are right, and the leaves   *)
(* that name the file name the latest record it holds of their keys,       *)
(* whatever happened to the files before and after it.                     *)
DamageContained ==
  \A f \in 0 .. (fid - 1) : f \notin damaged =>
    /\ cur_size[f] = disk[f].len
    /\ \A k \in Keys : index_tree[k].fid = f =>
         /\ \E r \in disk[f].recs :
              /\ r.off = index_tree[k].offset
              /\ r.size = index_tree[k].size
              /\ r.key = k
         /\ \A r \in disk[f].recs : r.key = k => r.off <= index_tree[k].offset

(* The bytes two leaves lay claim to are never the same: the counter from  *)
(* which offsets are taken is advanced by whole records, written or not.   *)
LeavesDisjoint ==
  \A j, k \in Keys :
    LET a == index_tree[j]
        b == index_tree[k]
    IN  j # k /\ Live(j) /\ Live(k) /\ a.fid = b.fid =>
          a.offset + a.size <= b.offset \/ b.offset + b.size <= a.offset

(* Neither a failed or torn write nor a restart makes complete records of  *)
(* a file overlap.                                                         *)
RecordsDisjoint == \A f \in FileIds : Tiled(disk[f])
=============================================================================
