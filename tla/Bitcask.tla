------------------------------ MODULE Bitcask -------------------------------
(***************************************************************************)
(* The calls of src/src/bitcask.c: the catalogue of schemas (Context) and  *)
(* the data of each schema (DataFiles) together.  A put or a get looks its *)
(* schema up in the cache and goes on with the schema found; a create and  *)
(* an open allocate schemas, each with an empty index and one data file of *)
(* cur_size 0, over the files that earlier processes may have left.        *)
(*                                                                         *)
(* No name begins another and meta records are whole; Context covers the   *)
(* other cases.  A schema has no more files than its table has slots,      *)
(* Schema goes to the table's end; and writes do not fail, Context and     *)
(* SchemaFaults let them.                                                  *)
(***************************************************************************)
EXTENDS Context, DataFiles

CONSTANTS MaxLen  \* bound: no process writes to a file this long or longer

ASSUME NamesApart == \A n, p \in Names \cup {Meta} : IsPrefix(n, p) => n = p

ASSUME RecordsWhole == MaxTears = 0

ASSUME FilesBounded == MaxFiles <= MinLen /\ MaxLen \in Nat

VARIABLES
  data,        \* the data files of each schema, whether they exist or not
  cur_size,    \* data_file.cur_size of each that is open
  fid,         \* schema.fid
  index_tree,  \* schema.index_tree
  answer       \* what the last get answered: <<schema, key, value>>

memory == <<cur_size, fid, index_tree, answer>>

bitcask_vars == <<vars, data, memory>>

-----------------------------------------------------------------------------
NoKeys == [k \in Keys |-> NoLeaf]
NoSizes == [f \in FileIds |-> 0]

(* What is in memory is there as long as the process is. *)
Forgets ==
  /\ cur_size' = [n \in Names |-> NoSizes]
  /\ fid' = [n \in Names |-> 1]
  /\ index_tree' = [n \in Names |-> NoKeys]
  /\ answer' = <<>>

MemoryLasts == IF up /\ up' THEN UNCHANGED memory ELSE Forgets

(* context_put_schema allocates a schema of a name that it does not find. *)
bitcask_create_schema(n) ==
  /\ context_put_schema(n)
  /\ IF up' /\ ~Found(n)
     THEN /\ cur_size' = [cur_size EXCEPT ![n] = NoSizes]
          /\ fid' = [fid EXCEPT ![n] = 1]
          /\ index_tree' = [index_tree EXCEPT ![n] = NoKeys]
          /\ UNCHANGED answer
     ELSE MemoryLasts
  /\ UNCHANGED data

-----------------------------------------------------------------------------
(* schema_put_kv: a file is added when the last is full. *)
Full(s) == cur_size[s][fid[s] - 1] >= MaxDataFileSize

Rotate(s) ==
  IF Full(s) THEN fid[s] < MaxFiles /\ fid' = [fid EXCEPT ![s] = @ + 1]
             ELSE UNCHANGED fid

Sizes(s) == IF Full(s) THEN [cur_size EXCEPT ![s][fid[s]] = 0] ELSE cur_size

(* Mutant: the offset is taken after the record is counted. *)
PutAfter(s, k, v) ==
  /\ Rotate(s)
  /\ LET f    == fid'[s] - 1
         size == RecSize[k][v]
     IN  /\ data[s][f].len < MaxLen
         /\ data' = [data EXCEPT ![s][f] = Appended(@, k, v)]
         /\ cur_size' = [Sizes(s) EXCEPT ![s][f] = @ + size]
         /\ index_tree' = [index_tree EXCEPT ![s][k] =
              [fid |-> f, offset |-> cur_size'[s][f], size |-> size]]
  /\ UNCHANGED answer

PutStored(s, k, v) ==
  /\ Rotate(s)
  /\ LET f    == fid'[s] - 1
         size == RecSize[k][v]
     IN  /\ data[s][f].len < MaxLen
         /\ data' = [data EXCEPT ![s][f] = Appended(@, k, v)]
         /\ cur_size' = [Sizes(s) EXCEPT ![s][f] = @ + size]
         /\ index_tree' = [index_tree EXCEPT ![s][k] =
              [fid |-> f, offset |-> Sizes(s)[s][f], size |-> size]]
  /\ UNCHANGED answer

(* data_file_write refuses the record, after the file was added. *)
PutTooLarge(s) ==
  /\ Rotate(s)
  /\ cur_size' = Sizes(s)
  /\ UNCHANGED <<data, index_tree, answer>>

(* The schema that a lookup of n answers with. *)
SchemaOf(n) == hashmap_get(schema_cache, n)

bitcask_put(n, k, v) ==
  /\ context_get_schema(n)
  /\ IF ~Found(n) THEN MemoryLasts /\ UNCHANGED data
     ELSE IF Writable(k, v) THEN PutStored(SchemaOf(n), k, v)
     ELSE PutTooLarge(SchemaOf(n))

(* What schema_get_kv finds. *)
Value(s, k) ==
  LET leaf == index_tree[s][k]
  IN  IF leaf = NoLeaf THEN NotFound
      ELSE data_file_read(data[s][leaf.fid], leaf.offset, leaf.size)

(* The bytes found may be those of no record, and what is read as told by  *)
(* them may take the process down.                                         *)
bitcask_get(n, k) ==
  /\ UNCHANGED data
  /\ \/ /\ context_get_schema(n)
        /\ IF Found(n)
           THEN /\ answer' = <<n, k, Value(SchemaOf(n), k)>>
                /\ UNCHANGED <<cur_size, fid, index_tree>>
           ELSE MemoryLasts
     \/ Found(n) /\ TRUE \in Strays(Value(SchemaOf(n), k)) /\ Kill /\ MemoryLasts

-----------------------------------------------------------------------------
BitcaskInit ==
  /\ Init
  /\ data = [n \in Names |-> [f \in FileIds |-> EmptyFile]]
  /\ cur_size = [n \in Names |-> NoSizes]
  /\ fid = [n \in Names |-> 1]
  /\ index_tree = [n \in Names |-> NoKeys]
  /\ answer = <<>>

(* The calls that do not touch the data of a schema. *)
CatalogueStep ==
  \/ context_open
  \/ Kill
  \/ \E n \in Names : context_get_schema(n) \/ context_del_schema(n) \/ bitcask_del(n)

BitcaskNext ==
  \/ CatalogueStep /\ MemoryLasts /\ UNCHANGED data
  \/ \E n \in Names :
       \/ bitcask_create_schema(n)
       \/ \E k \in Keys : bitcask_get(n, k) \/ \E v \in Values : bitcask_put(n, k, v)

BitcaskSpec == BitcaskInit /\ [][BitcaskNext]_bitcask_vars

-----------------------------------------------------------------------------
(* Properties. *)

ValuesOf(recs) == {r.val : r \in recs}

PutIn(n) == UNION {ValuesOf(data[n][f].recs) : f \in FileIds}

(* A file that was empty when the process started is as long as cur_size   *)
(* says; one that was not is longer, and one not opened yet is all from    *)
(* before.                                                                 *)
OldRecords(n, f) ==
  {r \in data[n][f].recs : r.off + cur_size[n][f] < data[n][f].len}

PutBefore(n) == UNION {ValuesOf(OldRecords(n, f)) : f \in FileIds}

(* A key that this process put is bound to its value, unless the schema    *)
(* has data from before: its leaf may then name other bytes.               *)
Latest(n, k) ==
  IF index_tree[n][k] = NoLeaf THEN NotFound
  ELSE IF PutBefore(n) = {} THEN Value(n, k) ELSE <<>>

Eng == INSTANCE Engine WITH
  Fits    <- {p \in Keys \X Values : Writable(p[1], p[2])},
  None    <- NotFound,
  Unknown <- <<>>,
  created <- RecordedNames,
  past    <- [n \in Names |-> PutIn(n)],
  before  <- [n \in Names |-> PutBefore(n)],
  latest  <- [n \in Names |-> [k \in Keys |-> Latest(n, k)]]

(* Cache, meta file, schemas and data files together are an engine: the    *)
(* catalogue lasts, a schema new to this process is a dictionary, and no   *)
(* get ever answers with what was put to another schema.                   *)
ImplementsEngine == Eng!EngineSpec
=============================================================================
