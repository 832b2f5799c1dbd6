------------------------------ MODULE Context ------------------------------
(***************************************************************************)
(* The catalogue of schemas: the cache of open schemas, the meta schema    *)
(* whose data files record which schemas there are, and the calls of       *)
(* bitcask.c that go through them (src/src/context.c, bitcask.c,           *)
(* schema.c:121-189, array.c), by a process that is killed or crashes and  *)
(* is started again, on a disk that may fill up in the middle of a record. *)
(*                                                                         *)
(* A schema is its name.  bitcask_put and bitcask_get begin with the fetch *)
(* that is modelled here; module Bitcask adds what they do then.  Of the   *)
(* meta schema only data file 0 is ever read back.                         *)
(***************************************************************************)
EXTENDS Hashmap, Array

CONSTANTS
  Names,           \* the names callers use
  Meta,            \* sys_schema[SYS_SCHEMA_META_INDEX]
  NameSize,        \* MAX_SCHEMA_NAME_SIZE, 128
  Misnames,        \* what a reload may take for a name in misread records
  ArrayCount,      \* the capacity context_open asks its array for, 4
  MetaPerFile,     \* how many meta records fill a data file
  MetaRecordFits,  \* is a meta record smaller than max_kv_size?
  MaxRecords,      \* bound: how many meta records are written
  MaxTears         \* bound: how many of them are not written in full

ASSUME ContextAssumption ==
  /\ Names \cup {Meta} \subseteq MapKeys
  /\ Misnames \subseteq MapKeys \cup {<<>>}
  /\ Meta \notin Names
  /\ NameSize \in Nat
  /\ \A n \in Names \cup {Meta} : Len(n) \in 1 .. (NameSize - 1)
  /\ ArrayCount \in Nat \ {0}
  /\ MetaPerFile \in Nat \ {0}
  /\ MetaRecordFits \in BOOLEAN
  /\ MaxRecords \in Nat
  /\ MaxTears \in Nat

VARIABLES
  up,            \* is the process running?
  schema_cache,  \* context.schema_cache
  meta_records,  \* the records of the meta schema's data file 0
  meta_rest,     \* those of its other data files
  meta_written,  \* how many records this process has written to file 0
  tears,         \* how many records were not written in full
  reply          \* the last call and its result, or how it crashed

vars == <<up, schema_cache, meta_records, meta_rest, meta_written, tears, reply>>

disk == <<meta_records, meta_rest, tears>>

-----------------------------------------------------------------------------
(* A meta record as it is in the file: the name, and how many bytes of the *)
(* name's field were written, -1 if not even the fields before it were.    *)
schema_meta(n, kept) == [name |-> n, kept |-> kept]

Whole(n) == schema_meta(n, NameSize)

IsTorn(r) == r.kept < NameSize

(* What a write that fails or is short leaves of a record. *)
Remains(n) == {<<>>} \cup {<<schema_meta(n, k)>> : k \in -1 .. (Len(n) + 1)}

(* Mutants: the last record is not read; a file takes one record more. *)
LoadedButLast == {Front([i \in DOMAIN meta_records |-> meta_records[i].name])}

RecordedLate(n, written) ==
  IF ~MetaRecordFits THEN UNCHANGED <<meta_records, meta_rest, meta_written>>
  ELSE IF meta_written <= MetaPerFile
  THEN /\ meta_records' = meta_records \o written
       /\ meta_written' = meta_written + 1
       /\ UNCHANGED meta_rest
  ELSE meta_rest' = Append(meta_rest, n) /\ UNCHANGED <<meta_records, meta_written>>

-----------------------------------------------------------------------------
(* load_schema_meta_from_file reads blocks of the size of a record into    *)
(* one buffer.  Up to the first torn record that gives the names.          *)
FirstTorn == SelectInSeq(meta_records, IsTorn)

Untorn ==
  LET last == IF FirstTorn = 0 THEN Len(meta_records) ELSE FirstTorn - 1
  IN  [i \in 1 .. last |-> meta_records[i].name]

(* The name in the buffer when the file ends with the torn record r: the   *)
(* rest is still that of the block before.                                 *)
NameOver(r, previous) ==
  LET kept == IF r.kept < 0 THEN 0 ELSE r.kept
  IN  IF kept > Len(r.name) THEN r.name
      ELSE SubSeq(r.name, 1, kept) \o SubSeq(previous, kept + 1, Len(previous))

(* What is read there is a string like any other. *)
ASSUME NamesOver ==
  \A n \in Names, previous \in Names \cup {<<>>}, kept \in -1 .. NameSize :
    NameOver(schema_meta(n, kept), previous) \in MapKeys \cup {<<>>}

(* Records behind a torn one are read out of place: a block of them is     *)
(* skipped as not active, or taken for a schema of some name.              *)
Misread(blocks) == SeqOf(Misnames, blocks)

(* The names for which the callback may be called. *)
Loaded ==
  IF FirstTorn = 0 THEN {Untorn}
  ELSE LET r        == meta_records[FirstTorn]
           behind   == Len(meta_records) - FirstTorn
           previous == IF Untorn = <<>> THEN <<>> ELSE Last(Untorn)
           rest     == IF behind = 0
                       THEN IF r.kept < 0 /\ Untorn = <<>> THEN {<<>>}
                            ELSE {<<NameOver(r, previous)>>}
                       ELSE IF r.kept > Len(r.name)
                       THEN {<<r.name>> \o s : s \in Misread(behind)}
                       ELSE Misread(behind + 1)
       IN  {Untorn \o s : s \in rest}

-----------------------------------------------------------------------------
(* The process ends, and with it all that is in memory. *)
Ends(why) ==
  /\ up' = FALSE
  /\ schema_cache' = EmptyMap
  /\ meta_written' = 0
  /\ reply' = why

Replies(why) == reply' = why /\ UNCHANGED up

(* context_open, of an empty directory or of an existing one: the schemas  *)
(* are collected in an array, and nobody looks at whether it took them.    *)
(* The meta schema goes into the cache first, then they do.                *)
context_open ==
  /\ ~up
  /\ up' = TRUE
  /\ \E names \in Loaded :
       LET arr == FoldLeft(array_push_back, array_init(ArrayCount, TRUE), names)
       IN  schema_cache' =
             FoldLeft(LAMBDA m, i : LET s == array_value(arr, i, NotFound)
                                    IN  hashmap_put(m, s, s),
                      hashmap_put(EmptyMap, Meta, Meta),
                      [i \in 1 .. array_len(arr) |-> i - 1])
  /\ meta_written' = 0
  /\ reply' = <<>>
  /\ UNCHANGED disk

(* A misread record may name a directory that cannot be made, or tell of   *)
(* more data files than there is room for.                                 *)
CrashInOpen ==
  /\ ~up
  /\ FirstTorn \in 1 .. (Len(meta_records) - 1)
  /\ Ends(<<"crash", "open">>)
  /\ UNCHANGED disk

(* Any moment is one at which the process may be killed. *)
Kill == up /\ Ends(<<>>) /\ UNCHANGED disk

-----------------------------------------------------------------------------
Found(n) == hashmap_get(schema_cache, n) # NotFound

(* The schema in the cache that the name of the meta schema finds. *)
context_fetch_meta_schema(cache) == hashmap_get(cache, Meta)

(* schema_put_kv of a meta record into the meta schema, of which written   *)
(* is what gets into the file: cur_size counts it as if it all did.        *)
Recorded(n, written) ==
  IF ~MetaRecordFits THEN UNCHANGED <<meta_records, meta_rest, meta_written>>
  ELSE IF meta_written < MetaPerFile
  THEN /\ meta_records' = meta_records \o written
       /\ meta_written' = meta_written + 1
       /\ UNCHANGED meta_rest
  ELSE meta_rest' = Append(meta_rest, n) /\ UNCHANGED <<meta_records, meta_written>>

MayRecord == Len(meta_records) + Len(meta_rest) < MaxRecords

(* bitcask_create_schema.  A full cache refuses the schema and nobody      *)
(* notices; a meta schema that is not in the cache is dereferenced; a      *)
(* lookup that finds another schema for it has the record put there.  The  *)
(* answer is 0 also when the record is not written, or not all of it.      *)
context_put_schema(n) ==
  /\ up
  /\ \/ /\ Found(n)
        /\ Replies(<<"create", n, "-1">>)
        /\ UNCHANGED <<schema_cache, disk, meta_written>>
     \/ /\ ~Found(n)
        /\ MayRecord
        /\ LET cache == hashmap_put(schema_cache, n, n)
               meta  == context_fetch_meta_schema(cache)
           IN  IF meta = NotFound
               THEN Ends(<<"crash", "create", n>>) /\ UNCHANGED disk
               ELSE /\ schema_cache' = cache
                    /\ Replies(<<"create", n, "0">>)
                    /\ \/ /\ meta # Meta
                          /\ UNCHANGED <<disk, meta_written>>
                       \/ /\ meta = Meta
                          /\ Recorded(n, <<Whole(n)>>)
                          /\ UNCHANGED tears
                       \/ /\ meta = Meta
                          /\ tears < MaxTears
                          /\ \E written \in Remains(n) : Recorded(n, written)
                          /\ tears' = tears + 1

(* The process is killed when only a part of the record is in the file. *)
KilledInCreate(n) ==
  /\ up
  /\ ~Found(n)
  /\ MayRecord
  /\ context_fetch_meta_schema(hashmap_put(schema_cache, n, n)) = Meta
  /\ MetaRecordFits /\ meta_written < MetaPerFile
  /\ tears < MaxTears
  /\ \E written \in Remains(n) : meta_records' = meta_records \o written
  /\ tears' = tears + 1
  /\ Ends(<<>>)
  /\ UNCHANGED meta_rest

(* bitcask_fetch_schema, and with it bitcask_put and bitcask_get: what the *)
(* lookup answers is dereferenced.                                         *)
context_get_schema(n) ==
  /\ up
  /\ \/ /\ Found(n)
        /\ Replies(<<"fetch", n, hashmap_get(schema_cache, n)>>)
        /\ UNCHANGED <<schema_cache, disk, meta_written>>
     \/ /\ ~Found(n)
        /\ Ends(<<"crash", "fetch", n>>)
        /\ UNCHANGED disk

(* bitcask_drop_schema takes the schema out of the cache, looks for it     *)
(* there again, and dereferences the pointer to the cache's slot as if it  *)
(* were the schema.                                                        *)
context_del_schema(n) ==
  /\ up
  /\ LET cache == hashmap_del(schema_cache, n) IN
     IF hashmap_get(cache, Meta) = NotFound
     THEN /\ schema_cache' = cache
          /\ Replies(<<"drop", n, "0">>)
          /\ UNCHANGED <<disk, meta_written>>
     ELSE Ends(<<"crash", "drop", n>>) /\ UNCHANGED disk

(* bitcask_del hands the pointer to the cache's slot to schema_del_kv:     *)
(* what it reads there is not a schema, and either art_search finds no     *)
(* root in it or the process does not survive.                             *)
bitcask_del(n) ==
  /\ up
  /\ \/ /\ Replies(<<"del", n, "-1">>)
        /\ UNCHANGED <<schema_cache, disk, meta_written>>
     \/ Found(n) /\ Ends(<<"crash", "del", n>>) /\ UNCHANGED disk

-----------------------------------------------------------------------------
Init ==
  /\ up = FALSE
  /\ schema_cache = EmptyMap
  /\ meta_records = <<>>
  /\ meta_rest = <<>>
  /\ meta_written = 0
  /\ tears = 0
  /\ reply = <<>>

Next ==
  \/ context_open
  \/ CrashInOpen
  \/ Kill
  \/ \E n \in Names :
       \/ context_put_schema(n)
       \/ KilledInCreate(n)
       \/ context_get_schema(n)
       \/ context_del_schema(n)
       \/ bitcask_del(n)

Spec == Init /\ [][Next]_vars

-----------------------------------------------------------------------------
(* Properties. *)

Pairs == [key : MapKeys, val : MapKeys]

(* Every variable keeps its type, and file 0 of the meta schema is given   *)
(* no more records by one process than fill it.                            *)
TypeOK ==
  /\ up \in BOOLEAN
  /\ schema_cache.ptr \in [Buckets -> Seq(Pairs)]
  /\ schema_cache.cur_count \in 0 .. MaxCount
  /\ meta_records \in Seq([name : Names, kept : -1 .. NameSize])
  /\ meta_rest \in Seq(Names)
  /\ meta_written \in 0 .. MetaPerFile
  /\ tears \in 0 .. MaxTears

(* The count that decides whether the cache is full is the number of pairs *)
(* in its chains, whichever of them lookups can still reach.               *)
CacheCounted ==
  schema_cache.cur_count =
    FoldFunction(LAMBDA chain, n : Len(chain) + n, 0, schema_cache.ptr)

(* No schema is recorded twice, in whatever order processes come and go. *)
RecordedOnce ==
  \A i, j \in DOMAIN meta_records :
    meta_records[i].name = meta_records[j].name => i = j

(* How many schemas array and cache have room for, the meta schema's aside. *)
LoadRoom ==
  LET a == array_init(ArrayCount, TRUE)
  IN  IF a.max_count < MaxCount THEN a.max_count ELSE MaxCount - 1

Cached(n) == member_pair(n, n) \in ToSet(schema_cache.ptr[Bucket[n]])

(* An open has every schema in the cache that was recorded before the      *)
(* first torn record, as far as array and cache have room: what was torn,  *)
(* and whatever is misread behind it, takes no place of theirs.            *)
OpenRestores == [][~up /\ up' =>
  \A i \in DOMAIN Untorn : i <= LoadRoom => Cached(Untorn[i])']_vars

(* The schemas whose record is in the file, in full. *)
RecordedNames == {r.name : r \in {r \in ToSet(meta_records) : ~IsTorn(r)}}

Cat == INSTANCE Catalogue WITH created <- RecordedNames

(* What that promise takes: no name begins another, each record is written *)
(* in full, and all schemas fit into array, cache and one meta file.       *)
Roomy ==
  /\ \A n, p \in Names \cup {Meta} : IsPrefix(n, p) => n = p
  /\ MaxTears = 0
  /\ IsFiniteSet(Names)
  /\ Cardinality(Names) <= LoadRoom
  /\ MetaRecordFits /\ Cardinality(Names) <= MetaPerFile

(* The cache, the meta file and their reloading together are a catalogue, *)
(* when the names are apart and there is room for all of them.             *)
ImplementsCatalogue == Cat!Spec
=============================================================================
