----------------------------- MODULE BitcaskProofs ----------------------------
(***************************************************************************)
(* That Bitcask implements Engine: catalogue and data together, for every  *)
(* set of schemas, keys and values, all sizes of records, and any number   *)
(* of processes one after the other.                                       *)
(*                                                                         *)
(* The inductive invariant relates the files of a schema, their cur_size   *)
(* and its index: the bytes a file has more than cur_size says are those   *)
(* of earlier processes, and every leaf names bytes below cur_size.        *)
(***************************************************************************)
EXTENDS Bitcask, ContextProofs

-----------------------------------------------------------------------------
(* A file and what cur_size says of it.                                    *)
Older(file, size) == ValuesOf({r \in file.recs : r.off + size < file.len})

FileOK(file, size) ==
  /\ file \in data_file /\ size \in Nat
  /\ size <= file.len
  /\ \A r \in file.recs : r.off + r.size <= file.len
  /\ file.len > 0 => file.recs # {}
  /\ file.len > size => Older(file, size) # {}

(* A record is a record, and larger than nothing. *)
LEMMA RecordFacts ==
  ASSUME NEW file \in data_file
  PROVE  /\ file.len \in Nat
         /\ file.recs \subseteq kv_value
         /\ \A r \in file.recs : r.off \in Nat /\ r.size \in Nat /\ r.size > 0
BY DEF data_file, kv_value

(* Sizes are positive integers. *)
LEMMA SizeFacts ==
  \A k \in Keys, v \in Values : RecSize[k][v] \in Nat /\ RecSize[k][v] > 0
BY SizeAssumption

(* A process that ends leaves a file of which all is older. *)
LEMMA ForgetFile ==
  ASSUME NEW file, NEW size, FileOK(file, size)
  PROVE  FileOK(file, 0) /\ Older(file, 0) = ValuesOf(file.recs)
<1>1. /\ file \in data_file /\ file.len \in Nat
      /\ \A r \in file.recs : r.off + r.size <= file.len
      /\ \A r \in file.recs : r.off \in Nat /\ r.size \in Nat /\ r.size > 0
      /\ file.len > 0 => file.recs # {}
  BY RecordFacts DEF FileOK
<1>2. \A r \in file.recs : r.off + 0 < file.len
  BY <1>1
<1>3. {r \in file.recs : r.off + 0 < file.len} = file.recs
  BY <1>2
<1>4. Older(file, 0) = ValuesOf(file.recs)
  BY <1>3 DEF Older
<1>5. file.len > 0 => ValuesOf(file.recs) # {}
  BY <1>1 DEF ValuesOf
<1> QED
  BY <1>1, <1>4, <1>5 DEF FileOK

(* What a put adds. *)
NewRecord(file, k, v) == [off |-> file.len, size |-> RecSize[k][v], key |-> k, val |-> v]

(* What an append makes of a file: one record more, behind all others. *)
LEMMA PutRecord ==
  ASSUME NEW file, NEW size, FileOK(file, size), NEW k \in Keys, NEW v \in Values
  PROVE  /\ NewRecord(file, k, v) \in kv_value
         /\ Appended(file, k, v) \in data_file
         /\ Appended(file, k, v).len = file.len + RecSize[k][v]
         /\ Appended(file, k, v).recs = file.recs \cup {NewRecord(file, k, v)}
<1> DEFINE rec == NewRecord(file, k, v)
<1>1. file \in data_file /\ file.len \in Nat /\ file.recs \subseteq kv_value
  BY RecordFacts DEF FileOK
<1>2. RecSize[k][v] \in Nat /\ RecSize[k][v] > 0
  BY SizeFacts
<1>3. rec \in kv_value
  BY <1>1, <1>2 DEF kv_value, NewRecord
<1>4. Appended(file, k, v) = [len |-> file.len + RecSize[k][v], recs |-> file.recs \cup {rec}]
  BY DEF Appended, NewRecord
<1>5. file.len + RecSize[k][v] \in Nat
  BY <1>1, <1>2
<1> HIDE DEF rec
<1>6. file.recs \cup {rec} \in SUBSET kv_value
  BY <1>1, <1>3
<1> QED
  BY <1>3, <1>4, <1>5, <1>6 DEF data_file, rec

(* It is not older than the process, and nothing else becomes so. *)
LEMMA PutOlder ==
  ASSUME NEW file, NEW size, FileOK(file, size), NEW k \in Keys, NEW v \in Values
  PROVE  /\ Older(Appended(file, k, v), size + RecSize[k][v]) = Older(file, size)
         /\ ValuesOf(Appended(file, k, v).recs) = ValuesOf(file.recs) \cup {v}
<1> DEFINE rec == NewRecord(file, k, v)
           new == Appended(file, k, v)
           more == RecSize[k][v]
<1>1. new.len = file.len + more /\ new.recs = file.recs \cup {rec}
  BY PutRecord
<1>2. /\ file.len \in Nat /\ size \in Nat /\ more \in Nat
      /\ \A r \in file.recs : r.off \in Nat
  BY RecordFacts, SizeFacts DEF FileOK
<1>3. rec.off = file.len /\ rec.val = v
  BY DEF NewRecord
<1> HIDE DEF rec, new, more
<1>4. ~ (rec.off + (size + more) < new.len)
  BY <1>1, <1>2, <1>3
<1>5. \A r \in file.recs : r.off + (size + more) < new.len <=> r.off + size < file.len
  BY <1>1, <1>2
<1>6. {r \in new.recs : r.off + (size + more) < new.len} = {r \in file.recs : r.off + size < file.len}
  BY <1>1, <1>4, <1>5
<1>7. Older(new, size + more) = Older(file, size)
  BY <1>6 DEF Older
<1>8. ValuesOf(new.recs) = ValuesOf(file.recs) \cup {v}
  BY <1>1, <1>3 DEF ValuesOf
<1> QED
  BY <1>7, <1>8 DEF new, more

(* A put keeps a file in order. *)
LEMMA PutFileOK ==
  ASSUME NEW file, NEW size, FileOK(file, size), NEW k \in Keys, NEW v \in Values
  PROVE  FileOK(Appended(file, k, v), size + RecSize[k][v])
<1> DEFINE rec == NewRecord(file, k, v)
           new == Appended(file, k, v)
           more == RecSize[k][v]
<1>1. new.len = file.len + more /\ new.recs = file.recs \cup {rec} /\ new \in data_file
  BY PutRecord
<1>2. /\ file.len \in Nat /\ size \in Nat /\ more \in Nat /\ more > 0 /\ size <= file.len
      /\ \A r \in file.recs : r.off \in Nat /\ r.size \in Nat
      /\ \A r \in file.recs : r.off + r.size <= file.len
      /\ (file.len > size => Older(file, size) # {})
  BY RecordFacts, SizeFacts DEF FileOK
<1>3. rec.off = file.len /\ rec.size = more
  BY DEF NewRecord
<1>4. Older(new, size + more) = Older(file, size)
  BY PutOlder
<1> HIDE DEF rec, new, more
<1>5. \A r \in new.recs : r.off + r.size <= new.len
  BY <1>1, <1>2, <1>3
<1>6. size + more \in Nat /\ size + more <= new.len
      /\ (new.len > size + more => Older(new, size + more) # {})
  BY <1>1, <1>2, <1>4
<1>7. new.recs # {}
  BY <1>1
<1>8. FileOK(new, size + more)
  BY <1>1, <1>5, <1>6, <1>7 DEF FileOK
<1> QED
  BY <1>8 DEF new, more

(* A put is read back at cur_size when nothing is older than the process,  *)
(* and it changes nothing that is read below cur_size.                     *)
LEMMA PutRead ==
  ASSUME NEW file, NEW size, FileOK(file, size), NEW k \in Keys, NEW v \in Values
  PROVE  /\ Older(file, size) = {} =>
              data_file_read(Appended(file, k, v), size, RecSize[k][v]) = v
         /\ \A o, z \in Nat : z > 0 /\ o + z <= size =>
              data_file_read(Appended(file, k, v), o, z) = data_file_read(file, o, z)
<1> DEFINE rec == NewRecord(file, k, v)
           new == Appended(file, k, v)
           more == RecSize[k][v]
<1>1. new.recs = file.recs \cup {rec}
  BY PutRecord
<1>2. /\ file.len \in Nat /\ size \in Nat /\ more \in Nat /\ size <= file.len
      /\ \A r \in file.recs : r.off \in Nat /\ r.size \in Nat /\ r.size > 0
      /\ \A r \in file.recs : r.off + r.size <= file.len
      /\ (file.len > size => Older(file, size) # {})
  BY RecordFacts, SizeFacts DEF FileOK
<1>3. rec.off = file.len /\ rec.size = more /\ rec.val = v
  BY DEF NewRecord
<1> HIDE DEF rec, new, more
<1>4. ASSUME Older(file, size) = {} PROVE data_file_read(new, size, more) = v
  <2>1. size = file.len
    BY <1>2, <1>4
  <2>2. \A r \in file.recs : r.off # size
    BY <1>2, <2>1
  <2>3. {r \in new.recs : r.off = size /\ r.size <= more} = {rec}
    BY <1>1, <1>2, <1>3, <2>1, <2>2
  <2> QED
    BY <1>3, <2>3 DEF data_file_read
<1>5. ASSUME NEW o \in Nat, NEW z \in Nat, z > 0, o + z <= size
      PROVE  data_file_read(new, o, z) = data_file_read(file, o, z)
  <2>1. rec.off # o
    BY <1>2, <1>3, <1>5
  <2> DEFINE Hits(f) == {r \in f.recs : r.off = o /\ r.size <= z}
  <2>2. Hits(new) = Hits(file)
    BY <1>1, <2>1
  <2>3. \A f : data_file_read(f, o, z) = IF Hits(f) = {} THEN Garbage ELSE AnyOf(Hits(f)).val
    BY DEF data_file_read, AnyOf
  <2> HIDE DEF Hits
  <2> QED
    BY <2>2, <2>3
<1> QED
  BY <1>4, <1>5 DEF new, more

(* What is read is the value of a record of the file, or of none. *)
LEMMA ReadFacts ==
  ASSUME NEW file, NEW offset, NEW size
  PROVE  data_file_read(file, offset, size) \in ValuesOf(file.recs) \cup {Garbage}
BY DEF data_file_read, ValuesOf

-----------------------------------------------------------------------------
(* One schema: its files, how many of them this process has added, and its *)
(* index.                                                                  *)
Indexes == [Keys -> kv_index \cup {NoLeaf}]

SchemaOK(files, sizes, last, index) ==
  /\ files \in [FileIds -> data_file] /\ sizes \in [FileIds -> Nat]
  /\ last \in 1 .. MaxFiles /\ index \in Indexes
  /\ \A f \in FileIds : FileOK(files[f], sizes[f])
  /\ \A f \in FileIds : f >= last => sizes[f] = 0
  /\ \A k \in Keys : index[k] # NoLeaf =>
       index[k].offset + index[k].size <= sizes[index[k].fid]

ValuesIn(files) == UNION {ValuesOf(files[f].recs) : f \in FileIds}

OlderIn(files, sizes) == UNION {Older(files[f], sizes[f]) : f \in FileIds}

(* What a schema is when it was just allocated. *)
LEMMA NewFacts ==
  /\ NoKeys \in Indexes /\ \A k \in Keys : NoKeys[k] = NoLeaf
  /\ NoSizes \in [FileIds -> Nat] /\ \A f \in FileIds : NoSizes[f] = 0
  /\ 1 \in 1 .. MaxFiles
BY SizeAssumption DEF NoKeys, NoSizes, Indexes

(* A schema without data is in order. *)
LEMMA EmptySchemaOK ==
  ASSUME NEW files, files = [f \in FileIds |-> EmptyFile]
  PROVE  /\ SchemaOK(files, NoSizes, 1, NoKeys)
         /\ ValuesIn(files) = {} /\ OlderIn(files, NoSizes) = {}
<1>1. EmptyFile \in data_file /\ EmptyFile.len = 0 /\ EmptyFile.recs = {}
  BY DEF EmptyFile, data_file
<1>2. FileOK(EmptyFile, 0) /\ ValuesOf(EmptyFile.recs) = {} /\ Older(EmptyFile, 0) = {}
  BY <1>1 DEF FileOK, ValuesOf, Older
<1>3. \A f \in FileIds : files[f] = EmptyFile /\ NoSizes[f] = 0
  BY NewFacts
<1>4. SchemaOK(files, NoSizes, 1, NoKeys)
  BY <1>1, <1>2, <1>3, NewFacts DEF SchemaOK
<1> QED
  BY <1>2, <1>3, <1>4 DEF ValuesIn, OlderIn

(* A process that ends leaves a schema of which all is older. *)
LEMMA ForgetOK ==
  ASSUME NEW files, NEW sizes, NEW last, NEW index, SchemaOK(files, sizes, last, index)
  PROVE  SchemaOK(files, NoSizes, 1, NoKeys) /\ OlderIn(files, NoSizes) = ValuesIn(files)
<1>1. \A f \in FileIds : /\ FileOK(files[f], NoSizes[f])
                         /\ Older(files[f], NoSizes[f]) = ValuesOf(files[f].recs)
  BY ForgetFile, NewFacts DEF SchemaOK
<1>2. files \in [FileIds -> data_file]
  BY DEF SchemaOK
<1>3. SchemaOK(files, NoSizes, 1, NoKeys)
  BY <1>1, <1>2, NewFacts DEF SchemaOK
<1> QED
  BY <1>1, <1>3 DEF OlderIn, ValuesIn

(* A file added is not yet counted in cur_size, whatever it holds. *)
LEMMA RotateOK ==
  ASSUME NEW files, NEW sizes, NEW last, NEW index, SchemaOK(files, sizes, last, index),
         NEW next \in {last, last + 1}, next <= MaxFiles
  PROVE  SchemaOK(files, sizes, next, index) /\ next - 1 \in FileIds
<1>1. last \in Nat /\ last >= 1 /\ MaxFiles \in Nat
  BY SizeAssumption DEF SchemaOK
<1>2. next \in 1 .. MaxFiles /\ next - 1 \in FileIds /\ next >= last
  BY <1>1 DEF FileIds
<1>3. \A f \in FileIds : f >= next => f >= last
  BY <1>1, <1>2 DEF FileIds
<1> QED
  BY <1>2, <1>3 DEF SchemaOK

NewLeafOf(f, size, k, v) == [fid |-> f, offset |-> size, size |-> RecSize[k][v]]

(* A put keeps a schema in order: its leaf names the record just written. *)
LEMMA PutSchemaOK ==
  ASSUME NEW files, NEW sizes, NEW last, NEW index, SchemaOK(files, sizes, last, index),
         NEW f, f = last - 1, NEW k \in Keys, NEW v \in Values
  PROVE  /\ SchemaOK([files EXCEPT ![f] = Appended(files[f], k, v)],
                     [sizes EXCEPT ![f] = sizes[f] + RecSize[k][v]], last,
                     [index EXCEPT ![k] = NewLeafOf(f, sizes[f], k, v)])
         /\ NewLeafOf(f, sizes[f], k, v) # NoLeaf
<1> DEFINE new == Appended(files[f], k, v)
           more == RecSize[k][v]
           leaf == NewLeafOf(f, sizes[f], k, v)
           nfiles == [files EXCEPT ![f] = new]
           nsizes == [sizes EXCEPT ![f] = sizes[f] + more]
           nindex == [index EXCEPT ![k] = leaf]
<1>1. /\ f \in FileIds /\ last \in Nat /\ f \in Nat /\ f < last /\ last \in 1 .. MaxFiles
  BY SizeAssumption DEF SchemaOK, FileIds
<1>2. /\ files \in [FileIds -> data_file] /\ sizes \in [FileIds -> Nat] /\ index \in Indexes
      /\ \A g \in FileIds : FileOK(files[g], sizes[g])
      /\ \A g \in FileIds : g >= last => sizes[g] = 0
      /\ \A j \in Keys : index[j] # NoLeaf =>
           index[j].offset + index[j].size <= sizes[index[j].fid]
  BY DEF SchemaOK
<1>3. more \in Nat /\ more > 0 /\ sizes[f] \in Nat
  BY <1>1, <1>2, SizeFacts
<1>4. new \in data_file /\ FileOK(new, sizes[f] + more)
  BY <1>1, <1>2, PutRecord, PutFileOK
<1>5. leaf \in kv_index /\ leaf # NoLeaf /\ leaf.offset = sizes[f] /\ leaf.size = more
      /\ leaf.fid = f
  BY <1>1, <1>3 DEF NewLeafOf, kv_index, NoLeaf
<1> HIDE DEF new, leaf, more
<1>6. /\ nfiles[f] = new /\ \A g \in FileIds \ {f} : nfiles[g] = files[g]
      /\ nfiles \in [FileIds -> data_file]
  BY <1>1, <1>2, <1>4
<1>7. /\ nsizes[f] = sizes[f] + more /\ \A g \in FileIds \ {f} : nsizes[g] = sizes[g]
      /\ nsizes \in [FileIds -> Nat]
  BY <1>1, <1>2, <1>3
<1>8. nindex \in Indexes /\ nindex[k] = leaf /\ \A j \in Keys \ {k} : nindex[j] = index[j]
  BY <1>2, <1>5 DEF Indexes
<1> HIDE DEF nfiles, nsizes, nindex
<1>9. \A g \in FileIds : FileOK(nfiles[g], nsizes[g])
  BY <1>2, <1>4, <1>6, <1>7
<1>10. \A g \in FileIds : g >= last => nsizes[g] = 0
  BY <1>1, <1>2, <1>7 DEF FileIds
<1>11. ASSUME NEW j \in Keys, nindex[j] # NoLeaf
       PROVE  nindex[j].offset + nindex[j].size <= nsizes[nindex[j].fid]
  <2>1. CASE j = k
    BY <1>1, <1>3, <1>5, <1>7, <1>8, <2>1
  <2>2. CASE j # k
    <3>1. nindex[j] = index[j] /\ index[j] \in kv_index
      BY <1>2, <1>8, <1>11, <2>2 DEF Indexes
    <3> DEFINE g == index[j].fid
               end == index[j].offset + index[j].size
    <3>2. g \in FileIds /\ end \in Nat /\ end <= sizes[g]
      BY <1>2, <1>11, <3>1 DEF kv_index
    <3>3. nsizes[g] >= sizes[g] /\ nsizes[g] \in Nat /\ sizes[g] \in Nat
      BY <1>2, <1>3, <1>7, <3>2
    <3> QED
      BY <3>1, <3>2, <3>3
  <2> QED
    BY <2>1, <2>2
<1>12. SchemaOK(nfiles, nsizes, last, nindex)
  BY <1>1, <1>6, <1>7, <1>8, <1>9, <1>10, <1>11 DEF SchemaOK
<1> QED
  BY <1>5, <1>12 DEF nfiles, nsizes, nindex, new, more, leaf

(* It adds its value to those of the schema, and none to those that are    *)
(* older.                                                                  *)
LEMMA PutValues ==
  ASSUME NEW files, NEW sizes, NEW last, NEW index, SchemaOK(files, sizes, last, index),
         NEW f \in FileIds, NEW k \in Keys, NEW v \in Values
  PROVE  /\ ValuesIn([files EXCEPT ![f] = Appended(files[f], k, v)]) = ValuesIn(files) \cup {v}
         /\ OlderIn([files EXCEPT ![f] = Appended(files[f], k, v)],
                    [sizes EXCEPT ![f] = sizes[f] + RecSize[k][v]]) = OlderIn(files, sizes)
<1> DEFINE nfiles == [files EXCEPT ![f] = Appended(files[f], k, v)]
           nsizes == [sizes EXCEPT ![f] = sizes[f] + RecSize[k][v]]
<1>1. FileOK(files[f], sizes[f])
  BY DEF SchemaOK
<1>2. /\ nfiles[f] = Appended(files[f], k, v) /\ nsizes[f] = sizes[f] + RecSize[k][v]
      /\ \A g \in FileIds \ {f} : nfiles[g] = files[g] /\ nsizes[g] = sizes[g]
  BY DEF SchemaOK
<1>3. /\ Older(nfiles[f], nsizes[f]) = Older(files[f], sizes[f])
      /\ ValuesOf(nfiles[f].recs) = ValuesOf(files[f].recs) \cup {v}
  BY <1>1, <1>2, PutOlder
<1>4. \A g \in FileIds : Older(nfiles[g], nsizes[g]) = Older(files[g], sizes[g])
  BY <1>2, <1>3
<1>5. OlderIn(nfiles, nsizes) = OlderIn(files, sizes)
  BY <1>4 DEF OlderIn
<1> DEFINE Vals(g) == ValuesOf(files[g].recs)
           New(g) == ValuesOf(nfiles[g].recs)
<1>6. New(f) = Vals(f) \cup {v} /\ \A g \in FileIds \ {f} : New(g) = Vals(g)
  BY <1>2, <1>3
<1>7. ValuesIn(nfiles) = UNION {New(g) : g \in FileIds} /\ ValuesIn(files) = UNION {Vals(g) : g \in FileIds}
  BY DEF ValuesIn
<1> HIDE DEF Vals, New
<1>8. UNION {New(g) : g \in FileIds} = (UNION {Vals(g) : g \in FileIds}) \cup {v}
  BY <1>6
<1> QED
  BY <1>5, <1>7, <1>8

-----------------------------------------------------------------------------
(* The inductive invariant: a schema that is not recorded has nothing in   *)
(* memory.                                                                 *)
DataInv ==
  /\ data \in [Names -> [FileIds -> data_file]]
  /\ cur_size \in [Names -> [FileIds -> Nat]]
  /\ fid \in [Names -> 1 .. MaxFiles]
  /\ index_tree \in [Names -> Indexes]
  /\ \A n \in Names : SchemaOK(data[n], cur_size[n], fid[n], index_tree[n])
  /\ \A n \in Names : n \notin RecordedNames =>
       cur_size[n] = NoSizes /\ fid[n] = 1 /\ index_tree[n] = NoKeys

BInv == CatInv /\ DataInv

(* The variables of the engine. *)
latest == [n \in Names |-> [k \in Keys |-> Latest(n, k)]]
past == [n \in Names |-> PutIn(n)]
before == [n \in Names |-> PutBefore(n)]

(* What the refinement mapping gives the engine for a schema. *)
LEMMA MappedFacts ==
  ASSUME NEW n \in Names
  PROVE  /\ PutIn(n) = ValuesIn(data[n]) /\ PutBefore(n) = OlderIn(data[n], cur_size[n])
         /\ past[n] = ValuesIn(data[n]) /\ before[n] = OlderIn(data[n], cur_size[n])
         /\ \A k \in Keys : latest[n][k] = Latest(n, k)
<1>1. \A f \in FileIds : ValuesOf(OldRecords(n, f)) = Older(data[n][f], cur_size[n][f])
  BY DEF OldRecords, Older
<1>2. PutIn(n) = ValuesIn(data[n]) /\ PutBefore(n) = OlderIn(data[n], cur_size[n])
  BY <1>1 DEF PutIn, PutBefore, ValuesIn, OlderIn
<1> QED
  BY <1>2 DEF past, before, latest

(* And what it gives for it after a step. *)
LEMMA MappedNext ==
  ASSUME NEW n \in Names
  PROVE  PutIn(n)' = ValuesIn(data'[n]) /\ PutBefore(n)' = OlderIn(data'[n], cur_size'[n])
<1>1. \A f \in FileIds : ValuesOf(OldRecords(n, f)') = Older(data'[n][f], cur_size'[n][f])
  BY DEF OldRecords, Older
<1> QED
  BY <1>1 DEF PutIn, PutBefore, ValuesIn, OlderIn, OldRecords, Older, ValuesOf

(* The invariant holds of an empty database. *)
LEMMA BInvInit ==
  ASSUME BitcaskInit
  PROVE  BInv
<1>1. CatInv
  BY CatInvInit DEF BitcaskInit
<1> DEFINE files == [f \in FileIds |-> EmptyFile]
<1>2. SchemaOK(files, NoSizes, 1, NoKeys)
  BY EmptySchemaOK
<1>3. /\ data = [n \in Names |-> files] /\ cur_size = [n \in Names |-> NoSizes]
      /\ fid = [n \in Names |-> 1] /\ index_tree = [n \in Names |-> NoKeys]
  BY DEF BitcaskInit
<1>4. files \in [FileIds -> data_file]
  BY <1>2 DEF SchemaOK
<1> HIDE DEF files
<1> QED
  BY <1>1, <1>2, <1>3, <1>4, NewFacts DEF BInv, DataInv

(* An empty database is an empty engine. *)
LEMMA InitIsEngine ==
  ASSUME BitcaskInit
  PROVE  Eng!EngineInit
<1>1. Eng!Init
  <2>1. RecordedNames = {}
    BY DEF BitcaskInit, Init, RecordedNames, ToSet
  <2> QED
    BY <2>1 DEF BitcaskInit, Init, Eng!Init
<1>2. \A n \in Names : /\ data[n] = [f \in FileIds |-> EmptyFile]
                       /\ cur_size[n] = NoSizes /\ index_tree[n] = NoKeys
  BY DEF BitcaskInit
<1>3. latest = [n \in Names |-> [k \in Keys |-> NotFound]]
  <2>1. \A n \in Names, k \in Keys : Latest(n, k) = NotFound
    BY <1>2, NewFacts DEF Latest
  <2> QED
    BY <2>1 DEF latest
<1>4. past = [n \in Names |-> {}] /\ before = past
  <2>1. \A n \in Names : PutIn(n) = {} /\ PutBefore(n) = {}
    BY <1>2, EmptySchemaOK, MappedFacts
  <2> QED
    BY <2>1 DEF past, before
<1>5. answer = <<>>
  BY DEF BitcaskInit
<1> QED
  BY <1>1, <1>3, <1>4, <1>5 DEF Eng!EngineInit, latest, past, before

(* When the process ends, or another starts. *)
LEMMA ForgetStep ==
  ASSUME DataInv, Forgets, data' = data, RecordedNames' = RecordedNames
  PROVE  DataInv' /\ Eng!Forget
<1>1. /\ cur_size' \in [Names -> [FileIds -> Nat]] /\ index_tree' \in [Names -> Indexes]
      /\ fid' \in [Names -> 1 .. MaxFiles]
      /\ \A n \in Names : /\ cur_size'[n] = NoSizes /\ fid'[n] = 1
                          /\ index_tree'[n] = NoKeys
  BY NewFacts DEF Forgets
<1>2. \A n \in Names : /\ SchemaOK(data[n], NoSizes, 1, NoKeys)
                       /\ OlderIn(data[n], NoSizes) = ValuesIn(data[n])
  BY ForgetOK DEF DataInv
<1>3. DataInv'
  BY <1>1, <1>2 DEF DataInv
<1>4. past' = past
  BY DEF past, PutIn
<1>5. before' = past
  <2>1. \A n \in Names : PutBefore(n)' = PutIn(n)
    BY <1>1, <1>2, MappedFacts, MappedNext
  <2> QED
    BY <2>1 DEF before, past
<1>6. latest' = [n \in Names |-> [k \in Keys |-> NotFound]]
  <2>1. \A n \in Names, k \in Keys : Latest(n, k)' = NotFound
    BY <1>1, NewFacts DEF Latest
  <2> QED
    BY <2>1 DEF latest
<1>7. answer' = <<>>
  BY DEF Forgets
<1> QED
  BY <1>3, <1>4, <1>5, <1>6, <1>7 DEF Eng!Forget, latest, before, past

(* While the data is left alone. *)
LEMMA KeepStep ==
  ASSUME DataInv, UNCHANGED <<data, cur_size, fid, index_tree>>,
         RecordedNames \subseteq RecordedNames'
  PROVE  DataInv' /\ UNCHANGED Eng!data
<1>1. DataInv'
  BY DEF DataInv
<1>2. latest' = latest /\ past' = past /\ before' = before
  BY DEF latest, past, before, Latest, PutIn, PutBefore, OldRecords, Value
<1> QED
  BY <1>1, <1>2 DEF Eng!data, latest, past, before

(* Before a put is stored or refused, the schema has the file it goes to,  *)
(* and that file is as cur_size says.                                      *)
LEMMA RotateStep ==
  ASSUME DataInv, NEW n \in Names, Rotate(n)
  PROVE  /\ Sizes(n) = cur_size
         /\ fid' = [fid EXCEPT ![n] = fid'[n]] /\ fid'[n] \in {fid[n], fid[n] + 1}
         /\ SchemaOK(data[n], cur_size[n], fid'[n], index_tree[n])
         /\ fid'[n] - 1 \in FileIds
<1>1. /\ SchemaOK(data[n], cur_size[n], fid[n], index_tree[n])
      /\ fid \in [Names -> 1 .. MaxFiles] /\ cur_size \in [Names -> [FileIds -> Nat]]
      /\ MaxFiles \in Nat
  BY SizeAssumption DEF DataInv
<1>2. CASE Full(n)
  <2>1. fid[n] < MaxFiles /\ fid' = [fid EXCEPT ![n] = fid[n] + 1] /\ fid'[n] = fid[n] + 1
    BY <1>1, <1>2 DEF Rotate
  <2>2. fid[n] \in FileIds /\ cur_size[n][fid[n]] = 0
    BY <1>1, <2>1 DEF FileIds, SchemaOK
  <2>3. Sizes(n) = cur_size
    <3>1. Sizes(n) = [cur_size EXCEPT ![n] = [cur_size[n] EXCEPT ![fid[n]] = 0]]
      BY <1>2 DEF Sizes
    <3>2. [cur_size[n] EXCEPT ![fid[n]] = 0] = cur_size[n]
      BY <1>1, <2>2
    <3> QED
      BY <1>1, <3>1, <3>2
  <2> QED
    BY <1>1, <2>1, <2>3, RotateOK
<1>3. CASE ~ Full(n)
  <2>1. fid' = fid /\ Sizes(n) = cur_size /\ fid[n] <= MaxFiles
    BY <1>1, <1>3 DEF Rotate, Sizes
  <2> QED
    BY <1>1, <2>1, RotateOK
<1> QED
  BY <1>2, <1>3

(* A put that is refused leaves what the schema has. *)
LEMMA RefusedStep ==
  ASSUME DataInv, NEW n \in Names, PutTooLarge(n), n \in RecordedNames,
         RecordedNames' = RecordedNames
  PROVE  DataInv' /\ UNCHANGED Eng!data
<1>1. /\ UNCHANGED <<data, cur_size, index_tree>> /\ fid' = [fid EXCEPT ![n] = fid'[n]]
      /\ SchemaOK(data[n], cur_size[n], fid'[n], index_tree[n])
  BY RotateStep DEF PutTooLarge
<1>2. fid'[n] \in 1 .. MaxFiles
  BY <1>1 DEF SchemaOK
<1>3. fid' \in [Names -> 1 .. MaxFiles] /\ \A m \in Names \ {n} : fid'[m] = fid[m]
  BY <1>1, <1>2 DEF DataInv
<1>4. \A m \in Names : SchemaOK(data[m], cur_size[m], fid'[m], index_tree[m])
  BY <1>1, <1>3 DEF DataInv
<1>5. DataInv'
  BY <1>1, <1>3, <1>4 DEF DataInv
<1>6. latest' = latest /\ past' = past /\ before' = before
  BY <1>1 DEF latest, past, before, Latest, PutIn, PutBefore, OldRecords, Value
<1> QED
  BY <1>5, <1>6 DEF Eng!data, latest, past, before

(* A put that is stored changes one schema: what it has for the key, and   *)
(* the values ever put to it.                                              *)
LEMMA StoredStep ==
  ASSUME DataInv, NEW n \in Names, NEW k \in Keys, NEW v \in Values,
         PutStored(n, k, v), n \in RecordedNames, RecordedNames' = RecordedNames
  PROVE  /\ DataInv'
         /\ latest' = [latest EXCEPT ![n][k] = IF before[n] = {} THEN v ELSE <<>>]
         /\ past' = [past EXCEPT ![n] = past[n] \cup {v}]
         /\ before' = before
<1> DEFINE files == data[n]
           sizes == cur_size[n]
           last == fid'[n]
           f == last - 1
           index == index_tree[n]
           leaf == NewLeafOf(f, sizes[f], k, v)
<1>0. Rotate(n)
  BY DEF PutStored
<1>1. /\ SchemaOK(files, sizes, last, index) /\ f \in FileIds /\ Sizes(n) = cur_size
      /\ fid' = [fid EXCEPT ![n] = last] /\ index \in [Keys -> kv_index \cup {NoLeaf}]
      /\ files \in [FileIds -> data_file] /\ sizes \in [FileIds -> Nat]
  BY <1>0, RotateStep DEF DataInv, Indexes
<1>2. /\ data' = [data EXCEPT ![n] = [files EXCEPT ![f] = Appended(files[f], k, v)]]
      /\ cur_size' = [cur_size EXCEPT ![n] = [sizes EXCEPT ![f] = sizes[f] + RecSize[k][v]]]
      /\ index_tree' = [index_tree EXCEPT ![n] = [index EXCEPT ![k] = leaf]]
  BY <1>1 DEF PutStored, NewLeafOf
<1>3. /\ data'[n] = [files EXCEPT ![f] = Appended(files[f], k, v)]
      /\ cur_size'[n] = [sizes EXCEPT ![f] = sizes[f] + RecSize[k][v]]
      /\ index_tree'[n] = [index EXCEPT ![k] = leaf]
      /\ \A m \in Names \ {n} : /\ data'[m] = data[m] /\ cur_size'[m] = cur_size[m]
                                /\ index_tree'[m] = index_tree[m] /\ fid'[m] = fid[m]
      /\ DOMAIN data' = Names /\ DOMAIN cur_size' = Names /\ DOMAIN index_tree' = Names
  BY <1>1, <1>2 DEF DataInv
<1>4. /\ index_tree'[n][k] = leaf
      /\ \A j \in Keys \ {k} : index_tree'[n][j] = index[j]
  BY <1>1, <1>3
<1>5. /\ data'[n][f] = Appended(files[f], k, v)
       /\ \A g \in FileIds \ {f} : data'[n][g] = files[g]
  BY <1>1, <1>3
<1> HIDE DEF files, sizes, last, f, index, leaf
<1>6. SchemaOK(data'[n], cur_size'[n], last, index_tree'[n]) /\ leaf # NoLeaf
  <2>1. f = last - 1
    BY DEF f
  <2>2. SchemaOK(files, sizes, last, index)
    BY <1>1
  <2>3. /\ SchemaOK([files EXCEPT ![f] = Appended(files[f], k, v)],
                    [sizes EXCEPT ![f] = sizes[f] + RecSize[k][v]], last,
                    [index EXCEPT ![k] = NewLeafOf(f, sizes[f], k, v)])
        /\ NewLeafOf(f, sizes[f], k, v) # NoLeaf
    BY <2>1, <2>2, PutSchemaOK, Zenon
  <2> QED
    BY <1>3, <2>3 DEF leaf
<1>7. /\ OlderIn(data'[n], cur_size'[n]) = OlderIn(files, sizes)
      /\ ValuesIn(data'[n]) = ValuesIn(files) \cup {v}
  <2>1. SchemaOK(files, sizes, last, index) /\ f \in FileIds
    BY <1>1
  <2>2. /\ ValuesIn([files EXCEPT ![f] = Appended(files[f], k, v)]) = ValuesIn(files) \cup {v}
        /\ OlderIn([files EXCEPT ![f] = Appended(files[f], k, v)],
                   [sizes EXCEPT ![f] = sizes[f] + RecSize[k][v]]) = OlderIn(files, sizes)
    BY <2>1, PutValues
  <2> QED
    BY <1>3, <2>2
<1>8. DataInv'
  <2>1. \A m \in Names : SchemaOK(data'[m], cur_size'[m], fid'[m], index_tree'[m])
    BY <1>3, <1>6 DEF DataInv, last
  <2>2. /\ data' \in [Names -> [FileIds -> data_file]] /\ cur_size' \in [Names -> [FileIds -> Nat]]
        /\ fid' \in [Names -> 1 .. MaxFiles] /\ index_tree' \in [Names -> Indexes]
    <3>1. \A m \in Names :
            /\ data'[m] \in [FileIds -> data_file] /\ cur_size'[m] \in [FileIds -> Nat]
            /\ fid'[m] \in 1 .. MaxFiles /\ index_tree'[m] \in Indexes
      BY <2>1 DEF SchemaOK
    <3>2. /\ data' = [m \in Names |-> data'[m]] /\ cur_size' = [m \in Names |-> cur_size'[m]]
          /\ fid' = [m \in Names |-> fid'[m]] /\ index_tree' = [m \in Names |-> index_tree'[m]]
      BY <1>1, <1>2 DEF DataInv
    <3> QED
      BY <3>1, <3>2
  <2>3. \A m \in Names : m \notin RecordedNames' =>
          cur_size'[m] = NoSizes /\ fid'[m] = 1 /\ index_tree'[m] = NoKeys
    BY <1>3 DEF DataInv
  <2> QED
    BY <2>1, <2>2, <2>3 DEF DataInv
<1>9. past' = [past EXCEPT ![n] = past[n] \cup {v}]
  <2>1. \A m \in Names : PutIn(m)' = IF m = n THEN PutIn(n) \cup {v} ELSE PutIn(m)
    BY <1>3, <1>7, MappedFacts, MappedNext DEF files
  <2> QED
    BY <2>1 DEF past
<1>10. \A m \in Names : PutBefore(m)' = PutBefore(m)
  BY <1>3, <1>7, MappedFacts, MappedNext DEF files, sizes
<1>11. before' = before
  BY <1>10 DEF before
<1>12. FileOK(files[f], sizes[f])
  BY <1>1 DEF SchemaOK
<1>13. Latest(n, k)' = IF PutBefore(n) = {} THEN v ELSE <<>>
  <2>1. /\ index_tree'[n][k] # NoLeaf /\ index_tree'[n][k].offset = sizes[f]
        /\ index_tree'[n][k].size = RecSize[k][v] /\ index_tree'[n][k].fid = f
    BY <1>4, <1>6 DEF leaf, NewLeafOf
  <2>2. ASSUME PutBefore(n) = {}
        PROVE  data_file_read(Appended(files[f], k, v), sizes[f], RecSize[k][v]) = v
    <3>1. OlderIn(files, sizes) = {}
      BY <2>2, MappedFacts DEF files, sizes
    <3>2. Older(files[f], sizes[f]) = {}
      BY <1>1, <3>1 DEF OlderIn
    <3> QED
      BY <1>12, <3>2, PutRead
  <2>3. PutBefore(n) = {} => Value(n, k)' = v
    BY <1>5, <2>1, <2>2 DEF Value
  <2> QED
    BY <1>10, <2>1, <2>3 DEF Latest
<1>14. ASSUME NEW j \in Keys \ {k} PROVE Latest(n, j)' = Latest(n, j)
  <2>1. CASE index[j] = NoLeaf
    BY <1>4, <2>1 DEF Latest, index
  <2>2. CASE index[j] # NoLeaf
    <3> DEFINE g == index[j].fid
               o == index[j].offset
               z == index[j].size
    <3>1. g \in FileIds /\ o \in Nat /\ z \in Nat /\ z > 0 /\ o + z <= sizes[g]
      BY <1>1, <2>2 DEF SchemaOK, kv_index
    <3>2. data_file_read(data'[n][g], o, z) = data_file_read(files[g], o, z)
      <4>1. CASE g = f
        BY <1>5, <1>12, <3>1, <4>1, PutRead
      <4>2. CASE g # f
        BY <1>5, <3>1, <4>2
      <4> QED
        BY <4>1, <4>2
    <3>3. Value(n, j)' = Value(n, j)
      BY <1>4, <2>2, <3>2 DEF Value, files, index
    <3> QED
      BY <1>4, <1>10, <2>2, <3>3 DEF Latest, index
  <2> QED
    BY <2>1, <2>2
<1>15. ASSUME NEW m \in Names \ {n}, NEW j \in Keys PROVE Latest(m, j)' = Latest(m, j)
  BY <1>3, <1>10 DEF Latest, Value
<1>16. latest' = [latest EXCEPT ![n][k] = IF before[n] = {} THEN v ELSE <<>>]
  <2> DEFINE entry == IF before[n] = {} THEN v ELSE <<>>
             now == [latest EXCEPT ![n][k] = entry]
             own == [latest[n] EXCEPT ![k] = entry]
  <2>1. before[n] = PutBefore(n)
    BY DEF before
  <2>2. ASSUME NEW m \in Names \ {n} PROVE now[m] = [j \in Keys |-> Latest(m, j)']
    <3>1. now[m] = [j \in Keys |-> Latest(m, j)]
      BY DEF latest
    <3> QED
      BY <1>15, <3>1
  <2>3. now[n] = [j \in Keys |-> Latest(n, j)']
    <3>1. now[n] = own /\ latest[n] = [j \in Keys |-> Latest(n, j)]
      BY DEF latest
    <3>2. own = [j \in Keys |-> IF j = k THEN entry ELSE Latest(n, j)]
      BY <3>1
    <3>3. \A j \in Keys : Latest(n, j)' = IF j = k THEN entry ELSE Latest(n, j)
      BY <1>13, <1>14, <2>1
    <3> QED
      BY <3>1, <3>2, <3>3
  <2>4. now = [m \in Names |-> now[m]]
    BY DEF latest
  <2>5. latest' = [m \in Names |-> [j \in Keys |-> Latest(m, j)']]
    BY DEF latest
  <2> HIDE DEF now
  <2>6. \A m \in Names : now[m] = [j \in Keys |-> Latest(m, j)']
    BY <2>2, <2>3
  <2> QED
    BY <2>4, <2>5, <2>6 DEF now
<1> QED
  BY <1>8, <1>9, <1>11, <1>16

(* What a get finds is what the engine may answer. *)
LEMMA GetAnswer ==
  ASSUME DataInv, NEW n \in Names, NEW k \in Keys
  PROVE  \/ latest[n][k] # <<>> /\ Value(n, k) = latest[n][k]
         \/ latest[n][k] = <<>> /\ Value(n, k) \in past[n] \cup {Garbage}
<1>1. latest[n][k] = Latest(n, k) /\ past[n] = ValuesIn(data[n])
  BY MappedFacts
<1>2. CASE index_tree[n][k] = NoLeaf
  BY <1>1, <1>2, HashAssumption DEF Latest, Value
<1>3. CASE index_tree[n][k] # NoLeaf
  <2> DEFINE leaf == index_tree[n][k]
  <2>1. leaf.fid \in FileIds
    BY <1>3 DEF DataInv, Indexes, kv_index
  <2>2. Value(n, k) \in ValuesOf(data[n][leaf.fid].recs) \cup {Garbage}
    BY <1>3, ReadFacts DEF Value
  <2>3. Value(n, k) \in past[n] \cup {Garbage}
    BY <1>1, <2>1, <2>2 DEF ValuesIn
  <2>4. Latest(n, k) = Value(n, k) \/ Latest(n, k) = <<>>
    BY <1>3 DEF Latest
  <2> QED
    BY <1>1, <2>3, <2>4
<1> QED
  BY <1>2, <1>3

-----------------------------------------------------------------------------
(* Each step of the engine's own.                                          *)
LEMMA BitcaskIsContext ==
  BitcaskNext => Next
BY DEF BitcaskNext, CatalogueStep, bitcask_create_schema, bitcask_get, bitcask_put, Next

(* An open and a kill forget what was in memory, as Open and Killed do. *)
LEMMA OpenOrKill ==
  ASSUME Roomy, BInv, CInv', context_open \/ Kill, MemoryLasts, UNCHANGED data
  PROVE  BInv' /\ Eng!EngineNext
<1>1. Forgets
  BY DEF context_open, Kill, Ends, MemoryLasts
<1>2. CASE context_open
  <2>1. CatInv' /\ Cat!Open
    BY <1>2, OpenStep DEF BInv
  <2>2. RecordedNames' = RecordedNames /\ Eng!Open
    BY <2>1 DEF Cat!Open, Eng!Open
  <2>3. DataInv' /\ Eng!Forget
    BY <1>1, <2>2, ForgetStep DEF BInv
  <2> QED
    BY <2>1, <2>2, <2>3 DEF BInv, Eng!EngineNext
<1>3. CASE Kill
  <2>1. CatInv' /\ Cat!Killed
    BY <1>3, KillStep DEF BInv
  <2>2. RecordedNames' = RecordedNames /\ Eng!Killed
    BY <2>1 DEF Cat!Killed, Eng!Killed
  <2>3. DataInv' /\ Eng!Forget
    BY <1>1, <2>2, ForgetStep DEF BInv
  <2> QED
    BY <2>1, <2>2, <2>3 DEF BInv, Eng!EngineNext
<1> QED
  BY <1>2, <1>3

(* A fetch that finds no schema ends the process. *)
LEMMA MissingStep ==
  ASSUME Roomy, BInv, CInv', NEW n \in Names, context_get_schema(n), ~ Found(n),
         MemoryLasts, UNCHANGED data
  PROVE  BInv' /\ Eng!EngineNext
<1>1. CatInv' /\ Cat!FetchMissing(n) /\ up' = FALSE
  BY FetchStep DEF BInv
<1>2. RecordedNames' = RecordedNames /\ Eng!FetchMissing(n)
  BY <1>1 DEF Cat!FetchMissing, Eng!FetchMissing, Cat!Crashes, Eng!Crashes
<1>3. Forgets
  BY <1>1 DEF MemoryLasts
<1>4. DataInv' /\ Eng!Forget
  BY <1>2, <1>3, ForgetStep DEF BInv
<1> QED
  BY <1>1, <1>2, <1>4 DEF BInv, Eng!EngineNext

(* One that finds it leaves the process as it was. *)
LEMMA FoundStep ==
  ASSUME Roomy, BInv, CInv', NEW n \in Names, context_get_schema(n), Found(n)
  PROVE  /\ CatInv' /\ RecordedNames' = RecordedNames /\ n \in RecordedNames
         /\ up /\ up' /\ Eng!Fetch(n) /\ SchemaOf(n) = n
<1>1. CatInv' /\ Cat!Fetch(n) /\ up /\ up' = up
  BY FetchStep DEF BInv
<1>2. SchemaOf(n) = n
  BY <1>1, FoundFacts DEF BInv, SchemaOf
<1> QED
  BY <1>1, <1>2 DEF Cat!Fetch, Eng!Fetch

(* A fetch leaves all data as it is, or ends the process. *)
LEMMA FetchOnly ==
  ASSUME Roomy, BInv, CInv', NEW n \in Names, context_get_schema(n), MemoryLasts,
         UNCHANGED data
  PROVE  BInv' /\ Eng!EngineNext
<1>1. CASE ~ Found(n)
  BY <1>1, MissingStep
<1>2. CASE Found(n)
  <2>1. CatInv' /\ RecordedNames' = RecordedNames /\ up /\ up' /\ Eng!Fetch(n)
    BY <1>2, FoundStep
  <2>2. UNCHANGED memory
    BY <2>1 DEF MemoryLasts
  <2>3. UNCHANGED <<data, cur_size, fid, index_tree>> /\ answer' = answer
    BY <2>2 DEF memory
  <2>4. DataInv' /\ UNCHANGED Eng!data
    BY <2>1, <2>3, KeepStep DEF BInv
  <2> QED
    BY <2>1, <2>3, <2>4 DEF BInv, Eng!EngineNext
<1> QED
  BY <1>1, <1>2

(* A drop ends the process. *)
LEMMA DropForgets ==
  ASSUME Roomy, BInv, CInv', NEW n \in Names, context_del_schema(n), MemoryLasts,
         UNCHANGED data
  PROVE  BInv' /\ Eng!EngineNext
<1>1. CatInv' /\ Cat!Drop(n) /\ up' = FALSE
  BY DropStep DEF BInv
<1>2. RecordedNames' = RecordedNames /\ Eng!Drop(n)
  BY <1>1 DEF Cat!Drop, Eng!Drop, Cat!Crashes, Eng!Crashes
<1>3. Forgets
  BY <1>1 DEF MemoryLasts
<1>4. DataInv' /\ Eng!Forget
  BY <1>2, <1>3, ForgetStep DEF BInv
<1> QED
  BY <1>1, <1>2, <1>4 DEF BInv, Eng!EngineNext

(* A del answers that there is nothing, or ends the process. *)
LEMMA DelKeyEither ==
  ASSUME Roomy, BInv, CInv', NEW n \in Names, bitcask_del(n), MemoryLasts, UNCHANGED data
  PROVE  BInv' /\ Eng!EngineNext
<1>1. CatInv' /\ Cat!DelKey(n) /\ up
  BY DelKeyStep DEF BInv, bitcask_del
<1>2. RecordedNames' = RecordedNames /\ Eng!DelKey(n)
  BY <1>1 DEF Cat!DelKey, Eng!DelKey, Cat!Crashes, Eng!Crashes
<1>3. CASE up'
  <2>1. UNCHANGED <<data, cur_size, fid, index_tree>> /\ answer' = answer
    BY <1>1, <1>3 DEF MemoryLasts, memory
  <2>2. DataInv' /\ UNCHANGED Eng!data
    BY <1>2, <2>1, KeepStep DEF BInv
  <2> QED
    BY <1>1, <1>2, <1>3, <2>1, <2>2 DEF BInv, Eng!EngineNext
<1>4. CASE ~ up'
  <2>1. Forgets
    BY <1>4 DEF MemoryLasts
  <2>2. DataInv' /\ Eng!Forget
    BY <1>2, <2>1, ForgetStep DEF BInv
  <2> QED
    BY <1>1, <1>2, <1>4, <2>2 DEF BInv, Eng!EngineNext
<1> QED
  BY <1>3, <1>4

(* A create leaves the data of every schema alone: a schema that is not    *)
(* recorded has none in memory to lose.                                    *)
LEMMA CreateStep ==
  ASSUME Roomy, BInv, CInv', NEW n \in Names, bitcask_create_schema(n)
  PROVE  BInv' /\ Eng!EngineNext
<1>1. CatInv' /\ up' /\ Cat!Create(n)
  BY PutStep DEF BInv, bitcask_create_schema
<1>2. RecordedNames' = RecordedNames \cup {n} /\ up /\ Eng!Create(n)
  BY <1>1 DEF Cat!Create, Eng!Create
<1>3. UNCHANGED <<data, cur_size, fid, index_tree>> /\ answer' = answer
  <2>1. CASE Found(n)
    BY <1>1, <1>2, <2>1 DEF bitcask_create_schema, MemoryLasts, memory
  <2>2. CASE ~ Found(n)
    <3>1. n \notin RecordedNames
      BY <1>2, <2>2, FoundFacts DEF BInv
    <3>2. /\ cur_size[n] = NoSizes /\ fid[n] = 1 /\ index_tree[n] = NoKeys
          /\ cur_size \in [Names -> [FileIds -> Nat]] /\ index_tree \in [Names -> Indexes]
          /\ fid \in [Names -> 1 .. MaxFiles]
      BY <3>1 DEF BInv, DataInv
    <3>3. /\ cur_size' = [cur_size EXCEPT ![n] = NoSizes]
          /\ fid' = [fid EXCEPT ![n] = 1]
          /\ index_tree' = [index_tree EXCEPT ![n] = NoKeys]
          /\ answer' = answer /\ data' = data
      BY <1>1, <2>2 DEF bitcask_create_schema
    <3> HIDE DEF NoKeys, NoSizes
    <3>4. fid' = fid
      BY <3>2, <3>3
    <3>5. cur_size' = cur_size
      BY <3>2, <3>3
    <3>6. index_tree' = index_tree
      BY <3>2, <3>3
    <3> QED
      BY <3>3, <3>5, <3>6, <3>4
  <2> QED
    BY <2>1, <2>2
<1>4. DataInv' /\ UNCHANGED Eng!data
  BY <1>2, <1>3, KeepStep DEF BInv
<1> QED
  BY <1>1, <1>2, <1>3, <1>4 DEF BInv, Eng!EngineNext

(* bitcask_get answers what Engine allows for the schema it found, or ends *)
(* the process.                                                            *)
LEMMA BGetStep ==
  ASSUME Roomy, BInv, CInv', NEW n \in Names, NEW k \in Keys, bitcask_get(n, k)
  PROVE  BInv' /\ Eng!EngineNext
<1>1. data' = data
  BY DEF bitcask_get
<1>2. CASE Kill /\ MemoryLasts
  BY <1>1, <1>2, OpenOrKill
<1>3. CASE context_get_schema(n) /\ ~ Found(n) /\ MemoryLasts
  BY <1>1, <1>3, MissingStep
<1>4. CASE /\ context_get_schema(n) /\ Found(n)
           /\ answer' = <<n, k, Value(SchemaOf(n), k)>> /\ UNCHANGED <<cur_size, fid, index_tree>>
  <2>1. CatInv' /\ RecordedNames' = RecordedNames /\ Eng!Fetch(n) /\ SchemaOf(n) = n
    BY <1>1, <1>4, FoundStep
  <2>2. UNCHANGED <<data, cur_size, fid, index_tree>> /\ answer' = <<n, k, Value(n, k)>>
    BY <1>1, <1>4, <2>1
  <2>3. DataInv' /\ UNCHANGED Eng!data
    BY <2>1, <2>2, KeepStep DEF BInv
  <2>4. Eng!Get(n, k)
    <3>1. \/ latest[n][k] # <<>> /\ Value(n, k) = latest[n][k]
          \/ latest[n][k] = <<>> /\ Value(n, k) \in past[n] \cup {Garbage}
      BY GetAnswer DEF BInv
    <3> QED
      BY <2>1, <2>2, <2>3, <3>1 DEF Eng!Get, latest, past
  <2> QED
    BY <2>1, <2>3, <2>4 DEF BInv, Eng!EngineNext
<1> QED
  BY <1>3, <1>4, <1>2 DEF bitcask_get

(* bitcask_put is a Put of Engine, refuses the record, or ends the         *)
(* process.                                                                *)
LEMMA BPutStep ==
  ASSUME Roomy, BInv, CInv', NEW n \in Names, NEW k \in Keys, NEW v \in Values,
         bitcask_put(n, k, v)
  PROVE  BInv' /\ Eng!EngineNext
<1>1. context_get_schema(n)
  BY DEF bitcask_put
<1>2. CASE ~ Found(n)
  <2>1. MemoryLasts /\ data' = data
    BY <1>2 DEF bitcask_put
  <2> QED
    BY <1>1, <1>2, <2>1, MissingStep
<1>3. CASE Found(n) /\ ~ Writable(k, v)
  <2>1. /\ CatInv' /\ RecordedNames' = RecordedNames /\ n \in RecordedNames
        /\ Eng!Fetch(n) /\ SchemaOf(n) = n
    BY <1>1, <1>3, FoundStep
  <2>2. PutTooLarge(n)
    BY <1>3, <2>1 DEF bitcask_put
  <2>3. DataInv' /\ UNCHANGED Eng!data
    BY <2>1, <2>2, RefusedStep DEF BInv
  <2>4. answer' = answer
    BY <2>2 DEF PutTooLarge
  <2>5. Eng!Put(n, k, v)
    BY <1>3, <2>1, <2>3, <2>4 DEF Eng!Put
  <2> QED
    BY <2>1, <2>3, <2>5 DEF BInv, Eng!EngineNext
<1>4. CASE Found(n) /\ Writable(k, v)
  <2>1. /\ CatInv' /\ RecordedNames' = RecordedNames /\ n \in RecordedNames
        /\ Eng!Fetch(n) /\ SchemaOf(n) = n
    BY <1>1, <1>4, FoundStep
  <2>2. PutStored(n, k, v)
    BY <1>4, <2>1 DEF bitcask_put
  <2>3. /\ DataInv'
        /\ latest' = [latest EXCEPT ![n][k] = IF before[n] = {} THEN v ELSE <<>>]
        /\ past' = [past EXCEPT ![n] = past[n] \cup {v}]
        /\ before' = before
    BY <2>1, <2>2, StoredStep DEF BInv
  <2>4. answer' = answer /\ <<k, v>> \in {p \in Keys \X Values : Writable(p[1], p[2])}
    BY <1>4, <2>2 DEF PutStored
  <2>5. Eng!Put(n, k, v)
    BY <2>1, <2>3, <2>4 DEF Eng!Put, latest, past, before
  <2> QED
    BY <2>1, <2>3, <2>5 DEF BInv, Eng!EngineNext
<1> QED
  BY <1>2, <1>3, <1>4

-----------------------------------------------------------------------------
(* Every step keeps the invariant and is a step of Engine. *)
LEMMA BitcaskStep ==
  ASSUME Roomy, BInv, [BitcaskNext]_bitcask_vars
  PROVE  BInv' /\ [Eng!EngineNext]_(Eng!engine_vars)
<1>1. CASE BitcaskNext
  <2>1. CInv'
    BY <1>1, BitcaskIsContext, CInvNext DEF BInv, CatInv
  <2>2. CASE CatalogueStep /\ MemoryLasts /\ UNCHANGED data
    BY <2>1, <2>2, OpenOrKill, FetchOnly, DropForgets, DelKeyEither DEF CatalogueStep
  <2>3. ASSUME NEW n \in Names, bitcask_create_schema(n) PROVE BInv' /\ Eng!EngineNext
    BY <2>1, <2>3, CreateStep
  <2>4. ASSUME NEW n \in Names, NEW k \in Keys, bitcask_get(n, k)
        PROVE  BInv' /\ Eng!EngineNext
    BY <2>1, <2>4, BGetStep
  <2>5. ASSUME NEW n \in Names, NEW k \in Keys, NEW v \in Values, bitcask_put(n, k, v)
        PROVE  BInv' /\ Eng!EngineNext
    BY <2>1, <2>5, BPutStep
  <2> QED
    BY <1>1, <2>2, <2>3, <2>4, <2>5 DEF BitcaskNext
<1>2. CASE UNCHANGED bitcask_vars
  <2>1. UNCHANGED vars /\ UNCHANGED <<data, cur_size, fid, index_tree, answer>>
    BY <1>2 DEF bitcask_vars, memory
  <2>2. CatInv' /\ [Cat!Next]_(Cat!vars)
    BY <2>1, CatStep DEF BInv
  <2>3. RecordedNames' = RecordedNames /\ up' = up /\ reply' = reply
    BY <2>1 DEF vars, RecordedNames
  <2>4. DataInv' /\ UNCHANGED Eng!data
    BY <2>1, <2>3, KeepStep DEF BInv
  <2> QED
    BY <2>1, <2>2, <2>3, <2>4 DEF BInv, Eng!engine_vars, Eng!vars
<1> QED
  BY <1>1, <1>2

(* The calls of bitcask.c together implement the engine: the catalogue     *)
(* lasts across processes, a schema that had no data when the process      *)
(* started is a dictionary for as long as it runs, and no get ever answers *)
(* with what was put to another schema.                                    *)
THEOREM BitcaskImplementsEngine == Roomy => (BitcaskSpec => ImplementsEngine)
<1> SUFFICES ASSUME Roomy PROVE BitcaskSpec => ImplementsEngine
  OBVIOUS
<1>1. BitcaskInit => BInv /\ Eng!EngineInit
  BY BInvInit, InitIsEngine
<1>2. BInv /\ [BitcaskNext]_bitcask_vars
        => BInv' /\ [Eng!EngineNext]_(Eng!engine_vars)
  BY BitcaskStep
<1> QED
  BY <1>1, <1>2, PTL DEF BitcaskSpec, ImplementsEngine, Eng!EngineSpec

(* With their data the schemas are no less a catalogue, and are still      *)
(* recorded once.                                                          *)
THEOREM BitcaskIsCatalogue ==
  Roomy => (BitcaskSpec => []RecordedOnce /\ ImplementsCatalogue)
<1> SUFFICES ASSUME Roomy PROVE BitcaskSpec => []RecordedOnce /\ ImplementsCatalogue
  OBVIOUS
<1>1. BitcaskInit => Init
  BY DEF BitcaskInit
<1>2. [BitcaskNext]_bitcask_vars => [Next]_vars
  BY BitcaskIsContext DEF bitcask_vars
<1>3. BitcaskSpec => Spec
  BY <1>1, <1>2, PTL DEF BitcaskSpec, Spec
<1> QED
  BY <1>3, RecordedOnceAlways, ContextImplementsCatalogue
=============================================================================
