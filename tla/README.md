# A verification of bitcask-engine

TLA+ models of the storage engine in `src/`, the TLC runs that check them on
small instances, and theorems about the core that TLAPS proves for every value
of the constants. `PROJECT.json` lists components, runs, mutants, the source
lines of every definition, findings, hazards and theorems; this file explains
them. Source lines below are of `src/src/`.

## The system

bitcask-engine is a C library. A database is a directory of *schemas*; a schema
is a directory of append-only data files and an in-memory radix tree that says
where the latest record of each key is. Everything runs in the caller's thread:
there is no background work, no compaction and no network.

| component | state | operations |
|---|---|---|
| bitcask (`bitcask.c`) | a context, a configuration | open, create/fetch/drop schema, put, get, del; merge, dump and close are empty |
| context (`context.c`) | `schema_cache`: a hash map of at most 64 open schemas | open, get/put/del schema |
| schema (`schema.c`) | `files`, `fid`, `meta` (`file_cnt`, `kv_count`), `index_tree`, `lock` | put, get and del of a key, adding a data file, reloading from the meta schema |
| data file (`data_file.c`) | two descriptors, `cur_size` | open, append, read at an offset |
| art (`art.c`) | a tree of four node types, `size` | insert, delete, search, minimum, maximum, iteration |
| hash map (`hashmap.c`) | chains, `cur_count` | put, get, del |
| array (`array.c`) | a vector of pointers | push, add, del, value |
| kv_value, kv_index, schema_meta | records and leaves | constructors |
| hash, crc, conf, log, utils | - | pure functions, reading the configuration, output |

How they interact: a call names a schema; `bitcask` asks `context` for it, which
looks it up in the hash map; the schema's put appends a record to its last data
file and makes the leaf of the key name it; its get finds the leaf and reads
the record. A schema is itself recorded as a record of the *meta* schema, by
the same `schema_put_kv`; `context_open` reads data file 0 of the meta schema
and collects the schemas it finds in an array.

What is hard about it:

- *Offsets are counted, not asked for.* A leaf's offset is `cur_size`, which
  must equal the file's length for ever, through rotation, refused records,
  failing writes and restarts.
- *Several threads on a schema.* The counters are atomic and adding a file is
  under a lock; the check for a full file, the offset, what a search found, the
  leaf and the position of the read descriptor are not.
- *Restarts.* Only the meta schema's first file and the data files survive, and
  a record of the meta schema may be there in part only.
- *Limits.* 64 slots of the file table, 64 schemas of the cache, 8 of the
  array, records no longer than a limit.
- *The tree.* Nodes that change type at different counts when they grow and
  when they shrink, prefixes longer than what a node stores, keys that begin
  other keys, iterations that a callback stops in the middle.

What makes each component correct: a schema is a dictionary and its files are
sequences of whole records; the catalogue knows every schema that was created
and no other, across restarts; a schema's data are its own; the tree is a map whose iteration is complete;
the hash map's count is that of its chains.

## Modules

| module | models | kind |
|---|---|---|
| `KVStore` | the dictionary a schema promises | abstract |
| `DataFiles` | records, leaves, append, read | operators |
| `Schema` | one schema, one caller, nothing fails | state machine, implements `KVStore` |
| `SchemaProofs` | theorems about `Schema` | proofs |
| `SchemaFaults` | `Schema` with failing calls, kills and restarts | state machine |
| `SchemaFaultsProofs` | theorems about `SchemaFaults` | proofs |
| `SchemaThreads` | threads on one schema, one action per shared access | state machine |
| `SchemaThreadsProofs` | theorems about `SchemaThreads`: its table, its count, bytes in flight, files added | proofs |
| `Hashmap`, `Array` | the hash map, the vector of pointers | operators |
| `Catalogue` | what create and fetch promise about schemas | abstract |
| `Context` | cache, meta schema, torn records, reload, crashes | state machine, implements `Catalogue` |
| `ContextProofs` | theorems about `Context`, for any names and limits, and that it implements `Catalogue` | proofs |
| `Engine` | what the engine as a whole promises, across restarts | abstract |
| `Bitcask` | `Context` and the data of every schema together | state machine, implements `Catalogue` and `Engine` |
| `BitcaskProofs` | `Bitcask` implements `Engine` and `Catalogue` | proofs |
| `ArtMap` | the map `art.h` promises | abstract |
| `ArtNodes` | one node of `art.c`: what a search, a new child or a collapse does to it | operators |
| `Art` | the tree, the ways down it and the calls on it | state machine, implements `ArtMap` |
| `ArtIter` | iteration over the tree and over a prefix | operators |
| `ArtShapeProofs` | the shape of the tree and what each change leaves of it | proofs |
| `ArtProofs` | theorems about `Art`, and that it implements `ArtMap` | proofs |
| `FoldLemmas` | sums and folds over finite sets, for the proofs | lemmas |
| `MC...` | instances for TLC | - |

`Schema`, `SchemaFaults`, `SchemaThreads` and `Bitcask` share `DataFiles`;
`SchemaFaults` extends `Schema` and uses its handlers as they are. `Schema`
takes its index as a map, which is what `Art` is shown to be. `Context` takes a
schema as its name and the meta schema as its records; `Bitcask` composes it
with the data files and indexes of the schemas, and `Engine` says what the two
make together. The iterations of the tree are RECURSIVE operators and are
therefore kept in `ArtIter`, which no module with theorems uses.

### Schema and DataFiles

`disk[f]` is what data file `f` contains: its length and the records in it,
each with the offset at which it was appended. A record is its key, value and
size. `cur_size`, `fid`, `file_cnt`, `kv_count` and `index_tree` are the
variables of the same names in the code; `slots` is the number of pointers the
current allocation of `files` holds. `schema_put_kv` is one action with two
cases, the record fits (`PutStored`) or is refused (`PutTooLarge`); both begin
with the rotation (`Rotate`), which happens before the size of the record is
looked at.

The table of files is an allocation of its own: file 0 allocates it with
`SCHEMA_DATA_FILE_MIN_LEN` slots (`MinLen`), and a file of a number above that
has it reallocated (`SlotsFor`), to a size that is given in bytes and holds
fewer pointers. A put that looks at, or stores a file in, a slot beyond the end
(`~PutInTable`), a get whose leaf names such a slot (`GetInTable`), and a get
that reads bytes which are not those of a record and goes by the sizes it finds
in them (`Strays`), reach outside their memory: `undefined` becomes TRUE, and
no step follows. So the models say what happens up to there, and which call gets
there.

### SchemaFaults

Adds a `write` that answers -1 (`WriteFails`), one that writes less
(`WriteShort`), a `read` that answers -1 (`ReadFails`), a kill after any part
of a record (`KilledInPut`) and a restart at any other time (`Restart`), which
reloads the schema as `schema_alloc_from_meta` does: with file 0 only, because
the meta record is written once, by the call that creates the schema, with a
`file_cnt` of 1; with `cur_size` 0; with an empty index. The ghost variable
`damaged` names the open files whose `cur_size` has parted from their length.

### SchemaThreads

One action per access to shared memory or per system call. Any thread puts,
gets or deletes any key, in the index or not, by calling `schema_put_kv`,
`schema_get_kv` or `schema_del_kv` on the handle (`bitcask_del` hands over a
slot of the cache instead, which is in `Context`). Adding a file allocates or
reallocates the table as in `Schema`, under the lock, while the others index it
without. A get loads the size of a leaf twice, for the buffer (`room`) and for
the read, and the second load may come before or after that of the offset; a
read of more bytes than the buffer has is undefined. The atomic counters, the mutex
and O_APPEND are taken at their word; a leaf is replaced and read field by
field, which is how `memcpy` and three loads of a struct without a lock may be
seen by another thread. `data_file_read` is two calls, `Seek` and `Read`, and
the position is the descriptor's.

A call of the tree is one step. What `art.c` does when two of its calls overlap
is undefined, so that the model begins where they do not: with what a put or a
del does on what it was told by a search that is out of date. Two first puts of
a key both insert, and both count. A `kv_index` is known by the call that
allocated it, `<<thread, number of the call>>`, so that one that the tree has
given up or replaced is still there for a thread that holds a pointer to it
(nothing frees it).

### Context, Hashmap and Array

A key of the hash map is a sequence of characters, because a lookup compares
only as many of them as the key it looks for has (`IsPrefix`). The hash function is
a constant, any function from keys to buckets. A reload pushes the schemas it
finds into an array and then moves them to the cache, as `context_open` does. Actions are the calls of
`bitcask.c`; those that dereference a bad pointer end the process
(`Ends(<<"crash", ...>>)`), and a new process may be started afterwards. A put
or a get is the fetch it begins with. `bitcask_del` hands the slot of the cache
to `schema_del_kv` instead of the schema: it either finds nothing or does not
survive.

`Catalogue`, the promise, lets a fetch of a schema that is not there and every
drop end the process, because that is what `context.c` does in each such case;
`bitcask.c:64` and `:76` test the answer of the fetch for NULL as if it could
come back. What `Catalogue` promises is therefore what holds of the calls that
return, and less than the callers expect.

`context.c:149` records a schema under a key that includes the terminator of its
name. The keys of the meta schema's tree thus hold a 0, which `Art` excludes
(`KeysAssumption`); the tree is not asked for them again, since a reload reads
the file, and `Context` keeps the records of the meta schema and no tree.

A meta record is a name and how many bytes of it got into the file
(`schema_meta`). A create may write all of it, a part, or nothing, because the
write fails or is short (and answers 0 all the same), or because the process is
killed (`KilledInCreate`). `load_schema_meta_from_file` reads blocks of the
size of a record into one buffer and does not look at how much it read: the
record behind which the file ends torn is taken together with what the block
before it left in the buffer (`NameOver`). What is behind a torn record is read
out of place: the model then lets each block be skipped, be taken for a schema
of any name of `Misnames`, or end the process (`CrashInOpen`), which is more
than any one file allows. `MetaPerFile` counts the records of this process, because `cur_size`
of the meta file starts at 0 in every process.

### Bitcask and Engine

`Bitcask` adds, to the step `Context` takes for a call, what the call does to
the data: a create allocates a schema with an empty index and a `cur_size` of
0, an open does so for every schema it finds, a put appends and indexes, a get
reads. Data are those of the schema the cache answers with (`SchemaOf`), which
need not be the one asked for unless the cache is right. Each schema has several
data files and rotates as in `Schema`: a put finds the last file full by its
`cur_size`, which is 0 in a file opened again, adds one, and may still be
refused. A file added may be there from an earlier process. There are no more
files than slots of the table (`FilesBounded`), and `MaxLen` bounds the length of
a file across processes. A get that reads bytes of no record answers `Garbage`
or ends the process. Names are apart (`NamesApart`), since `catalogue_prefix`
shows what happens when they are not, and meta records are whole
(`RecordsWhole`). That there is room for every schema is not assumed here but a
hypothesis of the theorems (`Roomy`).

`Engine` is what a user of `bitcask.c` may rely on. `past` is what was ever put
to a schema, `before` what was put before the process started, `latest` what
each key has. In a schema that was empty when the process started a get answers
with the latest value; in one that was not, with any value ever put to the same
schema, or garbage, because a restart counts offsets from 0; a key not put
since the start is not found, whatever the files hold, because nothing calls
`load_schema_data_from_file` to rebuild the index. The refinement mapping reads `before` off the file:
of each file, the records that begin before its last `cur_size` bytes
(`OldRecords`).

### Art, ArtNodes and ArtIter

The tree is a heap: `nodes` gives the node in each place (`Refs`), where a place
is one that holds a pointer in the code, the tree's own (`Root`) or an entry of
a node's array of children. Storing a pointer in a place is putting the node
there, so a node that is split keeps its place's owner, as the code's `ref`
argument does it. A walk down the tree is a place and the bytes of the key used
(`Places`); it takes one step per node (`Below`) for as long as there is one to
take (`Descend`), which is an iteration, not a recursion: every step uses at
least one byte. `Room` says that an insert finds two places for the nodes it
allocates: `art.c` does not look whether `calloc` fails.

Nodes are records; the children of a node are a sequence in the order the code
visits them. The four types differ in capacity, in the order of their children
(`Precedes`: NODE16 compares bytes as signed) and in the count at which a
removal shrinks them. A key is a buffer and a length, as in the code, and the
bytes behind the key (`Rests`) are an input. The order of reading is kept: a
search compares at most the bytes a node stores and leaves the rest to the
comparison with the leaf, an insertion looks for a leaf below the node. An
iteration is given the keys at which the callback stops it (`stops`) and
returns those it was called for.
Positions of children inside a NODE48 are left out, and so is
`num_children` being a `uint8_t`: a NODE256 with 256 children counts 0 in the
code, which only the comparison with 37 after a removal could notice.

## Runs

All passing runs finish in less than three minutes with two workers.

| run | what is checked | instance |
|---|---|---|
| `schema` | `TypeOK`, `LeafIsLatest`, `FilesTiled`, `FilesFillInOrder`, `UndefinedAtTableEnd`, `CountCoversKeys`, `ImplementsKVStore` | 2 keys; records of 2, 3 and 4 where a file is full at 3 and 4 is refused; a table of 3 slots, and room for 4 files |
| `faults` | `FaultTypeOK`, `DamageContained`, `LeavesDisjoint`, `RecordsDisjoint`, `AppendOnly` | 2 files in 2 slots, 2 faults, 1 restart |
| `threads` | `TypeOK`, `UsedFilesOpen`, `TableInStep`, `SizesAccounted`, `FilesAddedForFull`, `KeysCounted`, `CallsReturn` | 2 threads, of which one makes 2 calls and the other 1, of any kind; 2 keys, one indexed; first file full, a table of 3 slots, 4 files |
| `engine` | `RecordedOnce`, `ImplementsCatalogue`, `ImplementsEngine` | 2 schemas in one bucket, 1 key, 3 values with records of 2, 3 and 4 of which 4 is refused; 2 files per schema, full at 3; 3 meta records, limits not reached |
| `catalogue_limits` | `TypeOK`, `CacheCounted`, `OpenRestores` | 4 names that begin each other and the meta schema's, every limit reached, 1 torn meta record |
| `art` | `TypeOK`, `OneOwner`, `PrefixesRight`, `SizeRight`, `EndsOrdered`, `IterationComplete`, `PrefixIterationComplete`, `ImplementsMap` | 10 keys of up to 7 bytes, 2 stored bytes of prefix, node capacities 3, 4, 5, 16, shrinking at 1, 2, 3, 4; 2 values, one of two bytes after the terminator, every key at which a callback may stop, every prefix of a key |

Why the bounds are enough. In `schema` three files are the least with one that
is neither first nor last; the three sizes are the three cases of a record (it
leaves room, it fills the file, it is refused); `MaxFiles` is above `MinLen`, so
that puts go on after the table's last slot is taken, and some reach the end.
The reallocation behind it is never reached while the behaviour is defined, with
64 slots as with 3: the file before the one that triggers it is stored outside
the table already. In `faults` two failures let
one damage what another has left; a second restart would begin from the same
memory as the first and add nothing but length to the file. In `threads` two
threads are the least that race for the lock, an offset, a leaf or a count, and
both find the file full, so that both add one; the second call of the first
lets a put follow a del, or a get a put, while the other thread is still inside
its call, and a third file added is one too many for the table. In `engine` two
schemas are the least of which one could be given the other's data, or be
created after a reload of the other; two files and three sizes are the least in
which a refused record and an overwrite meet a rotation. In `catalogue_limits`
one torn record has records before and behind it, the last one over what a whole
one leaves in the buffer.

In `art` the stored prefix is 2 bytes instead of 10, so that one of 3 bytes is
longer than it, and the capacities are as small as the order between growing and
shrinking counts allows: the node behind that prefix passes through all four
types, with its prefix, up and down, while other keys split that prefix within
the bytes it stores and behind them. All bytes are in the lower half of the
16, for `EndsOrdered`. The run explores every tree the keys can form, and has
places (`Refs`) enough for each and for the two nodes an insert may add. Steps
that differ only in the last call and its result, in the places the nodes are in
or in the values of the leaves are checked and not explored again (`VIEW MCView`
has the shape of the tree and its keys): no step depends on them.

Symmetry is used between the keys of `MCSchema` and `MCSchemaFaults`, which are
alike in every constant, and in runs without liveness only. Deadlock is checked
in the runs of `Bitcask`, `Context` and `Art`. It is not in those of `Schema` and
`SchemaFaults`, where no step follows what is undefined, nor in those of
`SchemaThreads`, where that is so too and threads stop calling after `MaxOps`
calls; that nobody waits for ever in a call is the property `CallsReturn`.

Fairness is assumed in `SchemaThreads` only: a thread inside a call is
scheduled again and again (`WF_vars(Step(t))`). The code has no loop and waits
nowhere but at the mutex, so this is what the operating system's scheduler
gives; a thread need not call again. The mutex is not assumed to be fair: each
thread makes finitely many calls.

Six runs expect a violation and show where the code departs from what its
documentation, comments or tests say; `PROJECT.json` quotes the lines.

| run | property | what TLC finds |
|---|---|---|
| `table_end` | `Defined` | the put that finds every slot taken and every file full stores the next file outside the table (`schema.c:32`) |
| `reopen` | `LeafIsLatest` | after a restart, offsets start at 0 in a file that is not empty (`data_file.c:29`) |
| `two_writers` | `QuietLeavesRight` | two writers take the same offset (`schema.c:271`) |
| `two_readers` | `GetsOwnValue` | two readers share a file position (`data_file.c:50-51`) |
| `catalogue_prefix` | `ImplementsCatalogue` | a schema is taken for one whose name it begins (`hashmap.c:62`) |
| `art_prefix` | `PrefixIterationExact` | a prefix that leaves a node's bytes halfway is followed further, and keys are visited that do not start with it (`art.c:957`) |

The models hold further departures that no run is spent on. Each shows when an
instance is changed as follows.

| change to a `.cfg` | property violated | reason |
|---|---|---|
| `MCReopen`: `MaxFaults = 1`, `MaxRestarts = 0` | `LeafIsLatest` | a failed or short write moves `cur_size` by the whole record, and a short one is indexed and acknowledged (`data_file.c:39`, `schema.c:273`) |
| `MCTwoReaders`: `Writers <- FirstThread`, `Readers <- OtherThread` | `GetsOwnValue` | a leaf is read while it is replaced (`schema.c:288`) |
| the same with `Puts <- OneKeyPuts`, `FirstFile <- ShortKey` | `BufferHolds` | a get allocates its buffer by the size of one record and reads as many bytes as the one has that replaced it (`schema.c:304`) |
| `MCContextPrefix`: `Names` of which none begins another, `MaxTears = 1` | `ImplementsCatalogue` | a torn meta record is acknowledged, and read as far as it goes (`data_file.c:40`, `schema.c:135`) |
| `MCBitcask`: `MaxCount = 2` | `ImplementsCatalogue` | a full cache (64) refuses a schema silently (`context.c:145`) |
| `MCBitcask`: `ARRAY_INIT_SIZE = 1` | `ImplementsCatalogue` | only 8 schemas are reloaded: `array_add` refuses before it expands (`array.c:67`) |
| `MCBitcask`: `MetaPerFile = 1` | `ImplementsCatalogue` | only the first meta file is read back (`context.c:90`) |
| `MCBitcask`: `MetaRecordFits = FALSE` | `ImplementsCatalogue` | a meta record over the size limit is dropped silently (`schema.c:273`) |
| `MCArt`: `NBytes` and the last capacity 8, so that bytes 4 and 5 are in the upper half | `EndsOrdered` | NODE16 orders bytes as signed ones, and `art_minimum` returns a key with a byte of the upper half before one without, where `art.h:174` says "Returns the minimum valued leaf" (`art.c:429`) |
| `MCArt`: `Rests` with any byte first | `ImplementsMap` | a key that begins another is lost or stored twice when no zero byte follows it, for which `art.c:258-260` does not ask (`art.c:286`) |

One more is stated by the models rather than shown by a violation: a restart
empties every schema's index, because nothing calls `load_schema_data_from_file`
(`schema.c:126`; `Engine` says what is left of the promise).

What the passing runs say next to them: within one process, with one caller, up
to the put that overruns a table of 64 full files and without failures, a schema
is a dictionary; failures and restarts hurt the file they happen in and what is
written to it later, and nothing else; threads never follow a null pointer of the file table, lose no
space, count every key at least once and never hang, even where they read wrong
data, and the files they add in vain do not pile up; the catalogue is right
within its limits and with names that do not begin one another, and then no
schema ever answers with another's data; a torn meta record costs no schema
recorded before it; the tree is a map for keys followed by a zero byte,
whatever follows that byte.

## Proofs

`SchemaProofs` proves about `Schema`, for any keys, values, record sizes
and limits, beyond the end of the file table too:

- `Inductive`: `Spec => []IInv`, the conjunction of the type invariant and of
  the named parts the others follow from.
- `TypeCorrect`, `LeafIsLatestAlways`, `FilesTiledAlways`,
  `FilesFillInOrderAlways`: the invariants of run `schema`.
- `UndefinedAtTableEndAlways`: the first call that reaches outside its memory is
  a put that finds as many data files as the table has slots, all of them full.
- `SchemaImplementsKVStore`: the schema is a dictionary, up to the call that
  reaches outside its memory, which no step follows.
- `CountCoversKeysAlways`: `kv_count` is never behind the keys in the index.

The argument. `LeafIsLatest` is not inductive alone. That a new record lies
behind all others of its key needs that it goes into the last file, at that
file's end; that the offset written into the leaf is that end needs
`cur_size = disk.len` (`FilesTiled`); that the file is the last needs that
`fid` and `file_cnt` agree and that files beyond `fid` are empty; that no
record with the same offset is there already, so that a read finds this one
and no other, needs the tiling. That there is nothing undefined before the
table's end needs that the table is the one first allocated and has a slot for
each file (`TableIsFirst`), so that a put goes beyond it only to store file
`MinLen`, and that a get reads a record, which is `LeafIsLatest`. The proof that a step preserves the invariant
has one lemma per kind of step (a put that is stored, one that is refused, a
get, a del), the two puts resting on one lemma about the rotation. The
refinement maps the dictionary's value of a key to what a get would read
(`Stored`); its core is that an append changes what no other leaf reads.

`CountCoversKeys` needs only the types besides itself: a put adds at most one
key to the index, and counts it if it does.

`SchemaFaultsProofs` proves about `SchemaFaults`, for any number of failed
calls and restarts, all that run `faults` checks: `FaultTypeCorrect`,
`RecordsDisjointAlways`, `LeavesDisjointAlways`, `DamageContainedAlways` and
`FaultAppendOnly`. The invariant of `Schema` does not survive a failure; what
takes its place (`FInv`) adds to these properties that a leaf claims only bytes
its file's `cur_size` has passed (`LeavesClaimed`), which is what keeps the
next offset clear of every claim, whether or not the bytes were written. A put
finds its file right (`TargetRight`) because that file was right before, or
because it was opened empty: then its length is 0, and disjoint records leave
room for none in it. A restart is one lemma for all of them, the kill inside a
put being a restart with a longer file.

`SchemaThreadsProofs` proves about `SchemaThreads`, for any set of threads, any
number of calls of each and any keys, values and sizes: `ThreadsTypeCorrect`,
`TableInStepAlways`, `UsedFilesOpenAlways` and `KeysCountedAlways`. The
invariant (`ThreadsInductive`) says for each place of the locked section what
the table and its counters are there (`TableShape`), that the table is the one
first allocated and, as long as nothing is undefined, has a slot for every open
file (`TableFirst`), and that only the owner of
`schema.lock` is in that section (`LockHeld`). From these a counter read
without the lock names a stored pointer at any moment (`TableNow`); it goes on
doing so because the table only grows; and leaves name stored pointers because
they are given what a thread has taken (`FilesOpen`), through pointers to
`kv_index`es that exist (`PointersMade`). The count rests on a second invariant
(`CInv`): a call that has not come to its insert has no `kv_index` yet
(`FreshCalls`), so that an insert makes exactly one; no `kv_index` is the leaf
of two keys (`OneKeyEach`), so that there are at least as many as keys.

`SchemaThreadsProofs` also proves the two properties of `SchemaThreads` about
files:

- `SizesAccountedAlways`: `cur_size` of every file is its length and the sum of
  the sizes of the records that threads have reserved there and not written.
  The invariant (`SInv`) adds only that a file which is not open is empty.
- `FilesAddedForFullAlways`: of as many files in a row as there are writers, if
  another follows, one is full. The invariant (`AInv`) says that there is a
  record of which writer added which file (`adder`) such that between two files
  of one writer one is full (`AddedBy`): it found a file full before it added the
  second, and that file is not one before the first, because its number was read
  after the first was counted. Without a full file a row longer than there are
  writers would have two files of one of them.

`ContextProofs` proves about `Context`, for any names, hash function, limits and
number of processes, with names that begin each other, records that do not fit
and torn ones: `ContextTypeCorrect`, `CacheCountedAlways` and
`OpenRestoresAlways`. Their invariant (`CInv`) says
of the cache that its count is the sum of the lengths of its chains and at most
`MaxCount` (`MapOK`). `OpenRestores` is proved by following the reload element
by element: the array holds as many of the first names as fit, the cache is
what one put for each makes of it, and a put takes no pair out of a chain.

`ContextProofs` also proves `RecordedOnceAlways` and `ContextImplementsCatalogue`
under the hypothesis `Roomy`: no name begins another, no record is torn, and
the schemas, finitely many, fit into array, cache and one meta file. Each part
is needed: run `catalogue_prefix` and the changes listed under *Runs* violate
`ImplementsCatalogue` without it. The invariant (`CatInv`) adds to `CInv` that a
running process has in its cache the meta schema and every recorded schema, each
once and in the chain of its bucket, and nothing else (`Holds`), and that there
are as many records as recorded names: a create that finds nothing therefore
records a new name, for which there is room, and an open that reads the records
back finds no name twice.

`BitcaskProofs` proves `BitcaskImplementsEngine` and `BitcaskIsCatalogue` under
the same hypothesis. The invariant (`BInv`) adds to `CatInv`, for each schema
(`SchemaOK`), that of every file (`FileOK`) `cur_size` is at most the length,
that a file longer than that holds records from before, that records lie within
the file, and that leaves name open files and bytes below their `cur_size`, so
that no append changes what another leaf reads; a schema that is not recorded
has no leaves. A rotation opens a file with a `cur_size` of 0 that no leaf names
(`RotateStep`): its records were all from before and still are. What
remains is one lemma for each call of `bitcask.c`, which takes what
`ContextProofs` says of the call's catalogue half and adds what the call does
to the data. That no get answers with another schema's data follows from the
cache handing out the schema asked for and from values being read in its file
only.

`ArtShapeProofs` and `ArtProofs` prove about `Art`, for any keys, bytes, node
capacities and any number of places:

- `ArtTypeCorrect`, `SizeRightAlways`, `OneOwnerAlways`, `PrefixesRightAlways`
  and `EndsOrderedAlways`: the invariants of run `art` that are not about
  iterations.
- `ArtImplementsMap`: the tree is a map.

The hypothesis of all of them is `ZeroAfterKey`: the byte behind a key is the 0
that ends a string. The code asks for it nowhere, and the last theorem is false
without it (see *Runs*); what is behind the 0 is arbitrary.
With keys of bytes other than 0 (`KeysAssumption`) it is what tells a key from
those it begins. `EndsOrderedAlways` has a second one, `LowKeys`: no byte of a
key is in the upper half. NODE16 compares bytes as signed ones, and the theorem
is false without it (see *Runs*).

The argument. None of these properties is inductive: where an insert splits a
node it trusts bytes that node does not store, because some leaf below has
them, and a delete that collapses a node trusts that the one child left is
where the other keys went. The inductive invariant (`ArtInv`) says that the
tree has a shape (`InShape`): there is a path of bytes `B[r]`, of length `E[r]`,
to the end of every place in use such that the places and their paths are a
tree of bytes (`Trie`: an entry extends its node's path by its byte, whatever
extends a node's path is below the entry of its next byte, no two places have
the same path), the path of a leaf is its key and a 0, and that of an inner
node ends with its `partial_len` bytes, of which it stores what fits. `Trie`
knows nothing of the code; that it survives a new entry (`AddKid`), a split
(`SplitAt`), a lost entry (`DropKid`) and a lifted child (`Lift`) is proved of
any sets and functions, and `ArtShapeProofs` then shows that each way the code
changes the nodes is one of them. A descent is followed by an invariant of the
place it is at (`Descending`), never by an induction over data: it keeps to
places whose path the key begins with, and ends because each step uses a byte.
For a search that makes the leaf it ends at the only one that can have the key;
for an insert it says whether the key is there and where it leaves the tree
(`InsertEnds`); `minimum` is followed the same way, to a leaf below the node,
which has all the bytes the node does not store (`WholePrefix`). The refinement
maps a key to the value of its leaf (`Held`), and no two leaves have the same
key, because no two paths are the same.

The shape says nothing of the order of a node's children, and none of the
other theorems needs it. For the order of the ends the invariant has one part
more, `AllSorted`: it survives a change of type because the order of the arrays
and that of the bytes are the same (`RelayingSorted`), and an insert because
all bytes on the way to a leaf are low ones (`LowPaths`), which every type
orders alike (`LowOrder`). `minimum` is then followed down with the places that
are, by their bytes, ahead of every leaf that is not below them (`Foremost`),
and `maximum` with those behind (`Hindmost`).

Sums and folds. `MapThenSumSet`, `FoldFunction` and `FoldLeft` are defined by
choosing a function over all subsets that satisfies the recursion. `FoldLemmas`
shows that there is one, and that sums do not depend on the order of the
summands, by an induction that takes the property as a set of numbers
(`SetInduction`), and from it what the proofs use: what becomes of a sum when one
summand changes.

Assumptions used: those named in `DataFiles`, `Schema`, `SchemaFaults`,
`SchemaThreads`, `Hashmap`, `Array`, `Context`, `ArtNodes` and `Art` (positive sizes and limits;
`NoValue`, `Garbage`, `NULL` and `NotFound` are nothing else; finitely many
threads and buckets; a first file with one record of a key; names, and what is
read in place of a torn one, are strings; node types in the order of their
capacities, each shrinking at a count the smaller one has room for; keys of
bounded length without a 0; finitely many places), each evaluated by TLC in the runs.
`NamesApart`, `RecordsWhole` and
`FilesBounded` say which instances `Bitcask` is a model for; its proofs use the
first two through `Roomy`. That there are
enough files for every writer (`EnoughFiles`) is needed for liveness only and not
used in the proofs. The hypotheses of theorems, each with the run whose instance
satisfies it, are `Roomy` (`engine`), `ZeroAfterKey` and `LowKeys` (`art`).

Only model-checked: the iterations of the tree (`IterationComplete`,
`PrefixIterationComplete`), which are RECURSIVE and follow the tree down every
branch at once, so that what they return is an induction over data, out of the
prover's reach; and liveness (`CallsReturn`).

## Not modelled

- `hash.c`, `crc.c`: pure functions; the checksum is logged and never compared.
- `conf.c`, `log.c`, `log.h`, `utils.c`: configuration, output, directory scans
  nobody calls.
- `load_schema_data_from_file`, `schema_drop_data_file`, `schema_close`,
  `schema_destroy`, `schema_meta_save`, `data_file_destroy`, `data_file_sync`:
  nobody calls them.
- `bitcask_merge`, `bitcask_dump_schema`, `bitcask_close`: empty.
- Calls of the tree that overlap: undefined behaviour at every step; no
  property could be stated about its outcome. The same holds for two threads
  that create schemas at once: nothing locks the cache.
- `array_del`: nobody calls it.
- In `Bitcask`: the end of the file table, failing writes, torn meta records and
  names that begin one another, each of which `Schema`, `SchemaFaults` and
  `Context` have on their own.
- The tree of the meta schema, whose keys end with a terminator
  (`context.c:149`).
- Permissions and paths; memory that runs out (the code asserts).

## Plan

Done: the core (`Schema`), faults and threads; the catalogue with torn
records; the engine; the tree. All have proofs. In order of importance, next:

1. A hash map of its own: any sequence of puts, gets and dels against a
   multimap of prefixes, where now it is what `Context` does with it.
2. The index of `Schema` as the tree itself, by the refinement proved here.
