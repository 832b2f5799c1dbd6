SPECIFICATION BitcaskSpec
CONSTANTS
  k1 = k1
  v1 = v1
  v2 = v2
  v3 = v3
  MapKeys <- MCMapKeys
  Buckets <- MCBuckets
  Bucket <- MCBucket
  Meta <- MCMeta
  Names <- MCNames
  Misnames <- MCMisnames
  Keys <- MCKeys
  Values <- MCValues
  RecSize <- MCRecSize
  NotFound = NotFound
  Garbage = Garbage
  MaxCount = 4
  NameSize = 5
  ArrayCount = 1
  ARRAY_INIT_SIZE = 3
  MetaPerFile = 3
  MetaRecordFits = TRUE
  MaxRecords = 3
  MaxTears = 0
  MaxDataFileSize = 3
  MaxKvSize = 4
  MaxFiles = 2
  MinLen = 2
  PtrSize = 8
  MaxLen = 3
INVARIANTS
  RecordedOnce
PROPERTIES
  ImplementsCatalogue
  ImplementsEngine
