SPECIFICATION Spec
CONSTANTS
  MapKeys <- MCMapKeys
  Buckets <- MCBuckets
  Bucket <- MCBucket
  Meta <- MCMeta
  Names <- Tangled
  NotFound = NotFound
  MaxCount = 3
  NameSize = 5
  Misnames <- MCMisnames
  ArrayCount = 1
  ARRAY_INIT_SIZE = 2
  MetaPerFile = 2
  MetaRecordFits = TRUE
  MaxRecords = 4
  MaxTears = 1
INVARIANTS
  TypeOK
  CacheCounted
PROPERTIES
  OpenRestores
