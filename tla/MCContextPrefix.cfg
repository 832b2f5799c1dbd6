SPECIFICATION Spec
CONSTANTS
  MapKeys <- MCMapKeys
  Buckets <- MCBuckets
  Bucket <- MCBucket
  Meta <- MCMeta
  Names <- Within
  NotFound = NotFound
  MaxCount = 4
  NameSize = 5
  Misnames <- MCMisnames
  ArrayCount = 1
  ARRAY_INIT_SIZE = 3
  MetaPerFile = 3
  MetaRecordFits = TRUE
  MaxRecords = 3
  MaxTears = 0
PROPERTIES
  ImplementsCatalogue
