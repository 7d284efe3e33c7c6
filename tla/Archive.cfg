SPECIFICATION ASpec
CONSTANTS
  t1 = t1
  MaxListing = 3
  MaxObjects = 3
  FileSizes <- Sizes
  EntryKinds <- Ordinary
  Churn = FALSE
  FilesChange = FALSE
  IntBits = 8
  Threads <- OneThread
  Requests <- MCRequests
  Garbage <- SomeGarbage
  Padding <- SpacePadding
  Flags <- AllFlags
  Generated <- GeneratedImages
INVARIANTS
  ContractKept
  ListingComplete
  StreamNeverFails
PROPERTY ImplementsWriteOnceFS
