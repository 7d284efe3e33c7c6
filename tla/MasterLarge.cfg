SPECIFICATION WSpec
CONSTANTS
  MaxListing = 2
  MaxObjects = 2
  FileSizes <- LargeFiles
  EntryKinds <- Ordinary
  Churn = FALSE
  FilesChange = FALSE
  IntBits = 3
INVARIANT FilesIntact
