SPECIFICATION WSpec
CONSTANTS
  MaxListing = 2
  MaxObjects = 4
  FileSizes <- OneSize
  EntryKinds <- WithDangling
  Churn = FALSE
  FilesChange = FALSE
  IntBits = 8
INVARIANT EverySlotFilled
