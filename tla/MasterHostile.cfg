SPECIFICATION WSpec
CONSTANTS
  MaxListing = 2
  MaxObjects = 4
  FileSizes <- SmallFiles
  EntryKinds <- AnyKind
  Churn = TRUE
  FilesChange = TRUE
  IntBits = 8
INVARIANTS
  StructureIntact
  FilesIntact
  HeadersBelowData
  SlotsInBounds
