SPECIFICATION WFairSpec
CONSTANTS
  MaxListing = 3
  MaxObjects = 5
  FileSizes <- SmallFiles
  EntryKinds <- Ordinary
  Churn = FALSE
  FilesChange = FALSE
  IntBits = 8
INVARIANTS
  WTypeOK
  TreeMatchesSource
  EverySlotFilled
  EveryObjectImaged
  HeaderSizeExact
  NeverDerails
  StructureIntact
  FilesIntact
  ImageComplete
PROPERTY MasterEnds
