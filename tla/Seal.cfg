SPECIFICATION FairSpec
CONSTANTS
  Images <- SmallImages
  DEF_HASH_BLOCK_SIZE = 3
  hash_size = 2
  Keys <- TwoKeys
  Damages <- AnyDamage
  MaxCount = 20
  IntBits = 4
  Residue <- Bytes
INVARIANTS
  TypeOK
  IntactAccepted
  AcceptedIsGenuine
  CheckedOrEmpty
PROPERTY VerdictReached
