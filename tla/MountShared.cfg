SPECIFICATION Spec
CONSTANTS
  m1 = m1
  m2 = m2
  Mounters <- TwoMounters
  Sealed <- MCSealed
  Old <- MCOld
  Symbols <- Bytes
  data_length = 2
  fec_length = 2
  hash_size = 2
  IntBits = 3
  MaxDamage = 0
INVARIANT MountedIsGenuine
