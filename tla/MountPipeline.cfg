SPECIFICATION FairSpec
CONSTANTS
  m1 = m1
  m2 = m2
  Mounters <- OneMounter
  Sealed <- MCSealed
  Old <- MCOld
  Symbols <- Bytes
  data_length = 2
  fec_length = 2
  hash_size = 2
  IntBits = 3
  MaxDamage = 3
INVARIANTS
  TypeOK
  MountedIsGenuine
  DamageRepaired
PROPERTY MountersEnd
