SPECIFICATION Spec
CONSTANTS
  Chars <- FewChars
  NAME_SIZE = 5
INVARIANTS
  NameKept
  AlwaysTerminated
  ListedTrimmed
