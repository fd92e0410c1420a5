SPECIFICATION Spec
CONSTANTS
  MaxLength = 6
  MaxStraight = 4
  Programs <- MCPrograms
  Typed <- MCTyped
  Loads = {1}
  Word = 8
  PageBytes = 2
  MemBytes = 4
  StackSize = 5
  LocalsSize = 6
  CtrlSize = 3
  Depth = 3
  StartPages = 1
INVARIANTS
  TypeOK
  NeverMalformed
  AccessesInside
PROPERTIES
  ImplementsBlocks
