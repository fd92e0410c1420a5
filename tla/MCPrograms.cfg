SPECIFICATION Spec
SYMMETRY MCSymmetry
CONSTANTS
  MaxTypes = 7
  MaxFuncs = 22
  MaxExports = 6
  MaxGlobals = 3
  MaxByte = 255
  Word = 1048576
  PageBytes = 65536
  MemBytes = 65536
  Hosts = 9
  game = game
  tool = tool
  Files = {game, tool}
  Pool <- MCPool
  MaxSections = 5
  Builtin <- MCBuiltin
  KeySlots = 3
  Codes = {1, 2}
  KeyHost = 7
  IntMax = 127
INVARIANTS
  LoadedInBounds
  LoadsAsDeclared
  NothingInherited
  RunsItsOwnBytes
