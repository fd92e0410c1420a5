SPECIFICATION Spec
SYMMETRY MCSymmetry
CONSTANTS
  p = p
  q = q
  a = a
  b = b
  Names = {a, b}
  NoName = NoName
  Blocks <- MCBlocks
  Blank = Blank
  Contents <- MCContents
  LastCluster = 4
  RootCluster = 2
  LastSlot = 1
  FatCount = 2
  Nobody = Nobody
  Writer = Writer
  Absent = Absent
  Unknown = Unknown
  MaxFaults = 2
  MaxCrashes = 1
INVARIANTS
  TypeOK
  ChainsDisjoint
  RootKept
  UniqueNames
  NothingHidden
  NoLeak
  FatMirrored
PROPERTIES
  ImplementsStore
