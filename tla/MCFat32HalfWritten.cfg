SPECIFICATION Spec
SYMMETRY MCSymmetry
CONSTANTS
  p = p
  q = q
  a = a
  b = b
  Names = {a, b}
  NoName = NoName
  Blocks <- MCBlocks
  Blank = Blank
  Contents <- MCContents
  LastCluster = 5
  RootCluster = 2
  LastSlot = 1
  FatCount = 2
  Nobody = Nobody
  Writer = Writer
  Absent = Absent
  Unknown = Unknown
  MaxFaults = 0
  MaxCrashes = 0
INVARIANT HalfWrittenNeverListed
