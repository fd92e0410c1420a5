SPECIFICATION Spec
SYMMETRY MCSymmetry
CONSTANTS
  a = a
  b = b
  c = c
  brief = brief
  lengthy = lengthy
  Names = {a, b, c}
  NoName = NoName
  Empty = Empty
  Damaged = Damaged
  Texts <- MCTexts
  Opened <- MCOpened
  LastSlot = 2
  MaxFaults = 1
INVARIANTS
  ArmedNeverRegained
  CleanIsStored
PROPERTIES
  ConfirmedUnlessShifted
