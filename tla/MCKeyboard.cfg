SPECIFICATION FairSpec
CONSTANTS
  Codes = {"d", "num"}
  Printable = {"d"}
  ModKeys <- MCModKeys
  ModOf <- MCModOf
  FifoSize = 3
  MaxPresses = 4
INVARIANTS
  TypeOK
  FifoFaithful
  ModifiersHeld
PROPERTIES
  AllKeysRead
