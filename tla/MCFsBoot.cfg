SPECIFICATION Spec
CONSTANTS
  LastEntry = 2
  MaxFaults = 2
  MaxBoots = 3
INVARIANTS
  ForeignKept
  VolumeKept
  ShortDiskKept
  StatusAgrees
  MountedUsableUnlessCut
CHECK_DEADLOCK FALSE
