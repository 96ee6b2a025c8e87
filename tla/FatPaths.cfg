\* A path of two names on a sound FAT32 volume.
SPECIFICATION Spec
CONSTANTS
  Disks <- MCSoundFat
  Paths <- MCTwoNames
  Upper <- MCUpper
  Sizes = {3}
  Rooms = {8}
  Offsets = {0}
  MaxPart = 3
  Wrap = 16
  MaxHeld = 2
  Eoc = 12
  Stem = 2
  Ext = 1
  DirBit = 4
  SectorSizes = {1, 2}
  ClusterSizes = {1, 2}
  Direct = 2
  RootInode = 2
  FirstInode = 11
  MaxDescriptors = 3
  ByteWrap = 8
  SlotSize = 2
INVARIANT EveryPathIsFollowed
