\* Reads at an offset of a sound ext2 volume.
SPECIFICATION Spec
CONSTANTS
  Disks <- MCSoundExt
  Paths <- MCPaths
  Upper <- MCUpper
  Sizes = {1, 2}
  Rooms = {8}
  Offsets = {0, 1}
  MaxPart = 3
  Wrap = 16
  MaxHeld = 2
  Eoc = 12
  Stem = 2
  Ext = 1
  DirBit = 4
  SectorSizes = {1, 2}
  ClusterSizes = {1, 2}
  Direct = 2
  RootInode = 2
  FirstInode = 11
  MaxDescriptors = 3
  ByteWrap = 8
  SlotSize = 2
INVARIANT EveryReadIsItsWindow
