\* Every call on small FAT32, ext2 and ISO 9660 volumes, sound and damaged,
\* with every allocation and disk read failing or not; and every order of calls
\* to the layer of fs_common.c, with two live mounts and three mount paths.
SPECIFICATION MCSpec
CONSTANTS
  Disks <- MCDisks
  Paths <- MCPaths
  Upper <- MCUpper
  Sizes = {0, 1, 2, 3, 5, 14, 15}
  Rooms = {0, 1, 3, 5, 8}
  Offsets = {0, 1, 2, 3}
  MaxPart = 3
  Wrap = 16
  MaxHeld = 2
  Eoc = 12
  Stem = 2
  Ext = 1
  DirBit = 4
  SectorSizes = {1, 2}
  ClusterSizes = {1, 2}
  Direct = 2
  RootInode = 2
  FirstInode = 11
  MaxDescriptors = 3
  ByteWrap = 8
  SlotSize = 2
  ext2 = ext2
  iso = iso
  NoCall = NoCall
  Idle = Idle
  NoData = NoData
  NoType = NoType
  Types = {ext2, iso}
  Handles = {h1, h2}
  Names = {"ext2", "iso9660", "fat32"}
  Operations = {"read_file", "list_dir"}
  Separators = {"/"}
  NameOf <- MCNameOf
  Ops <- MCOps
  Root <- MCRoot
  MountPaths <- MCMountPaths
  FilePaths <- MCFilePaths
INVARIANTS
  FindsTheEntry
  ReadsTheWindow
  ListsTheDirectory
  MemoryGivenBack
  TypeOK
  HandlesAreMounted
  OneDummyPerType
PROPERTIES
  CallsReturn
  UnmountTakesServing
  ServesDeepest
CHECK_DEADLOCK FALSE
