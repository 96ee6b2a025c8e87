\* What fs_init sets up at the root does not serve the paths below it.
SPECIFICATION MountSpec
CONSTANTS
  fat = fat
  iso = iso
  twin = twin
  NoCall = NoCall
  Idle = Idle
  NoPath = NoPath
  NoType = NoType
  MaxRegistered = 3
  Types = {fat, iso, twin}
  Handles = {h1, h2}
  Names = {"fat32", "iso9660", "ext2"}
  Operations = {"read", "list_dir"}
  Separators <- MCSeparators
  BuiltIns <- MCBuiltIns
  NameOf <- MCNameOf
  Ops <- MCOps
  Root <- MCRoot
  MountPaths <- MCMountPaths
  Paths <- MCPaths
SYMMETRY MCSymmetry
INVARIANT RootServesAll
CHECK_DEADLOCK FALSE
