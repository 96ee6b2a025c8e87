\* Three visible rows and five entries; up to three modules in 200 bytes, or the
\* wrapper's own, with empty, small, page-sized and larger files.
CONSTANTS
  MAX_BOOT_ENTRIES = 5
  VISIBLE_MENU_ENTRIES = 3
  EntryLists <- MCEntryLists
  Letters = {"x", "y", "z", "w"}
  NoKey = NoKey
  NoEntry = NoEntry
  BootFunctions = {"wrapper"}
  NoFunction = NoFunction
  Base = 4096
  HeaderSize = 144
  FieldSize = 8
  EntrySize = 40
  Limit = 4440
  Fill = {0, 255}
  ModuleArgs <- AllModuleArgs
  Tables = {57344, 1048576}
  NULL = NULL
  NameMax = 256
  CmdlineMax = 4096
  ModuleMax = 1024
  FirstType = 1
  LastType = 8
  KernelBase = 1048576
  Page = 4096
  FileSizes <- MCFileSizes
  KernelName <- MCKernelName
  KernelCmdline <- MCCmdline
  InitrdName <- MCInitrdName
SPECIFICATION MCSpec
INVARIANTS
  UefiTypeOK
  WindowOK
  HotkeysReachTheirEntry
  ReadFileGivesBack
  OnlyVerifiedImageRuns
  TypeOK
  TableIntact
  NewestReadable
  StringsEndByNewest
  OwnTableAccepted
  HandoffTable
PROPERTIES
  ArrowsKeepSelectionVisible
  MenuResultIsActedOn
  WritesFresh
\* The machine is reset or runs a kernel; the wrapper returns or the kernel runs.
CHECK_DEADLOCK FALSE
