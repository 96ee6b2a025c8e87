\* What the kernel can find of itself.
CONSTANTS
  Base = 4096
  HeaderSize = 144
  FieldSize = 8
  EntrySize = 40
  Limit = 4440
  Fill = {0, 255}
  ModuleArgs <- MCModuleArgs
  Tables = {57344, 1048576}
  NULL = NULL
  NameMax = 256
  CmdlineMax = 4096
  ModuleMax = 1024
  FirstType = 1
  LastType = 8
  KernelBase = 1048576
  Page = 4096
  FileSizes <- MCFileSizes
  KernelName <- MCKernelName
  KernelCmdline <- MCCmdline
  InitrdName <- MCInitrdName
SPECIFICATION BootSpec
INVARIANT KernelFindsItself
\* The wrapper returns, or the kernel runs.
CHECK_DEADLOCK FALSE
