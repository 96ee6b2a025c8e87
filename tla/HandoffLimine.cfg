\* A Limine kernel and the command line it is started with.
SPECIFICATION Spec
CONSTANTS
  Loaders = {"limine_load_kernel"}
  KernelSizes <- MCKernelSizes
  InitrdSizes <- MCInitrdSizes
  CmdlineLengths = {17}
  SetupSects = {0, 72, 255}
  Headers <- MCHeaders
  Elfs <- MCElfs
  HighHalf <- MCHighHalf
  ModuleSizes = {512, 1048576}
  MaxModules = 0
  RamStart <- MCRamStart
  NoFile = NoFile
INVARIANT LimineKernelIsTold
CHECK_DEADLOCK FALSE
