\* The Linux entries of the menu, with the command line main.c gives them.
SPECIFICATION Spec
CONSTANTS
  Loaders = {"linux_load_kernel", "ia32_boot_linux", "x86_64_boot_linux"}
  KernelSizes <- MCKernelSizes
  InitrdSizes <- MCInitrdSizes
  CmdlineLengths = {17}
  SetupSects = {0, 72, 255}
  Headers <- MCHeaders
  Elfs <- MCElfs
  HighHalf <- MCHighHalf
  ModuleSizes = {512, 1048576}
  MaxModules = 0
  RamStart <- MCRamStart
  NoFile = NoFile
INVARIANT CommandLineReachesKernel
CHECK_DEADLOCK FALSE
