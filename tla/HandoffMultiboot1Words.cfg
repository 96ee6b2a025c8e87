\* The Multiboot 1 loader of x86_64.c and the fields a kernel looks for.
SPECIFICATION Spec
CONSTANTS
  Loaders = {"x86_64_boot_multiboot1"}
  KernelSizes <- MCKernelSizes
  InitrdSizes <- MCInitrdSizes
  CmdlineLengths = {17}
  SetupSects = {0, 72, 255}
  Headers <- MCHeaders
  Elfs <- MCElfs
  HighHalf <- MCHighHalf
  ModuleSizes = {512, 1048576}
  MaxModules = 0
  RamStart <- MCRamStart
  NoFile = NoFile
INVARIANT Multiboot1FieldsAreWords
CHECK_DEADLOCK FALSE
