\* Plugins that call the plugin table, scripts that run scripts, names put
\* and asked for in any order, and address resolution on a slow network; and
\* every order of registering, mounting, unmounting and reading with two live
\* mounts, three mount paths and every allocation failing or not; and every loader,
\* with files that just have room and files that just have none, and the loaders a
\* boot over the network may call, after any number of failures.
SPECIFICATION MCSpec
CONSTANTS
  MaxPlugins = 2
  Libraries = {p, q, m, x}
  NoInfo = {x}
  Mute = {m}
  Vacant = Vacant
  MaxFrames = 3
  LuaStackSize = 2
  Scripts = {"a", "b", "c", "d", "e"}
  Words <- MCWords
  Number <- MCNumber
  Runs <- MCRuns
  MaxDepth = 3
  MaxValue = 2
  Capacity = 3
  Kept <- MCKept
  Keys <- MCKeys
  Values = {v, w}
  Absent = Absent
  Ips = {i1, i2}
  Macs = {m1, m2}
  Retries = 3
  Polls = 2
  MaxFlight = 2
  NoEntry = NoEntry
  fat = fat
  iso = iso
  twin = twin
  NoCall = NoCall
  Idle = Idle
  NoPath = NoPath
  NoType = NoType
  MaxRegistered = 3
  Types = {fat, iso, twin}
  Handles = {h1, h2}
  Names = {"fat32", "iso9660", "ext2"}
  Operations = {"read", "list_dir"}
  Separators <- MCSeparators
  BuiltIns <- MCBuiltIns
  NameOf <- MCNameOf
  Ops <- MCOps
  Root <- MCRoot
  MountPaths <- MCMountPaths
  Paths <- MCPaths
  Loaders <- AllLoaders
  KernelSizes <- MCKernelSizes
  InitrdSizes <- MCInitrdSizes
  CmdlineLengths <- MCCmdlineLengths
  SetupSects = {0, 72, 255}
  Headers <- MCHeaders
  Elfs <- MCElfs
  HighHalf <- MCHighHalf
  ModuleSizes = {512, 1048576}
  MaxModules = 2
  RamStart <- MCRamStart
  NoFile = NoFile
  NetKernelSizes <- MCNetKernelSizes
  NetInitrdSizes <- MCNetInitrdSizes
  NetCmdlineLengths <- MCNetCmdlineLengths
SYMMETRY MCSymmetry
INVARIANTS
  TableWhole
  ScriptRest
  FirstIsFound
  ArpTellsTheTruth
  TypeOK
  HandlesAreMounted
  LosesOnlyWithoutRoom
  ParametersTellTheTruth
  TagsLeadToTheEnd
  EntryIsTheKernels
  FlagTellsCard
  NetKernelIsServed
PROPERTIES
  UnmountTakesServing
  NamesAreStable
  ServesDeepest
CHECK_DEADLOCK FALSE
