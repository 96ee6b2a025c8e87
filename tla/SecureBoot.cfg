\* What secure boot lets through to the kernel's start.
CONSTANTS
  MAX_BOOT_ENTRIES = 5
  VISIBLE_MENU_ENTRIES = 3
  EntryLists <- MCEntryLists
  Letters = {"x", "y", "z", "w"}
  NoKey = NoKey
  NoEntry = NoEntry
  BootFunctions = {"wrapper"}
  NoFunction = NoFunction
SPECIFICATION UefiSpec
INVARIANT SecureBootVerifies
CHECK_DEADLOCK FALSE
