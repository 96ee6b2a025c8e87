\* What Enter boots against what the screen highlights.
CONSTANTS
  MAX_BOOT_ENTRIES = 5
  VISIBLE_MENU_ENTRIES = 3
  EntryLists <- MCEntryLists
  Letters = {"x", "y", "z", "w"}
  NoKey = NoKey
  NoEntry = NoEntry
  BootFunctions = {"wrapper"}
  NoFunction = NoFunction
SPECIFICATION UefiSpec
PROPERTY EnterBootsHighlighted
CHECK_DEADLOCK FALSE
