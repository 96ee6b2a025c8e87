------------------------------ MODULE BootMenu ------------------------------
(***************************************************************************)
(* The boot menu of boot/menu.c: the table AddBootEntry fills, the hotkeys *)
(* AssignHotkeys derives from the names, and the event loop of             *)
(* ShowBootMenu.  One turn of the loop is three steps, because the user    *)
(* acts between them: Draw paints the screen, Mouse polls the pointer and  *)
(* may move the selection, and one of the key actions waits for a key.     *)
(*                                                                         *)
(* Indices are those of the code, from 0; BootEntries[i] is Entry(i) here. *)
(* A name is the sequence of its printable characters in lower case, which *)
(* is all AssignHotkeys looks at.  Colours, geometry and text are left     *)
(* out: a pointer is over a row of the visible window or over none.        *)
(***************************************************************************)
EXTENDS Integers, Sequences, FiniteSets

CONSTANTS
  MAX_BOOT_ENTRIES,     \* capacity of BootEntries (128 in the code)
  VISIBLE_MENU_ENTRIES, \* rows of the window DrawBootMenu paints (10)
  EntryLists,           \* lists of entries a build may register
  Letters,              \* characters of names, and of the keys pressed
  NoKey, NoEntry,       \* "no hotkey" and "no entry"
  BootFunctions,        \* the wrappers entries may carry
  NoFunction            \* a BootFunction that is NULL

EntryType == [Name : Seq(Letters), BootFunction : BootFunctions \cup {NoFunction}]

ASSUME BootMenuAssumption ==
  /\ MAX_BOOT_ENTRIES \in Nat \ {0}
  /\ VISIBLE_MENU_ENTRIES \in Nat \ {0}
  /\ NoKey \notin Letters
  /\ NoEntry \notin Nat
  /\ \A list \in EntryLists : list \in Seq(EntryType)

VARIABLES
  pending,           \* AddBootEntry calls UefiMain has still to make
  BootEntries,       \* the table, a sequence of [Name, BootFunction]
  BootEntryHotkeys,  \* a letter or NoKey for each entry hotkeys were assigned to
  SelectedEntry,
  MenuScrollOffset,
  Status,            \* the local of ShowBootMenu, "ok" or "error"
  gop,               \* GraphicsOutput is not NULL
  highlight,         \* the entry the screen shows as selected, or NoEntry
  phase,             \* where ShowBootMenu stands
  ret                \* what it returned: "success", "error", "aborted" or "none"

tableVars == <<pending, BootEntries, BootEntryHotkeys>>
menuVars == <<pending, BootEntries, BootEntryHotkeys, SelectedEntry,
              MenuScrollOffset, Status, gop, highlight, phase, ret>>

Entry(i) == BootEntries[i + 1]
BootEntryCount == Len(BootEntries)

-----------------------------------------------------------------------------
(* The table and its hotkeys *)

\* Mutant: an entry takes its first character whoever has it already.
FirstUnusedIgnoringUsed(name, used) ==
  IF name = << >> THEN NoKey ELSE name[1]

\* AssignHotkeys: the first character of a name that no earlier entry took.
FirstUnused(name, used) ==
  LET free == {j \in DOMAIN name : name[j] \notin used}
  IN  IF free = {} THEN NoKey
      ELSE name[CHOOSE j \in free : \A k \in free : j <= k]

\* The hotkeys of the first i entries, in order.
AssignHotkeys(entries) ==
  LET assigned[i \in 0..Len(entries)] ==
        IF i = 0 THEN << >>
        ELSE LET before == assigned[i - 1]
             IN  Append(before,
                   FirstUnused(entries[i].Name, {before[j] : j \in DOMAIN before}))
  IN  assigned[Len(entries)]

\* Mutant: the capacity test lets one entry too many in.
AddBootEntryOffByOne(table, e) ==
  IF Len(table) > MAX_BOOT_ENTRIES THEN table ELSE Append(table, e)

\* AddBootEntry: a full table refuses the entry and UefiMain ignores it.
AddBootEntry(table, e) ==
  IF Len(table) >= MAX_BOOT_ENTRIES THEN table ELSE Append(table, e)

\* The entry of the menu nothing was registered for.
FallbackEntry == [Name |-> << >>, BootFunction |-> NoFunction]

-----------------------------------------------------------------------------
(* Initialisation *)

MenuInit ==
  /\ pending \in EntryLists
  /\ BootEntries = << >>
  /\ BootEntryHotkeys = << >>
  /\ SelectedEntry = 0
  /\ MenuScrollOffset = 0
  /\ Status = "ok"
  /\ gop = FALSE
  /\ highlight = NoEntry
  /\ phase = "register"
  /\ ret = "none"

Register ==
  /\ phase = "register"
  /\ pending # << >>
  /\ BootEntries' = AddBootEntry(BootEntries, Head(pending))
  /\ pending' = Tail(pending)
  /\ UNCHANGED <<BootEntryHotkeys, SelectedEntry, MenuScrollOffset, Status,
                 gop, highlight, phase, ret>>

\* The head of ShowBootMenu.  Hotkeys are assigned before the fallback entry
\* is added.  InitializeGraphics fails with no protocol (gop stays NULL) or
\* with a mode it cannot query or set (gop is set).
EnterMenu ==
  /\ phase = "register"
  /\ pending = << >>
  /\ BootEntryHotkeys' = AssignHotkeys(BootEntries)
  /\ BootEntries' = IF BootEntryCount = 0
                    THEN AddBootEntry(BootEntries, FallbackEntry)
                    ELSE BootEntries
  /\ Status' \in {"ok", "error"}
  /\ gop' \in IF Status' = "ok" THEN {TRUE} ELSE BOOLEAN
  /\ phase' = "draw"
  /\ UNCHANGED <<pending, SelectedEntry, MenuScrollOffset, highlight, ret>>

-----------------------------------------------------------------------------
(* One turn of the loop *)

\* Rows of the window: row r shows entry MenuScrollOffset + r.
Rows == 0..(VISIBLE_MENU_ENTRIES - 1)
RowsShown == {r \in Rows : MenuScrollOffset + r < BootEntryCount}
Visible(i) == i - MenuScrollOffset \in RowsShown

\* DrawBootMenu highlights the selected entry when its loop reaches it; the
\* text menu lists every entry.
Draw ==
  /\ phase = "draw"
  /\ highlight' = IF Status = "ok" /\ ~Visible(SelectedEntry)
                  THEN NoEntry ELSE SelectedEntry
  /\ phase' = "mouse"
  /\ UNCHANGED <<tableVars, SelectedEntry, MenuScrollOffset, Status, gop, ret>>

\* DrawBootMenu and the mouse code (on text menus too) read
\* GraphicsOutput->Mode, NULL without the protocol: the machine may fault there.
NullGraphics ==
  /\ ~gop
  /\ phase = "mouse" \/ (phase = "draw" /\ Status = "ok")
  /\ phase' = "crashed"
  /\ UNCHANGED <<tableVars, SelectedEntry, MenuScrollOffset, Status, gop,
                 highlight, ret>>

\* Starting an entry: its BootFunction runs, or ShowBootMenu returns at once.
Boot(i) ==
  IF Entry(i).BootFunction = NoFunction
  THEN phase' = "returned" /\ ret' = "success"
  ELSE phase' = "booting" /\ ret' = ret

\* Mutant: the row under the pointer is taken for the entry's index, and the
\* pointer is looked for on every row of the window.
MouseOverAnyRow(row, left) ==
  /\ phase = "mouse"
  /\ row \in Rows
  /\ SelectedEntry' = MenuScrollOffset + row
  /\ phase' = "key"
  /\ ret' = ret
  /\ UNCHANGED <<tableVars, MenuScrollOffset, Status, gop, highlight>>

\* GetMouseState leaves the pointer over a row, with the button down or not.
MouseOver(row, left) ==
  /\ phase = "mouse"
  /\ row \in RowsShown
  /\ SelectedEntry' = MenuScrollOffset + row
  /\ IF left THEN Boot(MenuScrollOffset + row)
             ELSE phase' = "key" /\ ret' = ret
  /\ UNCHANGED <<tableVars, MenuScrollOffset, Status, gop, highlight>>

\* No pointer, or a pointer over no row.
MouseElsewhere ==
  /\ phase = "mouse"
  /\ phase' = "key"
  /\ UNCHANGED <<tableVars, SelectedEntry, MenuScrollOffset, Status, gop,
                 highlight, ret>>

\* WaitForEvent or ReadKeyStroke fails: Status now holds that failure.
KeyError ==
  /\ phase = "key"
  /\ Status' = "error"
  /\ phase' = "draw"
  /\ UNCHANGED <<tableVars, SelectedEntry, MenuScrollOffset, gop, highlight, ret>>

\* A key was read: Status is that success, whatever the graphics said.
KeyRead ==
  /\ phase = "key"
  /\ Status' = "ok"
  /\ UNCHANGED <<tableVars, gop, highlight>>

Holders(c) == {i \in 0..(BootEntryCount - 1) :
                 i + 1 \in DOMAIN BootEntryHotkeys /\ BootEntryHotkeys[i + 1] = c}

\* A character selects the first entry whose hotkey it is; the window stays.
PressLetter(c) ==
  /\ KeyRead
  /\ \/ Holders(c) = {} /\ UNCHANGED SelectedEntry
     \/ \E i \in Holders(c) : /\ \A j \in Holders(c) : i <= j
                             /\ SelectedEntry' = i
  /\ phase' = "draw"
  /\ UNCHANGED <<MenuScrollOffset, ret>>

PressEnter ==
  /\ KeyRead
  /\ Boot(SelectedEntry)
  /\ UNCHANGED <<SelectedEntry, MenuScrollOffset>>

PressUp ==
  /\ KeyRead
  /\ \/ /\ SelectedEntry > 0
        /\ SelectedEntry' = SelectedEntry - 1
        /\ MenuScrollOffset' = IF SelectedEntry - 1 < MenuScrollOffset
                               THEN MenuScrollOffset - 1 ELSE MenuScrollOffset
     \/ /\ SelectedEntry <= 0
        /\ SelectedEntry' = BootEntryCount - 1
        /\ MenuScrollOffset' = IF BootEntryCount > VISIBLE_MENU_ENTRIES
                               THEN BootEntryCount - VISIBLE_MENU_ENTRIES ELSE 0
  /\ phase' = "draw"
  /\ UNCHANGED ret

\* Mutant: the window scrolls when the selection has already left it.
ScrollForLate(sel) ==
  IF sel > MenuScrollOffset + VISIBLE_MENU_ENTRIES
  THEN MenuScrollOffset + 1 ELSE MenuScrollOffset

ScrollFor(sel) ==
  IF sel >= MenuScrollOffset + VISIBLE_MENU_ENTRIES
  THEN MenuScrollOffset + 1 ELSE MenuScrollOffset

PressDown ==
  /\ KeyRead
  /\ \/ /\ SelectedEntry < BootEntryCount - 1
        /\ SelectedEntry' = SelectedEntry + 1
        /\ MenuScrollOffset' = ScrollFor(SelectedEntry + 1)
     \/ /\ SelectedEntry >= BootEntryCount - 1
        /\ SelectedEntry' = 0
        /\ MenuScrollOffset' = 0
  /\ phase' = "draw"
  /\ UNCHANGED ret

PressEscape ==
  /\ KeyRead
  /\ phase' = "returned"
  /\ ret' = "aborted"
  /\ UNCHANGED <<SelectedEntry, MenuScrollOffset>>

\* The wrapper of the entry returns a status, and ShowBootMenu returns it.
BootFunctionReturns ==
  /\ phase = "booting"
  /\ phase' = "returned"
  /\ ret' \in {"success", "error"}
  /\ UNCHANGED <<tableVars, SelectedEntry, MenuScrollOffset, Status, gop,
                 highlight>>

\* The wrapper does not return: its kernel runs, or the machine was reset.
BootFunctionLeaves ==
  /\ phase = "booting"
  /\ phase' = "gone"
  /\ UNCHANGED <<tableVars, SelectedEntry, MenuScrollOffset, Status, gop,
                 highlight, ret>>

MenuNext ==
  \/ Register
  \/ EnterMenu
  \/ Draw
  \/ NullGraphics
  \/ \E row \in Rows, left \in BOOLEAN : MouseOver(row, left)
  \/ MouseElsewhere
  \/ KeyError
  \/ \E c \in Letters : PressLetter(c)
  \/ PressEnter
  \/ PressUp
  \/ PressDown
  \/ PressEscape
  \/ BootFunctionReturns
  \/ BootFunctionLeaves

MenuSpec == MenuInit /\ [][MenuNext]_menuVars

-----------------------------------------------------------------------------
(* Properties *)

InLoop == phase \in {"draw", "mouse", "key"}

\* The values of the menu's variables.  The table never outgrows its array.
MenuTypeOK ==
  /\ pending \in Seq(EntryType)
  /\ BootEntries \in Seq(EntryType)
  /\ BootEntryCount <= MAX_BOOT_ENTRIES
  /\ SelectedEntry \in Nat
  /\ MenuScrollOffset \in Nat
  /\ Status \in {"ok", "error"}
  /\ gop \in BOOLEAN
  /\ highlight \in Nat \cup {NoEntry}
  /\ phase \in {"register", "draw", "mouse", "key", "booting", "returned",
                "gone", "crashed"}
  /\ ret \in {"none", "success", "error", "aborted"}

\* ShowBootMenu indexes BootEntries with SelectedEntry, and draws from
\* MenuScrollOffset on, without testing either: keys, wraps, hotkeys and the
\* pointer together must keep the selection on an entry and the window filled.
WindowOK ==
  phase # "register" =>
    /\ 0 <= SelectedEntry
    /\ SelectedEntry < BootEntryCount
    /\ 0 <= MenuScrollOffset
    /\ MenuScrollOffset = 0 \/ MenuScrollOffset + VISIBLE_MENU_ENTRIES <= BootEntryCount

\* The hotkey painted beside an entry selects that entry and no other, although
\* AssignHotkeys and the search in the key handler are separate loops.
HotkeysReachTheirEntry ==
  \A i, j \in DOMAIN BootEntryHotkeys :
    BootEntryHotkeys[i] = BootEntryHotkeys[j] => i = j \/ BootEntryHotkeys[i] = NoKey

\* An arrow key never takes a selection that is in the window out of it.
ArrowsKeepSelectionVisible ==
  [][PressUp \/ PressDown => (Visible(SelectedEntry) => Visible(SelectedEntry)')]_menuVars

\* "Enter to boot the selected entry" (USAGE.md): what Enter starts is what the
\* screen shows as selected at that moment.
EnterBootsHighlighted ==
  [][PressEnter => highlight = SelectedEntry]_menuVars

=============================================================================
