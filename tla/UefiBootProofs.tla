--------------------------- MODULE UefiBootProofs ---------------------------
(***************************************************************************)
(* For every table capacity, window height and list of entries: the menu's *)
(* indices stay in bounds, every hotkey is one entry's, the arrow keys keep *)
(* the selection on the screen, and with secure boot on, and its variable  *)
(* read, only a verified image is started.                                 *)
(***************************************************************************)
EXTENDS UefiBoot, Loops

\* The inductive invariant of the menu.  WindowOK alone says nothing of the
\* registration phase, whose last step makes it true.
MenuInv ==
  /\ MenuTypeOK
  /\ WindowOK
  /\ phase = "register" => SelectedEntry = 0 /\ MenuScrollOffset = 0

\* The initial state of the menu satisfies the invariant.
LEMMA MenuInitInv == MenuInit => MenuInv
<1> SUFFICES ASSUME MenuInit PROVE MenuInv
  OBVIOUS
<1> USE DEF MenuInit
<1>1. /\ pending \in Seq(EntryType)
      /\ MAX_BOOT_ENTRIES \in Nat
  BY BootMenuAssumption DEF BootMenuAssumption
<1>2. BootEntries \in Seq(EntryType) /\ Len(BootEntries) = 0
  OBVIOUS
<1>3. MenuTypeOK
  <2>1. BootEntryCount <= MAX_BOOT_ENTRIES
    BY <1>1, <1>2 DEF BootEntryCount
  <2>2. gop \in BOOLEAN
    OBVIOUS
  <2>3. SelectedEntry \in Nat /\ MenuScrollOffset \in Nat
    OBVIOUS
  <2>4. QED
    BY <1>1, <1>2, <2>1, <2>2, <2>3 DEF MenuTypeOK
<1>4. QED
  BY <1>3 DEF MenuInv, WindowOK

\* AddBootEntry keeps the table a sequence of entries no longer than its array.
LEMMA AddBootEntryType ==
  ASSUME NEW table \in Seq(EntryType), Len(table) <= MAX_BOOT_ENTRIES,
         NEW x \in EntryType
  PROVE  /\ AddBootEntry(table, x) \in Seq(EntryType)
         /\ Len(AddBootEntry(table, x)) <= MAX_BOOT_ENTRIES
         /\ Len(table) = 0 => Len(AddBootEntry(table, x)) = 1
  BY BootMenuAssumption DEF BootMenuAssumption, AddBootEntry

\* No step of the menu breaks the invariant: one step of the proof per action.
LEMMA MenuNextInv == MenuInv /\ [MenuNext]_menuVars => MenuInv'
<1> SUFFICES ASSUME MenuInv, [MenuNext]_menuVars
             PROVE  MenuInv'
  OBVIOUS
<1> USE BootMenuAssumption
        DEF BootMenuAssumption, MenuInv, MenuTypeOK, WindowOK, BootEntryCount
<1>1. CASE Register
  <2>1. Head(pending) \in EntryType /\ Tail(pending) \in Seq(EntryType)
    BY <1>1 DEF Register
  <2>2. QED
    BY <1>1, <2>1, AddBootEntryType DEF Register
<1>2. CASE EnterMenu
  <2>1. FallbackEntry \in EntryType
    BY DEF FallbackEntry, EntryType
  <2>2. /\ BootEntries' \in Seq(EntryType)
        /\ Len(BootEntries') <= MAX_BOOT_ENTRIES
        /\ Len(BootEntries') > 0
    BY <1>2, <2>1, AddBootEntryType DEF EnterMenu
  <2>3. gop' \in BOOLEAN
    BY <1>2 DEF EnterMenu
  <2>4. QED
    BY <1>2, <2>2, <2>3 DEF EnterMenu
<1>3. CASE Draw
  BY <1>3 DEF Draw, tableVars
<1>4. CASE NullGraphics
  BY <1>4 DEF NullGraphics, tableVars
<1>5. ASSUME NEW row \in Rows, NEW left \in BOOLEAN, MouseOver(row, left)
      PROVE  MenuInv'
  BY <1>5 DEF MouseOver, Boot, Rows, RowsShown, tableVars
<1>6. CASE MouseElsewhere
  BY <1>6 DEF MouseElsewhere, tableVars
<1>7. CASE KeyError
  BY <1>7 DEF KeyError, tableVars
<1>8. ASSUME NEW c \in Letters, PressLetter(c)
      PROVE  MenuInv'
  BY <1>8 DEF PressLetter, KeyRead, Holders, tableVars
<1>9. CASE PressEnter
  BY <1>9 DEF PressEnter, KeyRead, Boot, tableVars
<1>10. CASE PressUp
  BY <1>10 DEF PressUp, KeyRead, tableVars
<1>11. CASE PressDown
  BY <1>11 DEF PressDown, ScrollFor, KeyRead, tableVars
<1>12. CASE PressEscape
  BY <1>12 DEF PressEscape, KeyRead, tableVars
<1>13. CASE BootFunctionReturns
  BY <1>13 DEF BootFunctionReturns, tableVars
<1>14. CASE BootFunctionLeaves
  BY <1>14 DEF BootFunctionLeaves, tableVars
<1>15. CASE UNCHANGED menuVars
  BY <1>15 DEF menuVars
<1>16. QED
  BY <1>1, <1>2, <1>3, <1>4, <1>5, <1>6, <1>7, <1>8, <1>9, <1>10, <1>11,
     <1>12, <1>13, <1>14, <1>15 DEF MenuNext

-----------------------------------------------------------------------------
(* Hotkeys and arrow keys *)

Keys == Letters \cup {NoKey}

\* Hotkeys of which no letter is given twice.
Distinct(h) == \A i, j \in DOMAIN h : h[i] = h[j] => i = j \/ h[i] = NoKey

\* The key of an entry is a letter no earlier entry has, or none.
LEMMA FirstUnusedIsNew ==
  ASSUME NEW name \in Seq(Letters), NEW used
  PROVE  \/ FirstUnused(name, used) = NoKey
         \/ FirstUnused(name, used) \in Letters \ used
<1> DEFINE free == {j \in DOMAIN name : name[j] \notin used}
           first == CHOOSE j \in free : \A k \in free : j <= k
<1>1. /\ Len(name) \in Nat /\ DOMAIN name = 1..Len(name)
      /\ \A j \in 1..Len(name) : name[j] \in Letters
  BY LenProperties
<1>2. CASE free = {}
  BY <1>2 DEF FirstUnused
<1>3. CASE free # {}
  <2>1. free \in SUBSET (1..Len(name))
    BY <1>1
  <2>2. first \in free
    <3> HIDE DEF free
    <3> QED
      BY <1>1, <1>3, <2>1, FirstIndex
  <2>3. FirstUnused(name, used) = name[first]
    BY <1>3 DEF FirstUnused
  <2> HIDE DEF first
  <2>4. QED
    BY <1>1, <2>2, <2>3
<1>4. QED
  BY <1>2, <1>3

\* A key more, unlike those before it, leaves them distinct.
LEMMA AppendDistinct ==
  ASSUME NEW h \in Seq(Keys), Distinct(h), NEW key \in Keys,
         key = NoKey \/ key \notin {h[j] : j \in DOMAIN h}
  PROVE  Append(h, key) \in Seq(Keys) /\ Distinct(Append(h, key))
<1> DEFINE n == Len(h)
           more == Append(h, key)
<1>1. /\ n \in Nat /\ DOMAIN h = 1..n
      /\ more \in Seq(Keys) /\ DOMAIN more = 1..(n + 1)
      /\ \A i \in 1..n : more[i] = h[i]
      /\ more[n + 1] = key
  BY LenProperties, AppendProperties
<1>2. \A i \in 1..(n + 1) : i \in 1..n \/ i = n + 1
  BY <1>1
<1>3. \A i \in 1..n : h[i] = key => key = NoKey
  BY <1>1
<1> HIDE DEF n, more
<1>4. ASSUME NEW i \in 1..(n + 1), NEW j \in 1..(n + 1), more[i] = more[j]
      PROVE  i = j \/ more[i] = NoKey
  <2>1. CASE i \in 1..n /\ j \in 1..n
    BY <1>1, <1>4, <2>1 DEF Distinct
  <2>2. CASE i = n + 1 \/ j = n + 1
    BY <1>1, <1>2, <1>3, <1>4, <2>2
  <2>3. QED
    BY <1>2, <2>1, <2>2
<1>5. QED
  BY <1>1, <1>4 DEF Distinct, more

\* AssignHotkeys gives no letter twice, whatever the names.
LEMMA AssignedAreDistinct ==
  ASSUME NEW entries \in Seq(EntryType)
  PROVE  Distinct(AssignHotkeys(entries))
<1> DEFINE n == Len(entries)
           Key(i, h) == FirstUnused(entries[i].Name, {h[j] : j \in DOMAIN h})
           Turn(i, h) == Append(h, Key(i, h))
           IsLoop(f) == f = [i \in 0..n |-> IF i = 0 THEN << >> ELSE Turn(i, f[i - 1])]
<1>1. n \in Nat /\ \A i \in 1..n : entries[i].Name \in Seq(Letters)
  <2>1. n \in Nat /\ \A i \in 1..n : entries[i] \in EntryType
    BY LenProperties
  <2>2. \A e \in EntryType : e.Name \in Seq(Letters)
    BY DEF EntryType
  <2>3. QED
    BY <2>1, <2>2
<1>2. ASSUME NEW i \in 1..n, NEW h
      PROVE  Key(i, h) \in Keys /\ (Key(i, h) = NoKey \/ Key(i, h) \notin {h[j] : j \in DOMAIN h})
  BY <1>1, FirstUnusedIsNew DEF Keys
<1> DEFINE D == Seq(Keys)
<1> HIDE DEF n, Key
<1>3. \A i \in 1..n : \A h \in D : Turn(i, h) \in D
  BY <1>2, AppendProperties
<1>4. \E f : IsLoop(f)
  <2> DEFINE step == [x \in (1..n) \X D |-> Turn(x[1], x[2])]
  <2>1. step \in [(1..n) \X D -> D]
    <3>1. ASSUME NEW x \in (1..n) \X D PROVE Turn(x[1], x[2]) \in D
      <4> HIDE DEF Turn, D
      <4> QED
        BY <1>3
    <3> HIDE DEF Turn, D
    <3>2. QED
      BY <3>1
  <2>2. << >> \in D
    OBVIOUS
  <2>3. ASSUME NEW i \in 1..n, NEW h \in D PROVE step[<<i, h>>] = Turn(i, h)
    <3> HIDE DEF Turn, D
    <3> QED
      OBVIOUS
  <2> HIDE DEF step, D, Turn
  <2>4. PICK f \in [0..n -> D] : Unfolds(f, n, << >>, step)
    BY <1>1, <2>1, <2>2, RecursionOverInterval
  <2>5. ASSUME NEW i \in 1..n PROVE f[i] = Turn(i, f[i - 1])
    <3>1. i - 1 \in 0..n
      BY <1>1
    <3>2. f[i - 1] \in D
      BY <2>4, <3>1
    <3>3. QED
      BY <2>3, <2>4, <3>2 DEF Unfolds
  <2>6. f[0] = << >>
    BY <2>4 DEF Unfolds
  <2>7. QED
    BY <1>1, <2>4, <2>5, <2>6
<1> DEFINE f == CHOOSE g : IsLoop(g)
<1>5. IsLoop(f)
  <2> HIDE DEF IsLoop
  <2> QED
    BY <1>4
<1>6. AssignHotkeys(entries) = f[n]
  BY DEF AssignHotkeys, n, Key
<1> HIDE DEF f
<1>7. f[0] = << >> /\ \A i \in 1..n : f[i] = Turn(i, f[i - 1])
  <2> HIDE DEF Turn
  <2> QED
    BY <1>1, <1>5
<1> DEFINE S == {k \in 0..n : f[k] \in D /\ Distinct(f[k])}
<1>8. 0 \in S
  <2>1. f[0] \in D /\ DOMAIN f[0] = {} /\ 0 \in 0..n
    BY <1>1, <1>7
  <2>2. QED
    BY <2>1 DEF Distinct
<1>9. ASSUME NEW k \in 0..(n - 1), k \in S PROVE k + 1 \in S
  <2>1. k + 1 \in 1..n /\ k + 1 \in 0..n /\ (k + 1) - 1 = k
    BY <1>1
  <2>2. f[k + 1] = Append(f[k], Key(k + 1, f[k]))
    BY <1>7, <2>1
  <2>3. f[k] \in Seq(Keys) /\ Distinct(f[k])
    BY <1>9
  <2>4. /\ Key(k + 1, f[k]) \in Keys
        /\ Key(k + 1, f[k]) = NoKey \/ Key(k + 1, f[k]) \notin {f[k][j] : j \in DOMAIN f[k]}
    BY <1>2, <2>1
  <2>5. f[k + 1] \in Seq(Keys) /\ Distinct(f[k + 1])
    BY <2>2, <2>3, <2>4, AppendDistinct
  <2>6. QED
    BY <2>1, <2>5
<1>10. n \in S
  <2> HIDE DEF S
  <2>1. 0..n \subseteq S
    BY <1>1, <1>8, <1>9, IntervalInduction
  <2>2. QED
    BY <1>1, <2>1
<1>11. QED
  BY <1>6, <1>10

\* Hotkeys are assigned once, from a table of entries.
LEMMA HotkeysStep ==
  ASSUME MenuInv, HotkeysReachTheirEntry, [MenuNext]_menuVars
  PROVE  HotkeysReachTheirEntry'
<1>1. CASE UNCHANGED BootEntryHotkeys
  BY <1>1 DEF HotkeysReachTheirEntry
<1>2. CASE EnterMenu
  <2>1. Distinct(BootEntryHotkeys')
    BY <1>2, AssignedAreDistinct DEF EnterMenu, MenuInv, MenuTypeOK
  <2>2. QED
    BY <2>1 DEF Distinct, HotkeysReachTheirEntry
<1>3. QED
  BY <1>1, <1>2 DEF MenuNext, menuVars, tableVars, Register, Draw, NullGraphics,
     MouseOver, MouseElsewhere, KeyError, PressLetter, PressEnter, PressUp,
     PressDown, PressEscape, KeyRead, BootFunctionReturns, BootFunctionLeaves

\* The arrow keys move the window with the selection, also where they wrap.
LEMMA ArrowStep ==
  ASSUME MenuInv, PressUp \/ PressDown, Visible(SelectedEntry)
  PROVE  Visible(SelectedEntry)'
<1> DEFINE count == BootEntryCount
           height == VISIBLE_MENU_ENTRIES
<1>1. /\ count \in Nat /\ height \in Nat \ {0}
      /\ SelectedEntry \in Nat /\ MenuScrollOffset \in Nat
  BY BootMenuAssumption, LenProperties
     DEF BootMenuAssumption, MenuInv, MenuTypeOK, BootEntryCount
<1>2. phase = "key" /\ BootEntryCount' = count
  BY DEF PressUp, PressDown, KeyRead, tableVars, BootEntryCount
<1>3. SelectedEntry < count
  BY <1>2 DEF MenuInv, WindowOK
<1>4. /\ MenuScrollOffset <= SelectedEntry
      /\ SelectedEntry - MenuScrollOffset < height
  BY <1>1 DEF Visible, RowsShown, Rows
<1> HIDE DEF count, height
<1>5. SelectedEntry' \in Nat /\ MenuScrollOffset' \in Nat
      /\ MenuScrollOffset' <= SelectedEntry'
      /\ SelectedEntry' - MenuScrollOffset' < height
      /\ SelectedEntry' < count
  <2>1. CASE PressUp
    <3>1. CASE SelectedEntry > 0
      <4>1. /\ SelectedEntry' = SelectedEntry - 1
            /\ MenuScrollOffset' = IF SelectedEntry - 1 < MenuScrollOffset
                                   THEN MenuScrollOffset - 1 ELSE MenuScrollOffset
        BY <1>1, <2>1, <3>1 DEF PressUp
      <4>2. QED
        BY <1>1, <1>3, <1>4, <3>1, <4>1
    <3>2. CASE SelectedEntry <= 0
      <4>1. /\ SelectedEntry' = count - 1
            /\ MenuScrollOffset' = IF count > height THEN count - height ELSE 0
        BY <1>1, <2>1, <3>2 DEF PressUp, count, height
      <4>2. QED
        BY <1>1, <1>3, <4>1
    <3>3. QED
      BY <1>1, <3>1, <3>2
  <2>2. CASE PressDown
    <3>1. CASE SelectedEntry < count - 1
      <4>1. /\ SelectedEntry' = SelectedEntry + 1
            /\ MenuScrollOffset' = IF SelectedEntry + 1 >= MenuScrollOffset + height
                                   THEN MenuScrollOffset + 1 ELSE MenuScrollOffset
        BY <1>1, <2>2, <3>1 DEF PressDown, ScrollFor, count, height
      <4>2. QED
        BY <1>1, <1>3, <1>4, <3>1, <4>1
    <3>2. CASE SelectedEntry >= count - 1
      <4>1. SelectedEntry' = 0 /\ MenuScrollOffset' = 0
        BY <1>1, <2>2, <3>2 DEF PressDown, count
      <4>2. QED
        BY <1>1, <1>3, <4>1
    <3>3. QED
      BY <1>1, <3>1, <3>2
  <2>3. QED
    BY <2>1, <2>2
<1>6. /\ SelectedEntry' - MenuScrollOffset' \in 0..(height - 1)
      /\ MenuScrollOffset' + (SelectedEntry' - MenuScrollOffset') < count
  <2>1. \A a, b \in Nat : b <= a /\ a - b < height =>
          a - b \in 0..(height - 1) /\ b + (a - b) = a
    BY <1>1
  <2>2. QED
    BY <1>5, <2>1
<1>7. Visible(SelectedEntry)' <=>
        /\ SelectedEntry' - MenuScrollOffset' \in 0..(height - 1)
        /\ MenuScrollOffset' + (SelectedEntry' - MenuScrollOffset') < BootEntryCount'
  BY DEF Visible, RowsShown, Rows, height
<1>8. QED
  BY <1>2, <1>6, <1>7

-----------------------------------------------------------------------------
(* The boot path *)

\* What the code holds at each call, and why an image got where it is.
HeldInv ==
  /\ "file" \in held => pc \in InReadFile \ {"open"}
  /\ "info" \in held => pc \in {"get_info", "alloc_buffer", "read"}
  /\ "buffer" \in held =>
       \/ pc \in {"read", "verify", "load_image", "start_image", "running", "returned"}
       \/ pc \in {"failed", "reset"} /\ image \in {"refused", "unloaded"}

\* Before LoadImage there is no image, and secure boot let the boot path get
\* there only with a verified buffer, or unread.
SecureInv ==
  /\ image # "none" => pc \in {"start_image", "failed", "returned", "running", "reset"}
  /\ (secureBoot /\ pc \in {"load_image", "start_image"}) =>
       unread \/ (verified /\ "buffer" \in held)
  /\ OnlyVerifiedImageRuns

BootTypeOK ==
  /\ pc \in {"entry", "menu", "root", "verify", "load_image", "start_image",
             "failed", "returned", "running", "reset"} \cup InReadFile
  /\ held \subseteq Resources
  /\ {secureBoot, signed, verified, unread} \subseteq BOOLEAN
  /\ image \in {"none", "refused", "loaded", "started", "unloaded"}

BootInv == BootTypeOK /\ HeldInv /\ SecureInv

\* UefiMain starts with nothing held and no image.
LEMMA BootInitInv == UefiInit => BootInv
  BY DEF UefiInit, BootInv, BootTypeOK, HeldInv, SecureInv,
         OnlyVerifiedImageRuns, InReadFile, Resources

\* Every firmware call, and every way it can fail, keeps the three parts.
LEMMA BootNextInv == BootInv /\ [UefiNext]_uefiVars => BootInv'
<1> SUFFICES ASSUME BootInv, [UefiNext]_uefiVars
             PROVE  BootInv'
  OBVIOUS
<1> USE DEF BootInv, BootTypeOK, HeldInv, SecureInv, OnlyVerifiedImageRuns,
            InReadFile, Resources
<1>1. CASE GetLoadedImage
  BY <1>1 DEF GetLoadedImage, Step, Goto
<1>2. CASE Menu
  BY <1>2 DEF Menu, bootVars
<1>3. CASE MenuReturned
  BY <1>3 DEF MenuReturned, Step, Goto
<1>4. CASE GetRootFileSystem
  BY <1>4 DEF GetRootFileSystem, Step, Goto
<1>5. CASE OpenFile
  BY <1>5 DEF OpenFile, Step, Goto
<1>6. CASE GetInfoSize
  BY <1>6 DEF GetInfoSize, Step, Goto
<1>7. CASE AllocInfo
  BY <1>7 DEF AllocInfo, Step, Goto
<1>8. CASE GetInfo
  BY <1>8 DEF GetInfo, Step, Goto
<1>9. CASE AllocBuffer
  BY <1>9 DEF AllocBuffer, Step, Goto
<1>10. CASE Read
  BY <1>10 DEF Read, Step, Goto
<1>11. CASE VerifyKernel
  <2>1. CASE ~secureBoot /\ Step("verify", "load_image", {}, {})
    BY <2>1 DEF Step, Goto
  <2>2. CASE Step("verify", "failed", {}, {"buffer"})
    BY <2>2 DEF Step, Goto
  <2>3. CASE /\ "buffer" \in held
             /\ Goto("verify", "load_image", {}, {})
             /\ verified' = TRUE
             /\ UNCHANGED <<unread, image>>
    <3>1. held' = held /\ pc' = "load_image" /\ image' = "none" /\ verified'
      BY <2>3 DEF Goto
    <3>2. BootTypeOK'
      BY <2>3, <3>1 DEF Goto
    <3>3. HeldInv'
      BY <2>3, <3>1 DEF Goto
    <3>4. SecureInv'
      BY <2>3, <3>1 DEF Goto
    <3>5. QED
      BY <3>2, <3>3, <3>4
  <2>4. CASE /\ Goto("verify", "load_image", {}, {})
             /\ unread' = TRUE
             /\ UNCHANGED <<verified, image>>
    <3>1. held' = held /\ pc' = "load_image" /\ image' = "none" /\ unread'
      BY <2>4 DEF Goto
    <3>2. BootTypeOK'
      BY <2>4, <3>1 DEF Goto
    <3>3. HeldInv'
      BY <2>4, <3>1 DEF Goto
    <3>4. SecureInv'
      BY <2>4, <3>1 DEF Goto
    <3>5. QED
      BY <3>2, <3>3, <3>4
  <2>5. QED
    BY <1>11, <2>1, <2>2, <2>3, <2>4 DEF VerifyKernel
<1>12. CASE LoadImage
  <2>1. held' = held /\ verified' = verified /\ secureBoot' = secureBoot /\ unread' = unread
    BY <1>12 DEF LoadImage, Goto
  <2>2. pc = "load_image" /\ pc' \in {"start_image", "failed"}
    BY <1>12 DEF LoadImage, Goto
  <2>3. image' \in {"loaded", "refused"} /\ (pc' = "failed" => image' = "refused")
    BY <1>12 DEF LoadImage, Goto
  <2>4. BootTypeOK'
    BY <1>12, <2>1, <2>2, <2>3 DEF LoadImage, Goto
  <2>5. HeldInv'
    BY <2>1, <2>2, <2>3
  <2>6. SecureInv'
    BY <2>1, <2>2, <2>3
  <2>7. QED
    BY <2>4, <2>5, <2>6
<1>13. CASE StartImage
  <2>1. held' = held /\ verified' = verified /\ secureBoot' = secureBoot /\ unread' = unread
    BY <1>13 DEF StartImage, Goto
  <2>2. pc = "start_image" /\ pc' \in {"failed", "returned", "running"}
    BY <1>13 DEF StartImage, Goto
  <2>3. image' \in {"unloaded", "started"} /\ (pc' = "failed" => image' = "unloaded")
    BY <1>13 DEF StartImage, Goto
  <2>4. BootTypeOK'
    BY <1>13, <2>1, <2>2, <2>3 DEF StartImage, Goto
  <2>5. HeldInv'
    BY <2>1, <2>2, <2>3
  <2>6. SecureInv'
    BY <2>1, <2>2, <2>3
  <2>7. QED
    BY <2>4, <2>5, <2>6
<1>14. CASE Reboot
  BY <1>14 DEF Reboot, Step, Goto
<1>15. CASE UNCHANGED uefiVars
  BY <1>15 DEF uefiVars, bootVars
<1>16. QED
  BY <1>1, <1>2, <1>3, <1>4, <1>5, <1>6, <1>7, <1>8, <1>9, <1>10, <1>11,
     <1>12, <1>13, <1>14, <1>15 DEF UefiNext

-----------------------------------------------------------------------------
(* The two together *)

\* A step of UefiMain is a step of the menu or leaves the menu alone.
LEMMA UefiStepIsMenuStep == [UefiNext]_uefiVars => [MenuNext]_menuVars
  BY DEF UefiNext, uefiVars, Menu, GetLoadedImage, MenuReturned, GetRootFileSystem,
         OpenFile, GetInfoSize, AllocInfo, GetInfo, AllocBuffer, Read,
         VerifyKernel, LoadImage, StartImage, Reboot, Step, Goto

\* Under UefiSpec the two inductive invariants hold always.
THEOREM UefiInvariant == UefiSpec => [](MenuInv /\ BootInv)
<1>1. UefiInit => MenuInv /\ BootInv
  BY MenuInitInv, BootInitInv DEF UefiInit
<1>2. MenuInv /\ BootInv /\ [UefiNext]_uefiVars => (MenuInv /\ BootInv)'
  BY MenuNextInv, BootNextInv, UefiStepIsMenuStep
<1>3. QED
  BY <1>1, <1>2, PTL DEF UefiSpec

\* The variables of UefiMain and of the menu keep their types, and the table of
\* entries never outgrows its array, for any capacity and any registrations.
THEOREM UefiTypeCorrect == UefiSpec => []UefiTypeOK
<1>1. MenuInv /\ BootInv => UefiTypeOK
  BY DEF MenuInv, BootInv, BootTypeOK, UefiTypeOK
<1>2. QED
  BY <1>1, UefiInvariant, PTL

\* Whatever keys and pointer moves the user mixes, SelectedEntry indexes an
\* entry and the scroll offset leaves no gap in the window.
THEOREM WindowSafe == UefiSpec => []WindowOK
<1>1. MenuInv /\ BootInv => WindowOK
  BY DEF MenuInv
<1>2. QED
  BY <1>1, UefiInvariant, PTL

\* With secure boot on and its variable read, an image that reached LoadImage had
\* its signature verified in the buffer ReadFile filled.
THEOREM SecureBootSafe == UefiSpec => []OnlyVerifiedImageRuns
<1>1. MenuInv /\ BootInv => OnlyVerifiedImageRuns
  BY DEF BootInv, SecureInv
<1>2. QED
  BY <1>1, UefiInvariant, PTL

\* On every error path ReadFile and LoadAndVerifyKernel give back the handle,
\* the file information and the buffer.
THEOREM ReadFileSafe == UefiSpec => []ReadFileGivesBack
<1>1. MenuInv /\ BootInv => ReadFileGivesBack
  BY DEF BootInv, HeldInv, ReadFileGivesBack, InReadFile
<1>2. QED
  BY <1>1, UefiInvariant, PTL

\* The hotkey painted beside an entry selects that entry and no other.
THEOREM HotkeysSafe == UefiSpec => []HotkeysReachTheirEntry
<1>1. UefiInit => HotkeysReachTheirEntry
  BY DEF UefiInit, MenuInit, HotkeysReachTheirEntry
<1>2. MenuInv /\ HotkeysReachTheirEntry /\ [UefiNext]_uefiVars => HotkeysReachTheirEntry'
  BY HotkeysStep, UefiStepIsMenuStep
<1>3. QED
  BY <1>1, <1>2, UefiInvariant, PTL DEF UefiSpec

\* No arrow key takes a selection that is in the window out of it.
THEOREM ArrowsSafe == UefiSpec => ArrowsKeepSelectionVisible
<1>1. MenuInv /\ [UefiNext]_uefiVars =>
        [PressUp \/ PressDown => (Visible(SelectedEntry) => Visible(SelectedEntry)')]_menuVars
  BY ArrowStep
<1>2. QED
  BY <1>1, UefiInvariant, PTL DEF UefiSpec, ArrowsKeepSelectionVisible

=============================================================================
