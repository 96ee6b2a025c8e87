------------------------------ MODULE UefiBoot ------------------------------
(***************************************************************************)
(* UefiMain of main.c: it registers the entries, runs the menu of module   *)
(* BootMenu and, when the menu returns EFI_SUCCESS, loads kernel.efi with  *)
(* LoadAndVerifyKernel (boot/secure.c), which reads it with ReadFile       *)
(* (uefi/uefi.c), and starts it with ExecuteKernel.  Every firmware call   *)
(* may fail, and is a step of its own; "held" is what the code has opened  *)
(* or allocated and has not yet closed or freed.                           *)
(***************************************************************************)
EXTENDS BootMenu

VARIABLES
  pc,          \* the firmware call UefiMain makes next
  held,        \* subset of Resources
  secureBoot,  \* the SecureBoot variable of the firmware is 1
  signed,      \* kernel.efi carries a signature the PK verifies
  verified,    \* VerifyImageSignature returned EFI_SUCCESS
  unread,      \* history: SecureBoot is 1 and GetVariable failed to read it
  image        \* what became of the image given to LoadImage

bootVars == <<pc, held, secureBoot, signed, verified, unread, image>>
uefiVars == <<menuVars, bootVars>>

Resources == {"root", "file", "info", "buffer"}

UefiInit ==
  /\ MenuInit
  /\ pc = "entry"
  /\ held = {}
  /\ secureBoot \in BOOLEAN
  /\ signed \in BOOLEAN
  /\ verified = FALSE
  /\ unread = FALSE
  /\ image = "none"

\* A step of the boot path that only moves on, having gained and lost resources.
Goto(from, to, gained, lost) ==
  /\ pc = from
  /\ pc' = to
  /\ held' = (held \cup gained) \ lost
  /\ UNCHANGED <<menuVars, secureBoot, signed>>

Step(from, to, gained, lost) ==
  Goto(from, to, gained, lost) /\ UNCHANGED <<verified, unread, image>>

\* UefiMain gives up before the menu without its LoadedImage protocol.
GetLoadedImage ==
  /\ phase = "register"
  /\ Step("entry", "menu", {}, {}) \/ Step("entry", "returned", {}, {})

\* The menu runs between AddBootEntry and the return of ShowBootMenu.
Menu ==
  /\ pc = "menu"
  /\ MenuNext
  /\ UNCHANGED bootVars

MenuReturned ==
  /\ phase = "returned"
  /\ Step("menu", IF ret = "success" THEN "root" ELSE "failed", {}, {})

-----------------------------------------------------------------------------
(* ReadFile *)

GetRootFileSystem ==
  \/ Step("root", "open", {"root"}, {})
  \/ Step("root", "failed", {}, {})

OpenFile ==
  \/ Step("open", "info_size", {"file"}, {})
  \/ Step("open", "failed", {}, {})

\* InfoSize is not initialised: GetInfo may take it for large enough, and its
\* success is then returned as ReadFile's, with no buffer.
GetInfoSize ==
  \/ Step("info_size", "alloc_info", {}, {})
  \/ Step("info_size", "verify", {}, {"file"})
  \/ Step("info_size", "failed", {}, {"file"})

AllocInfo ==
  \/ Step("alloc_info", "get_info", {"info"}, {})
  \/ Step("alloc_info", "failed", {}, {"file"})

\* Mutant: the error path of the second GetInfo forgets to close the file.
GetInfoLeaksHandle ==
  \/ Step("get_info", "alloc_buffer", {}, {})
  \/ Step("get_info", "failed", {}, {"info"})

GetInfo ==
  \/ Step("get_info", "alloc_buffer", {}, {})
  \/ Step("get_info", "failed", {}, {"info", "file"})

\* Mutant: a failed allocation is tried again for as long as it fails.
AllocBufferRetries ==
  \/ Step("alloc_buffer", "read", {"buffer"}, {})
  \/ Step("alloc_buffer", "get_info", {}, {})

AllocBuffer ==
  \/ Step("alloc_buffer", "read", {"buffer"}, {})
  \/ Step("alloc_buffer", "failed", {}, {"info", "file"})

Read ==
  \/ Step("read", "verify", {}, {"info", "file"})
  \/ Step("read", "failed", {}, {"info", "file", "buffer"})

-----------------------------------------------------------------------------
(* LoadAndVerifyKernel, after ReadFile, and ExecuteKernel *)

\* Mutant: a failure of GetVariable("PK") is not returned.
VerifyKernelIgnoresPK ==
  Step("verify", "load_image", {}, {})

\* With secure boot on, the PK is read and the signature verified; an image
\* shorter than a signature (no buffer at all, too) is refused.  But
\* IsSecureBootEnabled takes a SecureBoot it cannot read for one that is off.
VerifyKernel ==
  \/ /\ ~secureBoot
     /\ Step("verify", "load_image", {}, {})
  \/ /\ secureBoot
     /\ Goto("verify", "load_image", {}, {})
     /\ unread' = TRUE
     /\ UNCHANGED <<verified, image>>
  \/ /\ secureBoot
     /\ Step("verify", "failed", {}, {"buffer"})
  \/ /\ secureBoot
     /\ signed
     /\ "buffer" \in held
     /\ Goto("verify", "load_image", {}, {})
     /\ verified' = TRUE
     /\ UNCHANGED <<unread, image>>

\* UefiMain keeps KernelBuffer whatever ExecuteKernel returns.
LoadImage ==
  \/ /\ "buffer" \in held
     /\ Goto("load_image", "start_image", {}, {})
     /\ image' = "loaded"
     /\ UNCHANGED <<verified, unread>>
  \/ /\ Goto("load_image", "failed", {}, {})
     /\ image' = "refused"
     /\ UNCHANGED <<verified, unread>>

StartImage ==
  \/ /\ Goto("start_image", "failed", {}, {})
     /\ image' = "unloaded"
     /\ UNCHANGED <<verified, unread>>
  \/ \E to \in {"returned", "running"} :
       /\ Goto("start_image", to, {}, {})
       /\ image' = "started"
       /\ UNCHANGED <<verified, unread>>

\* "Press any key to reboot": whatever the wait and the read return, reset.
Reboot == Step("failed", "reset", {}, {})

UefiNext ==
  \/ GetLoadedImage
  \/ Menu
  \/ MenuReturned
  \/ GetRootFileSystem
  \/ OpenFile
  \/ GetInfoSize
  \/ AllocInfo
  \/ GetInfo
  \/ AllocBuffer
  \/ Read
  \/ VerifyKernel
  \/ LoadImage
  \/ StartImage
  \/ Reboot

\* The firmware calls between the menu and the key that reboots all return.
\* The menu, its keys and the wait of Reboot are the user's: no fairness.
LoadPath == GetRootFileSystem \/ OpenFile \/ GetInfoSize \/ AllocInfo \/ GetInfo
              \/ AllocBuffer \/ Read \/ VerifyKernel \/ LoadImage \/ StartImage

UefiSpec == UefiInit /\ [][UefiNext]_uefiVars
                     /\ WF_uefiVars(MenuReturned) /\ WF_uefiVars(LoadPath)

-----------------------------------------------------------------------------
(* Properties *)

InReadFile == {"open", "info_size", "alloc_info", "get_info", "alloc_buffer", "read"}

UefiTypeOK ==
  /\ MenuTypeOK
  /\ pc \in {"entry", "menu", "root", "verify", "load_image", "start_image",
             "failed", "returned", "running", "reset"} \cup InReadFile
  /\ held \subseteq Resources
  /\ {secureBoot, signed, verified, unread} \subseteq BOOLEAN
  /\ image \in {"none", "refused", "loaded", "started", "unloaded"}

\* Whatever call of ReadFile fails, the file handle and the EFI_FILE_INFO are
\* given back, and no buffer outlives a ReadFile or a verification that failed.
ReadFileGivesBack ==
  /\ pc \notin InReadFile => held \cap {"file", "info"} = {}
  /\ "buffer" \in held => pc \notin {"menu", "root", "open", "info_size",
                                     "alloc_info", "get_info", "alloc_buffer"}
  /\ (pc = "failed" /\ "buffer" \in held) => image \in {"refused", "unloaded"}

\* With secure boot on, no image reaches LoadImage unless its signature was
\* verified in the buffer ReadFile filled, along every path ReadFile, the PK and
\* the verification can take; but for a SecureBoot that could not be read, which
\* SecureBootVerifies below is about.
OnlyVerifiedImageRuns ==
  (secureBoot /\ image # "none") => unread \/ (verified /\ "buffer" \in held)

\* SECURITY.md:183 says "BloodHorn automatically verifies all kernel images before
\* loading": with secure boot on, a kernel that was started had been verified.
\* The code starts one unverified when GetVariable fails (secure.c:40-41).
SecureBootVerifies == (secureBoot /\ image = "started") => verified

\* Once the menu has returned, no combination of failures leaves UefiMain between
\* two calls: a menu that ended without a choice gets to the message, one that
\* chose gets to the kernel or to the message.  The message is "Press any key to
\* reboot" and a cold reset, also after ESC, of which USAGE.md:26 says "exit to
\* firmware", and after a kernel that failed, where USAGE.md:582 says that
\* "BloodHorn enters recovery": no code does either.
MenuResultIsActedOn ==
  /\ (pc = "menu" /\ phase = "returned" /\ ret # "success") ~> pc = "failed"
  /\ (pc = "menu" /\ phase = "returned" /\ ret = "success")
       ~> pc \in {"failed", "running", "returned"}

=============================================================================
