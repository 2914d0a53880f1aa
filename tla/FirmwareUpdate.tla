----------------------------- MODULE FirmwareUpdate -----------------------------
(***************************************************************************)
(* Firmware update of the modules: the controller uploads an image page by *)
(* page to every module and tells the modules to reboot; the application   *)
(* of a module programs the pages into its second partition; the           *)
(* bootloader installs that partition when its CRC is valid.               *)
(*                                                                         *)
(* The power of a module may go at any time, also in the middle of an      *)
(* erase or of the programming of a page.  A page of a partition holds the *)
(* version of the image it belongs to, or is erased, or is junk; a CRC is  *)
(* valid when all pages are of one version (collisions are not modelled).  *)
(*                                                                         *)
(* Behind the second partition is the sector of the configuration, and     *)
(* behind that the end of the flash.  A module does not compare the number *)
(* of a page with the size of its partition.                               *)
(***************************************************************************)
EXTENDS Integers

CONSTANTS
  Modules,
  Sectors,          (* flash sectors in a partition                   *)
  SectorPages,      (* pages in a flash sector                        *)
  ConfigPages,      (* pages that the configuration takes             *)
  PageBytes,        (* OF_FIRMWARE_UPDATE_PAGE_SIZE                   *)
  Files,            (* sizes of the files that are uploaded           *)
  Erased, Junk,     (* pages that belong to no image                  *)
  MaxUploads,       (* bound: uploads; upload n is of version n       *)
  MaxLosses         (* bound: losses of power, of all modules         *)

ASSUME UpdateAssumption ==
  /\ Sectors \in Nat \ {0} /\ SectorPages \in Nat \ {0} /\ ConfigPages \in 1 .. SectorPages
  /\ PageBytes \in Nat \ {0} /\ Files \subseteq Nat \ {0}
  /\ Erased \notin Nat /\ Junk \notin Nat /\ Erased # Junk
  /\ MaxUploads \in Nat /\ MaxLosses \in Nat

VARIABLES
  main, new,      (* the partitions MAIN_APP and NEW_APP of each module       *)
  spared,         (* modules whose configuration sector no page has hit       *)
  pc,             (* what each module executes                                *)
  ptr,            (* bootloader: page to be copied                            *)
  upload, size,   (* controller: version being uploaded, bytes of its file    *)
  offset,         (* controller: data_offset of the chunk to be sent          *)
  ctl,            (* controller: what the upload handler does                 *)
  attempt,        (* master: attempts to send the page or the command         *)
  losses,         (* bound: losses of power so far                            *)
  misfit          (* history: a file was not of whole pages, or too large     *)

flashVars == <<main, new, spared>>
ctlVars == <<upload, size, offset, ctl, attempt, misfit>>
vars == <<flashVars, pc, ptr, ctlVars, losses>>

PageCount == Sectors * SectorPages
Pages == 0 .. PageCount - 1
SectorOf(p) == {q \in Pages : q \div SectorPages = p \div SectorPages}
FirstOfSector(p) == p % SectorPages = 0

Whole(v) == [p \in Pages |-> v]
Valid(image) == \E v \in 0 .. MaxUploads : image = Whole(v)    (* calculate_crc *)

Init ==
  /\ main = [m \in Modules |-> Whole(0)]
  /\ new = [m \in Modules |-> Whole(Erased)]
  /\ pc = [m \in Modules |-> "app"] /\ ptr = [m \in Modules |-> 0]
  /\ spared = Modules
  /\ upload = 0 /\ size = 0 /\ offset = 0 /\ ctl = "idle" /\ attempt = 0
  /\ losses = 0 /\ misfit = FALSE

--------------------------------------------------------------------------------
(* Flash: flash_write of one page *)

(* Programming only clears bits. *)
Programmed(old, v) == IF old = Erased \/ old = v THEN v ELSE Junk

Fill(image, ps, v) == [p \in Pages |-> IF p \in ps THEN v ELSE image[p]]

(* Mutant: a sector is not erased before it is written. *)
WriteNoErase(image, p, v) == [image EXCEPT ![p] = Programmed(image[p], v)]

(* A sector is erased when its first page is written. *)
Write(image, p, v) ==
  IF FirstOfSector(p) THEN [Fill(image, SectorOf(p), Erased) EXCEPT ![p] = v]
  ELSE [image EXCEPT ![p] = Programmed(image[p], v)]

(* What a write of page p may leave when the power goes during it. *)
Torn(image, p, v) ==
  {Write(image, p, Junk)} \cup
  IF FirstOfSector(p) THEN {Fill(image, SectorOf(p), Junk), Fill(image, SectorOf(p), Erased)} ELSE {image}

--------------------------------------------------------------------------------
(* Controller: module_firmware_chunk_handler, one synchronisation per page *)

UploadStart(n) ==
  /\ ctl = "idle" /\ upload < MaxUploads
  /\ upload' = upload + 1 /\ size' = n /\ offset' = 0 /\ ctl' = "page" /\ attempt' = 1
  /\ misfit' = (misfit \/ n % PageBytes # 0 \/ n > PageCount * PageBytes)
  /\ UNCHANGED <<flashVars, pc, ptr, losses>>

ChunkBytes == IF size - offset < PageBytes THEN size - offset ELSE PageBytes

(* Mutant: the first page has number 1. *)
PageNumberFromOne == (offset \div ChunkBytes + 1) % 65536

(* The page a chunk is sent as (uint16_t): a short last chunk goes further *)
(* up than its place in the file.                                          *)
PageNumber == (offset \div ChunkBytes) % 65536

(* Only a file of the size of the partition can be an image.  What a short *)
(* chunk does not fill of its page is left over from the chunk before.     *)
PageContent == IF size = PageCount * PageBytes THEN upload ELSE Junk

(* Modules a message reaches: only the application listens. *)
Reached(ms) == ms \subseteq {m \in Modules : pc[m] = "app"}

(* What follows an attempt.  After the third the master gives up, but      *)
(* of_display_synchronize reports no error, and the handler goes on.       *)
After(ok) ==
  \/ ~ok /\ attempt < 3 /\ attempt' = attempt + 1 /\ UNCHANGED <<ctl, offset>>
  \/ /\ ok \/ attempt = 3
     /\ attempt' = 1
     /\ \/ ctl = "page" /\ offset + ChunkBytes < size /\ offset' = offset + ChunkBytes /\ UNCHANGED ctl
        \/ ctl = "page" /\ offset + ChunkBytes = size /\ ctl' = "reboot" /\ UNCHANGED offset
        \/ ctl = "reboot" /\ ctl' = "idle" /\ UNCHANGED offset

(* What a page may spoil that is not in the partition, and modules that do *)
(* not get over a write behind the end of the flash.                       *)
HitsConfig == PageNumber \in PageCount .. PageCount + ConfigPages - 1
StopsAt(ms) == IF PageNumber >= PageCount + SectorPages THEN SUBSET ms ELSE {{}}

(* An attempt to send the page: property_firmware_set on the modules it    *)
(* reaches.  It may fail although it has reached all of them.              *)
SendPage(ms, ok) ==
  /\ ctl = "page" /\ Reached(ms) /\ (ok => ms = Modules)
  /\ new' = [m \in Modules |->
               IF m \in ms /\ PageNumber \in Pages THEN Write(new[m], PageNumber, PageContent) ELSE new[m]]
  /\ spared' = IF HitsConfig THEN spared \ ms ELSE spared
  /\ \E stopped \in StopsAt(ms) : pc' = [m \in Modules |-> IF m \in stopped THEN "stopped" ELSE pc[m]]
  /\ After(ok)
  /\ UNCHANGED <<main, ptr, upload, size, losses, misfit>>

(* An attempt to send CMD_REBOOT. *)
SendReboot(ms, ok) ==
  /\ ctl = "reboot" /\ Reached(ms) /\ (ok => ms = Modules)
  /\ pc' = [m \in Modules |-> IF m \in ms THEN "check" ELSE pc[m]]
  /\ After(ok)
  /\ UNCHANGED <<flashVars, ptr, upload, size, losses, misfit>>

(* The synchronisation times out, or the upload breaks off. *)
UploadAborted ==
  /\ ctl \in {"page", "reboot"}
  /\ ctl' = "idle" /\ attempt' = 0
  /\ UNCHANGED <<flashVars, pc, ptr, upload, size, offset, losses, misfit>>

--------------------------------------------------------------------------------
(* Bootloader: main *)

Goto(m, from, to) == pc[m] = from /\ pc' = [pc EXCEPT ![m] = to]

Check(m) ==
  /\ Goto(m, "check", IF Valid(new[m]) THEN "copy" ELSE "verify")
  /\ ptr' = [ptr EXCEPT ![m] = 0]
  /\ UNCHANGED <<flashVars, ctlVars, losses>>

(* Mutant: the copy runs one page past the partition. *)
CopyPast(m) ==
  /\ pc[m] = "copy"
  /\ main' = [main EXCEPT ![m] = Write(main[m], ptr[m], new[m][ptr[m]])]
  /\ IF ptr[m] = PageCount
     THEN Goto(m, "copy", "spend") /\ UNCHANGED ptr
     ELSE ptr' = [ptr EXCEPT ![m] = @ + 1] /\ UNCHANGED pc
  /\ UNCHANGED <<new, spared, ctlVars, losses>>

Copy(m) ==
  /\ pc[m] = "copy"
  /\ main' = [main EXCEPT ![m] = Write(main[m], ptr[m], new[m][ptr[m]])]
  /\ IF ptr[m] = PageCount - 1
     THEN Goto(m, "copy", "spend") /\ UNCHANGED ptr
     ELSE ptr' = [ptr EXCEPT ![m] = @ + 1] /\ UNCHANGED pc
  /\ UNCHANGED <<new, spared, ctlVars, losses>>

(* Mutant: the new image stays valid, and is verified again at once. *)
SpendAgain(m) ==
  /\ Goto(m, "spend", "check")
  /\ UNCHANGED <<flashVars, ptr, ctlVars, losses>>

(* Mutant: the new image stays valid. *)
SpendNot(m) ==
  /\ Goto(m, "spend", "verify")
  /\ UNCHANGED <<flashVars, ptr, ctlVars, losses>>

(* The inverted checksum is programmed over the checksum, unerased. *)
Spend(m) ==
  /\ Goto(m, "spend", "verify")
  /\ new' = [new EXCEPT ![m] = Write(@, PageCount - 1, Junk)]
  /\ UNCHANGED <<main, spared, ptr, ctlVars, losses>>

(* The application is started, or the bootloader stops for good. *)
Verify(m) ==
  /\ Goto(m, "verify", IF Valid(main[m]) THEN "app" ELSE "dead")
  /\ UNCHANGED <<flashVars, ptr, ctlVars, losses>>

Bootloader(m) == Check(m) \/ Copy(m) \/ Spend(m) \/ Verify(m)

--------------------------------------------------------------------------------
(* Loss of power *)

Loss(m) ==
  /\ losses < MaxLosses /\ losses' = losses + 1
  /\ pc' = [pc EXCEPT ![m] = "check"]
  /\ UNCHANGED <<ptr, ctlVars>>

LossBetween(m) == Loss(m) /\ UNCHANGED flashVars

LossInPage(m) ==
  /\ ctl = "page" /\ pc[m] = "app"
  /\ \/ /\ PageNumber \in Pages /\ UNCHANGED spared
        /\ \E image \in Torn(new[m], PageNumber, PageContent) : new' = [new EXCEPT ![m] = image]
     \/ /\ PageNumber \notin Pages /\ UNCHANGED new
        /\ spared' = IF HitsConfig THEN spared \ {m} ELSE spared
  /\ Loss(m) /\ UNCHANGED main

LossInCopy(m) ==
  /\ pc[m] = "copy"
  /\ \E image \in Torn(main[m], ptr[m], new[m][ptr[m]]) : main' = [main EXCEPT ![m] = image]
  /\ Loss(m) /\ UNCHANGED <<new, spared>>

LossInSpend(m) ==
  /\ pc[m] = "spend"
  /\ \E image \in Torn(new[m], PageCount - 1, Junk) : new' = [new EXCEPT ![m] = image]
  /\ Loss(m) /\ UNCHANGED <<main, spared>>

--------------------------------------------------------------------------------
Next ==
  \/ \E n \in Files : UploadStart(n)
  \/ UploadAborted
  \/ \E ms \in SUBSET Modules, ok \in BOOLEAN : SendPage(ms, ok) \/ SendReboot(ms, ok)
  \/ \E m \in Modules :
       Bootloader(m) \/ LossBetween(m) \/ LossInPage(m) \/ LossInCopy(m) \/ LossInSpend(m)

Spec == Init /\ [][Next]_vars

FairSpec == Spec /\ \A m \in Modules : WF_vars(Bootloader(m))
--------------------------------------------------------------------------------
Contents == 0 .. MaxUploads \cup {Erased, Junk}

(* Every variable keeps its type: the copy stays within the partition.     *)
TypeOK ==
  /\ main \in [Modules -> [Pages -> Contents]] /\ new \in [Modules -> [Pages -> Contents]]
  /\ pc \in [Modules -> {"app", "check", "copy", "spend", "verify", "dead", "stopped"}]
  /\ ptr \in [Modules -> Pages]
  /\ upload \in 0 .. MaxUploads /\ size \in Files \cup {0}
  /\ spared \subseteq Modules /\ misfit \in BOOLEAN
  /\ offset \in 0 .. size /\ (ctl = "page" => offset < size)
  /\ ctl \in {"idle", "page", "reboot"} /\ attempt \in 0 .. 3
  /\ losses \in 0 .. MaxLosses

(* Whenever the power goes, a module keeps an image to boot: the old one,  *)
(* or the new one that is to replace it; and whatever file is uploaded.    *)
Bootable == \A m \in Modules : Valid(main[m]) \/ Valid(new[m])

(* Files of whole pages that fit into the partition leave the sector       *)
(* behind it alone, whatever pages are lost, sent again or broken off.     *)
ConfigSpared == ~misfit => spared = Modules

(* bootloader.c:65: an image that has been installed is not copied again   *)
(* on the next boot, wherever the power went while it was installed.       *)
InstalledOnce == [][\A m \in Modules : pc[m] = "verify" /\ pc'[m] = "app" => ~Valid(new[m])]_vars

(* A module always gets back to an application.                            *)
Recovers == \A m \in Modules : pc[m] = "check" ~> pc[m] = "app"
================================================================================
