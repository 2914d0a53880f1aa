------------------------ MODULE FirmwareUpdate_proofs ------------------------
(***************************************************************************)
(* Proofs about FirmwareUpdate, for any number of modules, sectors, pages, *)
(* uploads and losses of power: type correctness, that a module keeps an   *)
(* image to boot, and that an image is not installed twice.                *)
(***************************************************************************)
EXTENDS FirmwareUpdate, TLAPS

(* Pages are numbers from 0, and there is at least one.                    *)
LEMMA PagesAreNat ==
  /\ PageCount \in Nat \ {0}
  /\ 0 \in Pages /\ PageCount - 1 \in Pages
  /\ \A p \in Pages : p \in Nat /\ p < PageCount
  /\ \A p \in Pages : p # PageCount - 1 => p + 1 \in Pages
<1>1. PageCount \in Nat \ {0}
  BY UpdateAssumption DEF PageCount
<1> QED
  BY <1>1 DEF Pages

(* Quotient and remainder by the size of a sector.                         *)
LEMMA Division ==
  \A p \in Nat : \A d, r \in Int :
    d = p \div SectorPages /\ r = p % SectorPages =>
      d \in Nat /\ r \in 0 .. SectorPages - 1 /\ p = SectorPages * d + r
<1> TAKE p \in Nat
<1> TAKE d, r \in Int
<1> HAVE d = p \div SectorPages /\ r = p % SectorPages
<1>1. d \in Nat
  BY UpdateAssumption
<1>2. r \in 0 .. SectorPages - 1
  BY UpdateAssumption
<1>3. p = SectorPages * d + r
  BY UpdateAssumption
<1> QED
  BY <1>1, <1>2, <1>3

(* The first page of a sector has the least number in it.                  *)
LEMMA FirstIsLeast == \A p \in Pages : FirstOfSector(p) => \A q \in SectorOf(p) : q >= p
<1> SUFFICES ASSUME NEW p \in Pages, FirstOfSector(p), NEW q \in SectorOf(p) PROVE q >= p
  OBVIOUS
<1> DEFINE d == p \div SectorPages  s == q % SectorPages
<1>1. p \in Nat /\ q \in Nat /\ q \div SectorPages = d /\ p % SectorPages = 0
  BY PagesAreNat DEF SectorOf, FirstOfSector
<1>2. d \in Int /\ s \in Int
  BY <1>1, UpdateAssumption
<1> HIDE DEF d, s
<1>3. d \in Nat /\ p = SectorPages * d
  BY <1>1, <1>2, Division, UpdateAssumption DEF d
<1>4. s \in 0 .. SectorPages - 1 /\ q = SectorPages * d + s
  BY <1>1, <1>2, Division DEF s
<1> QED
  BY <1>1, <1>3, <1>4, UpdateAssumption

(* The page after a page is in the same sector, or the first of the next.  *)
LEMMA SectorGoesOn ==
  \A p \in Pages : p + 1 \in Pages /\ ~FirstOfSector(p + 1) => SectorOf(p + 1) = SectorOf(p)
<1> SUFFICES ASSUME NEW p \in Pages, ~FirstOfSector(p + 1)
             PROVE (p + 1) \div SectorPages = p \div SectorPages
  BY DEF SectorOf
<1> DEFINE d == p \div SectorPages  e == (p + 1) \div SectorPages
           r == p % SectorPages     s == (p + 1) % SectorPages
<1>1. p \in Nat /\ p + 1 \in Nat /\ s # 0
  BY PagesAreNat DEF FirstOfSector
<1>2. d \in Int /\ e \in Int /\ r \in Int /\ s \in Int
  BY <1>1, UpdateAssumption
<1> HIDE DEF d, e, r, s
<1>3. d \in Nat /\ r \in 0 .. SectorPages - 1 /\ p = SectorPages * d + r
  BY <1>1, <1>2, Division DEF d, r
<1>4. e \in Nat /\ s \in 0 .. SectorPages - 1 /\ p + 1 = SectorPages * e + s
  BY <1>1, <1>2, Division DEF e, s
<1>5. SectorPages * (e - d) = r + 1 - s
  BY <1>3, <1>4, UpdateAssumption
<1>6. r + 1 - s < SectorPages /\ r + 1 - s > -SectorPages
  BY <1>1, <1>3, <1>4, UpdateAssumption
<1>7. e = d
  BY <1>2, <1>5, <1>6, UpdateAssumption
<1> QED
  BY <1>7 DEF d, e

(***************************************************************************)
(* Flash                                                                   *)
(***************************************************************************)
Image == [Pages -> Contents]

(* A write of a page, whole or torn, leaves an image.                      *)
LEMMA WriteIsImage ==
  \A image \in Image, p \in Pages, v \in Contents :
    Write(image, p, v) \in Image /\ Torn(image, p, v) \subseteq Image
<1> TAKE image \in Image, p \in Pages, v \in Contents
<1>1. Erased \in Contents /\ Junk \in Contents
  BY DEF Contents
<1>2. \A w \in Contents : Write(image, p, w) \in Image
  BY <1>1 DEF Write, Programmed, Fill, Image
<1>3. Fill(image, SectorOf(p), Junk) \in Image /\ Fill(image, SectorOf(p), Erased) \in Image
  BY <1>1 DEF Fill, Image
<1> QED
  BY <1>1, <1>2, <1>3 DEF Torn

(* An image with a junk page is not valid.                                 *)
LEMMA JunkIsInvalid ==
  \A image \in Image, p \in Pages : image[p] = Junk => ~Valid(image)
BY UpdateAssumption DEF Valid, Whole

(* Two images agree before page p.                                         *)
Copied(a, b, p) == \A q \in Pages : q < p => a[q] = b[q]

(* The sector of page p is erased from p on, unless it is still to be.     *)
Ready(a, p) == ~FirstOfSector(p) => \A q \in SectorOf(p) : q >= p => a[q] = Erased

(* The boot loader's copy of one page: flash_write erases nothing that was *)
(* copied, and finds the page erased.                                      *)
LEMMA CopyOnePage ==
  ASSUME NEW a \in Image, NEW b \in Image, NEW p \in Pages, Copied(a, b, p), Ready(a, p)
  PROVE  LET c == Write(a, p, b[p])
         IN  Copied(c, b, p + 1) /\ (p + 1 \in Pages => Ready(c, p + 1))
<1> DEFINE c == Write(a, p, b[p])
<1>1. p \in SectorOf(p) /\ SectorOf(p) \subseteq Pages /\ \A q \in Pages : q \in Nat
  BY PagesAreNat DEF SectorOf
<1>2. c[p] = b[p]
  BY <1>1 DEF Write, Programmed, Ready, Fill, Image
<1>3. ASSUME NEW q \in Pages, q < p PROVE c[q] = a[q]
  <2>1. FirstOfSector(p) => q \notin SectorOf(p)
    BY <1>1, <1>3, FirstIsLeast
  <2> QED
    BY <1>1, <1>3, <2>1 DEF Write, Fill, Image
<1>4. Copied(c, b, p + 1)
  <2> SUFFICES ASSUME NEW q \in Pages, q < p + 1 PROVE c[q] = b[q]
    BY DEF Copied
  <2>1. q = p \/ q < p
    BY <1>1
  <2> QED
    BY <1>2, <1>3, <2>1 DEF Copied
<1>5. ASSUME p + 1 \in Pages, ~FirstOfSector(p + 1), NEW q \in SectorOf(p + 1), q >= p + 1
      PROVE  c[q] = Erased
  <2>1. q \in SectorOf(p) /\ q \in Pages /\ q > p
    BY <1>1, <1>5, SectorGoesOn DEF SectorOf
  <2>2. CASE FirstOfSector(p)
    BY <2>1, <2>2, <1>1 DEF Write, Fill, Image
  <2>3. CASE ~FirstOfSector(p)
    BY <2>1, <2>3, <1>1 DEF Write, Ready, Image
  <2> QED
    BY <2>2, <2>3
<1> QED
  BY <1>4, <1>5 DEF Ready

(* The copy of the last page makes the images the same.                    *)
LEMMA CopyEnds ==
  \A a, b \in Image : Copied(a, b, PageCount) => a = b
BY PagesAreNat DEF Copied, Image

(***************************************************************************)
(* Types                                                                   *)
(***************************************************************************)

(* A chunk lies in its file, and is sent as some page, with a content.     *)
LEMMA ChunkInFile ==
  ASSUME TypeOK, ctl = "page"
  PROVE  /\ size \in Nat /\ offset \in 0 .. size - 1
         /\ ChunkBytes \in 1 .. PageBytes /\ offset + ChunkBytes \in 1 .. size
         /\ PageNumber \in Nat /\ PageContent \in Contents
<1>1. size \in Nat /\ offset \in 0 .. size - 1 /\ upload \in 0 .. MaxUploads
  BY UpdateAssumption DEF TypeOK
<1>2. ChunkBytes \in 1 .. PageBytes /\ offset + ChunkBytes \in 1 .. size
  BY <1>1, UpdateAssumption DEF ChunkBytes
<1>3. PageNumber \in Nat
  <2> DEFINE quotient == offset \div ChunkBytes
  <2>1. quotient \in Int
    BY <1>1, <1>2, UpdateAssumption
  <2> HIDE DEF quotient
  <2>2. quotient % 65536 \in Nat
    BY <2>1
  <2> QED
    BY <2>2 DEF PageNumber, quotient
<1>4. PageContent \in Contents
  BY <1>1 DEF PageContent, Contents
<1> QED
  BY <1>1, <1>2, <1>3, <1>4

OffsetOK == offset \in 0 .. size /\ (ctl = "page" => offset < size)

(* What follows an attempt stays within the file and the attempts.         *)
LEMMA AfterTypes ==
  ASSUME TypeOK, NEW ok \in BOOLEAN, After(ok), ctl \in {"page", "reboot"}, size' = size
  PROVE  OffsetOK' /\ ctl' \in {"idle", "page", "reboot"} /\ attempt' \in 0 .. 3
<1> USE DEF OffsetOK
<1>1. OffsetOK /\ attempt \in 0 .. 3 /\ size \in Nat
  BY UpdateAssumption DEF TypeOK
<1>2. CASE ~ok /\ attempt < 3 /\ attempt' = attempt + 1 /\ UNCHANGED <<ctl, offset>>
  BY <1>1, <1>2
<1>3. CASE attempt' = 1 /\ ctl = "page" /\ offset + ChunkBytes < size /\ offset' = offset + ChunkBytes /\ UNCHANGED ctl
  BY <1>1, <1>3, ChunkInFile
<1>4. CASE attempt' = 1 /\ ctl' \in {"idle", "reboot"} /\ UNCHANGED offset
  BY <1>1, <1>4
<1> QED
  BY <1>2, <1>3, <1>4 DEF After

(* One step keeps the types.                                               *)
LEMMA TypeStep == TypeOK /\ [Next]_vars => TypeOK'
<1> SUFFICES ASSUME TypeOK, [Next]_vars PROVE TypeOK'
  OBVIOUS
<1> USE DEF TypeOK, flashVars, ctlVars
<1>1. /\ main \in [Modules -> Image] /\ new \in [Modules -> Image]
      /\ upload \in Contents /\ Junk \in Contents
  BY DEF Image, Contents
<1>2. ASSUME NEW n \in Files, UploadStart(n) PROVE TypeOK'
  <2>1. misfit' \in BOOLEAN
    BY <1>2, Zenon DEF UploadStart
  <2> QED
    BY <1>2, <2>1, UpdateAssumption DEF UploadStart
<1>3. CASE UploadAborted
  BY <1>3, UpdateAssumption DEF UploadAborted
<1>4. ASSUME NEW ms \in SUBSET Modules, NEW ok \in BOOLEAN, SendPage(ms, ok) PROVE TypeOK'
  <2>1. new' \in [Modules -> Image]
    <3>1. PageContent \in Contents
      BY <1>4, ChunkInFile DEF SendPage
    <3> QED
      BY <1>1, <1>4, <3>1, WriteIsImage DEF SendPage
  <2>2. OffsetOK' /\ ctl' \in {"idle", "page", "reboot"} /\ attempt' \in 0 .. 3
    BY <1>4, AfterTypes DEF SendPage
  <2>3. PICK stopped \in StopsAt(ms) : pc' = [m \in Modules |-> IF m \in stopped THEN "stopped" ELSE pc[m]]
    BY <1>4 DEF SendPage
  <2>4. spared' \subseteq Modules
    BY <1>4 DEF SendPage
  <2> QED
    BY <1>4, <2>1, <2>2, <2>3, <2>4 DEF SendPage, Image, OffsetOK
<1>5. ASSUME NEW ms \in SUBSET Modules, NEW ok \in BOOLEAN, SendReboot(ms, ok) PROVE TypeOK'
  <2>1. OffsetOK' /\ ctl' \in {"idle", "page", "reboot"} /\ attempt' \in 0 .. 3
    BY <1>5, AfterTypes DEF SendReboot
  <2> QED
    BY <1>5, <2>1 DEF SendReboot, OffsetOK
<1>6. ASSUME NEW m \in Modules, Bootloader(m) PROVE TypeOK'
  <2>1. CASE Check(m)
    BY <2>1, PagesAreNat DEF Check, Goto
  <2>2. CASE Copy(m)
    <3>1. new[m][ptr[m]] \in Contents /\ ptr[m] \in Pages
      BY <1>1 DEF Image
    <3>2. main' \in [Modules -> Image]
      BY <1>1, <2>2, <3>1, WriteIsImage DEF Copy
    <3>3. ptr' \in [Modules -> Pages]
      BY <2>2, <3>1, PagesAreNat DEF Copy
    <3> QED
      BY <2>2, <3>2, <3>3 DEF Copy, Goto, Image
  <2>3. CASE Spend(m)
    <3>1. new' \in [Modules -> Image]
      BY <1>1, <2>3, WriteIsImage, PagesAreNat DEF Spend
    <3> QED
      BY <2>3, <3>1 DEF Spend, Goto, Image
  <2>4. CASE Verify(m)
    BY <2>4 DEF Verify, Goto
  <2> QED
    BY <1>6, <2>1, <2>2, <2>3, <2>4 DEF Bootloader
<1>7. ASSUME NEW m \in Modules, LossBetween(m) \/ LossInPage(m) \/ LossInCopy(m) \/ LossInSpend(m)
      PROVE  TypeOK'
  <2>1. new[m][ptr[m]] \in Contents /\ ptr[m] \in Pages
    BY <1>1 DEF Image
  <2>2. new' \in [Modules -> Image]
    <3>1. CASE LossBetween(m) \/ LossInCopy(m)
      BY <1>1, <3>1 DEF LossBetween, LossInCopy
    <3>2. CASE LossInPage(m)
      <4>1. CASE UNCHANGED new
        BY <1>1, <4>1
      <4>2. CASE ~UNCHANGED new
        <5>1. PageNumber \in Pages
          BY <3>2, <4>2 DEF LossInPage
        <5>2. PICK image \in Torn(new[m], PageNumber, PageContent) : new' = [new EXCEPT ![m] = image]
          BY <3>2, <4>2 DEF LossInPage
        <5>3. PageContent \in Contents
          BY <3>2, ChunkInFile DEF LossInPage
        <5>4. image \in Image
          BY <1>1, <5>1, <5>2, <5>3, WriteIsImage
        <5> QED
          BY <1>1, <5>2, <5>4
      <4> QED
        BY <4>1, <4>2
    <3>3. CASE LossInSpend(m)
      <4>1. PICK image \in Torn(new[m], PageCount - 1, Junk) : new' = [new EXCEPT ![m] = image]
        BY <3>3 DEF LossInSpend
      <4>2. image \in Image
        BY <1>1, <4>1, WriteIsImage, PagesAreNat
      <4> QED
        BY <1>1, <4>1, <4>2
    <3> QED
      BY <1>7, <3>1, <3>2, <3>3
  <2>3. main' \in [Modules -> Image]
    <3>1. CASE LossBetween(m) \/ LossInPage(m) \/ LossInSpend(m)
      BY <1>1, <3>1 DEF LossBetween, LossInPage, LossInSpend
    <3>2. CASE LossInCopy(m)
      <4>1. PICK image \in Torn(main[m], ptr[m], new[m][ptr[m]]) : main' = [main EXCEPT ![m] = image]
        BY <3>2 DEF LossInCopy
      <4>2. image \in Image
        BY <1>1, <2>1, <4>1, WriteIsImage
      <4> QED
        BY <1>1, <4>1, <4>2
    <3> QED
      BY <1>7, <3>1, <3>2
  <2>4. Loss(m)
    BY <1>7 DEF LossBetween, LossInPage, LossInCopy, LossInSpend
  <2>5. spared' \subseteq Modules
    BY <1>7 DEF LossBetween, LossInPage, LossInCopy, LossInSpend
  <2> QED
    BY <2>2, <2>3, <2>4, <2>5, UpdateAssumption DEF Loss, Image
<1>8. CASE UNCHANGED vars
  BY <1>8 DEF vars
<1> QED
  BY <1>2, <1>3, <1>4, <1>5, <1>6, <1>7, <1>8 DEF Next

(***************************************************************************)
(* The invariant                                                           *)
(***************************************************************************)

(* What a module executes says which image is whole: the application runs  *)
(* from it, a copy reads from it, and the application starts only after    *)
(* the new one has been made invalid.                                      *)
ModuleInv(m) ==
  /\ pc[m] # "dead"
  /\ pc[m] \in {"app", "spend", "verify", "stopped"} => Valid(main[m])
  /\ pc[m] = "check" => Valid(main[m]) \/ Valid(new[m])
  /\ pc[m] = "copy" => Valid(new[m]) /\ Copied(main[m], new[m], ptr[m]) /\ Ready(main[m], ptr[m])
  /\ pc[m] = "verify" => ~Valid(new[m])

IInv == TypeOK /\ \A m \in Modules : ModuleInv(m)

(* A step of the boot loader keeps what holds of its module.               *)
LEMMA BootloaderStep ==
  ASSUME TypeOK, NEW m \in Modules, ModuleInv(m), Bootloader(m)
  PROVE  ModuleInv(m)'
<1> USE DEF ModuleInv, TypeOK, flashVars, Goto
<1>1. main[m] \in Image /\ new[m] \in Image /\ ptr[m] \in Pages
  BY DEF Image
<1>2. CASE Check(m)
  <2>1. FirstOfSector(0)
    BY UpdateAssumption DEF FirstOfSector
  <2>2. Copied(main[m], new[m], 0) /\ Ready(main[m], 0)
    BY <2>1, PagesAreNat DEF Copied, Ready
  <2> QED
    BY <1>2, <2>2 DEF Check
<1>3. CASE Copy(m)
  <2>1. main'[m] = Write(main[m], ptr[m], new[m][ptr[m]]) /\ new' = new
    BY <1>3 DEF Copy
  <2>2. /\ Copied(main'[m], new[m], ptr[m] + 1)
        /\ ptr[m] + 1 \in Pages => Ready(main'[m], ptr[m] + 1)
    BY <1>1, <1>3, <2>1, CopyOnePage DEF Copy
  <2>3. CASE ptr[m] = PageCount - 1
    <3>1. main'[m] \in Image
      <4>1. new[m][ptr[m]] \in Contents
        BY <1>1 DEF Image
      <4> QED
        BY <1>1, <2>1, <4>1, WriteIsImage
    <3>2. ptr[m] + 1 = PageCount
      BY <2>3, PagesAreNat
    <3>3. main'[m] = new[m]
      BY <1>1, <2>2, <3>1, <3>2, CopyEnds
    <3> QED
      BY <1>3, <2>1, <2>3, <3>3 DEF Copy
  <2>4. CASE ptr[m] # PageCount - 1
    <3>1. ptr'[m] = ptr[m] + 1 /\ ptr'[m] \in Pages /\ pc' = pc
      BY <1>1, <1>3, <2>4, PagesAreNat DEF Copy
    <3> QED
      BY <1>3, <2>1, <2>2, <3>1 DEF Copy
  <2> QED
    BY <2>3, <2>4
<1>4. CASE Spend(m)
  <2>1. new'[m] = Write(new[m], PageCount - 1, Junk) /\ main' = main /\ pc'[m] = "verify"
    BY <1>4 DEF Spend
  <2>2. new'[m] \in Image /\ new'[m][PageCount - 1] = Junk
    <3>1. Junk \in Contents
      BY DEF Contents
    <3>2. new'[m] \in Image
      BY <1>1, <2>1, <3>1, WriteIsImage, PagesAreNat
    <3>3. new'[m][PageCount - 1] = Junk
      BY <1>1, <2>1, PagesAreNat DEF Write, Programmed, Fill, Image
    <3> QED
      BY <3>2, <3>3
  <2>3. ~Valid(new'[m])
    BY <2>2, JunkIsInvalid, PagesAreNat
  <2> QED
    BY <1>4, <2>1, <2>3 DEF Spend
<1>5. CASE Verify(m)
  BY <1>5 DEF Verify
<1> QED
  BY <1>2, <1>3, <1>4, <1>5 DEF Bootloader

(* A loss of power keeps what holds of the module: the copy can start      *)
(* again, or the image it replaced is whole.                               *)
LEMMA LossStep ==
  ASSUME TypeOK, NEW m \in Modules, ModuleInv(m),
         LossBetween(m) \/ LossInPage(m) \/ LossInCopy(m) \/ LossInSpend(m)
  PROVE  ModuleInv(m)'
<1> USE DEF ModuleInv, TypeOK, flashVars
<1>1. pc'[m] = "check"
  BY DEF Loss, LossBetween, LossInPage, LossInCopy, LossInSpend
<1>2. pc[m] = "copy" => new' = new
  BY DEF LossBetween, LossInPage, LossInCopy, LossInSpend
<1>3. pc[m] # "copy" => main' = main
  BY DEF LossBetween, LossInPage, LossInCopy, LossInSpend
<1>4. pc[m] = "check" => new' = new
  BY DEF LossBetween, LossInPage, LossInCopy, LossInSpend
<1>5. Valid(main'[m]) \/ Valid(new'[m])
  BY <1>2, <1>3, <1>4
<1> QED
  BY <1>1, <1>5

(* A step of the boot loader or of the power is a step of one module.      *)
LEMMA OthersStay ==
  ASSUME TypeOK, NEW m \in Modules, NEW k \in Modules, k # m,
         Bootloader(m) \/ LossBetween(m) \/ LossInPage(m) \/ LossInCopy(m) \/ LossInSpend(m)
  PROVE  pc'[k] = pc[k] /\ main'[k] = main[k] /\ new'[k] = new[k] /\ ptr'[k] = ptr[k]
<1> USE DEF TypeOK, flashVars, ctlVars, Goto
<1>1. CASE Bootloader(m)
  BY <1>1 DEF Bootloader, Check, Copy, Spend, Verify
<1>2. CASE LossBetween(m) \/ LossInPage(m)
  BY <1>2 DEF Loss, LossBetween, LossInPage
<1>3. CASE LossInCopy(m) \/ LossInSpend(m)
  BY <1>3 DEF Loss, LossInCopy, LossInSpend
<1> QED
  BY <1>1, <1>2, <1>3

(* An upload writes only to modules that run their application, and leaves *)
(* the image they run from alone.                                          *)
LEMMA UploadStep ==
  ASSUME TypeOK, NEW k \in Modules, ModuleInv(k), NEW ms \in SUBSET Modules, NEW ok \in BOOLEAN,
         (\E n \in Files : UploadStart(n)) \/ UploadAborted \/ SendPage(ms, ok) \/ SendReboot(ms, ok)
  PROVE  ModuleInv(k)'
<1> USE DEF TypeOK, flashVars, Reached
<1>1. CASE (\E n \in Files : UploadStart(n)) \/ UploadAborted
  BY <1>1 DEF UploadStart, UploadAborted, ModuleInv
<1>2. CASE SendPage(ms, ok)
  <2>1. main' = main /\ ptr' = ptr /\ (pc[k] # "app" => new'[k] = new[k])
    BY <1>2 DEF SendPage
  <2>2. PICK stopped \in StopsAt(ms) : pc' = [m \in Modules |-> IF m \in stopped THEN "stopped" ELSE pc[m]]
    BY <1>2 DEF SendPage
  <2>3. stopped \subseteq ms
    BY <2>2 DEF StopsAt
  <2>4. pc'[k] = pc[k] \/ (pc[k] = "app" /\ pc'[k] = "stopped")
    BY <1>2, <2>2, <2>3 DEF SendPage
  <2> QED
    BY <2>1, <2>4 DEF ModuleInv
<1>3. CASE SendReboot(ms, ok)
  <2>1. main' = main /\ ptr' = ptr /\ new' = new
    BY <1>3 DEF SendReboot
  <2>2. pc'[k] = pc[k] \/ (pc[k] = "app" /\ pc'[k] = "check")
    BY <1>3 DEF SendReboot
  <2> QED
    BY <2>1, <2>2 DEF ModuleInv
<1> QED
  BY <1>1, <1>2, <1>3

(* The invariant is inductive.                                             *)
LEMMA NextIInv == IInv /\ [Next]_vars => IInv'
<1> SUFFICES ASSUME IInv, [Next]_vars, NEW k \in Modules PROVE ModuleInv(k)'
  BY TypeStep DEF IInv
<1>1. TypeOK /\ ModuleInv(k)
  BY DEF IInv
<1>2. ASSUME NEW ms \in SUBSET Modules, NEW ok \in BOOLEAN,
             (\E n \in Files : UploadStart(n)) \/ UploadAborted \/ SendPage(ms, ok) \/ SendReboot(ms, ok)
      PROVE  ModuleInv(k)'
  BY <1>1, <1>2, UploadStep
<1>3. ASSUME NEW m \in Modules,
             Bootloader(m) \/ LossBetween(m) \/ LossInPage(m) \/ LossInCopy(m) \/ LossInSpend(m)
      PROVE  ModuleInv(k)'
  <2>1. CASE k = m
    BY <1>1, <1>3, <2>1, BootloaderStep, LossStep
  <2>2. CASE k # m
    <3>1. pc'[k] = pc[k] /\ main'[k] = main[k] /\ new'[k] = new[k] /\ ptr'[k] = ptr[k]
      BY <1>1, <1>3, <2>2, OthersStay
    <3> QED
      BY <1>1, <3>1 DEF ModuleInv
  <2> QED
    BY <2>1, <2>2
<1>4. CASE UNCHANGED vars
  BY <1>1, <1>4 DEF vars, flashVars, ModuleInv
<1>5. {} \in SUBSET Modules /\ TRUE \in BOOLEAN
  OBVIOUS
<1> QED
  BY <1>2, <1>3, <1>4, <1>5 DEF Next

(* The invariant holds in every reachable state.                           *)
LEMMA InvariantHolds == Spec => []IInv
<1>1. ASSUME Init PROVE IInv
  <2>1. TypeOK
    <3>1. main \in [Modules -> [Pages -> Contents]] /\ new \in [Modules -> [Pages -> Contents]]
      BY <1>1, UpdateAssumption DEF Init, Whole, Contents
    <3>2. misfit \in BOOLEAN
      BY <1>1, Zenon DEF Init
    <3> QED
      BY <1>1, <3>1, <3>2, PagesAreNat, UpdateAssumption DEF Init, TypeOK
  <2>2. \A m \in Modules : Valid(main[m])
    <3>1. 0 \in 0 .. MaxUploads
      BY UpdateAssumption
    <3>2. Valid(Whole(0))
      BY <3>1 DEF Valid
    <3> QED
      BY <1>1, <3>2 DEF Init
  <2> QED
    BY <1>1, <2>1, <2>2 DEF Init, IInv, ModuleInv
<1> QED
  BY <1>1, NextIInv, PTL DEF Spec

(* Type correctness of the update: the boot loader's copy stays within the *)
(* partition, for partitions of any size.                                  *)
THEOREM TypeCorrect == Spec => []TypeOK
<1>1. IInv => TypeOK
  BY DEF IInv
<1> QED
  BY <1>1, InvariantHolds, PTL

(* A module keeps an image to boot, for any number of modules, pages,      *)
(* uploads and losses of power, in the middle of whatever page.            *)
THEOREM AlwaysBootable == Spec => []Bootable
<1>1. ASSUME IInv PROVE Bootable
  BY <1>1 DEF IInv, TypeOK, ModuleInv, Bootable
<1> QED
  BY <1>1, InvariantHolds, PTL

(* An image that was installed is invalid before the application starts.   *)
THEOREM InstalledIsSpent == Spec => InstalledOnce
<1>1. ASSUME IInv, [Next]_vars
      PROVE  [\A m \in Modules : pc[m] = "verify" /\ pc'[m] = "app" => ~Valid(new[m])]_vars
  BY <1>1 DEF IInv, ModuleInv
<1> QED
  BY <1>1, InvariantHolds, PTL DEF Spec, InstalledOnce

(***************************************************************************)
(* The sector behind the partition                                         *)
(***************************************************************************)

(* As long as all files fit, an upload is at the beginning of a page of a  *)
(* file of whole pages.                                                    *)
PagesFit ==
  /\ size \in 0 .. PageCount * PageBytes
  /\ \E n \in Nat : size = n * PageBytes
  /\ \E k \in Nat : offset = k * PageBytes

SpareInv == ~misfit => spared = Modules /\ PagesFit

(* Multiples of a number keep their distance.                              *)
LEMMA MultiplesApart ==
  \A c \in Nat \ {0} : \A a, b \in Nat : a * c < b * c => a < b /\ a * c + c <= b * c /\ (a * c) \div c = a
<1> SUFFICES ASSUME NEW c \in Nat \ {0}, NEW a \in Nat, NEW b \in Nat, a * c < b * c
             PROVE  a < b /\ a * c + c <= b * c /\ (a * c) \div c = a
  OBVIOUS
<1>1. a < b
  OBVIOUS
<1>2. a * c + c <= b * c
  <2>1. (b - a) * c >= c
    BY <1>1
  <2> QED
    BY <2>1
<1>3. (a * c) \div c = a
  OBVIOUS
<1> QED
  BY <1>1, <1>2, <1>3

(* Such a chunk is a whole page, and is sent as a page of the partition.   *)
LEMMA PageFits ==
  ASSUME TypeOK, PagesFit, ctl = "page"
  PROVE  ChunkBytes = PageBytes /\ PageNumber < PageCount
<1>1. PICK n \in Nat : size = n * PageBytes
  BY DEF PagesFit
<1>2. PICK k \in Nat : offset = k * PageBytes
  BY DEF PagesFit
<1>3. k * PageBytes < n * PageBytes /\ n * PageBytes <= PageCount * PageBytes
  BY <1>1, <1>2, ChunkInFile, PagesAreNat, UpdateAssumption DEF PagesFit
<1>4. k * PageBytes < PageCount * PageBytes
  <2> DEFINE a == k * PageBytes  b == n * PageBytes  c == PageCount * PageBytes
  <2>1. a \in Int /\ b \in Int /\ c \in Int /\ a < b /\ b <= c
    BY <1>3, PagesAreNat, UpdateAssumption
  <2> HIDE DEF a, b, c
  <2>2. a < c
    BY <2>1
  <2> QED
    BY <2>2 DEF a, c
<1>5. k < PageCount /\ (k * PageBytes) \div PageBytes = k
  BY <1>4, MultiplesApart, PagesAreNat, UpdateAssumption
<1>6. offset + PageBytes <= size
  BY <1>1, <1>2, <1>3, MultiplesApart, UpdateAssumption
<1>7. ChunkBytes = PageBytes
  BY <1>6, ChunkInFile, UpdateAssumption DEF ChunkBytes
<1>8. PageNumber = k % 65536
  BY <1>2, <1>5, <1>7 DEF PageNumber
<1>9. k % 65536 <= k
  OBVIOUS
<1> QED
  BY <1>5, <1>7, <1>8, <1>9, PagesAreNat

(* The attempts go through the file page by page.                          *)
LEMMA AfterFits ==
  ASSUME TypeOK, PagesFit, NEW ok \in BOOLEAN, After(ok), ctl \in {"page", "reboot"}, size' = size
  PROVE  PagesFit'
<1>1. \E k \in Nat : offset' = k * PageBytes
  <2>1. PICK k \in Nat : offset = k * PageBytes
    BY DEF PagesFit
  <2>2. CASE UNCHANGED offset
    BY <2>1, <2>2
  <2>3. CASE ~UNCHANGED offset
    <3>1. ctl = "page" /\ offset' = offset + ChunkBytes
      BY <2>3 DEF After
    <3>2. offset' = (k + 1) * PageBytes
      BY <2>1, <3>1, PageFits, UpdateAssumption
    <3> QED
      BY <3>2
  <2> QED
    BY <2>2, <2>3
<1> QED
  BY <1>1 DEF PagesFit

(* One step keeps SpareInv.                                                *)
LEMMA SpareStep == TypeOK /\ SpareInv /\ [Next]_vars => SpareInv'
<1> SUFFICES ASSUME TypeOK, SpareInv, [Next]_vars, ~misfit' PROVE spared' = Modules /\ PagesFit'
  BY DEF SpareInv
<1> USE DEF flashVars, ctlVars
<1>1. ASSUME NEW n \in Files, UploadStart(n) PROVE spared' = Modules /\ PagesFit'
  <2>1. ~misfit /\ n % PageBytes = 0 /\ ~(n > PageCount * PageBytes)
    BY <1>1, Zenon DEF UploadStart
  <2>2. n = (n \div PageBytes) * PageBytes /\ n \div PageBytes \in Nat
    BY <2>1, UpdateAssumption
  <2>3. offset' = 0 * PageBytes /\ size' = n /\ spared' = spared
    BY <1>1, UpdateAssumption DEF UploadStart
  <2>4. n \in 0 .. PageCount * PageBytes
    <3> DEFINE most == PageCount * PageBytes
    <3>1. most \in Nat /\ n \in Nat
      BY UpdateAssumption, PagesAreNat
    <3> HIDE DEF most
    <3>2. n \in 0 .. most
      BY <2>1, <3>1 DEF most
    <3> QED
      BY <3>2 DEF most
  <2> QED
    BY <2>1, <2>2, <2>3, <2>4 DEF SpareInv, PagesFit
<1>2. CASE UploadAborted
  BY <1>2 DEF UploadAborted, SpareInv, PagesFit
<1>3. ASSUME NEW ms \in SUBSET Modules, NEW ok \in BOOLEAN, SendPage(ms, ok) PROVE spared' = Modules /\ PagesFit'
  <2>1. ctl = "page" /\ After(ok) /\ size' = size /\ misfit' = misfit
    BY <1>3 DEF SendPage
  <2>2. PagesFit /\ spared = Modules
    BY <2>1 DEF SpareInv
  <2>3. ~HitsConfig
    BY <2>1, <2>2, PageFits, ChunkInFile, PagesAreNat, UpdateAssumption DEF HitsConfig
  <2> QED
    BY <1>3, <2>1, <2>2, <2>3, AfterFits DEF SendPage
<1>4. ASSUME NEW ms \in SUBSET Modules, NEW ok \in BOOLEAN, SendReboot(ms, ok) PROVE spared' = Modules /\ PagesFit'
  <2>1. ctl = "reboot" /\ After(ok) /\ size' = size /\ misfit' = misfit /\ spared' = spared
    BY <1>4 DEF SendReboot
  <2> QED
    BY <2>1, AfterFits DEF SpareInv
<1>5. ASSUME NEW m \in Modules, LossInPage(m) PROVE spared' = Modules /\ PagesFit'
  <2>1. ctl = "page" /\ UNCHANGED ctlVars
    BY <1>5 DEF LossInPage, Loss
  <2>2. PagesFit /\ spared = Modules
    BY <2>1 DEF SpareInv
  <2>3. ~HitsConfig
    BY <2>1, <2>2, PageFits, ChunkInFile, PagesAreNat, UpdateAssumption DEF HitsConfig
  <2> QED
    BY <1>5, <2>1, <2>2, <2>3 DEF LossInPage, PagesFit
<1>6. ASSUME NEW m \in Modules, Bootloader(m) \/ LossBetween(m) \/ LossInCopy(m) \/ LossInSpend(m)
      PROVE  spared' = Modules /\ PagesFit'
  <2>1. UNCHANGED <<spared, ctlVars>>
    BY <1>6 DEF Bootloader, Check, Copy, Spend, Verify, LossBetween, LossInCopy, LossInSpend, Loss
  <2> QED
    BY <2>1 DEF SpareInv, PagesFit
<1>7. CASE UNCHANGED vars
  BY <1>7 DEF vars, SpareInv, PagesFit
<1> QED
  BY <1>1, <1>2, <1>3, <1>4, <1>5, <1>6, <1>7 DEF Next

(* Files of whole pages that fit leave the configuration alone, for pages  *)
(* and partitions of any size, and whatever is lost or broken off.         *)
THEOREM ConfigIsSpared == Spec => []ConfigSpared
<1>1. Init => SpareInv
  <2> SUFFICES ASSUME Init PROVE spared = Modules /\ PagesFit
    BY DEF SpareInv
  <2>1. 0 = 0 * PageBytes /\ 0 \in 0 .. PageCount * PageBytes
    BY UpdateAssumption, PagesAreNat
  <2> QED
    BY <2>1 DEF Init, PagesFit
<1>2. SpareInv => ConfigSpared
  BY DEF SpareInv, ConfigSpared
<1> QED
  BY <1>1, <1>2, SpareStep, TypeCorrect, PTL DEF Spec
==============================================================================
