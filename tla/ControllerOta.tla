------------------------------ MODULE ControllerOta ----------------------------
(***************************************************************************)
(* Update of the controller's own firmware: an image is uploaded in chunks *)
(* (ChunkUpload) into the application partition that is not running, is    *)
(* made the one to boot, and the controller restarts three seconds later.  *)
(* A new image has to show that it can start, or is rolled back.           *)
(*                                                                         *)
(* Partitions, otadata and bootloader belong to ESP-IDF and are modelled   *)
(* from how controller_ota.c uses them, as configured by sdkconfig.target  *)
(* (CONFIG_BOOTLOADER_APP_ROLLBACK_ENABLE).  A partition holds the bytes   *)
(* written since it was erased, <<upload, position>>.                      *)
(***************************************************************************)
EXTENDS ChunkUpload

CONSTANTS
  MaxLosses     (* bound: losses of power, and failures of an image that     *)
                (*   works                                                   *)

ASSUME OtaAssumption == MaxLosses \in Nat

VARIABLES
  slots,        (* contents of ota_0 and ota_1                               *)
  state,        (* otadata: "valid", "new", "pending" or "aborted", per slot *)
  boot,         (* otadata: slot to boot                                     *)
  running,      (* slot of the running image                                 *)
  cpc,          (* app_main: "boot", "startup", "failed", "serving", "up"    *)
  handle,       (* ctx->update_handle, named by its upload; 0 for none       *)
  target,       (* ctx->update_partition                                     *)
  timer,        (* reboot_timer is running                                   *)
  files,        (* environment: size and kind of the file of each upload;    *)
                (*   file 0 is the image the controller came with            *)
  losses        (* bound: losses of power and failures so far                *)

flashVars == <<slots, state, boot>>
ctxVars == <<handle, target, timer>>
otaVars == <<flashVars, running, cpc, ctxVars, files, losses>>
vars == <<uploadVars, otaVars>>

Slots == {0, 1}

(* An image that works, one that cannot start, a file that is no image. *)
Kinds == {"works", "fails", "broken"}

Body(u) == [i \in 1 .. files[u].size |-> <<u, i - 1>>]
Holds(s, u) == files[u].size > 0 /\ slots[s] = Body(u)
Bootable(s) == \E u \in DOMAIN files : Holds(s, u) /\ files[u].kind # "broken"
Works(s) == \E u \in DOMAIN files : Holds(s, u) /\ files[u].kind = "works"

Init ==
  /\ UploadInit
  /\ files = [u \in 0 .. MaxUploads |-> [size |-> IF u = 0 THEN 1 ELSE 0, kind |-> "works"]]
  /\ slots = [s \in Slots |-> IF s = 0 THEN Body(0) ELSE <<>>]
  /\ state = [s \in Slots |-> IF s = 0 THEN "valid" ELSE "aborted"]
  /\ boot = 0 /\ running = 0 /\ cpc = "boot"
  /\ handle = 0 /\ target = 0 /\ timer = FALSE
  /\ losses = 0

--------------------------------------------------------------------------------
(* HTTP task: controller_ota_handler and its chunk handler *)

Serving == cpc \in {"serving", "up"}

Put(n, kind) ==
  /\ Serving
  /\ PutBegin(n)
  /\ files' = [files EXCEPT ![upload + 1] = [size |-> n, kind |-> kind]]
  /\ UNCHANGED <<flashVars, running, cpc, ctxVars, losses>>

Receive == Serving /\ Recv /\ UNCHANGED otaVars
Close == Serving /\ PeerCloses /\ UNCHANGED otaVars

(* esp_ota_abort, then the error is returned. *)
Abort ==
  /\ handle' = 0
  /\ ChunkFailed
  /\ UNCHANGED <<running, cpc, target, timer, files, losses>>

HttpGoto(from, to) ==
  /\ hpc = from /\ hpc' = to
  /\ UNCHANGED <<upload, size, offset, received, elapsed, buf, taken, peer, reply>>

(* Mutant: the partition after the one to boot is updated. *)
NextUpdateOfBoot == 1 - boot

(* esp_ota_get_next_update_partition(NULL) *)
NextUpdate == 1 - running

(* First chunk: the partition is erased.  Refused while the running image  *)
(* is still to be verified.                                                *)
OtaBegin ==
  /\ Serving /\ offset = 0
  /\ target' = NextUpdate
  /\ state[running] # "pending"
  /\ HttpGoto("handle", "write")
  /\ handle' = upload
  /\ slots' = [slots EXCEPT ![target'] = <<>>]
  /\ UNCHANGED <<state, boot, running, cpc, timer, files, losses>>

OtaBeginFails ==
  /\ Serving /\ hpc = "handle" /\ offset = 0
  /\ target' = NextUpdate
  /\ handle' = 0 /\ ChunkFailed
  /\ UNCHANGED <<flashVars, running, cpc, timer, files, losses>>

Chunk == [i \in 1 .. ChunkLen |-> <<upload, buf[i - 1]>>]

(* esp_ota_write through ctx->update_handle; of the last chunk, up to      *)
(* esp_ota_end.                                                            *)
OtaWrite ==
  /\ Serving
  /\ hpc = "write" \/ (hpc = "handle" /\ offset > 0)
  /\ handle # 0
  /\ slots' = [slots EXCEPT ![target] = @ \o Chunk]
  /\ IF offset + ChunkLen = size
     THEN HttpGoto(hpc, "end")
     ELSE ChunkOk
  /\ UNCHANGED <<state, boot, running, cpc, ctxVars, files, losses>>

OtaWriteFails ==
  /\ Serving
  /\ hpc = "write" \/ (hpc = "handle" /\ offset > 0)
  /\ Abort
  /\ UNCHANGED flashVars

(* esp_ota_end verifies the image and gives the handle up. *)
OtaEnd ==
  /\ Serving /\ Bootable(target)
  /\ HttpGoto("end", "setBoot")
  /\ handle' = 0
  /\ UNCHANGED <<flashVars, running, cpc, target, timer, files, losses>>

OtaEndFails ==
  /\ Serving /\ hpc = "end"
  /\ Abort
  /\ UNCHANGED flashVars

(* Mutant: the partition is not made the one to boot. *)
OtaSetBootNot ==
  /\ Serving /\ HttpGoto("setBoot", "timer")
  /\ UNCHANGED otaVars

OtaSetBoot ==
  /\ Serving /\ HttpGoto("setBoot", "timer")
  /\ boot' = target /\ state' = [state EXCEPT ![target] = "new"]
  /\ UNCHANGED <<slots, running, cpc, ctxVars, files, losses>>

OtaSetBootFails ==
  /\ Serving /\ hpc = "setBoot"
  /\ ChunkFailed
  /\ UNCHANGED otaVars

(* The timer is created and started, or that fails and is only logged. *)
OtaTimer ==
  /\ Serving /\ hpc = "timer"
  /\ timer' \in {timer, TRUE}
  /\ ChunkOk
  /\ UNCHANGED <<flashVars, running, cpc, handle, target, files, losses>>

--------------------------------------------------------------------------------
(* Restarts, the bootloader, app_main *)

Restart ==
  /\ cpc' = "boot"
  /\ Drop
  /\ handle' = 0 /\ target' = 0 /\ timer' = FALSE
  /\ UNCHANGED <<running, files>>

(* controller_ota_reboot_callback *)
TimerFires ==
  /\ timer
  /\ Restart
  /\ UNCHANGED <<flashVars, losses>>

PowerLoss ==
  /\ losses < MaxLosses /\ losses' = losses + 1
  /\ Restart
  /\ UNCHANGED flashVars

(* Bootloader: an image that was started once and not verified, or is not  *)
(* whole, is passed over; a new one is started to be verified.             *)
Boot ==
  /\ cpc = "boot" /\ cpc' = "startup"
  /\ LET passed == Bootable(boot) => state[boot] \in {"pending", "aborted"}
         chosen == IF passed THEN 1 - boot ELSE boot
     IN  /\ Bootable(chosen)
         /\ boot' = chosen /\ running' = chosen
         /\ state' = [s \in Slots |->
                        IF s = chosen THEN IF state[s] = "new" THEN "pending" ELSE state[s]
                        ELSE IF state[s] = "pending" THEN "aborted" ELSE state[s]]
  /\ UNCHANGED <<slots, ctxVars, files, losses, uploadVars>>

(* app_main: the steps up to controller_ota_init succeed, *)
StartupSucceeds ==
  /\ cpc = "startup" /\ cpc' = "serving"
  /\ Works(running)
  /\ UNCHANGED <<flashVars, running, ctxVars, files, losses, uploadVars>>

(* or one of them fails, at times also in an image that works. *)
StartupFails ==
  /\ cpc = "startup" /\ cpc' = "failed"
  /\ IF Works(running) THEN losses < MaxLosses /\ losses' = losses + 1 ELSE UNCHANGED losses
  /\ UNCHANGED <<flashVars, running, ctxVars, files, uploadVars>>

(* An image that cannot start may also crash on the way. *)
StartupCrashes ==
  /\ cpc = "startup" /\ ~Works(running)
  /\ Restart
  /\ UNCHANGED <<flashVars, losses>>

(* Mutant: startup_success is not looked at. *)
VerifyBlind ==
  /\ cpc \in {"serving", "failed"}
  /\ state' = [state EXCEPT ![running] = "valid"]
  /\ \/ cpc = "serving" /\ cpc' = "up" /\ UNCHANGED <<running, ctxVars, files, uploadVars>>
     \/ cpc = "failed" /\ Restart
  /\ UNCHANGED <<slots, boot, losses>>

(* controller_ota_verify_firmware: the image is confirmed; or it is rolled *)
(* back; or, with nothing to roll back, ESP_ERROR_CHECK restarts it.       *)
Verify ==
  /\ \/ /\ cpc = "serving" /\ cpc' = "up"
        /\ state' = [state EXCEPT ![running] = "valid"]
        /\ UNCHANGED <<running, ctxVars, files, uploadVars>>
     \/ /\ cpc = "failed"
        /\ state' = [state EXCEPT ![running] = IF @ = "pending" THEN "aborted" ELSE @]
        /\ Restart
  /\ UNCHANGED <<slots, boot, losses>>

--------------------------------------------------------------------------------
Handler ==
  \/ OtaBegin \/ OtaBeginFails \/ OtaWrite \/ OtaWriteFails \/ OtaEnd \/ OtaEndFails
  \/ OtaSetBoot \/ OtaSetBootFails \/ OtaTimer

Main == Boot \/ StartupSucceeds \/ StartupFails \/ StartupCrashes \/ Verify

Next ==
  \/ \E n \in Sizes, kind \in Kinds : Put(n, kind)
  \/ Receive \/ Close \/ Handler
  \/ TimerFires \/ PowerLoss \/ Main

Spec == Init /\ [][Next]_vars
--------------------------------------------------------------------------------
TypeOK ==
  /\ UploadTypeOK
  /\ hpc \in {"idle", "recv", "handle", "write", "end", "setBoot", "timer"}
  /\ state \in [Slots -> {"valid", "new", "pending", "aborted"}]
  /\ boot \in Slots /\ running \in Slots /\ target \in Slots
  /\ cpc \in {"boot", "startup", "failed", "serving", "up"}
  /\ handle \in 0 .. MaxUploads /\ timer \in BOOLEAN
  /\ files \in [0 .. MaxUploads -> [size : Sizes \cup {0, 1}, kind : Kinds]]

(* Whatever is uploaded, refused, broken off, or cut off by a restart that *)
(* an earlier upload has scheduled: a partition with an image that has     *)
(* shown that it starts is kept, and it is the one to boot or the one the  *)
(* bootloader falls back to.                                               *)
ProvenImageKept ==
  \E s \in Slots :
    /\ Works(s)
    /\ state[s] = "valid" \/ (s = running /\ cpc \in {"serving", "up"})
    /\ s = boot \/ state[boot] # "valid"

(* The controller always gets back to work, on whatever image.             *)
ComesUp == cpc = "boot" ~> cpc = "up"

(* An accepted image is started, unless the next upload replaces it first. *)
AcceptedStarts ==
  \A u \in 1 .. MaxUploads :
    (upload = u /\ reply = "ok" /\ size > 0 /\ timer) ~> (upload > u \/ (cpc = "startup" /\ Holds(running, u)))
================================================================================
