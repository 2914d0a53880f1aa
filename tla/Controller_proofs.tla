---------------------------- MODULE Controller_proofs --------------------------
(***************************************************************************)
(* Proofs about Controller, for every size of a chunk and of a body, every *)
(* timeout, and any number of uploads, restarts and losses of power: what  *)
(* the handler of an update is given is the body, a firmware that has      *)
(* shown that it starts is kept, and the state of both keeps its types.    *)
(***************************************************************************)
EXTENDS Controller, TLAPS

(* What the steps of the controller do to the update: those of             *)
(* ControllerOta, or a restart.                                            *)
OtaNext == Next \/ (Restart /\ UNCHANGED flashVars)

(* Every step of the controller is one of the update, or leaves it alone.  *)
LEMMA OtaView == [ControllerNext]_controllerVars => [OtaNext]_vars
<1> SUFFICES ASSUME [ControllerNext]_controllerVars PROVE [OtaNext]_vars
  OBVIOUS
<1> USE DEF OtaNext, Next, Main, Ota
<1>1. CASE AppMain
  <2>1. CASE ImageBoots
    BY <2>1 DEF ImageBoots
  <2>2. CASE NetworkingStarts \/ WaitEnds \/ DisplayStarts \/ ServerStarts \/ LogStarts
    BY <2>2 DEF NetworkingStarts, WaitEnds, DisplayStarts, ServerStarts, LogStarts, Starting
  <2>3. CASE ApisStart \/ StepFails
    BY <2>3 DEF ApisStart, StepFails
  <2>4. CASE Ota(StartupCrashes) \/ Ota(Verify)
    BY <2>4
  <2> QED
    BY <1>1, <2>1, <2>2, <2>3, <2>4 DEF AppMain
<1>2. CASE NetworkStep \/ LogStep \/ DisplayStep
  BY <1>2 DEF NetworkStep, LogStep, DisplayStep
<1>3. CASE DisplayFaults \/ LogOpenedEarly \/ PowerIsLost
  BY <1>3 DEF DisplayFaults, LogOpenedEarly, PowerIsLost, PowerLoss
<1>4. CASE OtaStep
  BY <1>4 DEF OtaStep
<1>5. CASE Ota(TimerFires)
  BY <1>5
<1>6. CASE UNCHANGED controllerVars
  BY <1>6 DEF controllerVars
<1> QED
  BY <1>1, <1>2, <1>3, <1>4, <1>5, <1>6 DEF ControllerNext

--------------------------------------------------------------------------------
(* Inductive: while a request is served, what was taken from the           *)
(* connection is what was handled and what is in the buffer, in its place. *)
UploadInv ==
  /\ size \in Nat /\ offset \in Nat /\ elapsed \in 0 .. Timeout
  /\ buf = [i \in 0 .. ChunkSize - 1 |-> buf[i]]
  /\ hpc # "idle" =>
       /\ offset < size /\ received \in Nat /\ taken = offset + received
       /\ \A i \in 0 .. received - 1 : buf[i] = offset + i
  /\ hpc = "recv" => received < ChunkLen
  /\ hpc \notin {"idle", "recv"} => received = ChunkLen

(* A chunk has at least one byte, and fits the buffer.                     *)
LEMMA ChunkLenRange ==
  ASSUME size \in Nat, offset \in Nat, offset < size
  PROVE  ChunkLen \in 1 .. ChunkSize /\ offset + ChunkLen <= size
BY UploadAssumption DEF ChunkLen, Least

(* Once there is nothing left of the request, the invariant is kept.       *)
LEMMA IdleStep ==
  ASSUME UploadInv, hpc' = "idle", UNCHANGED <<size, offset, elapsed, buf>>
  PROVE  UploadInv'
BY DEF UploadInv

(* A restart drops the request.                                            *)
LEMMA DropStep == UploadInv /\ Drop => UploadInv'
BY UploadAssumption DEF UploadInv, Drop

(* The handler has taken the chunk: the next one is received, or it was    *)
(* the last.                                                               *)
LEMMA ChunkOkStep == UploadInv /\ hpc \notin {"idle", "recv"} /\ ChunkOk => UploadInv'
<1> SUFFICES ASSUME UploadInv, hpc \notin {"idle", "recv"}, ChunkOk PROVE UploadInv'
  OBVIOUS
<1>1. /\ offset' = offset + ChunkLen /\ received' = 0 /\ elapsed' = 0
      /\ UNCHANGED <<size, buf, taken>>
      /\ (offset' < size /\ hpc' = "recv") \/ (~(offset' < size) /\ hpc' = "idle")
  BY DEF ChunkOk, Done
<1>2. ChunkLen \in 1 .. ChunkSize /\ size \in Nat /\ offset \in Nat
      /\ received = ChunkLen /\ taken = offset + received
      /\ buf = [i \in 0 .. ChunkSize - 1 |-> buf[i]]
  BY ChunkLenRange DEF UploadInv
<1>3. CASE offset' < size
  <2>1. offset' \in Nat /\ taken' = offset' + received' /\ hpc' = "recv"
    BY <1>1, <1>2, <1>3, UploadAssumption
  <2>2. ChunkLen' \in 1 .. ChunkSize
    BY <1>1, <1>2, <1>3, <2>1, UploadAssumption DEF ChunkLen, Least
  <2> QED
    BY <1>1, <1>2, <1>3, <2>1, <2>2, UploadAssumption DEF UploadInv
<1>4. CASE ~(offset' < size)
  <2>1. offset' \in Nat /\ hpc' = "idle"
    BY <1>1, <1>2, <1>4, UploadAssumption
  <2> QED
    BY <1>1, <1>2, <2>1, UploadAssumption DEF UploadInv
<1> QED
  BY <1>3, <1>4

(* An index into a part of the buffer is one into the buffer.              *)
LEMMA IndexInRange == \A a, b \in Nat : a <= b => \A i \in 0 .. a - 1 : i \in 0 .. b - 1 /\ i \in Int
OBVIOUS

(* httpd_req_recv returns.                                                 *)
LEMMA RecvStep == UploadInv /\ Recv => UploadInv'
<1> SUFFICES ASSUME UploadInv, Recv PROVE UploadInv'
  OBVIOUS
<1>0. hpc = "recv"
  BY DEF Recv, RecvData, RecvTimeout, RecvError
<1>1. ASSUME NEW n \in 1 .. ChunkSize, NEW t \in 0 .. RecvWait - 1, RecvData(n, t) PROVE UploadInv'
  <2>1. /\ n <= ChunkLen - received /\ received' = received + n /\ taken' = taken + n
        /\ elapsed' = Least(elapsed + t, Timeout)
        /\ UNCHANGED <<size, offset>>
    BY <1>1 DEF RecvData
  <2>2. ChunkLen \in 1 .. ChunkSize /\ ChunkLen' = ChunkLen
    BY <1>0, <2>1, ChunkLenRange DEF UploadInv, ChunkLen
  <2>3. hpc' = IF received' \in 0 .. ChunkLen - 1 THEN "recv" ELSE "handle"
    BY <1>1, <2>2 DEF RecvData
  <2>4. size \in Nat /\ offset \in Nat /\ offset < size /\ received \in Nat /\ taken = offset + received
        /\ elapsed \in 0 .. Timeout /\ buf = [i \in 0 .. ChunkSize - 1 |-> buf[i]]
        /\ \A i \in 0 .. received - 1 : buf[i] = offset + i
    BY <1>0 DEF UploadInv
  <2>5. received' \in Nat /\ received' <= ChunkLen /\ taken' = offset + received'
    BY <2>1, <2>2, <2>4, UploadAssumption
  <2>6. elapsed' \in 0 .. Timeout
    BY <2>1, <2>4, UploadAssumption DEF Least
  <2>7. buf' = [i \in 0 .. ChunkSize - 1 |-> IF i \in received .. received + n - 1 THEN taken + i - received ELSE buf[i]]
    BY <1>1, <2>4 DEF RecvData
  <2>8. \A i \in 0 .. received' - 1 : buf'[i] = offset + i
    <3> TAKE i \in 0 .. received' - 1
    <3>1. i \in 0 .. ChunkSize - 1 /\ i \in Int
      <4>1. received' \in Nat /\ received' <= ChunkSize /\ ChunkSize \in Nat
        BY <2>2, <2>5, UploadAssumption
      <4> QED
        BY <4>1, IndexInRange
    <3>2. buf'[i] = IF i \in received .. received + n - 1 THEN taken + i - received ELSE buf[i]
      BY <2>7, <3>1
    <3>3. CASE i \in received .. received + n - 1
      <4>1. taken + i - received = offset + i
        BY <2>4, <3>1
      <4> QED
        BY <3>2, <3>3, <4>1
    <3>4. CASE i \notin received .. received + n - 1
      <4>1. i \in 0 .. received - 1
        BY <2>1, <2>4, <2>5, <3>1, <3>4
      <4> QED
        BY <2>4, <3>2, <3>4, <4>1
    <3> QED
      BY <3>3, <3>4
  <2>9. buf' = [i \in 0 .. ChunkSize - 1 |-> buf'[i]]
    BY <2>7
  <2>10. hpc' \in {"recv", "handle"}
         /\ (hpc' = "recv" => received' < ChunkLen') /\ (hpc' = "handle" => received' = ChunkLen')
    BY <2>2, <2>3, <2>5
  <2> QED
    BY <2>1, <2>4, <2>5, <2>6, <2>8, <2>9, <2>10 DEF UploadInv
<1>2. CASE RecvTimeout
  <2>1. elapsed' = Timeout
    BY <1>2, UploadAssumption DEF RecvTimeout, Least, UploadInv
  <2>2. hpc' = "idle" /\ UNCHANGED <<size, offset, buf>>
    BY <1>2, <2>1, UploadAssumption DEF RecvTimeout, Done
  <2> QED
    BY <2>1, <2>2, UploadAssumption DEF UploadInv
<1>3. CASE RecvError
  BY <1>3, IdleStep DEF RecvError, Done
<1> QED
  BY <1>1, <1>2, <1>3 DEF Recv

(* A request begins.                                                       *)
LEMMA PutStep ==
  ASSUME UploadInv, NEW n \in Sizes, PutBegin(n)
  PROVE  UploadInv'
<1>1. n \in Nat /\ size' = n /\ offset' = 0 /\ received' = 0 /\ elapsed' = 0 /\ taken' = 0
  BY UploadAssumption DEF PutBegin
<1>2. /\ n > 0 => hpc' = "recv"
      /\ ~(n > 0) => hpc' = "idle"
  BY DEF PutBegin, Done
<1>3. size' \in Nat /\ offset' \in Nat /\ received' \in Nat /\ taken' = offset' + received'
  BY <1>1
<1>4. buf' = [i \in 0 .. ChunkSize - 1 |-> buf'[i]]
  BY DEF PutBegin
<1>5. elapsed' \in 0 .. Timeout
  BY <1>1, UploadAssumption
<1>6. \A i \in 0 .. received' - 1 : buf'[i] = offset' + i
  <2>1. received' - 1 = -1
    BY <1>1
  <2> QED
    BY <2>1
<1>7. CASE n > 0
  <2>1. offset' < size' /\ hpc' = "recv"
    BY <1>1, <1>2, <1>7
  <2>2. received' < ChunkLen'
    BY <1>1, <1>7, UploadAssumption DEF ChunkLen, Least
  <2> QED
    BY <1>3, <1>4, <1>5, <1>6, <2>1, <2>2 DEF UploadInv
<1>8. CASE ~(n > 0)
  BY <1>2, <1>3, <1>4, <1>5, <1>8 DEF UploadInv
<1> QED
  BY <1>7, <1>8

(* One step of the controller keeps the upload invariant.                  *)
LEMMA UploadStep == UploadInv /\ [OtaNext]_vars => UploadInv'
<1> SUFFICES ASSUME UploadInv, [OtaNext]_vars PROVE UploadInv'
  OBVIOUS
<1>1. ASSUME NEW n \in Sizes, NEW kind \in Kinds, Put(n, kind) PROVE UploadInv'
  BY <1>1, PutStep DEF Put
<1>2. CASE Receive
  BY <1>2, RecvStep DEF Receive
<1>3. CASE Close
  BY <1>3 DEF Close, PeerCloses, UploadInv, ChunkLen
<1>4. CASE Handler
  <2>1. CASE OtaBeginFails \/ OtaWriteFails \/ OtaEndFails \/ OtaSetBootFails
    <3>1. ChunkFailed
      BY <2>1 DEF OtaBeginFails, OtaWriteFails, OtaEndFails, OtaSetBootFails, Abort
    <3> QED
      BY <3>1, IdleStep DEF ChunkFailed, Done
  <2>2. CASE OtaTimer
    BY <2>2, ChunkOkStep DEF OtaTimer
  <2>3. CASE OtaWrite /\ ChunkOk
    BY <2>3, ChunkOkStep DEF OtaWrite
  <2>4. CASE OtaBegin \/ (OtaWrite /\ HttpGoto(hpc, "end")) \/ OtaEnd \/ OtaSetBoot
    <3>1. /\ hpc \notin {"idle", "recv"} /\ hpc' \in {"write", "end", "setBoot", "timer"}
          /\ UNCHANGED <<size, offset, received, elapsed, buf, taken>>
      BY <2>4 DEF OtaBegin, OtaWrite, OtaEnd, OtaSetBoot, HttpGoto
    <3> QED
      BY <3>1 DEF UploadInv, ChunkLen
  <2>5. OtaWrite => ChunkOk \/ HttpGoto(hpc, "end")
    BY DEF OtaWrite
  <2> QED
    BY <1>4, <2>1, <2>2, <2>3, <2>4, <2>5 DEF Handler
<1>5. CASE Boot \/ StartupSucceeds \/ StartupFails \/ (Verify /\ cpc = "serving")
  <2>1. UNCHANGED uploadVars
    BY <1>5 DEF Boot, StartupSucceeds, StartupFails, Verify
  <2> QED
    BY <2>1 DEF uploadVars, UploadInv, ChunkLen
<1>6. CASE TimerFires \/ PowerLoss \/ StartupCrashes \/ (Verify /\ cpc # "serving")
           \/ (Restart /\ UNCHANGED flashVars)
  <2>1. Restart
    BY <1>6 DEF TimerFires, PowerLoss, StartupCrashes, Verify
  <2> QED
    BY <2>1, DropStep DEF Restart
<1>7. CASE UNCHANGED vars
  BY <1>7 DEF vars, uploadVars, UploadInv, ChunkLen
<1> QED
  BY <1>1, <1>2, <1>3, <1>4, <1>5, <1>6, <1>7 DEF OtaNext, Next, Main

(* Nothing is being received at first.                                     *)
LEMMA UploadInits == ControllerInit => UploadInv
BY UploadAssumption DEF ControllerInit, Init, UploadInit, UploadInv

(* For every size of a chunk and of a body, every way the body is cut into *)
(* segments, delayed, broken off or sent again, and every restart on the   *)
(* way: what the handler of an upload is given is the part of the body     *)
(* that belongs at its offset.                                             *)
THEOREM HandlerGetsTheBody == ControllerSpec => []ChunkIsBody
<1>1. ControllerInit => UploadInv
  BY UploadInits
<1>2. UploadInv /\ [ControllerNext]_controllerVars => UploadInv'
  BY OtaView, UploadStep
<1>3. UploadInv => ChunkIsBody
  BY DEF UploadInv, ChunkIsBody
<1> QED
  BY <1>1, <1>2, <1>3, PTL DEF ControllerSpec

--------------------------------------------------------------------------------
(* Types of what the update keeps.                                         *)
OtaTypes ==
  /\ boot \in Slots /\ running \in Slots /\ target \in Slots
  /\ slots = [s \in Slots |-> slots[s]]
  /\ state \in [Slots -> {"valid", "new", "pending", "aborted"}]
  /\ files = [u \in 0 .. MaxUploads |-> files[u]]
  /\ cpc \in {"boot", "startup", "failed", "serving", "up"}
  /\ upload \in Nat

(* A file that is still to be uploaded is in no partition.                 *)
FilesInv == \A u \in 0 .. MaxUploads : u > upload => files[u].size = 0

Good(s) == Works(s) /\ state[s] = "valid"

(* Inductive: before the bootloader, a good image is the one to boot or    *)
(* will be fallen back to; what runs is good, or is on probation with a    *)
(* good one beside it; only what has been verified can be updated from,    *)
(* and the update goes to the other partition, which is then "new".        *)
ImageInv ==
  /\ cpc = "boot" => \E s \in Slots : Good(s) /\ (s = boot \/ state[boot] # "valid")
  /\ cpc # "boot" =>
       /\ Good(running) \/ (state[running] = "pending" /\ Good(1 - running))
       /\ boot = running \/ (state[boot] = "new" /\ state[running] = "valid" /\ cpc \in {"serving", "up"})
  /\ cpc \in {"serving", "up"} => Works(running)
  /\ cpc = "up" => state[running] = "valid"
  /\ handle # 0 \/ hpc \in {"write", "end", "setBoot", "timer"} =>
       cpc \in {"serving", "up"} /\ target = 1 - running /\ state[running] = "valid"

(* The other partition.                                                    *)
LEMMA OtherSlot == \A s \in Slots : 1 - s \in Slots /\ 1 - s # s /\ 1 - (1 - s) = s
                                  /\ \A t \in Slots : t = s \/ t = 1 - s
BY DEF Slots

(* The invariant says that the proven image is kept.                       *)
LEMMA ImageIsKept == OtaTypes /\ ImageInv => ProvenImageKept
<1> SUFFICES ASSUME OtaTypes, ImageInv PROVE ProvenImageKept
  OBVIOUS
<1>1. CASE cpc = "boot"
  BY <1>1 DEF ImageInv, ProvenImageKept, Good
<1>2. CASE cpc # "boot" /\ Good(running)
  BY <1>2 DEF ImageInv, ProvenImageKept, Good, OtaTypes
<1>3. CASE cpc # "boot" /\ state[running] = "pending" /\ Good(1 - running)
  <2>1. 1 - running \in Slots /\ state[boot] # "valid"
    BY <1>3, OtherSlot DEF ImageInv, OtaTypes
  <2> QED
    BY <1>3, <2>1 DEF ProvenImageKept, Good
<1> QED
  BY <1>1, <1>2, <1>3 DEF ImageInv

(* What works stays so as long as its partition and the files do.          *)
LEMMA WorksKept ==
  ASSUME NEW s \in Slots, slots'[s] = slots[s], files' = files
  PROVE  (Works(s) <=> Works(s)') /\ (Bootable(s) <=> Bootable(s)')
BY DEF Works, Bootable, Holds, Body

(* A restart, whatever is lost: what was good before is good after.        *)
LEMMA RestartKeeps ==
  ASSUME OtaTypes, ImageInv, Restart, UNCHANGED flashVars
  PROVE  ImageInv'
<1>1. UNCHANGED <<slots, state, boot, files, running>> /\ cpc' = "boot" /\ handle' = 0 /\ hpc' = "idle"
  BY DEF Restart, Drop, flashVars
<1>2. \A s \in Slots : Good(s) => Good(s)'
  BY <1>1, WorksKept DEF Good, flashVars
<1>3. \E s \in Slots : Good(s) /\ (s = boot \/ state[boot] # "valid")
  <2>1. CASE cpc = "boot"
    BY <2>1 DEF ImageInv
  <2>2. CASE cpc # "boot" /\ Good(running)
    BY <2>2 DEF ImageInv, OtaTypes
  <2>3. CASE cpc # "boot" /\ state[running] = "pending" /\ Good(1 - running)
    BY <2>3, OtherSlot DEF ImageInv, OtaTypes
  <2> QED
    BY <2>1, <2>2, <2>3 DEF ImageInv
<1> QED
  BY <1>1, <1>2, <1>3 DEF ImageInv

(* A failed start: an image on probation is given up, a good one is kept.  *)
LEMMA RollbackKeeps ==
  ASSUME OtaTypes, ImageInv, Verify, cpc = "failed"
  PROVE  ImageInv'
<1>1. /\ UNCHANGED <<slots, boot, files, running>> /\ cpc' = "boot" /\ handle' = 0 /\ hpc' = "idle"
      /\ state' = [state EXCEPT ![running] = IF @ = "pending" THEN "aborted" ELSE @]
  BY DEF Verify, Restart, Drop
<1>2. boot = running /\ running \in Slots /\ 1 - running \in Slots /\ 1 - running # running
      /\ state \in [Slots -> {"valid", "new", "pending", "aborted"}]
  BY OtherSlot DEF ImageInv, OtaTypes
<1>3. CASE Good(running)
  <2>1. Good(running)'
    BY <1>1, <1>2, <1>3, WorksKept DEF Good
  <2> QED
    BY <1>1, <1>2, <2>1 DEF ImageInv
<1>4. CASE state[running] = "pending" /\ Good(1 - running)
  <2>1. Works(1 - running)' /\ state'[1 - running] = "valid" /\ state'[boot'] = "aborted"
    BY <1>1, <1>2, <1>4, WorksKept DEF Good
  <2>2. (1 - running)' = 1 - running
    BY <1>1
  <2>3. \E s \in Slots : Good(s)' /\ (s = boot' \/ state'[boot'] # "valid")
    BY <1>2, <2>1, <2>2 DEF Good
  <2> QED
    BY <1>1, <2>3 DEF ImageInv
<1> QED
  BY <1>3, <1>4 DEF ImageInv

(* The bootloader starts a good image, or one on probation beside a good   *)
(* one.                                                                    *)
LEMMA BootKeeps ==
  ASSUME OtaTypes, ImageInv, Boot
  PROVE  ImageInv'
<1>1. /\ cpc = "boot" /\ cpc' = "startup" /\ UNCHANGED <<slots, files, handle, hpc, target>>
      /\ running' = boot'
  BY DEF Boot, ctxVars, uploadVars
<1>2. handle = 0 /\ hpc \notin {"write", "end", "setBoot", "timer"}
  BY <1>1 DEF ImageInv
<1>3. PICK g \in Slots : Good(g) /\ (g = boot \/ state[boot] # "valid")
  BY <1>1 DEF ImageInv
<1>4. Bootable(g)
  BY <1>3 DEF Good, Works, Bootable
<1>5. running' = g \/ (running' = boot /\ state[boot] = "new" /\ g = 1 - boot)
  <2>1. state[boot] \in {"valid", "new", "pending", "aborted"} /\ boot \in Slots
    BY DEF OtaTypes
  <2>2. CASE g = boot
    BY <1>3, <1>4, <2>2 DEF Boot, Good
  <2>3. CASE g = 1 - boot /\ state[boot] # "valid"
    <3>1. CASE state[boot] = "new"
      BY <2>3, <3>1 DEF Boot
    <3>2. CASE state[boot] \in {"pending", "aborted"}
      BY <2>3, <3>2 DEF Boot
    <3> QED
      BY <2>1, <2>3, <3>1, <3>2
  <2> QED
    BY <1>3, <2>1, <2>2, <2>3, OtherSlot
<1>6. state' = [s \in Slots |->
                  IF s = running' THEN IF state[s] = "new" THEN "pending" ELSE state[s]
                  ELSE IF state[s] = "pending" THEN "aborted" ELSE state[s]]
  BY DEF Boot
<1>7. Works(g)' /\ state'[g] = "valid"
  BY <1>1, <1>3, <1>6, WorksKept DEF Good
<1>8. CASE running' = g
  BY <1>1, <1>2, <1>7, <1>8 DEF ImageInv, Good
<1>9. CASE running' = boot /\ state[boot] = "new" /\ g = 1 - boot
  <2>1. state'[running'] = "pending"
    BY <1>6, <1>9 DEF OtaTypes
  <2>2. Good(1 - running)'
    BY <1>7, <1>9 DEF Good
  <2> QED
    BY <1>1, <1>2, <2>1, <2>2 DEF ImageInv
<1> QED
  BY <1>5, <1>8, <1>9

(* A request that begins brings a file that was in no partition.           *)
LEMMA PutKeeps ==
  ASSUME OtaTypes, FilesInv, ImageInv, NEW n \in Sizes, NEW kind \in Kinds, Put(n, kind)
  PROVE  ImageInv' /\ FilesInv'
<1>1. /\ cpc \in {"serving", "up"} /\ hpc' \in {"recv", "idle"} /\ upload' = upload + 1
      /\ upload + 1 \in 0 .. MaxUploads
      /\ files' = [files EXCEPT ![upload + 1] = [size |-> n, kind |-> kind]]
      /\ UNCHANGED <<slots, state, boot, running, cpc, handle, target>>
  BY UploadAssumption DEF Put, PutBegin, Done, Serving, flashVars, ctxVars, OtaTypes
<1>2. \A u \in 0 .. MaxUploads : u # upload + 1 => files'[u] = files[u]
  BY <1>1 DEF OtaTypes
<1>3. DOMAIN files = 0 .. MaxUploads /\ DOMAIN files' = 0 .. MaxUploads
  BY <1>1 DEF OtaTypes
<1>4. files[upload + 1].size = 0
  BY <1>1 DEF FilesInv, OtaTypes
<1>5. \A s \in Slots : Works(s) => Works(s)'
  <2> SUFFICES ASSUME NEW s \in Slots, Works(s) PROVE Works(s)'
    OBVIOUS
  <2>1. PICK u \in 0 .. MaxUploads : Holds(s, u) /\ files[u].kind = "works"
    BY <1>3 DEF Works
  <2>2. u # upload + 1
    BY <1>4, <2>1 DEF Holds
  <2>3. files'[u] = files[u]
    BY <1>2, <2>2
  <2>4. Holds(s, u)' /\ files'[u].kind = "works"
    BY <1>1, <2>1, <2>3 DEF Holds, Body
  <2> QED
    BY <1>3, <2>4 DEF Works
<1>6. ImageInv'
  BY <1>1, <1>5, OtherSlot DEF ImageInv, Good, OtaTypes
<1>7. FilesInv'
  <2> SUFFICES ASSUME NEW u \in 0 .. MaxUploads, u > upload + 1 PROVE files'[u].size = 0
    BY <1>1 DEF FilesInv
  <2>1. u # upload + 1 /\ u > upload
    BY DEF OtaTypes
  <2> QED
    BY <1>2, <2>1 DEF FilesInv
<1> QED
  BY <1>6, <1>7

(* The handler of an update: only the partition that is not running, and   *)
(* is not the good one of an image on probation, is written.               *)
LEMMA HandlerKeeps ==
  ASSUME OtaTypes, ImageInv, Handler
  PROVE  ImageInv'
<1>0. running \in Slots /\ boot \in Slots /\ target \in Slots /\ 1 - running \in Slots /\ 1 - running # running
      /\ \A t \in Slots : t = running \/ t = 1 - running
  BY OtherSlot DEF OtaTypes
<1>1. CASE OtaBegin
  <2>1. /\ Serving /\ target' = 1 - running /\ state[running] # "pending"
        /\ slots' = [slots EXCEPT ![target'] = <<>>]
        /\ UNCHANGED <<state, boot, running, cpc, files>>
    BY <1>1 DEF OtaBegin, NextUpdate
  <2>2. cpc \in {"serving", "up"} /\ Good(running) /\ state[running] = "valid"
    BY <2>1 DEF Serving, ImageInv, Good
  <2>3. slots'[running] = slots[running]
    BY <1>0, <2>1 DEF OtaTypes
  <2>4. Works(running)'
    BY <1>0, <2>1, <2>2, <2>3, WorksKept DEF Good, Works, Holds, Body
  <2> QED
    BY <2>1, <2>2, <2>4 DEF ImageInv, Good
<1>2. CASE OtaWrite
  <2>1. /\ target = 1 - running /\ cpc \in {"serving", "up"} /\ state[running] = "valid"
        /\ slots' = [slots EXCEPT ![target] = @ \o Chunk]
        /\ UNCHANGED <<state, boot, running, cpc, handle, target, files>>
    BY <1>2 DEF OtaWrite, ImageInv, ctxVars
  <2>2. slots'[running] = slots[running] /\ Works(running)
    BY <1>0, <2>1 DEF OtaTypes, ImageInv
  <2>3. Works(running)'
    BY <1>0, <2>1, <2>2, WorksKept DEF Works, Holds, Body
  <2> QED
    BY <2>1, <2>3 DEF ImageInv, Good
<1>3. CASE OtaBeginFails \/ OtaWriteFails \/ OtaEndFails \/ OtaSetBootFails
  <2>1. /\ UNCHANGED <<slots, state, boot, running, cpc, files>> /\ cpc \in {"serving", "up"} /\ hpc' = "idle"
        /\ handle' = 0 \/ UNCHANGED <<handle, target>>
    BY <1>3 DEF OtaBeginFails, OtaWriteFails, OtaEndFails, OtaSetBootFails, Abort, ChunkFailed, Done,
                flashVars, otaVars, ctxVars, Serving
  <2>2. \A s \in Slots : (Works(s) <=> Works(s)') /\ (Good(s) <=> Good(s)')
    BY <2>1, WorksKept DEF Good
  <2> QED
    BY <1>0, <2>1, <2>2 DEF ImageInv
<1>4. CASE OtaEnd \/ OtaTimer
  <2>1. /\ UNCHANGED <<slots, state, boot, running, cpc, files, target>>
        /\ hpc \in {"end", "timer"} /\ cpc \in {"serving", "up"}
    BY <1>4 DEF OtaEnd, OtaTimer, HttpGoto, flashVars, Serving
  <2>2. \A s \in Slots : (Works(s) <=> Works(s)') /\ (Good(s) <=> Good(s)')
    BY <2>1, WorksKept DEF Good
  <2>3. cpc \in {"serving", "up"} /\ target = 1 - running /\ state[running] = "valid"
    BY <2>1 DEF ImageInv
  <2> QED
    BY <1>0, <2>1, <2>2, <2>3 DEF ImageInv
<1>5. CASE OtaSetBoot
  <2>1. /\ target = 1 - running /\ cpc \in {"serving", "up"} /\ state[running] = "valid"
        /\ boot' = target /\ state' = [state EXCEPT ![target] = "new"]
        /\ UNCHANGED <<slots, running, cpc, handle, target, files>>
    BY <1>5 DEF OtaSetBoot, HttpGoto, ImageInv, ctxVars
  <2>2. state'[boot'] = "new" /\ state'[running] = "valid"
    BY <1>0, <2>1 DEF OtaTypes
  <2>3. Works(running)'
    BY <1>0, <2>1, WorksKept DEF ImageInv, Works, Holds, Body
  <2> QED
    BY <2>1, <2>2, <2>3 DEF ImageInv, Good
<1> QED
  BY <1>1, <1>2, <1>3, <1>4, <1>5 DEF Handler

(* One step of the controller keeps the image invariant.                   *)
LEMMA ImageStep == OtaTypes /\ FilesInv /\ ImageInv /\ [OtaNext]_vars => ImageInv'
<1> SUFFICES ASSUME OtaTypes, FilesInv, ImageInv, [OtaNext]_vars PROVE ImageInv'
  OBVIOUS
<1>1. ASSUME NEW n \in Sizes, NEW kind \in Kinds, Put(n, kind) PROVE ImageInv'
  BY <1>1, PutKeeps
<1>2. CASE Receive \/ Close
  <2>1. UNCHANGED otaVars /\ hpc = "recv" /\ hpc' \in {"recv", "handle", "idle"}
    BY <1>2 DEF Receive, Close, Recv, RecvData, RecvTimeout, RecvError, PeerCloses, Done
  <2>2. \A s \in Slots : (Works(s) <=> Works(s)') /\ (Good(s) <=> Good(s)')
    BY <2>1, WorksKept DEF Good, otaVars, flashVars
  <2> QED
    BY <2>1, <2>2, OtherSlot DEF ImageInv, OtaTypes, otaVars, flashVars, ctxVars
<1>3. CASE Handler
  BY <1>3, HandlerKeeps
<1>4. CASE Boot
  BY <1>4, BootKeeps
<1>5. CASE StartupSucceeds \/ StartupFails
  <2>1. /\ UNCHANGED <<slots, state, boot, running, files, handle, target, hpc>> /\ cpc = "startup"
        /\ (cpc' = "serving" /\ Works(running)) \/ cpc' = "failed"
    BY <1>5 DEF StartupSucceeds, StartupFails, flashVars, ctxVars, uploadVars
  <2>2. \A s \in Slots : (Works(s) <=> Works(s)') /\ (Good(s) <=> Good(s)')
    BY <2>1, WorksKept DEF Good
  <2> QED
    BY <2>1, <2>2, OtherSlot DEF ImageInv, OtaTypes
<1>6. CASE Verify /\ cpc = "serving"
  <2>1. /\ UNCHANGED <<slots, boot, running, files, handle, target, hpc>> /\ cpc' = "up"
        /\ state' = [state EXCEPT ![running] = "valid"]
    BY <1>6 DEF Verify, ctxVars, uploadVars
  <2>2. running \in Slots /\ Works(running)' /\ state'[running] = "valid"
    BY <1>6, <2>1, WorksKept DEF ImageInv, OtaTypes
  <2>3. boot' = running' \/ state'[boot'] = "new"
    BY <1>6, <2>1 DEF ImageInv, OtaTypes
  <2> QED
    BY <1>6, <2>1, <2>2, <2>3 DEF ImageInv, Good
<1>7. CASE Verify /\ cpc # "serving"
  BY <1>7, RollbackKeeps DEF Verify
<1>8. CASE TimerFires \/ PowerLoss \/ StartupCrashes \/ (Restart /\ UNCHANGED flashVars)
  BY <1>8, RestartKeeps DEF TimerFires, PowerLoss, StartupCrashes, flashVars
<1>9. CASE UNCHANGED vars
  <2>1. \A s \in Slots : (Works(s) <=> Works(s)') /\ (Good(s) <=> Good(s)')
    BY <1>9, WorksKept DEF Good, vars, otaVars, flashVars
  <2> QED
    BY <1>9, <2>1, OtherSlot DEF ImageInv, OtaTypes, vars, uploadVars, otaVars, flashVars, ctxVars
<1> QED
  BY <1>1, <1>2, <1>3, <1>4, <1>5, <1>6, <1>7, <1>8, <1>9 DEF OtaNext, Next, Main

(* One step of the controller keeps the types, and the files to come.      *)
LEMMA OtaTypeStep == OtaTypes /\ FilesInv /\ [OtaNext]_vars => OtaTypes' /\ FilesInv'
<1> SUFFICES ASSUME OtaTypes, FilesInv, [OtaNext]_vars PROVE OtaTypes' /\ FilesInv'
  OBVIOUS
<1>0. /\ 0 \in Slots /\ running \in Slots /\ boot \in Slots /\ target \in Slots
      /\ 1 - running \in Slots /\ 1 - boot \in Slots
      /\ state \in [Slots -> {"valid", "new", "pending", "aborted"}]
      /\ slots = [s \in Slots |-> slots[s]]
  BY OtherSlot DEF OtaTypes, Slots
<1>1. ASSUME NEW n \in Sizes, NEW kind \in Kinds, Put(n, kind) PROVE OtaTypes' /\ FilesInv'
  <2>1. /\ upload' = upload + 1 /\ files' = [files EXCEPT ![upload + 1] = [size |-> n, kind |-> kind]]
        /\ UNCHANGED <<slots, state, boot, running, cpc, target>>
        /\ upload + 1 \in 0 .. MaxUploads /\ upload \in Nat
    BY <1>1, UploadAssumption DEF Put, PutBegin, flashVars, ctxVars, OtaTypes
  <2>2. \A u \in 0 .. MaxUploads : u > upload + 1 => files'[u].size = 0
    <3> TAKE u \in 0 .. MaxUploads
    <3>1. u > upload + 1 => u > upload /\ u # upload + 1
      BY <2>1
    <3> QED
      BY <2>1, <3>1 DEF FilesInv, OtaTypes
  <2>3. FilesInv'
    BY <2>1, <2>2 DEF FilesInv
  <2>4. upload' \in Nat
    <3>1. upload \in Nat /\ upload' = upload + 1
      BY <2>1
    <3> QED
      BY <3>1
  <2>5. files' = [u \in 0 .. MaxUploads |-> files'[u]]
    BY <2>1 DEF OtaTypes
  <2>6. OtaTypes'
    BY <2>1, <2>4, <2>5 DEF OtaTypes
  <2> QED
    BY <2>3, <2>6
<1>2. CASE Receive \/ Close
  <2>1. UNCHANGED otaVars
    BY <1>2 DEF Receive, Close
  <2>2. UNCHANGED upload
    <3>1. ASSUME NEW n \in 1 .. ChunkSize, NEW t \in 0 .. RecvWait - 1, RecvData(n, t) PROVE UNCHANGED upload
      BY <3>1 DEF RecvData
    <3>2. CASE RecvTimeout \/ RecvError \/ PeerCloses
      BY <3>2 DEF RecvTimeout, RecvError, PeerCloses
    <3> QED
      BY <1>2, <3>1, <3>2 DEF Receive, Close, Recv
  <2> QED
    BY <2>1, <2>2 DEF OtaTypes, FilesInv, otaVars, flashVars, ctxVars
<1>3. CASE Handler
  <2>1. UNCHANGED <<running, cpc, files, upload>>
    <3>1. CASE OtaBegin \/ OtaBeginFails \/ OtaWriteFails \/ OtaEndFails \/ OtaSetBootFails
      BY <3>1 DEF OtaBegin, OtaBeginFails, OtaWriteFails, OtaEndFails, OtaSetBootFails, Abort, ChunkFailed, HttpGoto,
                  otaVars
    <3>2. CASE OtaWrite \/ OtaEnd \/ OtaSetBoot \/ OtaTimer
      BY <3>2 DEF OtaWrite, OtaEnd, OtaSetBoot, OtaTimer, ChunkOk, HttpGoto
    <3> QED
      BY <1>3, <3>1, <3>2 DEF Handler
  <2>2. target' \in Slots
    BY <1>0, <1>3 DEF Handler, OtaBegin, OtaBeginFails, OtaWrite, OtaWriteFails, OtaEnd, OtaEndFails, OtaSetBoot,
                OtaSetBootFails, OtaTimer, Abort, otaVars, ctxVars, NextUpdate
  <2>3. slots' = [s \in Slots |-> slots'[s]]
    BY <1>0, <1>3 DEF Handler, OtaBegin, OtaBeginFails, OtaWrite, OtaWriteFails, OtaEnd, OtaEndFails, OtaSetBoot,
                OtaSetBootFails, OtaTimer, otaVars, flashVars
  <2>4. boot' \in Slots /\ state' \in [Slots -> {"valid", "new", "pending", "aborted"}]
    BY <1>0, <1>3 DEF Handler, OtaBegin, OtaBeginFails, OtaWrite, OtaWriteFails, OtaEnd, OtaEndFails, OtaSetBoot,
                OtaSetBootFails, OtaTimer, otaVars, flashVars
  <2> QED
    BY <2>1, <2>2, <2>3, <2>4 DEF OtaTypes, FilesInv
<1>4. CASE Boot
  <2>1. UNCHANGED <<slots, files, target, upload>> /\ cpc' = "startup" /\ boot' \in {boot, 1 - boot} /\ running' = boot'
    BY <1>4 DEF Boot, ctxVars, uploadVars
  <2>2. state' = [s \in Slots |->
                    IF s = running' THEN IF state[s] = "new" THEN "pending" ELSE state[s]
                    ELSE IF state[s] = "pending" THEN "aborted" ELSE state[s]]
    BY <1>4 DEF Boot
  <2>3. state' \in [Slots -> {"valid", "new", "pending", "aborted"}]
    BY <1>0, <2>2
  <2> QED
    BY <1>0, <2>1, <2>3 DEF OtaTypes, FilesInv
<1>5. CASE StartupSucceeds \/ StartupFails
  BY <1>5 DEF StartupSucceeds, StartupFails, OtaTypes, FilesInv, flashVars, ctxVars, uploadVars
<1>6. CASE Verify
  <2>1. /\ UNCHANGED <<slots, boot, running, files, upload>> /\ cpc' \in {"up", "boot"} /\ target' \in {0, target}
        /\ \/ state' = [state EXCEPT ![running] = "valid"]
           \/ state' = [state EXCEPT ![running] = IF @ = "pending" THEN "aborted" ELSE @]
    BY <1>6 DEF Verify, Restart, Drop, ctxVars, uploadVars
  <2>2. state' \in [Slots -> {"valid", "new", "pending", "aborted"}]
    BY <1>0, <2>1
  <2> QED
    BY <1>0, <2>1, <2>2 DEF OtaTypes, FilesInv
<1>7. CASE TimerFires \/ PowerLoss \/ StartupCrashes \/ (Restart /\ UNCHANGED flashVars)
  <2>1. UNCHANGED <<slots, state, boot, running, files, upload>> /\ cpc' = "boot" /\ target' = 0
    BY <1>7 DEF TimerFires, PowerLoss, StartupCrashes, Restart, Drop, flashVars
  <2> QED
    BY <1>0, <2>1 DEF OtaTypes, FilesInv
<1>8. CASE UNCHANGED vars
  BY <1>8 DEF OtaTypes, FilesInv, vars, uploadVars, otaVars, flashVars, ctxVars
<1> QED
  BY <1>1, <1>2, <1>3, <1>4, <1>5, <1>6, <1>7, <1>8 DEF OtaNext, Next, Main

(* The controller comes with an image that works, and is told to boot it.  *)
LEMMA ImageInits == ControllerInit => OtaTypes /\ FilesInv /\ ImageInv
<1> SUFFICES ASSUME ControllerInit PROVE OtaTypes /\ FilesInv /\ ImageInv
  OBVIOUS
<1>1. Init /\ upload = 0 /\ hpc = "idle" /\ 0 \in 0 .. MaxUploads /\ Slots = {0, 1}
  BY UploadAssumption DEF ControllerInit, Init, UploadInit, Slots
<1>2. /\ files = [u \in 0 .. MaxUploads |-> [size |-> IF u = 0 THEN 1 ELSE 0, kind |-> "works"]]
      /\ slots = [s \in Slots |-> IF s = 0 THEN Body(0) ELSE <<>>]
      /\ state = [s \in Slots |-> IF s = 0 THEN "valid" ELSE "aborted"]
      /\ boot = 0 /\ running = 0 /\ cpc = "boot" /\ handle = 0 /\ target = 0
  BY <1>1 DEF Init
<1>3. OtaTypes
  BY <1>1, <1>2 DEF OtaTypes
<1>4. FilesInv
  BY <1>1, <1>2 DEF FilesInv
<1>5. Good(0)
  <2>1. files[0].size = 1 /\ files[0].kind = "works" /\ slots[0] = Body(0) /\ state[0] = "valid"
    BY <1>1, <1>2
  <2>2. 0 \in DOMAIN files
    BY <1>1, <1>2
  <2> QED
    BY <2>1, <2>2 DEF Good, Works, Holds
<1>6. ImageInv
  BY <1>1, <1>2, <1>5 DEF ImageInv
<1> QED
  BY <1>3, <1>4, <1>6

(* Whatever is uploaded, however often, refused, broken off or cut off by  *)
(* a restart or a loss of power at any step: a partition with an image     *)
(* that has shown that it starts is kept, and the bootloader gets at it.   *)
THEOREM ImageSurvives == ControllerSpec => []ProvenImageKept
<1>1. ControllerInit => OtaTypes /\ FilesInv /\ ImageInv
  BY ImageInits
<1>2. OtaTypes /\ FilesInv /\ ImageInv /\ [ControllerNext]_controllerVars => OtaTypes' /\ FilesInv' /\ ImageInv'
  BY OtaView, OtaTypeStep, ImageStep
<1>3. OtaTypes /\ ImageInv => ProvenImageKept
  BY ImageIsKept
<1> QED
  BY <1>1, <1>2, <1>3, PTL DEF ControllerSpec

--------------------------------------------------------------------------------
(* Types of the upload and of what the handler keeps of it.                *)
RequestTypes ==
  /\ UploadTypeOK
  /\ hpc \in {"idle", "recv", "handle", "write", "end", "setBoot", "timer"}
HandleTypes ==
  /\ handle \in 0 .. MaxUploads /\ timer \in BOOLEAN
  /\ files \in [0 .. MaxUploads -> [size : Sizes \cup {0, 1}, kind : Kinds]]

(* A restart empties the buffer and the counts.                            *)
LEMMA DropTypes == RequestTypes /\ Drop => RequestTypes'
<1> SUFFICES ASSUME RequestTypes, Drop PROVE RequestTypes'
  OBVIOUS
<1>1. size \in Nat /\ size' = size
  BY UploadAssumption DEF RequestTypes, UploadTypeOK, Drop
<1>2. 0 \in 0 .. size' /\ 0 \in 0 .. ChunkSize /\ 0 \in 0 .. Timeout
  BY <1>1, UploadAssumption
<1>3. buf' \in [0 .. ChunkSize - 1 -> Nat \cup {NoByte}]
  BY DEF Drop
<1> QED
  BY <1>1, <1>2, <1>3 DEF RequestTypes, UploadTypeOK, Drop

(* The chunk is taken from what is left of the body.                       *)
LEMMA ChunkTypes == RequestTypes /\ UploadInv /\ hpc \notin {"idle", "recv"} /\ ChunkOk => RequestTypes'
<1> SUFFICES ASSUME RequestTypes, UploadInv, hpc \notin {"idle", "recv"}, ChunkOk PROVE RequestTypes'
  OBVIOUS
<1>1. size \in Nat /\ offset \in Nat /\ offset < size
  BY DEF UploadInv
<1>2. ChunkLen \in 1 .. ChunkSize /\ offset + ChunkLen <= size
  BY <1>1, ChunkLenRange
<1>3. /\ offset' = offset + ChunkLen /\ received' = 0 /\ elapsed' = 0
      /\ UNCHANGED <<upload, size, buf, taken, peer>>
      /\ hpc' \in {"recv", "idle"} /\ reply' \in {reply, "ok"}
  BY DEF ChunkOk, Done
<1>4. offset' \in 0 .. size /\ 0 \in 0 .. ChunkSize /\ 0 \in 0 .. Timeout
  BY <1>1, <1>2, <1>3, UploadAssumption
<1> QED
  BY <1>3, <1>4 DEF RequestTypes, UploadTypeOK

(* What is received is a part of the chunk, and so of the body.            *)
LEMMA RecvTypes == RequestTypes /\ UploadInv /\ UploadInv' /\ Recv => RequestTypes'
<1> SUFFICES ASSUME RequestTypes, UploadInv, UploadInv', Recv PROVE RequestTypes'
  OBVIOUS
<1>1. hpc = "recv" /\ UNCHANGED <<upload, size, offset, peer>>
  BY DEF Recv, RecvData, RecvTimeout, RecvError
<1>2. size \in Nat /\ offset \in Nat /\ offset < size /\ received \in Nat /\ taken = offset + received
  BY <1>1 DEF UploadInv
<1>3. ChunkLen \in 1 .. ChunkSize /\ offset + ChunkLen <= size
  BY <1>2, ChunkLenRange
<1>4. elapsed' \in 0 .. Timeout
  BY DEF UploadInv
<1>5. CASE RecvTimeout \/ RecvError
  <2>1. UNCHANGED <<buf, taken>>
    BY <1>5 DEF RecvTimeout, RecvError
  <2>2. UNCHANGED received /\ hpc' = "idle" /\ reply' = "error"
    BY <1>5, <1>2, UploadAssumption DEF RecvTimeout, RecvError, Done, Least, RequestTypes, UploadTypeOK
  <2> QED
    BY <1>1, <1>4, <2>1, <2>2 DEF RequestTypes, UploadTypeOK
<1>6. ASSUME NEW n \in 1 .. ChunkSize, NEW t \in 0 .. RecvWait - 1, RecvData(n, t) PROVE RequestTypes'
  <2>1. /\ n <= ChunkLen - received /\ received' = received + n /\ taken' = taken + n
        /\ UNCHANGED reply /\ hpc' \in {"recv", "handle"}
    BY <1>6 DEF RecvData
  <2>2. n \in Nat /\ ChunkSize \in Nat
    BY UploadAssumption
  <2>3. received' \in 0 .. ChunkSize /\ taken' \in 0 .. size
    BY <1>2, <1>3, <2>1, <2>2
  <2>4. buf' \in [0 .. ChunkSize - 1 -> Nat \cup {NoByte}]
    <3>1. buf \in [0 .. ChunkSize - 1 -> Nat \cup {NoByte}]
      BY DEF RequestTypes, UploadTypeOK
    <3>2. buf' = [i \in 0 .. ChunkSize - 1 |->
                    IF i \in received .. received + n - 1 THEN taken + i - received ELSE buf[i]]
      BY <1>6, <3>1 DEF RecvData
    <3>3. \A i \in received .. received + n - 1 : taken + i - received \in Nat
      BY <1>2, <2>2
    <3> QED
      BY <3>1, <3>2, <3>3
  <2> QED
    BY <1>1, <1>4, <2>1, <2>3, <2>4 DEF RequestTypes, UploadTypeOK
<1> QED
  BY <1>5, <1>6 DEF Recv

LEMMA RequestTypeStep == RequestTypes /\ UploadInv /\ UploadInv' /\ [OtaNext]_vars => RequestTypes'
<1> SUFFICES ASSUME RequestTypes, UploadInv, UploadInv', [OtaNext]_vars PROVE RequestTypes'
  OBVIOUS
<1>1. ASSUME NEW n \in Sizes, NEW kind \in Kinds, Put(n, kind) PROVE RequestTypes'
  <2>1. /\ upload < MaxUploads /\ upload' = upload + 1 /\ size' = n
        /\ offset' = 0 /\ received' = 0 /\ elapsed' = 0 /\ taken' = 0
        /\ buf' = [i \in 0 .. ChunkSize - 1 |-> NoByte] /\ peer' = "sending"
        /\ hpc' \in {"recv", "idle"} /\ reply' \in {"none", "ok"}
    BY <1>1 DEF Put, PutBegin, Done
  <2>2. upload' \in 0 .. MaxUploads
    BY <2>1, UploadAssumption DEF RequestTypes, UploadTypeOK
  <2>3. 0 \in 0 .. size' /\ 0 \in 0 .. ChunkSize /\ 0 \in 0 .. Timeout
    BY <2>1, UploadAssumption
  <2>4. buf' \in [0 .. ChunkSize - 1 -> Nat \cup {NoByte}]
    BY <2>1
  <2> QED
    BY <2>1, <2>2, <2>3, <2>4 DEF RequestTypes, UploadTypeOK
<1>2. CASE Receive
  BY <1>2, RecvTypes DEF Receive
<1>3. CASE Close
  BY <1>3 DEF Close, PeerCloses, RequestTypes, UploadTypeOK
<1>4. CASE Handler
  <2>1. CASE OtaBeginFails \/ OtaWriteFails \/ OtaEndFails \/ OtaSetBootFails
    <3>1. ChunkFailed
      BY <2>1 DEF OtaBeginFails, OtaWriteFails, OtaEndFails, OtaSetBootFails, Abort
    <3> QED
      BY <3>1 DEF ChunkFailed, Done, RequestTypes, UploadTypeOK
  <2>2. CASE OtaTimer
    BY <2>2, ChunkTypes DEF OtaTimer
  <2>3. CASE OtaWrite /\ ChunkOk
    BY <2>3, ChunkTypes DEF OtaWrite
  <2>4. CASE OtaBegin \/ (OtaWrite /\ HttpGoto(hpc, "end")) \/ OtaEnd \/ OtaSetBoot
    <3>1. /\ hpc' \in {"write", "end", "setBoot", "timer"}
          /\ UNCHANGED <<upload, size, offset, received, elapsed, buf, taken, peer, reply>>
      BY <2>4 DEF OtaBegin, OtaWrite, OtaEnd, OtaSetBoot, HttpGoto
    <3> QED
      BY <3>1 DEF RequestTypes, UploadTypeOK
  <2>5. OtaWrite => ChunkOk \/ HttpGoto(hpc, "end")
    BY DEF OtaWrite
  <2> QED
    BY <1>4, <2>1, <2>2, <2>3, <2>4, <2>5 DEF Handler
<1>5. CASE Boot \/ StartupSucceeds \/ StartupFails \/ (Verify /\ cpc = "serving")
  <2>1. UNCHANGED uploadVars
    BY <1>5 DEF Boot, StartupSucceeds, StartupFails, Verify
  <2> QED
    BY <2>1 DEF uploadVars, RequestTypes, UploadTypeOK
<1>6. CASE TimerFires \/ PowerLoss \/ StartupCrashes \/ (Verify /\ cpc # "serving")
           \/ (Restart /\ UNCHANGED flashVars)
  <2>1. Restart
    BY <1>6 DEF TimerFires, PowerLoss, StartupCrashes, Verify
  <2> QED
    BY <2>1, DropTypes DEF Restart
<1>7. CASE UNCHANGED vars
  BY <1>7 DEF vars, uploadVars, RequestTypes, UploadTypeOK
<1> QED
  BY <1>1, <1>2, <1>3, <1>4, <1>5, <1>6, <1>7 DEF OtaNext, Next, Main

LEMMA HandleTypeStep == RequestTypes /\ HandleTypes /\ [OtaNext]_vars => HandleTypes'
<1> SUFFICES ASSUME RequestTypes, HandleTypes, [OtaNext]_vars PROVE HandleTypes'
  OBVIOUS
<1>0. upload \in 0 .. MaxUploads /\ 0 \in 0 .. MaxUploads
  BY UploadAssumption DEF RequestTypes, UploadTypeOK
<1>1. ASSUME NEW n \in Sizes, NEW kind \in Kinds, Put(n, kind) PROVE HandleTypes'
  <2>1. /\ files' = [files EXCEPT ![upload + 1] = [size |-> n, kind |-> kind]]
        /\ UNCHANGED <<handle, timer>>
    BY <1>1 DEF Put, ctxVars
  <2>2. [size |-> n, kind |-> kind] \in [size : Sizes \cup {0, 1}, kind : Kinds]
    OBVIOUS
  <2> QED
    BY <2>1, <2>2 DEF HandleTypes
<1>2. CASE Receive \/ Close
  BY <1>2 DEF Receive, Close, otaVars, ctxVars, HandleTypes
<1>3. CASE Handler
  <2>1. UNCHANGED files
    BY <1>3 DEF Handler, OtaBegin, OtaBeginFails, OtaWrite, OtaWriteFails, OtaEnd, OtaEndFails, OtaSetBoot,
                OtaSetBootFails, OtaTimer, Abort, otaVars
  <2>2. handle' \in {handle, upload, 0}
    BY <1>3 DEF Handler, OtaBegin, OtaBeginFails, OtaWrite, OtaWriteFails, OtaEnd, OtaEndFails, OtaSetBoot,
                OtaSetBootFails, OtaTimer, Abort, otaVars, ctxVars
  <2>3. timer' \in {timer, TRUE}
    BY <1>3 DEF Handler, OtaBegin, OtaBeginFails, OtaWrite, OtaWriteFails, OtaEnd, OtaEndFails, OtaSetBoot,
                OtaSetBootFails, OtaTimer, Abort, otaVars, ctxVars
  <2> QED
    BY <1>0, <2>1, <2>2, <2>3 DEF HandleTypes
<1>4. CASE Boot \/ StartupSucceeds \/ StartupFails \/ (Verify /\ cpc = "serving")
  BY <1>4 DEF Boot, StartupSucceeds, StartupFails, Verify, ctxVars, HandleTypes
<1>5. CASE TimerFires \/ PowerLoss \/ StartupCrashes \/ (Verify /\ cpc # "serving")
           \/ (Restart /\ UNCHANGED flashVars)
  <2>1. Restart
    BY <1>5 DEF TimerFires, PowerLoss, StartupCrashes, Verify
  <2> QED
    BY <1>0, <2>1 DEF Restart, HandleTypes
<1>6. CASE UNCHANGED vars
  BY <1>6 DEF vars, otaVars, ctxVars, HandleTypes
<1> QED
  BY <1>1, <1>2, <1>3, <1>4, <1>5, <1>6 DEF OtaNext, Next, Main

(* Through every upload and restart the update keeps its types.            *)
LEMMA OtaTypeCorrect == ControllerSpec => []TypeOK
<1>1. ControllerInit => RequestTypes /\ HandleTypes
  <2> SUFFICES ASSUME ControllerInit PROVE RequestTypes /\ HandleTypes
    OBVIOUS
  <2>1. Init /\ UploadInit
    BY DEF ControllerInit, Init
  <2>2. 0 \in 0 .. MaxUploads /\ 0 \in 0 .. ChunkSize /\ 0 \in 0 .. Timeout /\ 0 \in 0 .. 0
    BY UploadAssumption
  <2>3. buf \in [0 .. ChunkSize - 1 -> Nat \cup {NoByte}]
    BY <2>1 DEF UploadInit
  <2>4. files \in [0 .. MaxUploads -> [size : Sizes \cup {0, 1}, kind : Kinds]]
    BY <2>1 DEF Init, Kinds
  <2> QED
    BY <2>1, <2>2, <2>3, <2>4 DEF Init, UploadInit, RequestTypes, UploadTypeOK, HandleTypes
<1>2. RequestTypes /\ HandleTypes /\ OtaTypes /\ FilesInv /\ UploadInv /\ [ControllerNext]_controllerVars
        => RequestTypes' /\ HandleTypes' /\ OtaTypes' /\ FilesInv' /\ UploadInv'
  BY OtaView, UploadStep, RequestTypeStep, HandleTypeStep, OtaTypeStep
<1>3. RequestTypes /\ HandleTypes /\ OtaTypes => TypeOK
  BY DEF RequestTypes, HandleTypes, OtaTypes, TypeOK
<1> QED
  BY <1>1, <1>2, <1>3, UploadInits, ImageInits, PTL DEF ControllerSpec
================================================================================
