--------------------------------- MODULE UartTx --------------------------------
(***************************************************************************)
(* Transmission by the UART driver of a module.  The main loop puts bytes  *)
(* in a ring buffer; uart_driver_update_tx_dma_buffer moves them to the    *)
(* DMA buffer and starts a transfer.  It is called by the main loop after  *)
(* a write, and by the interrupt that ends a transfer, so both contexts    *)
(* read the ring and share tx_dma_busy, with interrupts enabled.           *)
(*                                                                         *)
(* There is one core: the interrupt handler is one step, which may come    *)
(* between any two steps of the main loop.  The DMA runs by itself.        *)
(***************************************************************************)
EXTENDS RBuff, Sequences, SequencesExt

CONSTANTS
  DmaSize,      (* tx_dma_buffer_size                            *)
  MaxWrite      (* most bytes passed to one uart_driver_write    *)

ASSUME TxAssumption ==
  /\ DmaSize \in Nat \ {0}
  /\ MaxWrite \in Nat \ {0}

VARIABLES
  mem, rPtr, wPtr,    (* tx_rbuff                                           *)
  dmaBuf,             (* tx_dma_buffer                                      *)
  txDmaBusy,          (* tx_dma_busy                                        *)
  dmaPos, dmaLen,     (* DMA channel: next byte, bytes of the transfer      *)
  tcFlag,             (* DMA channel: transfer complete, interrupt pending  *)
  line,               (* last byte put on the line                          *)
  pc,                 (* main loop: next step                               *)
  left,               (* main loop: bytes of the call still to be written   *)
  cnt,                (* main loop: bytes read from the ring by the update  *)
  promised            (* history: of the bytes that uart_driver_cnt_writable *)
                      (*   reported before the call, those still to write   *)

ringVars == <<mem, rPtr, wPtr>>
dmaVars == <<dmaPos, dmaLen, tcFlag, line>>
mainVars == <<pc, left, cnt, promised>>
vars == <<ringVars, dmaBuf, txDmaBusy, dmaVars, mainVars>>

Slots == 0 .. DmaSize - 1

Init ==
  /\ mem \in [Ptrs -> Bytes] /\ rPtr = 0 /\ wPtr = 0
  /\ dmaBuf \in [Slots -> Bytes]
  /\ txDmaBusy = FALSE
  /\ dmaPos = 0 /\ dmaLen = 0 /\ tcFlag = FALSE /\ line \in Bytes
  /\ pc = "idle" /\ left = 0 /\ cnt = 0 /\ promised = 0

--------------------------------------------------------------------------------
(* Main loop: uart_driver_write *)

Goto(from, to) == pc = from /\ pc' = to

WriteCall(n) ==
  /\ Goto("idle", "write")
  /\ left' = n
  /\ promised' = IF n <= CntFree(rPtr, wPtr) THEN n ELSE CntFree(rPtr, wPtr)
  /\ UNCHANGED <<ringVars, dmaBuf, txDmaBusy, dmaVars, cnt>>

(* The test of the loop in rbuff_write; what does not fit is not written. *)
WriteTest ==
  /\ pc = "write"
  /\ IF left > 0 /\ ~IsFull(rPtr, wPtr)
     THEN pc' = "copy" /\ UNCHANGED <<left, promised>>
     ELSE pc' = "update" /\ left' = 0 /\ promised' = 0
  /\ UNCHANGED <<ringVars, dmaBuf, txDmaBusy, dmaVars, cnt>>

WriteCopy(b) ==
  /\ Goto("copy", "advance")
  /\ mem' = [mem EXCEPT ![wPtr] = b]
  /\ UNCHANGED <<rPtr, wPtr, dmaBuf, txDmaBusy, dmaVars, left, cnt, promised>>

WriteAdvance ==
  /\ Goto("advance", "write")
  /\ wPtr' = PtrNext(wPtr)
  /\ left' = left - 1
  /\ promised' = IF promised > 0 THEN promised - 1 ELSE 0
  /\ UNCHANGED <<mem, rPtr, dmaBuf, txDmaBusy, dmaVars, cnt>>

(* Mutant: the update does not look at tx_dma_busy. *)
UpdateTestBlind ==
  /\ Goto("update", "read")
  /\ UNCHANGED <<ringVars, dmaBuf, txDmaBusy, dmaVars, left, cnt, promised>>

(* uart_driver_update_tx_dma_buffer, called by the main loop. *)
UpdateTest ==
  /\ pc = "update"
  /\ pc' = IF txDmaBusy THEN "idle" ELSE "read"
  /\ UNCHANGED <<ringVars, dmaBuf, txDmaBusy, dmaVars, left, cnt, promised>>

ReadTest ==
  /\ pc = "read"
  /\ pc' = CASE cnt < DmaSize /\ ~IsEmpty(rPtr, wPtr) -> "fetch"
             [] ~(cnt < DmaSize /\ ~IsEmpty(rPtr, wPtr)) /\ cnt > 0 -> "launch"
             [] OTHER -> "idle"
  /\ UNCHANGED <<ringVars, dmaBuf, txDmaBusy, dmaVars, left, cnt, promised>>

ReadCopy ==
  /\ Goto("fetch", "fetched")
  /\ dmaBuf' = [dmaBuf EXCEPT ![cnt] = mem[rPtr]]
  /\ UNCHANGED <<ringVars, txDmaBusy, dmaVars, left, cnt, promised>>

ReadAdvance ==
  /\ Goto("fetched", "read")
  /\ rPtr' = PtrNext(rPtr)
  /\ cnt' = cnt + 1
  /\ UNCHANGED <<mem, wPtr, dmaBuf, txDmaBusy, dmaVars, left, promised>>

StartDma(n) == dmaPos' = 0 /\ dmaLen' = n

(* Mutant: tx_dma_busy is set after the transfer has been started. *)
LaunchThenBusy ==
  \/ /\ Goto("launch", "start")
     /\ StartDma(cnt)
     /\ UNCHANGED <<ringVars, dmaBuf, txDmaBusy, tcFlag, line, left, cnt, promised>>
  \/ /\ Goto("start", "idle")
     /\ txDmaBusy' = TRUE /\ cnt' = 0
     /\ UNCHANGED <<ringVars, dmaBuf, dmaVars, left, promised>>

(* tx_dma_busy is set, then the transfer is started. *)
Launch ==
  \/ /\ Goto("launch", "start")
     /\ txDmaBusy' = TRUE
     /\ UNCHANGED <<ringVars, dmaBuf, dmaVars, left, cnt, promised>>
  \/ /\ Goto("start", "idle")
     /\ StartDma(cnt) /\ cnt' = 0
     /\ UNCHANGED <<ringVars, dmaBuf, txDmaBusy, tcFlag, line, left, promised>>

--------------------------------------------------------------------------------
(* DMA channel and its interrupt *)

DmaSend ==
  /\ dmaPos < dmaLen
  /\ line' = dmaBuf[dmaPos]
  /\ dmaPos' = dmaPos + 1
  /\ tcFlag' = (dmaPos' = dmaLen)
  /\ UNCHANGED <<ringVars, dmaBuf, txDmaBusy, dmaLen, mainVars>>

Moved == IF CntUsed(rPtr, wPtr) < DmaSize THEN CntUsed(rPtr, wPtr) ELSE DmaSize

(* DMA1_Channel2_3_IRQHandler: the whole update runs in the interrupt. *)
TransferComplete ==
  /\ tcFlag
  /\ tcFlag' = FALSE
  /\ dmaBuf' = [i \in Slots |-> IF i < Moved THEN mem[(rPtr + i) % Capacity] ELSE dmaBuf[i]]
  /\ rPtr' = (rPtr + Moved) % Capacity
  /\ IF Moved > 0
     THEN txDmaBusy' = TRUE /\ StartDma(Moved)
     ELSE txDmaBusy' = FALSE /\ UNCHANGED <<dmaPos, dmaLen>>
  /\ UNCHANGED <<mem, wPtr, line, mainVars>>

--------------------------------------------------------------------------------
MainStep ==
  \/ WriteTest \/ WriteAdvance \/ UpdateTest
  \/ \E b \in Bytes : WriteCopy(b)
  \/ ReadTest \/ ReadCopy \/ ReadAdvance \/ Launch

Next ==
  \/ \E n \in 1 .. MaxWrite : WriteCall(n)
  \/ MainStep
  \/ DmaSend
  \/ TransferComplete

Spec == Init /\ [][Next]_vars

(* The main loop, the DMA and an enabled interrupt all make progress. *)
Fairness == WF_vars(MainStep) /\ WF_vars(DmaSend) /\ WF_vars(TransferComplete)
--------------------------------------------------------------------------------
(* Types and ranges: both pointers stay in the ring, a call writes at most *)
(* MaxWrite bytes and an update moves at most a DMA buffer.                *)
TypeOK ==
  /\ mem \in [Ptrs -> Bytes] /\ rPtr \in Ptrs /\ wPtr \in Ptrs
  /\ dmaBuf \in [Slots -> Bytes] /\ txDmaBusy \in BOOLEAN
  /\ dmaPos \in 0 .. DmaSize /\ dmaLen \in 0 .. DmaSize /\ dmaPos <= dmaLen
  /\ tcFlag \in BOOLEAN /\ line \in Bytes
  /\ pc \in {"idle", "write", "copy", "advance", "update", "read", "fetch", "fetched", "launch", "start"}
  /\ left \in 0 .. MaxWrite /\ (pc \in {"copy", "advance"} => left > 0)
  /\ promised \in 0 .. left
  /\ cnt \in 0 .. DmaSize /\ (pc \in {"fetch", "fetched"} => cnt < DmaSize)

Reading == pc \in {"read", "fetch", "fetched", "launch", "start"}

(* The bytes on their way, oldest first: what the channel has still to     *)
(* send, what a running update has moved, and what is in the ring.         *)
Pending == [i \in 1 .. dmaLen - dmaPos |-> dmaBuf[dmaPos + i - 1]]
Gathered == [i \in 1 .. cnt |-> dmaBuf[i - 1]]
InFlight == Pending \o Gathered \o Contents(mem, rPtr, wPtr)

(* The ring is read by one context at a time: while the main loop updates, *)
(* no transfer runs and no transfer-complete interrupt is pending, so the  *)
(* handler cannot read the ring or the DMA buffer under it.                *)
SoleReader == Reading => dmaPos = dmaLen /\ ~tcFlag

(* What uart_driver_cnt_writable reported can be written without loss,     *)
(* whatever interrupts come in between: rbuff_write never finds the ring   *)
(* full before.                                                            *)
WritableIsHonoured == pc = "write" /\ promised > 0 => ~IsFull(rPtr, wPtr)

Queue == INSTANCE ByteQueue WITH queue <- InFlight, last <- line, Limit <- Capacity - 1 + DmaSize

(* Bytes do not stay in the ring: either the main loop or the interrupt    *)
(* sees to it that a transfer follows.                                     *)
RingDrains == \A p \in Ptrs : (rPtr = p /\ ~IsEmpty(rPtr, wPtr)) ~> rPtr # p

--------------------------------------------------------------------------------
(* Inductive: what keeps the two readers of the ring apart.  The channel   *)
(* is only active under tx_dma_busy, and an update by the main loop starts *)
(* only when it is not set.                                                *)
ChannelInv ==
  /\ dmaPos <= dmaLen
  /\ tcFlag => dmaPos = dmaLen
  /\ dmaPos < dmaLen \/ tcFlag => txDmaBusy
  /\ pc = "start" => txDmaBusy
  /\ SoleReader
================================================================================
