--------------------------------- MODULE UartRx --------------------------------
(***************************************************************************)
(* Reception by the UART driver of a module.  The circular DMA writes into *)
(* the ring by itself and knows nothing of the reader; the write pointer   *)
(* is read from the channel each time it is needed, so bytes arrive        *)
(* between any two steps of rbuff_read.                                    *)
(***************************************************************************)
EXTENDS RBuff, Sequences

CONSTANT MaxRead    (* most bytes asked for by one uart_driver_read *)

ASSUME RxAssumption == MaxRead \in Nat \ {0}

VARIABLES
  rxMem, rxDmaPtr,    (* uart_rx_dma_buf and where the channel writes next *)
  rxPtr,              (* rx_rbuff.r_ptr                                    *)
  rxPc, rxLeft,       (* main loop: next step, elements still asked for    *)
  got,                (* last byte handed to the caller                    *)
  unread              (* history: bytes received and not yet passed over   *)

rxVars == <<rxMem, rxDmaPtr, rxPtr, rxPc, rxLeft, got, unread>>

RxInit ==
  /\ rxMem \in [Ptrs -> Bytes] /\ rxDmaPtr = 0 /\ rxPtr = 0
  /\ rxPc = "idle" /\ rxLeft = 0 /\ got \in Bytes /\ unread = 0

(* The channel writes a byte.  The sender is assumed never to get a whole  *)
(* ring ahead: the ring would look empty and a ring of bytes be lost.      *)
RxByte(b) ==
  /\ unread < Capacity - 1
  /\ rxMem' = [rxMem EXCEPT ![rxDmaPtr] = b]
  /\ rxDmaPtr' = PtrNext(rxDmaPtr)
  /\ unread' = unread + 1
  /\ UNCHANGED <<rxPtr, rxPc, rxLeft, got>>

RxCall(n) ==
  /\ rxPc = "idle" /\ rxPc' = "read"
  /\ rxLeft' = n
  /\ UNCHANGED <<rxMem, rxDmaPtr, rxPtr, got, unread>>

(* Mutant: the emptiness test is made once per call, not per element. *)
RxTestOnce ==
  /\ rxPc = "read"
  /\ IF rxLeft > 0 THEN rxPc' = "copy" /\ UNCHANGED rxLeft ELSE rxPc' = "idle" /\ UNCHANGED rxLeft
  /\ UNCHANGED <<rxMem, rxDmaPtr, rxPtr, got, unread>>

RxTest ==
  /\ rxPc = "read"
  /\ IF rxLeft > 0 /\ ~IsEmpty(rxPtr, rxDmaPtr)
     THEN rxPc' = "copy" /\ UNCHANGED rxLeft
     ELSE rxPc' = "idle" /\ rxLeft' = 0
  /\ UNCHANGED <<rxMem, rxDmaPtr, rxPtr, got, unread>>

RxCopy ==
  /\ rxPc = "copy" /\ rxPc' = "advance"
  /\ got' = rxMem[rxPtr]
  /\ UNCHANGED <<rxMem, rxDmaPtr, rxPtr, rxLeft, unread>>

(* Mutant: the pointer goes straight to where the channel writes (rbuff_flush). *)
RxAdvanceFlush ==
  /\ rxPc = "advance" /\ rxPc' = "read"
  /\ rxPtr' = rxDmaPtr
  /\ rxLeft' = rxLeft - 1
  /\ unread' = unread - 1
  /\ UNCHANGED <<rxMem, rxDmaPtr, got>>

RxAdvance ==
  /\ rxPc = "advance" /\ rxPc' = "read"
  /\ rxPtr' = PtrNext(rxPtr)
  /\ rxLeft' = rxLeft - 1
  /\ unread' = unread - 1
  /\ UNCHANGED <<rxMem, rxDmaPtr, got>>

RxNext ==
  \/ \E b \in Bytes : RxByte(b)
  \/ \E n \in 1 .. MaxRead : RxCall(n)
  \/ RxTest \/ RxCopy \/ RxAdvance
--------------------------------------------------------------------------------
RxWaiting == Contents(rxMem, rxPtr, rxDmaPtr)

(* Received and not yet handed over: an element that is copied is delivered. *)
RxUndelivered == IF rxPc = "advance" THEN Tail(RxWaiting) ELSE RxWaiting

RxQueue == INSTANCE ByteQueue WITH queue <- RxUndelivered, last <- got, Limit <- Capacity - 1

(* uart_driver_cnt_readable: the number of bytes that can be read is the   *)
(* number of bytes received that rbuff_read has not passed over yet.       *)
CountsUnread == CntUsed(rxPtr, rxDmaPtr) = unread
================================================================================
