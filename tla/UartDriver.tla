------------------------------- MODULE UartDriver ------------------------------
(***************************************************************************)
(* Both directions of the UART driver of a module.  They share the code of *)
(* the ring buffer and nothing else: two rings, two DMA channels, and the  *)
(* main loop is in one call at a time.  A behaviour exercises one of them, *)
(* the other rests in its initial state.                                   *)
(***************************************************************************)
EXTENDS UartTx, UartRx

VARIABLE direction    (* "tx" or "rx" *)

TxRests == \E b \in Bytes : mem = [p \in Ptrs |-> b] /\ dmaBuf = [i \in Slots |-> b] /\ line = b
RxRests == \E b \in Bytes : rxMem = [p \in Ptrs |-> b] /\ got = b

DriverInit ==
  /\ Init /\ RxInit
  /\ \/ direction = "tx" /\ RxRests
     \/ direction = "rx" /\ TxRests

Transmit == direction = "tx" /\ Next /\ UNCHANGED <<rxVars, direction>>
Receive == direction = "rx" /\ RxNext /\ UNCHANGED <<vars, direction>>

DriverSpec ==
  /\ DriverInit /\ [][Transmit \/ Receive]_<<vars, rxVars, direction>>
  /\ Fairness

--------------------------------------------------------------------------------
(* Bytes leave in the order they were accepted, none twice, none lost; and *)
(* those of a paced sender are handed out in the order they came, however  *)
(* the channel writes during uart_driver_read.                             *)
IsByteQueue == Queue!Spec /\ RxQueue!Spec

(* The counts that the callers rely on hold when they are acted upon: what *)
(* uart_driver_cnt_writable reported is accepted, and what                 *)
(* uart_driver_cnt_readable reports is what is unread.                     *)
CountsHold == WritableIsHonoured /\ CountsUnread
================================================================================
