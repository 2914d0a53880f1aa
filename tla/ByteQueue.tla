------------------------------- MODULE ByteQueue -------------------------------
(***************************************************************************)
(* What each direction of the UART driver promises: a bounded first-in     *)
(* first-out queue of bytes.                                               *)
(***************************************************************************)
EXTENDS Naturals, Sequences

CONSTANTS
  Bytes,      (* the bytes that are told apart *)
  Limit       (* most bytes ever queued        *)

VARIABLES
  queue,      (* accepted and not yet delivered, oldest first *)
  last        (* byte delivered last                          *)

Init == queue = <<>> /\ last \in Bytes

Put(b) ==
  /\ Len(queue) < Limit
  /\ queue' = Append(queue, b)
  /\ UNCHANGED last

Take ==
  /\ queue # <<>>
  /\ last' = Head(queue)
  /\ queue' = Tail(queue)

Next == Take \/ \E b \in Bytes : Put(b)

Spec == Init /\ [][Next]_<<queue, last>>
================================================================================
