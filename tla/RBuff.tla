--------------------------------- MODULE RBuff ---------------------------------
(***************************************************************************)
(* Pointer arithmetic of the ring buffer (rbuff.c).  Pointers are element  *)
(* indices; one element always stays free, so that equal pointers mean     *)
(* empty.                                                                  *)
(***************************************************************************)
EXTENDS Integers

CONSTANTS
  Capacity,    (* elements in the buffer        *)
  Bytes        (* the elements that are told apart *)

ASSUME RBuffAssumption == Capacity \in Nat \ {0, 1} /\ Bytes # {}

Ptrs == 0 .. Capacity - 1

(* Mutant: the test for the end of the buffer is one element late. *)
PtrNextLate(ptr) == IF ptr = Capacity THEN 0 ELSE ptr + 1

(* rbuff_r_ptr_next, rbuff_w_ptr_next *)
PtrNext(ptr) == IF ptr + 1 = Capacity THEN 0 ELSE ptr + 1

IsEmpty(r, w) == r = w

(* Mutant: the ring is not tested for being full. *)
IsFullNever(r, w) == FALSE

IsFull(r, w) == r = PtrNext(w)

CntUsed(r, w) == (w - r + Capacity) % Capacity

(* Mutant: the element that stays free is counted. *)
CntFreeAll(r, w) == Capacity - CntUsed(r, w)

CntFree(r, w) == Capacity - CntUsed(r, w) - 1

(* What a ring with these pointers holds, oldest first. *)
Contents(mem, r, w) == [i \in 1 .. CntUsed(r, w) |-> mem[(r + i - 1) % Capacity]]
================================================================================
