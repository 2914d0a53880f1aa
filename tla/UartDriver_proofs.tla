---------------------------- MODULE UartDriver_proofs --------------------------
(***************************************************************************)
(* Proofs about the UART driver, for every size of the rings, of the DMA   *)
(* buffer and of a call: types and the one reader of the transmit ring     *)
(* (UartTx), the counts that callers act upon (UartDriver), and that each  *)
(* direction is a first-in first-out queue of bytes (ByteQueue).           *)
(***************************************************************************)
EXTENDS UartDriver, SequenceTheorems, TLAPS

--------------------------------------------------------------------------------
(* Transmit path: types, and one reader *)

(* The remainder of a division by the size of the ring is a pointer.       *)
LEMMA ModIsPtr == \A x \in Int : x % Capacity \in Ptrs
BY RBuffAssumption DEF Ptrs

(* The pointer after a pointer is a pointer.                               *)
LEMMA NextIsPtr == \A ptr \in Ptrs : PtrNext(ptr) \in Ptrs
BY RBuffAssumption DEF Ptrs, PtrNext

(* The counts of used and of free elements are in range.                   *)
LEMMA CountsInRange ==
  \A r, w \in Ptrs : CntUsed(r, w) \in 0 .. Capacity - 1 /\ CntFree(r, w) \in 0 .. Capacity - 1
<1> TAKE r, w \in Ptrs
<1>1. w - r + Capacity \in Int
  BY RBuffAssumption DEF Ptrs
<1>2. CntUsed(r, w) \in 0 .. Capacity - 1
  BY <1>1, ModIsPtr DEF CntUsed, Ptrs
<1> QED
  BY <1>2, RBuffAssumption DEF CntFree

(* What the interrupt moves fits in the DMA buffer.                        *)
LEMMA MovedInRange == rPtr \in Ptrs /\ wPtr \in Ptrs => Moved \in 0 .. DmaSize
BY CountsInRange, RBuffAssumption, TxAssumption DEF Moved

(* One step keeps the types.                                               *)
LEMMA TypeStep == TypeOK /\ [Next]_vars => TypeOK'
<1> SUFFICES ASSUME TypeOK, [Next]_vars PROVE TypeOK'
  OBVIOUS
<1> USE RBuffAssumption, TxAssumption DEF TypeOK, ringVars, dmaVars, mainVars
<1>1. ASSUME NEW n \in 1 .. MaxWrite, WriteCall(n) PROVE TypeOK'
  <2>1. CntFree(rPtr, wPtr) \in Nat
    BY CountsInRange
  <2> QED
    BY <1>1, <2>1 DEF WriteCall, Goto
<1>2. CASE WriteTest
  BY <1>2 DEF WriteTest
<1>3. CASE WriteAdvance
  BY <1>3, NextIsPtr DEF WriteAdvance, Goto
<1>4. CASE UpdateTest
  BY <1>4 DEF UpdateTest
<1>5. ASSUME NEW b \in Bytes, WriteCopy(b) PROVE TypeOK'
  BY <1>5 DEF WriteCopy, Goto
<1>6. CASE ReadTest
  BY <1>6 DEF ReadTest
<1>7. CASE ReadCopy
  BY <1>7 DEF ReadCopy, Goto
<1>8. CASE ReadAdvance
  BY <1>8, NextIsPtr DEF ReadAdvance, Goto
<1>9. CASE Launch
  <2>1. UNCHANGED <<mem, rPtr, wPtr, dmaBuf, tcFlag, line, left, promised>>
    BY <1>9 DEF Launch
  <2>2. txDmaBusy' \in BOOLEAN
    BY <1>9 DEF Launch
  <2>3. CASE pc' = "start"
    <3>1. UNCHANGED <<dmaPos, dmaLen, cnt>>
      BY <1>9, <2>3 DEF Launch, Goto
    <3> QED
      BY <2>1, <2>2, <2>3, <3>1
  <2>4. CASE pc' = "idle"
    <3>1. dmaPos' = 0 /\ dmaLen' = cnt /\ cnt' = 0
      BY <1>9, <2>4 DEF Launch, Goto, StartDma
    <3> QED
      BY <2>1, <2>2, <2>4, <3>1
  <2> QED
    BY <1>9, <2>3, <2>4 DEF Launch, Goto
<1>10. CASE DmaSend
  <2>1. UNCHANGED <<mem, rPtr, wPtr, dmaBuf, txDmaBusy, dmaLen, pc, left, cnt, promised>>
    BY <1>10 DEF DmaSend
  <2>2. tcFlag' \in BOOLEAN
    BY <1>10 DEF DmaSend
  <2>3. dmaPos' = dmaPos + 1 /\ dmaPos < dmaLen /\ line' = dmaBuf[dmaPos]
    BY <1>10 DEF DmaSend
  <2>4. dmaPos' \in 0 .. DmaSize /\ dmaPos' <= dmaLen /\ line' \in Bytes
    BY <2>3 DEF Slots
  <2> QED
    BY <2>1, <2>2, <2>4
<1>11. CASE TransferComplete
  <2>1. UNCHANGED <<mem, wPtr, line, pc, left, cnt, promised>>
    BY <1>11 DEF TransferComplete
  <2>2. tcFlag' \in BOOLEAN
    BY <1>11 DEF TransferComplete
  <2>7. txDmaBusy' \in BOOLEAN
    BY <1>11 DEF TransferComplete
  <2>3. Moved \in 0 .. DmaSize
    BY MovedInRange
  <2>4. dmaPos' \in 0 .. DmaSize /\ dmaLen' \in 0 .. DmaSize /\ dmaPos' <= dmaLen'
    BY <1>11, <2>3 DEF TransferComplete, StartDma
  <2>5. rPtr' \in Ptrs /\ \A i \in Slots : (rPtr + i) % Capacity \in Ptrs
    <3>1. rPtr \in Int /\ Moved \in Int /\ Slots \subseteq Int
      BY <2>3 DEF Ptrs, Slots
    <3>2. rPtr + Moved \in Int /\ \A i \in Slots : rPtr + i \in Int
      BY <3>1
    <3>3. rPtr' = (rPtr + Moved) % Capacity
      BY <1>11 DEF TransferComplete
    <3> QED
      BY <3>2, <3>3, ModIsPtr
  <2>6. dmaBuf' \in [Slots -> Bytes]
    BY <1>11, <2>5 DEF TransferComplete
  <2> QED
    BY <2>1, <2>2, <2>4, <2>5, <2>6, <2>7
<1>12. CASE UNCHANGED vars
  BY <1>12 DEF vars
<1> QED
  BY <1>1, <1>2, <1>3, <1>4, <1>5, <1>6, <1>7, <1>8, <1>9, <1>10, <1>11, <1>12 DEF Next, MainStep

(* The initial state is well typed, and the channel is idle.               *)
LEMMA InitTypes == Init => TypeOK /\ ChannelInv
<1> SUFFICES ASSUME Init PROVE TypeOK /\ ChannelInv
  OBVIOUS
<1> USE RBuffAssumption, TxAssumption DEF Init
<1>1. txDmaBusy \in BOOLEAN /\ tcFlag \in BOOLEAN
  OBVIOUS
<1>2. TypeOK
  BY <1>1 DEF TypeOK, Ptrs, Slots
<1>3. ChannelInv
  BY DEF ChannelInv, SoleReader, Reading
<1> QED
  BY <1>2, <1>3

(* The types hold in every reachable state, whatever the sizes.            *)
THEOREM TypeCorrect == Spec => []TypeOK
<1>1. Init => TypeOK
  BY InitTypes
<1> QED
  BY <1>1, TypeStep, PTL DEF Spec

(* One step keeps the channel invariant.                                   *)
LEMMA ChannelStep == TypeOK /\ ChannelInv /\ [Next]_vars => ChannelInv'
<1> SUFFICES ASSUME TypeOK, ChannelInv, [Next]_vars PROVE ChannelInv'
  OBVIOUS
<1> USE DEF ChannelInv, SoleReader, Reading, ringVars, dmaVars, mainVars
<1>1. ASSUME NEW n \in 1 .. MaxWrite, WriteCall(n) PROVE ChannelInv'
  BY <1>1 DEF WriteCall, Goto
<1>2. CASE WriteTest \/ WriteAdvance \/ \E b \in Bytes : WriteCopy(b)
  BY <1>2 DEF WriteTest, WriteAdvance, WriteCopy, Goto
<1>3. CASE UpdateTest
  BY <1>3 DEF UpdateTest, TypeOK
<1>4. CASE ReadTest \/ ReadCopy \/ ReadAdvance
  BY <1>4 DEF ReadTest, ReadCopy, ReadAdvance, Goto
<1>5. CASE Launch
  BY <1>5 DEF Launch, Goto, StartDma, TypeOK
<1>6. CASE DmaSend
  BY <1>6 DEF DmaSend, TypeOK
<1>7. CASE TransferComplete
  <2>1. ~tcFlag' /\ UNCHANGED pc /\ ~Reading
    BY <1>7 DEF TransferComplete
  <2>2. Moved \in 0 .. DmaSize
    BY MovedInRange DEF TypeOK
  <2>3. CASE Moved > 0
    <3>1. txDmaBusy' /\ dmaPos' = 0 /\ dmaLen' = Moved
      BY <1>7, <2>3 DEF TransferComplete, StartDma
    <3> QED
      BY <2>1, <2>2, <3>1, TxAssumption
  <2>4. CASE ~(Moved > 0)
    <3>1. dmaPos' = dmaLen' /\ dmaPos = dmaLen /\ dmaPos' = dmaPos
      BY <1>7, <2>4 DEF TransferComplete
    <3> QED
      BY <2>1, <3>1 DEF TypeOK
  <2> QED
    BY <2>3, <2>4
<1>8. CASE UNCHANGED vars
  BY <1>8 DEF vars
<1> QED
  BY <1>1, <1>2, <1>3, <1>4, <1>5, <1>6, <1>7, <1>8 DEF Next, MainStep

(* The main loop and the interrupt never read the ring at the same time.   *)
THEOREM OneReader == Spec => []SoleReader
<1>1. Init => TypeOK /\ ChannelInv
  BY InitTypes
<1>2. TypeOK /\ ChannelInv /\ [Next]_vars => TypeOK' /\ ChannelInv'
  BY TypeStep, ChannelStep
<1>3. ChannelInv => SoleReader
  BY DEF ChannelInv
<1> QED
  BY <1>1, <1>2, <1>3, PTL DEF Spec

--------------------------------------------------------------------------------
(* Both directions: the counts are right when they are acted upon *)

(* A remainder, for a number less than twice the divisor.                  *)
LEMMA SmallMod ==
  ASSUME NEW x \in Int, 0 <= x, x < 2 * Capacity
  PROVE  /\ x < Capacity => x % Capacity = x
         /\ x >= Capacity => x % Capacity = x - Capacity
BY RBuffAssumption

(* The number of used elements, without the remainder.                     *)
LEMMA UsedIs ==
  ASSUME NEW r \in Ptrs, NEW w \in Ptrs
  PROVE  CntUsed(r, w) = IF w < r THEN w - r + Capacity ELSE w - r
<1> DEFINE x == w - r + Capacity
<1>1. x \in Int /\ 0 <= x /\ x < 2 * Capacity /\ CntUsed(r, w) = x % Capacity
  BY RBuffAssumption DEF Ptrs, CntUsed
<1>2. (x < Capacity <=> w < r) /\ x - Capacity = w - r
  BY RBuffAssumption DEF Ptrs
<1> HIDE DEF x
<1>3. (x < Capacity => x % Capacity = x) /\ (x >= Capacity => x % Capacity = x - Capacity)
  BY <1>1, SmallMod
<1>4. x % Capacity = IF w < r THEN x ELSE w - r
  BY <1>1, <1>2, <1>3, RBuffAssumption
<1> QED
  BY <1>1, <1>4 DEF x

(* The ring is empty, or full, when the counts say so.                     *)
LEMMA EmptyOrFull ==
  ASSUME NEW r \in Ptrs, NEW w \in Ptrs
  PROVE  (IsEmpty(r, w) <=> CntUsed(r, w) = 0) /\ (IsFull(r, w) <=> CntFree(r, w) = 0)
BY UsedIs, RBuffAssumption DEF IsEmpty, IsFull, CntFree, PtrNext, Ptrs

(* Writing an element to a ring that is not full uses one more.            *)
LEMMA UsedAfterWrite ==
  ASSUME NEW r \in Ptrs, NEW w \in Ptrs, ~IsFull(r, w)
  PROVE  CntUsed(r, PtrNext(w)) = CntUsed(r, w) + 1
<1>1. PtrNext(w) \in Ptrs
  BY NextIsPtr
<1>2. CntUsed(r, PtrNext(w)) = IF PtrNext(w) < r THEN PtrNext(w) - r + Capacity ELSE PtrNext(w) - r
  BY <1>1, UsedIs
<1>3. CntUsed(r, w) = IF w < r THEN w - r + Capacity ELSE w - r
  BY UsedIs
<1>4. r \in Int /\ w \in Int /\ 0 <= r /\ r < Capacity /\ 0 <= w /\ w < Capacity /\ Capacity \in Int
  BY RBuffAssumption DEF Ptrs
<1>5. CASE w + 1 = Capacity
  <2>1. PtrNext(w) = 0 /\ r # 0
    BY <1>5 DEF IsFull, PtrNext
  <2> QED
    BY <1>2, <1>3, <1>4, <1>5, <2>1
<1>6. CASE w + 1 # Capacity
  <2>1. PtrNext(w) = w + 1 /\ r # w + 1
    BY <1>6 DEF IsFull, PtrNext
  <2> QED
    BY <1>2, <1>3, <1>4, <1>6, <2>1
<1> QED
  BY <1>5, <1>6

(* Reading elements that are there leaves that many fewer.                 *)
LEMMA UsedAfterRead ==
  ASSUME NEW r \in Ptrs, NEW w \in Ptrs, NEW n \in 0 .. CntUsed(r, w)
  PROVE  CntUsed((r + n) % Capacity, w) = CntUsed(r, w) - n
<1> DEFINE x == r + n
           q == x % Capacity
<1>1. x \in Int /\ 0 <= x /\ x < 2 * Capacity
  BY CountsInRange, RBuffAssumption DEF Ptrs
<1> HIDE DEF x
<1>2. q = IF x < Capacity THEN x ELSE x - Capacity
  BY <1>1, SmallMod, RBuffAssumption
<1>3. q \in Ptrs
  BY <1>1, ModIsPtr
<1> HIDE DEF q
<1>4. CntUsed(q, w) = CntUsed(r, w) - n
  BY <1>2, <1>3, UsedIs, RBuffAssumption DEF Ptrs, x
<1> QED
  BY <1>4 DEF q, x

(* The next pointer is one further, around the ring.                       *)
LEMMA NextIsOneFurther ==
  ASSUME NEW r \in Ptrs
  PROVE  PtrNext(r) = (r + 1) % Capacity
<1>1. r + 1 \in Int /\ 0 <= r + 1 /\ r + 1 < 2 * Capacity
  BY RBuffAssumption DEF Ptrs
<1> QED
  BY <1>1, SmallMod, RBuffAssumption DEF PtrNext, Ptrs

--------------------------------------------------------------------------------
(* Inductive: while rbuff_write runs, what is left of the promise fits.    *)
PromiseInv == pc \in {"write", "copy", "advance"} => promised <= CntFree(rPtr, wPtr)

(* A promise that is kept to is honoured by the test of rbuff_write.       *)
LEMMA PromiseHonoured == TypeOK /\ PromiseInv => WritableIsHonoured
BY EmptyOrFull DEF TypeOK, PromiseInv, WritableIsHonoured

(* One step of the sender keeps the promise: the interrupt only frees.     *)
LEMMA PromiseStep == TypeOK /\ PromiseInv /\ [Next]_vars => PromiseInv'
<1> SUFFICES ASSUME TypeOK, PromiseInv, [Next]_vars PROVE PromiseInv'
  OBVIOUS
<1>0. rPtr \in Ptrs /\ wPtr \in Ptrs /\ promised \in Nat /\ CntFree(rPtr, wPtr) \in Nat /\ CntUsed(rPtr, wPtr) \in Nat
  BY CountsInRange DEF TypeOK
<1> USE DEF PromiseInv, ringVars, dmaVars, mainVars
<1>1. ASSUME NEW n \in 1 .. MaxWrite, WriteCall(n) PROVE PromiseInv'
  BY <1>0, <1>1 DEF WriteCall, Goto
<1>2. CASE WriteTest
  BY <1>2 DEF WriteTest
<1>3. CASE WriteAdvance
  <2>1. wPtr' = PtrNext(wPtr) /\ rPtr' = rPtr /\ wPtr' \in Ptrs /\ pc = "advance"
    BY <1>0, <1>3, NextIsPtr DEF WriteAdvance, Goto
  <2>2. CASE promised > 0
    <3>1. ~IsFull(rPtr, wPtr)
      BY <1>0, <2>1, <2>2, EmptyOrFull
    <3>2. CntUsed(rPtr, wPtr') = CntUsed(rPtr, wPtr) + 1
      BY <1>0, <2>1, <3>1, UsedAfterWrite
    <3> QED
      BY <1>0, <1>3, <2>1, <2>2, <3>2, RBuffAssumption DEF WriteAdvance, CntFree
  <2>3. CASE ~(promised > 0)
    <3>1. CntFree(rPtr', wPtr') \in Nat
      BY <1>0, <2>1, CountsInRange
    <3> QED
      BY <1>3, <2>3, <3>1 DEF WriteAdvance
  <2> QED
    BY <2>2, <2>3
<1>4. CASE UpdateTest \/ ReadTest \/ ReadCopy \/ ReadAdvance \/ Launch
  BY <1>4 DEF UpdateTest, ReadTest, ReadCopy, ReadAdvance, Launch, Goto
<1>5. ASSUME NEW b \in Bytes, WriteCopy(b) PROVE PromiseInv'
  BY <1>5 DEF WriteCopy, Goto
<1>6. CASE DmaSend
  BY <1>6 DEF DmaSend
<1>7. CASE TransferComplete
  <2>1. Moved \in 0 .. CntUsed(rPtr, wPtr)
    BY <1>0, TxAssumption DEF Moved
  <2>2. rPtr' = (rPtr + Moved) % Capacity /\ UNCHANGED <<wPtr, pc, promised>>
    BY <1>7 DEF TransferComplete
  <2>3. CntUsed(rPtr', wPtr') = CntUsed(rPtr, wPtr) - Moved
    BY <1>0, <2>1, <2>2, UsedAfterRead
  <2>4. CntFree(rPtr', wPtr') = CntFree(rPtr, wPtr) + Moved
    BY <1>0, <2>1, <2>3, RBuffAssumption DEF CntFree
  <2> QED
    BY <1>0, <2>1, <2>2, <2>4
<1>8. CASE UNCHANGED vars
  BY <1>8 DEF vars
<1> QED
  BY <1>1, <1>2, <1>3, <1>4, <1>5, <1>6, <1>7, <1>8 DEF Next, MainStep

--------------------------------------------------------------------------------
(* Inductive: the count of unread bytes is that of the ring, and an        *)
(* element that rbuff_read has found is still there when it is passed over. *)
UnreadInv ==
  /\ rxPtr \in Ptrs /\ rxDmaPtr \in Ptrs
  /\ CountsUnread
  /\ rxPc \in {"copy", "advance"} => unread > 0

(* One step of the receiver, or a byte that the channel writes during it.  *)
LEMMA UnreadStep == UnreadInv /\ [RxNext]_rxVars => UnreadInv'
<1> SUFFICES ASSUME UnreadInv, [RxNext]_rxVars PROVE UnreadInv'
  OBVIOUS
<1>0. unread \in Nat /\ unread = CntUsed(rxPtr, rxDmaPtr) /\ rxPtr \in Ptrs /\ rxDmaPtr \in Ptrs
  BY CountsInRange DEF UnreadInv, CountsUnread
<1> USE DEF UnreadInv, CountsUnread
<1>1. ASSUME NEW b \in Bytes, RxByte(b) PROVE UnreadInv'
  <2>1. rxDmaPtr' = PtrNext(rxDmaPtr) /\ unread' = unread + 1 /\ UNCHANGED <<rxPtr, rxPc>>
    BY <1>1 DEF RxByte
  <2>2. ~IsFull(rxPtr, rxDmaPtr)
    BY <1>0, <1>1, EmptyOrFull, RBuffAssumption DEF RxByte, CntFree
  <2>3. rxDmaPtr' \in Ptrs /\ CntUsed(rxPtr, rxDmaPtr') = unread + 1
    BY <1>0, <2>1, <2>2, NextIsPtr, UsedAfterWrite
  <2> QED
    BY <1>0, <2>1, <2>3
<1>2. ASSUME NEW n \in 1 .. MaxRead, RxCall(n) PROVE UnreadInv'
  BY <1>2 DEF RxCall
<1>3. CASE RxTest
  <2>1. IsEmpty(rxPtr, rxDmaPtr) <=> unread = 0
    BY <1>0, EmptyOrFull
  <2> QED
    BY <1>0, <1>3, <2>1 DEF RxTest
<1>4. CASE RxCopy
  BY <1>4 DEF RxCopy
<1>5. CASE RxAdvance
  <2>1. rxPtr' = (rxPtr + 1) % Capacity /\ UNCHANGED rxDmaPtr /\ rxPc = "advance" /\ rxPc' = "read"
    BY <1>0, <1>5, NextIsOneFurther DEF RxAdvance
  <2>2. 1 \in 0 .. CntUsed(rxPtr, rxDmaPtr)
    BY <1>0, <2>1
  <2>3. CntUsed(rxPtr', rxDmaPtr') = CntUsed(rxPtr, rxDmaPtr) - 1
    BY <1>0, <2>1, <2>2, UsedAfterRead
  <2>4. rxPtr' \in Ptrs /\ unread' = unread - 1
    BY <1>0, <1>5, NextIsPtr DEF RxAdvance
  <2> QED
    BY <1>0, <2>1, <2>3, <2>4
<1>6. CASE UNCHANGED rxVars
  BY <1>6 DEF rxVars
<1> QED
  BY <1>1, <1>2, <1>3, <1>4, <1>5, <1>6 DEF RxNext

--------------------------------------------------------------------------------
(* Initially nothing is promised and nothing is unread.                    *)
LEMMA DriverInits == DriverInit => TypeOK /\ PromiseInv /\ UnreadInv
<1> SUFFICES ASSUME DriverInit PROVE TypeOK /\ PromiseInv /\ UnreadInv
  OBVIOUS
<1>1. Init /\ RxInit
  BY DEF DriverInit
<1>2. TypeOK /\ PromiseInv
  BY <1>1, InitTypes DEF Init, PromiseInv
<1>3. 0 \in Ptrs /\ CntUsed(0, 0) = 0
  BY UsedIs, RBuffAssumption DEF Ptrs
<1> QED
  BY <1>1, <1>2, <1>3 DEF RxInit, UnreadInv, CountsUnread

(* A step of the driver is one of the sender or one of the receiver.       *)
LEMMA DriverSteps == [Transmit \/ Receive]_<<vars, rxVars, direction>> => [Next]_vars /\ [RxNext]_rxVars
BY DEF Transmit, Receive

(* For every size of the rings, of the DMA buffer and of a call: what was  *)
(* reported as writable is written without loss whatever interrupts come   *)
(* in between, and what is reported as readable is what is unread.         *)
THEOREM CountsAreHonoured == DriverSpec => []CountsHold
<1>1. DriverInit => TypeOK /\ PromiseInv /\ UnreadInv
  BY DriverInits
<1>2. TypeOK /\ PromiseInv /\ UnreadInv /\ [Transmit \/ Receive]_<<vars, rxVars, direction>>
        => TypeOK' /\ PromiseInv' /\ UnreadInv'
  BY DriverSteps, TypeStep, PromiseStep, UnreadStep
<1>3. TypeOK /\ PromiseInv /\ UnreadInv => CountsHold
  BY PromiseHonoured DEF CountsHold, UnreadInv
<1> QED
  BY <1>1, <1>2, <1>3, PTL DEF DriverSpec

--------------------------------------------------------------------------------
(* Each direction implements ByteQueue *)

(* The slot of an element of the ring, without the remainder.              *)
LEMMA SlotIs ==
  ASSUME NEW r \in Ptrs, NEW i \in 1 .. Capacity
  PROVE  /\ r + i - 1 < Capacity => (r + i - 1) % Capacity = r + i - 1
         /\ r + i - 1 >= Capacity => (r + i - 1) % Capacity = r + i - 1 - Capacity
<1> DEFINE x == r + i - 1
<1>1. x \in Int /\ 0 <= x /\ x < 2 * Capacity
  BY RBuffAssumption DEF Ptrs
<1> HIDE DEF x
<1>2. (x < Capacity => x % Capacity = x) /\ (x >= Capacity => x % Capacity = x - Capacity)
  BY <1>1, SmallMod
<1> QED
  BY <1>1, <1>2, RBuffAssumption DEF x, Ptrs

(* The elements of a ring are a sequence, as long as the count says.       *)
LEMMA ContentsIsSeq ==
  ASSUME NEW m \in [Ptrs -> Bytes], NEW r \in Ptrs, NEW w \in Ptrs
  PROVE  /\ Contents(m, r, w) \in Seq(Bytes)
         /\ Len(Contents(m, r, w)) = CntUsed(r, w)
         /\ \A i \in 1 .. CntUsed(r, w) :
              Contents(m, r, w)[i] = m[(r + i - 1) % Capacity] /\ (r + i - 1) % Capacity \in Ptrs
<1>1. CntUsed(r, w) \in 0 .. Capacity - 1
  BY CountsInRange
<1>2. \A i \in 1 .. CntUsed(r, w) : (r + i - 1) % Capacity \in Ptrs
  <2> TAKE i \in 1 .. CntUsed(r, w)
  <2>1. r + i - 1 \in Int
    BY <1>1 DEF Ptrs
  <2> QED
    BY <2>1, ModIsPtr
<1>3. Contents(m, r, w) \in [1 .. CntUsed(r, w) -> Bytes]
  BY <1>2 DEF Contents
<1> QED
  BY <1>1, <1>2, <1>3 DEF Contents

(* An element is never in the slot that is written next.                   *)
LEMMA SlotIsNotFree ==
  ASSUME NEW r \in Ptrs, NEW w \in Ptrs, NEW i \in 1 .. CntUsed(r, w)
  PROVE  (r + i - 1) % Capacity # w
<1>1. CntUsed(r, w) \in 0 .. Capacity - 1 /\ i \in 1 .. Capacity
  BY CountsInRange, RBuffAssumption
<1>2. CntUsed(r, w) = IF w < r THEN w - r + Capacity ELSE w - r
  BY UsedIs
<1>3. r + i - 1 < Capacity \/ r + i - 1 >= Capacity
  BY <1>1, RBuffAssumption DEF Ptrs
<1> QED
  BY <1>1, <1>2, <1>3, SlotIs, RBuffAssumption DEF Ptrs

(* Filling the slot that is written next does not change the contents.     *)
LEMMA ContentsAfterCopy ==
  ASSUME NEW m \in [Ptrs -> Bytes], NEW r \in Ptrs, NEW w \in Ptrs, NEW b \in Bytes
  PROVE  Contents([m EXCEPT ![w] = b], r, w) = Contents(m, r, w)
<1>1. \A i \in 1 .. CntUsed(r, w) :
        [m EXCEPT ![w] = b][(r + i - 1) % Capacity] = m[(r + i - 1) % Capacity]
  BY SlotIsNotFree, ContentsIsSeq
<1> QED
  BY <1>1 DEF Contents

(* Advancing the write pointer appends the element in its slot.            *)
LEMMA ContentsAfterWrite ==
  ASSUME NEW m \in [Ptrs -> Bytes], NEW r \in Ptrs, NEW w \in Ptrs, ~IsFull(r, w)
  PROVE  Contents(m, r, PtrNext(w)) = Append(Contents(m, r, w), m[w])
<1> DEFINE n == CntUsed(r, w)
           s == Contents(m, r, w)
           t == Contents(m, r, PtrNext(w))
<1>1. PtrNext(w) \in Ptrs
  BY NextIsPtr
<1>2. CntUsed(r, PtrNext(w)) = n + 1 /\ n \in Nat /\ n + 1 \in 1 .. Capacity
  BY UsedAfterWrite, CountsInRange, RBuffAssumption
<1>3. s \in Seq(Bytes) /\ Len(s) = n /\ \A i \in 1 .. n : s[i] = m[(r + i - 1) % Capacity]
  BY ContentsIsSeq
<1>4. t \in Seq(Bytes) /\ Len(t) = n + 1 /\ \A i \in 1 .. n + 1 : t[i] = m[(r + i - 1) % Capacity]
  BY <1>1, <1>2, ContentsIsSeq
<1>5. (r + (n + 1) - 1) % Capacity = w
  <2>1. n = IF w < r THEN w - r + Capacity ELSE w - r
    BY UsedIs
  <2> HIDE DEF n
  <2>2. /\ r + (n + 1) - 1 < Capacity => (r + (n + 1) - 1) % Capacity = r + (n + 1) - 1
        /\ r + (n + 1) - 1 >= Capacity => (r + (n + 1) - 1) % Capacity = r + (n + 1) - 1 - Capacity
    BY <1>2, SlotIs
  <2> QED
    BY <1>2, <2>1, <2>2, RBuffAssumption DEF Ptrs
<1> HIDE DEF n, s, t
<1>6. m[w] \in Bytes
  OBVIOUS
<1>7. /\ Append(s, m[w]) \in Seq(Bytes) /\ Len(Append(s, m[w])) = n + 1
      /\ \A i \in 1 .. n : Append(s, m[w])[i] = s[i]
      /\ Append(s, m[w])[n + 1] = m[w]
  BY <1>3, <1>6, AppendProperties
<1>8. \A i \in 1 .. n + 1 : t[i] = Append(s, m[w])[i]
  <2> TAKE i \in 1 .. n + 1
  <2>1. i \in 1 .. n \/ i = n + 1
    BY <1>2
  <2> QED
    BY <1>3, <1>4, <1>5, <1>7, <2>1
<1>9. t = Append(s, m[w])
  BY <1>2, <1>4, <1>7, <1>8, SeqEqual
<1> QED
  BY <1>9 DEF s, t

(* A slot counted from a pointer moved on by n elements.                   *)
LEMMA SlotShift ==
  ASSUME NEW r \in Ptrs, NEW n \in Nat, NEW i \in Nat \ {0}, n + i <= Capacity
  PROVE  (((r + n) % Capacity) + i - 1) % Capacity = (r + (n + i) - 1) % Capacity
<1> DEFINE q == (r + n) % Capacity
<1>1. n + 1 \in 1 .. Capacity /\ i \in 1 .. Capacity /\ n + i \in 1 .. Capacity
  BY RBuffAssumption
<1>2. q \in Ptrs
  BY ModIsPtr DEF Ptrs
<1>3. r + (n + 1) - 1 = r + n
  BY DEF Ptrs
<1>4. /\ r + n < Capacity => q = r + n
      /\ r + n >= Capacity => q = r + n - Capacity
  BY <1>1, <1>3, SlotIs
<1> HIDE DEF q
<1>5. /\ q + i - 1 < Capacity => (q + i - 1) % Capacity = q + i - 1
      /\ q + i - 1 >= Capacity => (q + i - 1) % Capacity = q + i - 1 - Capacity
  BY <1>1, <1>2, SlotIs
<1>6. /\ r + (n + i) - 1 < Capacity => (r + (n + i) - 1) % Capacity = r + (n + i) - 1
      /\ r + (n + i) - 1 >= Capacity => (r + (n + i) - 1) % Capacity = r + (n + i) - 1 - Capacity
  BY <1>1, SlotIs
<1>7. (q + i - 1) % Capacity = (r + (n + i) - 1) % Capacity
  BY <1>1, <1>2, <1>4, <1>5, <1>6, RBuffAssumption DEF Ptrs
<1> QED
  BY <1>7 DEF q

(* The first n elements of a ring, oldest first.                           *)
FirstOf(m, r, n) == [i \in 1 .. n |-> m[(r + i - 1) % Capacity]]

(* The contents are the first n elements and what is left without them.    *)
LEMMA ContentsSplit ==
  ASSUME NEW m \in [Ptrs -> Bytes], NEW r \in Ptrs, NEW w \in Ptrs, NEW n \in 0 .. CntUsed(r, w)
  PROVE  /\ FirstOf(m, r, n) \in Seq(Bytes)
         /\ Contents(m, (r + n) % Capacity, w) \in Seq(Bytes)
         /\ Contents(m, r, w) = FirstOf(m, r, n) \o Contents(m, (r + n) % Capacity, w)
<1> DEFINE u == CntUsed(r, w)
           q == (r + n) % Capacity
           s == Contents(m, r, w)
           f == FirstOf(m, r, n)
           t == Contents(m, q, w)
<1>1. u \in 0 .. Capacity - 1 /\ n \in 0 .. u /\ u \in Nat /\ n \in Nat
  BY CountsInRange
<1>2. q \in Ptrs
  <2>1. r + n \in Int
    BY <1>1 DEF Ptrs
  <2> QED
    BY <2>1, ModIsPtr
<1>3. s \in Seq(Bytes) /\ Len(s) = u
      /\ \A i \in 1 .. u : s[i] = m[(r + i - 1) % Capacity] /\ s[i] \in Bytes
  BY ContentsIsSeq
<1>4. f \in Seq(Bytes) /\ Len(f) = n /\ \A i \in 1 .. n : f[i] = s[i]
  <2>1. f = [i \in 1 .. n |-> s[i]]
    BY <1>1, <1>3 DEF FirstOf
  <2> HIDE DEF f, s, u
  <2>2. f \in [1 .. n -> Bytes]
    BY <1>1, <1>3, <2>1
  <2> QED
    BY <1>1, <2>1, <2>2
<1>5. CntUsed(q, w) = u - n
  BY UsedAfterRead
<1>6. t \in Seq(Bytes) /\ Len(t) = u - n /\ \A i \in 1 .. u - n : t[i] = m[(q + i - 1) % Capacity]
  <2> HIDE DEF q, u
  <2>1. /\ t \in Seq(Bytes) /\ Len(t) = CntUsed(q, w)
        /\ \A i \in 1 .. CntUsed(q, w) : t[i] = m[(q + i - 1) % Capacity]
    BY <1>2, ContentsIsSeq
  <2> HIDE DEF t
  <2> QED
    BY <1>5, <2>1
<1>7. \A i \in 1 .. u - n : t[i] = s[n + i]
  <2> TAKE i \in 1 .. u - n
  <2>1. n + i \in 1 .. u /\ n + i <= Capacity /\ i \in Nat \ {0}
    BY <1>1, RBuffAssumption
  <2>2. (q + i - 1) % Capacity = (r + (n + i) - 1) % Capacity
    BY <1>1, <2>1, SlotShift
  <2> QED
    BY <1>3, <1>6, <2>1, <2>2
<1> HIDE DEF u, q, s, f, t
<1>8. /\ f \o t \in Seq(Bytes) /\ Len(f \o t) = u
      /\ \A i \in 1 .. u : (f \o t)[i] = IF i <= n THEN f[i] ELSE t[i - n]
  <2>1. /\ f \o t \in Seq(Bytes) /\ Len(f \o t) = n + (u - n)
        /\ \A i \in 1 .. n + (u - n) : (f \o t)[i] = IF i <= n THEN f[i] ELSE t[i - n]
    BY <1>4, <1>6, ConcatProperties
  <2>2. n + (u - n) = u
    BY <1>1
  <2> QED
    BY <2>1, <2>2
<1>9. \A i \in 1 .. u : s[i] = (f \o t)[i]
  <2> TAKE i \in 1 .. u
  <2>1. CASE i <= n
    BY <1>1, <1>4, <1>8, <2>1
  <2>2. CASE ~(i <= n)
    <3>1. i - n \in 1 .. u - n /\ n + (i - n) = i
      BY <1>1, <2>2
    <3> QED
      BY <1>7, <1>8, <2>2, <3>1
  <2> QED
    BY <2>1, <2>2
<1>10. s = f \o t
  BY <1>3, <1>8, <1>9, SeqEqual
<1> QED
  BY <1>4, <1>6, <1>10 DEF s, f, t, q

(* Advancing the read pointer takes the element in its slot from the head. *)
LEMMA ContentsAfterRead ==
  ASSUME NEW m \in [Ptrs -> Bytes], NEW r \in Ptrs, NEW w \in Ptrs, CntUsed(r, w) > 0
  PROVE  /\ Contents(m, r, w) # <<>>
         /\ Head(Contents(m, r, w)) = m[r]
         /\ Tail(Contents(m, r, w)) = Contents(m, PtrNext(r), w)
<1> DEFINE s == Contents(m, r, w)
           t == Contents(m, PtrNext(r), w)
<1>1. 1 \in 0 .. CntUsed(r, w) /\ CntUsed(r, w) \in Nat
  BY CountsInRange
<1>2. PtrNext(r) = (r + 1) % Capacity
  BY NextIsOneFurther
<1>3. t \in Seq(Bytes) /\ s = FirstOf(m, r, 1) \o t
  BY <1>1, <1>2, ContentsSplit
<1>4. FirstOf(m, r, 1) = <<m[r]>>
  <2>1. (r + 1 - 1) % Capacity = r
    BY SlotIs, RBuffAssumption DEF Ptrs
  <2> QED
    BY <2>1 DEF FirstOf
<1>5. m[r] \in Bytes
  OBVIOUS
<1> HIDE DEF s, t
<1>6. s = <<m[r]>> \o t
  BY <1>3, <1>4
<1>7. s # <<>> /\ Head(s) = m[r] /\ Tail(s) = t
  BY <1>3, <1>5, <1>6
<1> QED
  BY <1>7 DEF s, t

(* Appending and taking the head do not disturb each other.                *)
LEMMA TailOfAppend ==
  ASSUME NEW s \in Seq(Bytes), s # <<>>, NEW b \in Bytes
  PROVE  Tail(Append(s, b)) = Append(Tail(s), b)
BY SMTT(30)

--------------------------------------------------------------------------------
(* Inductive: reception.                                                   *)
RxQueueInv == UnreadInv /\ rxMem \in [Ptrs -> Bytes] /\ got \in Bytes

(* One step of the receiver keeps the types.                               *)
LEMMA RxTypeStep == RxQueueInv /\ [RxNext]_rxVars => RxQueueInv'
<1> SUFFICES ASSUME RxQueueInv, [RxNext]_rxVars PROVE rxMem' \in [Ptrs -> Bytes] /\ got' \in Bytes
  BY UnreadStep DEF RxQueueInv
<1>1. rxPtr \in Ptrs /\ rxMem \in [Ptrs -> Bytes] /\ got \in Bytes
  BY DEF RxQueueInv, UnreadInv
<1> QED
  BY <1>1 DEF RxNext, RxByte, RxCall, RxTest, RxCopy, RxAdvance, rxVars

(* Each step puts a received byte, takes the oldest one, or changes        *)
(* neither.                                                                *)
LEMMA RxRefines == RxQueueInv /\ [RxNext]_rxVars => [RxQueue!Next]_<<RxUndelivered, got>>
<1> SUFFICES ASSUME RxQueueInv, [RxNext]_rxVars PROVE [RxQueue!Next]_<<RxUndelivered, got>>
  OBVIOUS
<1>0. /\ unread = CntUsed(rxPtr, rxDmaPtr) /\ unread \in Nat
      /\ rxPtr \in Ptrs /\ rxDmaPtr \in Ptrs /\ rxMem \in [Ptrs -> Bytes]
      /\ rxPc \in {"copy", "advance"} => unread > 0
  BY CountsInRange DEF RxQueueInv, UnreadInv, CountsUnread
<1> DEFINE s == RxWaiting
<1>1. s \in Seq(Bytes) /\ Len(s) = unread
  BY <1>0, ContentsIsSeq DEF RxWaiting
<1>2. unread > 0 => /\ s # <<>> /\ Head(s) = rxMem[rxPtr]
                    /\ Tail(s) = Contents(rxMem, PtrNext(rxPtr), rxDmaPtr)
  BY <1>0, ContentsAfterRead DEF RxWaiting
<1>3. ASSUME NEW b \in Bytes, RxByte(b) PROVE RxQueue!Put(b)
  <2>1. UNCHANGED <<rxPtr, rxPc, got>> /\ unread < Capacity - 1
    BY <1>3 DEF RxByte
  <2>2. s' = Append(s, b)
    <3>1. rxMem' = [rxMem EXCEPT ![rxDmaPtr] = b] /\ rxDmaPtr' = PtrNext(rxDmaPtr) /\ rxPtr' = rxPtr
      BY <1>3 DEF RxByte
    <3>2. rxMem' \in [Ptrs -> Bytes] /\ rxMem'[rxDmaPtr] = b
      BY <1>0, <3>1
    <3>3. ~IsFull(rxPtr, rxDmaPtr)
      BY <1>0, <2>1, EmptyOrFull, RBuffAssumption DEF CntFree
    <3>4. Contents(rxMem', rxPtr, rxDmaPtr) = s
      BY <1>0, <3>1, ContentsAfterCopy DEF RxWaiting
    <3>5. Contents(rxMem', rxPtr, rxDmaPtr') = Append(Contents(rxMem', rxPtr, rxDmaPtr), b)
      BY <1>0, <3>1, <3>2, <3>3, ContentsAfterWrite
    <3>6. s' = Contents(rxMem', rxPtr, rxDmaPtr')
      BY <3>1 DEF RxWaiting
    <3> QED
      BY <3>4, <3>5, <3>6
  <2>3. CASE rxPc = "advance"
    <3>1. s # <<>> /\ RxUndelivered = Tail(s) /\ RxUndelivered' = Tail(s')
      BY <1>0, <1>2, <2>1, <2>3 DEF RxUndelivered
    <3> HIDE DEF s
    <3>2. Len(Tail(s)) = unread - 1 /\ Tail(Append(s, b)) = Append(Tail(s), b)
      BY <1>1, <3>1, TailOfAppend, HeadTailProperties
    <3> QED
      BY <1>0, <2>1, <2>2, <3>1, <3>2, RBuffAssumption DEF RxQueue!Put
  <2>4. CASE rxPc # "advance"
    <3>1. RxUndelivered = s /\ RxUndelivered' = s'
      BY <2>1, <2>4 DEF RxUndelivered
    <3> HIDE DEF s
    <3> QED
      BY <1>1, <2>1, <2>2, <3>1 DEF RxQueue!Put
  <2> QED
    BY <2>3, <2>4
<1>4. ASSUME NEW n \in 1 .. MaxRead, RxCall(n) PROVE UNCHANGED <<RxUndelivered, got>>
  BY <1>4 DEF RxCall, RxUndelivered, RxWaiting
<1>5. CASE RxTest
  BY <1>5 DEF RxTest, RxUndelivered, RxWaiting
<1>6. CASE RxCopy
  <2>1. s' = s /\ got' = rxMem[rxPtr] /\ rxPc = "copy" /\ rxPc' = "advance"
    BY <1>6 DEF RxCopy, RxWaiting
  <2>2. RxUndelivered = s /\ RxUndelivered' = Tail(s)
    BY <2>1 DEF RxUndelivered
  <2> HIDE DEF s
  <2>3. RxQueue!Take
    BY <1>0, <1>2, <2>1, <2>2 DEF RxQueue!Take
  <2> QED
    BY <2>3 DEF RxQueue!Next
<1>7. CASE RxAdvance
  <2>1. /\ rxPc = "advance" /\ rxPc' = "read" /\ UNCHANGED <<rxMem, rxDmaPtr, got>>
        /\ rxPtr' = PtrNext(rxPtr)
    BY <1>7 DEF RxAdvance
  <2>2. RxUndelivered = Tail(s) /\ RxUndelivered' = Contents(rxMem, PtrNext(rxPtr), rxDmaPtr)
    BY <2>1 DEF RxUndelivered, RxWaiting
  <2> QED
    BY <1>0, <1>2, <2>1, <2>2
<1>8. CASE UNCHANGED rxVars
  BY <1>8 DEF rxVars, RxUndelivered, RxWaiting
<1> QED
  BY <1>3, <1>4, <1>5, <1>6, <1>7, <1>8 DEF RxNext, RxQueue!Next

--------------------------------------------------------------------------------
(* Inductive: sending.  Only an update that runs has gathered bytes; an    *)
(* element that was found free, or found to be there, still is when it is  *)
(* written or read; and what was fetched is what the ring holds.           *)
QueueInv ==
  /\ ~Reading => cnt = 0
  /\ pc \in {"copy", "advance"} => ~IsFull(rPtr, wPtr)
  /\ pc \in {"fetch", "fetched"} => ~IsEmpty(rPtr, wPtr)
  /\ pc = "fetched" => dmaBuf[cnt] = mem[rPtr]

(* One step of the sender keeps the queue invariant.                       *)
LEMMA QueueStep == TypeOK /\ ChannelInv /\ QueueInv /\ [Next]_vars => QueueInv'
<1> SUFFICES ASSUME TypeOK, ChannelInv, QueueInv, [Next]_vars PROVE QueueInv'
  OBVIOUS
<1>0. /\ rPtr \in Ptrs /\ wPtr \in Ptrs /\ cnt \in 0 .. DmaSize /\ dmaBuf \in [Slots -> Bytes]
      /\ CntUsed(rPtr, wPtr) \in 0 .. Capacity - 1
      /\ pc \in {"fetch", "fetched"} => cnt \in Slots
  BY CountsInRange, TxAssumption DEF TypeOK, Slots
<1> USE DEF QueueInv, Reading, ringVars, dmaVars, mainVars
<1>1. ASSUME NEW n \in 1 .. MaxWrite, WriteCall(n) PROVE QueueInv'
  BY <1>1 DEF WriteCall, Goto
<1>2. CASE WriteTest
  BY <1>2 DEF WriteTest
<1>3. CASE WriteAdvance
  BY <1>3 DEF WriteAdvance, Goto
<1>4. CASE UpdateTest
  BY <1>4 DEF UpdateTest
<1>5. ASSUME NEW b \in Bytes, WriteCopy(b) PROVE QueueInv'
  BY <1>5 DEF WriteCopy, Goto
<1>6. CASE ReadTest
  BY <1>0, <1>6, TxAssumption DEF ReadTest
<1>7. CASE ReadCopy
  BY <1>0, <1>7 DEF ReadCopy, Goto
<1>8. CASE ReadAdvance
  BY <1>8 DEF ReadAdvance, Goto
<1>9. CASE Launch
  BY <1>9 DEF Launch, Goto
<1>10. CASE DmaSend
  BY <1>10 DEF DmaSend
<1>11. CASE TransferComplete
  <2>1. ~Reading /\ UNCHANGED <<wPtr, pc, cnt>> /\ rPtr' = (rPtr + Moved) % Capacity
    BY <1>11 DEF TransferComplete, ChannelInv, SoleReader
  <2>2. Moved \in 0 .. CntUsed(rPtr, wPtr)
    BY <1>0, TxAssumption DEF Moved
  <2>3. rPtr + Moved \in Int
    BY <1>0, <2>2 DEF Ptrs
  <2>4. rPtr' \in Ptrs /\ CntUsed(rPtr', wPtr) = CntUsed(rPtr, wPtr) - Moved
    BY <1>0, <2>1, <2>2, <2>3, ModIsPtr, UsedAfterRead
  <2>5. ~IsFull(rPtr, wPtr) => ~IsFull(rPtr', wPtr)
    BY <1>0, <2>2, <2>4, EmptyOrFull, RBuffAssumption DEF CntFree
  <2> QED
    BY <2>1, <2>5
<1>12. CASE UNCHANGED vars
  BY <1>12 DEF vars
<1> QED
  BY <1>1, <1>2, <1>3, <1>4, <1>5, <1>6, <1>7, <1>8, <1>9, <1>10, <1>11, <1>12 DEF Next, MainStep

(* The three parts of what is in flight are sequences of bytes.            *)
LEMMA PartsAreSeqs ==
  ASSUME TypeOK
  PROVE  /\ Pending \in Seq(Bytes) /\ Len(Pending) = dmaLen - dmaPos
         /\ Gathered \in Seq(Bytes) /\ Len(Gathered) = cnt
         /\ Contents(mem, rPtr, wPtr) \in Seq(Bytes) /\ Len(Contents(mem, rPtr, wPtr)) = CntUsed(rPtr, wPtr)
<1>1. /\ dmaLen - dmaPos \in Nat /\ cnt \in Nat
      /\ \A i \in 1 .. dmaLen - dmaPos : dmaPos + i - 1 \in Slots
      /\ \A i \in 1 .. cnt : i - 1 \in Slots
  BY TxAssumption DEF TypeOK, Slots
<1>2. dmaBuf \in [Slots -> Bytes]
  BY DEF TypeOK
<1>3. Pending \in [1 .. dmaLen - dmaPos -> Bytes] /\ Gathered \in [1 .. cnt -> Bytes]
  BY <1>1, <1>2 DEF Pending, Gathered
<1>4. Contents(mem, rPtr, wPtr) \in Seq(Bytes) /\ Len(Contents(mem, rPtr, wPtr)) = CntUsed(rPtr, wPtr)
  BY ContentsIsSeq DEF TypeOK
<1> QED
  BY <1>1, <1>3, <1>4

(* A sequence of no bytes is the empty one.                                *)
LEMMA NoBytes == \A s \in Seq(Bytes) : Len(s) = 0 => s = <<>>
BY EmptySeq

(* While the main loop updates, nothing is left of a transfer; while it    *)
(* does not, nothing is gathered.                                          *)
LEMMA OneOfTwo ==
  ASSUME TypeOK, ChannelInv, QueueInv
  PROVE  /\ Reading => Pending = <<>>
         /\ tcFlag => Pending = <<>>
         /\ ~Reading => Gathered = <<>>
<1>1. dmaLen - dmaPos = 0 => Pending = <<>>
  BY PartsAreSeqs, NoBytes
<1>2. cnt = 0 => Gathered = <<>>
  BY PartsAreSeqs, NoBytes
<1>3. dmaLen - dmaPos = 0 <=> dmaPos = dmaLen
  BY DEF TypeOK
<1> QED
  BY <1>1, <1>2, <1>3 DEF ChannelInv, SoleReader, QueueInv

(* What is in flight is a sequence that does not grow past the limit.      *)
LEMMA InFlightIsSeq ==
  ASSUME TypeOK, ChannelInv, QueueInv
  PROVE  /\ InFlight \in Seq(Bytes)
         /\ Len(InFlight) = (dmaLen - dmaPos) + cnt + CntUsed(rPtr, wPtr)
         /\ (dmaLen - dmaPos) + cnt \in 0 .. DmaSize
<1>1. /\ Pending \o Gathered \in Seq(Bytes)
      /\ Len(Pending \o Gathered) = (dmaLen - dmaPos) + cnt
  BY PartsAreSeqs, ConcatProperties
<1>2. InFlight \in Seq(Bytes) /\ Len(InFlight) = (dmaLen - dmaPos) + cnt + CntUsed(rPtr, wPtr)
  <2> DEFINE p == Pending \o Gathered
             s == Contents(mem, rPtr, wPtr)
  <2>1. p \in Seq(Bytes) /\ s \in Seq(Bytes) /\ InFlight = p \o s
        /\ Len(p) = (dmaLen - dmaPos) + cnt /\ Len(s) = CntUsed(rPtr, wPtr)
    BY <1>1, PartsAreSeqs DEF InFlight
  <2> HIDE DEF p, s
  <2>2. p \o s \in Seq(Bytes) /\ Len(p \o s) = Len(p) + Len(s)
    BY <2>1, ConcatProperties
  <2> QED
    BY <2>1, <2>2
<1>3. (dmaLen - dmaPos) + cnt \in 0 .. DmaSize
  <2>1. dmaLen \in 0 .. DmaSize /\ dmaPos \in 0 .. DmaSize /\ dmaPos <= dmaLen /\ cnt \in 0 .. DmaSize
    BY DEF TypeOK
  <2>2. dmaPos = dmaLen \/ cnt = 0
    BY DEF ChannelInv, SoleReader, QueueInv
  <2> QED
    BY <2>1, <2>2, TxAssumption
<1> QED
  BY <1>2, <1>3

--------------------------------------------------------------------------------
(* The steps of the main loop, of the DMA and of its interrupt, one by     *)
(* one.                                                                    *)

(* rbuff_write puts a byte when it advances the pointer, not before.       *)
LEMMA WriteRefines ==
  ASSUME TypeOK, ChannelInv, QueueInv
  PROVE  /\ \A b \in Bytes : WriteCopy(b) => UNCHANGED <<InFlight, line>>
         /\ WriteAdvance => Queue!Put(mem[wPtr])
<1>0. mem \in [Ptrs -> Bytes] /\ rPtr \in Ptrs /\ wPtr \in Ptrs
  BY DEF TypeOK
<1>1. ASSUME NEW b \in Bytes, WriteCopy(b) PROVE UNCHANGED <<InFlight, line>>
  <2>1. mem' = [mem EXCEPT ![wPtr] = b] /\ UNCHANGED <<rPtr, wPtr, dmaBuf, dmaVars, cnt>>
    BY <1>1 DEF WriteCopy
  <2>2. Contents(mem', rPtr, wPtr) = Contents(mem, rPtr, wPtr)
    BY <1>0, <2>1, ContentsAfterCopy
  <2>3. Contents(mem, rPtr, wPtr)' = Contents(mem', rPtr, wPtr)
    BY <2>1
  <2>4. Pending' = Pending /\ Gathered' = Gathered
    BY <2>1 DEF Pending, Gathered, dmaVars
  <2> QED
    BY <2>1, <2>2, <2>3, <2>4 DEF InFlight, dmaVars
<1>2. ASSUME WriteAdvance PROVE Queue!Put(mem[wPtr])
  <2> DEFINE s == Contents(mem, rPtr, wPtr)
             p == Pending \o Gathered
  <2>1. wPtr' = PtrNext(wPtr) /\ UNCHANGED <<mem, rPtr, dmaBuf, dmaVars, cnt>> /\ ~IsFull(rPtr, wPtr) /\ ~Reading
    BY <1>2 DEF WriteAdvance, Goto, QueueInv, Reading
  <2>2. s' = Append(s, mem[wPtr]) /\ mem[wPtr] \in Bytes
    BY <1>0, <2>1, ContentsAfterWrite
  <2>3. p' = p /\ InFlight = p \o s /\ InFlight' = p' \o s'
    BY <2>1 DEF Pending, Gathered, dmaVars, InFlight
  <2>4. p \in Seq(Bytes) /\ s \in Seq(Bytes)
    BY PartsAreSeqs, ConcatProperties
  <2>5. CntUsed(rPtr, wPtr) < Capacity - 1
    BY <1>0, <2>1, EmptyOrFull, CountsInRange, RBuffAssumption DEF CntFree
  <2>6. Len(InFlight) < Capacity - 1 + DmaSize
    BY <1>0, <2>5, InFlightIsSeq, CountsInRange, RBuffAssumption, TxAssumption
  <2>7. UNCHANGED line
    BY <2>1 DEF dmaVars
  <2> HIDE DEF s, p
  <2>8. p \o Append(s, mem[wPtr]) = Append(p \o s, mem[wPtr])
    BY <2>2, <2>4, AppendIsConcat, ConcatAssociative, ConcatProperties, SMTT(30)
  <2> QED
    BY <2>2, <2>3, <2>6, <2>7, <2>8 DEF Queue!Put
<1> QED
  BY <1>1, <1>2

(* The update moves bytes without changing what is in flight: from the     *)
(* ring to the DMA buffer, and from there to the channel.                  *)
LEMMA UpdateRefines ==
  ASSUME TypeOK, ChannelInv, QueueInv
  PROVE  ReadCopy \/ ReadAdvance \/ Launch => UNCHANGED <<InFlight, line>>
<1>0. /\ mem \in [Ptrs -> Bytes] /\ rPtr \in Ptrs /\ wPtr \in Ptrs
      /\ dmaBuf \in [Slots -> Bytes] /\ cnt \in Nat /\ dmaLen \in Nat /\ dmaPos \in Nat
  BY DEF TypeOK
<1>1. CASE ReadCopy
  <2>1. /\ dmaBuf' = [dmaBuf EXCEPT ![cnt] = mem[rPtr]]
        /\ UNCHANGED <<ringVars, dmaVars, cnt>> /\ Reading
    BY <1>1 DEF ReadCopy, Goto, Reading
  <2>2. Pending' = Pending
    <3>1. dmaPos = dmaLen /\ UNCHANGED <<dmaPos, dmaLen>>
      BY <2>1 DEF dmaVars, ChannelInv, SoleReader
    <3>2. \A i \in 1 .. dmaLen - dmaPos : FALSE
      BY <1>0, <3>1
    <3> QED
      BY <3>1, <3>2 DEF Pending
  <2>3. Gathered' = Gathered
    <3>1. \A i \in 1 .. cnt : dmaBuf'[i - 1] = dmaBuf[i - 1]
      <4>1. \A i \in 1 .. cnt : i - 1 # cnt /\ i - 1 \in Slots
        BY <1>0, TxAssumption DEF TypeOK, Slots
      <4> QED
        BY <1>0, <2>1, <4>1
    <3> QED
      BY <2>1, <3>1 DEF Gathered
  <2> QED
    BY <2>1, <2>2, <2>3 DEF InFlight, ringVars, dmaVars
<1>2. CASE ReadAdvance
  <2> DEFINE s == Contents(mem, rPtr, wPtr)
             g == Gathered
             e == mem[rPtr]
  <2>1. /\ rPtr' = PtrNext(rPtr) /\ cnt' = cnt + 1 /\ UNCHANGED <<mem, wPtr, dmaBuf, dmaVars>>
        /\ Reading /\ ~IsEmpty(rPtr, wPtr) /\ dmaBuf[cnt] = e /\ Reading'
    BY <1>2 DEF ReadAdvance, Goto, Reading, QueueInv
  <2>2. e \in Bytes /\ s \in Seq(Bytes) /\ g \in Seq(Bytes) /\ Len(g) = cnt
    BY <1>0, PartsAreSeqs
  <2>3. CntUsed(rPtr, wPtr) > 0
    BY <1>0, <2>1, EmptyOrFull, CountsInRange
  <2>4. s # <<>> /\ Head(s) = e /\ Tail(s) = s'
    BY <1>0, <2>1, <2>3, ContentsAfterRead
  <2>5. g' = Append(g, e)
    <3>1. g' = [i \in 1 .. cnt + 1 |-> dmaBuf[i - 1]]
      BY <2>1 DEF Gathered
    <3>2. /\ Append(g, e) \in Seq(Bytes) /\ Len(Append(g, e)) = cnt + 1
          /\ \A i \in 1 .. cnt : Append(g, e)[i] = g[i]
          /\ Append(g, e)[cnt + 1] = e
      BY <2>2, AppendProperties
    <3>3. \A i \in 1 .. cnt : g[i] = dmaBuf[i - 1]
      BY DEF Gathered
    <3>4. \A i \in 1 .. cnt + 1 : Append(g, e)[i] = dmaBuf[i - 1]
      <4> TAKE i \in 1 .. cnt + 1
      <4>1. i \in 1 .. cnt \/ (i = cnt + 1 /\ i - 1 = cnt)
        BY <1>0
      <4> QED
        BY <2>1, <3>2, <3>3, <4>1
    <3> HIDE DEF g, e
    <3>5. Append(g, e) = [i \in 1 .. cnt + 1 |-> Append(g, e)[i]]
      BY <1>0, <3>2, LenProperties
    <3> QED
      BY <3>1, <3>4, <3>5
  <2>6. Pending = <<>> /\ Pending' = <<>>
    <3>1. Pending = <<>> /\ UNCHANGED <<dmaBuf, dmaPos, dmaLen>>
      BY <2>1, OneOfTwo DEF dmaVars
    <3> QED
      BY <3>1 DEF Pending
  <2>7. InFlight = (<<>> \o g) \o s /\ InFlight' = (<<>> \o g') \o s'
    BY <2>6 DEF InFlight
  <2>8. UNCHANGED line
    BY <2>1 DEF dmaVars
  <2> HIDE DEF s, g, e
  <2>9. g \o s = Append(g, e) \o Tail(s)
    <3>1. Tail(s) \in Seq(Bytes) /\ s = <<e>> \o Tail(s) /\ <<e>> \in Seq(Bytes)
      BY <2>2, <2>4, SMTT(30)
    <3>2. Append(g, e) = g \o <<e>>
      BY <2>2, AppendIsConcat
    <3> QED
      BY <2>2, <3>1, <3>2, ConcatAssociative
  <2>10. <<>> \o g = g /\ <<>> \o g' = g'
    BY <2>2, <2>5, ConcatEmptySeq, AppendProperties
  <2> QED
    BY <2>4, <2>5, <2>7, <2>8, <2>9, <2>10
<1>3. CASE Launch
  <2>1. CASE pc = "launch"
    BY <1>3, <2>1 DEF Launch, Goto, InFlight, Pending, Gathered, ringVars, dmaVars
  <2>2. CASE pc = "start"
    <3>1. /\ dmaPos' = 0 /\ dmaLen' = cnt /\ cnt' = 0 /\ UNCHANGED <<mem, rPtr, wPtr, dmaBuf, line>>
          /\ Reading
      BY <1>3, <2>2 DEF Launch, Goto, StartDma, Reading, ringVars
    <3>2. Pending' = Gathered
      <4>1. cnt - 0 = cnt /\ \A i \in 1 .. cnt : 0 + i - 1 = i - 1
        BY <1>0
      <4>2. Pending' = [i \in 1 .. cnt - 0 |-> dmaBuf[0 + i - 1]]
        BY <3>1 DEF Pending
      <4> QED
        BY <4>1, <4>2 DEF Gathered
    <3>3. Pending = <<>> /\ Gathered' = <<>>
      <4>1. Gathered' = [i \in 1 .. 0 |-> dmaBuf[i - 1]]
        BY <3>1 DEF Gathered
      <4> QED
        BY <3>1, <4>1, OneOfTwo
    <3>4. InFlight = (<<>> \o Gathered) \o Contents(mem, rPtr, wPtr)
          /\ InFlight' = (Gathered \o <<>>) \o Contents(mem, rPtr, wPtr)
      BY <3>1, <3>2, <3>3 DEF InFlight
    <3> QED
      BY <3>1, <3>4, PartsAreSeqs, ConcatEmptySeq
  <2> QED
    BY <1>3, <2>1, <2>2 DEF Launch, Goto
<1> QED
  BY <1>1, <1>2, <1>3

(* The head of two sequences after each other is that of the first.        *)
LEMMA HeadTailOfConcat ==
  ASSUME NEW p \in Seq(Bytes), NEW r \in Seq(Bytes), p # <<>>
  PROVE  p \o r # <<>> /\ Head(p \o r) = Head(p) /\ Tail(p \o r) = Tail(p) \o r
<1> DEFINE q == p \o r
           u == Tail(p) \o r
<1>1. Len(p) \in Nat \ {0} /\ Len(r) \in Nat
  BY EmptySeq, LenProperties
<1>2. /\ q \in Seq(Bytes) /\ Len(q) = Len(p) + Len(r)
      /\ \A i \in 1 .. Len(p) + Len(r) : q[i] = IF i <= Len(p) THEN p[i] ELSE r[i - Len(p)]
  BY ConcatProperties
<1>3. /\ Tail(p) \in Seq(Bytes) /\ Len(Tail(p)) = Len(p) - 1
      /\ \A i \in 1 .. Len(p) - 1 : Tail(p)[i] = p[i + 1]
  BY HeadTailProperties
<1>4. /\ u \in Seq(Bytes) /\ Len(u) = Len(p) - 1 + Len(r)
      /\ \A i \in 1 .. Len(p) - 1 + Len(r) :
           u[i] = IF i <= Len(p) - 1 THEN Tail(p)[i] ELSE r[i - (Len(p) - 1)]
  BY <1>3, ConcatProperties
<1> HIDE DEF q, u
<1>5. q # <<>>
  BY <1>1, <1>2, EmptySeq
<1>6. Head(q) = Head(p)
  <2>1. Head(q) = q[1] /\ Head(p) = p[1]
    BY <1>5
  <2>2. q[1] = p[1]
    BY <1>1, <1>2
  <2> QED
    BY <2>1, <2>2
<1>7. /\ Tail(q) \in Seq(Bytes) /\ Len(Tail(q)) = Len(p) + Len(r) - 1
      /\ \A i \in 1 .. Len(p) + Len(r) - 1 : Tail(q)[i] = q[i + 1]
  BY <1>2, <1>5, HeadTailProperties
<1>8. \A i \in 1 .. Len(p) + Len(r) - 1 : Tail(q)[i] = u[i]
  <2> TAKE i \in 1 .. Len(p) + Len(r) - 1
  <2>1. i + 1 \in 1 .. Len(p) + Len(r) /\ i \in 1 .. Len(p) - 1 + Len(r)
        /\ i + 1 - Len(p) = i - (Len(p) - 1) /\ (i + 1 <= Len(p) <=> i <= Len(p) - 1)
    BY <1>1
  <2>2. Tail(q)[i] = IF i <= Len(p) - 1 THEN p[i + 1] ELSE r[i - (Len(p) - 1)]
    BY <1>2, <1>7, <2>1
  <2>3. u[i] = IF i <= Len(p) - 1 THEN Tail(p)[i] ELSE r[i - (Len(p) - 1)]
    BY <1>4, <2>1
  <2>4. i <= Len(p) - 1 => Tail(p)[i] = p[i + 1]
    BY <1>1, <1>3
  <2> QED
    BY <2>2, <2>3, <2>4
<1>9. Len(p) - 1 + Len(r) = Len(p) + Len(r) - 1
  BY <1>1
<1>10. Tail(q) = u
  BY <1>4, <1>7, <1>8, <1>9, SeqEqual
<1> QED
  BY <1>5, <1>6, <1>10 DEF q, u

(* The channel takes the oldest byte.                                      *)
LEMMA SendRefines ==
  ASSUME TypeOK, ChannelInv, QueueInv
  PROVE  DmaSend => Queue!Take
<1> SUFFICES ASSUME DmaSend PROVE Queue!Take
  OBVIOUS
<1> DEFINE p == Pending
           r == Gathered \o Contents(mem, rPtr, wPtr)
<1>1. /\ dmaPos < dmaLen /\ dmaPos \in Nat /\ dmaLen \in Nat
      /\ dmaPos' = dmaPos + 1 /\ line' = dmaBuf[dmaPos]
      /\ UNCHANGED <<mem, rPtr, wPtr, dmaBuf, dmaLen, cnt>>
  BY DEF DmaSend, TypeOK, ringVars, mainVars
<1>2. p \in Seq(Bytes) /\ Len(p) = dmaLen - dmaPos /\ r \in Seq(Bytes)
      /\ Gathered \in Seq(Bytes) /\ Contents(mem, rPtr, wPtr) \in Seq(Bytes)
  BY PartsAreSeqs, ConcatProperties
<1>3. p # <<>> /\ Len(p) \in Nat
  BY <1>1, <1>2, EmptySeq
<1>4. Head(p) = dmaBuf[dmaPos]
  <2>1. Head(p) = p[1] /\ 1 \in 1 .. dmaLen - dmaPos /\ dmaPos + 1 - 1 = dmaPos
    BY <1>1, <1>2, <1>3
  <2>2. p[1] = dmaBuf[dmaPos + 1 - 1]
    BY <2>1 DEF Pending
  <2> QED
    BY <2>1, <2>2
<1>5. p' = Tail(p)
  <2>1. /\ Tail(p) \in Seq(Bytes) /\ Len(Tail(p)) = dmaLen - dmaPos - 1
        /\ \A i \in 1 .. dmaLen - dmaPos - 1 : Tail(p)[i] = p[i + 1]
    BY <1>2, <1>3, HeadTailProperties
  <2>2. p' = [i \in 1 .. dmaLen - (dmaPos + 1) |-> dmaBuf[(dmaPos + 1) + i - 1]]
    BY <1>1 DEF Pending
  <2>3. dmaLen - (dmaPos + 1) = dmaLen - dmaPos - 1
    BY <1>1
  <2>4. ASSUME NEW i \in 1 .. dmaLen - dmaPos - 1 PROVE p[i + 1] = dmaBuf[(dmaPos + 1) + i - 1]
    <3>1. i + 1 \in 1 .. dmaLen - dmaPos /\ dmaPos + (i + 1) - 1 = (dmaPos + 1) + i - 1
      BY <1>1
    <3> QED
      BY <3>1 DEF Pending
  <2> HIDE DEF p
  <2>5. Tail(p) = [i \in 1 .. dmaLen - dmaPos - 1 |-> Tail(p)[i]]
    BY <1>1, <2>1, LenProperties
  <2> QED
    BY <2>1, <2>2, <2>3, <2>4, <2>5
<1>6. r' = r
  BY <1>1 DEF Gathered
<1>7. InFlight = p \o r /\ InFlight' = p' \o r'
  <2>1. p' \in Seq(Bytes)
    BY <1>2, <1>3, <1>5, HeadTailProperties
  <2>2. InFlight = (p \o Gathered) \o Contents(mem, rPtr, wPtr)
        /\ InFlight' = (p' \o Gathered) \o Contents(mem, rPtr, wPtr)
    BY <1>1 DEF InFlight, Gathered
  <2>3. \A x \in Seq(Bytes) : (x \o Gathered) \o Contents(mem, rPtr, wPtr) = x \o r
    BY <1>2, ConcatAssociative
  <2> QED
    BY <1>2, <1>6, <2>1, <2>2, <2>3
<1> HIDE DEF p, r
<1>8. p \o r # <<>> /\ Head(p \o r) = Head(p) /\ Tail(p \o r) = Tail(p) \o r
  <2>1. p \o r \in Seq(Bytes) /\ Len(p \o r) = Len(p) + Len(r) /\ Len(r) \in Nat
    BY <1>2, ConcatProperties, LenProperties
  <2> QED
    BY <1>2, <1>3, <2>1, HeadTailOfConcat
<1> QED
  BY <1>1, <1>4, <1>5, <1>6, <1>7, <1>8 DEF Queue!Take

(* The interrupt moves bytes from the ring to the channel.                 *)
LEMMA InterruptRefines ==
  ASSUME TypeOK, ChannelInv, QueueInv
  PROVE  TransferComplete => UNCHANGED <<InFlight, line>>
<1> SUFFICES ASSUME TransferComplete PROVE UNCHANGED <<InFlight, line>>
  OBVIOUS
<1> DEFINE s == Contents(mem, rPtr, wPtr)
           f == FirstOf(mem, rPtr, Moved)
           t == Contents(mem, (rPtr + Moved) % Capacity, wPtr)
<1>0. /\ mem \in [Ptrs -> Bytes] /\ rPtr \in Ptrs /\ wPtr \in Ptrs /\ dmaLen \in Nat /\ dmaPos \in Nat
      /\ CntUsed(rPtr, wPtr) \in 0 .. Capacity - 1
  BY CountsInRange DEF TypeOK
<1>1. /\ tcFlag /\ ~Reading /\ rPtr' = (rPtr + Moved) % Capacity
      /\ UNCHANGED <<mem, wPtr, line, cnt>>
  BY DEF TransferComplete, ChannelInv, SoleReader, mainVars
<1>2. Moved \in 0 .. CntUsed(rPtr, wPtr) /\ Moved \in 0 .. DmaSize
  BY <1>0, MovedInRange, RBuffAssumption, TxAssumption DEF Moved
<1>3. f \in Seq(Bytes) /\ t \in Seq(Bytes) /\ s \in Seq(Bytes) /\ s = f \o t
  BY <1>0, <1>2, ContentsSplit, ContentsIsSeq
<1>4. Pending = <<>> /\ Gathered = <<>>
  BY <1>1, OneOfTwo
<1>5. Gathered' = <<>>
  <2>1. cnt = 0 /\ cnt' = 0
    BY <1>1 DEF QueueInv
  <2>2. Gathered' = [i \in 1 .. 0 |-> dmaBuf'[i - 1]]
    BY <2>1 DEF Gathered
  <2> QED
    BY <2>2
<1>6. Pending' = f
  <2>1. CASE Moved > 0
    <3>1. dmaPos' = 0 /\ dmaLen' = Moved
      BY <2>1 DEF TransferComplete, StartDma
    <3>2. dmaBuf' = [i \in Slots |-> IF i < Moved THEN mem[(rPtr + i) % Capacity] ELSE dmaBuf[i]]
      BY DEF TransferComplete
    <3>3. Pending' = [i \in 1 .. Moved - 0 |-> dmaBuf'[0 + i - 1]]
      BY <3>1 DEF Pending
    <3> HIDE DEF Moved
    <3>4. ASSUME NEW i \in 1 .. Moved PROVE dmaBuf'[0 + i - 1] = mem[(rPtr + i - 1) % Capacity]
      <4>1. 0 + i - 1 \in Slots /\ 0 + i - 1 < Moved /\ rPtr + (0 + i - 1) = rPtr + i - 1
        BY <1>0, <1>2, TxAssumption, RBuffAssumption DEF Slots, Ptrs
      <4> QED
        BY <3>2, <4>1
    <3>5. Moved - 0 = Moved
      BY <1>2
    <3> QED
      BY <3>3, <3>4, <3>5 DEF FirstOf
  <2>2. CASE ~(Moved > 0)
    <3>1. Moved = 0 /\ UNCHANGED <<dmaPos, dmaLen>> /\ dmaPos = dmaLen /\ dmaLen - dmaPos = 0
      BY <1>0, <1>1, <1>2, <2>2 DEF TransferComplete, ChannelInv
    <3>2. Pending' = [i \in 1 .. 0 |-> dmaBuf'[dmaPos + i - 1]]
      BY <3>1 DEF Pending
    <3>3. f = [i \in 1 .. 0 |-> mem[(rPtr + i - 1) % Capacity]]
      BY <3>1 DEF FirstOf
    <3> QED
      BY <3>2, <3>3
  <2> QED
    BY <2>1, <2>2
<1>7. InFlight = (<<>> \o <<>>) \o s /\ InFlight' = (Pending' \o <<>>) \o Contents(mem, rPtr', wPtr)
  BY <1>1, <1>4, <1>5 DEF InFlight
<1>8. Contents(mem, rPtr', wPtr) = t
  BY <1>1
<1> HIDE DEF s, f, t
<1>9. (<<>> \o <<>>) \o s = s /\ (f \o <<>>) \o t = f \o t
  BY <1>3, ConcatEmptySeq, EmptySeq
<1> QED
  BY <1>1, <1>3, <1>6, <1>7, <1>8, <1>9

(* Each step puts an accepted byte, sends the oldest one, or changes       *)
(* neither what is in flight nor the line.                                 *)
LEMMA TxRefines ==
  TypeOK /\ ChannelInv /\ QueueInv /\ [Next]_vars => [Queue!Next]_<<InFlight, line>>
<1> SUFFICES ASSUME TypeOK, ChannelInv, QueueInv, [Next]_vars PROVE [Queue!Next]_<<InFlight, line>>
  OBVIOUS
<1> DEFINE Same == UNCHANGED <<mem, rPtr, wPtr, dmaBuf, dmaPos, dmaLen, cnt, line>>
<1>1. Same => UNCHANGED <<InFlight, line>>
  BY DEF InFlight, Pending, Gathered
<1>2. ASSUME NEW n \in 1 .. MaxWrite, WriteCall(n) PROVE Same
  BY <1>2 DEF WriteCall, ringVars, dmaVars
<1>3. CASE WriteTest \/ UpdateTest \/ ReadTest
  BY <1>1, <1>3 DEF WriteTest, UpdateTest, ReadTest, ringVars, dmaVars
<1>4. CASE WriteAdvance
  <2>1. mem[wPtr] \in Bytes
    BY DEF TypeOK
  <2> QED
    BY <1>4, <2>1, WriteRefines DEF Queue!Next
<1>5. ASSUME NEW b \in Bytes, WriteCopy(b) PROVE UNCHANGED <<InFlight, line>>
  BY <1>5, WriteRefines
<1>6. CASE ReadCopy \/ ReadAdvance \/ Launch
  BY <1>6, UpdateRefines
<1>7. CASE DmaSend
  BY <1>7, SendRefines DEF Queue!Next
<1>8. CASE TransferComplete
  BY <1>8, InterruptRefines
<1>9. CASE UNCHANGED vars
  BY <1>1, <1>9 DEF vars, ringVars, dmaVars, mainVars
<1> HIDE DEF Same
<1> QED
  BY <1>1, <1>2, <1>3, <1>4, <1>5, <1>6, <1>7, <1>8, <1>9 DEF Next, MainStep

--------------------------------------------------------------------------------
(* Initially both queues are empty.                                        *)
LEMMA QueueInits ==
  DriverInit => /\ TypeOK /\ ChannelInv /\ QueueInv /\ RxQueueInv
                /\ Queue!Init /\ RxQueue!Init
<1> SUFFICES ASSUME DriverInit
             PROVE  /\ TypeOK /\ ChannelInv /\ QueueInv /\ RxQueueInv
                    /\ Queue!Init /\ RxQueue!Init
  OBVIOUS
<1>1. Init /\ RxInit
  BY DEF DriverInit
<1>2. TypeOK /\ ChannelInv
  BY <1>1, InitTypes
<1>3. QueueInv
  BY <1>1 DEF Init, QueueInv, Reading
<1>4. RxQueueInv
  <2>1. rxMem \in [Ptrs -> Bytes] /\ got \in Bytes
    BY <1>1 DEF RxInit, DriverInit
  <2> QED
    BY <2>1, DriverInits DEF RxQueueInv
<1>5. Queue!Init
  <2>1. InFlight \in Seq(Bytes) /\ Len(InFlight) = (dmaLen - dmaPos) + cnt + CntUsed(rPtr, wPtr)
    BY <1>2, <1>3, InFlightIsSeq
  <2>2. dmaLen = 0 /\ dmaPos = 0 /\ cnt = 0 /\ rPtr = 0 /\ wPtr = 0 /\ 0 \in Ptrs /\ line \in Bytes
    BY <1>1, RBuffAssumption DEF Init, Ptrs
  <2>3. CntUsed(rPtr, wPtr) = 0
    BY <2>2, EmptyOrFull DEF IsEmpty
  <2> QED
    BY <2>1, <2>2, <2>3, NoBytes DEF Queue!Init
<1>6. RxQueue!Init
  <2>1. rxPtr \in Ptrs /\ rxDmaPtr \in Ptrs /\ CntUsed(rxPtr, rxDmaPtr) = 0 /\ rxPc = "idle"
    BY <1>1, <1>4 DEF RxQueueInv, UnreadInv, CountsUnread, RxInit
  <2>2. RxWaiting = <<>>
    BY <1>4, <2>1, ContentsIsSeq, NoBytes DEF RxQueueInv, RxWaiting
  <2> QED
    BY <1>4, <2>1, <2>2 DEF RxQueue!Init, RxUndelivered, RxQueueInv
<1> QED
  BY <1>2, <1>3, <1>4, <1>5, <1>6

(* For every size of the rings, of the DMA buffer and of a call: the bytes *)
(* that uart_driver_write accepts come out on the line once each and in    *)
(* order, whatever the transfer-complete interrupt does in between; and so *)
(* do those that the circular channel receives out of uart_driver_read.    *)
THEOREM DriverIsByteQueue == DriverSpec => IsByteQueue
<1>1. DriverInit => /\ TypeOK /\ ChannelInv /\ QueueInv /\ RxQueueInv
                    /\ Queue!Init /\ RxQueue!Init
  BY QueueInits
<1>2. TypeOK /\ ChannelInv /\ QueueInv /\ RxQueueInv /\ [Transmit \/ Receive]_<<vars, rxVars, direction>>
        => TypeOK' /\ ChannelInv' /\ QueueInv' /\ RxQueueInv'
  BY DriverSteps, TypeStep, ChannelStep, QueueStep, RxTypeStep
<1>3. TypeOK /\ ChannelInv /\ QueueInv /\ RxQueueInv /\ [Transmit \/ Receive]_<<vars, rxVars, direction>>
        => [Queue!Next]_<<InFlight, line>> /\ [RxQueue!Next]_<<RxUndelivered, got>>
  BY DriverSteps, TxRefines, RxRefines
<1> QED
  BY <1>1, <1>2, <1>3, PTL DEF DriverSpec, IsByteQueue, Queue!Spec, RxQueue!Spec
================================================================================
