--------------------------- MODULE CanRing_proofs ---------------------------
(***************************************************************************)
(* The ring without locks is the queue FrameQueue, for every ring size,    *)
(* every width of the indices it divides, and every depth of the FIFO.     *)
(***************************************************************************)
EXTENDS CanRing, Modular, SequenceTheorems

(* No slot ever holds two halves: the interrupt writes a slot in one go as *)
(* far as the reader can tell.                                             *)
SlotsWhole == \A i \in 0..(RxRing - 1) : slots[i].id = slots[i].data

(* While the reader is at it, the oldest slot is what it is copying.       *)
ReaderInStep ==
  /\ reader # "idle" => Pending > 0
  /\ reader \in {"data", "release"} => copy.id = Slot(tail).id
  /\ reader = "release" => copy = Slot(tail)

IInv == TypeOK /\ SlotsWhole /\ ReaderInStep /\ got.id = got.data

-----------------------------------------------------------------------------
(* The indices. *)

(* The constants.                                                          *)
LEMMA ConstantTypes ==
  /\ HwDepth \in Nat \ {0} /\ RxRing \in Nat \ {0} /\ Wrap \in Nat \ {0}
  /\ Wrap > RxRing /\ Wrap % RxRing = 0
  BY RingAssumption

(* Whatever an index counts to, it is that of a slot.                      *)
LEMMA SlotType ==
  ASSUME TypeOK, NEW i \in Int
  PROVE  i % RxRing \in 0..(RxRing - 1) /\ Slot(i) \in [id : Frames, data : Frames]
<1>1. i % RxRing \in 0..(RxRing - 1)
  BY ModSplit, ConstantTypes
<1>2. QED
  BY <1>1 DEF TypeOK, Slot

(* CAN_BL_RxPending is between none and all slots.                         *)
LEMMA PendingType == ASSUME TypeOK PROVE Pending \in 0..RxRing
<1>1. head - tail \in Int
  BY DEF TypeOK
<1>2. Pending \in 0..(Wrap - 1)
  BY <1>1, ModSplit, ConstantTypes DEF Pending
<1>3. QED
  BY <1>2, ConstantTypes DEF TypeOK

(* The head is where the frame after the last waiting one goes. *)
LEMMA HeadSlot ==
  ASSUME TypeOK
  PROVE  head % RxRing = (tail + Pending) % RxRing
<1>1. /\ Wrap \in Nat \ {0} /\ RxRing \in Nat \ {0} /\ Wrap % RxRing = 0
      /\ tail \in Int /\ head - tail \in Int /\ tail + Pending \in Int
      /\ head \in 0..(Wrap - 1) /\ head \in Int
  BY ConstantTypes, PendingType DEF TypeOK
<1>2. (tail + ((head - tail) % Wrap)) % Wrap = (tail + (head - tail)) % Wrap
  BY ONLY <1>1, ModAdd
<1>3. tail + (head - tail) = head
  BY <1>1
<1>4. (tail + Pending) % Wrap = head
  BY <1>1, <1>2, <1>3, ModSmall DEF Pending
<1>5. ((tail + Pending) % Wrap) % RxRing = (tail + Pending) % RxRing
  BY ONLY <1>1, ModOfMod
<1>6. QED
  BY <1>4, <1>5

(* The indices move by one, across the wrap too. *)
LEMMA HeadMoves ==
  ASSUME TypeOK, Pending < RxRing, head' = (head + 1) % Wrap, tail' = tail
  PROVE  head' \in 0..(Wrap - 1) /\ Pending' = Pending + 1
<1>1. /\ Wrap \in Nat \ {0} /\ head + 1 \in Int /\ head - tail \in Int /\ -tail \in Int
      /\ 1 \in Int /\ tail \in Int /\ head \in Int
      /\ Pending + 1 \in 0..(Wrap - 1)
  BY ConstantTypes, PendingType DEF TypeOK
<1>2. (((head + 1) % Wrap) + (-tail)) % Wrap = ((head + 1) + (-tail)) % Wrap
  BY ONLY <1>1, ModAdd
<1>3. (((head - tail) % Wrap) + 1) % Wrap = ((head - tail) + 1) % Wrap
  BY ONLY <1>1, ModAdd
<1>4. (head + 1) % Wrap \in 0..(Wrap - 1)
  BY ONLY <1>1, ModSplit
<1>5. /\ (head + 1) + (-tail) = (head - tail) + 1
      /\ ((head + 1) % Wrap) + (-tail) = ((head + 1) % Wrap) - tail
  BY <1>1, <1>4
<1>6. (((head + 1) % Wrap) - tail) % Wrap = (Pending + 1) % Wrap
  BY <1>2, <1>3, <1>5 DEF Pending
<1>7. (Pending + 1) % Wrap = Pending + 1
  BY ONLY <1>1, ModSmall
<1>8. QED
  BY <1>4, <1>6, <1>7 DEF Pending

(* The reader releases one.                                                *)
LEMMA TailMoves ==
  ASSUME TypeOK, Pending > 0, tail' = (tail + 1) % Wrap, head' = head
  PROVE  tail' \in 0..(Wrap - 1) /\ Pending' = Pending - 1
<1>1. /\ Wrap \in Nat \ {0} /\ tail + 1 \in Int /\ head - tail \in Int /\ -1 \in Int
      /\ tail \in Int /\ head \in Int
      /\ Pending - 1 \in 0..(Wrap - 1)
  BY ConstantTypes, PendingType DEF TypeOK
<1>2. (head - ((tail + 1) % Wrap)) % Wrap = (head - (tail + 1)) % Wrap
  BY ONLY <1>1, ModAdd
<1>3. (((head - tail) % Wrap) + (-1)) % Wrap = ((head - tail) + (-1)) % Wrap
  BY ONLY <1>1, ModAdd
<1>4. (tail + 1) % Wrap \in 0..(Wrap - 1)
  BY ONLY <1>1, ModSplit
<1>5. head - (tail + 1) = (head - tail) + (-1)
  BY <1>1
<1>6. Pending + (-1) = Pending - 1
  BY <1>1, PendingType
<1>7. (Pending - 1) % Wrap = Pending - 1
  BY ONLY <1>1, ModSmall
<1>8. QED
  BY <1>2, <1>3, <1>4, <1>5, <1>6, <1>7 DEF Pending

(* The slots of waiting frames and the head's are different slots. *)
LEMMA SlotsApart ==
  ASSUME TypeOK, Pending < RxRing, NEW i \in 1..Pending
  PROVE  (tail + i - 1) % RxRing # head % RxRing
<1>1. /\ RxRing \in Nat \ {0} /\ tail + i - 1 \in Int /\ tail + Pending \in Int
      /\ (tail + i - 1) - (tail + Pending) < RxRing
      /\ (tail + Pending) - (tail + i - 1) < RxRing
      /\ tail + i - 1 # tail + Pending
  BY ConstantTypes, PendingType DEF TypeOK
<1>2. (tail + i - 1) % RxRing # (tail + Pending) % RxRing
  BY ONLY <1>1, ModNear
<1>3. QED
  BY <1>2, HeadSlot

(* What the interrupt stores leaves the waiting frames alone. *)
LEMMA Stored ==
  ASSUME TypeOK, Pending < RxRing, NEW f \in Frames, NEW i \in 1..(Pending + 1),
         slots' = [slots EXCEPT ![head % RxRing] = Whole(f)]
  PROVE  slots'[(tail + i - 1) % RxRing] = IF i <= Pending THEN Slot(tail + i - 1) ELSE Whole(f)
<1>1. tail \in Int /\ head \in Int /\ Pending \in Nat /\ tail + i - 1 \in Int
  BY PendingType DEF TypeOK
<1>2. (tail + i - 1) % RxRing \in 0..(RxRing - 1) /\ head % RxRing \in 0..(RxRing - 1)
  BY <1>1, SlotType
<1>3. CASE i <= Pending
  <2>1. (tail + i - 1) % RxRing # head % RxRing
    <3>1. i \in 1..Pending
      BY <1>1, <1>3
    <3>2. QED
      BY <3>1, SlotsApart
  <2>2. QED
    BY <1>2, <1>3, <2>1 DEF TypeOK, Slot
<1>4. CASE i = Pending + 1
  <2>1. tail + i - 1 = tail + Pending /\ ~(i <= Pending)
    BY <1>1, <1>4
  <2>2. (tail + i - 1) % RxRing = head % RxRing
    BY <2>1, HeadSlot
  <2>3. QED
    BY <1>2, <2>1, <2>2 DEF TypeOK
<1>5. QED
  BY <1>1, <1>3, <1>4
-----------------------------------------------------------------------------
(* The FIFO of the peripheral. *)
LEMMA PushedType ==
  ASSUME NEW fifo \in Seq(Frames), Len(fifo) <= HwDepth, NEW f \in Frames
  PROVE  Pushed(fifo, f) \in Seq(Frames) /\ Len(Pushed(fifo, f)) <= HwDepth
<1>1. CASE Len(fifo) < HwDepth
  BY <1>1, AppendProperties, ConstantTypes DEF Pushed
<1>2. CASE Len(fifo) = HwDepth
  <2>1. HwDepth \in 1..Len(fifo)
    BY <1>2, ConstantTypes
  <2>2. QED
    BY <1>2, <2>1, ExceptSeq DEF Pushed
<1>3. QED
  BY <1>1, <1>2, ConstantTypes

(* CAN_BL_Init establishes the invariant.                                  *)
LEMMA InitInv == Init => IInv
<1> SUFFICES ASSUME Init PROVE IInv
  OBVIOUS
<1>1. PICK f \in Frames : /\ slots = [i \in 0..(RxRing - 1) |-> Whole(f)]
                         /\ copy = Whole(f) /\ got = Whole(f)
  BY DEF Init
<1>2. 0 \in 0..(Wrap - 1) /\ 0 - 0 = 0
  BY ConstantTypes
<1>3. Pending = 0
  BY <1>2, ModSmall, ConstantTypes DEF Init, Pending
<1>4. Whole(f) \in [id : Frames, data : Frames] /\ Whole(f).id = Whole(f).data
  BY DEF Whole
<1>5. inbox \in Seq(Frames) /\ Len(inbox) <= HwDepth
  BY EmptySeq, ConstantTypes DEF Init
<1>6. TypeOK
  BY <1>1, <1>2, <1>3, <1>4, <1>5, ConstantTypes DEF Init, TypeOK
<1>7. QED
  BY <1>1, <1>4, <1>6 DEF Init, IInv, SlotsWhole, ReaderInStep

(* The reader is the only one that moves the tail, the interrupt the only  *)
(* one that moves the head: neither undoes what the other relies on.       *)
LEMMA InvStep == IInv /\ [Next]_vars => IInv'
<1> SUFFICES ASSUME IInv, [Next]_vars PROVE IInv'
  OBVIOUS
<1> USE DEF IInv
<1>p. Pending \in 0..RxRing /\ tail \in Int /\ head \in Int
  BY PendingType DEF TypeOK
<1>1. ASSUME NEW f \in Frames, Arrive(f) PROVE IInv'
  <2>1. (inbox \in Seq(Frames) /\ Len(inbox) <= HwDepth)'
    BY <1>1, PushedType DEF TypeOK, Arrive
  <2>2. UNCHANGED <<slots, head, tail, reader, copy, got>>
    BY <1>1 DEF Arrive
  <2>3. QED
    BY <2>1, <2>2 DEF TypeOK, SlotsWhole, ReaderInStep, Pending, Slot
<1>2. CASE can_rx_fifo0_pending
  <2>1. /\ Head(inbox) \in Frames
        /\ (inbox \in Seq(Frames) /\ Len(inbox) <= HwDepth)'
    BY <1>2, HeadTailProperties, ConstantTypes, LenProperties DEF TypeOK, can_rx_fifo0_pending
  <2>2. UNCHANGED <<tail, reader, copy, got>>
    BY <1>2 DEF can_rx_fifo0_pending
  <2>3. CASE Full
    <3>1. UNCHANGED <<slots, head>>
      BY <1>2, <2>3 DEF can_rx_fifo0_pending
    <3>2. QED
      BY <2>1, <2>2, <3>1 DEF TypeOK, SlotsWhole, ReaderInStep, Pending, Slot
  <2>4. CASE ~Full
    <3>1. /\ Pending < RxRing /\ head' = (head + 1) % Wrap
          /\ slots' = [slots EXCEPT ![head % RxRing] = Whole(Head(inbox))]
      BY <1>2, <1>p, <2>4, ConstantTypes DEF can_rx_fifo0_pending, Full
    <3>2. head' \in 0..(Wrap - 1) /\ Pending' = Pending + 1 /\ Pending' <= RxRing
      BY <1>p, <2>2, <3>1, HeadMoves, ConstantTypes
    <3>3. /\ Whole(Head(inbox)) \in [id : Frames, data : Frames]
          /\ Whole(Head(inbox)).id = Whole(Head(inbox)).data
      BY <2>1 DEF Whole
    <3>4. TypeOK'
      BY <2>1, <2>2, <3>1, <3>2, <3>3 DEF TypeOK
    <3>5. SlotsWhole'
      BY <3>1, <3>3 DEF TypeOK, SlotsWhole
    <3>6. ReaderInStep'
      <4>1. Pending > 0 => Slot(tail)' = Slot(tail)
        <5>1. ASSUME Pending > 0 PROVE Slot(tail)' = Slot(tail)
          <6>1. 1 \in 1..(Pending + 1) /\ 1 <= Pending /\ tail + 1 - 1 = tail
            BY <1>p, <5>1
          <6>2. slots'[(tail + 1 - 1) % RxRing] = Slot(tail + 1 - 1)
            BY <2>1, <3>1, <6>1, Stored
          <6>3. QED
            BY <2>2, <6>1, <6>2 DEF Slot
        <5>2. QED
          BY <5>1
      <4>2. QED
        BY <1>p, <2>2, <3>2, <4>1 DEF ReaderInStep
    <3>7. QED
      BY <2>2, <3>4, <3>5, <3>6
  <2>5. QED
    BY <2>3, <2>4
<1>3. CASE ReadStart
  <2>1. UNCHANGED <<inbox, slots, head, tail, copy, got>> /\ reader' = "id" /\ tail # head
    BY <1>3 DEF ReadStart
  <2>2. Pending # 0
    <3>1. /\ Wrap \in Nat \ {0} /\ head \in 0..(Wrap - 1) /\ tail \in 0..(Wrap - 1)
          /\ head \in Int /\ tail \in Int /\ head - tail \in Int /\ 0 \in Int
          /\ head - tail - 0 < Wrap /\ 0 - (head - tail) < Wrap
          /\ 0 \in 0..(Wrap - 1)
      BY ConstantTypes DEF TypeOK
    <3>2. 0 % Wrap = 0
      BY ONLY <3>1, ModSmall
    <3>3. (head - tail) % Wrap = 0 % Wrap => head - tail = 0
      BY ONLY <3>1, ModNear
    <3>4. QED
      BY <2>1, <3>1, <3>2, <3>3 DEF Pending
  <2>3. QED
    BY <1>p, <2>1, <2>2 DEF TypeOK, SlotsWhole, ReaderInStep, Pending, Slot
<1>4. CASE CopyId
  <2>1. Slot(tail) \in [id : Frames, data : Frames]
    BY <1>p, SlotType
  <2>2. /\ UNCHANGED <<inbox, slots, head, tail, got>> /\ reader' = "data" /\ reader = "id"
        /\ copy' = [copy EXCEPT !.id = Slot(tail).id]
    BY <1>4 DEF CopyId
  <2>3. copy' \in [id : Frames, data : Frames] /\ copy'.id = Slot(tail).id
    BY <2>1, <2>2 DEF TypeOK
  <2>4. QED
    BY <2>2, <2>3 DEF TypeOK, SlotsWhole, ReaderInStep, Pending, Slot
<1>5. CASE CopyData
  <2>1. Slot(tail) \in [id : Frames, data : Frames]
    BY <1>p, SlotType
  <2>2. /\ UNCHANGED <<inbox, slots, head, tail, got>> /\ reader' = "release"
        /\ reader = "data" /\ copy' = [copy EXCEPT !.data = Slot(tail).data]
    BY <1>5 DEF CopyData
  <2>3. copy' \in [id : Frames, data : Frames] /\ copy' = Slot(tail)
    BY <2>1, <2>2 DEF TypeOK, ReaderInStep
  <2>4. QED
    BY <2>2, <2>3 DEF TypeOK, SlotsWhole, ReaderInStep, Pending, Slot
<1>6. CASE Release
  <2>1. /\ reader = "release" /\ reader' = "idle" /\ tail' = (tail + 1) % Wrap
        /\ got' = copy /\ UNCHANGED <<inbox, slots, head, copy>>
    BY <1>6 DEF Release
  <2>2. Pending > 0 /\ copy = Slot(tail)
    BY <2>1 DEF ReaderInStep
  <2>3. tail' \in 0..(Wrap - 1) /\ Pending' = Pending - 1 /\ Pending' <= RxRing
    BY <1>p, <2>1, <2>2, TailMoves, ConstantTypes
  <2>4. copy.id = copy.data
    BY <1>p, <2>2, SlotType DEF SlotsWhole, Slot
  <2>5. QED
    BY <2>1, <2>3, <2>4 DEF TypeOK, SlotsWhole, ReaderInStep
<1>7. CASE UNCHANGED vars
  BY <1>7 DEF vars, TypeOK, SlotsWhole, ReaderInStep, Pending, Slot
<1>8. QED
  BY <1>1, <1>2, <1>3, <1>4, <1>5, <1>6, <1>7 DEF Next

(* The indices stay in range and the ring never holds more than it has     *)
(* slots, although nothing but the code's own checks keeps them apart      *)
(* (can_rx_fifo0_pending, CAN_BL_Read).                                    *)
THEOREM TypeCorrect == Spec => []TypeOK
<1>1. IInv => TypeOK
  BY DEF IInv
<1>2. QED
  BY <1>1, InitInv, InvStep, PTL DEF Spec
-----------------------------------------------------------------------------
(* The refinement: Contents is the queue. *)

(* A frame read from a slot is whole.                                      *)
LEMMA JoinedSlot ==
  ASSUME IInv, NEW i \in Int
  PROVE  Joined(Slot(i)) = Slot(i).id /\ Slot(i).id \in Frames /\ Slot(i) = Whole(Slot(i).id)
<1>1. Slot(i) \in [id : Frames, data : Frames] /\ i % RxRing \in 0..(RxRing - 1)
  BY SlotType DEF IInv
<1>2. Slot(i).id = Slot(i).data
  BY <1>1 DEF IInv, SlotsWhole, Slot
<1>3. QED
  BY <1>1, <1>2 DEF Joined, Whole

(* The abstract queue as a sequence of frames.                             *)
LEMMA ContentsIs ==
  IInv => /\ Contents \in Seq(Frames) /\ Len(Contents) = Pending
          /\ \A i \in 1..Pending : Contents[i] = Slot(tail + i - 1).id
<1> SUFFICES ASSUME IInv
             PROVE  /\ Contents \in Seq(Frames) /\ Len(Contents) = Pending
                    /\ \A i \in 1..Pending : Contents[i] = Slot(tail + i - 1).id
  OBVIOUS
<1>1. Pending \in Nat /\ tail \in Int
  BY PendingType DEF IInv, TypeOK
<1>2. ASSUME NEW i \in 1..Pending
      PROVE  /\ Joined(Slot(tail + i - 1)) = Slot(tail + i - 1).id
             /\ Slot(tail + i - 1).id \in Frames
  <2>1. tail + i - 1 \in Int
    BY <1>1
  <2>2. QED
    BY <2>1, JoinedSlot
<1>3. Contents \in [1..Pending -> Frames]
  BY <1>2 DEF Contents
<1>4. QED
  BY <1>1, <1>2, <1>3 DEF Contents

(* An empty ring is an empty queue.                                        *)
LEMMA InitQueue == Init => Queue!Init
<1> SUFFICES ASSUME Init PROVE Queue!Init
  OBVIOUS
<1>1. PICK f \in Frames : got = Whole(f)
  BY DEF Init
<1>2. Joined(got) \in Frames
  BY <1>1 DEF Whole, Joined
<1>3. Pending = 0
  <2>1. 0 \in 0..(Wrap - 1) /\ 0 - 0 = 0
    BY ConstantTypes
  <2>2. QED
    BY <2>1, ModSmall, ConstantTypes DEF Init, Pending
<1>4. Contents \in Seq(Frames) /\ Len(Contents) = 0
  BY <1>3, InitInv, ContentsIs
<1>5. Contents = <<>>
  BY <1>4, EmptySeq
<1>6. QED
  BY <1>2, <1>5 DEF Init, Queue!Init

(* The frame that the interrupt stores is the last one. *)
LEMMA StoreIsMove ==
  ASSUME IInv, IInv', can_rx_fifo0_pending, ~Full,
         Contents' \in Seq(Frames), Len(Contents') = Pending',
         \A i \in 1..Pending' : Contents'[i] = slots'[(tail' + i - 1) % RxRing].id
  PROVE  Contents' = Append(Contents, Head(inbox))
<1>1. /\ Pending \in 0..RxRing /\ Pending < RxRing
      /\ head' = (head + 1) % Wrap /\ tail' = tail
      /\ slots' = [slots EXCEPT ![head % RxRing] = Whole(Head(inbox))]
  BY PendingType, ConstantTypes DEF IInv, can_rx_fifo0_pending, Full
<1>2. Pending' = Pending + 1
  BY <1>1, HeadMoves DEF IInv
<1>3. Head(inbox) \in Frames
  BY HeadTailProperties DEF IInv, TypeOK, can_rx_fifo0_pending
<1>4. /\ Contents \in Seq(Frames) /\ Len(Contents) = Pending
      /\ \A i \in 1..Pending : Contents[i] = Slot(tail + i - 1).id
  BY ContentsIs
<1> DEFINE more == Append(Contents, Head(inbox))
<1>5. /\ more \in Seq(Frames) /\ Len(more) = Pending + 1
      /\ \A i \in 1..Pending : more[i] = Contents[i]
      /\ more[Pending + 1] = Head(inbox)
  BY <1>3, <1>4, AppendProperties
<1>6. ASSUME NEW i \in 1..(Pending + 1) PROVE Contents'[i] = more[i]
  <2>1. slots'[(tail + i - 1) % RxRing]
          = IF i <= Pending THEN Slot(tail + i - 1) ELSE Whole(Head(inbox))
    BY <1>1, <1>3, Stored DEF IInv
  <2>2. Contents'[i] = slots'[(tail + i - 1) % RxRing].id
    BY <1>1, <1>2
  <2>3. CASE i <= Pending
    BY <1>1, <1>4, <1>5, <2>1, <2>2, <2>3
  <2>4. CASE i = Pending + 1
    BY <1>1, <1>5, <2>1, <2>2, <2>4 DEF Whole
  <2>5. i <= Pending \/ i = Pending + 1
    BY <1>1, ConstantTypes
  <2>6. QED
    BY <2>3, <2>4, <2>5
<1> HIDE DEF more
<1>7. Contents' = more
  BY <1>2, <1>5, <1>6, SeqEqual
<1>8. QED
  BY <1>7 DEF more

(* The frame the reader releases is the first one. *)
LEMMA ReleaseIsTake ==
  ASSUME IInv, IInv', Release,
         Contents' \in Seq(Frames), Len(Contents') = Pending',
         \A i \in 1..Pending' : Contents'[i] = slots'[(tail' + i - 1) % RxRing].id
  PROVE  Queue!Take(copy.id) /\ copy.id \in Frames
<1>1. /\ tail' = (tail + 1) % Wrap /\ got' = copy /\ UNCHANGED <<inbox, slots, head>>
      /\ copy = Slot(tail) /\ Pending > 0 /\ Pending \in Nat /\ tail \in Int
  BY PendingType DEF IInv, TypeOK, ReaderInStep, Release
<1>2. Pending' = Pending - 1
  BY <1>1, TailMoves DEF IInv
<1>3. /\ Contents \in Seq(Frames) /\ Len(Contents) = Pending
      /\ \A i \in 1..Pending : Contents[i] = Slot(tail + i - 1).id
  BY ContentsIs
<1>4. Contents # <<>>
  BY <1>1, <1>3, EmptySeq
<1>5. Head(Contents) = copy.id
  <2>1. tail + 1 - 1 = tail /\ 1 \in 1..Pending
    BY <1>1
  <2>2. Contents[1] = Slot(tail).id
    BY <1>3, <2>1
  <2>3. QED
    BY <1>1, <1>3, <1>4, <2>2
<1>6. /\ Tail(Contents) \in Seq(Frames) /\ Len(Tail(Contents)) = Pending - 1
      /\ \A i \in 1..(Pending - 1) : Tail(Contents)[i] = Contents[i + 1]
  BY <1>3, <1>4, HeadTailProperties
<1>7. ASSUME NEW i \in 1..(Pending - 1) PROVE Contents'[i] = Tail(Contents)[i]
  <2>1. /\ RxRing \in Nat \ {0} /\ Wrap \in Nat \ {0} /\ Wrap % RxRing = 0
        /\ i + 1 \in 1..Pending /\ tail + 1 \in Int /\ i - 1 \in Int
        /\ tail + (i + 1) - 1 = (tail + 1) + (i - 1)
        /\ (tail + 1) % Wrap \in Int
    BY <1>1, ConstantTypes, ModSplit
  <2>2. ((tail + 1) % Wrap) % RxRing = (tail + 1) % RxRing
    BY ONLY <2>1, ModOfMod
  <2>3. ((((tail + 1) % Wrap) % RxRing) + (i - 1)) % RxRing
          = (((tail + 1) % Wrap) + (i - 1)) % RxRing
    BY ONLY <2>1, ModAdd
  <2>4. (((tail + 1) % RxRing) + (i - 1)) % RxRing = ((tail + 1) + (i - 1)) % RxRing
    BY ONLY <2>1, ModAdd
  <2>5. tail' + i - 1 = ((tail + 1) % Wrap) + (i - 1)
    BY <1>1, <2>1
  <2>6. (tail' + i - 1) % RxRing = (tail + (i + 1) - 1) % RxRing
    BY <2>1, <2>2, <2>3, <2>4, <2>5
  <2>7. Contents'[i] = Slot(tail + (i + 1) - 1).id
    BY <1>1, <1>2, <2>6 DEF Slot
  <2>8. QED
    BY <1>3, <1>6, <2>1, <2>7
<1>8. Contents' = Tail(Contents)
  BY <1>2, <1>6, <1>7, SeqEqual
<1>9. copy.id \in Frames
  BY <1>1, SlotType DEF IInv
<1>10. QED
  BY <1>1, <1>4, <1>5, <1>8, <1>9 DEF Queue!Take

(* Every step of the ring is one of the queue, or nothing to it.           *)
LEMMA QueueStep == IInv /\ IInv' /\ [Next]_vars => [Queue!Next]_<<inbox, Contents, Joined(got)>>
<1> SUFFICES ASSUME IInv, IInv', [Next]_vars
             PROVE  [Queue!Next]_<<inbox, Contents, Joined(got)>>
  OBVIOUS
<1>c. IInv' => /\ Contents' \in Seq(Frames) /\ Len(Contents') = Pending'
               /\ \A i \in 1..Pending' : Contents'[i] = slots'[(tail' + i - 1) % RxRing].id
  <2>1. IInv' => /\ (Contents \in Seq(Frames) /\ Len(Contents) = Pending)'
                 /\ (\A i \in 1..Pending : Contents[i] = Slot(tail + i - 1).id)'
    BY ContentsIs, PTL
  <2>2. QED
    BY <2>1 DEF Slot
<1>1. ASSUME NEW f \in Frames, Arrive(f) PROVE Queue!Next
  <2>1. UNCHANGED <<Contents, Joined(got)>>
    BY <1>1 DEF Arrive, Contents, Pending, Slot, Joined
  <2>2. Queue!Arrive(f)
    BY <1>1, <2>1 DEF Arrive, Pushed, Queue!Arrive, Queue!Pushed
  <2>3. QED
    BY <2>1, <2>2 DEF Queue!Next
<1>2. CASE can_rx_fifo0_pending
  <2>1. Joined(got)' = Joined(got)
    BY <1>2 DEF can_rx_fifo0_pending, Joined
  <2>2. Len(Contents) = Pending /\ Pending \in 0..RxRing
    BY ContentsIs, PendingType DEF IInv
  <2>3. CASE Full
    <3>1. UNCHANGED Contents
      BY <1>2, <2>3 DEF can_rx_fifo0_pending, Contents, Pending, Slot, Joined
    <3>2. ~(Len(Contents) < RxRing)
      BY <2>2, <2>3, ConstantTypes DEF Full
    <3>3. QED
      BY <1>2, <2>1, <3>1, <3>2 DEF can_rx_fifo0_pending, Queue!Next, Queue!Move
  <2>4. CASE ~Full
    <3>1. Contents' = Append(Contents, Head(inbox))
      BY <1>c, <1>2, <2>4, StoreIsMove
    <3>2. Len(Contents) < RxRing
      BY <2>2, <2>4, ConstantTypes DEF Full
    <3>3. QED
      BY <1>2, <2>1, <3>1, <3>2 DEF can_rx_fifo0_pending, Queue!Next, Queue!Move
  <2>5. QED
    BY <2>3, <2>4
<1>3. CASE ReadStart \/ CopyId \/ CopyData \/ UNCHANGED vars
  <2>1. UNCHANGED <<inbox, slots, head, tail, got>>
    BY <1>3 DEF ReadStart, CopyId, CopyData, vars
  <2>2. UNCHANGED <<inbox, Contents, Joined(got)>>
    BY <2>1 DEF Contents, Pending, Slot, Joined
  <2>3. QED
    BY <2>2
<1>4. CASE Release
  <2>1. Queue!Take(copy.id) /\ copy.id \in Frames
    BY <1>c, <1>4, ReleaseIsTake
  <2>2. Joined(got)' = copy.id
    BY <1>4 DEF Release, Joined, IInv
  <2>3. QED
    BY <2>1, <2>2 DEF Queue!Next
<1>5. QED
  BY <1>1, <1>2, <1>3, <1>4 DEF Next

(* The reader gets every frame that was stored, whole, once and in order,  *)
(* and the interrupt drops one only when the ring is full                  *)
(* (can_rx_fifo0_pending, CAN_BL_Read).                                    *)
THEOREM QueueRefinement == Spec => ImplementsQueue
<1>1. Spec => []IInv
  BY InitInv, InvStep, PTL DEF Spec
<1>2. QED
  BY <1>1, InitQueue, QueueStep, PTL DEF Spec, ImplementsQueue, Queue!Spec
=============================================================================
