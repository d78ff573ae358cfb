------------------------------ MODULE CanRing ------------------------------
(***************************************************************************)
(* The receive ring of can_bl.c: the interrupt appends, the main loop      *)
(* reads, and neither ever locks the other out.  The interrupt may run     *)
(* between any two steps of the reader; the reader never runs inside it.   *)
(***************************************************************************)
EXTENDS Integers, Sequences

CONSTANTS Frames,     \* the frames that can be on the bus
          HwDepth,    \* messages in the peripheral's receive FIFO (3)
          RxRing,     \* CAN_RX_RING (16)
          Wrap        \* the indices count modulo this (2^32)

ASSUME RingAssumption == /\ HwDepth \in Nat \ {0} /\ RxRing \in Nat \ {0}
                         /\ Wrap \in Nat /\ Wrap > RxRing /\ Wrap % RxRing = 0

VARIABLES inbox,      \* the peripheral's receive FIFO
          slots,      \* rx_ring; id and data are stored one after the other
          head, tail, \* rx_head, rx_tail
          reader,     \* how far CAN_BL_Read is
          copy,       \* what it has copied of the frame
          got         \* the frame its last call returned

vars == <<inbox, slots, head, tail, reader, copy, got>>

Whole(f) == [id |-> f, data |-> f]

\* Mutant: the difference of the indices is not taken modulo their width.
Pending_NoWrap == head - tail

Pending == (head - tail) % Wrap              \* CAN_BL_RxPending
Slot(index) == slots[index % RxRing]

Init == \E f \in Frames :                    \* CAN_BL_Init, whatever the memory holds
           /\ inbox = <<>> /\ head = 0 /\ tail = 0
           /\ slots = [i \in 0 .. RxRing - 1 |-> Whole(f)]
           /\ reader = "idle" /\ copy = Whole(f) /\ got = Whole(f)
-----------------------------------------------------------------------------
Pushed(fifo, f) == IF Len(fifo) < HwDepth THEN Append(fifo, f) ELSE [fifo EXCEPT ![HwDepth] = f]

Arrive(f) == inbox' = Pushed(inbox, f) /\ UNCHANGED <<slots, head, tail, reader, copy, got>>

\* Mutant: one frame more than the ring has slots.
Full_OneLate == Pending > RxRing

Full == Pending >= RxRing

\* One round of the interrupt's loop.
can_rx_fifo0_pending ==
    /\ inbox # <<>>
    /\ inbox' = Tail(inbox)
    /\ IF Full THEN UNCHANGED <<slots, head>>
       ELSE /\ slots' = [slots EXCEPT ![head % RxRing] = Whole(Head(inbox))]
            /\ head' = (head + 1) % Wrap
    /\ UNCHANGED <<tail, reader, copy, got>>
-----------------------------------------------------------------------------
(* CAN_BL_Read: look, copy id and data, release the slot. *)

ReadStart == /\ reader = "idle" /\ tail # head
             /\ reader' = "id"
             /\ UNCHANGED <<inbox, slots, head, tail, copy, got>>

CopyId == /\ reader = "id" /\ copy' = [copy EXCEPT !.id = Slot(tail).id]
          /\ reader' = "data" /\ UNCHANGED <<inbox, slots, head, tail, got>>

CopyData == /\ reader = "data" /\ copy' = [copy EXCEPT !.data = Slot(tail).data]
            /\ reader' = "release" /\ UNCHANGED <<inbox, slots, head, tail, got>>

Release == /\ reader = "release" /\ reader' = "idle"
           /\ tail' = (tail + 1) % Wrap /\ got' = copy
           /\ UNCHANGED <<inbox, slots, head, copy>>

Next == \/ \E f \in Frames : Arrive(f)
        \/ can_rx_fifo0_pending
        \/ ReadStart \/ CopyId \/ CopyData \/ Release

Spec == Init /\ [][Next]_vars
-----------------------------------------------------------------------------
\* Every variable stays in its set, and the ring never holds more than it has slots.
TypeOK == /\ inbox \in Seq(Frames) /\ Len(inbox) <= HwDepth
          /\ slots \in [0 .. RxRing - 1 -> [id : Frames, data : Frames]]
          /\ head \in 0 .. Wrap - 1 /\ tail \in 0 .. Wrap - 1 /\ Pending <= RxRing
          /\ reader \in {"idle", "id", "data", "release"}
          /\ copy \in [id : Frames, data : Frames] /\ got \in [id : Frames, data : Frames]

\* What lies between tail and head; a frame of two halves is no frame.
Joined(c) == IF c.id = c.data THEN c.id ELSE c
Contents == [i \in 1 .. Pending |-> Joined(Slot(tail + i - 1))]

\* The ring without locks is the queue: each call returns the oldest frame, whole,
\* and frames are dropped only when RxRing are waiting, across the wrap of the
\* indices (can_rx_fifo0_pending, CAN_BL_Read).
Queue == INSTANCE FrameQueue WITH Capacity <- RxRing, queue <- Contents, got <- Joined(got)
ImplementsQueue == Queue!Spec
=============================================================================
