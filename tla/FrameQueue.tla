----------------------------- MODULE FrameQueue -----------------------------
(***************************************************************************)
(* What the CAN receive path of the FBL promises its reader: the frames on *)
(* the bus, whole and in order, through the peripheral's FIFO and a queue  *)
(* of Capacity frames that keeps the older ones when it is full.           *)
(***************************************************************************)
EXTENDS Integers, Sequences

CONSTANTS Frames,     \* the frames that can be on the bus
          HwDepth,    \* messages in the peripheral's receive FIFO (3)
          Capacity    \* CAN_RX_RING

VARIABLES inbox,      \* the peripheral's receive FIFO
          queue,      \* the frames the reader has not taken
          got         \* the frame the reader took last

Init == inbox = <<>> /\ queue = <<>> /\ got \in Frames

\* A frame from the bus; a full FIFO has its last message overwritten.
Pushed(fifo, f) == IF Len(fifo) < HwDepth THEN Append(fifo, f) ELSE [fifo EXCEPT ![HwDepth] = f]

Arrive(f) == inbox' = Pushed(inbox, f) /\ UNCHANGED queue

\* The interrupt: a frame that finds the queue full is dropped.
Move == /\ inbox # <<>>
        /\ inbox' = Tail(inbox)
        /\ queue' = IF Len(queue) < Capacity THEN Append(queue, Head(inbox)) ELSE queue

Take(f) == /\ queue # <<>> /\ f = Head(queue)
           /\ queue' = Tail(queue) /\ UNCHANGED inbox

Next == \/ (\E f \in Frames : Arrive(f)) /\ UNCHANGED got
        \/ Move /\ UNCHANGED got
        \/ \E f \in Frames : Take(f) /\ got' = f

Spec == Init /\ [][Next]_<<inbox, queue, got>>
=============================================================================
