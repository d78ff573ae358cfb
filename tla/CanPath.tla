------------------------------ MODULE CanPath ------------------------------
(***************************************************************************)
(* A raw flash session over CAN: the host (bl_host.py flash) sends ERASE,  *)
(* WRITE 1 .. Blocks and VERIFY through the Blue Pill bridge, which splits *)
(* each command into ISO-TP frames; the FBL reassembles, executes and      *)
(* answers.  Serial transfers and the bridge's frames may be lost, foreign *)
(* frames reach both receivers (neither looks at an ID), every wait has a  *)
(* timeout, and the host sends a command again that was not acknowledged.  *)
(***************************************************************************)
EXTENDS Integers, Sequences

CONSTANTS Blocks,      \* WRITE commands of a session
          Parts,       \* frames of a command: a first frame, then consecutive ones
          Tries,       \* tries of transact_retry (5)
          HwDepth,     \* messages in a CAN receive FIFO (3)
          Capacity,    \* CAN_RX_RING (16)
          ForeignReplies, \* what the host may read a foreign single frame as
          MaxForeign   \* bound: frames of other nodes in a behaviour

ASSUME PathAssumption == /\ Blocks \in Nat \ {0} /\ Parts \in Nat \ {0, 1}
                         /\ Tries \in Nat \ {0} /\ MaxForeign \in Nat
                         /\ HwDepth \in Nat \ {0} /\ Capacity \in Nat \ {0}
                         /\ ForeignReplies \subseteq {0, 1, 2}

VARIABLES next, tries, host,      \* transact_retry: command, tries of it, where it is
          serialCmd, serialReply, \* bytes on the serial line; 0 if none
          bridge, cmd, sent, fifo,\* forward_can: where it is, its command, frames sent, CAN1 FIFO
          inbox, queue,           \* the FBL's CAN FIFO and receive ring
          fbl, parts,             \* where BL_Run is, frames of the message being received
          written, installed,     \* Slot B; history: VERIFY succeeded in this session
          foreign                 \* frames of other nodes so far

hostVars == <<next, tries, host>>
bridgeVars == <<bridge, cmd, sent, fifo>>
ringVars == <<inbox, queue>>
fblVars == <<fbl, parts>>
boardVars == <<written, installed>>
vars == <<hostVars, serialCmd, serialReply, bridgeVars, ringVars, fblVars, boardVars, foreign>>

Erase == 1
Write(b) == b + 1
Verify == Blocks + 2
Commands == Erase .. Verify
None == 0

\* Frames: part 1 of a command is its first frame, a reply is a single frame, and
\* the part of a flow control is its block size (0: all the rest).
Part(c, i) == [kind |-> IF i = 1 THEN "FF" ELSE "CF", of |-> c, part |-> i]
Flow == [kind |-> "FC", of |-> None, part |-> 1]
Reply(what) == [kind |-> "SF", of |-> what, part |-> 1]      \* 1, 0, or a NACK
Nack == 2

\* Frames of other nodes.  The bridge hands a single frame to the host whoever sent
\* it.  "OV" is flow control that says overflow, "other" any frame that nobody here
\* reacts to.  Bounds: a single frame is no longer than a reply, a first frame
\* announces as many frames as a command has.
Foreign == [kind : {"SF"}, of : ForeignReplies, part : {0}]
           \cup [kind : {"FF", "CF", "FC", "OV", "other"}, of : {Nack}, part : {0}]
AllFrames == {Part(c, i) : c \in Commands, i \in 1 .. Parts}
             \cup {Flow} \cup {Reply(w) : w \in {0, 1, Nack}} \cup Foreign

Ring == INSTANCE FrameQueue WITH Frames <- AllFrames, got <- None

Init == /\ next = Erase /\ tries = 0 /\ host = "stopped"
        /\ serialCmd = None /\ serialReply = <<>>
        /\ bridge = "idle" /\ cmd = None /\ sent = 0 /\ fifo = <<>>
        /\ inbox = <<>> /\ queue = <<>> /\ fbl = "loop" /\ parts = <<>>
        /\ written \in SUBSET (1 .. Blocks) /\ installed = FALSE /\ foreign = 0

\* The wait for flow control, about a second, may end while the FBL is busy; the
\* 12 s for the reply are longer than it ever is.
FblQuiet == fbl # "receive" /\ inbox = <<>> /\ queue = <<>>

\* A frame for the FBL.  One that hangs hears nothing; its reset empties the FIFO.
ToFbl(f) == IF fbl = "hung" THEN UNCHANGED ringVars ELSE Ring!Arrive(f)

-----------------------------------------------------------------------------
(* The host. *)

HostStart == /\ host = "stopped"
             /\ host' = "send" /\ next' = Erase /\ tries' = 0 /\ installed' = FALSE
             /\ UNCHANGED <<serialCmd, serialReply, bridgeVars, ringVars, fblVars, written, foreign>>

HostSend == /\ host = "send"
            /\ host' = "wait" /\ tries' = tries + 1 /\ serialCmd' = next
            /\ UNCHANGED <<next, serialReply, bridgeVars, ringVars, fblVars, boardVars, foreign>>

\* Mutant: one try too many.
SendAgain_OneMore ==
    host' = (IF tries <= Tries THEN "send" ELSE "stopped") /\ UNCHANGED <<next, tries>>

\* No reply or a NACK: once more, or the session is given up.
SendAgain == host' = (IF tries < Tries THEN "send" ELSE "stopped") /\ UNCHANGED <<next, tries>>

HostReply == /\ host = "wait" /\ serialReply # <<>>
             /\ serialReply' = <<>>
             /\ CASE serialReply[1] = 1 ->
                       /\ next' = next + 1 /\ tries' = 0
                       /\ host' = IF next = Verify THEN "stopped" ELSE "send"
                  [] serialReply[1] = 0 -> host' = "stopped" /\ UNCHANGED <<next, tries>>
                  [] OTHER -> SendAgain
             /\ UNCHANGED <<serialCmd, bridgeVars, ringVars, fblVars, boardVars, foreign>>

\* 20 s are longer than the bridge ever takes (its own 12 s and the flow control).
HostTimeout == /\ host = "wait" /\ bridge = "idle" /\ serialCmd = None /\ serialReply = <<>>
               /\ FblQuiet
               /\ SendAgain
               /\ UNCHANGED <<serialCmd, serialReply, bridgeVars, ringVars, fblVars, boardVars, foreign>>
-----------------------------------------------------------------------------
(* The bridge. *)

SendPart(c, i) == sent' = i /\ ToFbl(Part(c, i))

\* Mutant: the frames of earlier exchanges are not drained.
BridgeTake_NoDrain ==
    /\ bridge = "idle" /\ serialCmd # None
    /\ serialCmd' = None /\ cmd' = serialCmd
    /\ SendPart(serialCmd, 1) /\ bridge' = "flow"
    /\ UNCHANGED <<hostVars, serialReply, fifo, fblVars, boardVars, foreign>>

\* A whole command came over the serial line: old frames go, the first frame leaves.
BridgeTake == /\ bridge = "idle" /\ serialCmd # None
              /\ serialCmd' = None /\ cmd' = serialCmd /\ fifo' = <<>>
              /\ SendPart(serialCmd, 1) /\ bridge' = "flow"
              /\ UNCHANGED <<hostVars, serialReply, fblVars, boardVars, foreign>>

\* bp_wait_fc: the next part at each flow control; anything else is thrown away.
BridgeFlow == /\ bridge = "flow" /\ fifo # <<>> /\ Head(fifo).kind # "OV"
              /\ fifo' = Tail(fifo)
              /\ IF Head(fifo).kind # "FC" THEN UNCHANGED <<bridge, sent, ringVars>>
                 ELSE /\ SendPart(cmd, sent + 1)
                      /\ bridge' = IF sent + 1 = Parts THEN "reply"
                                   ELSE IF Head(fifo).part = 0 THEN "stream" ELSE "flow"
              /\ UNCHANGED <<hostVars, serialCmd, serialReply, cmd, fblVars, boardVars, foreign>>

\* Overflow: the command is given up.
BridgeOverflow == /\ bridge = "flow" /\ fifo # <<>> /\ Head(fifo).kind = "OV"
                  /\ fifo' = Tail(fifo) /\ bridge' = "idle" /\ cmd' = None /\ sent' = 0
                  /\ UNCHANGED <<hostVars, serialCmd, serialReply, ringVars, fblVars, boardVars, foreign>>

\* Block size 0: the rest of the parts, one after the other.
BridgeStream == /\ bridge = "stream"
                /\ SendPart(cmd, sent + 1)
                /\ bridge' = IF sent + 1 = Parts THEN "reply" ELSE "stream"
                /\ UNCHANGED <<hostVars, serialCmd, serialReply, cmd, fifo, fblVars, boardVars, foreign>>

\* bp_cantp_recv_sf: the first frame is the reply, or there is none.
BridgeReply == /\ bridge = "reply" /\ fifo # <<>>
               /\ fifo' = Tail(fifo) /\ bridge' = "idle" /\ cmd' = None /\ sent' = 0
               /\ serialReply' = IF Head(fifo).kind = "SF" THEN <<Head(fifo).of>> ELSE <<>>
               /\ UNCHANGED <<hostVars, serialCmd, ringVars, fblVars, boardVars, foreign>>

\* Mutant: the wait for flow control has no end.
BridgeTimeout_ReplyOnly ==
    /\ bridge = "reply" /\ FblQuiet /\ fifo = <<>>
    /\ bridge' = "idle" /\ cmd' = None /\ sent' = 0
    /\ UNCHANGED <<hostVars, serialCmd, serialReply, fifo, ringVars, fblVars, boardVars, foreign>>

BridgeTimeout == /\ bridge = "flow" \/ (bridge = "reply" /\ FblQuiet)
                 /\ fifo = <<>>
                 /\ bridge' = "idle" /\ cmd' = None /\ sent' = 0
                 /\ UNCHANGED <<hostVars, serialCmd, serialReply, fifo, ringVars, fblVars, boardVars, foreign>>
-----------------------------------------------------------------------------
(* The FBL. *)

Interrupt == /\ Ring!Move
             /\ UNCHANGED <<hostVars, serialCmd, serialReply, bridgeVars, fblVars, boardVars, foreign>>

\* Frames of the FBL are sent until the bridge's controller acknowledges them.
Transmit(f) == fifo' = Ring!Pushed(fifo, f)

\* CANTP_RecvNB: a first frame is answered with flow control; a single frame is a
\* message that fails its CRC (no command of the session is that short).
FblFirst == /\ fbl = "loop"
            /\ \E f \in AllFrames :
                 /\ Ring!Take(f)
                 /\ CASE f.kind = "FF" -> fbl' = "receive" /\ parts' = <<f>> /\ Transmit(Flow)
                      [] f.kind = "SF" -> UNCHANGED fblVars /\ Transmit(Reply(Nack))
                      [] OTHER -> UNCHANGED <<fblVars, fifo>>
            /\ UNCHANGED <<hostVars, serialCmd, serialReply, bridge, cmd, sent, boardVars, foreign>>

\* A single frame shorter than a CRC: the length the CRC is taken over wraps, and the
\* FBL reads past the RAM into HardFault_Handler, which never returns.
FblFault == /\ fbl = "loop" /\ queue # <<>> /\ Head(queue).kind = "SF"
            /\ fbl' = "hung" /\ inbox' = <<>> /\ queue' = <<>> /\ UNCHANGED parts
            /\ UNCHANGED <<hostVars, serialCmd, serialReply, bridgeVars, boardVars, foreign>>

\* CANTP_Recv: whatever is a consecutive frame is appended, its number is not
\* looked at; anything else ends the message, and is lost with it.
FblNext == /\ fbl = "receive" /\ Len(parts) < Parts
           /\ \E f \in AllFrames :
                /\ Ring!Take(f)
                /\ IF f.kind = "CF"
                     THEN /\ parts' = Append(parts, f) /\ UNCHANGED fbl
                          /\ IF Len(parts) + 1 < Parts THEN Transmit(Flow) ELSE UNCHANGED fifo
                     ELSE fbl' = "loop" /\ parts' = <<>> /\ UNCHANGED fifo
           /\ UNCHANGED <<hostVars, serialCmd, serialReply, bridge, cmd, sent, boardVars, foreign>>

FblTimeout == /\ fbl = "receive" /\ Len(parts) < Parts /\ inbox = <<>> /\ queue = <<>>
              /\ fbl' = "loop" /\ parts' = <<>>
              /\ UNCHANGED <<hostVars, serialCmd, serialReply, bridgeVars, ringVars, boardVars, foreign>>

\* What BL_ProcessFrame does with command c; WRITE refuses what is programmed.
Result(c) == IF \/ c = Erase
                \/ c = Verify /\ written = 1 .. Blocks
                \/ \E b \in 1 .. Blocks : c = Write(b) /\ b \notin written
             THEN 1 ELSE 0

Execute(c) == /\ written' = IF c = Erase THEN {} ELSE written \cup {b \in 1 .. Blocks : c = Write(b)}
              /\ installed' = (installed \/ (c = Verify /\ Result(c) = 1))

\* The CRC is over the message as it was put together.
IsCommand(c) == parts = [i \in 1 .. Parts |-> Part(c, i)]

BL_ProcessFrame ==
    /\ fbl = "receive" /\ Len(parts) = Parts
    /\ \/ \E c \in Commands : IsCommand(c) /\ Execute(c) /\ Transmit(Reply(Result(c)))
       \/ (\A c \in Commands : ~IsCommand(c)) /\ UNCHANGED boardVars /\ Transmit(Reply(Nack))
    /\ fbl' = "loop" /\ parts' = <<>>
    /\ UNCHANGED <<hostVars, serialCmd, serialReply, bridge, cmd, sent, ringVars, foreign>>

\* A reset between two frames; Slot B stays.
FblReset == /\ fbl' = "loop" /\ parts' = <<>> /\ inbox' = <<>> /\ queue' = <<>>
            /\ UNCHANGED <<hostVars, serialCmd, serialReply, bridgeVars, boardVars, foreign>>
-----------------------------------------------------------------------------
(* What the lines do. *)

\* The bridge sends a frame once (AutoRetransmission is off).
LoseFrame == /\ inbox # <<>> /\ inbox' = SubSeq(inbox, 1, Len(inbox) - 1)
             /\ UNCHANGED <<hostVars, serialCmd, serialReply, bridgeVars, queue, fblVars, boardVars, foreign>>

LoseSerial == /\ serialCmd # None \/ serialReply # <<>>
              /\ serialCmd' = None /\ serialReply' = <<>>
              /\ UNCHANGED <<hostVars, bridgeVars, ringVars, fblVars, boardVars, foreign>>

\* Both controllers accept every ID.
OtherNode == /\ foreign < MaxForeign /\ foreign' = foreign + 1
             /\ \E f \in Foreign : ToFbl(f) /\ fifo' = Ring!Pushed(fifo, f)
             /\ UNCHANGED <<hostVars, serialCmd, serialReply, bridge, cmd, sent, fblVars, boardVars>>

HostStep == HostSend \/ HostReply \/ HostTimeout
BridgeStep == BridgeTake \/ BridgeFlow \/ BridgeOverflow \/ BridgeStream \/ BridgeReply \/ BridgeTimeout
FblStep == Interrupt \/ FblFirst \/ FblFault \/ FblNext \/ FblTimeout \/ BL_ProcessFrame
Trouble == LoseFrame \/ LoseSerial \/ OtherNode \/ FblReset

Next == HostStart \/ HostStep \/ BridgeStep \/ FblStep \/ Trouble

Spec == Init /\ [][Next]_vars
FairSpec == Spec /\ WF_vars(HostStart) /\ WF_vars(HostStep) /\ WF_vars(BridgeStep) /\ WF_vars(FblStep)
-----------------------------------------------------------------------------
\* Every variable stays in its set.
TypeOK == /\ next \in Erase .. Verify + 1 /\ tries \in 0 .. Tries
          /\ host \in {"stopped", "send", "wait"}
          /\ serialCmd \in Commands \cup {None} /\ serialReply \in {<<>>, <<0>>, <<1>>, <<Nack>>}
          /\ bridge \in {"idle", "flow", "stream", "reply"} /\ cmd \in Commands \cup {None} /\ sent \in 0 .. Parts
          /\ fifo \in Seq(AllFrames) /\ Len(fifo) <= HwDepth
          /\ inbox \in Seq(AllFrames) /\ Len(inbox) <= HwDepth
          /\ queue \in Seq(AllFrames) /\ Len(queue) <= Capacity
          /\ fbl \in {"loop", "receive", "hung"} /\ parts \in Seq(AllFrames) /\ Len(parts) <= Parts
          /\ written \subseteq 1 .. Blocks /\ installed \in BOOLEAN /\ foreign \in 0 .. MaxForeign

\* What the host was told is so: Slot B holds exactly the acknowledged blocks,
\* and at most the one it is being told about, whatever was lost or sent again.
AckedIsOnBoard ==
    /\ next > Erase => \A b \in 1 .. Blocks : /\ Write(b) < next => b \in written
                                              /\ b \in written => Write(b) <= next
    /\ next > Verify => installed

\* A step without trouble in which nobody gives up on a peer that is about to answer.
Calm == \/ HostStart \/ HostStep
        \/ BridgeTake \/ BridgeFlow \/ BridgeOverflow \/ BridgeStream \/ BridgeReply \/ (BridgeTimeout /\ FblQuiet)
        \/ Interrupt \/ FblFirst \/ FblFault \/ FblNext \/ BL_ProcessFrame
        \/ FblReset /\ fbl = "hung"
        \/ FblTimeout /\ bridge # "stream" /\ ~(bridge = "flow" /\ fifo # <<>>)

\* When the lines stay calm, the operator tries again and resets a board that hangs,
\* a session succeeds, whatever frames, waits and half-received messages the trouble
\* left behind: bridge and FBL never wait for each other for good.
CalmInstalls == <>[][Calm]_vars /\ []<>(fbl # "hung") => []<>(next > Verify)
=============================================================================
