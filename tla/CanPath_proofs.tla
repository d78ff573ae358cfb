--------------------------- MODULE CanPath_proofs ---------------------------
(***************************************************************************)
(* Proofs about CanPath for every number of blocks, frames per command and *)
(* tries, every FIFO and ring depth, any losses, resets and timeouts: what *)
(* the host was told is on the board, as long as at most one foreign frame *)
(* gets in between and it does not read as the reply of a success.         *)
(***************************************************************************)
EXTENDS CanPath, SequenceTheorems, TLAPS

(* What is on its way to the FBL: the message it puts together, then the   *)
(* frames in the ring, then those in the FIFO.                             *)
Elems(s) == {s[i] : i \in DOMAIN s}
Before(s, f, g) == \E i, j \in DOMAIN s : i < j /\ s[i] = f /\ s[j] = g

InRest == Elems(queue) \cup Elems(inbox)
RestBefore(f, g) == \/ Before(queue, f, g) \/ Before(inbox, f, g)
                    \/ f \in Elems(queue) /\ g \in Elems(inbox)
InLine == Elems(parts) \cup InRest
LineBefore(f, g) == \/ Before(parts, f, g) \/ RestBefore(f, g)
                    \/ f \in Elems(parts) /\ g \in InRest

IsForeign(f) == f.part = 0
IsPart(f) == f.part # 0 /\ f.kind \in {"FF", "CF"}

(* Who waits for whom. *)
Control ==
  /\ host # "wait" => bridge = "idle" /\ serialCmd = None /\ serialReply = <<>>
  /\ serialCmd # None => bridge = "idle" /\ serialReply = <<>> /\ serialCmd = next
  /\ serialReply # <<>> => bridge = "idle"
  /\ bridge = "idle" => cmd = None /\ sent = 0
  /\ bridge # "idle" => /\ cmd = next /\ sent >= 1
                        /\ (bridge = "reply") <=> (sent = Parts)
                        /\ bridge = "stream" => sent >= 2
  /\ host # "stopped" => next <= Verify
  /\ host = "send" => tries < Tries

(* What kinds of frames there are on either way, and that at most one of   *)
(* them is foreign.                                                        *)
Frames ==
  /\ \A f \in InLine : IsPart(f) \/ IsForeign(f)
  /\ \A f \in Elems(fifo) : f = Flow \/ (\E w \in {0, 1, Nack} : f = Reply(w)) \/ IsForeign(f)

Receiving ==
  /\ (fbl = "receive") <=> (parts # <<>>)
  /\ parts # <<>> => parts[1].kind = "FF"
  /\ \A i \in DOMAIN parts : i > 1 => parts[i].kind = "CF"

OneForeign ==
  /\ foreign = 0 => \A f \in InLine \cup Elems(fifo) : ~IsForeign(f)
  /\ \A f, g \in InLine : LineBefore(f, g) => ~(IsForeign(f) /\ IsForeign(g))
  /\ \A f, g \in Elems(fifo) : Before(fifo, f, g) => ~(IsForeign(f) /\ IsForeign(g))
  /\ \A f \in InLine, g \in Elems(fifo) : IsForeign(f) /\ IsForeign(g) => f = g

(* No command of an earlier exchange is left that could undo a later one.  *)
OfSession == \A f \in InLine : IsPart(f) => f.of = next \/ next = Erase

-----------------------------------------------------------------------------
(* An exchange that found the lines free of older parts is fresh: the parts *)
(* on the line are its own, in order.                                       *)
Sorted ==
  /\ \A f \in InLine : IsPart(f) => f.of = cmd /\ f.part <= sent
  /\ \A f, g \in InLine : LineBefore(f, g) /\ IsPart(f) /\ IsPart(g) => f.part < g.part
  /\ (\A f \in Elems(parts) : IsPart(f)) => \A i \in DOMAIN parts : parts[i].part >= i

FirstWaits == \E f \in InRest : IsPart(f) /\ f.kind = "FF"
NoFirst == \A f \in InRest : f.kind # "FF"
FlowComes == \E f \in Elems(fifo) : f.kind = "FC"

(* Flow control that is not the answer to the first frame comes from a     *)
(* foreign frame, and then no single frame comes from one.                 *)
Overtaken ==
  FirstWaits /\ (sent >= 2 \/ FlowComes \/ \E f \in InLine : IsForeign(f) /\ f.kind = "FF") =>
    \A f \in InLine \cup Elems(fifo) : f.kind # "SF"

(* Before a foreign single frame the bridge is in step with the FBL.       *)
ForeignReply ==
  (\E f \in Elems(fifo) : IsForeign(f) /\ f.kind = "SF") =>
    /\ bridge # "stream"
    /\ fbl = "receive" => Len(parts) >= sent - 1 /\ (FlowComes => Len(parts) >= sent)
    /\ FlowComes => \A f \in InRest : ~IsPart(f)
    /\ \A f, g \in Elems(fifo) : Before(fifo, f, g) => ~(f.kind = "FC" /\ g.kind = "FC")
    /\ \A f, g \in InRest : RestBefore(f, g) => ~(IsPart(f) /\ IsPart(g))

Done(c) == /\ c = Erase => written = {}
           /\ \A b \in 1 .. Blocks : c = Write(b) => b \in written
           /\ c = Verify => installed

NoParts == \A f \in InLine : IsForeign(f)

(* A reply that comes before the flow control the bridge waits for is not  *)
(* taken for one; any other is the answer to what the bridge sent.         *)
Skipped(r) == bridge = "flow" /\ sent = 1 /\ \A f \in Elems(fifo) : f.kind = "FC" => ~Before(fifo, f, r)

Replies ==
  /\ \A w \in {0, 1} : Reply(w) \in Elems(fifo) =>
       Skipped(Reply(w)) \/ (bridge = "reply" /\ NoParts /\ (w = 1 => Done(next)))
  /\ Reply(Nack) \in Elems(fifo) =>
       Skipped(Reply(Nack)) \/ (bridge = "reply" /\ NoParts) \/ (fbl # "receive" /\ NoFirst)

(* Without foreign frames one frame is on its way, in one direction.       *)
OnTheWay(f) == \/ queue = <<>> /\ inbox = <<f>>
               \/ queue = <<f>> /\ inbox = <<>>

LockStep ==
  foreign = 0 =>
    /\ bridge # "stream"
    /\ \A i \in DOMAIN parts : parts[i] = Part(cmd, i)
    /\ \/ queue = <<>> /\ inbox = <<>>
       \/ OnTheWay(Part(cmd, sent)) /\ fifo = <<>> /\ (parts # <<>> => Len(parts) = sent - 1)
    /\ \/ fifo = <<>> /\ (parts # <<>> => Len(parts) >= sent - 1)
       \/ fifo = <<Flow>> /\ sent < Parts /\ (parts # <<>> => Len(parts) = sent)
       \/ fifo \in {<<Reply(0)>>, <<Reply(1)>>} /\ parts = <<>>

Fresh == Sorted /\ Overtaken /\ ForeignReply /\ Replies /\ LockStep

(* After a NACK that answers something else, older parts may be left; they *)
(* cause no more flow control.                                             *)
Stale ==
  /\ foreign # 0
  /\ fbl = "receive" => Len(parts) >= Parts - 1
  /\ \A f \in InRest : f.kind = "FF" => bridge = "flow" /\ f = Part(cmd, 1)
  /\ \A f, g \in InRest : RestBefore(f, g) => f.kind # "FF"
  /\ bridge = "flow" => sent = 1 /\ \A f \in Elems(fifo) : f.kind = "SF" /\ ~IsForeign(f)

(* The host waits for nothing but its timeout, which comes when all is quiet. *)
Waiting == host = "wait" /\ bridge = "idle" /\ serialCmd = None /\ serialReply = <<>>

LineEmpty == parts = <<>> /\ queue = <<>> /\ inbox = <<>>

Progress ==
  /\ bridge # "idle" => Fresh \/ (bridge = "flow" /\ Stale)
  /\ bridge = "idle" => \/ Waiting
                        \/ NoParts /\ (foreign = 0 => LineEmpty)
                        \/ Stale /\ serialReply # << 1 >>

(* Success on the serial line is success on the board.                     *)
Told == serialReply = << 1 >> => Done(next)

Session == /\ Frames /\ Receiving /\ OneForeign /\ OfSession
           /\ Progress /\ Told /\ AckedIsOnBoard

IInv == TypeOK /\ Control /\ Session

-----------------------------------------------------------------------------
(* Sequences. *)

(* Nothing is in an empty sequence, or before anything in it.              *)
LEMMA SeqEmpty == ASSUME NEW f, NEW g PROVE Elems(<<>>) = {} /\ ~Before(<<>>, f, g)
  BY DEF Elems, Before

(* A sequence of one frame has that frame, and nothing before anything.    *)
LEMMA SeqOne == ASSUME NEW e, NEW f, NEW g PROVE Elems(<<e>>) = {e} /\ ~Before(<<e>>, f, g)
<1>1. DOMAIN <<e>> = {1} /\ <<e>>[1] = e
  OBVIOUS
<1>2. QED
  BY <1>1 DEF Elems, Before

(* An appended frame comes after all others and disturbs none of them.     *)
LEMMA SeqAppend ==
  ASSUME NEW S, NEW s \in Seq(S), NEW e \in S
  PROVE  /\ Append(s, e) \in Seq(S) /\ Len(Append(s, e)) = Len(s) + 1
         /\ Elems(Append(s, e)) = Elems(s) \cup {e}
         /\ \A f, g : Before(Append(s, e), f, g) => Before(s, f, g) \/ (f \in Elems(s) /\ g = e)
<1> DEFINE t == Append(s, e)
<1>1. /\ t \in Seq(S) /\ Len(t) = Len(s) + 1 /\ Len(s) \in Nat
      /\ \A i \in 1 .. Len(s) : t[i] = s[i]
      /\ t[Len(s) + 1] = e
      /\ DOMAIN s = 1 .. Len(s) /\ DOMAIN t = 1 .. (Len(s) + 1)
  BY AppendProperties
<1> HIDE DEF t
<1>2. Elems(t) = Elems(s) \cup {e}
  BY <1>1 DEF Elems
<1>3. ASSUME NEW f, NEW g, Before(t, f, g)
      PROVE  Before(s, f, g) \/ (f \in Elems(s) /\ g = e)
  BY <1>1, <1>3 DEF Before, Elems
<1>4. QED
  BY <1>1, <1>2, <1>3 DEF t

(* The frame at the head comes before all others, which keep their order.  *)
LEMMA SeqTail ==
  ASSUME NEW S, NEW s \in Seq(S), s # <<>>
  PROVE  /\ Tail(s) \in Seq(S) /\ Len(Tail(s)) = Len(s) - 1 /\ Len(s) >= 1
         /\ Head(s) \in Elems(s) /\ Head(s) = s[1] /\ Elems(Tail(s)) \subseteq Elems(s)
         /\ Elems(s) = {Head(s)} \cup Elems(Tail(s))
         /\ \A f, g : Before(Tail(s), f, g) => Before(s, f, g)
         /\ \A g \in Elems(Tail(s)) : Before(s, Head(s), g)
<1> DEFINE t == Tail(s)
<1>1. /\ t \in Seq(S) /\ Len(t) = Len(s) - 1 /\ Len(s) \in Nat /\ Len(s) >= 1
      /\ \A i \in 1 .. Len(t) : t[i] = s[i + 1]
      /\ DOMAIN s = 1 .. Len(s) /\ DOMAIN t = 1 .. (Len(s) - 1)
      /\ Head(s) = s[1]
  BY HeadTailProperties, EmptySeq
<1> HIDE DEF t
<1>2. Head(s) \in Elems(s)
  BY <1>1 DEF Elems
<1>3. Elems(t) \subseteq Elems(s)
  BY <1>1 DEF Elems
<1>4. ASSUME NEW f, NEW g, Before(t, f, g) PROVE Before(s, f, g)
  <2>1. PICK i \in DOMAIN t, j \in DOMAIN t : i < j /\ t[i] = f /\ t[j] = g
    BY <1>4 DEF Before
  <2>2. /\ i + 1 \in DOMAIN s /\ j + 1 \in DOMAIN s /\ i + 1 < j + 1
        /\ s[i + 1] = f /\ s[j + 1] = g
    BY <1>1, <2>1
  <2>3. QED
    BY <2>2 DEF Before
<1>5. ASSUME NEW g \in Elems(t) PROVE Before(s, Head(s), g)
  <2>1. PICK i \in DOMAIN t : t[i] = g
    BY DEF Elems
  <2>2. 1 \in DOMAIN s /\ i + 1 \in DOMAIN s /\ 1 < i + 1 /\ s[i + 1] = g
    BY <1>1, <2>1
  <2>3. QED
    BY <1>1, <2>2 DEF Before
<1>6. ASSUME NEW f \in Elems(s), f # Head(s) PROVE f \in Elems(t)
  <2>1. PICK i \in DOMAIN s : s[i] = f
    BY DEF Elems
  <2>2. i - 1 \in DOMAIN t /\ t[i - 1] = f
    BY <1>1, <1>6, <2>1
  <2>3. QED
    BY <2>2 DEF Elems
<1>7. QED
  BY <1>1, <1>2, <1>3, <1>4, <1>5, <1>6 DEF t

(* Without its last frame a sequence keeps the order of the others.        *)
LEMMA SeqFront ==
  ASSUME NEW S, NEW s \in Seq(S), s # <<>>
  PROVE  /\ SubSeq(s, 1, Len(s) - 1) \in Seq(S)
         /\ Len(SubSeq(s, 1, Len(s) - 1)) = Len(s) - 1
         /\ Elems(SubSeq(s, 1, Len(s) - 1)) \subseteq Elems(s)
         /\ \A f, g : Before(SubSeq(s, 1, Len(s) - 1), f, g) => Before(s, f, g)
<1> DEFINE t == SubSeq(s, 1, Len(s) - 1)
<1>1. Len(s) \in Nat /\ Len(s) >= 1 /\ DOMAIN s = 1 .. Len(s)
  BY EmptySeq, LenProperties
<1>2. \A i \in 1 .. (Len(s) - 1) : s[i] \in S
  BY <1>1, ElementOfSeq
<1>3. /\ t \in Seq(S) /\ Len(t) = Len(s) - 1 /\ DOMAIN t = 1 .. (Len(s) - 1)
      /\ \A i \in 1 .. (Len(s) - 1) : t[i] = s[i]
  BY <1>1, <1>2, SubSeqProperties
<1> HIDE DEF t
<1>4. Elems(t) \subseteq Elems(s)
  BY <1>1, <1>3 DEF Elems
<1>5. ASSUME NEW f, NEW g, Before(t, f, g) PROVE Before(s, f, g)
  BY <1>1, <1>3, <1>5 DEF Before
<1>6. QED
  BY <1>3, <1>4, <1>5 DEF t

(* A frame that arrives comes after all others, and may cost the last one. *)
LEMMA SeqPushed ==
  ASSUME NEW s \in Seq(AllFrames), Len(s) <= HwDepth, NEW e \in AllFrames
  PROVE  /\ Ring!Pushed(s, e) \in Seq(AllFrames) /\ Len(Ring!Pushed(s, e)) <= HwDepth
         /\ Elems(Ring!Pushed(s, e)) \subseteq Elems(s) \cup {e}
         /\ \A f, g : Before(Ring!Pushed(s, e), f, g) => Before(s, f, g) \/ (f \in Elems(s) /\ g = e)
         /\ s = <<>> => Ring!Pushed(s, e) = <<e>>
<1>0. HwDepth \in Nat \ {0} /\ Len(s) \in Nat /\ DOMAIN s = 1 .. Len(s)
  BY PathAssumption, LenProperties
<1>1. CASE Len(s) < HwDepth
  <2>1. Ring!Pushed(s, e) = Append(s, e)
    BY <1>1 DEF Ring!Pushed
  <2>2. s = <<>> => Append(s, e) = <<e>>
    OBVIOUS
  <2>3. QED
    BY <1>0, <1>1, <2>1, <2>2, SeqAppend
<1>2. CASE Len(s) = HwDepth
  <2> DEFINE t == [s EXCEPT ![HwDepth] = e]
  <2>1. Ring!Pushed(s, e) = t
    BY <1>2 DEF Ring!Pushed
  <2>2. HwDepth \in 1 .. Len(s) /\ s # <<>>
    BY <1>0, <1>2, EmptySeq
  <2>3. /\ t \in Seq(AllFrames) /\ Len(t) = Len(s) /\ DOMAIN t = DOMAIN s
        /\ \A i \in DOMAIN s : t[i] = IF i = Len(s) THEN e ELSE s[i]
    BY <1>0, <1>2, <2>2, ExceptSeq, LenProperties
  <2> HIDE DEF t
  <2>4. Elems(t) \subseteq Elems(s) \cup {e}
    BY <2>3 DEF Elems
  <2>5. ASSUME NEW f, NEW g, Before(t, f, g)
        PROVE  Before(s, f, g) \/ (f \in Elems(s) /\ g = e)
    <3>1. PICK i \in DOMAIN s, j \in DOMAIN s : i < j /\ t[i] = f /\ t[j] = g
      BY <2>3, <2>5 DEF Before
    <3>2. i # Len(s) /\ s[i] = f
      BY <1>0, <2>3, <3>1
    <3>3. CASE j = Len(s)
      BY <2>3, <3>1, <3>2, <3>3 DEF Elems
    <3>4. CASE j # Len(s)
      BY <2>3, <3>1, <3>2, <3>4 DEF Before
    <3>5. QED
      BY <3>3, <3>4
  <2>6. QED
    BY <1>0, <1>2, <2>1, <2>2, <2>3, <2>4, <2>5
<1>3. Len(s) < HwDepth \/ Len(s) = HwDepth
  <2>1. HwDepth \in Int /\ Len(s) \in Int
    BY <1>0
  <2>2. \A m, n \in Int : m <= n => m < n \/ m = n
    OBVIOUS
  <2>3. QED
    BY <2>1, <2>2
<1>4. QED
  BY <1>1, <1>2, <1>3

-----------------------------------------------------------------------------
(* What the steps do to the line.  Nothing overtakes anything.             *)

RestStep(E) == /\ InRest' \subseteq InRest \cup E
               /\ \A f, g : RestBefore(f, g)' => RestBefore(f, g) \/ (f \in InRest /\ g \in E)

QueuesType == /\ inbox \in Seq(AllFrames) /\ Len(inbox) <= HwDepth
              /\ queue \in Seq(AllFrames) /\ Len(queue) <= Capacity

(* A frame from the bus joins the line behind everything in the FBL's two  *)
(* queues; an FBL that hangs never hears it.                               *)
LEMMA ArriveEffect ==
  ASSUME QueuesType, NEW e \in AllFrames, ToFbl(e)
  PROVE  /\ QueuesType' /\ RestStep({e}) /\ queue' = queue
         /\ inbox = <<>> => inbox' \in {<<>>, <<e>>}
<1>1. CASE fbl # "hung"
  <2>1. inbox' = Ring!Pushed(inbox, e) /\ queue' = queue
    BY <1>1 DEF ToFbl, Ring!Arrive
  <2>2. QueuesType'
    BY <2>1, SeqPushed DEF QueuesType
  <2>3. RestStep({e})
    BY <2>1, SeqPushed DEF QueuesType, RestStep, InRest, RestBefore
  <2>4. QED
    BY <2>1, <2>2, <2>3, SeqPushed DEF QueuesType
<1>2. CASE fbl = "hung"
  <2>1. inbox' = inbox /\ queue' = queue
    BY <1>2 DEF ToFbl, ringVars
  <2>2. QED
    BY <2>1 DEF QueuesType, RestStep, InRest, RestBefore
<1>3. QED
  BY <1>1, <1>2

(* The interrupt moves the oldest frame of the FIFO to the end of the ring, *)
(* or drops it.                                                            *)
LEMMA MoveEffect ==
  ASSUME QueuesType, Ring!Move
  PROVE  QueuesType' /\ RestStep({})
<1>1. inbox # <<>> /\ inbox' = Tail(inbox)
  BY DEF Ring!Move
<1>2. /\ Tail(inbox) \in Seq(AllFrames) /\ Len(Tail(inbox)) = Len(inbox) - 1 /\ Len(inbox) \in Nat
      /\ Head(inbox) \in Elems(inbox) /\ Head(inbox) \in AllFrames
      /\ Elems(Tail(inbox)) \subseteq Elems(inbox)
      /\ \A f, g : Before(Tail(inbox), f, g) => Before(inbox, f, g)
      /\ \A g \in Elems(Tail(inbox)) : Before(inbox, Head(inbox), g)
  BY <1>1, SeqTail, LenProperties, HeadTailProperties DEF QueuesType
<1>3. HwDepth \in Nat /\ Capacity \in Nat /\ Len(queue) \in Nat
  BY PathAssumption, LenProperties DEF QueuesType
<1>4. CASE Len(queue) < Capacity
  <2>1. queue' = Append(queue, Head(inbox))
    BY <1>4 DEF Ring!Move
  <2>2. /\ queue' \in Seq(AllFrames) /\ Len(queue') = Len(queue) + 1
        /\ Elems(queue') = Elems(queue) \cup {Head(inbox)}
        /\ \A f, g : Before(queue', f, g) => Before(queue, f, g) \/ (f \in Elems(queue) /\ g = Head(inbox))
    BY <1>2, <2>1, SeqAppend DEF QueuesType
  <2>3. QueuesType'
    BY <1>1, <1>2, <1>3, <1>4, <2>2 DEF QueuesType
  <2>4. InRest' \subseteq InRest
    BY <1>1, <1>2, <2>2 DEF InRest
  <2>5. ASSUME NEW f, NEW g, RestBefore(f, g)' PROVE RestBefore(f, g)
    BY <1>1, <1>2, <2>2, <2>5 DEF RestBefore
  <2>6. QED
    BY <2>3, <2>4, <2>5 DEF RestStep
<1>5. CASE ~(Len(queue) < Capacity)
  <2>1. queue' = queue
    BY <1>5 DEF Ring!Move
  <2>2. QueuesType'
    BY <1>1, <1>2, <1>3, <2>1 DEF QueuesType
  <2>3. QED
    BY <1>1, <1>2, <2>1, <2>2 DEF RestStep, InRest, RestBefore
<1>6. QED
  BY <1>4, <1>5

(* The frame the FBL takes is the oldest one; the others keep their order. *)
LEMMA TakeEffect ==
  ASSUME QueuesType, NEW e, Ring!Take(e)
  PROVE  /\ QueuesType' /\ RestStep({}) /\ e \in InRest /\ e \in AllFrames
         /\ InRest = {e} \cup InRest'
         /\ \A g \in InRest' : RestBefore(e, g)
         /\ inbox' = inbox /\ queue' = Tail(queue)
<1>1. queue # <<>> /\ e = Head(queue) /\ queue' = Tail(queue) /\ inbox' = inbox
  BY DEF Ring!Take
<1>2. /\ Tail(queue) \in Seq(AllFrames) /\ Len(Tail(queue)) = Len(queue) - 1 /\ Len(queue) \in Nat
      /\ e \in Elems(queue) /\ e \in AllFrames
      /\ Elems(Tail(queue)) \subseteq Elems(queue)
      /\ Elems(queue) = {e} \cup Elems(Tail(queue))
      /\ \A f, g : Before(Tail(queue), f, g) => Before(queue, f, g)
      /\ \A g \in Elems(Tail(queue)) : Before(queue, e, g)
  BY <1>1, SeqTail, LenProperties, HeadTailProperties DEF QueuesType
<1>3. Capacity \in Nat
  BY PathAssumption
<1>4. QueuesType'
  BY <1>1, <1>2, <1>3 DEF QueuesType
<1>5. RestStep({})
  BY <1>1, <1>2 DEF RestStep, InRest, RestBefore
<1>6. InRest = {e} \cup InRest'
  BY <1>1, <1>2 DEF InRest
<1>7. \A g \in InRest' : RestBefore(e, g)
  BY <1>1, <1>2 DEF InRest, RestBefore
<1>8. QED
  BY <1>1, <1>2, <1>4, <1>5, <1>6, <1>7

(* A lost frame was the last one in the FIFO.                              *)
LEMMA LoseEffect ==
  ASSUME QueuesType, inbox # <<>>, inbox' = SubSeq(inbox, 1, Len(inbox) - 1), queue' = queue
  PROVE  QueuesType' /\ RestStep({})
<1>1. /\ inbox' \in Seq(AllFrames) /\ Len(inbox') = Len(inbox) - 1 /\ Len(inbox) \in Nat
      /\ Elems(inbox') \subseteq Elems(inbox)
      /\ \A f, g : Before(inbox', f, g) => Before(inbox, f, g)
  BY SeqFront, LenProperties DEF QueuesType
<1>2. HwDepth \in Nat
  BY PathAssumption
<1>3. QED
  BY <1>1, <1>2 DEF QueuesType, RestStep, InRest, RestBefore

(* A reset, or a wait that ran out, leaves nothing in the two queues.      *)
LEMMA EmptyEffect ==
  ASSUME inbox' = <<>>, queue' = <<>>
  PROVE  QueuesType' /\ RestStep({}) /\ InRest' = {}
<1>1. /\ <<>> \in Seq(AllFrames) /\ Len(<<>>) = 0 /\ Elems(<<>>) = {}
      /\ \A f, g : ~Before(<<>>, f, g)
  BY EmptySeq, SeqEmpty
<1>2. QED
  BY <1>1, PathAssumption DEF QueuesType, RestStep, InRest, RestBefore

(* Queues that stay as they are keep their frames and their order.         *)
LEMMA SameEffect ==
  ASSUME UNCHANGED <<inbox, queue>>
  PROVE  RestStep({}) /\ InRest' = InRest /\ (QueuesType => QueuesType')
  BY DEF QueuesType, RestStep, InRest, RestBefore

-----------------------------------------------------------------------------
(* Frames. *)

(* A part of a command is a frame with its command and its number; only    *)
(* the first part is a first frame.                                        *)
LEMMA PartFacts ==
  ASSUME NEW c \in Commands, NEW i \in 1 .. Parts
  PROVE  /\ Part(c, i) \in AllFrames /\ IsPart(Part(c, i)) /\ ~IsForeign(Part(c, i))
         /\ Part(c, i).of = c /\ Part(c, i).part = i
         /\ i = 1 => Part(c, i).kind = "FF"
         /\ i # 1 => Part(c, i).kind = "CF"
<1>1. i # 0 /\ Part(c, i) = [kind |-> IF i = 1 THEN "FF" ELSE "CF", of |-> c, part |-> i]
  BY PathAssumption DEF Part
<1>2. Part(c, i) \in AllFrames
  BY DEF AllFrames
<1>3. Part(c, i).of = c /\ Part(c, i).part = i /\ Part(c, i).kind = IF i = 1 THEN "FF" ELSE "CF"
  BY <1>1
<1>4. QED
  BY <1>1, <1>2, <1>3 DEF IsPart, IsForeign

(* Flow control and replies are frames of their own kinds, none of them    *)
(* foreign, and three different replies.                                   *)
LEMMA ReplyFacts ==
  /\ Flow \in AllFrames /\ Flow.kind = "FC" /\ Flow.part = 1 /\ ~IsForeign(Flow)
  /\ \A w \in {0, 1, Nack} : /\ Reply(w) \in AllFrames /\ Reply(w).kind = "SF" /\ Reply(w).of = w
                             /\ ~IsForeign(Reply(w))
  /\ Reply(0) # Reply(1) /\ Reply(0) # Reply(Nack) /\ Reply(1) # Reply(Nack) /\ Nack = 2
<1>1. /\ Flow \in AllFrames /\ Flow.kind = "FC" /\ Flow.part = 1
      /\ \A w \in {0, 1, Nack} : Reply(w) \in AllFrames /\ Reply(w).kind = "SF" /\ Reply(w).of = w
                                 /\ Reply(w).part = 1
  BY DEF AllFrames, Flow, Reply
<1>2. QED
  BY <1>1 DEF IsForeign, Nack

(* A frame is a part of a command with that part's number, or foreign with *)
(* number 0, or neither; a single frame carries 0, 1 or a NACK.            *)
LEMMA FrameFacts ==
  ASSUME NEW f \in AllFrames
  PROVE  /\ f.part \in Nat
         /\ IsForeign(f) => f \in Foreign /\ (f.of = 1 => 1 \in ForeignReplies)
         /\ IsPart(f) => f.of \in Commands /\ f.part \in 1 .. Parts /\ f = Part(f.of, f.part)
         /\ f.kind = "SF" => f.of \in {0, 1, Nack}
<1>1. Parts \in Nat /\ 1 .. Parts \subseteq Nat
  BY PathAssumption
<1> DEFINE G == /\ f.part \in Nat
                /\ IsForeign(f) => f \in Foreign /\ (f.of = 1 => 1 \in ForeignReplies)
                /\ IsPart(f) => f.of \in Commands /\ f.part \in 1 .. Parts /\ f = Part(f.of, f.part)
                /\ f.kind = "SF" => f.of \in {0, 1, Nack}
<1>2. CASE f \in Foreign
  <2>1. f.part = 0 /\ (f.of \in ForeignReplies \/ f.of = Nack)
    BY <1>2 DEF Foreign
  <2>2. f.of \in {0, 1, Nack}
    <3>1. \A w \in ForeignReplies : w \in {0, 1, 2}
      BY PathAssumption
    <3>2. QED
      BY <2>1, <3>1 DEF Nack
  <2>3. QED
    BY <1>2, <2>1, <2>2 DEF IsForeign, IsPart, Nack
<1>3. ASSUME NEW c \in Commands, NEW i \in 1 .. Parts, f = Part(c, i) PROVE G
  <2>1. f.of = c /\ f.part = i /\ ~IsForeign(f) /\ f.kind \in {"FF", "CF"}
    BY <1>3, PartFacts
  <2>2. QED
    BY <1>1, <1>3, <2>1
<1>4. CASE f = Flow \/ \E w \in {0, 1, Nack} : f = Reply(w)
  <2>1. f.part = 1 /\ f.kind \in {"FC", "SF"} /\ (f.kind = "SF" => f.of \in {0, 1, Nack})
    BY <1>4 DEF Flow, Reply
  <2>2. QED
    BY <2>1 DEF IsForeign, IsPart
<1>5. QED
  BY <1>2, <1>3, <1>4 DEF AllFrames

-----------------------------------------------------------------------------
(* Types, and who waits for whom. *)

HostType == /\ next \in Erase .. Verify + 1 /\ tries \in 0 .. Tries
            /\ host \in {"stopped", "send", "wait"}
            /\ serialCmd \in Commands \cup {None} /\ serialReply \in {<<>>, << 0 >>, << 1 >>, <<Nack>>}

FifoType == fifo \in Seq(AllFrames) /\ Len(fifo) <= HwDepth

BridgeType == /\ bridge \in {"idle", "flow", "stream", "reply"}
              /\ cmd \in Commands \cup {None} /\ sent \in 0 .. Parts

FblType == fbl \in {"loop", "receive", "hung"} /\ parts \in Seq(AllFrames) /\ Len(parts) <= Parts

BoardType == written \subseteq 1 .. Blocks /\ installed \in BOOLEAN /\ foreign \in 0 .. MaxForeign

(* TypeOK by owner of the variables, in this state and in the next.        *)
LEMMA TypeParts ==
  /\ TypeOK <=> HostType /\ BridgeType /\ FifoType /\ QueuesType /\ FblType /\ BoardType
  /\ TypeOK' <=> HostType' /\ BridgeType' /\ FifoType' /\ QueuesType' /\ FblType' /\ BoardType'
  BY DEF TypeOK, HostType, BridgeType, FifoType, QueuesType, FblType, BoardType

(* What the constants and the command numbers are.                         *)
LEMMA ConstantFacts ==
  /\ Blocks \in Nat /\ Blocks >= 1 /\ Parts \in Nat /\ Parts >= 2 /\ Tries \in Nat /\ Tries >= 1
  /\ HwDepth \in Nat /\ HwDepth >= 1 /\ Capacity \in Nat /\ Capacity >= 1 /\ MaxForeign \in Nat
  /\ Erase = 1 /\ None = 0 /\ Verify = Blocks + 2 /\ Commands = 1 .. Blocks + 2
  /\ \A b : Write(b) = b + 1
  BY PathAssumption DEF Erase, None, Verify, Commands, Write

(* The host keeps its types when its variables do not change.              *)
LEMMA HostSame ==
  ASSUME UNCHANGED <<hostVars, serialCmd, serialReply>>
  PROVE  HostType => HostType'
  BY DEF HostType, hostVars

(* A frame that arrives at the bridge stays within its FIFO.               *)
LEMMA FifoPushed ==
  ASSUME FifoType, NEW e \in AllFrames, fifo' = Ring!Pushed(fifo, e)
  PROVE  FifoType'
  BY SeqPushed DEF FifoType

(* A frame that the bridge takes leaves a FIFO of frames.                  *)
LEMMA FifoTail ==
  ASSUME FifoType, fifo # <<>>, fifo' = Tail(fifo)
  PROVE  FifoType' /\ Head(fifo) \in AllFrames
<1>1. /\ Tail(fifo) \in Seq(AllFrames) /\ Len(Tail(fifo)) = Len(fifo) - 1 /\ Len(fifo) \in Nat
      /\ Head(fifo) \in AllFrames
  BY SeqTail, LenProperties, HeadTailProperties DEF FifoType
<1>2. QED
  BY <1>1, ConstantFacts DEF FifoType

(* A step of the host. *)
LEMMA HostControl ==
  ASSUME TypeOK, Control, HostStart \/ HostStep
  PROVE  TypeOK' /\ Control'
<1>1. HostType /\ BridgeType /\ FifoType /\ QueuesType /\ FblType /\ BoardType
  BY TypeParts
<1>2. UNCHANGED <<bridgeVars, ringVars, fblVars, written, foreign>> /\ installed' \in BOOLEAN
  BY <1>1 DEF HostStart, HostStep, HostSend, HostReply, HostTimeout, boardVars, BoardType
<1>3. BridgeType' /\ FifoType' /\ QueuesType' /\ FblType' /\ BoardType'
  BY <1>1, <1>2 DEF bridgeVars, ringVars, fblVars, BridgeType, FifoType, QueuesType, FblType, BoardType
<1>4. bridge' = bridge /\ cmd' = cmd /\ sent' = sent
  BY <1>2 DEF bridgeVars
<1>5. CASE HostStart
  <2>1. HostType'
    BY <1>1, <1>5, ConstantFacts DEF HostStart, HostType
  <2>2. Control'
    BY <1>4, <1>5, ConstantFacts DEF HostStart, Control
  <2>3. QED
    BY <1>3, <2>1, <2>2, TypeParts
<1>6. CASE HostSend
  <2>1. HostType'
    BY <1>1, <1>6, ConstantFacts DEF HostSend, HostType, Control
  <2>2. Control'
    BY <1>4, <1>6, ConstantFacts DEF HostSend, Control
  <2>3. QED
    BY <1>3, <2>1, <2>2, TypeParts
<1>7. CASE HostReply
  <2>1. HostType' /\ Control'
    <3>1. CASE serialReply[1] = 1
      <4>1. /\ host = "wait" /\ serialReply # <<>> /\ serialReply' = <<>> /\ serialCmd' = serialCmd
            /\ next' = next + 1 /\ tries' = 0
            /\ host' = IF next = Verify THEN "stopped" ELSE "send"
        BY <1>7, <3>1 DEF HostReply
      <4>2. HostType'
        BY <1>1, <4>1, ConstantFacts DEF HostType, Control
      <4>3. Control'
        BY <1>1, <1>4, <4>1, ConstantFacts DEF Control, HostType
      <4>4. QED
        BY <4>2, <4>3
    <3>2. CASE serialReply[1] # 1
      <4>1. /\ host = "wait" /\ serialReply # <<>> /\ serialReply' = <<>> /\ serialCmd' = serialCmd
            /\ next' = next /\ tries' = tries
            /\ host' = "stopped" \/ (host' = "send" /\ tries < Tries)
        BY <1>7, <3>2 DEF HostReply, SendAgain
      <4>2. HostType'
        BY <1>1, <4>1 DEF HostType
      <4>3. Control'
        BY <1>4, <4>1 DEF Control
      <4>4. QED
        BY <4>2, <4>3
    <3>3. QED
      BY <3>1, <3>2
  <2>2. QED
    BY <1>3, <2>1, TypeParts
<1>8. CASE HostTimeout
  <2>1. /\ host = "wait" /\ bridge = "idle" /\ serialCmd = None /\ serialReply = <<>>
        /\ serialReply' = serialReply /\ serialCmd' = serialCmd
        /\ next' = next /\ tries' = tries
        /\ host' = "stopped" \/ (host' = "send" /\ tries < Tries)
    BY <1>8 DEF HostTimeout, SendAgain
  <2>2. HostType' /\ Control'
    BY <1>1, <1>4, <2>1 DEF HostType, Control
  <2>3. QED
    BY <1>3, <2>2, TypeParts
<1>9. QED
  BY <1>5, <1>6, <1>7, <1>8 DEF HostStep


(* A step of the bridge. *)
LEMMA BridgeControl ==
  ASSUME TypeOK, Control, BridgeStep
  PROVE  TypeOK' /\ Control'
<1>1. HostType /\ BridgeType /\ FifoType /\ QueuesType /\ FblType /\ BoardType
  BY TypeParts
<1>2. UNCHANGED <<hostVars, fblVars, boardVars, foreign>>
  BY DEF BridgeStep, BridgeTake, BridgeFlow, BridgeOverflow, BridgeStream, BridgeReply, BridgeTimeout
<1>3. /\ FblType' /\ BoardType' /\ next' = next /\ tries' = tries /\ host' = host
  BY <1>1, <1>2 DEF hostVars, fblVars, boardVars, FblType, BoardType
<1>4. <<>> \in Seq(AllFrames) /\ Len(<<>>) = 0
  BY EmptySeq
<1>5. CASE BridgeTake
  <2>1. /\ bridge = "idle" /\ serialCmd # None /\ serialCmd' = None /\ serialReply' = serialReply
        /\ cmd' = serialCmd /\ fifo' = <<>> /\ bridge' = "flow"
        /\ sent' = 1 /\ ToFbl(Part(serialCmd, 1))
    BY <1>5 DEF BridgeTake, SendPart
  <2>2. serialCmd \in Commands /\ 1 \in 1 .. Parts
    BY <1>1, <2>1, ConstantFacts DEF HostType
  <2>3. QueuesType'
    BY <1>1, <2>1, <2>2, PartFacts, ArriveEffect
  <2>4. HostType' /\ BridgeType' /\ FifoType'
    BY <1>1, <1>3, <1>4, <2>1, <2>2, ConstantFacts DEF HostType, BridgeType, FifoType
  <2>5. Control'
    BY <1>1, <1>3, <2>1, ConstantFacts DEF Control, HostType
  <2>6. QED
    BY <1>3, <2>3, <2>4, <2>5, TypeParts
<1>6. ASSUME bridge \in {"flow", "stream"}, SendPart(cmd, sent + 1), cmd' = cmd,
             UNCHANGED <<serialCmd, serialReply>>, FifoType',
             bridge' \in {"flow", "stream", "reply"}, bridge' = "reply" <=> sent + 1 = Parts
      PROVE  TypeOK' /\ Control'
  <2>1. sent' = sent + 1 /\ ToFbl(Part(cmd, sent + 1))
    BY <1>6 DEF SendPart
  <2>2. /\ bridge # "idle" /\ bridge # "reply" /\ cmd = next /\ sent >= 1 /\ sent # Parts
        /\ next \in Commands /\ host = "wait" /\ serialCmd = None /\ serialReply = <<>>
    BY <1>1, <1>6, ConstantFacts DEF Control, HostType
  <2>3. sent \in Nat /\ sent < Parts /\ sent + 1 \in 1 .. Parts /\ sent + 1 >= 2
    BY <1>1, <2>2, ConstantFacts DEF BridgeType
  <2>4. QueuesType'
    BY <1>1, <2>1, <2>2, <2>3, PartFacts, ArriveEffect
  <2>5. HostType' /\ BridgeType'
    BY <1>1, <1>3, <1>6, <2>1, <2>2, <2>3, ConstantFacts DEF HostType, BridgeType
  <2>6. Control'
    BY <1>3, <1>6, <2>1, <2>2, <2>3 DEF Control
  <2>7. QED
    BY <1>3, <1>6, <2>4, <2>5, <2>6, TypeParts
<1>7. CASE BridgeFlow
  <2>1. /\ bridge = "flow" /\ fifo # <<>> /\ fifo' = Tail(fifo) /\ cmd' = cmd
        /\ UNCHANGED <<serialCmd, serialReply>>
    BY <1>7 DEF BridgeFlow
  <2>2. FifoType'
    BY <1>1, <2>1, FifoTail
  <2>3. CASE Head(fifo).kind # "FC"
    <3>1. UNCHANGED <<bridge, sent, ringVars>>
      BY <1>7, <2>3 DEF BridgeFlow
    <3>2. HostType' /\ BridgeType' /\ QueuesType' /\ Control'
      BY <1>1, <1>3, <2>1, <3>1 DEF HostType, BridgeType, QueuesType, Control, ringVars
    <3>3. QED
      BY <1>3, <2>2, <3>2, TypeParts
  <2>4. CASE Head(fifo).kind = "FC"
    <3>1. SendPart(cmd, sent + 1)
      BY <1>7, <2>4 DEF BridgeFlow
    <3>2. bridge' \in {"flow", "stream", "reply"} /\ (bridge' = "reply" <=> sent + 1 = Parts)
      BY <1>7, <2>4 DEF BridgeFlow
    <3>3. QED
      BY <1>6, <2>1, <2>2, <3>1, <3>2
  <2>5. QED
    BY <2>3, <2>4
<1>8. CASE BridgeStream
  <2>1. /\ bridge = "stream" /\ SendPart(cmd, sent + 1) /\ cmd' = cmd
        /\ UNCHANGED <<serialCmd, serialReply>> /\ fifo' = fifo
        /\ bridge' = IF sent + 1 = Parts THEN "reply" ELSE "stream"
    BY <1>8 DEF BridgeStream
  <2>2. FifoType'
    BY <1>1, <2>1 DEF FifoType
  <2>3. QED
    BY <1>6, <2>1, <2>2
<1>9. CASE BridgeReply
  <2>1. /\ bridge = "reply" /\ fifo # <<>> /\ fifo' = Tail(fifo) /\ bridge' = "idle" /\ cmd' = None
        /\ sent' = 0 /\ serialCmd' = serialCmd /\ UNCHANGED ringVars
        /\ serialReply' = IF Head(fifo).kind = "SF" THEN <<Head(fifo).of>> ELSE <<>>
    BY <1>9 DEF BridgeReply
  <2>2. FifoType' /\ Head(fifo) \in AllFrames
    BY <1>1, <2>1, FifoTail
  <2>3. serialReply' \in {<<>>, << 0 >>, << 1 >>, <<Nack>>}
    BY <2>1, <2>2, FrameFacts
  <2>4. HostType' /\ BridgeType' /\ QueuesType'
    BY <1>1, <1>3, <2>1, <2>3, ConstantFacts DEF HostType, BridgeType, QueuesType, ringVars
  <2>5. Control'
    BY <1>3, <2>1 DEF Control
  <2>6. QED
    BY <1>3, <2>2, <2>4, <2>5, TypeParts
<1>10. CASE BridgeTimeout
  <2>1. /\ bridge # "idle" /\ bridge' = "idle" /\ cmd' = None /\ sent' = 0
        /\ UNCHANGED <<serialCmd, serialReply, fifo, ringVars>>
    BY <1>10 DEF BridgeTimeout
  <2>2. HostType' /\ BridgeType' /\ QueuesType' /\ FifoType'
    BY <1>1, <1>3, <2>1, ConstantFacts DEF HostType, BridgeType, QueuesType, FifoType, ringVars
  <2>3. Control'
    BY <1>3, <2>1 DEF Control
  <2>4. QED
    BY <1>3, <2>2, <2>3, TypeParts
<1>11. CASE BridgeOverflow
  <2>1. /\ bridge # "idle" /\ bridge' = "idle" /\ cmd' = None /\ sent' = 0
        /\ fifo # <<>> /\ fifo' = Tail(fifo)
        /\ UNCHANGED <<serialCmd, serialReply, ringVars>>
    BY <1>11 DEF BridgeOverflow
  <2>2. HostType' /\ BridgeType' /\ QueuesType' /\ FifoType'
    BY <1>1, <1>3, <2>1, FifoTail, ConstantFacts DEF HostType, BridgeType, QueuesType, ringVars
  <2>3. Control'
    BY <1>3, <2>1 DEF Control
  <2>4. QED
    BY <1>3, <2>2, <2>3, TypeParts
<1>12. QED
  BY <1>5, <1>7, <1>8, <1>9, <1>10, <1>11 DEF BridgeStep


(* A step of the FBL, or trouble. *)
LEMMA FblControl ==
  ASSUME TypeOK, Control, FblStep \/ Trouble
  PROVE  TypeOK' /\ Control'
<1>1. HostType /\ BridgeType /\ FifoType /\ QueuesType /\ FblType /\ BoardType
  BY TypeParts
<1>2. UNCHANGED <<hostVars, bridge, cmd, sent>>
  BY DEF FblStep, Trouble, Interrupt, FblFirst, FblFault, FblNext, FblTimeout, BL_ProcessFrame,
         LoseFrame, LoseSerial, OtherNode, FblReset, bridgeVars
<1>3. /\ BridgeType' /\ next' = next /\ tries' = tries /\ host' = host
      /\ bridge' = bridge /\ cmd' = cmd /\ sent' = sent
  BY <1>1, <1>2 DEF hostVars, BridgeType
<1>4. ASSUME \/ UNCHANGED <<serialCmd, serialReply>>
             \/ serialCmd' = None /\ serialReply' = <<>>
      PROVE  HostType' /\ Control'
  BY <1>1, <1>3, <1>4 DEF HostType, Control
<1>5. <<>> \in Seq(AllFrames) /\ Len(<<>>) = 0
  BY EmptySeq
<1>6. ASSUME fbl' \in {"loop", "receive", "hung"}, parts' = parts \/ parts' = <<>>, UNCHANGED <<boardVars, foreign>>
      PROVE  FblType' /\ BoardType'
  <2>1. BoardType'
    BY <1>1, <1>6 DEF BoardType, boardVars
  <2>2. parts' \in Seq(AllFrames) /\ Len(parts') <= Parts
    <3>1. CASE parts' = parts
      BY <1>1, <3>1 DEF FblType
    <3>2. CASE parts' = <<>>
      BY <1>5, <3>2, ConstantFacts
    <3>3. QED
      BY <1>6, <3>1, <3>2
  <2>3. QED
    BY <1>6, <2>1, <2>2 DEF FblType
<1>7. CASE Interrupt
  <2>1. /\ Ring!Move /\ UNCHANGED <<serialCmd, serialReply>> /\ fifo' = fifo
        /\ fbl' = fbl /\ parts' = parts /\ UNCHANGED <<boardVars, foreign>>
    BY <1>7 DEF Interrupt, bridgeVars, fblVars
  <2>2. QueuesType' /\ FifoType'
    BY <1>1, <2>1, MoveEffect DEF FifoType
  <2>3. FblType' /\ BoardType'
    BY <1>1, <1>6, <2>1 DEF FblType
  <2>4. QED
    BY <1>3, <1>4, <2>1, <2>2, <2>3, TypeParts
<1>8. CASE FblFirst
  <2>1. PICK f \in AllFrames :
          /\ fbl = "loop" /\ Ring!Take(f)
          /\ CASE f.kind = "FF" -> fbl' = "receive" /\ parts' = <<f>> /\ Transmit(Flow)
               [] f.kind = "SF" -> UNCHANGED fblVars /\ Transmit(Reply(Nack))
               [] OTHER -> UNCHANGED <<fblVars, fifo>>
          /\ UNCHANGED <<serialCmd, serialReply>> /\ UNCHANGED <<boardVars, foreign>>
    BY <1>8 DEF FblFirst
  <2>2. QueuesType'
    BY <1>1, <2>1, TakeEffect
  <2>3. FifoType'
    <3>1. fifo' = fifo \/ fifo' = Ring!Pushed(fifo, Flow) \/ fifo' = Ring!Pushed(fifo, Reply(Nack))
      BY <2>1 DEF Transmit
    <3>2. QED
      BY <1>1, <3>1, FifoPushed, ReplyFacts DEF FifoType
  <2>4. FblType' /\ BoardType'
    <3>1. CASE f.kind = "FF"
      <4>1. fbl' = "receive" /\ parts' = <<f>>
        BY <2>1, <3>1
      <4>2. <<f>> \in Seq(AllFrames) /\ Len(<<f>>) = 1
        OBVIOUS
      <4>3. QED
        BY <1>1, <2>1, <4>1, <4>2, ConstantFacts DEF FblType, BoardType, boardVars
    <3>2. CASE f.kind # "FF"
      BY <1>1, <1>6, <2>1, <3>2 DEF FblType, fblVars
    <3>3. QED
      BY <3>1, <3>2
  <2>5. QED
    BY <1>3, <1>4, <2>1, <2>2, <2>3, <2>4, TypeParts
<1>9. CASE FblNext
  <2>1. PICK f \in AllFrames :
          /\ fbl = "receive" /\ Len(parts) < Parts /\ Ring!Take(f)
          /\ IF f.kind = "CF"
               THEN /\ parts' = Append(parts, f) /\ UNCHANGED fbl
                    /\ IF Len(parts) + 1 < Parts THEN Transmit(Flow) ELSE UNCHANGED fifo
               ELSE fbl' = "loop" /\ parts' = <<>> /\ UNCHANGED fifo
          /\ UNCHANGED <<serialCmd, serialReply>> /\ UNCHANGED <<boardVars, foreign>>
    BY <1>9 DEF FblNext
  <2>2. QueuesType'
    BY <1>1, <2>1, TakeEffect
  <2>3. FifoType'
    <3>1. fifo' = fifo \/ fifo' = Ring!Pushed(fifo, Flow)
      BY <2>1 DEF Transmit
    <3>2. QED
      BY <1>1, <3>1, FifoPushed, ReplyFacts DEF FifoType
  <2>4. FblType' /\ BoardType'
    <3>1. CASE f.kind = "CF"
      <4>1. fbl' = fbl /\ parts' = Append(parts, f)
        BY <2>1, <3>1
      <4>2. parts' \in Seq(AllFrames) /\ Len(parts') = Len(parts) + 1 /\ Len(parts) \in Nat
        BY <1>1, <4>1, SeqAppend, LenProperties DEF FblType
      <4>3. QED
        BY <1>1, <2>1, <4>1, <4>2, ConstantFacts DEF FblType, BoardType, boardVars
    <3>2. CASE f.kind # "CF"
      BY <1>6, <2>1, <3>2
    <3>3. QED
      BY <3>1, <3>2
  <2>5. QED
    BY <1>3, <1>4, <2>1, <2>2, <2>3, <2>4, TypeParts
<1>10. CASE FblTimeout \/ FblFault \/ FblReset
  <2>1. /\ UNCHANGED <<serialCmd, serialReply, fifo>> /\ fbl' \in {"loop", "hung"}
        /\ parts' = parts \/ parts' = <<>>
        /\ UNCHANGED <<boardVars, foreign>> /\ inbox' = <<>> /\ queue' = <<>>
    BY <1>10 DEF FblTimeout, FblFault, FblReset, bridgeVars, ringVars
  <2>2. QueuesType' /\ FifoType' /\ FblType' /\ BoardType'
    BY <1>1, <1>6, <2>1, EmptyEffect DEF FifoType
  <2>3. QED
    BY <1>3, <1>4, <2>1, <2>2, TypeParts
<1>11. CASE BL_ProcessFrame
  <2>1. /\ fbl' = "loop" /\ parts' = <<>> /\ foreign' = foreign /\ UNCHANGED ringVars
        /\ UNCHANGED <<serialCmd, serialReply>>
    BY <1>11 DEF BL_ProcessFrame
  <2>2. FifoType' /\ BoardType'
    <3>1. CASE \E c \in Commands : IsCommand(c) /\ Execute(c) /\ Transmit(Reply(Result(c)))
      <4>1. PICK c \in Commands : Execute(c) /\ fifo' = Ring!Pushed(fifo, Reply(Result(c)))
        BY <3>1 DEF Transmit
      <4>2. Result(c) \in {0, 1}
        BY DEF Result
      <4>3. FifoType'
        BY <1>1, <4>1, <4>2, FifoPushed, ReplyFacts
      <4>4. written' \subseteq 1 .. Blocks /\ installed' \in BOOLEAN
        BY <1>1, <4>1 DEF Execute, BoardType
      <4>5. QED
        BY <1>1, <2>1, <4>3, <4>4 DEF BoardType
    <3>2. CASE UNCHANGED boardVars /\ Transmit(Reply(Nack))
      BY <1>1, <2>1, <3>2, FifoPushed, ReplyFacts DEF Transmit, BoardType, boardVars
    <3>3. QED
      BY <1>11, <3>1, <3>2 DEF BL_ProcessFrame
  <2>3. FblType' /\ QueuesType'
    BY <1>1, <1>5, <2>1, ConstantFacts DEF FblType, QueuesType, ringVars
  <2>4. QED
    BY <1>3, <1>4, <2>1, <2>2, <2>3, TypeParts
<1>12. CASE LoseFrame
  <2>1. /\ inbox # <<>> /\ inbox' = SubSeq(inbox, 1, Len(inbox) - 1) /\ queue' = queue
        /\ UNCHANGED <<serialCmd, serialReply, fifo>> /\ fbl' = fbl /\ parts' = parts
        /\ UNCHANGED <<boardVars, foreign>>
    BY <1>12 DEF LoseFrame, bridgeVars, fblVars
  <2>2. QueuesType' /\ FifoType'
    BY <1>1, <2>1, LoseEffect DEF FifoType
  <2>3. FblType' /\ BoardType'
    BY <1>1, <1>6, <2>1 DEF FblType
  <2>4. QED
    BY <1>3, <1>4, <2>1, <2>2, <2>3, TypeParts
<1>13. CASE LoseSerial
  <2>1. /\ serialCmd' = None /\ serialReply' = <<>> /\ fifo' = fifo /\ UNCHANGED ringVars
        /\ fbl' = fbl /\ parts' = parts /\ UNCHANGED <<boardVars, foreign>>
    BY <1>13 DEF LoseSerial, bridgeVars, fblVars
  <2>2. QueuesType' /\ FifoType'
    BY <1>1, <2>1 DEF FifoType, QueuesType, ringVars
  <2>3. FblType' /\ BoardType'
    BY <1>1, <1>6, <2>1 DEF FblType
  <2>4. QED
    BY <1>3, <1>4, <2>1, <2>2, <2>3, TypeParts
<1>14. CASE OtherNode
  <2>1. PICK f \in Foreign :
          /\ ToFbl(f) /\ fifo' = Ring!Pushed(fifo, f)
          /\ UNCHANGED <<serialCmd, serialReply>> /\ fbl' = fbl /\ parts' = parts
          /\ UNCHANGED boardVars /\ foreign < MaxForeign /\ foreign' = foreign + 1
    BY <1>14 DEF OtherNode, fblVars
  <2>2. f \in AllFrames
    BY DEF AllFrames
  <2>3. QueuesType' /\ FifoType'
    BY <1>1, <2>1, <2>2, ArriveEffect, FifoPushed
  <2>4. FblType' /\ BoardType'
    BY <1>1, <2>1, ConstantFacts DEF FblType, BoardType, boardVars
  <2>5. QED
    BY <1>3, <1>4, <2>1, <2>3, <2>4, TypeParts
<1>15. QED
  BY <1>7, <1>8, <1>9, <1>10, <1>11, <1>12, <1>13, <1>14 DEF FblStep, Trouble

(* Types and control hold at the start.                                    *)
LEMMA InitialTypes == Init => TypeOK /\ Control
<1>1. <<>> \in Seq(AllFrames) /\ Len(<<>>) = 0
  BY EmptySeq
<1>2. ASSUME Init PROVE HostType /\ BridgeType /\ BoardType /\ Control
  <2>1. HostType
    BY <1>2, ConstantFacts DEF Init, HostType
  <2>2. BridgeType
    BY <1>2, ConstantFacts DEF Init, BridgeType
  <2>3. BoardType
    <3>1. written \subseteq 1 .. Blocks /\ installed = FALSE /\ foreign = 0
      BY <1>2 DEF Init
    <3>2. foreign \in 0 .. MaxForeign
      BY <3>1, ConstantFacts
    <3>3. QED
      BY <3>1, <3>2 DEF BoardType
  <2>4. Control
    BY <1>2 DEF Init, Control
  <2>5. QED
    BY <2>1, <2>2, <2>3, <2>4
<1>3. ASSUME Init PROVE FifoType /\ QueuesType /\ FblType
  <2>1. /\ fifo = <<>> /\ inbox = <<>> /\ queue = <<>> /\ parts = <<>> /\ fbl = "loop"
    BY <1>3 DEF Init
  <2>2. QED
    BY <1>1, <2>1, ConstantFacts DEF FifoType, QueuesType, FblType
<1>4. QED
  BY <1>2, <1>3, TypeParts

(* Every variable stays in its set, whatever the constants: the exchange is *)
(* one at a time and the bridge never sends more parts than there are.      *)
THEOREM TypeCorrect == Spec => []TypeOK
<1>1. Init => TypeOK /\ Control
  BY InitialTypes
<1>2. TypeOK /\ Control /\ [Next]_vars => (TypeOK /\ Control)'
  <2> SUFFICES ASSUME TypeOK, Control, [Next]_vars PROVE TypeOK' /\ Control'
    OBVIOUS
  <2>1. CASE UNCHANGED vars
    BY <2>1 DEF vars, hostVars, bridgeVars, ringVars, fblVars, boardVars, TypeOK, Control
  <2>2. CASE Next
    BY <2>2, HostControl, BridgeControl, FblControl DEF Next
  <2>3. QED
    BY <2>1, <2>2
<1>3. QED
  BY <1>1, <1>2, PTL DEF Spec

-----------------------------------------------------------------------------
(* The line and the FIFO of the bridge, in a step. *)

LineStep(E) == /\ InLine' \subseteq InLine \cup E
               /\ \A f, g : LineBefore(f, g)' => LineBefore(f, g) \/ (f \in InLine /\ g \in E)

FifoStep(E) == /\ Elems(fifo)' \subseteq Elems(fifo) \cup E
               /\ \A f, g : Before(fifo, f, g)' => Before(fifo, f, g) \/ (f \in Elems(fifo) /\ g \in E)

(* What is before something is on the same way, and what the FBL has       *)
(* received comes before what waits for it.                                *)
LEMMA Inside ==
  ASSUME NEW f, NEW g
  PROVE  /\ Before(fifo, f, g) => f \in Elems(fifo) /\ g \in Elems(fifo)
         /\ RestBefore(f, g) => f \in InRest /\ g \in InRest
         /\ LineBefore(f, g) => f \in InLine /\ g \in InLine
         /\ RestBefore(f, g) => LineBefore(f, g)
         /\ f \in InRest => f \in InLine
         /\ f \in Elems(parts) => f \in InLine
         /\ f \in Elems(parts) /\ g \in InRest => LineBefore(f, g)
  BY DEF Before, Elems, RestBefore, LineBefore, InRest, InLine

(* Everything on either way is a frame.                                    *)
LEMMA AreFrames ==
  ASSUME FifoType, QueuesType, FblType
  PROVE  (\A f \in InLine : f \in AllFrames) /\ (\A f \in Elems(fifo) : f \in AllFrames)
<1>1. ASSUME NEW s \in Seq(AllFrames), NEW f \in Elems(s) PROVE f \in AllFrames
  BY <1>1, ElementOfSeq, LenProperties DEF Elems
<1>2. QED
  BY <1>1 DEF InLine, InRest, FifoType, QueuesType, FblType

(* Keeping or dropping the message being received, the line changes as the *)
(* two queues do.                                                          *)
LEMMA LineKept ==
  ASSUME NEW E, RestStep(E), parts' = parts \/ parts' = <<>>
  PROVE  LineStep(E)
<1>1. /\ Elems(parts)' \subseteq Elems(parts)
      /\ \A f, g : Before(parts, f, g)' => Before(parts, f, g)
  BY SeqEmpty DEF Elems, Before
<1>2. InLine' \subseteq InLine \cup E
  BY <1>1 DEF RestStep, InLine
<1>3. ASSUME NEW f, NEW g, LineBefore(f, g)' PROVE LineBefore(f, g) \/ (f \in InLine /\ g \in E)
  <2>1. CASE Before(parts, f, g)'
    BY <1>1, <2>1 DEF LineBefore
  <2>2. CASE RestBefore(f, g)'
    BY <2>2 DEF RestStep, LineBefore, InLine
  <2>3. CASE f \in Elems(parts)' /\ g \in InRest'
    BY <1>1, <2>3 DEF RestStep, LineBefore, InLine
  <2>4. QED
    BY <1>3, <2>1, <2>2, <2>3 DEF LineBefore
<1>4. QED
  BY <1>2, <1>3 DEF LineStep

(* The FBL takes a frame for the message it puts together. *)
LEMMA LineTaken ==
  ASSUME QueuesType, FblType, NEW e, Ring!Take(e), parts' = Append(parts, e)
  PROVE  LineStep({})
<1>1. /\ RestStep({}) /\ e \in InRest /\ e \in AllFrames
      /\ \A g \in InRest' : RestBefore(e, g)
  BY TakeEffect
<1>2. /\ Elems(parts)' = Elems(parts) \cup {e}
      /\ \A f, g : Before(parts, f, g)' => Before(parts, f, g) \/ (f \in Elems(parts) /\ g = e)
  BY <1>1, SeqAppend DEF FblType
<1>3. InLine' \subseteq InLine
  BY <1>1, <1>2 DEF RestStep, InLine
<1>4. ASSUME NEW f, NEW g, LineBefore(f, g)' PROVE LineBefore(f, g)
  <2>1. CASE Before(parts, f, g)'
    BY <1>1, <1>2, <2>1 DEF LineBefore
  <2>2. CASE RestBefore(f, g)'
    BY <1>1, <2>2 DEF RestStep, LineBefore
  <2>3. CASE f \in Elems(parts)' /\ g \in InRest'
    BY <1>1, <1>2, <2>3 DEF RestStep, LineBefore
  <2>4. QED
    BY <1>4, <2>1, <2>2, <2>3 DEF LineBefore
<1>5. QED
  BY <1>3, <1>4 DEF LineStep

(* A frame that arrives at the bridge comes last there.                    *)
LEMMA FifoArrives ==
  ASSUME FifoType, NEW e \in AllFrames, fifo' = Ring!Pushed(fifo, e)
  PROVE  FifoStep({e}) /\ (fifo = <<>> => fifo' = <<e>>)
  BY SeqPushed DEF FifoType, FifoStep

(* The frame the bridge takes came before all others.                      *)
LEMMA FifoLeaves ==
  ASSUME FifoType, fifo # <<>>, fifo' = Tail(fifo)
  PROVE  /\ FifoStep({}) /\ Head(fifo) \in Elems(fifo)
         /\ \A g \in Elems(fifo)' : Before(fifo, Head(fifo), g)
  BY SeqTail DEF FifoType, FifoStep

(* A FIFO that is kept or drained gets no new frames.                      *)
LEMMA FifoSame ==
  ASSUME fifo' = fifo \/ fifo' = <<>>
  PROVE  FifoStep({})
  BY SeqEmpty DEF FifoStep, Elems, Before

(* Two foreign frames on the line are one. *)
LEMMA OneInLine ==
  ASSUME QueuesType, FblType, OneForeign, NEW f \in InLine, NEW g \in InLine,
         IsForeign(f), IsForeign(g)
  PROVE  f = g
<1>1. ASSUME NEW s \in Seq(AllFrames), f \in Elems(s), g \in Elems(s), f # g
      PROVE  Before(s, f, g) \/ Before(s, g, f)
  <2>1. PICK i \in DOMAIN s, j \in DOMAIN s : s[i] = f /\ s[j] = g
    BY <1>1 DEF Elems
  <2>2. i \in Nat /\ j \in Nat /\ i # j
    BY <1>1, <2>1, LenProperties
  <2>3. QED
    BY <2>1, <2>2 DEF Before
<1>2. SUFFICES ASSUME f # g PROVE LineBefore(f, g) \/ LineBefore(g, f)
  BY DEF OneForeign
<1>3. CASE f \in Elems(parts) /\ g \in Elems(parts)
  BY <1>1, <1>2, <1>3 DEF LineBefore, FblType
<1>4. CASE f \in InRest /\ g \in InRest
  BY <1>1, <1>2, <1>4 DEF LineBefore, RestBefore, InRest, QueuesType
<1>5. QED
  BY <1>3, <1>4 DEF LineBefore, InLine


(* What the frames that join must be for the session to keep its frames.   *)
LEMMA FramesKept ==
  ASSUME Frames, NEW E, NEW F, LineStep(E), FifoStep(F),
         \A e \in E : IsPart(e) \/ IsForeign(e),
         \A e \in F : e = Flow \/ (\E w \in {0, 1, Nack} : e = Reply(w)) \/ IsForeign(e)
  PROVE  Frames'
<1>1. ASSUME NEW f \in InLine' PROVE IsPart(f) \/ IsForeign(f)
  BY <1>1 DEF Frames, LineStep
<1>2. ASSUME NEW f \in Elems(fifo)'
      PROVE  f = Flow \/ (\E w \in {0, 1, Nack} : f = Reply(w)) \/ IsForeign(f)
  BY <1>2 DEF Frames, FifoStep
<1>3. QED
  BY <1>1, <1>2 DEF Frames

(* At most one foreign frame is heard as long as what joins is not         *)
(* foreign.                                                                *)
LEMMA OneForeignKept ==
  ASSUME OneForeign, NEW E, NEW F, LineStep(E), FifoStep(F), foreign' = foreign,
         \A e \in E \cup F : ~IsForeign(e)
  PROVE  OneForeign'
<1>1. ASSUME foreign = 0, NEW f \in InLine' \cup Elems(fifo)' PROVE ~IsForeign(f)
  BY <1>1 DEF OneForeign, LineStep, FifoStep
<1>2. ASSUME NEW f \in InLine', NEW g \in InLine', LineBefore(f, g)'
      PROVE  ~(IsForeign(f) /\ IsForeign(g))
  <2>1. CASE g \in E
    BY <2>1
  <2>2. CASE g \notin E
    BY <1>2, <2>2, Inside DEF OneForeign, LineStep
  <2>3. QED
    BY <2>1, <2>2
<1>3. ASSUME NEW f \in Elems(fifo)', NEW g \in Elems(fifo)', Before(fifo, f, g)'
      PROVE  ~(IsForeign(f) /\ IsForeign(g))
  <2>1. CASE g \in F
    BY <2>1
  <2>2. CASE g \notin F
    BY <1>3, <2>2, Inside DEF OneForeign, FifoStep
  <2>3. QED
    BY <2>1, <2>2
<1>4. ASSUME NEW f \in InLine', NEW g \in Elems(fifo)', IsForeign(f), IsForeign(g) PROVE f = g
  <2>1. f \in InLine /\ g \in Elems(fifo)
    BY <1>4 DEF LineStep, FifoStep
  <2>2. QED
    BY <1>4, <2>1 DEF OneForeign
<1>5. QED
  BY <1>1, <1>2, <1>3, <1>4 DEF OneForeign

(* Parts that join belong to the command of the host.                      *)
LEMMA OfSessionKept ==
  ASSUME OfSession, NEW E, LineStep(E), next' = next \/ next' = Erase,
         \A e \in E : IsPart(e) => e.of = next'
  PROVE  OfSession'
  BY DEF OfSession, LineStep

(* The FBL keeps the message it receives, or drops it and is back in its   *)
(* loop.                                                                   *)
LEMMA ReceivingKept ==
  ASSUME Receiving, (parts' = parts /\ fbl' = fbl) \/ (parts' = <<>> /\ fbl' # "receive")
  PROVE  Receiving'
  BY DEF Receiving

(* As long as nobody is told anything new and the board stays as it is.    *)
LEMMA ToldKept ==
  ASSUME Told, AckedIsOnBoard, UNCHANGED <<next, boardVars>>,
         serialReply' = serialReply \/ serialReply' # << 1 >>
  PROVE  Told' /\ AckedIsOnBoard'
<1>1. next' = next /\ written' = written /\ installed' = installed
  BY DEF boardVars
<1>2. Done(next)' = Done(next)
  BY <1>1 DEF Done
<1>3. Told'
  BY <1>2 DEF Told
<1>4. AckedIsOnBoard'
  BY <1>1 DEF AckedIsOnBoard
<1>5. QED
  BY <1>3, <1>4

-----------------------------------------------------------------------------
(* A frame moves on, is lost or is thrown away; the FBL may give up.       *)

RestEmpty == queue = <<>> /\ inbox = <<>>

Loss == /\ UNCHANGED <<hostVars, serialCmd, serialReply, bridgeVars, boardVars, foreign>>
        /\ RestStep({})
        /\ (parts' = parts /\ fbl' = fbl) \/ (parts' = <<>> /\ fbl' # "receive")
        /\ RestEmpty => RestEmpty'
        /\ \A f : OnTheWay(f) => OnTheWay(f)' \/ RestEmpty'

(* A loss changes nothing but the line, which gets no new frame and keeps  *)
(* its order.                                                              *)
LEMMA LossEffect ==
  ASSUME Loss
  PROVE  /\ LineStep({}) /\ FifoStep({})
         /\ next' = next /\ host' = host /\ serialCmd' = serialCmd /\ serialReply' = serialReply
         /\ bridge' = bridge /\ cmd' = cmd /\ sent' = sent /\ fifo' = fifo
         /\ written' = written /\ installed' = installed /\ foreign' = foreign
         /\ FirstWaits' => FirstWaits
         /\ FlowComes' = FlowComes
         /\ NoParts => NoParts'
         /\ NoFirst => NoFirst'
         /\ fbl' = "receive" => fbl = "receive" /\ parts' = parts
         /\ \A f \in InRest' : f \in InRest
         /\ \A f, g : RestBefore(f, g)' => RestBefore(f, g)
         /\ \A f \in InLine' : f \in InLine
         /\ \A f, g : LineBefore(f, g)' => LineBefore(f, g)
<1>1. UNCHANGED <<hostVars, serialCmd, serialReply, bridgeVars, boardVars, foreign>> /\ RestStep({})
  BY DEF Loss
<1>2. /\ next' = next /\ host' = host /\ serialCmd' = serialCmd /\ serialReply' = serialReply
      /\ bridge' = bridge /\ cmd' = cmd /\ sent' = sent /\ fifo' = fifo
      /\ written' = written /\ installed' = installed /\ foreign' = foreign
  BY <1>1 DEF hostVars, bridgeVars, boardVars
<1>3. LineStep({}) /\ FifoStep({})
  BY <1>1, <1>2, LineKept, FifoSame DEF Loss
<1>4. /\ \A f \in InRest' : f \in InRest
      /\ \A f, g : RestBefore(f, g)' => RestBefore(f, g)
  BY <1>1 DEF RestStep
<1>5. /\ \A f \in InLine' : f \in InLine
      /\ \A f, g : LineBefore(f, g)' => LineBefore(f, g)
  BY <1>3 DEF LineStep
<1>6. /\ FirstWaits' => FirstWaits
      /\ FlowComes' = FlowComes
      /\ NoParts => NoParts'
      /\ NoFirst => NoFirst'
  BY <1>2, <1>4, <1>5 DEF FirstWaits, FlowComes, NoParts, NoFirst
<1>7. fbl' = "receive" => fbl = "receive" /\ parts' = parts
  BY DEF Loss
<1>8. QED
  BY <1>2, <1>3, <1>4, <1>5, <1>6, <1>7

(* Parts stay in order when frames are lost or taken.                      *)
LEMMA SortedLess ==
  ASSUME Sorted, LineStep({}), cmd' = cmd, sent' = sent, parts' = parts \/ parts' = <<>>
  PROVE  Sorted'
<1>1. \A f \in InLine' : f \in InLine
  BY DEF LineStep
<1>2. \A f, g : LineBefore(f, g)' => LineBefore(f, g)
  BY DEF LineStep
<1>3. (\A f \in Elems(parts)' : IsPart(f)) => \A i \in DOMAIN parts' : parts'[i].part >= i
  BY DEF Sorted, Elems
<1>4. \A f \in InLine' : IsPart(f) => f.of = cmd' /\ f.part <= sent'
  BY <1>1 DEF Sorted
<1>5. \A f, g \in InLine' : LineBefore(f, g)' /\ IsPart(f) /\ IsPart(g) => f.part < g.part
  BY <1>1, <1>2 DEF Sorted
<1>6. QED
  BY <1>3, <1>4, <1>5 DEF Sorted

(* A fresh exchange stays fresh when frames are lost.                      *)
LEMMA LossFresh ==
  ASSUME Fresh, Loss
  PROVE  Fresh'
<1>1. Sorted'
  BY LossEffect, SortedLess DEF Fresh, Loss
<1>2. Overtaken'
  BY LossEffect DEF Fresh, Overtaken
<1>3. ForeignReply'
  BY LossEffect DEF Fresh, ForeignReply
<1>4. Replies'
  <2>1. \A w \in {0, 1, Nack} : Skipped(Reply(w)) => Skipped(Reply(w))'
    BY LossEffect DEF Skipped
  <2>2. Done(next)' = Done(next)
    BY LossEffect DEF Done
  <2>3. NoFirst /\ fbl # "receive" => NoFirst' /\ fbl' # "receive"
    BY LossEffect DEF Loss
  <2>4. QED
    BY <2>1, <2>2, <2>3, LossEffect DEF Fresh, Replies
<1>5. LockStep'
  <2>1. SUFFICES ASSUME foreign' = 0 PROVE LockStep'
    BY DEF LockStep
  <2>2. foreign = 0 /\ LockStep
    BY <2>1, LossEffect DEF Fresh
  <2>3. PICK f : f = Part(cmd, sent)
    OBVIOUS
  <2>4. RestEmpty \/ (OnTheWay(f) /\ fifo = <<>> /\ (parts # <<>> => Len(parts) = sent - 1))
    BY <2>2, <2>3 DEF LockStep, RestEmpty
  <2>5. \/ RestEmpty'
        \/ OnTheWay(f)' /\ fifo = <<>> /\ (parts # <<>> => Len(parts) = sent - 1)
    BY <2>4 DEF Loss
  <2>6. Part(cmd, sent)' = f /\ \A i : Part(cmd, i)' = Part(cmd, i)
    BY <2>3, LossEffect
  <2>7. DOMAIN <<>> = {}
    OBVIOUS
  <2>8. (\A i \in DOMAIN parts' : parts'[i] = Part(cmd, i)) /\ (parts' # <<>> => parts' = parts)
    BY <2>2, <2>7 DEF LockStep, Loss
  <2>9. bridge' # "stream" /\ \A i \in DOMAIN parts' : parts'[i] = Part(cmd, i)'
    BY <2>2, <2>6, <2>8, LossEffect DEF LockStep
  <2>10. \/ queue' = <<>> /\ inbox' = <<>>
         \/ OnTheWay(Part(cmd, sent))' /\ fifo' = <<>> /\ (parts' # <<>> => Len(parts') = sent' - 1)
    BY <2>5, <2>6, <2>8, LossEffect DEF RestEmpty, OnTheWay
  <2>11. \/ fifo' = <<>> /\ (parts' # <<>> => Len(parts') >= sent' - 1)
         \/ fifo' = <<Flow>> /\ sent' < Parts /\ (parts' # <<>> => Len(parts') = sent')
         \/ fifo' \in {<<Reply(0)>>, <<Reply(1)>>} /\ parts' = <<>>
    BY <2>2, <2>8, LossEffect DEF LockStep
  <2>12. QED
    BY <2>9, <2>10, <2>11 DEF LockStep
<1>6. QED
  BY <1>1, <1>2, <1>3, <1>4, <1>5 DEF Fresh

(* What is left of an older exchange only gets less when frames are lost.  *)
LEMMA LossStale ==
  ASSUME Stale, Loss
  PROVE  Stale'
  BY LossEffect DEF Stale

(* A loss keeps the session.                                               *)
LEMMA LossStep ==
  ASSUME IInv, Loss
  PROVE  Session'
<1>1. Frames' /\ Receiving' /\ OneForeign' /\ OfSession' /\ Told' /\ AckedIsOnBoard'
  <2>1. Frames' /\ OneForeign' /\ OfSession'
    BY LossEffect, FramesKept, OneForeignKept, OfSessionKept DEF IInv, Session
  <2>2. Receiving' /\ Told' /\ AckedIsOnBoard'
    BY LossEffect, ReceivingKept, ToldKept DEF IInv, Session, Loss, boardVars
  <2>3. QED
    BY <2>1, <2>2
<1>2. Progress'
  <2>1. LineEmpty => LineEmpty'
    BY DEF Loss, LineEmpty, RestEmpty
  <2>2. Waiting' = Waiting
    BY LossEffect DEF Waiting
  <2>3. QED
    BY <2>1, <2>2, LossEffect, LossFresh, LossStale DEF IInv, Session, Progress
<1>3. QED
  BY <1>1, <1>2 DEF Session


(* When one frame is on its way and the FBL takes a frame, it is that one  *)
(* and none is left.                                                       *)
LEMMA TakeOne ==
  ASSUME NEW f, Ring!Take(f)
  PROVE  ~RestEmpty /\ \A g : OnTheWay(g) => g = f /\ RestEmpty'
<1>1. queue # <<>> /\ f = Head(queue) /\ queue' = Tail(queue) /\ inbox' = inbox
  BY DEF Ring!Take
<1>2. ASSUME NEW g, OnTheWay(g) PROVE g = f /\ RestEmpty'
  <2>1. queue = <<g>> /\ inbox = <<>>
    BY <1>1, <1>2 DEF OnTheWay
  <2>2. Head(<<g>>) = g /\ Tail(<<g>>) = <<>>
    OBVIOUS
  <2>3. QED
    BY <1>1, <2>1, <2>2 DEF RestEmpty
<1>3. QED
  BY <1>1, <1>2 DEF RestEmpty

(* When one frame is on its way, the interrupt leaves it on its way: the   *)
(* ring has room.                                                          *)
LEMMA MoveOne ==
  ASSUME QueuesType, Ring!Move
  PROVE  ~RestEmpty /\ \A g : OnTheWay(g) => OnTheWay(g)'
<1>1. /\ inbox # <<>> /\ inbox' = Tail(inbox)
      /\ queue' = IF Len(queue) < Capacity THEN Append(queue, Head(inbox)) ELSE queue
  BY DEF Ring!Move
<1>2. ASSUME NEW g, OnTheWay(g) PROVE OnTheWay(g)'
  <2>1. queue = <<>> /\ inbox = <<g>>
    BY <1>1, <1>2 DEF OnTheWay
  <2>2. Head(<<g>>) = g /\ Tail(<<g>>) = <<>> /\ Append(<<>>, g) = <<g>> /\ Len(<<>>) = 0
    OBVIOUS
  <2>3. inbox' = <<>> /\ queue' = <<g>>
    BY <1>1, <2>1, <2>2, ConstantFacts
  <2>4. QED
    BY <2>3 DEF OnTheWay
<1>3. QED
  BY <1>1, <1>2 DEF RestEmpty

(* When one frame is on its way and one is lost, none is left.             *)
LEMMA LoseOne ==
  ASSUME inbox # <<>>, inbox' = SubSeq(inbox, 1, Len(inbox) - 1), queue' = queue
  PROVE  ~RestEmpty /\ \A g : OnTheWay(g) => RestEmpty'
<1>1. ASSUME NEW g, OnTheWay(g) PROVE RestEmpty'
  <2>1. queue = <<>> /\ inbox = <<g>>
    BY <1>1 DEF OnTheWay
  <2>2. Len(<<g>>) = 1 /\ SubSeq(<<g>>, 1, 0) = <<>>
    OBVIOUS
  <2>3. QED
    BY <2>1, <2>2 DEF RestEmpty
<1>2. QED
  BY <1>1 DEF RestEmpty

(* The interrupt, a lost frame, a wait of the FBL that ran out, its reset, *)
(* its end at a short frame, and a frame it throws away, alone or with the *)
(* message, are losses.                                                    *)
LEMMA LossActions ==
  ASSUME IInv,
         \/ Interrupt \/ LoseFrame \/ FblTimeout \/ FblFault \/ FblReset
         \/ FblFirst /\ UNCHANGED <<fblVars, fifo>>
         \/ FblNext /\ parts' = <<>>
  PROVE  Loss
<1>1. FifoType /\ QueuesType /\ FblType /\ Receiving
  BY TypeParts DEF IInv, Session
<1>2. CASE Interrupt
  <2>1. /\ Ring!Move /\ parts' = parts /\ fbl' = fbl
        /\ UNCHANGED <<hostVars, serialCmd, serialReply, bridgeVars, boardVars, foreign>>
    BY <1>2 DEF Interrupt, fblVars
  <2>2. QED
    BY <1>1, <2>1, MoveEffect, MoveOne DEF Loss
<1>3. CASE LoseFrame
  <2>1. /\ inbox # <<>> /\ inbox' = SubSeq(inbox, 1, Len(inbox) - 1) /\ queue' = queue
        /\ parts' = parts /\ fbl' = fbl
        /\ UNCHANGED <<hostVars, serialCmd, serialReply, bridgeVars, boardVars, foreign>>
    BY <1>3 DEF LoseFrame, fblVars
  <2>2. QED
    BY <1>1, <2>1, LoseEffect, LoseOne DEF Loss
<1>4. CASE FblTimeout \/ FblReset
  <2>1. /\ inbox' = <<>> /\ queue' = <<>> /\ parts' = <<>> /\ fbl' = "loop"
        /\ UNCHANGED <<hostVars, serialCmd, serialReply, bridgeVars, boardVars, foreign>>
    BY <1>4 DEF FblTimeout, FblReset, ringVars
  <2>2. QED
    BY <2>1, EmptyEffect DEF Loss, RestEmpty
<1>5. CASE FblFirst /\ UNCHANGED <<fblVars, fifo>>
  <2>1. PICK f \in AllFrames :
          /\ Ring!Take(f)
          /\ UNCHANGED <<hostVars, serialCmd, serialReply, bridge, cmd, sent, boardVars, foreign>>
    BY <1>5 DEF FblFirst
  <2>2. parts' = parts /\ fbl' = fbl /\ fifo' = fifo
    BY <1>5 DEF fblVars
  <2>3. QED
    BY <1>1, <2>1, <2>2, TakeEffect, TakeOne DEF Loss, bridgeVars
<1>6. CASE FblNext /\ parts' = <<>>
  <2>1. PICK f \in AllFrames :
          /\ Ring!Take(f)
          /\ UNCHANGED <<hostVars, serialCmd, serialReply, bridge, cmd, sent, boardVars, foreign>>
          /\ IF f.kind = "CF"
               THEN /\ parts' = Append(parts, f) /\ UNCHANGED fbl
                    /\ IF Len(parts) + 1 < Parts THEN Transmit(Flow) ELSE UNCHANGED fifo
               ELSE fbl' = "loop" /\ parts' = <<>> /\ UNCHANGED fifo
    BY <1>6 DEF FblNext
  <2>2. Append(parts, f) # <<>>
    BY <1>1 DEF FblType
  <2>3. fbl' = "loop" /\ parts' = <<>> /\ fifo' = fifo
    BY <1>6, <2>1, <2>2
  <2>4. QED
    BY <1>1, <2>1, <2>3, TakeEffect, TakeOne DEF Loss, bridgeVars
<1>7. CASE FblFault
  <2>1. /\ inbox' = <<>> /\ queue' = <<>> /\ parts' = parts /\ fbl = "loop" /\ fbl' = "hung"
        /\ UNCHANGED <<hostVars, serialCmd, serialReply, bridgeVars, boardVars, foreign>>
    BY <1>7 DEF FblFault
  <2>2. parts' = <<>> /\ fbl' # "receive"
    BY <1>1, <2>1 DEF Receiving
  <2>3. QED
    BY <2>1, <2>2, EmptyEffect DEF Loss, RestEmpty
<1>8. QED
  BY <1>2, <1>3, <1>4, <1>5, <1>6, <1>7

-----------------------------------------------------------------------------
(* The FBL answers.                                                        *)

(* A reply the bridge will throw away stays one, when frames arrive behind *)
(* it or leave before it.                                                  *)
LEMMA SkippedKept ==
  ASSUME NEW F, FifoStep(F), NEW r, r \notin F, bridge' = bridge, sent' = sent, Skipped(r)
  PROVE  Skipped(r)'
<1>1. ASSUME NEW f \in Elems(fifo)', f.kind = "FC", Before(fifo, f, r)' PROVE FALSE
  <2>1. Before(fifo, f, r) /\ f \in Elems(fifo)
    BY <1>1, Inside DEF FifoStep
  <2>2. QED
    BY <1>1, <2>1 DEF Skipped
<1>2. QED
  BY <1>1 DEF Skipped

(* It takes a first frame and answers with flow control. *)
First(f) == /\ fbl = "loop" /\ Ring!Take(f) /\ f.kind = "FF" /\ fbl' = "receive" /\ parts' = <<f>>
            /\ fifo' = Ring!Pushed(fifo, Flow)
            /\ UNCHANGED <<hostVars, serialCmd, serialReply, bridge, cmd, sent, boardVars, foreign>>

(* The first frame moves from the queue to the message; a flow control     *)
(* arrives at the bridge.                                                  *)
LEMMA FirstEffect ==
  ASSUME IInv, NEW f \in AllFrames, First(f)
  PROVE  /\ LineStep({}) /\ FifoStep({Flow}) /\ parts = <<>> /\ f \in InRest /\ f \in InLine
         /\ RestStep({})
         /\ next' = next /\ host' = host /\ serialCmd' = serialCmd /\ serialReply' = serialReply
         /\ bridge' = bridge /\ cmd' = cmd /\ sent' = sent
         /\ written' = written /\ installed' = installed /\ foreign' = foreign
         /\ \A g \in InRest' : RestBefore(f, g) /\ g \in InRest
         /\ IsPart(f) \/ IsForeign(f)
         /\ ~(IsPart(f) /\ IsForeign(f))
         /\ IsPart(f) => f.part = 1
<1>1. FifoType /\ QueuesType /\ FblType /\ Receiving /\ Frames
  BY TypeParts DEF IInv, Session
<1>2. /\ next' = next /\ host' = host /\ serialCmd' = serialCmd /\ serialReply' = serialReply
      /\ bridge' = bridge /\ cmd' = cmd /\ sent' = sent
      /\ written' = written /\ installed' = installed /\ foreign' = foreign
  BY DEF First, hostVars, boardVars
<1>3. parts = <<>>
  BY <1>1 DEF First, Receiving
<1>4. parts' = Append(parts, f)
  BY <1>3 DEF First
<1>5. LineStep({})
  BY <1>1, <1>4, LineTaken DEF First
<1>6. FifoStep({Flow})
  BY <1>1, FifoArrives, ReplyFacts DEF First
<1>7. /\ RestStep({}) /\ f \in InRest
      /\ \A g \in InRest' : RestBefore(f, g) /\ g \in InRest
  BY <1>1, TakeEffect DEF First, RestStep
<1>8. f \in InLine /\ (IsPart(f) \/ IsForeign(f)) /\ ~(IsPart(f) /\ IsForeign(f))
  BY <1>1, <1>7, Inside DEF Frames, IsPart, IsForeign
<1>9. ASSUME IsPart(f) PROVE f.part = 1
  <2>1. f.of \in Commands /\ f.part \in 1 .. Parts /\ f = Part(f.of, f.part)
    BY <1>9, FrameFacts
  <2>2. f.part # 1 => f.kind = "CF"
    BY <2>1, PartFacts
  <2>3. QED
    BY <2>2 DEF First
<1>10. QED
  BY <1>2, <1>3, <1>5, <1>6, <1>7, <1>8, <1>9

(* A fresh exchange stays fresh when the FBL takes a first frame.          *)
LEMMA FirstFresh ==
  ASSUME IInv, bridge # "idle", NEW f \in AllFrames, First(f), Fresh
  PROVE  Fresh'
<1>1. FifoType /\ QueuesType /\ FblType /\ OneForeign /\ Control /\ HostType /\ BridgeType
  BY TypeParts DEF IInv, Session
<1>2. parts' = <<f>> /\ DOMAIN <<f>> = {1} /\ <<f>>[1] = f /\ Len(<<f>>) = 1 /\ <<f>> # <<>>
  BY DEF First
<1>3. Elems(parts)' = {f}
  BY <1>2, SeqOne
<1>4. Sorted'
  <2>1. \A g \in InLine' : IsPart(g) => g.of = cmd' /\ g.part <= sent'
    BY FirstEffect DEF Fresh, Sorted, LineStep
  <2>2. \A g, h \in InLine' : LineBefore(g, h)' /\ IsPart(g) /\ IsPart(h) => g.part < h.part
    BY FirstEffect DEF Fresh, Sorted, LineStep
  <2>3. (\A g \in Elems(parts)' : IsPart(g)) => \A i \in DOMAIN parts' : parts'[i].part >= i
    BY <1>2, <1>3, FirstEffect
  <2>4. QED
    BY <2>1, <2>2, <2>3 DEF Sorted
<1>5. ASSUME FirstWaits' PROVE IsForeign(f)
  <2>1. PICK g \in InRest' : IsPart(g) /\ g.kind = "FF"
    BY <1>5 DEF FirstWaits
  <2>2. g \in InRest /\ LineBefore(f, g) /\ g \in InLine /\ f \in InLine
    BY FirstEffect, Inside
  <2>3. g \in AllFrames /\ g.part = 1
    BY <1>1, <2>1, <2>2, AreFrames, FrameFacts, PartFacts
  <2>4. ~IsPart(f)
    BY <2>1, <2>2, <2>3, FirstEffect DEF Fresh, Sorted
  <2>5. QED
    BY <2>4, FirstEffect
<1>6. FirstWaits' => FirstWaits
  BY FirstEffect DEF FirstWaits
<1>7. Overtaken'
  <2>1. SUFFICES ASSUME FirstWaits' PROVE \A g \in InLine' \cup Elems(fifo)' : g.kind # "SF"
    BY DEF Overtaken
  <2>2. \A g \in InLine \cup Elems(fifo) : g.kind # "SF"
    BY <1>5, <1>6, <2>1, FirstEffect DEF Fresh, Overtaken, First
  <2>3. QED
    BY <2>2, FirstEffect, ReplyFacts DEF LineStep, FifoStep
<1>8. ForeignReply'
  <2>1. SUFFICES ASSUME \E g \in Elems(fifo)' : IsForeign(g) /\ g.kind = "SF" PROVE ForeignReply'
    BY DEF ForeignReply
  <2>2. PICK r \in Elems(fifo) : IsForeign(r) /\ r.kind = "SF"
    BY <2>1, FirstEffect, ReplyFacts DEF FifoStep
  <2>3. IsPart(f)
    BY <2>2, FirstEffect DEF First, OneForeign, IInv, Session
  <2>4. FirstWaits /\ sent < 2 /\ ~FlowComes
    <3>1. FirstWaits
      BY <2>3, FirstEffect DEF First, FirstWaits
    <3>2. sent \in Nat
      BY <1>1 DEF BridgeType
    <3>3. QED
      BY <2>2, <3>1, <3>2 DEF Fresh, Overtaken
  <2>5. sent = 1 /\ sent \in Nat
    BY <1>1, <2>4 DEF BridgeType, Control
  <2>6. bridge' # "stream"
    BY <2>2, FirstEffect DEF Fresh, ForeignReply
  <2>7. Len(parts') >= sent' - 1 /\ Len(parts') >= sent'
    BY <1>2, <2>5, FirstEffect
  <2>8. \A g \in InRest' : ~IsPart(g)
    BY <2>2, <2>3, FirstEffect DEF Fresh, ForeignReply
  <2>9. \A g, h \in Elems(fifo)' : Before(fifo, g, h)' => ~(g.kind = "FC" /\ h.kind = "FC")
    BY <2>4, FirstEffect, Inside DEF FlowComes, FifoStep
  <2>10. \A g, h \in InRest' : RestBefore(g, h)' => ~(IsPart(g) /\ IsPart(h))
    BY <2>8
  <2>11. QED
    BY <2>6, <2>7, <2>8, <2>9, <2>10 DEF ForeignReply
<1>9. Replies'
  <2>1. \A w \in {0, 1, Nack} : Reply(w) # Flow
    BY ReplyFacts
  <2>2. \A w \in {0, 1, Nack} : Reply(w) \in Elems(fifo)' => Reply(w) \in Elems(fifo)
    BY <2>1, FirstEffect DEF FifoStep
  <2>3. \A w \in {0, 1, Nack} : Skipped(Reply(w)) => Skipped(Reply(w))'
    BY <2>1, FirstEffect, SkippedKept
  <2>4. NoParts => NoParts'
    BY FirstEffect DEF NoParts, LineStep
  <2>5. Done(next)' = Done(next)
    BY FirstEffect DEF Done
  <2>6. ~NoFirst
    BY FirstEffect DEF NoFirst, First
  <2>7. QED
    BY <2>2, <2>3, <2>4, <2>5, <2>6, FirstEffect DEF Fresh, Replies
<1>10. LockStep'
  <2>1. SUFFICES ASSUME foreign' = 0 PROVE LockStep'
    BY DEF LockStep
  <2>2. foreign = 0 /\ parts = <<>> /\ LockStep
    BY <2>1, FirstEffect DEF Fresh
  <2>3. RestEmpty' /\ f = Part(cmd, sent) /\ fifo = <<>> /\ bridge # "stream"
    BY <2>2, TakeOne DEF LockStep, First, RestEmpty
  <2>4. IsPart(f)
    BY <2>2, FirstEffect DEF IInv, Session, OneForeign
  <2>5. cmd \in Commands /\ sent \in 1 .. Parts
    BY <1>1, ConstantFacts DEF Control, HostType, BridgeType
  <2>6. sent = 1
    BY <2>3, <2>4, <2>5, FirstEffect, PartFacts
  <2>7. fifo' = <<Flow>>
    BY <1>1, <2>3, FifoArrives, ReplyFacts DEF First
  <2>8. Part(cmd, 1)' = f
    BY <2>3, <2>6, FirstEffect
  <2>9. 1 < Parts
    BY ConstantFacts
  <2>10. QED
    BY <1>2, <2>3, <2>6, <2>7, <2>8, <2>9, FirstEffect DEF LockStep, RestEmpty
<1>11. QED
  BY <1>4, <1>7, <1>8, <1>9, <1>10 DEF Fresh


(* The FBL takes the first frame of the exchange that runs: it is the last  *)
(* frame on the line, so that nothing old is left.                         *)
LEMMA FirstStale ==
  ASSUME IInv, bridge = "flow", NEW f \in AllFrames, First(f), Stale
  PROVE  Fresh'
<1>1. FifoType /\ QueuesType /\ FblType /\ Control /\ HostType /\ BridgeType
  BY TypeParts DEF IInv
<1>2. parts' = <<f>> /\ DOMAIN <<f>> = {1} /\ <<f>>[1] = f
  BY DEF First
<1>3. f = Part(cmd, 1) /\ sent = 1
  BY FirstEffect DEF Stale, First
<1>4. InRest' = {}
  BY FirstEffect DEF Stale, First
<1>5. Elems(parts)' = {f} /\ \A g, h : ~Before(parts, g, h)'
  BY <1>2, SeqOne
<1>6. InLine' = {f} /\ \A g, h : ~LineBefore(g, h)'
  <2>1. Elems(queue)' = {} /\ Elems(inbox)' = {}
    BY <1>4 DEF InRest
  <2>2. \A g, h : ~RestBefore(g, h)'
    BY <2>1 DEF RestBefore, Before, Elems
  <2>3. QED
    BY <1>4, <1>5, <2>2 DEF InLine, LineBefore
<1>7. f.of = cmd /\ f.part = 1
  <2>1. cmd \in Commands /\ 1 \in 1 .. Parts
    BY <1>1, ConstantFacts DEF Control, HostType, BridgeType
  <2>2. QED
    BY <1>3, <2>1, PartFacts
<1>8. \A g \in Elems(fifo)' : (g.kind = "SF" /\ ~IsForeign(g) /\ g \in Elems(fifo)) \/ g = Flow
  BY FirstEffect DEF FifoStep, Stale
<1>9. Sorted'
  BY <1>2, <1>3, <1>5, <1>6, <1>7, FirstEffect DEF Sorted
<1>10. ~FirstWaits'
  BY <1>4 DEF FirstWaits
<1>11. Overtaken' /\ ForeignReply'
  BY <1>8, <1>10, ReplyFacts DEF Overtaken, ForeignReply
<1>12. Replies'
  <2>1. \A w \in {0, 1, Nack} : Reply(w) # Flow
    BY ReplyFacts
  <2>2. \A w \in {0, 1, Nack} : Skipped(Reply(w))
    BY <1>3 DEF Skipped, Stale
  <2>3. \A w \in {0, 1, Nack} : Skipped(Reply(w))'
    BY <2>1, <2>2, FirstEffect, SkippedKept
  <2>4. QED
    BY <2>3 DEF Replies
<1>13. LockStep'
  BY FirstEffect DEF Stale, LockStep
<1>14. QED
  BY <1>9, <1>11, <1>12, <1>13 DEF Fresh

(* Taking a first frame keeps the session.                                 *)
LEMMA FirstStep ==
  ASSUME IInv, NEW f \in AllFrames, First(f)
  PROVE  Session'
<1>1. Frames' /\ OneForeign' /\ OfSession'
  BY FirstEffect, FramesKept, OneForeignKept, OfSessionKept, ReplyFacts DEF IInv, Session
<1>2. Receiving'
  <2>1. parts' = <<f>> /\ DOMAIN <<f>> = {1} /\ <<f>>[1] = f /\ <<f>> # <<>> /\ f.kind = "FF"
        /\ fbl' = "receive"
    BY DEF First
  <2>2. QED
    BY <2>1 DEF Receiving
<1>3. Told' /\ AckedIsOnBoard'
  BY FirstEffect, ToldKept DEF IInv, Session, First
<1>4. Progress'
  <2>1. CASE bridge # "idle"
    BY <2>1, FirstEffect, FirstFresh, FirstStale DEF IInv, Session, Progress
  <2>2. CASE bridge = "idle"
    <3>1. CASE Waiting
      BY <2>2, <3>1, FirstEffect DEF Waiting, Progress
    <3>2. CASE NoParts /\ (foreign = 0 => LineEmpty)
      <4>1. NoParts'
        BY <3>2, FirstEffect DEF NoParts, LineStep
      <4>2. foreign # 0
        BY <3>2, TakeOne DEF LineEmpty, First, RestEmpty
      <4>3. QED
        BY <2>2, <4>1, <4>2, FirstEffect DEF Progress
    <3>3. CASE Stale
      BY <2>2, <3>3, FirstEffect DEF Stale, First
    <3>4. QED
      BY <2>2, <3>1, <3>2, <3>3 DEF IInv, Session, Progress
  <2>3. QED
    BY <2>1, <2>2
<1>5. QED
  BY <1>1, <1>2, <1>3, <1>4 DEF Session


(* It takes a foreign single frame and answers with a NACK.                *)
Single(f) == /\ fbl = "loop" /\ Ring!Take(f) /\ f.kind = "SF" /\ UNCHANGED fblVars
             /\ fifo' = Ring!Pushed(fifo, Reply(Nack))
             /\ UNCHANGED <<hostVars, serialCmd, serialReply, bridge, cmd, sent, boardVars, foreign>>

(* A single frame on the line is foreign; it leaves, and a NACK arrives at *)
(* the bridge.                                                             *)
LEMMA SingleEffect ==
  ASSUME IInv, NEW f \in AllFrames, Single(f)
  PROVE  /\ LineStep({}) /\ FifoStep({Reply(Nack)}) /\ RestStep({})
         /\ f \in InRest /\ f \in InLine /\ IsForeign(f) /\ foreign # 0
         /\ fbl' = fbl /\ parts' = parts /\ parts = <<>>
         /\ next' = next /\ host' = host /\ serialCmd' = serialCmd /\ serialReply' = serialReply
         /\ bridge' = bridge /\ cmd' = cmd /\ sent' = sent
         /\ written' = written /\ installed' = installed /\ foreign' = foreign
         /\ \A g \in InRest' : RestBefore(f, g) /\ g \in InRest
<1>1. FifoType /\ QueuesType /\ FblType /\ Receiving /\ Frames /\ OneForeign
  BY TypeParts DEF IInv, Session
<1>2. /\ next' = next /\ host' = host /\ serialCmd' = serialCmd /\ serialReply' = serialReply
      /\ bridge' = bridge /\ cmd' = cmd /\ sent' = sent
      /\ written' = written /\ installed' = installed /\ foreign' = foreign
      /\ fbl' = fbl /\ parts' = parts
  BY DEF Single, hostVars, boardVars, fblVars
<1>3. parts = <<>>
  BY <1>1 DEF Single, Receiving
<1>4. FifoStep({Reply(Nack)})
  BY <1>1, FifoArrives, ReplyFacts DEF Single
<1>5. /\ RestStep({}) /\ f \in InRest
      /\ \A g \in InRest' : RestBefore(f, g) /\ g \in InRest
  BY <1>1, TakeEffect DEF Single, RestStep
<1>6. LineStep({})
  BY <1>2, <1>5, LineKept
<1>7. f \in InLine /\ IsForeign(f) /\ foreign # 0
  BY <1>1, <1>5, Inside DEF Frames, IsPart, Single, OneForeign
<1>8. QED
  BY <1>2, <1>3, <1>4, <1>5, <1>6, <1>7

(* A fresh exchange stays fresh when the FBL answers a foreign single      *)
(* frame: the NACK comes before flow control and is thrown away, or        *)
(* nothing is left that could be acknowledged late.                        *)
LEMMA SingleFresh ==
  ASSUME IInv, bridge # "idle", NEW f \in AllFrames, Single(f), Fresh
  PROVE  Fresh'
<1>1. FifoType /\ QueuesType /\ FblType /\ OneForeign /\ Control /\ HostType /\ BridgeType
  BY TypeParts DEF IInv, Session
<1>2. Sorted'
  BY SingleEffect, SortedLess DEF Fresh
<1>3. FirstWaits' => FirstWaits
  BY SingleEffect DEF FirstWaits
<1>4. FirstWaits => sent < 2 /\ ~FlowComes /\ ~\E g \in InLine : IsForeign(g) /\ g.kind = "FF"
  <2>1. sent \in Nat
    BY <1>1 DEF BridgeType
  <2>2. f \in InLine /\ f.kind = "SF"
    BY SingleEffect DEF Single
  <2>3. QED
    BY <2>1, <2>2 DEF Fresh, Overtaken
<1>5. FlowComes' => FlowComes
  BY SingleEffect, ReplyFacts DEF FlowComes, FifoStep
<1>6. Overtaken'
  <2>1. FirstWaits' => ~(sent' >= 2 \/ FlowComes' \/ \E g \in InLine' : IsForeign(g) /\ g.kind = "FF")
    <3>1. sent \in Nat
      BY <1>1 DEF BridgeType
    <3>2. QED
      BY <1>3, <1>4, <1>5, <3>1, SingleEffect DEF LineStep
  <2>2. QED
    BY <2>1 DEF Overtaken
<1>7. ForeignReply'
  <2>1. SUFFICES ASSUME \E g \in Elems(fifo)' : IsForeign(g) /\ g.kind = "SF" PROVE ForeignReply'
    BY DEF ForeignReply
  <2>2. PICK r \in Elems(fifo) : IsForeign(r) /\ r.kind = "SF"
    BY <2>1, SingleEffect, ReplyFacts DEF FifoStep
  <2>3. \A g \in InRest' : g \in InRest
    BY SingleEffect
  <2>4. \A g, h : RestBefore(g, h)' => RestBefore(g, h)
    BY SingleEffect DEF RestStep
  <2>5. \A g, h \in Elems(fifo)' : Before(fifo, g, h)' => ~(g.kind = "FC" /\ h.kind = "FC")
    <3>1. ASSUME NEW g, NEW h, Before(fifo, g, h)', g.kind = "FC", h.kind = "FC" PROVE FALSE
      <4>1. h # Reply(Nack)
        BY <3>1, ReplyFacts
      <4>2. Before(fifo, g, h) /\ g \in Elems(fifo) /\ h \in Elems(fifo)
        BY <3>1, <4>1, SingleEffect, Inside DEF FifoStep
      <4>3. QED
        BY <2>2, <3>1, <4>2 DEF Fresh, ForeignReply
    <3>2. QED
      BY <3>1
  <2>6. QED
    BY <1>5, <2>2, <2>3, <2>4, <2>5, SingleEffect DEF Fresh, ForeignReply
<1>8. Replies'
  <2>1. \A w \in {0, 1} : Reply(w) # Reply(Nack)
    BY ReplyFacts
  <2>2. \A w \in {0, 1} : Reply(w) \in Elems(fifo)' => Reply(w) \in Elems(fifo)
    BY <2>1, SingleEffect DEF FifoStep
  <2>3. \A w \in {0, 1} : Skipped(Reply(w)) => Skipped(Reply(w))'
    BY <2>1, SingleEffect, SkippedKept
  <2>4. NoParts => NoParts'
    BY SingleEffect DEF NoParts, LineStep
  <2>5. Done(next)' = Done(next)
    BY SingleEffect DEF Done
  <2>6. CASE FirstWaits'
    <3>1. sent = 1 /\ ~FlowComes' /\ bridge = "flow"
      BY <1>1, <1>3, <1>4, <1>5, <2>6, ConstantFacts DEF Control, BridgeType
    <3>2. Skipped(Reply(Nack))'
      BY <3>1, SingleEffect DEF Skipped, FlowComes
    <3>3. QED
      BY <2>2, <2>3, <2>4, <2>5, <3>2, SingleEffect DEF Fresh, Replies
  <2>7. CASE ~FirstWaits'
    <3>1. ASSUME NEW g \in InRest', g.kind = "FF" PROVE FALSE
      <4>1. g \in InLine /\ f \in InLine /\ IsForeign(f) /\ f.kind = "SF"
        BY SingleEffect, Inside DEF Single
      <4>2. ~IsPart(g)
        BY <2>7, <3>1 DEF FirstWaits
      <4>3. IsForeign(g)
        BY <4>1, <4>2 DEF IInv, Session, Frames
      <4>4. QED
        BY <1>1, <3>1, <4>1, <4>3, OneInLine
    <3>2. NoFirst' /\ fbl' = "loop"
      BY <3>1, SingleEffect DEF NoFirst, Single
    <3>3. QED
      BY <2>2, <2>3, <2>4, <2>5, <3>2, SingleEffect DEF Fresh, Replies
  <2>8. QED
    BY <2>6, <2>7
<1>9. LockStep'
  BY SingleEffect DEF LockStep
<1>10. QED
  BY <1>2, <1>6, <1>7, <1>8, <1>9 DEF Fresh

(* Answering a single frame keeps the session.                             *)
LEMMA SingleStep ==
  ASSUME IInv, NEW f \in AllFrames, Single(f)
  PROVE  Session'
<1>1. Frames' /\ OneForeign' /\ OfSession'
  BY SingleEffect, FramesKept, OneForeignKept, OfSessionKept, ReplyFacts DEF IInv, Session
<1>2. Receiving' /\ Told' /\ AckedIsOnBoard'
  BY SingleEffect, ReceivingKept, ToldKept DEF IInv, Session, Single
<1>3. ASSUME Stale PROVE Stale'
  <2>1. /\ \A g \in InRest' : g \in InRest
        /\ \A g, h : RestBefore(g, h)' => RestBefore(g, h)
    BY SingleEffect DEF RestStep
  <2>2. ASSUME bridge = "flow", NEW g \in Elems(fifo)' PROVE g.kind = "SF" /\ ~IsForeign(g)
    BY <1>3, <2>2, SingleEffect, ReplyFacts DEF FifoStep, Stale
  <2>3. QED
    BY <1>3, <2>1, <2>2, SingleEffect DEF Stale
<1>4. Progress'
  <2>1. NoParts => NoParts'
    BY SingleEffect DEF NoParts, LineStep
  <2>2. Waiting => Waiting'
    BY SingleEffect DEF Waiting
  <2>3. QED
    BY <1>3, <2>1, <2>2, SingleEffect, SingleFresh DEF IInv, Session, Progress
<1>5. QED
  BY <1>1, <1>2, <1>4 DEF Session


(* It appends a consecutive frame, and asks for another one unless the     *)
(* message is complete.                                                    *)
Consecutive(f) ==
  /\ fbl = "receive" /\ Len(parts) < Parts /\ Ring!Take(f) /\ f.kind = "CF"
  /\ parts' = Append(parts, f) /\ fbl' = fbl
  /\ fifo' = IF Len(parts) + 1 < Parts THEN Ring!Pushed(fifo, Flow) ELSE fifo
  /\ UNCHANGED <<hostVars, serialCmd, serialReply, bridge, cmd, sent, boardVars, foreign>>

(* The consecutive frame moves from the queue to the end of the message.   *)
LEMMA ConsecutiveEffect ==
  ASSUME IInv, NEW f \in AllFrames, Consecutive(f)
  PROVE  /\ LineStep({}) /\ FifoStep({Flow}) /\ RestStep({})
         /\ f \in InRest /\ f \in InLine
         /\ fbl' = fbl /\ parts # <<>> /\ Len(parts) \in Nat /\ Len(parts) >= 1
         /\ parts' # <<>> /\ Len(parts') = Len(parts) + 1
         /\ DOMAIN parts = 1 .. Len(parts) /\ DOMAIN parts' = 1 .. Len(parts) + 1
         /\ parts'[Len(parts) + 1] = f /\ \A i \in DOMAIN parts : parts'[i] = parts[i]
         /\ parts[1] \in Elems(parts) /\ parts[1].kind = "FF"
         /\ next' = next /\ host' = host /\ serialCmd' = serialCmd /\ serialReply' = serialReply
         /\ bridge' = bridge /\ cmd' = cmd /\ sent' = sent
         /\ written' = written /\ installed' = installed /\ foreign' = foreign
         /\ \A g \in InRest' : RestBefore(f, g) /\ g \in InRest
         /\ IsPart(f) \/ IsForeign(f)
<1>1. FifoType /\ QueuesType /\ FblType /\ Receiving /\ Frames
  BY TypeParts DEF IInv, Session
<1>2. /\ next' = next /\ host' = host /\ serialCmd' = serialCmd /\ serialReply' = serialReply
      /\ bridge' = bridge /\ cmd' = cmd /\ sent' = sent /\ fbl' = fbl
      /\ written' = written /\ installed' = installed /\ foreign' = foreign
  BY DEF Consecutive, hostVars, boardVars
<1>3. /\ RestStep({}) /\ f \in InRest
      /\ \A g \in InRest' : RestBefore(f, g) /\ g \in InRest
  BY <1>1, TakeEffect DEF Consecutive, RestStep
<1>4. LineStep({})
  BY <1>1, LineTaken DEF Consecutive
<1>5. FifoStep({Flow})
  <2>1. CASE Len(parts) + 1 < Parts
    BY <1>1, <2>1, FifoArrives, ReplyFacts DEF Consecutive
  <2>2. CASE ~(Len(parts) + 1 < Parts)
    BY <2>2, FifoSame DEF Consecutive, FifoStep
  <2>3. QED
    BY <2>1, <2>2
<1>6. parts # <<>> /\ parts[1].kind = "FF"
  BY <1>1 DEF Consecutive, Receiving
<1>7. Len(parts) \in Nat /\ Len(parts) >= 1 /\ DOMAIN parts = 1 .. Len(parts)
  BY <1>1, <1>6, EmptySeq, LenProperties DEF FblType
<1>8. /\ Len(parts') = Len(parts) + 1 /\ DOMAIN parts' = 1 .. Len(parts) + 1
      /\ parts'[Len(parts) + 1] = f /\ \A i \in DOMAIN parts : parts'[i] = parts[i]
  BY <1>1, <1>7, AppendProperties DEF Consecutive, FblType
<1>9. parts' # <<>>
  BY <1>7, <1>8
<1>10. parts[1] \in Elems(parts)
  BY <1>7 DEF Elems
<1>11. f \in InLine /\ (IsPart(f) \/ IsForeign(f))
  BY <1>1, <1>3, Inside DEF Frames
<1>12. QED
  BY <1>2, <1>3, <1>4, <1>5, <1>6, <1>7, <1>8, <1>9, <1>10, <1>11

(* A real first frame waits behind a message only if a foreign one began   *)
(* the message.                                                            *)
LEMMA Interloper ==
  ASSUME IInv, Sorted, parts # <<>>, FirstWaits
  PROVE  /\ parts[1] \in Elems(parts) /\ IsForeign(parts[1]) /\ parts[1].kind = "FF"
         /\ \A i \in DOMAIN parts : i > 1 => IsForeign(parts[i])
<1>1. FifoType /\ QueuesType /\ FblType /\ Receiving /\ Frames
  BY TypeParts DEF IInv, Session
<1>2. PICK g \in InRest : IsPart(g) /\ g.kind = "FF"
  BY DEF FirstWaits
<1>3. \A h \in InLine : IsPart(h) => h \in AllFrames /\ h.part \in 1 .. Parts /\ h = Part(h.of, h.part)
                                      /\ h.of \in Commands
  BY <1>1, AreFrames, FrameFacts
<1>4. g.part = 1
  BY <1>2, <1>3, PartFacts, Inside
<1>5. \A h \in Elems(parts) : ~IsPart(h)
  <2>1. SUFFICES ASSUME NEW h \in Elems(parts), IsPart(h) PROVE FALSE
    OBVIOUS
  <2>2. h \in InLine /\ g \in InLine /\ LineBefore(h, g)
    BY <1>2, Inside
  <2>3. h.part < 1 /\ h.part \in Nat /\ h.part >= 1
    BY <1>2, <1>3, <1>4, <2>1, <2>2, ConstantFacts DEF Sorted
  <2>4. QED
    BY <2>3
<1>6. \A i \in DOMAIN parts : parts[i] \in Elems(parts) /\ IsForeign(parts[i])
  BY <1>1, <1>5, Inside DEF Elems, Frames
<1>7. 1 \in DOMAIN parts /\ parts[1].kind = "FF"
  BY <1>1, EmptySeq, LenProperties DEF FblType, Receiving
<1>8. QED
  BY <1>6, <1>7

(* A fresh exchange stays fresh when the FBL appends a frame.              *)
LEMMA ConsecutiveFresh ==
  ASSUME IInv, bridge # "idle", NEW f \in AllFrames, Consecutive(f), Fresh
  PROVE  Fresh'
<1>1. FifoType /\ QueuesType /\ FblType /\ OneForeign /\ Control /\ HostType /\ BridgeType
  BY TypeParts DEF IInv, Session
<1>2. Sorted'
  <2>1. \A g \in InLine' : IsPart(g) => g.of = cmd' /\ g.part <= sent'
    BY ConsecutiveEffect DEF Fresh, Sorted, LineStep
  <2>2. \A g, h \in InLine' : LineBefore(g, h)' /\ IsPart(g) /\ IsPart(h) => g.part < h.part
    BY ConsecutiveEffect DEF Fresh, Sorted, LineStep
  <2>3. ASSUME \A g \in Elems(parts)' : IsPart(g), NEW i \in DOMAIN parts'
        PROVE  parts'[i].part >= i
    <3>1. \A j \in DOMAIN parts : parts[j] \in Elems(parts) /\ parts[j] \in Elems(parts)' /\ IsPart(parts[j])
      <4>1. \A j \in DOMAIN parts : j \in DOMAIN parts'
        BY ConsecutiveEffect
      <4>2. QED
        BY <2>3, <4>1, ConsecutiveEffect DEF Elems
    <3>2. \A j \in DOMAIN parts : parts[j].part >= j
      BY <3>1 DEF Fresh, Sorted, Elems
    <3>3. IsPart(f)
      BY <2>3, ConsecutiveEffect DEF Elems
    <3>4. CASE i \in DOMAIN parts
      BY <3>2, <3>4, ConsecutiveEffect
    <3>5. CASE i = Len(parts) + 1
      <4> DEFINE l == parts[Len(parts)]
      <4>1. l \in Elems(parts) /\ IsPart(l) /\ l.part >= Len(parts)
        BY <3>1, <3>2, ConsecutiveEffect
      <4>2. l \in InLine /\ LineBefore(l, f) /\ f \in InLine
        BY <4>1, ConsecutiveEffect, Inside
      <4>3. l.part < f.part
        BY <3>3, <4>1, <4>2 DEF Fresh, Sorted
      <4>4. l.part \in Nat /\ f.part \in Nat /\ Len(parts) \in Nat
        BY <1>1, <4>2, AreFrames, FrameFacts, ConsecutiveEffect
      <4> HIDE DEF l
      <4>5. f.part >= Len(parts) + 1
        BY <4>1, <4>3, <4>4
      <4>6. QED
        BY <3>5, <4>5, ConsecutiveEffect
    <3>6. QED
      BY <3>4, <3>5, ConsecutiveEffect
  <2>4. QED
    BY <2>1, <2>2, <2>3 DEF Sorted
<1>3. FirstWaits' => FirstWaits
  BY ConsecutiveEffect DEF FirstWaits
<1>4. Overtaken'
  <2>1. SUFFICES ASSUME FirstWaits' PROVE \A g \in InLine' \cup Elems(fifo)' : g.kind # "SF"
    BY DEF Overtaken
  <2>2. \E g \in InLine : IsForeign(g) /\ g.kind = "FF"
    BY <1>3, <2>1, ConsecutiveEffect, Interloper, Inside DEF Fresh
  <2>3. \A g \in InLine \cup Elems(fifo) : g.kind # "SF"
    BY <1>3, <2>1, <2>2 DEF Fresh, Overtaken
  <2>4. QED
    BY <2>3, ConsecutiveEffect, ReplyFacts DEF LineStep, FifoStep
<1>5. ForeignReply'
  <2>1. SUFFICES ASSUME \E g \in Elems(fifo)' : IsForeign(g) /\ g.kind = "SF" PROVE ForeignReply'
    BY DEF ForeignReply
  <2>2. PICK r \in Elems(fifo) : IsForeign(r) /\ r.kind = "SF"
    BY <2>1, ConsecutiveEffect, ReplyFacts DEF FifoStep
  <2>3. IsPart(f)
    BY <2>2, ConsecutiveEffect DEF Consecutive, OneForeign, IInv, Session
  <2>4. ~FlowComes /\ bridge # "stream" /\ Len(parts) >= sent - 1
    BY <2>2, <2>3, ConsecutiveEffect DEF Fresh, ForeignReply, Consecutive
  <2>5. Len(parts') >= sent' - 1 /\ Len(parts') >= sent' /\ bridge' # "stream"
    <3>1. sent \in Nat
      BY <1>1 DEF BridgeType
    <3>2. QED
      BY <2>4, <3>1, ConsecutiveEffect
  <2>6. \A g \in InRest' : ~IsPart(g)
    BY <2>2, <2>3, ConsecutiveEffect DEF Fresh, ForeignReply
  <2>7. \A g, h \in Elems(fifo)' : Before(fifo, g, h)' => ~(g.kind = "FC" /\ h.kind = "FC")
    BY <2>4, ConsecutiveEffect, Inside DEF FlowComes, FifoStep
  <2>8. \A g, h \in InRest' : RestBefore(g, h)' => ~(IsPart(g) /\ IsPart(h))
    BY <2>6
  <2>9. QED
    BY <2>5, <2>6, <2>7, <2>8 DEF ForeignReply
<1>6. Replies'
  <2>1. \A w \in {0, 1, Nack} : Reply(w) # Flow
    BY ReplyFacts
  <2>2. \A w \in {0, 1, Nack} : Reply(w) \in Elems(fifo)' => Reply(w) \in Elems(fifo)
    BY <2>1, ConsecutiveEffect DEF FifoStep
  <2>3. \A w \in {0, 1, Nack} : Skipped(Reply(w)) => Skipped(Reply(w))'
    BY <2>1, ConsecutiveEffect, SkippedKept
  <2>4. NoParts => NoParts'
    BY ConsecutiveEffect DEF NoParts, LineStep
  <2>5. Done(next)' = Done(next)
    BY ConsecutiveEffect DEF Done
  <2>6. QED
    BY <2>2, <2>3, <2>4, <2>5, ConsecutiveEffect DEF Fresh, Replies, Consecutive
<1>7. LockStep'
  <2>1. SUFFICES ASSUME foreign' = 0 PROVE LockStep'
    BY DEF LockStep
  <2>2. foreign = 0 /\ LockStep /\ parts # <<>>
    BY <2>1, ConsecutiveEffect DEF Fresh
  <2>3. RestEmpty' /\ f = Part(cmd, sent) /\ fifo = <<>> /\ bridge # "stream" /\ Len(parts) = sent - 1
    BY <2>2, TakeOne DEF LockStep, Consecutive, RestEmpty
  <2>4. sent \in Nat /\ Len(parts) \in Nat /\ Len(parts') = sent
    BY <1>1, <2>3, ConsecutiveEffect DEF BridgeType
  <2>5. \A i : Part(cmd, i)' = Part(cmd, i)
    BY ConsecutiveEffect
  <2>6. \A i \in DOMAIN parts' : parts'[i] = Part(cmd, i)
    <3>1. SUFFICES ASSUME NEW i \in DOMAIN parts' PROVE parts'[i] = Part(cmd, i)
      OBVIOUS
    <3>2. CASE i \in DOMAIN parts
      BY <2>2, <3>2, ConsecutiveEffect DEF LockStep
    <3>3. CASE i = Len(parts) + 1
      BY <2>3, <2>4, <3>3, ConsecutiveEffect
    <3>4. QED
      BY <3>2, <3>3, ConsecutiveEffect
  <2>7. CASE Len(parts) + 1 < Parts
    <3>1. fifo' = <<Flow>>
      BY <1>1, <2>3, <2>7, FifoArrives, ReplyFacts DEF Consecutive
    <3>2. sent < Parts
      BY <2>3, <2>4, <2>7
    <3>3. QED
      BY <2>3, <2>4, <2>5, <2>6, <3>1, <3>2, ConsecutiveEffect DEF LockStep, RestEmpty
  <2>8. CASE ~(Len(parts) + 1 < Parts)
    <3>1. fifo' = <<>>
      BY <2>3, <2>8 DEF Consecutive
    <3>2. sent >= sent - 1
      BY <2>4
    <3>3. QED
      BY <2>3, <2>4, <2>5, <2>6, <3>1, <3>2, ConsecutiveEffect DEF LockStep, RestEmpty
  <2>9. QED
    BY <2>7, <2>8
<1>8. QED
  BY <1>2, <1>4, <1>5, <1>6, <1>7 DEF Fresh

(* Appending a frame keeps the session.                                    *)
LEMMA ConsecutiveStep ==
  ASSUME IInv, NEW f \in AllFrames, Consecutive(f)
  PROVE  Session'
<1>1. Frames' /\ OneForeign' /\ OfSession'
  BY ConsecutiveEffect, FramesKept, OneForeignKept, OfSessionKept, ReplyFacts DEF IInv, Session
<1>2. Receiving'
  <2>1. fbl' = "receive" /\ f.kind = "CF" /\ 1 \in DOMAIN parts
    BY ConsecutiveEffect DEF Consecutive
  <2>2. \A i \in DOMAIN parts' : i > 1 => parts'[i].kind = "CF"
    BY <2>1, ConsecutiveEffect DEF IInv, Session, Receiving
  <2>3. parts'[1].kind = "FF"
    BY <2>1, ConsecutiveEffect
  <2>4. QED
    BY <2>1, <2>2, <2>3, ConsecutiveEffect DEF Receiving
<1>3. Told' /\ AckedIsOnBoard'
  BY ConsecutiveEffect, ToldKept DEF IInv, Session, Consecutive
<1>4. ASSUME Stale PROVE Stale'
  <2>1. /\ \A g \in InRest' : g \in InRest
        /\ \A g, h : RestBefore(g, h)' => RestBefore(g, h)
    BY ConsecutiveEffect DEF RestStep
  <2>2. Len(parts) >= Parts - 1 /\ Len(parts) < Parts
    BY <1>4 DEF Stale, Consecutive
  <2>3. ~(Len(parts) + 1 < Parts) /\ Len(parts) + 1 >= Parts - 1
    BY <2>2, ConsecutiveEffect, ConstantFacts
  <2>4. fifo' = fifo /\ Len(parts') >= Parts - 1
    BY <2>3, ConsecutiveEffect DEF Consecutive
  <2>5. QED
    BY <1>4, <2>1, <2>4, ConsecutiveEffect DEF Stale
<1>5. Progress'
  <2>1. NoParts => NoParts'
    BY ConsecutiveEffect DEF NoParts, LineStep
  <2>2. Waiting => Waiting'
    BY ConsecutiveEffect DEF Waiting
  <2>3. ~LineEmpty
    BY ConsecutiveEffect DEF LineEmpty
  <2>4. QED
    BY <1>4, <2>1, <2>2, <2>3, ConsecutiveEffect, ConsecutiveFresh DEF IInv, Session, Progress
<1>6. QED
  BY <1>1, <1>2, <1>3, <1>5 DEF Session


(* It has a whole message: it executes the command, or answers with a NACK. *)
LEMMA ProcessEffect ==
  ASSUME IInv, BL_ProcessFrame
  PROVE  /\ LineStep({}) /\ RestStep({}) /\ InRest' = InRest /\ InLine' = InRest
         /\ (RestEmpty => RestEmpty') /\ parts # <<>>
         /\ fbl = "receive" /\ fbl' = "loop" /\ parts' = <<>> /\ Len(parts) = Parts /\ DOMAIN parts = 1 .. Parts
         /\ next' = next /\ host' = host /\ serialCmd' = serialCmd /\ serialReply' = serialReply
         /\ bridge' = bridge /\ cmd' = cmd /\ sent' = sent /\ foreign' = foreign
         /\ UNCHANGED ringVars
         /\ \E w \in {0, 1, Nack} :
              /\ fifo' = Ring!Pushed(fifo, Reply(w)) /\ FifoStep({Reply(w)})
              /\ fifo = <<>> => fifo' = <<Reply(w)>>
              /\ w \in {0, 1} => \E c \in Commands : IsCommand(c) /\ Execute(c) /\ w = Result(c)
              /\ w = Nack => UNCHANGED boardVars /\ \A c \in Commands : ~IsCommand(c)
<1>1. FifoType /\ QueuesType /\ FblType
  BY TypeParts DEF IInv
<1>2. /\ fbl = "receive" /\ fbl' = "loop" /\ parts' = <<>> /\ Len(parts) = Parts
      /\ next' = next /\ host' = host /\ serialCmd' = serialCmd /\ serialReply' = serialReply
      /\ bridge' = bridge /\ cmd' = cmd /\ sent' = sent /\ foreign' = foreign
      /\ UNCHANGED ringVars /\ inbox' = inbox /\ queue' = queue
  BY DEF BL_ProcessFrame, hostVars, ringVars
<1>3. DOMAIN parts = 1 .. Parts /\ parts # <<>>
  BY <1>1, <1>2, LenProperties, EmptySeq, ConstantFacts DEF FblType
<1>4. RestStep({}) /\ InRest' = InRest
  BY <1>2, SameEffect
<1>5. LineStep({})
  BY <1>2, <1>4, LineKept
<1>6. InLine' = InRest
  BY <1>2, <1>4, SeqEmpty DEF InLine
<1>7. RestEmpty => RestEmpty'
  BY <1>2 DEF RestEmpty
<1>8. \E w \in {0, 1, Nack} :
        /\ fifo' = Ring!Pushed(fifo, Reply(w))
        /\ w \in {0, 1} => \E c \in Commands : IsCommand(c) /\ Execute(c) /\ w = Result(c)
        /\ w = Nack => UNCHANGED boardVars /\ \A c \in Commands : ~IsCommand(c)
  <2>1. CASE \E c \in Commands : IsCommand(c) /\ Execute(c) /\ Transmit(Reply(Result(c)))
    <3>1. PICK c \in Commands : IsCommand(c) /\ Execute(c) /\ Transmit(Reply(Result(c)))
      BY <2>1
    <3>2. PICK w \in {0, 1} : w = Result(c)
      BY DEF Result
    <3>3. w # Nack
      BY DEF Nack
    <3>4. fifo' = Ring!Pushed(fifo, Reply(w))
      BY <3>1, <3>2 DEF Transmit
    <3>5. QED
      BY <3>1, <3>2, <3>3, <3>4
  <2>2. CASE (\A c \in Commands : ~IsCommand(c)) /\ UNCHANGED boardVars /\ Transmit(Reply(Nack))
    <3>1. Nack \notin {0, 1}
      BY DEF Nack
    <3>2. QED
      BY <2>2, <3>1 DEF Transmit
  <2>3. QED
    BY <2>1, <2>2 DEF BL_ProcessFrame
<1>9. PICK w \in {0, 1, Nack} :
        /\ fifo' = Ring!Pushed(fifo, Reply(w))
        /\ w \in {0, 1} => \E c \in Commands : IsCommand(c) /\ Execute(c) /\ w = Result(c)
        /\ w = Nack => UNCHANGED boardVars /\ \A c \in Commands : ~IsCommand(c)
  BY <1>8
<1>10. FifoStep({Reply(w)}) /\ (fifo = <<>> => fifo' = <<Reply(w)>>)
  BY <1>1, <1>9, FifoArrives, ReplyFacts
<1>11. QED
  BY <1>2, <1>3, <1>4, <1>5, <1>6, <1>7, <1>9, <1>10

(* A whole message of an exchange: no first frame of it is left, and when  *)
(* no foreign frame is in it, nothing of it is left.                       *)
LEMMA WholeMessage ==
  ASSUME IInv, bridge # "idle", Sorted, Len(parts) = Parts
  PROVE  /\ ~FirstWaits
         /\ (\A i \in DOMAIN parts : IsPart(parts[i])) =>
              bridge = "reply" /\ \A g \in InRest : IsForeign(g)
<1>1. FifoType /\ QueuesType /\ FblType /\ OneForeign /\ Control /\ BridgeType /\ Frames /\ Receiving
  BY TypeParts DEF IInv, Session
<1>2. /\ DOMAIN parts = 1 .. Parts /\ Parts \in Nat /\ Parts >= 2 /\ parts # <<>>
      /\ 1 \in DOMAIN parts /\ 2 \in DOMAIN parts /\ Parts \in DOMAIN parts
  BY <1>1, LenProperties, EmptySeq, ConstantFacts DEF FblType
<1>3. \A i \in DOMAIN parts : parts[i] \in Elems(parts) /\ parts[i] \in InLine
  BY Inside DEF Elems
<1>4. ASSUME FirstWaits PROVE FALSE
  <2>1. IsForeign(parts[1]) /\ IsForeign(parts[2]) /\ parts[1].kind = "FF"
    BY <1>2, <1>4, Interloper
  <2>2. parts[2].kind = "CF"
    BY <1>1, <1>2 DEF Receiving
  <2>3. parts[1] = parts[2]
    BY <1>1, <1>2, <1>3, <2>1, OneInLine
  <2>4. QED
    BY <2>1, <2>2, <2>3
<1>5. ASSUME \A i \in DOMAIN parts : IsPart(parts[i])
      PROVE  bridge = "reply" /\ \A g \in InRest : IsForeign(g)
  <2> DEFINE l == parts[Parts]
  <2>1. l \in InLine /\ l \in Elems(parts) /\ IsPart(l) /\ l.part >= Parts /\ l.part <= sent
    BY <1>2, <1>3, <1>5 DEF Sorted, Elems
  <2>2. l.part \in Nat /\ sent \in Nat /\ sent <= Parts
    BY <1>1, <1>2, <2>1, AreFrames, FrameFacts DEF BridgeType
  <2> HIDE DEF l
  <2>3. sent = Parts /\ l.part = Parts
    BY <1>2, <2>1, <2>2
  <2>4. bridge = "reply"
    BY <1>1, <2>3 DEF Control
  <2>5. ASSUME NEW g \in InRest, IsPart(g) PROVE FALSE
    <3>1. g \in InLine /\ LineBefore(l, g)
      BY <2>1, <2>5, Inside
    <3>2. l.part < g.part /\ g.part <= sent
      BY <2>1, <2>5, <3>1 DEF Sorted
    <3>3. g.part \in Nat
      BY <1>1, <3>1, AreFrames, FrameFacts
    <3>4. QED
      BY <2>2, <2>3, <3>2, <3>3
  <2>6. QED
    BY <1>1, <2>4, <2>5, Inside DEF Frames
<1>6. QED
  BY <1>4, <1>5

(* A command that is executed is the one of the exchange. *)
LEMMA CommandParts ==
  ASSUME NEW c \in Commands, IsCommand(c), FblType
  PROVE  /\ DOMAIN parts = 1 .. Parts /\ parts[1] \in InLine /\ parts[1].of = c /\ IsPart(parts[1])
         /\ \A i \in DOMAIN parts : IsPart(parts[i]) /\ parts[i].of = c
<1>1. DOMAIN parts = 1 .. Parts /\ \A i \in 1 .. Parts : parts[i] = Part(c, i)
  BY DEF IsCommand
<1>2. \A i \in 1 .. Parts : IsPart(parts[i]) /\ parts[i].of = c
  BY <1>1, PartFacts
<1>3. 1 \in 1 .. Parts
  BY ConstantFacts
<1>4. QED
  BY <1>1, <1>2, <1>3, Inside DEF Elems


(* A command of the exchange that succeeds has been done.                  *)
LEMMA ExecuteDone ==
  ASSUME NEW c \in Commands, Execute(c), Result(c) = 1, c = next, next' = next
  PROVE  Done(next)'
<1>1. c = Erase => written' = {}
  BY DEF Execute
<1>2. ASSUME NEW b \in 1 .. Blocks, c = Write(b) PROVE b \in written'
  <2>1. c # Erase
    BY <1>2, ConstantFacts
  <2>2. QED
    BY <1>2, <2>1 DEF Execute
<1>3. c = Verify => installed'
  BY DEF Execute
<1>4. QED
  BY <1>1, <1>2, <1>3 DEF Done

(* The reply to a command of the exchange is the answer to what the bridge *)
(* sent; a NACK is, or nothing is left that could be acknowledged late.    *)
LEMMA ProcessReplies ==
  ASSUME IInv, bridge # "idle", BL_ProcessFrame, Fresh
  PROVE  Replies'
<1>1. FifoType /\ QueuesType /\ FblType /\ OneForeign /\ Control /\ HostType /\ BridgeType /\ Frames
  BY TypeParts DEF IInv, Session
<1>2. PICK w \in {0, 1, Nack} :
        /\ fifo' = Ring!Pushed(fifo, Reply(w)) /\ FifoStep({Reply(w)})
        /\ w \in {0, 1} => \E c \in Commands : IsCommand(c) /\ Execute(c) /\ w = Result(c)
        /\ w = Nack => UNCHANGED boardVars /\ \A c \in Commands : ~IsCommand(c)
  BY ProcessEffect
<1>3. \A i \in DOMAIN parts : parts[i] \in InLine
  BY Inside DEF Elems
<1>4. CASE w \in {0, 1}
  <2>1. PICK c \in Commands : IsCommand(c) /\ Execute(c) /\ w = Result(c)
    BY <1>2, <1>4
  <2>2. bridge = "reply" /\ \A g \in InRest : IsForeign(g)
    BY <1>1, <2>1, CommandParts, WholeMessage, ProcessEffect DEF Fresh
  <2>3. bridge' = "reply" /\ NoParts'
    BY <2>2, ProcessEffect DEF NoParts
  <2>4. ~NoParts /\ \A r : ~Skipped(r)
    BY <1>1, <2>1, <2>2, CommandParts DEF NoParts, IsForeign, IsPart, Skipped
  <2>5. Reply(1) \notin Elems(fifo)
    BY <2>4 DEF Fresh, Replies
  <2>6. ASSUME Reply(1) \in Elems(fifo)' PROVE Done(next)'
    <3>1. Reply(1) = Reply(w)
      BY <1>2, <2>5, <2>6 DEF FifoStep
    <3>2. w = 1
      BY <1>4, <3>1, ReplyFacts
    <3>3. c = next
      BY <1>1, <2>1, CommandParts DEF Fresh, Sorted, Control
    <3>4. QED
      BY <2>1, <3>2, <3>3, ExecuteDone, ProcessEffect
  <2>7. QED
    BY <2>3, <2>6 DEF Replies
<1>5. CASE w = Nack
  <2>1. UNCHANGED boardVars
    BY <1>2, <1>5
  <2>2. Done(next)' = Done(next)
    BY <2>1, ProcessEffect DEF Done, boardVars
  <2>3. \A v \in {0, 1} : Reply(v) # Reply(w)
    BY <1>5, ReplyFacts
  <2>4. \A v \in {0, 1} : Reply(v) \in Elems(fifo)' => Reply(v) \in Elems(fifo)
    BY <1>2, <2>3 DEF FifoStep
  <2>5. \A v \in {0, 1} : Skipped(Reply(v)) => Skipped(Reply(v))'
    BY <1>2, <2>3, ProcessEffect, SkippedKept
  <2>6. NoParts => NoParts'
    BY ProcessEffect DEF NoParts, LineStep
  <2>7. (bridge' = "reply" /\ NoParts') \/ (fbl' = "loop" /\ NoFirst')
    <3>1. SUFFICES ASSUME NEW g \in InRest, g.kind = "FF" PROVE bridge' = "reply" /\ NoParts'
      BY ProcessEffect DEF NoFirst
    <3>2. ~IsPart(g)
      BY <3>1, WholeMessage, ProcessEffect DEF Fresh, FirstWaits
    <3>3. g \in InLine /\ IsForeign(g)
      BY <1>1, <3>2, Inside DEF Frames
    <3>4. ASSUME NEW i \in DOMAIN parts PROVE IsPart(parts[i])
      <4>1. SUFFICES ASSUME ~IsPart(parts[i]) PROVE FALSE
        OBVIOUS
      <4>2. IsForeign(parts[i])
        BY <1>1, <1>3, <4>1 DEF Frames
      <4>3. LineBefore(parts[i], g)
        BY Inside DEF Elems
      <4>4. QED
        BY <1>1, <1>3, <3>3, <4>2, <4>3 DEF OneForeign
    <3>5. bridge = "reply" /\ \A h \in InRest : IsForeign(h)
      BY <3>4, WholeMessage, ProcessEffect DEF Fresh
    <3>6. QED
      BY <3>5, ProcessEffect DEF NoParts
  <2>8. QED
    BY <2>2, <2>4, <2>5, <2>6, <2>7, ProcessEffect DEF Fresh, Replies
<1>6. QED
  BY <1>4, <1>5

(* A fresh exchange stays fresh when the FBL answers a whole message.      *)
LEMMA ProcessFresh ==
  ASSUME IInv, bridge # "idle", BL_ProcessFrame, Fresh
  PROVE  Fresh'
<1>1. FifoType /\ QueuesType /\ FblType /\ OneForeign /\ Control /\ HostType /\ BridgeType /\ Frames
  BY TypeParts DEF IInv, Session
<1>2. PICK w \in {0, 1, Nack} :
        /\ FifoStep({Reply(w)}) /\ (fifo = <<>> => fifo' = <<Reply(w)>>)
        /\ w = Nack => \A c \in Commands : ~IsCommand(c)
  BY ProcessEffect
<1>3. Sorted'
  BY ProcessEffect, SortedLess DEF Fresh
<1>4. ~FirstWaits'
  BY WholeMessage, ProcessEffect DEF Fresh, FirstWaits
<1>5. Overtaken'
  BY <1>4 DEF Overtaken
<1>6. FlowComes' => FlowComes
  BY <1>2, ReplyFacts DEF FlowComes, FifoStep
<1>7. ForeignReply'
  <2>1. SUFFICES ASSUME \E g \in Elems(fifo)' : IsForeign(g) /\ g.kind = "SF" PROVE ForeignReply'
    BY DEF ForeignReply
  <2>2. PICK r \in Elems(fifo) : IsForeign(r) /\ r.kind = "SF"
    BY <1>2, <2>1, ReplyFacts DEF FifoStep
  <2>3. \A g, h : RestBefore(g, h)' => RestBefore(g, h)
    BY ProcessEffect DEF RestStep
  <2>4. \A g, h \in Elems(fifo)' : Before(fifo, g, h)' => ~(g.kind = "FC" /\ h.kind = "FC")
    <3>1. ASSUME NEW g, NEW h, Before(fifo, g, h)', g.kind = "FC", h.kind = "FC" PROVE FALSE
      <4>1. h # Reply(w)
        BY <3>1, ReplyFacts
      <4>2. Before(fifo, g, h) /\ g \in Elems(fifo) /\ h \in Elems(fifo)
        BY <1>2, <3>1, <4>1, Inside DEF FifoStep
      <4>3. QED
        BY <2>2, <3>1, <4>2 DEF Fresh, ForeignReply
    <3>2. QED
      BY <3>1
  <2>5. QED
    BY <1>6, <2>2, <2>3, <2>4, ProcessEffect DEF Fresh, ForeignReply
<1>8. LockStep'
  <2>1. SUFFICES ASSUME foreign' = 0 PROVE LockStep'
    BY DEF LockStep
  <2>2. foreign = 0 /\ LockStep
    BY <2>1, ProcessEffect DEF Fresh
  <2>3. cmd \in Commands /\ sent \in Nat /\ sent <= Parts /\ Parts \in Nat
    BY <1>1, ConstantFacts DEF Control, HostType, BridgeType
  <2>4. parts = [i \in 1 .. Parts |-> Part(cmd, i)]
    <3>1. parts = [i \in DOMAIN parts |-> parts[i]]
      BY <1>1, LenProperties DEF FblType
    <3>2. QED
      BY <2>2, <3>1, ProcessEffect DEF LockStep
  <2>5. w \in {0, 1}
    BY <1>2, <2>3, <2>4 DEF IsCommand
  <2>6. RestEmpty /\ fifo = <<>>
    <3>1. parts # <<>> /\ Len(parts) = Parts
      BY ProcessEffect
    <3>2. Parts # sent - 1
      BY <2>3
    <3>3. QED
      BY <2>2, <2>3, <3>1, <3>2 DEF LockStep, RestEmpty
  <2>7. DOMAIN <<>> = {}
    OBVIOUS
  <2>8. RestEmpty' /\ fifo' \in {<<Reply(0)>>, <<Reply(1)>>} /\ parts' = <<>> /\ bridge' # "stream"
    BY <1>2, <2>2, <2>5, <2>6, ProcessEffect DEF LockStep
  <2>9. QED
    BY <2>7, <2>8 DEF LockStep, RestEmpty
<1>9. QED
  BY <1>3, <1>5, <1>7, <1>8, ProcessReplies DEF Fresh


(* Executing a command keeps the session: it is the one the host waits     *)
(* for, or nothing is acknowledged yet.                                    *)
LEMMA ProcessStep ==
  ASSUME IInv, BL_ProcessFrame
  PROVE  Session'
<1>1. FifoType /\ QueuesType /\ FblType /\ HostType /\ BoardType
  BY TypeParts DEF IInv
<1>2. PICK w \in {0, 1, Nack} :
        /\ FifoStep({Reply(w)})
        /\ w \in {0, 1} => \E c \in Commands : IsCommand(c) /\ Execute(c) /\ w = Result(c)
        /\ w = Nack => UNCHANGED boardVars
  BY ProcessEffect
<1>3. Frames' /\ OneForeign' /\ OfSession'
  BY <1>2, ProcessEffect, FramesKept, OneForeignKept, OfSessionKept, ReplyFacts DEF IInv, Session
<1>4. Receiving'
  BY ProcessEffect, ReceivingKept DEF IInv, Session
<1>5. Told' /\ AckedIsOnBoard'
  <2>1. CASE w = Nack
    BY <1>2, <2>1, ProcessEffect, ToldKept DEF IInv, Session
  <2>2. CASE w \in {0, 1}
    <3>1. PICK c \in Commands : IsCommand(c) /\ Execute(c) /\ w = Result(c)
      BY <1>2, <2>2
    <3>2. parts[1] \in InLine /\ IsPart(parts[1]) /\ parts[1].of = c
      BY <1>1, <3>1, CommandParts
    <3>3. ~NoParts
      BY <3>2 DEF NoParts, IsForeign, IsPart
    <3>4. serialReply # << 1 >>
      BY <3>3 DEF IInv, Session, Control, Progress, Waiting
    <3>5. Told'
      BY <3>4, ProcessEffect DEF Told
    <3>6. AckedIsOnBoard'
      <4>1. CASE next = Erase
        BY <1>1, <4>1, ProcessEffect, ConstantFacts DEF AckedIsOnBoard
      <4>2. CASE next # Erase
        <5>1. c = next
          BY <3>2, <4>2 DEF IInv, Session, OfSession
        <5>2. /\ written' = written \cup {b \in 1 .. Blocks : c = Write(b)}
              /\ installed => installed'
          BY <3>1, <4>2, <5>1 DEF Execute
        <5>3. next > Erase /\ next \in Nat
          BY <1>1, <4>2, ConstantFacts DEF HostType
        <5>4. /\ \A b \in 1 .. Blocks : /\ Write(b) < next => b \in written
                                        /\ b \in written => Write(b) <= next
              /\ next > Verify => installed
          BY <5>3 DEF IInv, Session, AckedIsOnBoard
        <5>5. ASSUME NEW b \in 1 .. Blocks, b \in written' PROVE Write(b) <= next
          <6>1. CASE b \in written
            BY <5>4, <6>1
          <6>2. CASE c = Write(b)
            BY <5>1, <5>3, <6>2
          <6>3. QED
            BY <5>2, <5>5, <6>1, <6>2
        <5>6. QED
          BY <5>2, <5>4, <5>5, ProcessEffect DEF AckedIsOnBoard
      <4>3. QED
        BY <4>1, <4>2
    <3>7. QED
      BY <3>5, <3>6
  <2>3. QED
    BY <2>1, <2>2
<1>6. ASSUME Stale PROVE Stale'
  <2>1. /\ \A g \in InRest' : g \in InRest
        /\ \A g, h : RestBefore(g, h)' => RestBefore(g, h)
    BY ProcessEffect DEF RestStep
  <2>2. ASSUME bridge = "flow", NEW g \in Elems(fifo)' PROVE g.kind = "SF" /\ ~IsForeign(g)
    BY <1>2, <1>6, <2>2, ReplyFacts DEF FifoStep, Stale
  <2>3. QED
    BY <1>6, <2>1, <2>2, ProcessEffect DEF Stale
<1>7. Progress'
  <2>1. NoParts => NoParts'
    BY ProcessEffect DEF NoParts, LineStep
  <2>2. Waiting => Waiting'
    BY ProcessEffect DEF Waiting
  <2>3. ~LineEmpty
    BY ProcessEffect DEF LineEmpty
  <2>4. QED
    BY <1>6, <2>1, <2>2, <2>3, ProcessEffect, ProcessFresh DEF IInv, Session, Progress
<1>8. QED
  BY <1>3, <1>4, <1>5, <1>7 DEF Session

(* A step of the FBL. *)
LEMMA FblSession ==
  ASSUME IInv, FblStep
  PROVE  Session'
<1>1. CASE Interrupt \/ FblFault \/ FblTimeout
  BY <1>1, LossActions, LossStep
<1>2. CASE FblFirst
  <2>1. PICK f \in AllFrames :
          /\ fbl = "loop" /\ Ring!Take(f)
          /\ CASE f.kind = "FF" -> fbl' = "receive" /\ parts' = <<f>> /\ Transmit(Flow)
               [] f.kind = "SF" -> UNCHANGED fblVars /\ Transmit(Reply(Nack))
               [] OTHER -> UNCHANGED <<fblVars, fifo>>
          /\ UNCHANGED <<hostVars, serialCmd, serialReply, bridge, cmd, sent, boardVars, foreign>>
    BY <1>2 DEF FblFirst
  <2>2. CASE f.kind = "FF"
    <3>1. fbl' = "receive" /\ parts' = <<f>> /\ Transmit(Flow)
      BY <2>1, <2>2
    <3>2. First(f)
      BY <2>1, <2>2, <3>1 DEF First, Transmit
    <3>3. QED
      BY <3>2, FirstStep
  <2>3. CASE f.kind = "SF"
    <3>1. UNCHANGED fblVars /\ Transmit(Reply(Nack))
      BY <2>1, <2>3
    <3>2. Single(f)
      BY <2>1, <2>3, <3>1 DEF Single, Transmit
    <3>3. QED
      BY <3>2, SingleStep
  <2>4. CASE f.kind # "FF" /\ f.kind # "SF"
    <3>1. UNCHANGED <<fblVars, fifo>>
      BY <2>1, <2>4
    <3>2. QED
      BY <1>2, <3>1, LossActions, LossStep
  <2>5. QED
    BY <2>2, <2>3, <2>4
<1>3. CASE FblNext
  <2>1. PICK f \in AllFrames :
          /\ fbl = "receive" /\ Len(parts) < Parts /\ Ring!Take(f)
          /\ IF f.kind = "CF"
               THEN /\ parts' = Append(parts, f) /\ UNCHANGED fbl
                    /\ IF Len(parts) + 1 < Parts THEN Transmit(Flow) ELSE UNCHANGED fifo
               ELSE fbl' = "loop" /\ parts' = <<>> /\ UNCHANGED fifo
          /\ UNCHANGED <<hostVars, serialCmd, serialReply, bridge, cmd, sent, boardVars, foreign>>
    BY <1>3 DEF FblNext
  <2>2. CASE f.kind = "CF"
    <3>1. Consecutive(f)
      BY <2>1, <2>2 DEF Consecutive, Transmit
    <3>2. QED
      BY <3>1, ConsecutiveStep
  <2>3. CASE f.kind # "CF"
    BY <1>3, <2>1, <2>3, LossActions, LossStep
  <2>4. QED
    BY <2>2, <2>3
<1>4. CASE BL_ProcessFrame
  BY <1>4, ProcessStep
<1>5. QED
  BY <1>1, <1>2, <1>3, <1>4 DEF FblStep

-----------------------------------------------------------------------------
(* The bridge sends and listens.                                           *)

(* The bridge changes neither the host, nor the FBL, nor the board.        *)
LEMMA Unmoved ==
  ASSUME IInv, BridgeStep
  PROVE  /\ next' = next /\ host' = host /\ parts' = parts /\ fbl' = fbl
         /\ UNCHANGED boardVars /\ written' = written /\ installed' = installed /\ foreign' = foreign
  BY DEF BridgeStep, BridgeTake, BridgeFlow, BridgeOverflow, BridgeStream, BridgeReply, BridgeTimeout,
         hostVars, fblVars, boardVars

(* A part that the bridge sends joins the line behind everything else.     *)
LEMMA SendEffect ==
  ASSUME QueuesType, NEW c \in Commands, NEW i \in 1 .. Parts, SendPart(c, i), parts' = parts
  PROVE  /\ sent' = i /\ queue' = queue /\ RestStep({Part(c, i)}) /\ LineStep({Part(c, i)})
         /\ inbox = <<>> => inbox' \in {<<>>, <<Part(c, i)>>}
<1>1. sent' = i /\ ToFbl(Part(c, i)) /\ Part(c, i) \in AllFrames
  BY PartFacts DEF SendPart
<1>2. RestStep({Part(c, i)}) /\ queue' = queue /\ (inbox = <<>> => inbox' \in {<<>>, <<Part(c, i)>>})
  BY <1>1, ArriveEffect
<1>3. QED
  BY <1>1, <1>2, LineKept

(* A command comes over the serial line; its first frame leaves. *)
LEMMA BridgeTakeStep ==
  ASSUME IInv, BridgeTake
  PROVE  Session'
<1>1. FifoType /\ QueuesType /\ FblType /\ Control /\ HostType /\ BridgeType /\ Frames /\ Receiving /\ OneForeign
  BY TypeParts DEF IInv, Session
<1>2. /\ bridge = "idle" /\ serialCmd # None /\ serialReply' = serialReply
      /\ cmd' = serialCmd /\ fifo' = <<>> /\ bridge' = "flow" /\ SendPart(serialCmd, 1)
  BY DEF BridgeTake
<1>3. serialCmd \in Commands /\ serialCmd = next /\ 1 \in 1 .. Parts /\ sent = 0
  BY <1>1, <1>2, ConstantFacts DEF HostType, Control
<1>4. PICK e \in AllFrames : e = Part(serialCmd, 1)
  BY <1>3, PartFacts
<1>5. e.kind = "FF" /\ e.of = next /\ e.part = 1 /\ IsPart(e) /\ ~IsForeign(e)
  BY <1>3, <1>4, PartFacts
<1>6. /\ next' = next /\ host' = host /\ parts' = parts /\ fbl' = fbl
      /\ UNCHANGED boardVars /\ foreign' = foreign
  BY Unmoved DEF BridgeStep
<1>7. /\ sent' = 1 /\ queue' = queue /\ RestStep({e}) /\ LineStep({e})
      /\ inbox = <<>> => inbox' \in {<<>>, <<e>>}
  BY <1>1, <1>2, <1>3, <1>4, <1>6, SendEffect
<1>8. FifoStep({})
  BY <1>2, FifoSame
<1>9. Frames' /\ OneForeign' /\ OfSession'
  BY <1>5, <1>6, <1>7, <1>8, FramesKept, OneForeignKept, OfSessionKept DEF IInv, Session
<1>10. Receiving' /\ Told' /\ AckedIsOnBoard'
  BY <1>2, <1>6, ReceivingKept, ToldKept DEF IInv, Session
<1>11. Elems(fifo)' = {}
  BY <1>2, SeqEmpty
<1>12. CASE NoParts /\ (foreign = 0 => LineEmpty)
  <2>1. \A f \in InLine' : f \in InLine \/ f = e
    BY <1>7 DEF LineStep
  <2>2. \A f \in InLine : IsForeign(f) /\ ~IsPart(f)
    BY <1>12 DEF NoParts, IsForeign, IsPart
  <2>3. Sorted'
    <3>1. \A f \in InLine' : IsPart(f) => f.of = cmd' /\ f.part <= sent'
      BY <1>2, <1>3, <1>5, <1>7, <2>1, <2>2
    <3>2. \A f, g \in InLine' : LineBefore(f, g)' => f \in InLine
      BY <1>7, Inside DEF LineStep
    <3>3. (\A f \in Elems(parts)' : IsPart(f)) => \A i \in DOMAIN parts' : parts'[i].part >= i
      <4>1. SUFFICES ASSUME \A f \in Elems(parts)' : IsPart(f), NEW i \in DOMAIN parts' PROVE FALSE
        OBVIOUS
      <4>2. parts[i] \in Elems(parts) /\ IsPart(parts[i])
        BY <1>6, <4>1 DEF Elems
      <4>3. QED
        BY <2>2, <4>2, Inside
    <3>4. QED
      BY <2>2, <3>1, <3>2, <3>3 DEF Sorted
  <2>4. Overtaken'
    <3>1. SUFFICES ASSUME NEW g \in InLine', IsForeign(g), g.kind = "FF", NEW f \in InLine', f.kind = "SF"
                   PROVE  FALSE
      BY <1>7, <1>11 DEF Overtaken, FlowComes
    <3>2. f \in InLine /\ g \in InLine /\ IsForeign(f)
      BY <1>5, <2>1, <2>2, <3>1
    <3>3. QED
      BY <1>1, <3>1, <3>2, OneInLine
  <2>5. ForeignReply' /\ Replies'
    BY <1>11 DEF ForeignReply, Replies
  <2>6. LockStep'
    <3>1. SUFFICES ASSUME foreign' = 0 PROVE LockStep'
      BY DEF LockStep
    <3>2. parts = <<>> /\ queue = <<>> /\ inbox = <<>>
      BY <1>6, <1>12, <3>1 DEF LineEmpty
    <3>3. Part(cmd, sent)' = e
      BY <1>2, <1>4, <1>7
    <3>4. DOMAIN <<>> = {}
      OBVIOUS
    <3>5. QED
      BY <1>2, <1>6, <1>7, <3>2, <3>3, <3>4 DEF LockStep, OnTheWay
  <2>7. QED
    BY <1>2, <1>9, <1>10, <2>3, <2>4, <2>5, <2>6 DEF Session, Progress, Fresh
<1>13. CASE Stale
  <2>1. \A f \in InRest : f.kind # "FF"
    BY <1>2, <1>13 DEF Stale
  <2>2. \A f \in InRest' : f.kind = "FF" => bridge' = "flow" /\ f = Part(cmd, 1)'
    BY <1>2, <1>4, <1>7, <2>1 DEF RestStep
  <2>3. \A f, g \in InRest' : RestBefore(f, g)' => f.kind # "FF"
    BY <1>7, <2>1, Inside DEF RestStep
  <2>4. Stale'
    BY <1>6, <1>7, <1>11, <1>13, <2>2, <2>3 DEF Stale
  <2>5. QED
    BY <1>2, <1>9, <1>10, <2>4 DEF Session, Progress
<1>14. QED
  BY <1>2, <1>12, <1>13 DEF IInv, Session, Progress, Waiting


(* A frame that is no flow control is thrown away while it is waited for. *)
LEMMA BridgeDropStep ==
  ASSUME IInv, BridgeFlow, Head(fifo).kind # "FC"
  PROVE  Session'
<1>1. FifoType /\ QueuesType /\ FblType /\ Control
  BY TypeParts DEF IInv
<1>2. /\ bridge = "flow" /\ fifo # <<>> /\ fifo' = Tail(fifo) /\ cmd' = cmd
      /\ bridge' = bridge /\ sent' = sent /\ inbox' = inbox /\ queue' = queue
      /\ serialCmd' = serialCmd /\ serialReply' = serialReply
  BY DEF BridgeFlow, ringVars
<1>3. /\ next' = next /\ host' = host /\ parts' = parts /\ fbl' = fbl
      /\ UNCHANGED boardVars /\ foreign' = foreign
  BY Unmoved DEF BridgeStep
<1>4. FifoStep({}) /\ Head(fifo) \in Elems(fifo)
  BY <1>1, <1>2, FifoLeaves
<1>5. RestStep({}) /\ LineStep({}) /\ InRest' = InRest
  BY <1>2, <1>3, SameEffect, LineKept
<1>6. /\ \A f \in Elems(fifo)' : f \in Elems(fifo)
      /\ \A f, g : Before(fifo, f, g)' => Before(fifo, f, g)
      /\ \A f \in InLine' : f \in InLine
      /\ \A f, g : RestBefore(f, g)' => RestBefore(f, g)
  BY <1>4, <1>5 DEF FifoStep, LineStep, RestStep
<1>7. Frames' /\ OneForeign' /\ OfSession'
  BY <1>3, <1>4, <1>5, FramesKept, OneForeignKept, OfSessionKept DEF IInv, Session
<1>8. Receiving' /\ Told' /\ AckedIsOnBoard'
  BY <1>2, <1>3, ReceivingKept, ToldKept DEF IInv, Session
<1>9. CASE Fresh
  <2>1. Sorted'
    BY <1>2, <1>3, <1>5, <1>9, SortedLess DEF Fresh
  <2>2. /\ FirstWaits' => FirstWaits
        /\ FlowComes' => FlowComes
    BY <1>5, <1>6 DEF FirstWaits, FlowComes
  <2>3. Overtaken'
    BY <1>2, <1>6, <1>9, <2>2 DEF Fresh, Overtaken
  <2>4. ForeignReply'
    BY <1>2, <1>3, <1>5, <1>6, <1>9, <2>2 DEF Fresh, ForeignReply
  <2>5. Replies'
    <3>1. \A w \in {0, 1, Nack} : Skipped(Reply(w)) => Skipped(Reply(w))'
      BY <1>2, <1>4, SkippedKept
    <3>2. NoFirst' = NoFirst
      BY <1>5 DEF NoFirst
    <3>3. QED
      BY <1>2, <1>3, <1>6, <1>9, <3>1, <3>2 DEF Fresh, Replies
  <2>6. LockStep'
    <3>1. SUFFICES ASSUME foreign = 0 PROVE LockStep'
      BY <1>3 DEF LockStep
    <3>2. fifo # <<>> /\ fifo # <<Flow>>
      <4>1. Head(<<Flow>>) = Flow
        OBVIOUS
      <4>2. QED
        BY <1>2, <4>1, ReplyFacts
    <3>3. fifo \in {<<Reply(0)>>, <<Reply(1)>>} /\ parts = <<>> /\ queue = <<>> /\ inbox = <<>>
      BY <1>9, <3>1, <3>2 DEF Fresh, LockStep
    <3>4. \A f : Tail(<<f>>) = <<>>
      OBVIOUS
    <3>5. fifo' = <<>> /\ DOMAIN <<>> = {}
      BY <1>2, <3>3, <3>4
    <3>6. QED
      BY <1>2, <1>3, <3>3, <3>5 DEF LockStep
  <2>7. QED
    BY <1>2, <1>7, <1>8, <2>1, <2>3, <2>4, <2>5, <2>6 DEF Session, Progress, Fresh
<1>10. CASE Stale
  <2>1. Stale'
    BY <1>2, <1>3, <1>5, <1>6, <1>10 DEF Stale
  <2>2. QED
    BY <1>2, <1>7, <1>8, <2>1 DEF Session, Progress
<1>11. QED
  BY <1>2, <1>9, <1>10 DEF IInv, Session, Progress

(* The next part leaves. *)
LEMMA NextPart ==
  ASSUME IInv, bridge \in {"flow", "stream"}, SendPart(cmd, sent + 1),
         FifoStep({}), cmd' = cmd, UNCHANGED <<serialCmd, serialReply>>, BridgeStep
  PROVE  /\ Frames' /\ OneForeign' /\ OfSession' /\ Receiving' /\ Told' /\ AckedIsOnBoard'
         /\ \E e \in AllFrames :
              /\ e = Part(cmd, sent + 1) /\ e.kind = "CF" /\ IsPart(e)
              /\ RestStep({e}) /\ LineStep({e}) /\ (inbox = <<>> => inbox' \in {<<>>, <<e>>})
         /\ sent \in Nat /\ sent >= 1 /\ sent < Parts /\ sent' = sent + 1 /\ queue' = queue
         /\ Sorted => Sorted'
         /\ Overtaken /\ (sent >= 2 \/ FlowComes) => Overtaken'
<1>1. FifoType /\ QueuesType /\ FblType /\ Control /\ HostType /\ BridgeType
  BY TypeParts DEF IInv
<1>2. /\ next' = next /\ host' = host /\ parts' = parts /\ fbl' = fbl
      /\ UNCHANGED boardVars /\ foreign' = foreign
  BY Unmoved
<1>3. /\ sent \in Nat /\ sent >= 1 /\ sent < Parts /\ sent + 1 \in 1 .. Parts /\ sent + 1 # 1
      /\ cmd = next /\ cmd \in Commands
  BY <1>1, ConstantFacts DEF Control, BridgeType, HostType
<1>4. PICK e \in AllFrames : e = Part(cmd, sent + 1)
  BY <1>3, PartFacts
<1>5. /\ e.kind = "CF" /\ IsPart(e) /\ ~IsForeign(e) /\ e.of = cmd /\ e.part = sent + 1
  BY <1>3, <1>4, PartFacts
<1>6. /\ sent' = sent + 1 /\ queue' = queue /\ RestStep({e}) /\ LineStep({e})
      /\ inbox = <<>> => inbox' \in {<<>>, <<e>>}
  BY <1>1, <1>2, <1>3, <1>4, SendEffect
<1>7. Frames' /\ OneForeign' /\ OfSession'
  BY <1>2, <1>3, <1>5, <1>6, FramesKept, OneForeignKept, OfSessionKept DEF IInv, Session
<1>8. Receiving' /\ Told' /\ AckedIsOnBoard'
  BY <1>2, ReceivingKept, ToldKept DEF IInv, Session
<1>9. ASSUME Sorted PROVE Sorted'
  <2>1. ASSUME NEW f \in InLine', IsPart(f) PROVE f.of = cmd' /\ f.part <= sent'
    <3>1. CASE f = e
      BY <1>3, <1>5, <1>6, <3>1
    <3>2. CASE f \in InLine
      <4>1. f.of = cmd /\ f.part <= sent /\ f.part \in Nat
        BY <1>1, <1>9, <2>1, <3>2, AreFrames, FrameFacts DEF Sorted
      <4>2. QED
        BY <1>3, <1>6, <4>1
    <3>3. QED
      BY <1>6, <3>1, <3>2 DEF LineStep
  <2>2. ASSUME NEW f \in InLine', NEW g \in InLine', LineBefore(f, g)', IsPart(f), IsPart(g)
        PROVE  f.part < g.part
    <3>1. CASE LineBefore(f, g)
      BY <1>9, <2>2, <3>1, Inside DEF Sorted
    <3>2. CASE f \in InLine /\ g = e
      <4>1. f.part <= sent /\ f.part \in Nat
        BY <1>1, <1>9, <2>2, <3>2, AreFrames, FrameFacts DEF Sorted
      <4>2. QED
        BY <1>3, <1>5, <3>2, <4>1
    <3>3. QED
      BY <1>6, <2>2, <3>1, <3>2 DEF LineStep
  <2>3. (\A f \in Elems(parts)' : IsPart(f)) => \A i \in DOMAIN parts' : parts'[i].part >= i
    BY <1>2, <1>9 DEF Sorted, Elems
  <2>4. QED
    BY <2>1, <2>2, <2>3 DEF Sorted
<1>10. ASSUME Overtaken, sent >= 2 \/ FlowComes PROVE Overtaken'
  <2>1. SUFFICES ASSUME FirstWaits' PROVE \A f \in InLine' \cup Elems(fifo)' : f.kind # "SF"
    BY DEF Overtaken
  <2>2. FirstWaits
    BY <1>5, <1>6, <2>1 DEF FirstWaits, RestStep
  <2>3. \A f \in InLine \cup Elems(fifo) : f.kind # "SF"
    BY <1>10, <2>2 DEF Overtaken
  <2>4. QED
    BY <1>5, <1>6, <2>3 DEF LineStep, FifoStep
<1>11. QED
  BY <1>3, <1>4, <1>5, <1>6, <1>7, <1>8, <1>9, <1>10

(* It was asked for. *)
LEMMA BridgeAskedStep ==
  ASSUME IInv, BridgeFlow, Head(fifo).kind = "FC"
  PROVE  Session'
<1>1. FifoType /\ QueuesType /\ FblType /\ Control /\ HostType /\ BridgeType /\ Frames /\ OneForeign
  BY TypeParts DEF IInv, Session
<1> DEFINE h == Head(fifo)
<1>2. /\ bridge = "flow" /\ fifo # <<>> /\ fifo' = Tail(fifo) /\ cmd' = cmd
      /\ serialCmd' = serialCmd /\ serialReply' = serialReply /\ SendPart(cmd, sent + 1)
      /\ bridge' = IF sent + 1 = Parts THEN "reply" ELSE IF h.part = 0 THEN "stream" ELSE "flow"
  BY DEF BridgeFlow
<1>3. BridgeStep
  BY DEF BridgeStep
<1>4. /\ next' = next /\ host' = host /\ parts' = parts /\ fbl' = fbl
      /\ UNCHANGED boardVars /\ foreign' = foreign
  BY <1>3, Unmoved
<1>5. /\ FifoStep({}) /\ h \in Elems(fifo) /\ h.kind = "FC"
      /\ \A g \in Elems(fifo)' : Before(fifo, h, g) /\ g \in Elems(fifo)
  BY <1>1, <1>2, FifoLeaves DEF FifoStep
<1>6. PICK f \in Elems(fifo) : f = h
  BY <1>5
<1>7. FlowComes /\ ~Stale
  BY <1>2, <1>5 DEF FlowComes, Stale
<1>8. Fresh
  BY <1>2, <1>7 DEF IInv, Session, Progress
<1>9. /\ Frames' /\ OneForeign' /\ OfSession' /\ Receiving' /\ Told' /\ AckedIsOnBoard'
      /\ sent \in Nat /\ sent >= 1 /\ sent < Parts /\ sent' = sent + 1 /\ queue' = queue
      /\ Sorted' /\ Overtaken'
  BY <1>2, <1>3, <1>5, <1>7, <1>8, NextPart DEF Fresh
<1>10. PICK e \in AllFrames :
         /\ e = Part(cmd, sent + 1) /\ e.kind = "CF" /\ IsPart(e)
         /\ RestStep({e}) /\ LineStep({e}) /\ (inbox = <<>> => inbox' \in {<<>>, <<e>>})
  BY <1>2, <1>3, <1>5, NextPart
<1>11. ForeignReply'
  <2>1. SUFFICES ASSUME \E g \in Elems(fifo)' : IsForeign(g) /\ g.kind = "SF" PROVE ForeignReply'
    BY DEF ForeignReply
  <2>2. PICK r \in Elems(fifo)' : IsForeign(r) /\ r.kind = "SF"
    BY <2>1
  <2>3. r \in Elems(fifo) /\ Before(fifo, f, r)
    BY <1>5, <1>6
  <2>4. ~IsForeign(f)
    BY <1>1, <2>2, <2>3 DEF OneForeign
  <2>5. f.part # 0
    BY <2>4 DEF IsForeign
  <2>6. bridge' # "stream"
    BY <1>2, <1>6, <2>5
  <2>7. /\ fbl = "receive" => Len(parts) >= sent
        /\ \A g \in InRest : ~IsPart(g)
        /\ \A g, i \in Elems(fifo) : Before(fifo, g, i) => ~(g.kind = "FC" /\ i.kind = "FC")
    BY <1>7, <1>8, <2>2, <2>3 DEF Fresh, ForeignReply
  <2>8. ~FlowComes'
    BY <1>5, <1>6, <2>7 DEF FlowComes
  <2>9. fbl' = "receive" => Len(parts') >= sent' - 1
    BY <1>4, <1>9, <2>7
  <2>10. \A g, i \in InRest' : RestBefore(g, i)' => ~(IsPart(g) /\ IsPart(i))
    BY <1>10, <2>7, Inside DEF RestStep
  <2>11. \A g, i \in Elems(fifo)' : Before(fifo, g, i)' => ~(g.kind = "FC" /\ i.kind = "FC")
    BY <2>8 DEF FlowComes
  <2>12. QED
    BY <2>6, <2>8, <2>9, <2>10, <2>11 DEF ForeignReply
<1>12. Replies'
  <2>1. ASSUME NEW w \in {0, 1, Nack}, Reply(w) \in Elems(fifo)'
        PROVE  Reply(w) \in Elems(fifo) /\ ~Skipped(Reply(w))
    BY <1>5, <1>6, <2>1 DEF Skipped
  <2>2. NoFirst => NoFirst'
    BY <1>10 DEF NoFirst, RestStep
  <2>3. QED
    BY <1>2, <1>4, <1>8, <2>1, <2>2 DEF Fresh, Replies
<1>13. LockStep'
  <2>1. SUFFICES ASSUME foreign = 0 PROVE LockStep'
    BY <1>4 DEF LockStep
  <2>2. fifo # <<>> /\ fifo \notin {<<Reply(0)>>, <<Reply(1)>>}
    <3>1. Head(<<Reply(0)>>) = Reply(0) /\ Head(<<Reply(1)>>) = Reply(1)
      OBVIOUS
    <3>2. QED
      BY <1>2, <1>5, <3>1, ReplyFacts
  <2>3. /\ fifo = <<Flow>> /\ queue = <<>> /\ inbox = <<>> /\ (parts # <<>> => Len(parts) = sent)
        /\ \A i \in DOMAIN parts : parts[i] = Part(cmd, i)
    BY <1>8, <2>1, <2>2 DEF Fresh, LockStep
  <2>4. Head(<<Flow>>) = Flow /\ Tail(<<Flow>>) = <<>>
    OBVIOUS
  <2>5. fifo' = <<>> /\ bridge' # "stream"
    BY <1>2, <2>3, <2>4, ReplyFacts
  <2>6. e = Part(cmd, sent)'
    BY <1>2, <1>9, <1>10
  <2>7. inbox' \in {<<>>, <<e>>} /\ queue' = <<>>
    BY <1>9, <1>10, <2>3
  <2>8. sent' - 1 = sent /\ sent >= sent
    BY <1>9
  <2>9. \A i \in DOMAIN parts' : parts'[i] = Part(cmd, i)'
    BY <1>2, <1>4, <2>3
  <2>10. QED
    BY <1>4, <2>3, <2>5, <2>6, <2>7, <2>8, <2>9 DEF LockStep, OnTheWay
<1>14. bridge' # "idle"
  BY <1>2
<1>15. QED
  BY <1>9, <1>11, <1>12, <1>13, <1>14 DEF Session, Progress, Fresh

(* It belongs to a block that is sent without a pause. *)
LEMMA BridgeStreamStep ==
  ASSUME IInv, BridgeStream
  PROVE  Session'
<1>1. FifoType /\ QueuesType /\ FblType /\ Control /\ HostType /\ BridgeType
  BY TypeParts DEF IInv
<1>2. /\ bridge = "stream" /\ fifo' = fifo /\ cmd' = cmd /\ serialCmd' = serialCmd
      /\ serialReply' = serialReply /\ SendPart(cmd, sent + 1)
      /\ bridge' = IF sent + 1 = Parts THEN "reply" ELSE "stream"
  BY DEF BridgeStream
<1>3. BridgeStep
  BY DEF BridgeStep
<1>4. /\ next' = next /\ host' = host /\ parts' = parts /\ fbl' = fbl
      /\ UNCHANGED boardVars /\ foreign' = foreign
  BY <1>3, Unmoved
<1>5. FifoStep({}) /\ Elems(fifo)' = Elems(fifo)
  BY <1>2, FifoSame
<1>6. Fresh /\ foreign # 0 /\ sent >= 2
  BY <1>1, <1>2 DEF IInv, Session, Progress, Fresh, LockStep, Control
<1>7. /\ Frames' /\ OneForeign' /\ OfSession' /\ Receiving' /\ Told' /\ AckedIsOnBoard'
      /\ Sorted' /\ Overtaken'
  BY <1>2, <1>3, <1>5, <1>6, NextPart DEF Fresh
<1>8. PICK e \in AllFrames : e.kind = "CF" /\ RestStep({e})
  BY <1>2, <1>3, <1>5, NextPart
<1>9. ForeignReply'
  BY <1>2, <1>5, <1>6 DEF Fresh, ForeignReply
<1>10. Replies'
  <2>1. \A r : ~Skipped(r)
    BY <1>2 DEF Skipped
  <2>2. NoFirst => NoFirst'
    BY <1>8 DEF NoFirst, RestStep
  <2>3. QED
    BY <1>2, <1>4, <1>5, <1>6, <2>1, <2>2 DEF Fresh, Replies
<1>11. LockStep'
  BY <1>4, <1>6 DEF LockStep
<1>12. bridge' # "idle"
  BY <1>2
<1>13. QED
  BY <1>7, <1>9, <1>10, <1>11, <1>12 DEF Session, Progress, Fresh


(* The first frame after the last part is taken for the reply. *)
LEMMA BridgeReplyStep ==
  ASSUME 1 \notin ForeignReplies, IInv, BridgeReply
  PROVE  Session'
<1>1. /\ FifoType /\ QueuesType /\ FblType /\ Control /\ HostType /\ BridgeType /\ Frames /\ OneForeign
      /\ Receiving
  BY TypeParts DEF IInv, Session
<1>2. /\ bridge = "reply" /\ fifo # <<>> /\ fifo' = Tail(fifo) /\ bridge' = "idle" /\ cmd' = None
      /\ sent' = 0 /\ serialCmd' = serialCmd /\ inbox' = inbox /\ queue' = queue
      /\ serialReply' = IF Head(fifo).kind = "SF" THEN <<Head(fifo).of>> ELSE <<>>
  BY DEF BridgeReply, ringVars
<1>3. /\ next' = next /\ host' = host /\ parts' = parts /\ fbl' = fbl
      /\ UNCHANGED boardVars /\ foreign' = foreign /\ written' = written /\ installed' = installed
  BY Unmoved DEF BridgeStep
<1>4. FifoStep({}) /\ Head(fifo) \in Elems(fifo) /\ Head(fifo) \in AllFrames
  BY <1>1, <1>2, FifoLeaves, FifoTail
<1>5. PICK h \in AllFrames : h = Head(fifo) /\ h \in Elems(fifo)
  BY <1>4
<1>6. RestStep({}) /\ LineStep({}) /\ InRest' = InRest
  BY <1>2, <1>3, SameEffect, LineKept
<1>7. Frames' /\ OneForeign' /\ OfSession' /\ Receiving'
  BY <1>3, <1>4, <1>6, FramesKept, OneForeignKept, OfSessionKept, ReceivingKept DEF IInv, Session
<1>8. Fresh /\ host = "wait" /\ serialCmd = None /\ sent = Parts
  BY <1>1, <1>2 DEF IInv, Session, Progress, Control
<1>9. NoParts => NoParts'
  BY <1>6 DEF NoParts, LineStep
<1>10. Done(next)' = Done(next)
  BY <1>3 DEF Done
<1>11. \A r : ~Skipped(r)
  BY <1>2 DEF Skipped
<1>12. LineEmpty => LineEmpty'
  BY <1>2, <1>3 DEF LineEmpty
<1>13. ASSUME foreign = 0 PROVE (h \in {Flow, Reply(0), Reply(1)}) /\ (h # Flow => LineEmpty)
  <2>1. \A f : Head(<<f>>) = f /\ <<f>> # <<>>
    OBVIOUS
  <2>2. \/ fifo = <<Flow>>
        \/ fifo \in {<<Reply(0)>>, <<Reply(1)>>} /\ parts = <<>>
    BY <1>2, <1>8, <1>13 DEF Fresh, LockStep
  <2>3. queue = <<>> /\ inbox = <<>>
    BY <1>2, <1>8, <1>13 DEF Fresh, LockStep
  <2>4. QED
    BY <1>5, <2>1, <2>2, <2>3 DEF LineEmpty
<1>14. AckedIsOnBoard'
  BY <1>3 DEF IInv, Session, AckedIsOnBoard
(* No first frame that is foreign, nor one that is overtaken. *)
<1>15. ASSUME h.kind = "SF", IsForeign(h) PROVE Stale'
  <2>1. foreign # 0
    BY <1>1, <1>5, <1>15 DEF OneForeign
  <2>2. fbl = "receive" => Len(parts) >= Parts - 1
    BY <1>5, <1>8, <1>15 DEF Fresh, ForeignReply
  <2>3. ASSUME NEW f \in InRest, f.kind = "FF" PROVE FALSE
    <3>1. CASE IsPart(f)
      <4>1. FirstWaits /\ sent >= 2
        BY <1>8, <2>3, <3>1, ConstantFacts DEF FirstWaits
      <4>2. QED
        BY <1>5, <1>8, <1>15, <4>1 DEF Fresh, Overtaken
    <3>2. CASE IsForeign(f)
      <4>1. f = h
        BY <1>1, <1>5, <1>15, <2>3, <3>2, Inside DEF OneForeign
      <4>2. QED
        BY <1>15, <2>3, <4>1
    <3>3. QED
      BY <1>1, <2>3, <3>1, <3>2, Inside DEF Frames
  <2>4. QED
    BY <1>2, <1>3, <1>6, <2>1, <2>2, <2>3 DEF Stale
<1>16. CASE h.kind # "SF"
  <2>1. serialReply' = <<>>
    BY <1>2, <1>5, <1>16
  <2>2. Waiting'
    BY <1>2, <1>3, <1>8, <2>1 DEF Waiting
  <2>3. Told'
    BY <2>1 DEF Told
  <2>4. QED
    BY <1>2, <1>7, <1>14, <2>2, <2>3 DEF Session, Progress
<1>17. CASE h.kind = "SF" /\ IsForeign(h)
  <2>1. serialReply' = <<h.of>> /\ h.of # 1
    BY <1>2, <1>5, <1>17, FrameFacts
  <2>2. serialReply' # << 1 >>
    BY <2>1
  <2>3. Told'
    BY <2>2 DEF Told
  <2>4. QED
    BY <1>2, <1>7, <1>14, <1>15, <1>17, <2>2, <2>3 DEF Session, Progress
<1>18. CASE h.kind = "SF" /\ ~IsForeign(h)
  <2>1. PICK w \in {0, 1, Nack} : h = Reply(w)
    BY <1>1, <1>5, <1>18, ReplyFacts DEF Frames
  <2>2. serialReply' = <<w>>
    BY <1>2, <1>5, <1>18, <2>1, ReplyFacts
  <2>3. foreign = 0 => w # Nack /\ LineEmpty
    BY <1>13, <1>18, <2>1, ReplyFacts
  <2>4. CASE NoParts /\ (w = 1 => Done(next))
    <3>1. Told'
      <4>1. <<w>> = << 1 >> => w = 1
        OBVIOUS
      <4>2. QED
        BY <1>10, <2>2, <2>4, <4>1 DEF Told
    <3>2. NoParts' /\ (foreign' = 0 => LineEmpty')
      BY <1>3, <1>9, <1>12, <2>3, <2>4
    <3>3. QED
      BY <1>2, <1>7, <1>14, <3>1, <3>2 DEF Session, Progress
  <2>5. CASE w = Nack /\ fbl # "receive" /\ NoFirst
    <3>1. serialReply' = <<Nack>> /\ <<Nack>> # << 1 >>
      BY <2>2, <2>5 DEF Nack
    <3>2. Stale'
      BY <1>2, <1>3, <1>6, <2>3, <2>5 DEF Stale, NoFirst
    <3>3. Told'
      BY <3>1 DEF Told
    <3>4. QED
      BY <1>2, <1>7, <1>14, <3>1, <3>2, <3>3 DEF Session, Progress
  <2>6. QED
    <3>1. Reply(w) \in Elems(fifo) /\ ~Skipped(Reply(w))
      BY <1>5, <1>11, <2>1
    <3>2. 1 # Nack
      BY DEF Nack
    <3>3. QED
      BY <1>8, <2>4, <2>5, <3>1, <3>2 DEF Fresh, Replies
<1>19. QED
  BY <1>16, <1>17, <1>18

(* It gives up, at the end of its wait or when it is told of an overflow. *)
LEMMA BridgeEndStep ==
  ASSUME IInv, BridgeTimeout \/ BridgeOverflow
  PROVE  Session'
<1>1. FifoType /\ QueuesType /\ FblType /\ Control
  BY TypeParts DEF IInv
<1>2. /\ bridge # "idle" /\ bridge' = "idle" /\ inbox' = inbox /\ queue' = queue
      /\ serialCmd' = serialCmd /\ serialReply' = serialReply
      /\ fifo' = fifo \/ (fifo # <<>> /\ fifo' = Tail(fifo))
  BY DEF BridgeTimeout, BridgeOverflow, ringVars
<1>3. /\ next' = next /\ host' = host /\ parts' = parts /\ fbl' = fbl
      /\ UNCHANGED boardVars /\ foreign' = foreign
  BY Unmoved DEF BridgeStep
<1>4. FifoStep({}) /\ LineStep({})
  BY <1>1, <1>2, <1>3, FifoSame, FifoLeaves, SameEffect, LineKept
<1>5. Frames' /\ OneForeign' /\ OfSession' /\ Receiving'
  BY <1>3, <1>4, FramesKept, OneForeignKept, OfSessionKept, ReceivingKept DEF IInv, Session
<1>6. Told' /\ AckedIsOnBoard'
  BY <1>2, <1>3, ToldKept DEF IInv, Session
<1>7. host = "wait" /\ serialCmd = None /\ serialReply = <<>>
  BY <1>1, <1>2 DEF Control
<1>8. Waiting'
  BY <1>2, <1>3, <1>7 DEF Waiting
<1>9. QED
  BY <1>2, <1>5, <1>6, <1>8 DEF Session, Progress

(* Every step of the bridge keeps the session.                             *)
LEMMA BridgeSession ==
  ASSUME 1 \notin ForeignReplies, IInv, BridgeStep
  PROVE  Session'
  BY BridgeTakeStep, BridgeDropStep, BridgeAskedStep, BridgeStreamStep, BridgeReplyStep, BridgeEndStep
     DEF BridgeStep

-----------------------------------------------------------------------------
(* The host.                                                               *)

(* A step that leaves both ways alone keeps what is known of them.         *)
LEMMA LineUnchanged ==
  ASSUME UNCHANGED <<bridgeVars, ringVars, fblVars, foreign>>, IInv
  PROVE  /\ FifoStep({}) /\ LineStep({}) /\ Frames' /\ OneForeign' /\ Receiving'
         /\ bridge' = bridge /\ (NoParts => NoParts') /\ (LineEmpty => LineEmpty')
         /\ (Stale => Stale') /\ foreign' = foreign
<1>1. /\ bridge' = bridge /\ sent' = sent /\ cmd' = cmd /\ fifo' = fifo /\ inbox' = inbox /\ queue' = queue
      /\ fbl' = fbl /\ parts' = parts /\ foreign' = foreign
  BY DEF bridgeVars, ringVars, fblVars
<1>2. FifoStep({}) /\ RestStep({}) /\ LineStep({}) /\ InRest' = InRest /\ Elems(fifo)' = Elems(fifo)
  BY <1>1, FifoSame, SameEffect, LineKept
<1>3. Frames' /\ OneForeign' /\ Receiving'
  BY <1>1, <1>2, FramesKept, OneForeignKept, ReceivingKept DEF IInv, Session
<1>4. (NoParts => NoParts') /\ (LineEmpty => LineEmpty')
  BY <1>1, <1>2 DEF NoParts, LineStep, LineEmpty
<1>5. Stale => Stale'
  BY <1>1, <1>2 DEF Stale, RestStep
<1>6. QED
  BY <1>1, <1>2, <1>3, <1>4, <1>5

(* A step of the host keeps the session, and so does losing what is on the *)
(* serial line.                                                            *)
LEMMA HostSession ==
  ASSUME IInv, HostStart \/ HostStep \/ LoseSerial
  PROVE  Session'
<1>1. HostType /\ Control /\ OfSession /\ Told /\ AckedIsOnBoard /\ Progress
  BY TypeParts DEF IInv, Session
<1>2. UNCHANGED <<bridgeVars, ringVars, fblVars, foreign, written>>
  BY DEF HostStart, HostStep, HostSend, HostReply, HostTimeout, LoseSerial, boardVars
<1>3. /\ FifoStep({}) /\ LineStep({}) /\ Frames' /\ OneForeign' /\ Receiving'
      /\ bridge' = bridge /\ (NoParts => NoParts') /\ (LineEmpty => LineEmpty')
      /\ (Stale => Stale') /\ foreign' = foreign /\ written' = written
  BY <1>2, LineUnchanged
<1>4. CASE HostStart
  <2>1. host = "stopped" /\ next' = Erase /\ serialReply' = serialReply
    BY <1>4 DEF HostStart
  <2>2. bridge = "idle" /\ serialReply = <<>> /\ <<>> # << 1 >> /\ ~Waiting
    BY <1>1, <2>1 DEF Control, Waiting
  <2>3. OfSession'
    BY <1>1, <1>3, <2>1, OfSessionKept
  <2>4. Told' /\ AckedIsOnBoard'
    BY <2>1, <2>2, ConstantFacts DEF Told, AckedIsOnBoard
  <2>5. Progress'
    BY <1>1, <1>3, <2>1, <2>2 DEF Progress
  <2>6. QED
    BY <1>3, <2>3, <2>4, <2>5 DEF Session
<1>5. CASE HostSend
  <2>1. host = "send" /\ next' = next /\ serialReply' = serialReply /\ UNCHANGED boardVars
    BY <1>5 DEF HostSend
  <2>2. bridge = "idle" /\ serialReply = <<>> /\ <<>> # << 1 >> /\ ~Waiting
    BY <1>1, <2>1 DEF Control, Waiting
  <2>3. OfSession' /\ Told' /\ AckedIsOnBoard'
    BY <1>1, <1>3, <2>1, OfSessionKept, ToldKept
  <2>4. Progress'
    BY <1>1, <1>3, <2>1, <2>2 DEF Progress
  <2>5. QED
    BY <1>3, <2>3, <2>4 DEF Session
<1>6. CASE HostReply
  <2>1. /\ serialReply # <<>> /\ serialReply' = <<>> /\ <<>> # << 1 >>
        /\ UNCHANGED boardVars
    BY <1>6 DEF HostReply
  <2>2. bridge = "idle" /\ ~Waiting
    BY <1>1, <2>1 DEF Control, Waiting
  <2>3. Progress'
    BY <1>1, <1>3, <2>1, <2>2 DEF Progress
  <2>4. Told'
    BY <2>1 DEF Told
  <2>5. CASE serialReply[1] = 1
    <3>1. next' = next + 1 /\ installed' = installed /\ host = "wait"
      BY <1>6, <2>1, <2>5 DEF HostReply, boardVars
    <3>2. serialReply = << 1 >>
      <4>1. << 0 >>[1] = 0 /\ <<Nack>>[1] = Nack /\ Nack = 2
        BY DEF Nack
      <4>2. QED
        BY <1>1, <2>1, <2>5, <4>1 DEF HostType
    <3>3. NoParts /\ Done(next)
      BY <1>1, <2>2, <3>2 DEF Progress, Told
    <3>4. OfSession'
      BY <1>3, <3>3 DEF OfSession, NoParts, LineStep, IsPart, IsForeign
    <3>5. AckedIsOnBoard'
      <4>1. next \in Nat /\ next >= 1 /\ next <= Verify /\ host # "stopped"
        BY <1>1, <3>1, ConstantFacts DEF HostType, Control
      <4>2. ASSUME NEW b \in 1 .. Blocks
            PROVE  /\ Write(b) < next + 1 => b \in written
                   /\ b \in written => Write(b) <= next + 1
        <5>1. b \in Nat /\ b >= 1 /\ Write(b) = b + 1
          BY ConstantFacts
        <5>2. CASE next = Erase
          BY <3>3, <5>1, <5>2, ConstantFacts DEF Done
        <5>3. CASE next > Erase
          <6>1. /\ Write(b) < next => b \in written
                /\ b \in written => Write(b) <= next
                /\ next = Write(b) => b \in written
            BY <1>1, <3>3, <5>3 DEF AckedIsOnBoard, Done
          <6>2. QED
            BY <4>1, <5>1, <6>1
        <5>4. QED
          BY <4>1, <5>2, <5>3, ConstantFacts
      <4>3. next + 1 > Verify => installed
        <5>1. next + 1 > Verify => next = Verify
          BY <4>1, ConstantFacts
        <5>2. QED
          BY <3>3, <5>1 DEF Done
      <4>4. QED
        BY <1>3, <3>1, <4>2, <4>3 DEF AckedIsOnBoard
    <3>6. QED
      BY <1>3, <2>3, <2>4, <3>4, <3>5 DEF Session
  <2>6. CASE serialReply[1] # 1
    <3>1. next' = next
      BY <1>6, <2>6 DEF HostReply, SendAgain
    <3>2. OfSession' /\ AckedIsOnBoard'
      BY <1>1, <1>3, <2>1, <3>1, OfSessionKept, ToldKept
    <3>3. QED
      BY <1>3, <2>3, <2>4, <3>2 DEF Session
  <2>7. QED
    BY <2>5, <2>6
<1>7. CASE HostTimeout
  <2>1. /\ bridge = "idle" /\ FblQuiet /\ next' = next /\ serialReply' = serialReply
        /\ UNCHANGED boardVars
    BY <1>7 DEF HostTimeout, SendAgain
  <2>2. LineEmpty
    BY <2>1 DEF FblQuiet, LineEmpty, IInv, Session, Receiving
  <2>3. NoParts
    BY <2>2, SeqEmpty DEF LineEmpty, NoParts, InLine, InRest
  <2>4. OfSession' /\ Told' /\ AckedIsOnBoard'
    BY <1>1, <1>3, <2>1, OfSessionKept, ToldKept
  <2>5. Progress'
    BY <1>3, <2>1, <2>2, <2>3 DEF Progress
  <2>6. QED
    BY <1>3, <2>4, <2>5 DEF Session
<1>8. CASE LoseSerial
  <2>1. /\ serialCmd # None \/ serialReply # <<>>
        /\ serialCmd' = None /\ serialReply' = <<>> /\ next' = next /\ host' = host
        /\ UNCHANGED boardVars /\ <<>> # << 1 >>
    BY <1>8 DEF LoseSerial, hostVars
  <2>2. bridge = "idle" /\ host = "wait"
    BY <1>1, <2>1 DEF Control
  <2>3. Progress'
    BY <1>3, <2>1, <2>2 DEF Progress, Waiting
  <2>4. OfSession' /\ Told' /\ AckedIsOnBoard'
    BY <1>1, <1>3, <2>1, OfSessionKept, ToldKept
  <2>5. QED
    BY <1>3, <2>3, <2>4 DEF Session
<1>9. QED
  BY <1>4, <1>5, <1>6, <1>7, <1>8 DEF HostStep

-----------------------------------------------------------------------------
(* Another node sends a frame, to the bridge and to the FBL; it is the     *)
(* only one.                                                               *)

Other(e) == /\ e \in Foreign /\ ToFbl(e) /\ fifo' = Ring!Pushed(fifo, e)
            /\ foreign = 0 /\ foreign' = 1
            /\ UNCHANGED <<hostVars, serialCmd, serialReply, bridge, cmd, sent, fblVars, boardVars>>

(* A foreign frame joins both ways, and was the first one.                 *)
LEMMA OtherEffect ==
  ASSUME IInv, NEW e, Other(e)
  PROVE  /\ e \in AllFrames /\ IsForeign(e) /\ ~IsPart(e) /\ e # Flow /\ \A w \in {0, 1, Nack} : e # Reply(w)
         /\ RestStep({e}) /\ LineStep({e}) /\ FifoStep({e})
         /\ next' = next /\ host' = host /\ serialCmd' = serialCmd /\ serialReply' = serialReply
         /\ bridge' = bridge /\ cmd' = cmd /\ sent' = sent /\ fbl' = fbl /\ parts' = parts
         /\ written' = written /\ installed' = installed /\ UNCHANGED boardVars
         /\ \A f \in InLine \cup Elems(fifo) : ~IsForeign(f)
<1>1. FifoType /\ QueuesType /\ FblType /\ OneForeign
  BY TypeParts DEF IInv, Session
<1>2. e \in AllFrames /\ IsForeign(e) /\ ~IsPart(e)
  BY DEF Other, AllFrames, Foreign, IsForeign, IsPart
<1>3. e # Flow /\ \A w \in {0, 1, Nack} : e # Reply(w)
  BY <1>2, ReplyFacts
<1>4. /\ next' = next /\ host' = host /\ serialCmd' = serialCmd /\ serialReply' = serialReply
      /\ bridge' = bridge /\ cmd' = cmd /\ sent' = sent /\ fbl' = fbl /\ parts' = parts
      /\ written' = written /\ installed' = installed /\ UNCHANGED boardVars
  BY DEF Other, hostVars, fblVars, boardVars
<1>5. RestStep({e}) /\ FifoStep({e})
  BY <1>1, <1>2, ArriveEffect, FifoArrives DEF Other
<1>6. LineStep({e})
  BY <1>4, <1>5, LineKept
<1>7. \A f \in InLine \cup Elems(fifo) : ~IsForeign(f)
  BY <1>1 DEF OneForeign, Other
<1>8. QED
  BY <1>2, <1>3, <1>4, <1>5, <1>6, <1>7

(* A fresh exchange, which has been in step until then, stays fresh when   *)
(* the first foreign frame is heard.                                       *)
LEMMA OtherFresh ==
  ASSUME IInv, bridge # "idle", Fresh, NEW e, Other(e)
  PROVE  Fresh'
<1>1. FifoType /\ QueuesType /\ FblType /\ Control /\ BridgeType /\ HostType /\ Receiving
  BY TypeParts DEF IInv, Session
<1>2. /\ bridge # "stream"
      /\ \/ queue = <<>> /\ inbox = <<>>
         \/ OnTheWay(Part(cmd, sent)) /\ fifo = <<>> /\ (parts # <<>> => Len(parts) = sent - 1)
      /\ \/ fifo = <<>> /\ (parts # <<>> => Len(parts) >= sent - 1)
         \/ fifo = <<Flow>> /\ sent < Parts /\ (parts # <<>> => Len(parts) = sent)
         \/ fifo \in {<<Reply(0)>>, <<Reply(1)>>} /\ parts = <<>>
  BY DEF Fresh, LockStep, Other
<1>3. cmd \in Commands /\ sent \in 1 .. Parts /\ sent \in Nat /\ sent >= 1
  BY <1>1, ConstantFacts DEF Control, HostType, BridgeType
<1>4. PICK p \in AllFrames : p = Part(cmd, sent)
  BY <1>3, PartFacts
<1>5. p.part = sent /\ IsPart(p) /\ (p.kind = "FF" => sent = 1)
  BY <1>3, <1>4, PartFacts
<1>6. InRest \subseteq {p} /\ (InRest # {} => OnTheWay(p)) /\ \A f, g : ~RestBefore(f, g)
  <2>1. CASE queue = <<>> /\ inbox = <<>>
    BY <2>1, SeqEmpty DEF InRest, RestBefore
  <2>2. CASE OnTheWay(p)
    BY <2>2, SeqEmpty, SeqOne DEF InRest, RestBefore, OnTheWay
  <2>3. QED
    BY <1>2, <1>4, <2>1, <2>2
<1>7. OnTheWay(p) => fifo = <<>> /\ (parts # <<>> => Len(parts) = sent - 1)
  <2>1. OnTheWay(p) => ~(queue = <<>> /\ inbox = <<>>)
    BY DEF OnTheWay
  <2>2. QED
    BY <1>2, <2>1
<1>8. FlowComes => fifo = <<Flow>>
  <2>1. Elems(<<>>) = {} /\ Elems(<<Reply(0)>>) = {Reply(0)} /\ Elems(<<Reply(1)>>) = {Reply(1)}
    BY SeqEmpty, SeqOne
  <2>2. QED
    BY <1>2, <2>1, ReplyFacts DEF FlowComes
<1>9. Sorted'
  <2>1. ASSUME NEW f \in InLine', IsPart(f) PROVE f.of = cmd' /\ f.part <= sent'
    <3>1. f \in InLine /\ cmd' = cmd /\ sent' = sent
      BY <2>1, OtherEffect DEF LineStep
    <3>2. QED
      BY <2>1, <3>1 DEF Fresh, Sorted
  <2>2. ASSUME NEW f \in InLine', NEW g \in InLine', LineBefore(f, g)', IsPart(f), IsPart(g)
        PROVE  f.part < g.part
    BY <2>2, OtherEffect, Inside DEF Fresh, Sorted, LineStep
  <2>3. (\A f \in Elems(parts)' : IsPart(f)) => \A i \in DOMAIN parts' : parts'[i].part >= i
    BY OtherEffect DEF Fresh, Sorted, Elems
  <2>4. QED
    BY <2>1, <2>2, <2>3 DEF Sorted
<1>10. Overtaken'
  <2>1. SUFFICES ASSUME FirstWaits',
                        sent' >= 2 \/ FlowComes' \/ \E f \in InLine' : IsForeign(f) /\ f.kind = "FF"
                 PROVE  \A f \in InLine' \cup Elems(fifo)' : f.kind # "SF"
    BY DEF Overtaken
  <2>2. p \in InRest /\ p.kind = "FF"
    <3>1. PICK f \in InRest' : IsPart(f) /\ f.kind = "FF"
      BY <2>1 DEF FirstWaits
    <3>2. f \in InRest
      BY <3>1, OtherEffect DEF RestStep
    <3>3. QED
      BY <1>6, <3>1, <3>2
  <2>3. sent = 1 /\ fifo = <<>> /\ parts = <<>>
    <3>1. sent = 1 /\ fifo = <<>> /\ (parts # <<>> => Len(parts) = 0)
      BY <1>3, <1>5, <1>6, <1>7, <2>2
    <3>2. QED
      BY <1>1, <3>1, EmptySeq DEF FblType
  <2>4. \A f \in Elems(fifo)' : f = e
    BY <2>3, OtherEffect, SeqEmpty DEF FifoStep
  <2>5. \A f \in InLine' : f = p \/ f = e
    BY <1>6, <2>3, OtherEffect, SeqEmpty DEF LineStep, InLine
  <2>6. e.kind # "SF"
    <3>1. CASE FlowComes'
      BY <2>4, <3>1 DEF FlowComes
    <3>2. CASE \E f \in InLine' : IsForeign(f) /\ f.kind = "FF"
      BY <1>5, <2>5, <3>2 DEF IsForeign, IsPart
    <3>3. sent' = 1
      BY <2>3, OtherEffect
    <3>4. ~(sent' >= 2)
      BY <3>3
    <3>5. QED
      BY <2>1, <3>1, <3>2, <3>4
  <2>7. QED
    BY <2>2, <2>4, <2>5, <2>6
<1>11. ForeignReply'
  <2>1. SUFFICES ASSUME \E f \in Elems(fifo)' : IsForeign(f) /\ f.kind = "SF" PROVE ForeignReply'
    BY DEF ForeignReply
  <2>2. e.kind = "SF"
    BY <2>1, OtherEffect DEF FifoStep
  <2>3. FlowComes' => fifo = <<Flow>>
    BY <1>8, <2>2, OtherEffect DEF FlowComes, FifoStep
  <2>4. fbl' = "receive" => Len(parts') >= sent' - 1 /\ (FlowComes' => Len(parts') >= sent')
    <3>1. SUFFICES ASSUME parts # <<>>
                   PROVE  Len(parts) >= sent - 1 /\ (FlowComes' => Len(parts) >= sent)
      BY <1>1, OtherEffect DEF Receiving
    <3>2. CASE fifo = <<Flow>>
      <4>1. Len(parts) = sent
        <5>1. <<Flow>> # <<>> /\ <<Flow>> \notin {<<Reply(0)>>, <<Reply(1)>>}
          <6>1. <<Flow>>[1] = Flow /\ <<Reply(0)>>[1] = Reply(0) /\ <<Reply(1)>>[1] = Reply(1)
            OBVIOUS
          <6>2. QED
            BY <6>1, ReplyFacts
        <5>2. QED
          BY <1>2, <3>1, <3>2, <5>1
      <4>2. QED
        BY <1>3, <4>1
    <3>3. CASE fifo # <<Flow>>
      BY <1>2, <2>3, <3>1, <3>3
    <3>4. QED
      BY <3>2, <3>3
  <2>5. FlowComes' => \A f \in InRest' : ~IsPart(f)
    <3>1. SUFFICES ASSUME FlowComes', NEW f \in InRest', IsPart(f) PROVE FALSE
      OBVIOUS
    <3>2. f \in InRest
      BY <3>1, OtherEffect DEF RestStep
    <3>3. fifo = <<>> /\ <<Flow>> # <<>>
      BY <1>6, <1>7, <3>2
    <3>4. QED
      BY <2>3, <3>1, <3>3
  <2>6. \A f, g \in Elems(fifo)' : Before(fifo, f, g)' => ~(f.kind = "FC" /\ g.kind = "FC")
    <3>1. SUFFICES ASSUME NEW f, NEW g, Before(fifo, f, g)', f.kind = "FC", g.kind = "FC" PROVE FALSE
      OBVIOUS
    <3>2. Before(fifo, f, g) /\ f \in Elems(fifo)
      BY <2>2, <3>1, OtherEffect, Inside DEF FifoStep
    <3>3. fifo = <<Flow>>
      BY <1>8, <3>1, <3>2 DEF FlowComes
    <3>4. QED
      BY <3>2, <3>3, SeqOne
  <2>7. \A f, g \in InRest' : RestBefore(f, g)' => ~(IsPart(f) /\ IsPart(g))
    BY <1>6, OtherEffect DEF RestStep
  <2>8. QED
    BY <1>2, <2>4, <2>5, <2>6, <2>7, OtherEffect DEF ForeignReply
<1>12. Replies'
  <2>1. \A w \in {0, 1, Nack} : Reply(w) \in Elems(fifo)' => Reply(w) \in Elems(fifo)
    BY OtherEffect DEF FifoStep
  <2>2. \A w \in {0, 1, Nack} : Skipped(Reply(w)) => Skipped(Reply(w))'
    <3>1. FifoStep({e}) /\ bridge' = bridge /\ sent' = sent /\ \A w \in {0, 1, Nack} : Reply(w) \notin {e}
      BY OtherEffect
    <3>2. QED
      BY <3>1, SkippedKept
  <2>3. NoParts => NoParts'
    BY OtherEffect DEF NoParts, LineStep
  <2>4. Done(next)' = Done(next)
    <3>1. next' = next /\ written' = written /\ installed' = installed
      BY OtherEffect
    <3>2. QED
      BY <3>1 DEF Done
  <2>5. Reply(Nack) \notin Elems(fifo)
    <3>1. Elems(<<>>) = {} /\ \A f : Elems(<<f>>) = {f}
      BY SeqEmpty, SeqOne
    <3>2. QED
      BY <1>2, <3>1, ReplyFacts
  <2>6. QED
    BY <2>1, <2>2, <2>3, <2>4, <2>5, OtherEffect DEF Fresh, Replies
<1>13. LockStep'
  BY DEF LockStep, Other
<1>14. QED
  BY <1>9, <1>10, <1>11, <1>12, <1>13 DEF Fresh

(* The first foreign frame keeps the session.                              *)
LEMMA OtherStep ==
  ASSUME IInv, NEW e, Other(e)
  PROVE  Session'
<1>1. Frames' /\ OfSession'
  BY OtherEffect, FramesKept, OfSessionKept DEF IInv, Session
<1>2. Receiving' /\ Told' /\ AckedIsOnBoard'
  BY OtherEffect, ReceivingKept, ToldKept DEF IInv, Session
<1>3. OneForeign'
  <2>1. foreign' # 0
    BY DEF Other
  <2>2. \A f, g \in InLine' : LineBefore(f, g)' => ~(IsForeign(f) /\ IsForeign(g))
    BY OtherEffect, Inside DEF LineStep
  <2>3. \A f, g \in Elems(fifo)' : Before(fifo, f, g)' => ~(IsForeign(f) /\ IsForeign(g))
    BY OtherEffect, Inside DEF FifoStep
  <2>4. \A f \in InLine', g \in Elems(fifo)' : IsForeign(f) /\ IsForeign(g) => f = g
    BY OtherEffect DEF LineStep, FifoStep
  <2>5. QED
    BY <2>1, <2>2, <2>3, <2>4 DEF OneForeign
<1>4. Progress'
  <2>1. ~Stale /\ foreign' # 0
    BY DEF Stale, Other
  <2>2. NoParts => NoParts'
    BY OtherEffect DEF NoParts, LineStep
  <2>3. Waiting => Waiting'
    BY OtherEffect DEF Waiting
  <2>4. QED
    BY <2>1, <2>2, <2>3, OtherEffect, OtherFresh DEF IInv, Session, Progress
<1>5. QED
  BY <1>1, <1>2, <1>3, <1>4 DEF Session

-----------------------------------------------------------------------------
(* Every step keeps the invariant.                                         *)
LEMMA Inductive ==
  ASSUME MaxForeign \in {0, 1}, 1 \notin ForeignReplies, IInv, [Next]_vars
  PROVE  IInv'
<1>1. CASE UNCHANGED vars
  <2>1. UNCHANGED <<hostVars, serialCmd, serialReply, bridgeVars, ringVars, fblVars, boardVars, foreign>>
    BY <1>1 DEF vars
  <2>2. TypeOK' /\ Control'
    BY <2>1 DEF hostVars, bridgeVars, ringVars, fblVars, boardVars, IInv, TypeOK, Control
  <2>3. RestStep({}) /\ (RestEmpty => RestEmpty') /\ \A f : OnTheWay(f) => OnTheWay(f)'
    BY <2>1, SameEffect DEF ringVars, RestEmpty, OnTheWay
  <2>4. Loss
    BY <2>1, <2>3 DEF Loss, fblVars
  <2>5. QED
    BY <2>2, <2>4, LossStep DEF IInv
<1>2. CASE Next
  <2>1. TypeOK' /\ Control'
    BY <1>2, HostControl, BridgeControl, FblControl DEF IInv, Next
  <2>2. CASE HostStart \/ HostStep \/ LoseSerial
    BY <2>1, <2>2, HostSession DEF IInv
  <2>3. CASE BridgeStep
    BY <2>1, <2>3, BridgeSession DEF IInv
  <2>4. CASE FblStep
    BY <2>1, <2>4, FblSession DEF IInv
  <2>5. CASE LoseFrame \/ FblReset
    BY <2>1, <2>5, LossActions, LossStep DEF IInv
  <2>6. CASE OtherNode
    <3>1. PICK e \in Foreign : ToFbl(e) /\ fifo' = Ring!Pushed(fifo, e)
      BY <2>6 DEF OtherNode
    <3>2. foreign = 0 /\ foreign' = 1
      <4>1. foreign < MaxForeign /\ foreign' = foreign + 1
        BY <2>6 DEF OtherNode
      <4>2. foreign \in Nat
        BY TypeParts, ConstantFacts DEF IInv, BoardType
      <4>3. QED
        BY <4>1, <4>2
    <3>3. Other(e)
      BY <2>6, <3>1, <3>2 DEF OtherNode, Other
    <3>4. QED
      BY <2>1, <3>3, OtherStep DEF IInv
  <2>7. QED
    BY <1>2, <2>2, <2>3, <2>4, <2>5, <2>6 DEF Next, Trouble
<1>3. QED
  BY <1>1, <1>2

(* The invariant holds at the start: the line is empty.                    *)
LEMMA Initial == Init => IInv
<1> SUFFICES ASSUME Init PROVE IInv
  OBVIOUS
<1>1. /\ host = "stopped" /\ bridge = "idle" /\ serialCmd = None /\ serialReply = <<>> /\ next = Erase
      /\ fifo = <<>> /\ inbox = <<>> /\ queue = <<>> /\ parts = <<>> /\ fbl = "loop" /\ foreign = 0
  BY DEF Init
<1>2. TypeOK /\ Control
  BY InitialTypes
<1>3. InRest = {} /\ InLine = {} /\ Elems(fifo) = {}
  BY <1>1, SeqEmpty DEF InRest, InLine
<1>4. DOMAIN parts = {} /\ <<>> # << 1 >>
  BY <1>1
<1>5. Frames /\ Receiving /\ OneForeign /\ OfSession
  BY <1>1, <1>3, <1>4 DEF Frames, Receiving, OneForeign, OfSession
<1>6. Progress
  BY <1>1, <1>3 DEF Progress, NoParts, LineEmpty
<1>7. Told /\ AckedIsOnBoard
  BY <1>1, <1>4, ConstantFacts DEF Told, AckedIsOnBoard
<1>8. QED
  BY <1>2, <1>5, <1>6, <1>7 DEF IInv, Session

(* What the host was told is so: Slot B holds exactly the acknowledged     *)
(* blocks, and at most the one it is being told about, whatever is lost,   *)
(* delayed or sent again and whenever the FBL hangs or is reset, as long   *)
(* as at most one foreign frame is heard and no foreign single frame reads *)
(* as a success: nothing on the way tells the two apart, so that this has  *)
(* to be a premise.                                                        *)
THEOREM Acknowledged ==
  ASSUME MaxForeign \in {0, 1}, 1 \notin ForeignReplies
  PROVE  Spec => []AckedIsOnBoard
<1>1. Init => IInv
  BY Initial
<1>2. IInv /\ [Next]_vars => IInv'
  BY Inductive
<1>3. IInv => AckedIsOnBoard
  BY DEF IInv, Session
<1>4. QED
  BY <1>1, <1>2, <1>3, PTL DEF Spec
=============================================================================
