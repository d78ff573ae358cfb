-------------------------- MODULE UdsServer_proofs --------------------------
(***************************************************************************)
(* Proofs about UdsServer for any set of links, any size of Slot B, any    *)
(* width of the block counter, any delays and with or without weak cells:  *)
(* what unlocks the board, what a download and its read-back rest on, and  *)
(* that every acknowledged block is staged.                                *)
(***************************************************************************)
EXTENDS UdsServer, Modular

(* While announced blocks are to come, the counter the server expects is   *)
(* that of the block that comes next.  Blocks past the announced size move *)
(* the counter and nothing else.                                           *)
CounterInStep == dl # 0 /\ remaining > 0 => bsc = dl % BscMod

(* While the owner believes in the download, Slot B holds the blocks       *)
(* before the next one, and until the last announced one is there the      *)
(* owner heard of all of them but the last.                                *)
Staged ==
  dl # 0 /\ tx[owner] # None =>
    /\ \A k \in 1..(dl - 1) : slotB[k] = k
    /\ remaining > 0 => tx[owner] \in {dl - 2, dl - 1}

(* RequestDownload rewrote every place the download will ever reach. *)
RewrittenAhead ==
  /\ 1..readEnd \subseteq mine
  /\ dl # 0 => 1..(dl + remaining - 1) \subseteq mine

(* A seed that may be answered was sent in this session, and not used. *)
SeedKnown == seedValid => fresh = seedOf

IInv ==
  /\ TypeOK
  /\ DownloadNeedsUnlock
  /\ CounterInStep
  /\ Staged
  /\ RewrittenAhead
  /\ SeedKnown

-----------------------------------------------------------------------------
(* What the gate lets through. *)

Secured == {"ReadMemory", "RequestDownload", "TransferData", "TransferExit"}

(* The gate lets no download through without session and unlock.           *)
LEMMA GateOfDownload ==
  ASSUME NEW sid \in Secured, BL_UdsGate(sid)
  PROVE  session = "programming" /\ unlocked
  BY DEF BL_UdsGate, Service, Secured

(* SecurityAccess is not served in the default session.                    *)
LEMMA GateOfSecurity == BL_UdsGate("SecurityAccess") => session # "default"
  BY DEF BL_UdsGate, Service, NonDefault

(* A download request that is served comes from the owner. *)
LEMMA ServedToOwner ==
  ASSUME NEW l \in Links, NEW sid \in Secured, Serve(l, sid)
  PROVE  /\ l = owner /\ session = "programming" /\ unlocked
         /\ pc' = "poll" /\ idle' = 0 /\ queued' = "no"
  BY GateOfDownload DEF Serve, Take, Admitted

-----------------------------------------------------------------------------
(* Types. *)

(* The policy's variables keep their types.                                *)
LEMMA PolicyType ==
  ASSUME PolicyTypeOK,
         Elapse \/ PowerUp \/ NoteFail \/ NoteSuccess \/ UNCHANGED policy
  PROVE  PolicyTypeOK'
  BY PolicyAssumption
     DEF PolicyTypeOK, Elapse, Less, PowerUp, PowerUpValues, NoteFail, OneMore, DelayAfter,
         NoteSuccess, policy

(* What EndSession resets is in range.                                     *)
LEMMA EndSessionType ==
  ASSUME EndSession
  PROVE  /\ unlocked' \in BOOLEAN /\ seedValid' \in BOOLEAN
         /\ dl' = 0 /\ remaining' \in 0..NBlocks /\ readEnd' \in 0..NBlocks
         /\ fresh' \in Links \cup {None} /\ mine' \subseteq Places
<1>1. 0 \in 0..NBlocks
  BY UdsAssumption
<1>2. QED
  BY <1>1 DEF EndSession

(* After a reset the invariant holds.                                      *)
LEMMA InitInv == Init => IInv
<1> SUFFICES ASSUME Init PROVE IInv
  OBVIOUS
<1>1. TypeOK
  <2>1. PolicyTypeOK
    BY PolicyAssumption DEF Init, PolicyInit, PowerUpValues, PolicyTypeOK
  <2>2. 0 \in 0..NBlocks /\ 0 \in 0..Junk /\ 0 \in 0..(BscMod - 1) /\ 0 \in 0..(S3 + 1)
    BY UdsAssumption DEF Junk
  <2>3. slotB \in [Places -> 0..Junk] /\ tx \in [Links -> 0..LastBlock \cup {None}]
    BY <2>2 DEF Init
  <2>4. QED
    <3>1. unlocked \in BOOLEAN /\ seedValid \in BOOLEAN
      BY DEF Init
    <3>2. idle \in 0..(S3 + 1) /\ bsc \in 0..(BscMod - 1) /\ readEnd \in 0..NBlocks
      BY <2>2 DEF Init
    <3>3. dl \in 0..(NBlocks + 1) /\ remaining \in 0..NBlocks /\ dl = 0
      BY <2>2, UdsAssumption DEF Init
    <3>4. session \in Sessions /\ pc \in {"poll"} /\ queued \in {"no"} /\ mine = {}
      BY DEF Init, Sessions
    <3>5. owner \in Links /\ seedOf \in Links \cup {None} /\ fresh \in Links \cup {None}
      BY DEF Init
    <3>6. QED
      BY <2>1, <2>3, <3>1, <3>2, <3>3, <3>4, <3>5 DEF TypeOK
<1>2. QED
  BY <1>1 DEF Init, IInv, DownloadNeedsUnlock, CounterInStep, Staged, RewrittenAhead, SeedKnown

(* What the tester of a link believes in stays a number of blocks. *)
LEMMA TxType ==
  ASSUME TypeOK, NEW l \in Links,
         \/ UNCHANGED tx
         \/ \E heard \in 0..LastBlock \cup {None} : tx' = [tx EXCEPT ![l] = heard]
  PROVE  tx' \in [Links -> 0..LastBlock \cup {None}]
  BY DEF TypeOK

(* A reply leaves the tester's count of acknowledged blocks in range.      *)
LEMMA ReplyType ==
  ASSUME TypeOK, NEW l \in Links, tx[l] # None, Block(l) <= LastBlock, Reply(l)
  PROVE  tx' \in [Links -> 0..LastBlock \cup {None}]
<1>1. tx[l] \in 0..LastBlock
  BY DEF TypeOK
<1>2. Block(l) \in 0..LastBlock
  BY <1>1, UdsAssumption DEF Block, LastBlock
<1>3. QED
  BY <1>2, TxType DEF Reply

(* Erasing and writing keep Slot B a slot.                                 *)
LEMMA SlotBType ==
  ASSUME TypeOK, NEW p \in Places, NEW c \in 0..Junk, slotB' = [slotB EXCEPT ![p] = c]
  PROVE  slotB' \in [Places -> 0..Junk]
  BY DEF TypeOK

(* The next place of a download that has blocks to come. *)
LEMMA NextPlace ==
  ASSUME TypeOK, dl # 0, remaining > 0
  PROVE  dl \in Places /\ dl + remaining <= NBlocks + 1
  BY UdsAssumption DEF TypeOK, Places

(* Every step keeps the types.                                             *)
LEMMA TypeStep == TypeOK /\ [Next]_vars => TypeOK'
<1> SUFFICES ASSUME TypeOK, [Next]_vars PROVE TypeOK'
  OBVIOUS
<1>p. PolicyTypeOK
  BY DEF TypeOK
<1>1. CASE Loop
  BY <1>1, <1>p, PolicyType, EndSessionType, UdsAssumption
     DEF TypeOK, Loop, S3Expire, S3Poll, NoRequest, Finish, uds, Sessions
<1>2. CASE Tick \/ Arrive \/ UNCHANGED vars
  BY <1>2, <1>p, PolicyType, UdsAssumption DEF TypeOK, Tick, Arrive, uds, vars
<1>3. CASE Reset
  BY <1>3, <1>p, PolicyType, EndSessionType, UdsAssumption DEF TypeOK, Reset, Sessions
<1>4. ASSUME NEW l \in Links, Request(l) PROVE TypeOK'
  <2>1. CASE Harmless(l)
    BY <1>p, <2>1, PolicyType, TxType, UdsAssumption DEF TypeOK, Harmless, Take, uds
  <2>2. ASSUME NEW to \in Sessions, DiagnosticSessionControl(l, to) PROVE TypeOK'
    BY <1>p, <2>2, PolicyType, EndSessionType, TxType, UdsAssumption
       DEF TypeOK, DiagnosticSessionControl, Serve, Take
  <2>3. CASE RequestSeed(l)
    <3>1. /\ seedValid' \in BOOLEAN /\ seedOf' \in Links \cup {None}
          /\ fresh' \in Links \cup {None}
      BY <2>3 DEF TypeOK, RequestSeed
    <3>2. QED
      BY <1>p, <2>3, <3>1, PolicyType, UdsAssumption DEF TypeOK, RequestSeed, Serve, Take
  <2>4. CASE SendKey(l)
    <3>1. unlocked' \in BOOLEAN /\ (NoteSuccess \/ NoteFail)
      BY <2>4 DEF TypeOK, SendKey
    <3>2. PolicyTypeOK'
      BY <1>p, <3>1, PolicyType
    <3>3. QED
      <4>1. /\ pc' = "poll" /\ idle' = 0 /\ queued' \in {"no", queued}
            /\ seedValid' = FALSE /\ fresh' = None
            /\ UNCHANGED <<session, owner, seedOf, dl, remaining, bsc, readEnd, slotB, tx, mine>>
        BY <2>4 DEF SendKey, Serve, Take
      <4>2. QED
        <5>1. (unlocked \in BOOLEAN /\ seedValid \in BOOLEAN)'
          BY <3>1, <4>1
        <5>2. (idle \in 0..(S3 + 1) /\ queued \in {"no", "intime", "late"})'
          BY <4>1, UdsAssumption DEF TypeOK
        <5>3. QED
          BY <3>2, <4>1, <5>1, <5>2 DEF TypeOK
  <2>5. ASSUME NEW n \in Places, RequestDownload(l, n) \/ EraseFails(l, n) PROVE TypeOK'
    <3>1. n \in 1..NBlocks /\ 1..n \subseteq Places /\ Junk \in 0..Junk /\ 0 \in 0..Junk
      BY UdsAssumption DEF Places, Junk
    <3>2. slotB' \in [Places -> 0..Junk]
      BY <2>5, <3>1 DEF TypeOK, RequestDownload, EraseFails
    <3>3. tx' \in [Links -> 0..LastBlock \cup {None}]
      <4>1. 0 \in 0..LastBlock
        BY UdsAssumption DEF LastBlock
      <4>2. QED
        BY <2>5, <4>1, TxType DEF RequestDownload, EraseFails
    <3>4. mine' \subseteq Places
      BY <2>5, <3>1 DEF TypeOK, RequestDownload, EraseFails
    <3>5. CASE RequestDownload(l, n)
      BY <1>p, <3>1, <3>2, <3>3, <3>4, <3>5, PolicyType, UdsAssumption
         DEF TypeOK, RequestDownload, Serve, Take
    <3>6. CASE EraseFails(l, n)
      BY <1>p, <3>2, <3>3, <3>4, <3>6, PolicyType, UdsAssumption
         DEF TypeOK, EraseFails, Serve, Take, uds
    <3>7. QED
      BY <2>5, <3>5, <3>6
  <2>6. CASE TransferRepeated(l)
    BY <1>p, <2>6, PolicyType, ReplyType, UdsAssumption
       DEF TypeOK, TransferRepeated, Transferring, Serve, Take, uds
  <2>7. CASE TransferData(l)
    <3>1. tx' \in [Links -> 0..LastBlock \cup {None}] /\ dl # 0
      BY <2>7, ReplyType DEF TransferData, Transferring
    <3>2. /\ slotB' \in [Places -> 0..Junk] /\ mine' \subseteq Places
          /\ dl' \in 1..(NBlocks + 1) /\ remaining' \in 0..NBlocks
          /\ dl' + remaining' <= NBlocks + 1
      <4>1. CASE remaining > 0
        <5>1. dl \in Places /\ dl + remaining <= NBlocks + 1
          BY <3>1, <4>1, NextPlace
        <5>2. Block(l) \in 0..Junk
          BY <2>7, UdsAssumption
             DEF TypeOK, TransferData, Transferring, Block, LastBlock, Junk
        <5>3. slotB' \in [Places -> 0..Junk]
          BY <2>7, <4>1, <5>1, <5>2, SlotBType DEF TransferData, Store
        <5>4. mine' \subseteq Places
          BY <2>7, <4>1, <5>1 DEF TypeOK, TransferData, Store
        <5>5. dl' = dl + 1 /\ remaining' = remaining - 1
          BY <2>7, <4>1 DEF TransferData, Store
        <5>6. dl \in 1..NBlocks /\ remaining \in 0..NBlocks
          BY <5>1 DEF TypeOK, Places
        <5>7. QED
          BY <4>1, <5>1, <5>3, <5>4, <5>5, <5>6, UdsAssumption
      <4>2. CASE ~(remaining > 0)
        BY <2>7, <3>1, <4>2, UdsAssumption DEF TypeOK, TransferData, Store
      <4>3. QED
        BY <4>1, <4>2
    <3>3. bsc' \in 0..(BscMod - 1)
      BY <2>7, ModSplit, UdsAssumption DEF TypeOK, TransferData
    <3>4. readEnd' \in 0..NBlocks
      <4>1. PICK d \in 1..(NBlocks + 1) : dl' = d
        BY <3>2
      <4>2. readEnd' = d - 1
        BY <2>7, <4>1 DEF TransferData
      <4>3. QED
        BY <4>2, UdsAssumption
    <3>5. /\ pc' = "poll" /\ idle' = 0 /\ queued' \in {"no", queued}
          /\ UNCHANGED <<policy, session, owner, unlocked, seedValid, seedOf, fresh>>
      BY <2>7 DEF TransferData, Transferring, Serve, Take
    <3>6. PolicyTypeOK' /\ dl' \in 0..(NBlocks + 1) /\ idle' \in 0..(S3 + 1)
      BY <1>p, <3>2, <3>5, PolicyType, UdsAssumption
    <3>7. (queued \in {"no", "intime", "late"})'
      BY <3>5 DEF TypeOK
    <3>8. QED
      BY <3>1, <3>2, <3>3, <3>4, <3>5, <3>6, <3>7 DEF TypeOK
  <2>8. CASE WriteFails(l)
    <3>1. dl \in Places /\ Junk \in 0..Junk
      BY <2>8, NextPlace, UdsAssumption DEF WriteFails, Transferring, Junk
    <3>2. slotB' \in [Places -> 0..Junk]
      BY <2>8, <3>1, SlotBType DEF TypeOK, WriteFails
    <3>3. QED
      BY <1>p, <2>8, <3>1, <3>2, PolicyType, TxType, UdsAssumption
         DEF TypeOK, WriteFails, Transferring, Serve, Take, uds
  <2>9. CASE TransferExit(l)
    BY <1>p, <2>9, PolicyType, TxType, UdsAssumption DEF TypeOK, TransferExit, Serve, Take
  <2>10. ASSUME NEW p \in Places, RawErase(l, p) \/ RawWrite(l, p) PROVE TypeOK'
    <3>1. 0 \in 0..Junk /\ Junk \in 0..Junk
      BY UdsAssumption DEF Junk
    <3>2. slotB' \in [Places -> 0..Junk]
      BY <2>10, <3>1, SlotBType DEF RawErase, RawWrite
    <3>3. QED
      BY <1>p, <2>10, <3>2, PolicyType DEF TypeOK, RawErase, RawWrite, Take, uds
  <2>11. CASE RawVerify(l) \/ InstallRoutine(l)
    BY <1>p, <2>11, PolicyType, UdsAssumption DEF TypeOK, RawVerify, InstallRoutine, Take, uds
  <2>12. QED
    BY <1>4, <2>1, <2>2, <2>3, <2>4, <2>5, <2>6, <2>7, <2>8, <2>9, <2>10, <2>11 DEF Request
<1>5. QED
  BY <1>1, <1>2, <1>3, <1>4 DEF Next
-----------------------------------------------------------------------------
(* A step ends the session, is one of the five requests that change what   *)
(* belongs to it, or leaves that alone.                                    *)
LEMMA StepCases ==
  ASSUME [Next]_vars
  PROVE  \/ EndSession
         \/ UNCHANGED <<uds, fresh>> /\ mine \subseteq mine'
         \/ \E l \in Links : \/ RequestSeed(l) \/ SendKey(l)
                            \/ TransferData(l) \/ TransferExit(l)
                            \/ \E n \in Places : RequestDownload(l, n)
<1>1. CASE Loop
  BY <1>1 DEF Loop, S3Expire, S3Poll, NoRequest, Finish
<1>2. CASE Tick \/ Arrive \/ Reset \/ UNCHANGED vars
  BY <1>2 DEF Tick, Arrive, Reset, vars, uds
<1>3. ASSUME NEW l \in Links,
             \/ Harmless(l) \/ TransferRepeated(l) \/ WriteFails(l)
             \/ RawVerify(l) \/ InstallRoutine(l)
             \/ \E to \in Sessions : DiagnosticSessionControl(l, to)
             \/ \E p \in Places : EraseFails(l, p) \/ RawErase(l, p) \/ RawWrite(l, p)
      PROVE  EndSession \/ (UNCHANGED <<uds, fresh>> /\ mine \subseteq mine')
  BY <1>3 DEF Harmless, TransferRepeated, WriteFails, RawVerify, InstallRoutine,
              DiagnosticSessionControl, EraseFails, RawErase, RawWrite
<1>4. QED
  BY <1>1, <1>2, <1>3, Zenon DEF Next, Request

(* Security lives no longer than the session, a download no longer than    *)
(* either.                                                                 *)
LEMMA DownloadStep ==
  ASSUME TypeOK, DownloadNeedsUnlock, [Next]_vars
  PROVE  DownloadNeedsUnlock'
<1>1. CASE EndSession
  BY <1>1 DEF EndSession, DownloadNeedsUnlock
<1>2. CASE UNCHANGED <<uds, fresh>>
  BY <1>2 DEF DownloadNeedsUnlock, uds
<1>3. ASSUME NEW l \in Links, RequestSeed(l) \/ TransferExit(l)
      PROVE  DownloadNeedsUnlock'
  BY <1>3 DEF DownloadNeedsUnlock, RequestSeed, TransferExit
<1>4. ASSUME NEW l \in Links, SendKey(l) PROVE DownloadNeedsUnlock'
  <2>1. session # "default" /\ UNCHANGED <<session, dl>>
    BY <1>4, GateOfSecurity DEF SendKey, Serve
  <2>2. unlocked => unlocked'
    BY <1>4 DEF SendKey
  <2>3. QED
    BY <2>1, <2>2 DEF DownloadNeedsUnlock
<1>5. ASSUME NEW l \in Links, TransferData(l) \/ \E n \in Places : RequestDownload(l, n)
      PROVE  DownloadNeedsUnlock'
  <2>1. session = "programming" /\ unlocked /\ UNCHANGED <<session, unlocked>>
    BY <1>5, ServedToOwner DEF Secured, TransferData, Transferring, RequestDownload
  <2>2. QED
    BY <2>1 DEF DownloadNeedsUnlock
<1>6. QED
  BY <1>1, <1>2, <1>3, <1>4, <1>5, StepCases

(* Every step keeps the block counter in step with the tester.             *)
LEMMA CounterStep ==
  ASSUME TypeOK, CounterInStep, [Next]_vars
  PROVE  CounterInStep'
<1>1. CASE EndSession
  BY <1>1 DEF EndSession, CounterInStep
<1>2. CASE UNCHANGED <<uds, fresh>>
  BY <1>2 DEF CounterInStep, uds
<1>3. ASSUME NEW l \in Links, RequestSeed(l) \/ SendKey(l) \/ TransferExit(l)
      PROVE  CounterInStep'
  BY <1>3 DEF CounterInStep, RequestSeed, SendKey, TransferExit
<1>4. ASSUME NEW l \in Links, NEW n \in Places, RequestDownload(l, n)
      PROVE  CounterInStep'
  <2>1. 1 \in 0..(BscMod - 1)
    BY UdsAssumption
  <2>2. 1 % BscMod = 1
    BY <2>1, ModSmall, UdsAssumption
  <2>3. QED
    BY <1>4, <2>2 DEF CounterInStep, RequestDownload
<1>5. ASSUME NEW l \in Links, TransferData(l) PROVE CounterInStep'
  <2>1. CASE remaining > 0
    <3>1. dl \in Int /\ bsc = dl % BscMod
      BY <1>5, <2>1 DEF TypeOK, CounterInStep, TransferData, Transferring
    <3>2. ((dl % BscMod) + 1) % BscMod = (dl + 1) % BscMod
      <4>1. BscMod \in Nat \ {0} /\ dl \in Int /\ 1 \in Int
        BY <3>1, UdsAssumption
      <4>2. QED
        BY ONLY <4>1, ModAdd
    <3>3. QED
      BY <1>5, <2>1, <3>1, <3>2 DEF CounterInStep, TransferData, Store
  <2>2. CASE ~(remaining > 0)
    BY <1>5, <2>2 DEF CounterInStep, TransferData, Store
  <2>3. QED
    BY <2>1, <2>2
<1>6. QED
  BY <1>1, <1>2, <1>3, <1>4, <1>5, StepCases

(* Every step keeps rewritten blocks ahead of the tester.                  *)
LEMMA RewrittenStep ==
  ASSUME TypeOK, RewrittenAhead, [Next]_vars
  PROVE  RewrittenAhead'
<1>1. CASE EndSession
  BY <1>1 DEF EndSession, RewrittenAhead
<1>2. CASE UNCHANGED <<uds, fresh>> /\ mine \subseteq mine'
  BY <1>2 DEF RewrittenAhead, uds
<1>3. ASSUME NEW l \in Links, RequestSeed(l) \/ SendKey(l) \/ TransferExit(l)
      PROVE  RewrittenAhead'
  BY <1>3 DEF RewrittenAhead, RequestSeed, SendKey, TransferExit
<1>4. ASSUME NEW l \in Links, NEW n \in Places, RequestDownload(l, n)
      PROVE  RewrittenAhead'
  <2>1. n \in Nat /\ (1 + n) - 1 = n
    BY UdsAssumption DEF Places
  <2>2. QED
    BY <1>4, <2>1 DEF RewrittenAhead, RequestDownload
<1>5. ASSUME NEW l \in Links, TransferData(l) PROVE RewrittenAhead'
  <2>1. dl # 0 /\ dl \in Nat /\ remaining \in Nat
    BY <1>5 DEF TypeOK, TransferData, Transferring
  <2>2. PICK d \in Nat, m \in Nat :
          dl' = d /\ remaining' = m /\ d + m = dl + remaining /\ mine \subseteq mine'
    BY <1>5, <2>1 DEF TransferData, Store
  <2>3. (d + m) - 1 = (dl + remaining) - 1 /\ d - 1 <= (d + m) - 1
    BY <2>1, <2>2
  <2>4. 1..(d + m - 1) \subseteq mine'
    BY <2>1, <2>2, <2>3 DEF RewrittenAhead
  <2>5. readEnd' = d - 1
    BY <1>5, <2>2 DEF TransferData
  <2>6. 1..(d - 1) \subseteq mine'
    BY <2>2, <2>3, <2>4
  <2>7. QED
    BY <2>2, <2>4, <2>5, <2>6 DEF RewrittenAhead
<1>6. QED
  BY <1>1, <1>2, <1>3, <1>4, <1>5, StepCases

(* Every step keeps the outstanding seed the owner's.                      *)
LEMMA SeedStep ==
  ASSUME SeedKnown, [Next]_vars
  PROVE  SeedKnown'
<1>1. CASE EndSession
  BY <1>1 DEF EndSession, SeedKnown
<1>2. CASE UNCHANGED <<uds, fresh>>
  BY <1>2 DEF SeedKnown, uds
<1>3. ASSUME NEW l \in Links, RequestSeed(l) \/ SendKey(l)
      PROVE  SeedKnown'
  BY <1>3 DEF SeedKnown, RequestSeed, SendKey
<1>4. ASSUME NEW l \in Links,
             \/ TransferData(l) \/ TransferExit(l)
             \/ \E n \in Places : RequestDownload(l, n)
      PROVE  SeedKnown'
  BY <1>4 DEF SeedKnown, TransferData, TransferExit, RequestDownload
<1>5. QED
  BY <1>1, <1>2, <1>3, <1>4, StepCases
-----------------------------------------------------------------------------
(* What was staged stays staged when the server's side is left alone and   *)
(* the owner either gives up or hears nothing while Slot B is not touched. *)
LEMMA StagedKept ==
  ASSUME Staged, UNCHANGED <<dl, remaining, owner>>,
         dl # 0 => tx'[owner] = None \/ (tx'[owner] = tx[owner] /\ UNCHANGED slotB)
  PROVE  Staged'
  BY DEF Staged

(* While announced blocks are to come, a block that carries the counter of *)
(* the next place, or of the one before it, is the block of that place.    *)
LEMMA CounterTellsBlocks ==
  ASSUME TypeOK, Staged, CounterInStep, dl # 0, remaining > 0, tx[owner] # None
  PROVE  /\ Block(owner) \in {dl - 1, dl}
         /\ Block(owner) % BscMod = bsc => Block(owner) = dl
         /\ Block(owner) % BscMod = (bsc - 1) % BscMod => Block(owner) = dl - 1
<1>1. /\ BscMod \in Nat \ {0} /\ BscMod > 1
      /\ dl \in Int /\ -1 \in Int /\ dl - 1 \in Int
  BY UdsAssumption DEF TypeOK
<1>2. Block(owner) \in {dl - 1, dl}
  BY <1>1 DEF Staged, Block
<1>3. (dl - 1) % BscMod # dl % BscMod
  <2>1. dl - 1 - dl < BscMod /\ dl - (dl - 1) < BscMod /\ dl - 1 # dl
    BY <1>1
  <2>2. QED
    BY ONLY <1>1, <2>1, ModNear
<1>4. ((dl % BscMod) - 1) % BscMod = (dl - 1) % BscMod
  <2>1. ((dl % BscMod) + (-1)) % BscMod = (dl + (-1)) % BscMod
    BY ONLY <1>1, ModAdd
  <2>2. dl % BscMod \in Int
    BY ONLY <1>1, ModSplit
  <2>3. (dl % BscMod) + (-1) = (dl % BscMod) - 1 /\ dl + (-1) = dl - 1
    BY ONLY <1>1, <2>2
  <2>4. QED
    BY ONLY <2>1, <2>3
<1>5. QED
  BY <1>2, <1>3, <1>4 DEF CounterInStep

(* Every step keeps what the server counted staged.                        *)
LEMMA StagedStep ==
  ASSUME TypeOK, DownloadNeedsUnlock, CounterInStep, Staged, [Next]_vars
  PROVE  Staged'
<1>1. CASE EndSession
  BY <1>1 DEF EndSession, Staged
<1>2. CASE S3Poll \/ NoRequest \/ Finish \/ Tick \/ Arrive \/ UNCHANGED vars
  <2>1. UNCHANGED <<dl, remaining, owner, tx, slotB>>
    BY <1>2 DEF S3Poll, NoRequest, Finish, Tick, Arrive, vars, uds
  <2>2. QED
    BY <2>1, StagedKept
<1>3. ASSUME NEW l \in Links,
             \/ Harmless(l) \/ WriteFails(l) \/ RequestSeed(l) \/ SendKey(l)
             \/ RawVerify(l) \/ InstallRoutine(l)
      PROVE  Staged'
  <2>1. /\ UNCHANGED <<dl, remaining, owner>>
        /\ tx' = [tx EXCEPT ![l] = None] \/ UNCHANGED tx
    BY <1>3 DEF Harmless, WriteFails, RequestSeed, SendKey, RawVerify, InstallRoutine, uds
  <2>2. CASE WriteFails(l)
    <3>1. l = owner /\ tx' = [tx EXCEPT ![l] = None]
      BY <2>2, ServedToOwner DEF Secured, WriteFails, Transferring
    <3>2. tx'[owner] = None
      BY <3>1 DEF TypeOK
    <3>3. QED
      BY <2>1, <3>2, StagedKept
  <2>3. CASE ~WriteFails(l)
    <3>1. UNCHANGED slotB
      BY <1>3, <2>3 DEF Harmless, RequestSeed, SendKey, RawVerify, InstallRoutine
    <3>2. tx'[owner] \in {None, tx[owner]}
      BY <2>1 DEF TypeOK
    <3>3. QED
      BY <2>1, <3>1, <3>2, StagedKept
  <2>4. QED
    BY <2>2, <2>3
<1>4. ASSUME NEW l \in Links, NEW p \in Places, RawErase(l, p) \/ RawWrite(l, p)
      PROVE  Staged'
  <2>1. UNCHANGED <<dl, remaining, owner, tx>> /\ tx[l] = None /\ BL_StagingFree(l)
    BY <1>4 DEF RawErase, RawWrite, uds
  <2>2. dl # 0 => tx'[owner] = None
    BY <2>1 DEF DownloadNeedsUnlock, BL_StagingFree
  <2>3. QED
    BY <2>1, <2>2, StagedKept
<1>5. ASSUME NEW l \in Links, NEW n \in Places, EraseFails(l, n) PROVE Staged'
  <2>1. UNCHANGED <<dl, remaining, owner>> /\ tx' = [tx EXCEPT ![l] = None] /\ l = owner
    BY <1>5, ServedToOwner DEF Secured, EraseFails, uds
  <2>2. tx'[owner] = None
    BY <2>1 DEF TypeOK
  <2>3. QED
    BY <2>1, <2>2, StagedKept
<1>6. ASSUME NEW l \in Links, NEW n \in Places, RequestDownload(l, n) PROVE Staged'
  <2>1. dl' = 1 /\ owner' = owner /\ l = owner
    BY <1>6, ServedToOwner DEF Secured, RequestDownload
  <2>2. tx'[owner] \in {0, None}
    BY <1>6, <2>1 DEF TypeOK, RequestDownload
  <2>3. QED
    BY <2>1, <2>2 DEF Staged
<1>7. ASSUME NEW l \in Links, TransferExit(l) PROVE Staged'
  BY <1>7 DEF Staged, TransferExit
<1>8. ASSUME NEW l \in Links, TransferRepeated(l) PROVE Staged'
  <2>1. /\ l = owner /\ dl # 0 /\ tx[owner] # None
        /\ UNCHANGED <<dl, remaining, owner, slotB>>
    BY <1>8, ServedToOwner DEF Secured, TransferRepeated, Transferring, uds
  <2>2. ASSUME remaining > 0 PROVE tx'[owner] \in {dl - 2, dl - 1}
    <3>1. Block(owner) = dl - 1
      BY <1>8, <2>1, <2>2, CounterTellsBlocks DEF TransferRepeated
    <3>2. tx'[owner] \in {tx[owner], dl - 1}
      BY <1>8, <2>1, <3>1 DEF TypeOK, TransferRepeated, Reply
    <3>3. QED
      BY <2>1, <2>2, <3>2 DEF Staged
  <2>3. QED
    BY <2>1, <2>2 DEF Staged
<1>9. ASSUME NEW l \in Links, TransferData(l) PROVE Staged'
  <2>1. l = owner /\ dl # 0 /\ tx[owner] # None /\ owner' = owner
    BY <1>9, ServedToOwner DEF Secured, TransferData, Transferring
  <2>2. CASE remaining > 0
    <3>1. dl' = dl + 1 /\ slotB' = [slotB EXCEPT ![dl] = Block(owner)]
      BY <1>9, <2>1, <2>2 DEF TransferData, Store
    <3>2. Block(owner) = dl
      BY <1>9, <2>1, <2>2, CounterTellsBlocks DEF TransferData
    <3>3. dl \in Places /\ dl \in Nat
      BY <2>1, <2>2, NextPlace DEF TypeOK
    <3>4. \A k \in 1..(dl' - 1) : slotB'[k] = k
      <4>1. \A k \in 1..(dl - 1) : slotB[k] = k /\ k \in Places
        BY <2>1, <3>3, UdsAssumption DEF Staged, Places
      <4>2. QED
        BY <3>1, <3>2, <3>3, <4>1 DEF TypeOK
    <3>5. tx'[owner] \in {dl - 1, dl}
      <4>1. tx[owner] = dl - 1
        BY <2>1, <3>2, <3>3, UdsAssumption DEF TypeOK, Block
      <4>2. tx'[owner] \in {tx[owner], dl}
        BY <1>9, <2>1, <3>2 DEF TypeOK, TransferData, Reply
      <4>3. QED
        BY <4>1, <4>2
    <3>6. QED
      BY <2>1, <3>1, <3>3, <3>4, <3>5 DEF Staged
  <2>3. CASE ~(remaining > 0)
    BY <1>9, <2>1, <2>3 DEF Staged, TransferData, Store
  <2>4. QED
    BY <2>2, <2>3
<1>10. CASE Loop
  BY <1>1, <1>2, <1>10 DEF Loop, S3Expire
<1>11. ASSUME NEW l \in Links, Request(l) PROVE Staged'
  <2>1. CASE \E to \in Sessions : DiagnosticSessionControl(l, to)
    BY <1>1, <2>1 DEF DiagnosticSessionControl
  <2>2. QED
    BY <1>3, <1>4, <1>5, <1>6, <1>7, <1>8, <1>9, <1>11, <2>1 DEF Request
<1>12. QED
  BY <1>1, <1>2, <1>10, <1>11 DEF Next, Reset

-----------------------------------------------------------------------------
(* Every step preserves the invariant.                                     *)
LEMMA InvStep == IInv /\ [Next]_vars => IInv'
  BY TypeStep, DownloadStep, CounterStep, StagedStep, RewrittenStep, SeedStep DEF IInv

(* Every variable keeps its range, whatever the testers send: a download   *)
(* never runs past Slot B, and the counter stays a byte (uds_dispatch).    *)
THEOREM TypeCorrect == Spec => []TypeOK
<1>1. Init => TypeOK
  BY InitInv DEF IInv
<1>2. QED
  BY <1>1, TypeStep, PTL DEF Spec

(* The inductive invariant of the server. *)
THEOREM Invariance == Spec => []IInv
  BY InitInv, InvStep, PTL DEF Spec

(* A download lives only in an unlocked programming session, and no unlock *)
(* outlives its session (uds_dispatch 0x10, 0x27 and 0x34, uds_s3_poll).   *)
THEOREM SecureDownload == Spec => []DownloadNeedsUnlock
<1>1. IInv => DownloadNeedsUnlock
  BY DEF IInv
<1>2. QED
  BY <1>1, Invariance, PTL

(* Every announced block a tester had acknowledged is in Slot B at its     *)
(* place, also when the tester sends past the announced size, for any      *)
(* number of values of the block counter but one (uds_dispatch 0x36).      *)
THEOREM AckedBlocksAreStaged == Spec => []AckedIsStaged
<1>1. IInv => AckedIsStaged
  <2> SUFFICES ASSUME IInv, NEW l \in Links, tx[l] # None, dl # 0, owner = l
               PROVE  /\ \A k \in 1..tx[l] : k < dl + remaining => slotB[k] = k
                      /\ remaining > 0 => tx[l] \in {dl - 2, dl - 1}
    BY DEF AckedIsStaged
  <2>1. dl \in Nat /\ remaining \in Nat /\ tx[l] \in Nat /\ Staged
    BY DEF IInv, TypeOK
  <2>2. \A k \in 1..tx[l] : k < dl + remaining => k \in 1..(dl - 1)
    BY <2>1 DEF Staged
  <2>3. QED
    BY <2>1, <2>2 DEF Staged
<1>2. QED
  BY <1>1, Invariance, PTL

(* ReadMemory returns nothing an earlier session left in Slot B            *)
(* (uds_dispatch 0x23, uds_read_end).                                      *)
THEOREM ReadBackNeverStale == Spec => []ReadBackIsFresh
<1>1. IInv => ReadBackIsFresh
  BY DEF IInv, RewrittenAhead, ReadBackIsFresh
<1>2. QED
  BY <1>1, Invariance, PTL

(* The only step that unlocks is a key from the owner, for a seed sent to  *)
(* the owner in this session and not used before (uds_dispatch 0x27).      *)
THEOREM UnlockNeedsOwnSeed == Spec => UnlockAnswersOwnSeed
<1>1. IInv /\ [Next]_vars => [~unlocked /\ unlocked' => fresh = owner]_vars
  <2> SUFFICES ASSUME IInv, [Next]_vars, ~unlocked, unlocked' PROVE fresh = owner
    OBVIOUS
  <2>1. CASE EndSession
    BY <2>1 DEF EndSession
  <2>2. CASE UNCHANGED <<uds, fresh>>
    BY <2>2 DEF uds
  <2>3. ASSUME NEW l \in Links,
               \/ RequestSeed(l) \/ TransferData(l) \/ TransferExit(l)
               \/ \E n \in Places : RequestDownload(l, n)
        PROVE  UNCHANGED unlocked
    BY <2>3 DEF RequestSeed, TransferData, TransferExit, RequestDownload
  <2>4. ASSUME NEW l \in Links, SendKey(l) PROVE fresh = owner
    <3>1. seedOf = l /\ seedValid /\ l = owner
      BY <2>4, GateOfSecurity DEF SendKey, Serve, Admitted
    <3>2. QED
      BY <3>1 DEF IInv, SeedKnown
  <2>5. QED
    BY <2>1, <2>2, <2>3, <2>4, StepCases
<1>2. QED
  BY <1>1, Invariance, PTL DEF Spec, UnlockAnswersOwnSeed
=============================================================================
