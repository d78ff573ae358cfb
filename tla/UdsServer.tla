------------------------------ MODULE UdsServer ------------------------------
(***************************************************************************)
(* The UDS server of the FBL: diagnostic sessions, SecurityAccess and the  *)
(* download into Slot B, shared by testers on several links.               *)
(*                                                                         *)
(* BL_Run's loop polls the S3 timeout, then serves one request of one      *)
(* link.  A verify keeps the loop busy for long; time passes, and the      *)
(* owner's next request may be waiting when it ends.  Requests are chosen  *)
(* freely, except that a tester in a download sends the blocks in order,   *)
(* none of them empty, may repeat one it got no reply for, and stays away  *)
(* from raw commands.  It may send more blocks than it announced.          *)
(***************************************************************************)
EXTENDS SecPolicy

CONSTANTS
  Links,       \* BL_LINK_*
  None,
  NBlocks,     \* blocks that fit into Slot B
  BscMod,      \* 256: values of the block sequence counter
  S3,          \* BL_SESSION_TIMEOUT_MS, in ticks
  Weak         \* TRUE when an erase or a write may fail

ASSUME UdsAssumption ==
  /\ None \notin Links
  /\ NBlocks \in Nat \ {0} /\ BscMod \in Nat \ {0, 1} /\ S3 \in Nat
  /\ Weak \in BOOLEAN

VARIABLES
  session,     \* uds_session
  owner,       \* uds_link
  unlocked,    \* uds_unlocked
  seedValid,   \* uds_seed_valid
  seedOf,      \* history: the link that was sent the bytes in uds_seed
  idle,        \* ticks since uds_last_ms, counted up to S3 + 1
  dl,          \* uds_dl_addr: the block that comes next, 0 without a download
  remaining,   \* uds_dl_remaining, in blocks
  bsc,         \* uds_bsc
  readEnd,     \* uds_read_end: ReadMemory returns blocks 1..readEnd
  slotB,       \* the number of the block each place holds, 0 when erased
  pc,          \* where BL_Run's loop is
  queued,      \* the owner's next request waits; "intime" if S3 was not over
  tx,          \* per tester: blocks it had acknowledged, None outside a download
  fresh,       \* history: the link a seed was sent to in this session, unused
  mine         \* history: places of Slot B rewritten in this session

uds == <<session, owner, unlocked, seedValid, seedOf, dl, remaining, bsc, readEnd>>
vars == <<uds, policy, idle, slotB, pc, queued, tx, fresh, mine>>

Sessions == {"default", "programming", "extended", "safety"}
Places == 1..NBlocks
Junk == NBlocks + 1

(* Bound: the number of the last block a tester sends, one more than fit. *)
LastBlock == NBlocks + 1

TypeOK ==
  /\ PolicyTypeOK
  /\ session \in Sessions /\ owner \in Links
  /\ unlocked \in BOOLEAN /\ seedValid \in BOOLEAN
  /\ seedOf \in Links \cup {None} /\ fresh \in Links \cup {None}
  /\ idle \in 0..(S3 + 1)
  /\ dl \in 0..(NBlocks + 1) /\ remaining \in 0..NBlocks /\ bsc \in 0..(BscMod - 1)
  /\ dl # 0 => dl + remaining <= NBlocks + 1
  /\ readEnd \in 0..NBlocks
  /\ slotB \in [Places -> 0..Junk]
  /\ pc \in {"poll", "serve", "busy_raw", "busy_uds"}
  /\ queued \in {"no", "intime", "late"}
  /\ tx \in [Links -> 0..LastBlock \cup {None}]
  /\ mine \subseteq Places

-----------------------------------------------------------------------------
(* The service table and its gate (bl_udspolicy.c). *)

NonDefault == Sessions \ {"default"}

Service ==
  [ SecurityAccess  |-> [in |-> NonDefault,      secure |-> FALSE],
    ReadMemory      |-> [in |-> {"programming"}, secure |-> TRUE],
    Routine         |-> [in |-> {"programming", "extended"}, secure |-> FALSE],
    RequestDownload |-> [in |-> {"programming"}, secure |-> TRUE],
    TransferData    |-> [in |-> {"programming"}, secure |-> TRUE],
    TransferExit    |-> [in |-> {"programming"}, secure |-> TRUE],
    Anywhere        |-> [in |-> Sessions,        secure |-> FALSE] ]

BL_UdsGate(sid) ==
  session \in Service[sid].in /\ (Service[sid].secure => unlocked)

BL_UdsSessionChangeAllowed(to) ==
  \/ to \in {"default", session}
  \/ session = "extended"
  \/ session = "default" /\ to = "extended"

(* A session belongs to the link that opened it. *)
Admitted(l) == session = "default" \/ l = owner

BL_StagingFree(l) == session = "default" \/ l = owner

-----------------------------------------------------------------------------
(* What a session change and the S3 timeout leave of the old session.      *)
(* Slot B keeps its content.                                               *)
EndSession_KeepSeed ==
  /\ unlocked' = FALSE /\ UNCHANGED seedValid
  /\ dl' = 0 /\ remaining' = 0 /\ readEnd' = 0
  /\ fresh' = None /\ mine' = {}

EndSession_KeepDownload ==
  /\ unlocked' = FALSE /\ seedValid' = FALSE
  /\ UNCHANGED <<dl, remaining>> /\ readEnd' = 0
  /\ fresh' = None /\ mine' = {}

EndSession_KeepReadEnd ==
  /\ unlocked' = FALSE /\ seedValid' = FALSE
  /\ dl' = 0 /\ remaining' = 0 /\ UNCHANGED readEnd
  /\ fresh' = None /\ mine' = {}

EndSession ==
  /\ unlocked' = FALSE /\ seedValid' = FALSE
  /\ dl' = 0 /\ remaining' = 0 /\ readEnd' = 0
  /\ fresh' = None /\ mine' = {}

Init ==
  /\ PolicyInit
  /\ session = "default" /\ owner \in Links
  /\ unlocked = FALSE /\ seedValid = FALSE /\ seedOf = None
  /\ dl = 0 /\ remaining = 0 /\ bsc = 0 /\ readEnd = 0
  /\ slotB = [p \in Places |-> 0]
  /\ idle = 0 /\ pc = "poll" /\ queued = "no"
  /\ tx = [l \in Links |-> None]
  /\ fresh = None /\ mine = {}

(* A reset clears the static variables; uds_link is some link again. *)
Reset ==
  /\ session' = "default" /\ EndSession /\ PowerUp
  /\ owner' \in Links /\ seedOf' = None /\ bsc' = 0
  /\ idle' = 0 /\ pc' = "poll" /\ queued' = "no"
  /\ UNCHANGED <<slotB, tx>>

(* HAL_GetTick moves on. *)
Tick ==
  /\ Elapse
  /\ idle' = IF idle <= S3 THEN idle + 1 ELSE idle
  /\ UNCHANGED <<uds, slotB, pc, queued, tx, fresh, mine>>

-----------------------------------------------------------------------------
(* BL_Run. *)

(* uds_s3_poll. *)
S3Over_NotInDownload == session # "default" /\ idle > S3 /\ dl = 0

S3Over == session # "default" /\ idle > S3

S3Expire ==
  /\ pc = "poll" /\ S3Over /\ pc' = "serve"
  /\ session' = "default" /\ EndSession
  /\ UNCHANGED <<policy, owner, seedOf, bsc, idle, slotB, queued, tx>>

S3Poll ==
  /\ pc = "poll" /\ ~S3Over /\ pc' = "serve"
  /\ UNCHANGED <<uds, policy, idle, slotB, queued, tx, fresh, mine>>

NoRequest ==
  /\ pc = "serve" /\ queued = "no" /\ pc' = "poll"
  /\ UNCHANGED <<uds, policy, idle, slotB, queued, tx, fresh, mine>>

(* The owner's request arrives while the loop is busy: the CAN ring keeps  *)
(* it.  One that arrives at another time is served in the same turn.       *)
Arrive ==
  /\ session # "default" /\ queued = "no" /\ pc \in {"busy_raw", "busy_uds"}
  /\ queued' = IF idle <= S3 THEN "intime" ELSE "late"
  /\ UNCHANGED <<uds, policy, idle, slotB, pc, tx, fresh, mine>>

(* A request of link l is taken; what waited may be what is served. *)
Take(l) ==
  /\ pc = "serve"
  /\ queued' = IF l = owner THEN "no" ELSE queued

(* ... and answered at once by UDS_Handle, which restarts S3. *)
Serve(l, sid) ==
  /\ Take(l) /\ pc' = "poll"
  /\ Admitted(l) /\ BL_UdsGate(sid)
  /\ idle' = 0

(* A request that changes nothing but S3 (TesterPresent, ReadDataBy...,    *)
(* ReadMemory, or one that the gate or its handler refuses).  A tester     *)
(* that was refused takes its download for lost.                           *)
Harmless(l) ==
  /\ Take(l) /\ pc' = "poll"
  /\ idle' = IF Admitted(l) THEN 0 ELSE idle
  /\ \/ UNCHANGED tx
     \/ ~BL_UdsGate("TransferData") /\ tx' = [tx EXCEPT ![l] = None]
  /\ UNCHANGED <<uds, policy, slotB, fresh, mine>>

-----------------------------------------------------------------------------
(* Sessions and SecurityAccess. *)

DiagnosticSessionControl(l, to) ==
  /\ Serve(l, "Anywhere") /\ BL_UdsSessionChangeAllowed(to)
  /\ session' = to /\ owner' = l /\ EndSession
  /\ tx' = [tx EXCEPT ![l] = None]
  /\ UNCHANGED <<policy, seedOf, bsc, slotB>>

(* requestSeed: an all-zero seed when already unlocked. *)
RequestSeed(l) ==
  /\ Serve(l, "SecurityAccess") /\ GateOpen
  /\ IF unlocked THEN seedValid' = FALSE /\ UNCHANGED <<seedOf, fresh>>
     ELSE seedValid' = TRUE /\ seedOf' = l /\ fresh' = l
  /\ UNCHANGED <<policy, session, owner, unlocked, dl, remaining, bsc, readEnd>>
  /\ UNCHANGED <<slotB, tx, mine>>

(* sendKey with the key to the seed the board made last: only the link it  *)
(* was sent to knows it.  Right or wrong, it uses the seed up.             *)
SendKey(l) ==
  /\ Serve(l, "SecurityAccess") /\ GateOpen
  /\ \/ seedOf = l /\ seedValid /\ unlocked' = TRUE /\ NoteSuccess
     \/ UNCHANGED unlocked /\ NoteFail
  /\ seedValid' = FALSE /\ fresh' = None
  /\ UNCHANGED <<session, owner, seedOf, dl, remaining, bsc, readEnd, slotB, tx, mine>>

-----------------------------------------------------------------------------
(* The download. *)

(* Slot B is erased for the new payload; an erase that fails leaves the    *)
(* download that may be in progress as it was.                             *)
RequestDownload(l, n) ==
  /\ Serve(l, "RequestDownload")
  /\ dl' = 1 /\ remaining' = n /\ bsc' = 1 /\ readEnd' = 0
  /\ slotB' = [p \in Places |-> IF p <= n THEN 0 ELSE slotB[p]]
  /\ mine' = mine \cup 1..n
  /\ \E heard \in {0, None} : tx' = [tx EXCEPT ![l] = heard]
  /\ UNCHANGED <<policy, session, owner, unlocked, seedValid, seedOf, fresh>>

EraseFails(l, n) ==
  /\ Weak /\ Serve(l, "RequestDownload")
  /\ slotB' = [p \in Places |-> IF p < n THEN 0 ELSE IF p = n THEN Junk ELSE slotB[p]]
  /\ mine' = mine \cup 1..n
  /\ tx' = [tx EXCEPT ![l] = None]
  /\ UNCHANGED <<uds, policy, fresh>>

(* The block the tester of link l sends, and its counter. *)
Block(l) == tx[l] + 1

Transferring(l) ==
  /\ tx[l] # None /\ Block(l) <= LastBlock
  /\ Serve(l, "TransferData") /\ dl # 0

(* The reply may get lost; the tester then sends the block once more. *)
Reply(l) == tx' = [tx EXCEPT ![l] = Block(l)] \/ UNCHANGED tx

TransferRepeated(l) ==
  /\ Transferring(l)
  /\ Block(l) % BscMod = (bsc - 1) % BscMod
  /\ Reply(l)
  /\ UNCHANGED <<uds, policy, slotB, fresh, mine>>

(* A block is cut to what is left of the announced size.  Once nothing is  *)
(* left nothing is written, and the block counts and is acknowledged just  *)
(* the same.                                                               *)
Store(l) ==
  IF remaining > 0
  THEN /\ slotB[dl] = 0
       /\ slotB' = [slotB EXCEPT ![dl] = Block(l)] /\ mine' = mine \cup {dl}
       /\ dl' = dl + 1 /\ remaining' = remaining - 1
  ELSE UNCHANGED <<slotB, mine, dl, remaining>>

TransferData_NoRepeat(l) ==
  /\ Transferring(l)
  /\ Store(l) /\ bsc' = (bsc + 1) % BscMod /\ readEnd' = dl' - 1
  /\ Reply(l)
  /\ UNCHANGED <<policy, session, owner, unlocked, seedValid, seedOf, fresh>>

TransferData_BscNotWrapped(l) ==
  /\ Transferring(l) /\ Block(l) % BscMod = bsc
  /\ Store(l) /\ bsc' = bsc + 1 /\ readEnd' = dl' - 1
  /\ Reply(l)
  /\ UNCHANGED <<policy, session, owner, unlocked, seedValid, seedOf, fresh>>

TransferData(l) ==
  /\ Transferring(l) /\ Block(l) % BscMod = bsc
  /\ Store(l) /\ bsc' = (bsc + 1) % BscMod /\ readEnd' = dl' - 1
  /\ Reply(l)
  /\ UNCHANGED <<policy, session, owner, unlocked, seedValid, seedOf, fresh>>

(* A place that is not erased, or a weak cell: the tester gives up. *)
WriteFails(l) ==
  /\ Transferring(l)
  /\ Block(l) % BscMod = bsc /\ remaining > 0
  /\ \/ slotB[dl] # 0 /\ UNCHANGED slotB
     \/ Weak /\ slotB' = [slotB EXCEPT ![dl] = Junk]
  /\ mine' = mine \cup {dl}
  /\ tx' = [tx EXCEPT ![l] = None]
  /\ UNCHANGED <<uds, policy, fresh>>

TransferExit(l) ==
  /\ Serve(l, "TransferExit")
  /\ dl' = 0 /\ remaining' = 0
  /\ tx' = [tx EXCEPT ![l] = None]
  /\ UNCHANGED <<policy, session, owner, unlocked, seedValid, seedOf, bsc, readEnd>>
  /\ UNCHANGED <<slotB, fresh, mine>>

-----------------------------------------------------------------------------
(* Raw commands and what takes long. *)

(* ERASE and WRITE of a place, from a tester that is not in a download. *)
RawErase(l, p) ==
  /\ Take(l) /\ pc' = "poll" /\ tx[l] = None /\ BL_StagingFree(l)
  /\ slotB' = [slotB EXCEPT ![p] = 0]
  /\ mine' = IF session = "default" THEN mine ELSE mine \cup {p}
  /\ UNCHANGED <<uds, policy, idle, tx, fresh>>

RawWrite(l, p) ==
  /\ Take(l) /\ pc' = "poll" /\ tx[l] = None /\ BL_StagingFree(l)
  /\ slotB[p] = 0
  /\ slotB' = [slotB EXCEPT ![p] = Junk]
  /\ mine' = IF session = "default" THEN mine ELSE mine \cup {p}
  /\ UNCHANGED <<uds, policy, idle, tx, fresh>>

(* VERIFY, from any link at any time. *)
RawVerify(l) ==
  /\ Take(l) /\ pc' = "busy_raw"
  /\ UNCHANGED <<uds, policy, idle, slotB, tx, fresh, mine>>

(* The install routine asks for session and security itself. *)
InstallRoutine(l) ==
  /\ Take(l) /\ pc' = "busy_uds" /\ idle' = 0
  /\ Admitted(l) /\ BL_UdsGate("Routine")
  /\ session = "programming" /\ unlocked
  /\ UNCHANGED <<uds, policy, slotB, tx, fresh, mine>>

(* UDS_Handle restarts S3 once more when the install is done. *)
Finish ==
  /\ pc \in {"busy_raw", "busy_uds"} /\ pc' = "poll"
  /\ idle' = IF pc = "busy_uds" THEN 0 ELSE idle
  /\ UNCHANGED <<uds, policy, slotB, queued, tx, fresh, mine>>

-----------------------------------------------------------------------------
Request(l) ==
  \/ Harmless(l)
  \/ \E to \in Sessions : DiagnosticSessionControl(l, to)
  \/ RequestSeed(l) \/ SendKey(l)
  \/ \E n \in Places : RequestDownload(l, n) \/ EraseFails(l, n)
  \/ TransferRepeated(l) \/ TransferData(l) \/ WriteFails(l) \/ TransferExit(l)
  \/ \E p \in Places : RawErase(l, p) \/ RawWrite(l, p)
  \/ RawVerify(l) \/ InstallRoutine(l)

Loop == S3Expire \/ S3Poll \/ NoRequest \/ Finish

Next == Loop \/ Tick \/ Arrive \/ Reset \/ \E l \in Links : Request(l)

Spec == Init /\ [][Next]_vars

(* The loop goes round, takes a request that waits, and the tick counts. *)
TakeQueued == queued # "no" /\ Request(owner)

FairSpec == Spec /\ WF_vars(Loop \/ TakeQueued) /\ WF_vars(Tick)

-----------------------------------------------------------------------------
(* Properties. *)

(* Every unlock answers a seed that was sent to this very link, in this    *)
(* very session, and not used before: neither a session change, nor S3,    *)
(* nor a wrong key leaves a seed behind that a later sendKey could use.    *)
UnlockAnswersOwnSeed ==
  [][~unlocked /\ unlocked' => fresh = owner]_vars

(* Download and unlock live and die with the session that got them.        *)
DownloadNeedsUnlock ==
  /\ dl # 0 => session = "programming" /\ unlocked
  /\ unlocked => session # "default"

(* Of the blocks a download announced (1..dl + remaining - 1), every one   *)
(* its tester had acknowledged is in Slot B, once and in its place,        *)
(* whatever replies were lost, whatever the tester sent past the announced *)
(* size and whatever others sent meanwhile, for as long as its session     *)
(* lasts.  Until the last of them is there, the server has taken at most   *)
(* one block the tester got no reply for.                                  *)
AckedIsStaged ==
  \A l \in Links :
    tx[l] # None /\ dl # 0 /\ owner = l =>
      /\ \A k \in 1..tx[l] : k < dl + remaining => slotB[k] = k
      /\ remaining > 0 => tx[l] \in {dl - 2, dl - 1}

(* ReadMemory only returns what was put into Slot B during this session.   *)
ReadBackIsFresh == 1..readEnd \subseteq mine

(* A tester that goes quiet for good gives the board back to the others.   *)
QuietOwnerLetsGo ==
  \A l \in Links :
    <>[][\/ Loop \/ Tick \/ Reset \/ (Arrive /\ owner # l)
        \/ \E m \in Links \ {l} : Request(m)]_vars
      => <>[](session = "default" \/ owner # l)

(* "S3: a tester that goes quiet in a non-default session is dropped":     *)
(* one whose request came in time is not.                                  *)
OnlyQuietTestersDropped == ~(pc = "poll" /\ S3Over /\ queued = "intime")
=============================================================================
