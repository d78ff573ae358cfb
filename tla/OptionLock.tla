----------------------------- MODULE OptionLock -----------------------------
(***************************************************************************)
(* The option-byte locks of the FBL: LOCK_BM write-protects the Boot       *)
(* Manager through the HAL, LOCK_RDP turns read protection on by hand.     *)
(* Option bytes can only be erased as one block, so both take down every   *)
(* protection the chip has and put it back byte by byte.  What the chip    *)
(* obeys are registers loaded from the block at a reset; they keep the old *)
(* values meanwhile and are what both commands restore from.               *)
(***************************************************************************)
EXTENDS Integers

CONSTANT LastByte     \* the WRP bytes are WRP0 .. WRP<LastByte>

ASSUME LockAssumption == LastByte \in Nat

VARIABLES block,      \* the option bytes in flash
          loaded,     \* FLASH_OBR and FLASH_WRPR
          pc,         \* what the processor executes
          byte,       \* the WRP byte being written
          tries,      \* failed tries at the byte being written
          ok,         \* `ok` of BL_Handle_LockRdp
          unlocked,   \* BL_LockAllowed
          warned,     \* history: a command answered 0 since the last reset
          faults      \* history: flash faults met by this command, at most 3

vars == <<block, loaded, pc, byte, tries, ok, unlocked, warned, faults>>
-----------------------------------------------------------------------------
\* A WRP byte protects groups of pages; those of the Boot Manager are in WRP0.
Bytes == 0 .. LastByte
Groups(i) == IF i = 0 THEN {"bm", "others"} ELSE {"others"}
Blank == {"erased", "torn"}        \* loaded as if unprogrammed

\* What a reset loads: a blank RDP byte means protected, a blank WRP byte not.
Load(b) == [rdp  |-> b.rdp # "level0",
            user |-> IF b.user \in Blank THEN "default" ELSE b.user,
            wrp  |-> [i \in Bytes |-> b.wrp[i] \ Blank]]

\* A WRP byte that was not programmed is the singleton of its kind of blank.
AllErased == [rdp |-> "erased", user |-> "erased", wrp |-> [i \in Bytes |-> {"erased"}]]
AllTorn == [rdp |-> "torn", user |-> "torn", wrp |-> [i \in Bytes |-> {"torn"}]]

BmProtected(regs) == "bm" \in regs.wrp[0]

Init == /\ \E r \in {"level0", "level1"}, u \in {"default", "custom"},
              w \in {f \in [Bytes -> SUBSET {"bm", "others"}] : \A i \in Bytes : f[i] \subseteq Groups(i)} :
              block = [rdp |-> r, user |-> u, wrp |-> w]
        /\ loaded = Load(block)
        /\ pc = "idle" /\ byte = 0 /\ tries = 0 /\ ok = TRUE
        /\ unlocked = FALSE /\ warned = FALSE /\ faults = 0
-----------------------------------------------------------------------------
Goto(where) == pc' = where /\ byte' = 0 /\ tries' = 0

\* The reply is 1; the reset that loads the new block follows it.
AnswerOne(launch) == Goto(launch) /\ UNCHANGED warned
\* The reply is 0; the flash is locked again and there is no reset.
AnswerZero == Goto("idle") /\ warned' = TRUE

\* One erase of the block; an error may be reported with or without its effect.
EraseBlock(done) == \/ done /\ block' = AllErased /\ UNCHANGED faults
                    \/ ~done /\ block' \in {block, AllErased} /\ faults' = 3

\* One program of an option byte with content old.  A byte that is not erased
\* refuses; an erased one may fail and stay erased, or be spoiled for all tries.
Program(old, erased, torn, new, done, left) ==
    \/ done /\ old = erased /\ left = new /\ UNCHANGED faults
    \/ ~done /\ old # erased /\ left = old /\ UNCHANGED faults
    \/ ~done /\ old = erased /\ left = old /\ faults' = IF faults = 3 THEN 3 ELSE faults + 1
    \/ ~done /\ old = erased /\ left = torn /\ faults' = 3

ProgramByte(name, new, done) ==
    \E left \in {block[name], "torn", new} :
        /\ Program(block[name], "erased", "torn", new, done, left)
        /\ block' = [block EXCEPT ![name] = left]

ProgramWrp(new, done) ==
    \E left \in {block.wrp[byte], {"torn"}, new} :
        /\ Program(block.wrp[byte], {"erased"}, {"torn"}, new, done, left)
        /\ block' = [block EXCEPT !.wrp[byte] = left]
-----------------------------------------------------------------------------
(* LOCK_BM.  A command that is not allowed is answered 0 and changes nothing. *)

BL_Handle_LockBm ==
    /\ pc = "idle" /\ unlocked
    /\ Goto("bm_erase") /\ faults' = 0
    /\ UNCHANGED <<block, loaded, ok, unlocked, warned>>

\* FLASH_OB_EnableWRP adds the Boot Manager to what is protected now.
Wanted(i) == loaded.wrp[i] \cup (Groups(i) \cap {"bm"})

\* HAL_FLASHEx_OBErase erases, and FLASH_OB_RDP_LevelConfig erases again.
BmErase ==
    /\ pc \in {"bm_erase", "bm_erase_again"}
    /\ \E done \in BOOLEAN :
        /\ EraseBlock(done)
        /\ IF done THEN /\ Goto(IF pc = "bm_erase" THEN "bm_erase_again" ELSE "bm_rdp")
                        /\ UNCHANGED warned
                   ELSE AnswerZero
    /\ UNCHANGED <<loaded, ok, unlocked>>

BmRdp ==
    /\ pc = "bm_rdp"
    /\ \E done \in BOOLEAN :
        /\ ProgramByte("rdp", IF loaded.rdp THEN "level1" ELSE "level0", done)
        /\ IF done THEN Goto("bm_wrp") /\ UNCHANGED warned ELSE AnswerZero
    /\ UNCHANGED <<loaded, ok, unlocked>>

\* Mutant: one byte too many.
BmNext_OneMore == IF byte > LastByte THEN AnswerOne("bm_launch")
                  ELSE byte' = byte + 1 /\ UNCHANGED <<pc, tries, warned>>

BmNext == IF byte = LastByte THEN AnswerOne("bm_launch")
          ELSE byte' = byte + 1 /\ UNCHANGED <<pc, tries, warned>>

\* A byte that protects nothing is not programmed; the first failure ends it.
BmWrp ==
    /\ pc = "bm_wrp"
    /\ \/ Wanted(byte) = {} /\ BmNext /\ UNCHANGED <<block, faults>>
       \/ /\ Wanted(byte) # {}
          /\ \E done \in BOOLEAN : /\ ProgramWrp(Wanted(byte), done)
                                   /\ IF done THEN BmNext ELSE AnswerZero
    /\ UNCHANGED <<loaded, ok, unlocked>>
-----------------------------------------------------------------------------
(* LOCK_RDP.  On a chip that is read-protected it is answered 1 at once. *)

BL_Handle_LockRdp ==
    /\ pc = "idle" /\ unlocked /\ ~loaded.rdp
    /\ Goto("rdp_erase") /\ faults' = 0
    /\ UNCHANGED <<block, loaded, ok, unlocked, warned>>

\* Mutant: the block is rewritten as the HAL does for RDP, without the rest.
RdpErase_AsTheHal ==
    /\ pc = "rdp_erase"
    /\ \E done \in BOOLEAN : EraseBlock(done) /\ ok' = done
    /\ Goto("rdp_rdp")
    /\ UNCHANGED <<loaded, unlocked, warned>>

\* Mutant: the bytes are written without erasing the block first.
RdpErase_Skipped ==
    /\ pc = "rdp_erase" /\ ok' = TRUE /\ Goto("rdp_wrp")
    /\ UNCHANGED <<block, loaded, unlocked, warned, faults>>

RdpErase ==
    /\ pc = "rdp_erase"
    /\ \E done \in BOOLEAN : EraseBlock(done) /\ ok' = done
    /\ Goto("rdp_wrp")
    /\ UNCHANGED <<loaded, unlocked, warned>>

\* One more try, at most `most` in all; then `ok` is spoiled and the next byte comes.
Tried(done, most, then) ==
    \/ ~done /\ tries + 1 < most /\ tries' = tries + 1 /\ UNCHANGED <<pc, byte, ok>>
    \/ done /\ then /\ UNCHANGED ok
    \/ ~done /\ tries + 1 = most /\ then /\ ok' = FALSE

\* Mutant: a failed byte is not tried again.
RdpWrp_Once ==
    /\ pc = "rdp_wrp"
    /\ \E done \in BOOLEAN :
        /\ ProgramWrp(loaded.wrp[byte], done)
        /\ Tried(done, 1, IF byte = LastByte THEN Goto("rdp_user")
                          ELSE byte' = byte + 1 /\ tries' = 0 /\ UNCHANGED pc)
    /\ UNCHANGED <<loaded, unlocked, warned>>

RdpWrp ==
    /\ pc = "rdp_wrp"
    /\ \E done \in BOOLEAN :
        /\ ProgramWrp(loaded.wrp[byte], done)
        /\ Tried(done, 3, IF byte = LastByte THEN Goto("rdp_user")
                          ELSE byte' = byte + 1 /\ tries' = 0 /\ UNCHANGED pc)
    /\ UNCHANGED <<loaded, unlocked, warned>>

RdpUser ==
    /\ pc = "rdp_user"
    /\ \E done \in BOOLEAN : /\ ProgramByte("user", loaded.user, done)
                             /\ Tried(done, 2, Goto("rdp_rdp"))
    /\ UNCHANGED <<loaded, unlocked, warned>>

RdpRdp ==
    /\ pc = "rdp_rdp"
    /\ \E done \in BOOLEAN : /\ ProgramByte("rdp", "level1", done)
                             /\ Tried(done, 2, Goto("rdp_answer"))
    /\ UNCHANGED <<loaded, unlocked, warned>>

RdpAnswer ==
    /\ pc = "rdp_answer"
    /\ IF ok THEN AnswerOne("rdp_launch") ELSE AnswerZero
    /\ UNCHANGED <<block, loaded, ok, unlocked, faults>>
-----------------------------------------------------------------------------
\* HAL_FLASH_OB_Launch, or any other reset between two commands.
Resting == {"idle", "bm_launch", "rdp_launch"}

Reset == /\ pc \in Resting
         /\ loaded' = Load(block)
         /\ Goto("idle") /\ unlocked' = FALSE /\ warned' = FALSE
         /\ UNCHANGED <<block, ok, faults>>

\* Power fails; the byte being programmed, or the block being erased, may be torn.
TornBy == CASE pc \in {"bm_erase", "bm_erase_again", "rdp_erase"} -> {AllErased, AllTorn}
            [] pc \in {"bm_wrp", "rdp_wrp"} -> {[block EXCEPT !.wrp[byte] = {"torn"}]}
            [] pc \in {"bm_rdp", "rdp_rdp"} -> {[block EXCEPT !.rdp = "torn"]}
            [] pc = "rdp_user"              -> {[block EXCEPT !.user = "torn"]}
            [] OTHER                        -> {}

PowerCut == /\ pc \notin Resting
            /\ block' \in {block} \cup TornBy
            /\ loaded' = Load(block')
            /\ Goto("idle") /\ unlocked' = FALSE /\ warned' = FALSE
            /\ UNCHANGED <<ok, faults>>

\* A programming session is unlocked, or ends, between two commands.
SessionChange == /\ pc = "idle" /\ unlocked' = ~unlocked
                 /\ UNCHANGED <<block, loaded, pc, byte, tries, ok, warned, faults>>

Next == \/ BL_Handle_LockBm \/ BmErase \/ BmRdp \/ BmWrp
        \/ BL_Handle_LockRdp \/ RdpErase \/ RdpWrp \/ RdpUser \/ RdpRdp \/ RdpAnswer
        \/ Reset \/ PowerCut \/ SessionChange

Spec == Init /\ [][Next]_vars
-----------------------------------------------------------------------------
\* Every variable stays in its set; a WRP byte never protects what it cannot.
TypeOK ==
    /\ block \in [rdp  : {"level0", "level1"} \cup Blank,
                  user : {"default", "custom"} \cup Blank,
                  wrp  : [Bytes -> SUBSET ({"bm", "others"} \cup Blank)]]
    /\ \A i \in Bytes : block.wrp[i] \in (SUBSET Groups(i)) \cup {{"erased"}, {"torn"}}
    /\ loaded \in [rdp : BOOLEAN, user : {"default", "custom"},
                   wrp : [Bytes -> SUBSET {"bm", "others"}]]
    /\ \A i \in Bytes : loaded.wrp[i] \subseteq Groups(i)
    /\ pc \in {"idle", "bm_launch", "rdp_launch", "bm_erase", "bm_erase_again", "bm_rdp", "bm_wrp",
               "rdp_erase", "rdp_wrp", "rdp_user", "rdp_rdp", "rdp_answer"}
    /\ byte \in Bytes /\ tries \in 0 .. 2 /\ faults \in 0 .. 3
    /\ ok \in BOOLEAN /\ unlocked \in BOOLEAN /\ warned \in BOOLEAN

\* After the answer 1 the reset finds every protection the chip had, and the one
\* that was asked for, whatever failed on the way and whatever an earlier
\* command left in the block (BL_Handle_LockBm, BL_Handle_LockRdp).
LaunchedIsComplete ==
    LET next == Load(block)
    IN  /\ pc \in {"bm_launch", "rdp_launch"} =>
             /\ \A i \in Bytes : loaded.wrp[i] \subseteq next.wrp[i]
             /\ loaded.rdp => next.rdp
        /\ pc = "bm_launch"  => BmProtected(next) /\ next.rdp = loaded.rdp
        /\ pc = "rdp_launch" => next.rdp /\ next.user = loaded.user

\* The block lacks the Boot Manager's protection that is in force only between
\* the erase and WRP0, unless the host was told or one byte failed three times:
\* the order "WRP goes first" and the retries of BL_Handle_LockRdp.
ExposedOnlyBriefly ==
    BmProtected(loaded) /\ ~BmProtected(Load(block)) =>
        \/ warned \/ faults = 3
        \/ pc \in {"bm_erase_again", "bm_rdp"}
        \/ pc \in {"bm_wrp", "rdp_wrp"} /\ byte = 0

\* A command that meets no flash fault is never answered 0: repeated without a
\* reset, it repairs whatever a failed one left behind, torn bytes included.
RepeatHeals == [][pc # "idle" /\ pc' = "idle" /\ warned' => faults' > 0]_vars
=============================================================================
