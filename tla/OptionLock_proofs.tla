-------------------------- MODULE OptionLock_proofs --------------------------
(***************************************************************************)
(* Proofs about OptionLock for any number of write-protection bytes: what  *)
(* both commands leave in the option bytes under every flash fault and     *)
(* power cut, and that repeating a command repairs.                        *)
(***************************************************************************)
EXTENDS OptionLock, TLAPS

(* What LOCK_BM has written so far: nothing, then RDP, then the WRP bytes. *)
BmProgress ==
  /\ pc = "bm_rdp" => block = AllErased
  /\ pc \in {"bm_wrp", "bm_launch"} =>
       block.rdp = IF loaded.rdp THEN "level1" ELSE "level0"
  /\ pc = "bm_wrp" =>
       \A i \in Bytes : IF i < byte THEN Wanted(i) \subseteq block.wrp[i]
                       ELSE block.wrp[i] = {"erased"}
  /\ pc = "bm_launch" => \A i \in Bytes : Wanted(i) \subseteq block.wrp[i]

(* What LOCK_RDP has written so far, if nothing was given up. *)
Writing == {"rdp_wrp", "rdp_user", "rdp_rdp", "rdp_answer"}

RdpProgress ==
  /\ pc = "rdp_launch" => ok
  /\ pc \in Writing \cup {"rdp_launch"} /\ ok =>
       \A i \in Bytes : (pc = "rdp_wrp" => i < byte) => loaded.wrp[i] \subseteq block.wrp[i]
  /\ pc \in {"rdp_rdp", "rdp_answer", "rdp_launch"} /\ ok => block.user = loaded.user
  /\ pc \in {"rdp_answer", "rdp_launch"} /\ ok => block.rdp = "level1"

(* Without a fault nothing was given up, and what is to be written is blank. *)
Faultless ==
  pc \in Writing /\ faults = 0 =>
    /\ ok
    /\ pc = "rdp_wrp" => \A i \in Bytes : i >= byte => block.wrp[i] = {"erased"}
    /\ pc \in {"rdp_wrp", "rdp_user"} => block.user = "erased"
    /\ pc # "rdp_answer" => block.rdp = "erased"

(* The Boot Manager's protection is in force and missing in the block. *)
Exposed == "bm" \in loaded.wrp[0] /\ "bm" \notin block.wrp[0]

Exposure ==
  /\ Exposed => \/ warned
                \/ pc \in {"bm_erase_again", "bm_rdp"}
                \/ pc \in {"bm_wrp", "rdp_wrp"} /\ byte = 0
                \/ pc \in Writing /\ faults = 3
  /\ pc = "rdp_wrp" /\ byte = 0 =>
       faults = 3 \/ (block.wrp[0] = {"erased"} /\ faults >= tries)

IInv == TypeOK /\ BmProgress /\ RdpProgress /\ Faultless /\ Exposure

-----------------------------------------------------------------------------
(* The types of the option bytes and of the registers. *)

BlockType ==
  {b \in [rdp  : {"level0", "level1"} \cup Blank,
          user : {"default", "custom"} \cup Blank,
          wrp  : [Bytes -> SUBSET ({"bm", "others"} \cup Blank)]] :
     \A i \in Bytes : b.wrp[i] \in (SUBSET Groups(i)) \cup {{"erased"}, {"torn"}}}

RegsType ==
  {r \in [rdp : BOOLEAN, user : {"default", "custom"}, wrp : [Bytes -> SUBSET {"bm", "others"}]] :
     \A i \in Bytes : r.wrp[i] \subseteq Groups(i)}

(* WRP0, which holds the Boot Manager's pages, is one of the bytes.        *)
LEMMA ZeroByte == 0 \in Bytes /\ LastByte \in Bytes
  BY LockAssumption DEF Bytes

(* What an erase leaves, whole or torn, is a block.                        *)
LEMMA BlankBlocks == AllErased \in BlockType /\ AllTorn \in BlockType
  BY DEF AllErased, AllTorn, BlockType, Blank

(* A reset loads registers that protect no more than the bytes can.        *)
LEMMA LoadType == ASSUME NEW b \in BlockType PROVE Load(b) \in RegsType
<1>1. ASSUME NEW i \in Bytes PROVE b.wrp[i] \ Blank \subseteq Groups(i) /\ Groups(i) \subseteq {"bm", "others"}
  BY DEF BlockType, Blank, Groups
<1>2. [i \in Bytes |-> b.wrp[i] \ Blank] \in [Bytes -> SUBSET {"bm", "others"}]
  BY <1>1
<1>3. (b.rdp # "level0") \in BOOLEAN
  OBVIOUS
<1>4. (IF b.user \in Blank THEN "default" ELSE b.user) \in {"default", "custom"}
  BY DEF BlockType, Blank
<1>5. QED
  BY <1>1, <1>2, <1>3, <1>4 DEF Load, RegsType

(* What a reset loads, field by field.                                     *)
LEMMA LoadIs ==
  ASSUME NEW b
  PROVE  /\ Load(b).rdp = (b.rdp # "level0")
         /\ Load(b).user = IF b.user \in Blank THEN "default" ELSE b.user
         /\ \A i \in Bytes : Load(b).wrp[i] = b.wrp[i] \ Blank
  BY DEF Load

(* Writing one WRP byte changes nothing else in the block.                 *)
LEMMA SpoiltByte ==
  ASSUME NEW b \in BlockType, NEW i \in Bytes,
         NEW new \in (SUBSET Groups(i)) \cup {{"erased"}, {"torn"}}
  PROVE  /\ [b EXCEPT !.wrp[i] = new] \in BlockType
         /\ [b EXCEPT !.wrp[i] = new].rdp = b.rdp
         /\ [b EXCEPT !.wrp[i] = new].user = b.user
         /\ [b EXCEPT !.wrp[i] = new].wrp[i] = new
         /\ \A j \in Bytes \ {i} : [b EXCEPT !.wrp[i] = new].wrp[j] = b.wrp[j]
<1>1. new \in SUBSET ({"bm", "others"} \cup Blank)
  BY DEF Groups, Blank
<1>2. [b.wrp EXCEPT ![i] = new] \in [Bytes -> SUBSET ({"bm", "others"} \cup Blank)]
  BY <1>1 DEF BlockType
<1>3. [b EXCEPT !.wrp[i] = new] = [b EXCEPT !.wrp = [b.wrp EXCEPT ![i] = new]]
  OBVIOUS
<1>4. QED
  BY <1>2, <1>3 DEF BlockType

(* TypeOK in terms of the two types.                                       *)
LEMMA TypeIs == TypeOK <=>
  /\ block \in BlockType /\ loaded \in RegsType
  /\ pc \in {"idle", "bm_launch", "rdp_launch", "bm_erase", "bm_erase_again", "bm_rdp", "bm_wrp",
              "rdp_erase", "rdp_wrp", "rdp_user", "rdp_rdp", "rdp_answer"}
  /\ byte \in Bytes /\ tries \in 0 .. 2 /\ faults \in 0 .. 3
  /\ ok \in BOOLEAN /\ unlocked \in BOOLEAN /\ warned \in BOOLEAN
  BY DEF TypeOK, BlockType, RegsType

-----------------------------------------------------------------------------
(* The programming of one byte. *)

(* A failed try counts, unless it is one at a byte that was not blank. *)
Counted(blank) == IF blank THEN faults' > 0 /\ faults' >= faults ELSE faults' = faults

(* What one program of an option byte leaves, and what it counts.          *)
LEMMA ProgramFaults ==
  ASSUME faults \in 0..3, NEW old, NEW erased, NEW torn, NEW new, NEW left, NEW done \in BOOLEAN,
         Program(old, erased, torn, new, done, left)
  PROVE  /\ faults' \in 0..3
         /\ done => old = erased /\ left = new /\ faults' = faults
         /\ ~done => Counted(old = erased)
         /\ ~done /\ old = erased => faults' = 3 \/ (left = old /\ faults' = faults + 1)
         /\ ~done /\ old # erased => left = old
  BY DEF Program, Counted

(* FLASH_OB_EnableWRP and the WRP loop of BL_Handle_LockRdp: one byte.     *)
LEMMA WrpProgrammed ==
  ASSUME TypeOK, NEW new \in SUBSET Groups(byte), NEW done \in BOOLEAN, ProgramWrp(new, done)
  PROVE  /\ block' \in BlockType /\ faults' \in 0..3
         /\ block'.rdp = block.rdp /\ block'.user = block.user
         /\ \A j \in Bytes \ {byte} : block'.wrp[j] = block.wrp[j]
         /\ done => block.wrp[byte] = {"erased"} /\ block'.wrp[byte] = new /\ faults' = faults
         /\ ~done => Counted(block.wrp[byte] = {"erased"})
         /\ ~done /\ block.wrp[byte] = {"erased"} =>
              faults' = 3 \/ (block'.wrp[byte] = block.wrp[byte] /\ faults' = faults + 1)
         /\ ~done /\ block.wrp[byte] # {"erased"} => block'.wrp[byte] = block.wrp[byte]
<1>1. PICK left \in {block.wrp[byte], {"torn"}, new} :
        /\ Program(block.wrp[byte], {"erased"}, {"torn"}, new, done, left)
        /\ block' = [block EXCEPT !.wrp[byte] = left]
  BY DEF ProgramWrp
<1>2. block \in BlockType /\ byte \in Bytes /\ faults \in 0..3
  BY TypeIs
<1>3. left \in (SUBSET Groups(byte)) \cup {{"erased"}, {"torn"}}
  BY <1>2 DEF BlockType
<1>4. /\ block' \in BlockType /\ block'.rdp = block.rdp /\ block'.user = block.user
      /\ block'.wrp[byte] = left
      /\ \A j \in Bytes \ {byte} : block'.wrp[j] = block.wrp[j]
  BY <1>1, <1>2, <1>3, SpoiltByte
<1>5. /\ faults' \in 0..3
      /\ done => block.wrp[byte] = {"erased"} /\ left = new /\ faults' = faults
      /\ ~done => Counted(block.wrp[byte] = {"erased"})
      /\ ~done /\ block.wrp[byte] = {"erased"} =>
           faults' = 3 \/ (left = block.wrp[byte] /\ faults' = faults + 1)
      /\ ~done /\ block.wrp[byte] # {"erased"} => left = block.wrp[byte]
  BY <1>1, <1>2, ProgramFaults
<1>6. QED
  BY <1>4, <1>5

(* The RDP byte.                                                           *)
LEMMA RdpProgrammed ==
  ASSUME TypeOK, NEW new \in {"level0", "level1"}, NEW done \in BOOLEAN, ProgramByte("rdp", new, done)
  PROVE  /\ block' \in BlockType /\ faults' \in 0..3
         /\ block'.wrp = block.wrp /\ block'.user = block.user
         /\ done => block.rdp = "erased" /\ block'.rdp = new /\ faults' = faults
         /\ ~done => Counted(block.rdp = "erased")
<1>1. PICK left \in {block.rdp, "torn", new} :
        /\ Program(block.rdp, "erased", "torn", new, done, left)
        /\ block' = [block EXCEPT !.rdp = left]
  BY DEF ProgramByte
<1>2. block \in BlockType /\ faults \in 0..3
  BY TypeIs
<1>3. block' \in BlockType /\ block'.wrp = block.wrp /\ block'.user = block.user /\ block'.rdp = left
  BY <1>1, <1>2 DEF BlockType, Blank
<1>4. QED
  BY <1>1, <1>2, <1>3, ProgramFaults

(* The USER byte.                                                          *)
LEMMA UserProgrammed ==
  ASSUME TypeOK, NEW new \in {"default", "custom"}, NEW done \in BOOLEAN, ProgramByte("user", new, done)
  PROVE  /\ block' \in BlockType /\ faults' \in 0..3
         /\ block'.wrp = block.wrp /\ block'.rdp = block.rdp
         /\ done => block.user = "erased" /\ block'.user = new /\ faults' = faults
         /\ ~done => Counted(block.user = "erased")
<1>1. PICK left \in {block.user, "torn", new} :
        /\ Program(block.user, "erased", "torn", new, done, left)
        /\ block' = [block EXCEPT !.user = left]
  BY DEF ProgramByte
<1>2. block \in BlockType /\ faults \in 0..3
  BY TypeIs
<1>3. block' \in BlockType /\ block'.wrp = block.wrp /\ block'.rdp = block.rdp /\ block'.user = left
  BY <1>1, <1>2 DEF BlockType, Blank
<1>4. QED
  BY <1>1, <1>2, <1>3, ProgramFaults

(* The block after an erase.                                               *)
LEMMA Erased ==
  /\ AllErased \in BlockType /\ AllErased.rdp = "erased" /\ AllErased.user = "erased"
  /\ \A i \in Bytes : AllErased.wrp[i] = {"erased"}
  BY BlankBlocks DEF AllErased

(* What LOCK_BM writes keeps what is protected and adds the Boot Manager.  *)
LEMMA WantedType ==
  ASSUME TypeOK, NEW i \in Bytes
  PROVE  /\ Wanted(i) \in SUBSET Groups(i) /\ loaded.wrp[i] \subseteq Wanted(i)
         /\ "bm" \in Wanted(0)
  BY TypeIs DEF Wanted, RegsType, Groups

-----------------------------------------------------------------------------
(* After a reset nothing is in progress and the block is in force.         *)
LEMMA Restarted ==
  ASSUME IInv, block' \in BlockType, loaded' = Load(block'), Goto("idle"),
         unlocked' = FALSE, warned' = FALSE, UNCHANGED <<ok, faults>>
  PROVE  IInv'
<1>1. TypeOK'
  <2>1. loaded' \in RegsType
    BY LoadType
  <2>2. pc' = "idle" /\ byte' \in Bytes /\ tries' \in 0 .. 2
    BY ZeroByte DEF Goto
  <2>3. /\ faults' \in 0 .. 3 /\ ok' \in BOOLEAN /\ unlocked' \in BOOLEAN /\ warned' \in BOOLEAN
    BY TypeIs DEF IInv
  <2>4. QED
    BY <2>1, <2>2, <2>3 DEF TypeOK, BlockType, RegsType
<1>2. "bm" \in loaded'.wrp[0] => "bm" \in block'.wrp[0]
  BY LoadIs, ZeroByte
<1>3. QED
  BY <1>1, <1>2
     DEF IInv, BmProgress, RdpProgress, Writing, Faultless, Exposed, Exposure, Goto

(* A reset between two commands.                                           *)
LEMMA ResetStep == ASSUME IInv, Reset PROVE IInv'
  BY Restarted, TypeIs DEF IInv, Reset

(* A power cut in the middle of one, whatever it tears.                    *)
LEMMA PowerCutStep == ASSUME IInv, PowerCut PROVE IInv'
<1>1. block \in BlockType /\ byte \in Bytes
  BY TypeIs DEF IInv
<1>2. /\ [block EXCEPT !.wrp[byte] = {"torn"}] \in BlockType
      /\ [block EXCEPT !.rdp = "torn"] \in BlockType
      /\ [block EXCEPT !.user = "torn"] \in BlockType
  <2>1. [block EXCEPT !.wrp[byte] = {"torn"}] \in BlockType
    BY <1>1, SpoiltByte
  <2>2. QED
    BY <1>1, <2>1 DEF BlockType, Blank
<1>3. TornBy \subseteq BlockType
  BY <1>2, BlankBlocks DEF TornBy
<1>4. block' \in BlockType
  BY <1>1, <1>3 DEF PowerCut
<1>5. QED
  BY <1>4, Restarted DEF PowerCut

-----------------------------------------------------------------------------
(* The start of a command, and what happens between two. *)
LEMMA StartStep ==
  ASSUME IInv, BL_Handle_LockBm \/ BL_Handle_LockRdp
  PROVE  IInv'
<1>1. TypeOK'
  BY TypeIs, ZeroByte DEF IInv, TypeOK, BL_Handle_LockBm, BL_Handle_LockRdp, Goto
<1>2. /\ pc = "idle" /\ pc' \in {"bm_erase", "rdp_erase"}
      /\ UNCHANGED <<block, loaded, ok, warned>>
  BY DEF BL_Handle_LockBm, BL_Handle_LockRdp, Goto
<1>3. QED
  BY <1>1, <1>2 DEF IInv, BmProgress, RdpProgress, Writing, Faultless, Exposed, Exposure

(* A programming session begins or ends.                                   *)
LEMMA StutterStep ==
  ASSUME IInv, SessionChange \/ UNCHANGED vars
  PROVE  IInv'
<1>1. UNCHANGED <<block, loaded, pc, byte, tries, ok, warned, faults>> /\ unlocked' \in BOOLEAN
  BY TypeIs DEF IInv, SessionChange, vars
<1>2. QED
  BY <1>1 DEF IInv, TypeOK, BmProgress, Wanted, RdpProgress, Writing, Faultless, Exposed, Exposure

-----------------------------------------------------------------------------
(* LOCK_BM. *)

(* A command that was answered 0 leaves the host warned. *)
LEMMA Refused ==
  ASSUME IInv, AnswerZero, block' \in BlockType, faults' \in 0..3, ok' \in BOOLEAN,
         UNCHANGED <<loaded, unlocked>>
  PROVE  IInv'
<1>1. TypeOK'
  BY TypeIs, ZeroByte DEF IInv, TypeOK, BlockType, AnswerZero, Goto
<1>2. pc' = "idle" /\ warned'
  BY DEF AnswerZero, Goto
<1>3. QED
  BY <1>1, <1>2 DEF IInv, BmProgress, RdpProgress, Writing, Faultless, Exposure

(* The two erases of HAL_FLASHEx_OBProgram.                                *)
LEMMA BmEraseStep == ASSUME IInv, BmErase PROVE IInv'
<1>1. PICK done \in BOOLEAN :
        /\ EraseBlock(done)
        /\ IF done THEN /\ Goto(IF pc = "bm_erase" THEN "bm_erase_again" ELSE "bm_rdp")
                        /\ UNCHANGED warned
                   ELSE AnswerZero
  BY DEF BmErase
<1>2. UNCHANGED <<loaded, ok, unlocked>>
  BY DEF BmErase
<1>3. CASE done
  <2>1. /\ block' = AllErased /\ pc' \in {"bm_erase_again", "bm_rdp"} /\ byte' = 0 /\ tries' = 0
        /\ UNCHANGED <<warned, faults>>
    BY <1>1, <1>3 DEF EraseBlock, Goto
  <2>2. TypeOK'
    BY <1>2, <2>1, Erased, ZeroByte, TypeIs DEF IInv, TypeOK, BlockType
  <2>3. QED
    BY <2>1, <2>2 DEF IInv, BmProgress, RdpProgress, Writing, Faultless, Exposure, AllErased
<1>4. CASE ~done
  <2>1. AnswerZero /\ block' \in BlockType /\ faults' \in 0..3
    BY <1>1, <1>4, Erased, TypeIs DEF IInv, EraseBlock
  <2>2. QED
    BY <1>2, <2>1, Refused, TypeIs DEF IInv
<1>5. QED
  BY <1>3, <1>4

(* RDP is rewritten as it was.                                             *)
LEMMA BmRdpStep == ASSUME IInv, BmRdp PROVE IInv'
<1> DEFINE new == IF loaded.rdp THEN "level1" ELSE "level0"
<1>1. PICK done \in BOOLEAN :
        /\ ProgramByte("rdp", new, done)
        /\ IF done THEN Goto("bm_wrp") /\ UNCHANGED warned ELSE AnswerZero
  BY DEF BmRdp
<1>2. UNCHANGED <<loaded, ok, unlocked>> /\ block = AllErased
  BY DEF IInv, BmProgress, BmRdp
<1>3. /\ block' \in BlockType /\ faults' \in 0..3 /\ block'.wrp = block.wrp
      /\ done => block'.rdp = new
  <2>1. new \in {"level0", "level1"}
    OBVIOUS
  <2>2. QED
    BY <1>1, <2>1, RdpProgrammed DEF IInv
<1>4. CASE done
  <2>1. pc' = "bm_wrp" /\ byte' = 0 /\ tries' = 0 /\ warned' = warned
    BY <1>1, <1>4 DEF Goto
  <2>2. TypeOK'
    BY <1>2, <1>3, <2>1, ZeroByte, TypeIs DEF IInv, TypeOK, BlockType
  <2>3. /\ \A i \in Bytes : ~(i < 0)
        /\ \A i \in Bytes : block'.wrp[i] = {"erased"}
    BY <1>2, <1>3, Erased DEF Bytes
  <2>4. BmProgress'
    BY <1>2, <1>3, <1>4, <2>1, <2>3 DEF BmProgress
  <2>5. QED
    BY <2>1, <2>2, <2>4 DEF IInv, RdpProgress, Writing, Faultless, Exposure
<1>5. CASE ~done
  BY <1>1, <1>2, <1>3, <1>5, Refused, TypeIs DEF IInv
<1>6. QED
  BY <1>4, <1>5

(* A byte is done: the next one, or the end. *)
LEMMA BmNextStep ==
  ASSUME IInv, pc = "bm_wrp", BmNext, block' \in BlockType, faults' \in 0..3,
         UNCHANGED <<loaded, ok, unlocked>>, block'.rdp = block.rdp,
         \A j \in Bytes \ {byte} : block'.wrp[j] = block.wrp[j],
         Wanted(byte) \subseteq block'.wrp[byte]
  PROVE  IInv'
<1>1. byte \in Bytes /\ byte \in 0..LastByte /\ LastByte \in Nat
  BY TypeIs, LockAssumption DEF IInv, Bytes
<1>2. /\ block'.rdp = IF loaded'.rdp THEN "level1" ELSE "level0"
      /\ \A i \in Bytes : Wanted(i)' = Wanted(i)
  BY DEF IInv, BmProgress, Wanted
<1>3. \A i \in Bytes : i <= byte => Wanted(i) \subseteq block'.wrp[i]
  <2> SUFFICES ASSUME NEW i \in Bytes, i <= byte PROVE Wanted(i) \subseteq block'.wrp[i]
    OBVIOUS
  <2>1. CASE i = byte
    BY <2>1
  <2>2. CASE i < byte
    BY <1>1, <2>2 DEF IInv, BmProgress
  <2>3. QED
    BY <1>1, <2>1, <2>2 DEF Bytes
<1>4. "bm" \in block'.wrp[0]
  BY <1>1, <1>3, ZeroByte, WantedType DEF IInv
<1>5. CASE byte = LastByte
  <2>1. pc' = "bm_launch" /\ byte' = 0 /\ tries' = 0 /\ warned' = warned
    BY <1>5 DEF BmNext, AnswerOne, Goto
  <2>2. TypeOK'
    BY <2>1, ZeroByte, TypeIs DEF IInv, TypeOK, BlockType
  <2>3. BmProgress'
    BY <1>1, <1>2, <1>3, <1>5, <2>1 DEF BmProgress, Bytes
  <2>4. QED
    BY <1>4, <2>1, <2>2, <2>3 DEF IInv, RdpProgress, Writing, Faultless, Exposed, Exposure
<1>6. CASE byte # LastByte
  <2>1. pc' = "bm_wrp" /\ byte' = byte + 1 /\ tries' = tries /\ warned' = warned
    BY <1>6 DEF BmNext
  <2>2. byte' \in Bytes
    BY <1>1, <1>6, <2>1 DEF Bytes
  <2>3. TypeOK'
    BY <2>1, <2>2, TypeIs DEF IInv, TypeOK, BlockType
  <2>4. ASSUME NEW i \in Bytes
        PROVE  IF i < byte + 1 THEN Wanted(i) \subseteq block'.wrp[i]
               ELSE block'.wrp[i] = {"erased"}
    <3>1. CASE i <= byte
      BY <1>1, <1>3, <3>1 DEF Bytes
    <3>2. CASE i > byte
      BY <1>1, <3>2 DEF IInv, BmProgress, Bytes
    <3>3. QED
      BY <1>1, <3>1, <3>2 DEF Bytes
  <2>5. BmProgress'
    BY <1>2, <2>1, <2>4 DEF BmProgress
  <2>6. QED
    BY <1>4, <2>1, <2>3, <2>5 DEF IInv, RdpProgress, Writing, Faultless, Exposed, Exposure
<1>7. QED
  BY <1>5, <1>6

(* One WRP byte of LOCK_BM.                                                *)
LEMMA BmWrpStep == ASSUME IInv, BmWrp PROVE IInv'
<1>1. byte \in Bytes /\ block \in BlockType /\ pc = "bm_wrp" /\ UNCHANGED <<loaded, ok, unlocked>>
  BY TypeIs DEF IInv, BmWrp
<1>2. CASE Wanted(byte) = {} /\ BmNext /\ UNCHANGED <<block, faults>>
  BY <1>1, <1>2, BmNextStep, TypeIs DEF IInv
<1>3. ASSUME NEW done \in BOOLEAN, ProgramWrp(Wanted(byte), done), IF done THEN BmNext ELSE AnswerZero
      PROVE  IInv'
  <2>1. /\ block' \in BlockType /\ faults' \in 0..3
        /\ block'.rdp = block.rdp
        /\ \A j \in Bytes \ {byte} : block'.wrp[j] = block.wrp[j]
        /\ done => block'.wrp[byte] = Wanted(byte)
    BY <1>1, <1>3, WantedType, WrpProgrammed DEF IInv
  <2>2. CASE done
    BY <1>1, <1>3, <2>1, <2>2, BmNextStep
  <2>3. CASE ~done
    BY <1>1, <1>3, <2>1, <2>3, Refused, TypeIs DEF IInv
  <2>4. QED
    BY <2>2, <2>3
<1>4. QED
  BY <1>2, <1>3 DEF BmWrp

-----------------------------------------------------------------------------
(* LOCK_RDP. *)

(* The erase of BL_Handle_LockRdp.                                         *)
LEMMA RdpEraseStep == ASSUME IInv, RdpErase PROVE IInv'
<1>1. PICK done \in BOOLEAN : EraseBlock(done) /\ ok' = done
  BY DEF RdpErase
<1>2. /\ pc' = "rdp_wrp" /\ byte' = 0 /\ tries' = 0
      /\ UNCHANGED <<loaded, unlocked, warned>>
  BY DEF RdpErase, Goto
<1>3. /\ block' \in BlockType /\ faults' \in 0 .. 3
      /\ (done /\ block' = AllErased) \/ (~done /\ faults' = 3)
  BY <1>1, Erased, TypeIs DEF IInv, EraseBlock
<1>4. TypeOK'
  BY <1>1, <1>2, <1>3, ZeroByte, TypeIs DEF IInv, TypeOK, BlockType
<1>5. \A i \in Bytes : ~(i < 0)
  BY DEF Bytes
<1>6. RdpProgress'
  BY <1>2, <1>5 DEF RdpProgress
<1>7. Faultless' /\ Exposure'
  BY <1>1, <1>2, <1>3, Erased, ZeroByte DEF Faultless, Writing, Exposure
<1>8. QED
  BY <1>2, <1>4, <1>6, <1>7 DEF IInv, BmProgress

(* What a failed try at a byte says of the faults met. *)
LEMMA RdpWrpFailed ==
  ASSUME IInv, pc = "rdp_wrp", ProgramWrp(loaded.wrp[byte], FALSE)
  PROVE  /\ faults' > 0 /\ faults' >= faults
         /\ byte = 0 => \/ faults' = 3
                        \/ block'.wrp[0] = {"erased"} /\ faults' >= tries + 1
<1>1. byte \in Bytes /\ faults \in 0 .. 3 /\ tries \in 0 .. 2 /\ loaded.wrp[byte] \in SUBSET Groups(byte)
  BY TypeIs DEF IInv, RegsType
<1>2. /\ faults' \in 0 .. 3
      /\ Counted(block.wrp[byte] = {"erased"})
      /\ block.wrp[byte] = {"erased"} =>
           faults' = 3 \/ (block'.wrp[byte] = block.wrp[byte] /\ faults' = faults + 1)
  BY <1>1, WrpProgrammed DEF IInv
<1>3. faults = 0 => block.wrp[byte] = {"erased"}
  BY <1>1 DEF IInv, Faultless, Writing, Bytes
<1>4. faults' > 0 /\ faults' >= faults
  BY <1>1, <1>2, <1>3 DEF Counted
<1>5. byte = 0 => faults = 3 \/ (block.wrp[0] = {"erased"} /\ faults >= tries)
  BY DEF IInv, Exposure
<1>6. QED
  BY <1>1, <1>2, <1>4, <1>5

(* One try at a WRP byte: once more, the next byte, or USER.               *)
LEMMA RdpWrpStep == ASSUME IInv, RdpWrp PROVE IInv'
<1> DEFINE then == IF byte = LastByte THEN Goto("rdp_user")
                   ELSE byte' = byte + 1 /\ tries' = 0 /\ UNCHANGED pc
<1>1. PICK done \in BOOLEAN : ProgramWrp(loaded.wrp[byte], done) /\ Tried(done, 3, then)
  BY DEF RdpWrp
<1>2. pc = "rdp_wrp" /\ UNCHANGED <<loaded, unlocked, warned>>
  BY DEF RdpWrp
<1>3. /\ byte \in Bytes /\ byte \in 0 .. LastByte /\ LastByte \in Nat
      /\ faults \in 0 .. 3 /\ tries \in 0 .. 2 /\ ok \in BOOLEAN
      /\ loaded.wrp[byte] \in SUBSET Groups(byte)
  BY LockAssumption, TypeIs DEF IInv, RegsType, Bytes
<1>4. /\ block' \in BlockType /\ faults' \in 0 .. 3
      /\ block'.rdp = block.rdp /\ block'.user = block.user
      /\ \A j \in Bytes \ {byte} : block'.wrp[j] = block.wrp[j]
      /\ done => block'.wrp[byte] = loaded.wrp[byte] /\ faults' = faults
  BY <1>1, <1>3, WrpProgrammed DEF IInv
<1>5. ~done => /\ faults' > 0 /\ faults' >= faults
               /\ byte = 0 => \/ faults' = 3
                              \/ block'.wrp[0] = {"erased"} /\ faults' >= tries + 1
  BY <1>1, <1>2, RdpWrpFailed
<1>6. byte # 0 /\ Exposed' => warned' \/ faults' = 3
  BY <1>2, <1>3, <1>4, <1>5, ZeroByte DEF IInv, Exposure, Exposed
<1>7. CASE ~done /\ tries + 1 < 3 /\ tries' = tries + 1 /\ UNCHANGED <<pc, byte, ok>>
  <2>1. TypeOK'
    BY <1>2, <1>3, <1>4, <1>7, TypeIs DEF IInv, TypeOK, BlockType
  <2>2. RdpProgress'
    BY <1>2, <1>3, <1>4, <1>7 DEF IInv, RdpProgress, Writing, Bytes
  <2>3. Faultless' /\ Exposure'
    BY <1>2, <1>3, <1>5, <1>6, <1>7 DEF Faultless, Exposure, Writing
  <2>4. QED
    BY <1>2, <1>7, <2>1, <2>2, <2>3 DEF IInv, BmProgress
<1>8. CASE then /\ ((done /\ UNCHANGED ok) \/ (~done /\ tries + 1 = 3 /\ ok' = FALSE))
  <2>1. /\ tries' = 0 /\ byte' \in Bytes
        /\ \/ byte = LastByte /\ pc' = "rdp_user" /\ byte' = 0
           \/ byte # LastByte /\ pc' = "rdp_wrp" /\ byte' = byte + 1
    BY <1>2, <1>3, <1>8, ZeroByte DEF Goto, Bytes
  <2>2. TypeOK'
    <3>1. ok' \in BOOLEAN
      BY <1>3, <1>8
    <3>2. QED
      BY <1>2, <1>4, <2>1, <3>1, TypeIs DEF IInv, TypeOK, BlockType
  <2>3. ASSUME ok', NEW i \in Bytes, i <= byte
        PROVE  loaded'.wrp[i] \subseteq block'.wrp[i]
    <3>1. CASE i = byte
      BY <1>2, <1>4, <1>8, <2>3, <3>1
    <3>2. CASE i < byte
      BY <1>2, <1>3, <1>4, <1>8, <2>3, <3>2 DEF IInv, RdpProgress, Writing
    <3>3. QED
      BY <1>3, <2>3, <3>1, <3>2 DEF Bytes
  <2>4. RdpProgress'
    BY <1>3, <2>1, <2>3 DEF RdpProgress, Bytes
  <2>5. Faultless'
    <3>1. SUFFICES ASSUME faults' = 0
                   PROVE  /\ ok' /\ block'.user = "erased" /\ block'.rdp = "erased"
                          /\ \A i \in Bytes : i > byte => block'.wrp[i] = {"erased"}
      BY <1>3, <2>1 DEF Faultless, Bytes
    <3>2. done /\ faults = 0
      BY <1>3, <1>4, <1>5, <3>1
    <3>3. QED
      BY <1>2, <1>3, <1>4, <1>8, <3>2 DEF IInv, Faultless, Writing, Bytes
  <2>6. Exposed' => warned' \/ faults' = 3
    <3>1. CASE byte = 0 /\ done
      BY <1>2, <1>4, <3>1 DEF Exposed
    <3>2. CASE byte = 0 /\ ~done
      BY <1>3, <1>4, <1>5, <1>8, <3>2
    <3>3. QED
      BY <1>6, <3>1, <3>2
  <2>7. Exposure'
    BY <1>3, <2>1, <2>6 DEF Exposure, Writing
  <2>8. QED
    BY <2>1, <2>2, <2>4, <2>5, <2>7 DEF IInv, BmProgress
<1>9. QED
  <2>1. \/ ~done /\ tries + 1 < 3 /\ tries' = tries + 1 /\ UNCHANGED <<pc, byte, ok>>
        \/ then /\ ((done /\ UNCHANGED ok) \/ (~done /\ tries + 1 = 3 /\ ok' = FALSE))
    BY <1>1 DEF Tried
  <2>2. QED
    BY <1>7, <1>8, <2>1

(* One try at USER.                                                        *)
LEMMA RdpUserStep == ASSUME IInv, RdpUser PROVE IInv'
<1>1. PICK done \in BOOLEAN : ProgramByte("user", loaded.user, done) /\ Tried(done, 2, Goto("rdp_rdp"))
  BY DEF RdpUser
<1>2. pc = "rdp_user" /\ UNCHANGED <<loaded, unlocked, warned>>
  BY DEF RdpUser
<1>3. faults \in 0 .. 3 /\ tries \in 0 .. 2 /\ ok \in BOOLEAN /\ loaded.user \in {"default", "custom"}
  BY TypeIs DEF IInv, RegsType
<1>4. /\ block' \in BlockType /\ faults' \in 0 .. 3
      /\ block'.wrp = block.wrp /\ block'.rdp = block.rdp
      /\ done => block'.user = loaded.user /\ faults' = faults
      /\ ~done => Counted(block.user = "erased")
  BY <1>1, <1>3, UserProgrammed DEF IInv
<1>5. ~done => faults' > 0 /\ faults' >= faults
  BY <1>2, <1>3, <1>4 DEF IInv, Faultless, Writing, Counted
<1>6. Exposed' => warned' \/ faults' = 3
  BY <1>2, <1>3, <1>4, <1>5 DEF IInv, Exposure, Exposed
<1>7. \/ ~done /\ pc' = pc /\ tries' = tries + 1 /\ tries + 1 < 2 /\ byte' = byte /\ ok' = ok
      \/ pc' = "rdp_rdp" /\ tries' = 0 /\ byte' = 0 /\ done /\ ok' = ok
      \/ pc' = "rdp_rdp" /\ tries' = 0 /\ byte' = 0 /\ ~done /\ ok' = FALSE
  BY <1>1 DEF Tried, Goto
<1>8. TypeOK'
  <2>1. ok' \in BOOLEAN
    BY <1>3, <1>7
  <2>2. byte \in Bytes
    BY TypeIs DEF IInv
  <2>3. pc' \in {"rdp_user", "rdp_rdp"} /\ byte' \in Bytes /\ tries' \in 0 .. 2
    BY <1>2, <1>3, <1>7, <2>2, ZeroByte
  <2>4. QED
    BY <1>2, <1>4, <2>1, <2>3, TypeIs DEF IInv, TypeOK, BlockType
<1>9. RdpProgress'
  <2>1. ok' => ok
    BY <1>7
  <2>2. QED
    BY <1>2, <1>4, <1>7, <2>1 DEF IInv, RdpProgress, Writing
<1>10. Faultless' /\ Exposure'
  BY <1>2, <1>4, <1>5, <1>6, <1>7 DEF IInv, Faultless, Exposure, Writing
<1>11. QED
  BY <1>2, <1>7, <1>8, <1>9, <1>10 DEF IInv, BmProgress

(* One try at RDP.                                                         *)
LEMMA RdpRdpStep == ASSUME IInv, RdpRdp PROVE IInv'
<1>1. PICK done \in BOOLEAN : ProgramByte("rdp", "level1", done) /\ Tried(done, 2, Goto("rdp_answer"))
  BY DEF RdpRdp
<1>2. pc = "rdp_rdp" /\ UNCHANGED <<loaded, unlocked, warned>>
  BY DEF RdpRdp
<1>3. faults \in 0 .. 3 /\ tries \in 0 .. 2 /\ ok \in BOOLEAN
  BY TypeIs DEF IInv
<1>4. /\ block' \in BlockType /\ faults' \in 0 .. 3
      /\ block'.wrp = block.wrp /\ block'.user = block.user
      /\ done => block'.rdp = "level1" /\ faults' = faults
      /\ ~done => Counted(block.rdp = "erased")
  BY <1>1, RdpProgrammed DEF IInv
<1>5. ~done => faults' > 0 /\ faults' >= faults
  BY <1>2, <1>3, <1>4 DEF IInv, Faultless, Writing, Counted
<1>6. Exposed' => warned' \/ faults' = 3
  BY <1>2, <1>3, <1>4, <1>5 DEF IInv, Exposure, Exposed
<1>7. \/ ~done /\ pc' = pc /\ tries' = tries + 1 /\ tries + 1 < 2 /\ byte' = byte /\ ok' = ok
      \/ pc' = "rdp_answer" /\ tries' = 0 /\ byte' = 0 /\ done /\ ok' = ok
      \/ pc' = "rdp_answer" /\ tries' = 0 /\ byte' = 0 /\ ~done /\ ok' = FALSE
  BY <1>1 DEF Tried, Goto
<1>8. TypeOK'
  <2>1. ok' \in BOOLEAN
    BY <1>3, <1>7
  <2>2. byte \in Bytes
    BY TypeIs DEF IInv
  <2>3. pc' \in {"rdp_rdp", "rdp_answer"} /\ byte' \in Bytes /\ tries' \in 0 .. 2
    BY <1>2, <1>3, <1>7, <2>2, ZeroByte
  <2>4. QED
    BY <1>2, <1>4, <2>1, <2>3, TypeIs DEF IInv, TypeOK, BlockType
<1>9. RdpProgress'
  <2>1. ok' => ok
    BY <1>7
  <2>2. QED
    BY <1>2, <1>4, <1>7, <2>1 DEF IInv, RdpProgress, Writing
<1>10. Faultless' /\ Exposure'
  BY <1>2, <1>4, <1>5, <1>6, <1>7 DEF IInv, Faultless, Exposure, Writing
<1>11. QED
  BY <1>2, <1>7, <1>8, <1>9, <1>10 DEF IInv, BmProgress

(* The reply of LOCK_RDP.                                                  *)
LEMMA RdpAnswerStep == ASSUME IInv, RdpAnswer PROVE IInv'
<1>1. pc = "rdp_answer" /\ UNCHANGED <<block, loaded, ok, unlocked, faults>>
  BY DEF RdpAnswer
<1>2. CASE ok
  <2>1. pc' = "rdp_launch" /\ byte' = 0 /\ tries' = 0 /\ warned' = warned
    BY <1>2 DEF RdpAnswer, AnswerOne, Goto
  <2>2. TypeOK'
    BY <1>1, <2>1, ZeroByte, TypeIs DEF IInv, TypeOK, BlockType
  <2>3. RdpProgress'
    BY <1>1, <1>2, <2>1 DEF IInv, RdpProgress, Writing
  <2>4. Exposure'
    <3>1. \A i \in Bytes : loaded.wrp[i] \subseteq block.wrp[i]
      BY <1>1, <1>2 DEF IInv, RdpProgress, Writing
    <3>2. ~Exposed'
      BY <1>1, <3>1, ZeroByte DEF Exposed
    <3>3. QED
      BY <2>1, <3>2 DEF Exposure
  <2>5. QED
    BY <2>1, <2>2, <2>3, <2>4 DEF IInv, BmProgress, Faultless, Writing
<1>3. CASE ~ok
  <2>1. AnswerZero /\ block' \in BlockType /\ faults' \in 0 .. 3 /\ ok' \in BOOLEAN
    BY <1>1, <1>3, TypeIs DEF IInv, RdpAnswer
  <2>2. QED
    BY <1>1, <2>1, Refused
<1>4. QED
  BY <1>2, <1>3

-----------------------------------------------------------------------------
(* The invariant holds of every block a chip can start from.               *)
LEMMA InitInv == Init => IInv
<1> SUFFICES ASSUME Init PROVE IInv
  OBVIOUS
<1>1. PICK r \in {"level0", "level1"}, u \in {"default", "custom"},
           w \in {f \in [Bytes -> SUBSET {"bm", "others"}] : \A i \in Bytes : f[i] \subseteq Groups(i)} :
              block = [rdp |-> r, user |-> u, wrp |-> w]
  BY DEF Init
<1>2. block \in BlockType
  BY <1>1 DEF BlockType
<1>3. loaded = Load(block) /\ loaded \in RegsType
  BY <1>2, LoadType DEF Init
<1>4. TypeOK
  <2>1. ok \in BOOLEAN /\ unlocked \in BOOLEAN /\ warned \in BOOLEAN
    BY DEF Init
  <2>2. pc = "idle" /\ byte \in Bytes /\ tries \in 0 .. 2 /\ faults \in 0 .. 3
    BY ZeroByte DEF Init
  <2>3. QED
    BY <1>2, <1>3, <2>1, <2>2, TypeIs
<1>5. ~Exposed
  BY <1>3, LoadIs, ZeroByte DEF Exposed
<1>6. QED
  BY <1>4, <1>5 DEF Init, IInv, BmProgress, RdpProgress, Writing, Faultless, Exposure

(* Every step preserves the invariant.                                     *)
LEMMA StepInv == IInv /\ [Next]_vars => IInv'
<1> SUFFICES ASSUME IInv, [Next]_vars PROVE IInv'
  OBVIOUS
<1>1. CASE BL_Handle_LockBm \/ BL_Handle_LockRdp
  BY <1>1, StartStep
<1>2. CASE BmErase
  BY <1>2, BmEraseStep
<1>3. CASE BmRdp
  BY <1>3, BmRdpStep
<1>4. CASE BmWrp
  BY <1>4, BmWrpStep
<1>5. CASE RdpErase
  BY <1>5, RdpEraseStep
<1>6. CASE RdpWrp
  BY <1>6, RdpWrpStep
<1>7. CASE RdpUser
  BY <1>7, RdpUserStep
<1>8. CASE RdpRdp
  BY <1>8, RdpRdpStep
<1>9. CASE RdpAnswer
  BY <1>9, RdpAnswerStep
<1>10. CASE Reset
  BY <1>10, ResetStep
<1>11. CASE PowerCut
  BY <1>11, PowerCutStep
<1>12. CASE SessionChange \/ UNCHANGED vars
  BY <1>12, StutterStep
<1>13. QED
  BY <1>1, <1>2, <1>3, <1>4, <1>5, <1>6, <1>7, <1>8, <1>9, <1>10, <1>11, <1>12 DEF Next

(* The inductive invariant holds whatever fails or is cut short.           *)
THEOREM Invariance == Spec => []IInv
<1>1. QED
  BY InitInv, StepInv, PTL DEF Spec

(* The state is well typed: a WRP byte only ever protects pages it stands  *)
(* for.                                                                    *)
THEOREM TypeCorrect == Spec => []TypeOK
<1>1. IInv => TypeOK
  BY DEF IInv
<1>2. QED
  BY <1>1, Invariance, PTL

(* BL_Handle_LockBm and BL_Handle_LockRdp answer 1 only when the reset that*)
(* follows loads every protection that was in force and the one asked for. *)
THEOREM LaunchComplete == Spec => []LaunchedIsComplete
<1>1. IInv => LaunchedIsComplete
  <2> SUFFICES ASSUME IInv PROVE LaunchedIsComplete
    OBVIOUS
  <2>1. block \in BlockType /\ loaded \in RegsType
    BY TypeIs DEF IInv
  <2>2. ASSUME NEW i \in Bytes, loaded.wrp[i] \subseteq block.wrp[i]
        PROVE  loaded.wrp[i] \subseteq Load(block).wrp[i]
    BY <2>1, <2>2, LoadIs DEF RegsType, Blank
  <2>3. CASE pc = "bm_launch"
    <3>1. \A i \in Bytes : Wanted(i) \subseteq block.wrp[i]
      BY <2>3 DEF IInv, BmProgress
    <3>2. \A i \in Bytes : loaded.wrp[i] \subseteq Load(block).wrp[i]
      BY <2>2, <3>1, WantedType DEF IInv
    <3>3. BmProtected(Load(block))
      BY <3>1, WantedType, LoadIs, ZeroByte DEF IInv, BmProtected, Blank
    <3>4. block.rdp = (IF loaded.rdp THEN "level1" ELSE "level0") /\ loaded.rdp \in BOOLEAN
      BY <2>1, <2>3 DEF IInv, BmProgress, RegsType
    <3>5. Load(block).rdp = loaded.rdp
      BY <3>4, LoadIs
    <3>6. QED
      BY <2>3, <3>2, <3>3, <3>5 DEF LaunchedIsComplete
  <2>4. CASE pc = "rdp_launch"
    <3>1. /\ \A i \in Bytes : loaded.wrp[i] \subseteq block.wrp[i]
          /\ block.user = loaded.user /\ block.rdp = "level1"
      BY <2>4 DEF IInv, RdpProgress, Writing
    <3>2. \A i \in Bytes : loaded.wrp[i] \subseteq Load(block).wrp[i]
      BY <2>2, <3>1
    <3>3. Load(block).rdp /\ Load(block).user = loaded.user
      BY <2>1, <3>1, LoadIs DEF RegsType, Blank
    <3>4. QED
      BY <2>4, <3>2, <3>3 DEF LaunchedIsComplete
  <2>5. QED
    BY <2>3, <2>4 DEF LaunchedIsComplete
<1>2. QED
  BY <1>1, Invariance, PTL

(* The Boot Manager is unprotected after a power cut only in the window    *)
(* between the erase and WRP0, unless the host was told or one byte failed *)
(* three times.                                                            *)
THEOREM BriefExposure == Spec => []ExposedOnlyBriefly
<1>1. IInv => ExposedOnlyBriefly
  <2>1. BmProtected(Load(block)) <=> "bm" \in block.wrp[0]
    BY LoadIs, ZeroByte DEF BmProtected, Blank
  <2>2. QED
    BY <2>1 DEF IInv, Exposure, Exposed, ExposedOnlyBriefly, BmProtected
<1>2. QED
  BY <1>1, Invariance, PTL

(* A command that meets no flash fault answers 1, whatever torn or half-   *)
(* written block an earlier one left: BL_Handle_LockBm and BL_Handle_LockRdp*)
(* can be repeated.                                                        *)
THEOREM Healing == Spec => RepeatHeals
<1> DEFINE Heals == pc # "idle" /\ pc' = "idle" /\ warned' => faults' > 0
<1>1. IInv /\ [Next]_vars => [Heals]_vars
  <2> SUFFICES ASSUME IInv, Next, pc # "idle", pc' = "idle", warned' PROVE faults' > 0
    OBVIOUS
  <2>1. CASE BmErase
    <3>1. PICK done \in BOOLEAN :
            /\ EraseBlock(done)
            /\ IF done THEN Goto(IF pc = "bm_erase" THEN "bm_erase_again" ELSE "bm_rdp")
                       ELSE AnswerZero
      BY <2>1 DEF BmErase
    <3>2. ~done
      BY <3>1 DEF Goto
    <3>3. QED
      BY <3>1, <3>2 DEF EraseBlock
  <2>2. CASE BmRdp
    <3>1. PICK done \in BOOLEAN :
            /\ ProgramByte("rdp", IF loaded.rdp THEN "level1" ELSE "level0", done)
            /\ IF done THEN Goto("bm_wrp") ELSE AnswerZero
      BY <2>2 DEF BmRdp
    <3>2. ~done /\ block.rdp = "erased"
      BY <2>2, <3>1 DEF Goto, BmRdp, IInv, BmProgress, AllErased
    <3>3. QED
      BY <3>1, <3>2, RdpProgrammed DEF IInv, Counted
  <2>3. CASE BmWrp
    <3>1. byte \in Bytes /\ block.wrp[byte] = {"erased"}
      BY <2>3, TypeIs DEF BmWrp, IInv, BmProgress, Bytes
    <3>2. ~BmNext
      BY <2>3 DEF BmWrp, BmNext, AnswerOne, Goto
    <3>3. ProgramWrp(Wanted(byte), FALSE)
      BY <2>3, <3>2 DEF BmWrp
    <3>4. QED
      BY <3>1, <3>3, WrpProgrammed, WantedType DEF IInv, Counted
  <2>4. CASE RdpAnswer
    <3>1. ~ok /\ pc = "rdp_answer" /\ faults' = faults /\ faults \in 0 .. 3
      BY <2>4, TypeIs DEF RdpAnswer, AnswerOne, Goto, IInv
    <3>2. QED
      BY <3>1 DEF IInv, Faultless, Writing
  <2>5. CASE RdpErase \/ RdpWrp \/ RdpUser \/ RdpRdp
    BY <2>5 DEF RdpErase, RdpWrp, RdpUser, RdpRdp, Tried, Goto
  <2>6. CASE Reset \/ PowerCut
    BY <2>6 DEF Reset, PowerCut
  <2>7. CASE BL_Handle_LockBm \/ BL_Handle_LockRdp \/ SessionChange
    BY <2>7 DEF BL_Handle_LockBm, BL_Handle_LockRdp, SessionChange
  <2>8. QED
    BY <2>1, <2>2, <2>3, <2>4, <2>5, <2>6, <2>7 DEF Next
<1>2. QED
  BY <1>1, Invariance, PTL DEF Spec, RepeatHeals
=============================================================================
