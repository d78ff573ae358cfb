------------------------------ MODULE FblUpdate ------------------------------
(***************************************************************************)
(* The self-update of the flash bootloader (FBL) and its recovery by the   *)
(* Boot Manager (BM), with a power cut possible between any two flash      *)
(* operations and inside any erase or copy of a page.                      *)
(*                                                                         *)
(* Four programs share three flash areas: the BM decides what to boot, the *)
(* FBL stages an image in Slot B and records the update, the SBL (running  *)
(* from RAM) rewrites the FBL region, and the BM redoes that copy when it  *)
(* was cut short.  A region is a function from its pages to their content; *)
(* a CRC over a region stands for the content itself (no collisions).      *)
(* A program is erased or copied one page per step; a record is programmed *)
(* one word per step, since the order of its words matters.                *)
(***************************************************************************)
EXTENDS Integers

CONSTANTS
  Images,      \* signed FBL images, each also the content of its own pages
  Ver,         \* [Images -> Nat]: fw_version in the signed header
  Size,        \* [Images -> 1..NPages]: pages of payload
  NPages,      \* pages of the FBL region and of Slot B
  Junk,        \* contents that belong to no image
  SaneJunk,    \* those whose first word happens to look like a stack pointer
  Erased,      \* content of an erased page
  NoCrc,       \* the crc word of a record that was not programmed
  NoImage,     \* nothing is running
  FaultAt,     \* sites whose flash operations may fail, see FaultSites
  SwdReflash   \* TRUE when a programmer may rewrite the FBL over SWD

Pages == 1..NPages
Content == Images \cup Junk \cup {Erased}
Region == [Pages -> Content]
FaultSites == {"sbl", "bm", "stamp", "wipe", "record"}

ASSUME FblAssumption ==
  /\ NPages \in Nat \ {0}
  /\ Images # {}
  /\ Ver \in [Images -> Nat]
  /\ Size \in [Images -> Pages]
  /\ Images \cap Junk = {}
  /\ SaneJunk \subseteq Junk
  /\ Erased \notin Images \cup Junk
  /\ NoCrc \notin Region
  /\ NoImage \notin Images
  /\ FaultAt \subseteq FaultSites
  /\ SwdReflash \in BOOLEAN

VARIABLES
  fbl,         \* the FBL region
  slotB,       \* the staging slot
  record,      \* bm_state_t: the update record
  pc,          \* what the processor is doing
  page,        \* loop counter: page, or word of the record, to do next
  wasUpdate,   \* FBL_EnsureBmState's local was_update
  residue      \* history: Slot B was committed as an FBL and not yet wiped

flash == <<fbl, slotB, record>>
vars == <<fbl, slotB, record, pc, page, wasUpdate, residue>>

FblStates ==
  {"start", "stamp_erase", "stamp_write", "wipe", "run", "rec_erase", "rec_write"}
CopyStates == {"bm_erase", "bm_copy", "bm_check", "sbl_erase", "sbl_copy"}
States == FblStates \cup CopyStates \cup {"bm", "halt", "wild"}

Records == [magic : BOOLEAN, crc : Region \cup {NoCrc},
            state : {"none", "VALID", "UPDATING"}]
Blank == [magic |-> FALSE, crc |-> NoCrc, state |-> "none"]

(* Loops run over the pages of a region or the three words of a record. *)
LastPage == IF pc \in {"stamp_write", "rec_write"} THEN 3 ELSE NPages

(* The region holds the whole payload of image i; what follows is padding. *)
Complete(region, i) == \A p \in 1..Size[i] : region[p] = i
HoldsImage(region) == \E i \in Images : Complete(region, i)

Updating == record.magic /\ record.state = "UPDATING"

(* The first word of the vector table is an address in RAM. *)
SpOk == fbl[1] \in Images \cup SaneJunk

TypeOK ==
  /\ fbl \in Region
  /\ slotB \in Region
  /\ record \in Records
  /\ pc \in States
  /\ page \in 1..LastPage
  /\ wasUpdate \in BOOLEAN
  /\ residue \in BOOLEAN

(* A board as the programmer leaves it: an FBL, no record, nothing staged. *)
Init ==
  /\ \E i \in Images : fbl = [p \in Pages |-> IF p <= Size[i] THEN i ELSE Erased]
  /\ slotB = [p \in Pages |-> Erased]
  /\ record = Blank
  /\ pc = "bm"
  /\ page = 1
  /\ wasUpdate = FALSE
  /\ residue = FALSE

-----------------------------------------------------------------------------
(* The Boot Manager.  Definitions named X_Y are mutants of X: each is the  *)
(* code with one plausible mistake, and some property below must see it.   *)

BmTrustsFbl_SpOnly == SpOk

BmTrustsFbl_Tolerant ==
  SpOk \/ (record.magic /\ fbl = record.crc)

BmTrustsFbl ==
  IF Updating THEN fbl = record.crc
  ELSE SpOk \/ (record.magic /\ fbl = record.crc)

EnterFbl == pc' = IF HoldsImage(fbl) THEN "start" ELSE "wild"

BmBoot ==
  /\ pc = "bm" /\ BmTrustsFbl
  /\ EnterFbl
  /\ UNCHANGED <<flash, page, wasUpdate, residue>>

BmRecover_Never == FALSE

BmRecover ==
  /\ pc = "bm" /\ ~BmTrustsFbl
  /\ Updating /\ slotB = record.crc
  /\ pc' = "bm_erase" /\ page' = 1
  /\ UNCHANGED <<flash, wasUpdate, residue>>

BmHalt ==
  /\ pc = "bm" /\ ~BmTrustsFbl
  /\ ~(Updating /\ slotB = record.crc)
  /\ pc' = "halt"
  /\ UNCHANGED <<flash, page, wasUpdate, residue>>

(* One pass of a loop over the pages, then on to state next. *)
NextPage_OneTooMany(next) ==
  IF page <= NPages THEN page' = page + 1 /\ UNCHANGED pc
  ELSE page' = 1 /\ pc' = next

NextPage(next) ==
  IF page < NPages THEN page' = page + 1 /\ UNCHANGED pc
  ELSE page' = 1 /\ pc' = next

ErasePage(at, next) ==
  /\ pc = at
  /\ fbl' = [fbl EXCEPT ![page] = Erased]
  /\ NextPage(next)
  /\ UNCHANGED <<slotB, record, wasUpdate, residue>>

CopyPage(at, next) ==
  /\ pc = at
  /\ fbl' = [fbl EXCEPT ![page] = slotB[page]]
  /\ NextPage(next)
  /\ UNCHANGED <<slotB, record, wasUpdate, residue>>

BmErase == ErasePage("bm_erase", "bm_copy")
BmCopy == CopyPage("bm_copy", "bm_check")

BmCheck_NoCompare ==
  /\ pc = "bm_check"
  /\ EnterFbl
  /\ UNCHANGED <<flash, page, wasUpdate, residue>>

BmCheck ==
  /\ pc = "bm_check"
  /\ IF fbl = record.crc THEN EnterFbl ELSE pc' = "halt"
  /\ UNCHANGED <<flash, page, wasUpdate, residue>>

-----------------------------------------------------------------------------
(* Programming a record, magic first and state last. *)

ProgramWord_CrcLast(crc, state) ==
  record' = CASE page = 1 -> [record EXCEPT !.magic = TRUE]
              [] page = 2 -> [record EXCEPT !.state = state]
              [] OTHER    -> [record EXCEPT !.crc = crc]

ProgramWord(crc, state) ==
  record' = CASE page = 1 -> [record EXCEPT !.magic = TRUE]
              [] page = 2 -> [record EXCEPT !.crc = crc]
              [] OTHER    -> [record EXCEPT !.state = state]

(* FBL_EnsureBmState: stamp the record VALID, then wipe Slot B if this was *)
(* the first boot after an update.                                         *)
AfterStamp == pc' = IF wasUpdate THEN "wipe" ELSE "run"

FblStart ==
  /\ pc = "start"
  /\ wasUpdate' = Updating
  /\ pc' = IF record = [magic |-> TRUE, crc |-> fbl, state |-> "VALID"]
           THEN "run" ELSE "stamp_erase"
  /\ page' = 1
  /\ UNCHANGED <<flash, residue>>

StampErase ==
  /\ pc = "stamp_erase"
  /\ record' = Blank
  /\ pc' = "stamp_write" /\ page' = 1
  /\ UNCHANGED <<fbl, slotB, wasUpdate, residue>>

StampWrite ==
  /\ pc = "stamp_write"
  /\ ProgramWord(fbl, "VALID")
  /\ IF page < 3 THEN page' = page + 1 /\ UNCHANGED pc
     ELSE page' = 1 /\ AfterStamp
  /\ UNCHANGED <<fbl, slotB, wasUpdate, residue>>

Wipe ==
  /\ pc = "wipe"
  /\ slotB' = [slotB EXCEPT ![page] = Erased]
  /\ NextPage("run")
  /\ residue' = (residue /\ page < NPages)
  /\ UNCHANGED <<fbl, record, wasUpdate>>

-----------------------------------------------------------------------------
(* The FBL serving commands. *)

HostErase(p) ==
  /\ pc = "run"
  /\ slotB' = [slotB EXCEPT ![p] = Erased]
  /\ residue' = FALSE
  /\ UNCHANGED <<fbl, record, pc, page, wasUpdate>>

HostWrite(p, v) ==
  /\ pc = "run" /\ slotB[p] = Erased
  /\ slotB' = [slotB EXCEPT ![p] = v]
  /\ UNCHANGED <<fbl, record, pc, page, wasUpdate, residue>>

(* BL_Handle_UpdateFbl: the staged payload is authentic and not older than *)
(* the FBL that is running; record it, then run the SBL.                   *)
UpdateFbl_NoFloor(i) ==
  /\ pc = "run"
  /\ Complete(slotB, i)
  /\ pc' = "rec_erase" /\ page' = 1
  /\ UNCHANGED <<flash, wasUpdate, residue>>

UpdateFbl(i) ==
  /\ pc = "run"
  /\ Complete(slotB, i)
  /\ Ver[i] >= Ver[fbl[1]]
  /\ pc' = "rec_erase" /\ page' = 1
  /\ UNCHANGED <<flash, wasUpdate, residue>>

RecErase ==
  /\ pc = "rec_erase"
  /\ record' = Blank
  /\ pc' = "rec_write" /\ page' = 1
  /\ UNCHANGED <<fbl, slotB, wasUpdate, residue>>

RecWrite ==
  /\ pc = "rec_write"
  /\ ProgramWord(slotB, "UPDATING")
  /\ IF page < 3 THEN page' = page + 1 /\ UNCHANGED <<pc, residue>>
     ELSE page' = 1 /\ pc' = "sbl_erase" /\ residue' = TRUE
  /\ UNCHANGED <<fbl, slotB, wasUpdate>>

(* sbl_main: erase the region, copy Slot B, reset. *)
SblErase == ErasePage("sbl_erase", "sbl_copy")
SblCopy == CopyPage("sbl_copy", "bm")

-----------------------------------------------------------------------------
(* Power and flash faults. *)

(* A cut stops the processor.  The page being erased or copied at that     *)
(* moment is left with any content; RAM is lost.                           *)
PowerCut ==
  /\ pc' = "bm" /\ page' = 1 /\ wasUpdate' = FALSE
  /\ \/ /\ pc \in {"bm_erase", "bm_copy", "sbl_erase", "sbl_copy"}
        /\ \E v \in Content : fbl' = [fbl EXCEPT ![page] = v]
        /\ UNCHANGED <<slotB, record>>
     \/ /\ pc = "wipe"
        /\ \E v \in Content : slotB' = [slotB EXCEPT ![page] = v]
        /\ UNCHANGED <<fbl, record>>
     \/ UNCHANGED flash
  /\ UNCHANGED residue

(* The SBL reads no status: a page that failed keeps an unexpected content *)
(* and the loop goes on.                                                   *)
SblFault ==
  /\ "sbl" \in FaultAt
  /\ \/ pc = "sbl_erase" /\ NextPage("sbl_copy")
     \/ pc = "sbl_copy" /\ NextPage("bm")
  /\ \E v \in Content : fbl' = [fbl EXCEPT ![page] = v]
  /\ UNCHANGED <<slotB, record, wasUpdate, residue>>

(* The BM gives up on an error the HAL reports, and goes on when a page is *)
(* weak but the HAL reports none: it does not read pages back.             *)
BmFault ==
  /\ "bm" \in FaultAt
  /\ \/ pc = "bm_erase" /\ NextPage("bm_copy")
     \/ pc = "bm_copy" /\ NextPage("bm_check")
     \/ pc \in {"bm_erase", "bm_copy"} /\ pc' = "halt" /\ UNCHANGED page
  /\ \E v \in Content : fbl' = [fbl EXCEPT ![page] = v]
  /\ UNCHANGED <<slotB, record, wasUpdate, residue>>

(* FBL_EnsureBmState drops the results of its erase and write.  A page     *)
(* that was not erased refuses every write, so the old record stays.       *)
StampFault ==
  /\ "stamp" \in FaultAt /\ pc \in {"stamp_erase", "stamp_write"}
  /\ AfterStamp /\ page' = 1
  /\ UNCHANGED <<flash, wasUpdate, residue>>

WipeFault ==
  /\ "wipe" \in FaultAt /\ pc = "wipe"
  /\ \E v \in Content : slotB' = [slotB EXCEPT ![page] = v]
  /\ pc' = "run" /\ page' = 1
  /\ UNCHANGED <<fbl, record, wasUpdate, residue>>

(* BL_Handle_UpdateFbl drops them as well, and the SBL runs all the same.  *)
RecFault ==
  /\ "record" \in FaultAt /\ pc \in {"rec_erase", "rec_write"}
  /\ pc' = "sbl_erase" /\ page' = 1 /\ residue' = TRUE
  /\ UNCHANGED <<flash, wasUpdate>>

(* An ST-Link rewrites the FBL region and leaves everything else. *)
Reflash(i) ==
  /\ SwdReflash
  /\ fbl' = [p \in Pages |-> IF p <= Size[i] THEN i ELSE Erased]
  /\ pc' = "bm" /\ page' = 1 /\ wasUpdate' = FALSE
  /\ UNCHANGED <<slotB, record, residue>>

-----------------------------------------------------------------------------
(* What the processor does on its own, without a command or a failure. *)
Device ==
  \/ BmBoot \/ BmRecover \/ BmHalt \/ BmErase \/ BmCopy \/ BmCheck
  \/ FblStart \/ StampErase \/ StampWrite \/ Wipe
  \/ RecErase \/ RecWrite \/ SblErase \/ SblCopy

Host ==
  \/ \E p \in Pages : HostErase(p) \/ \E v \in Content : HostWrite(p, v)
  \/ \E i \in Images : UpdateFbl(i)

Fault == SblFault \/ BmFault \/ StampFault \/ WipeFault \/ RecFault

Next == Device \/ Host \/ Fault \/ PowerCut \/ \E i \in Images : Reflash(i)

Spec == Init /\ [][Next]_vars

(* A powered processor keeps executing. *)
FairSpec == Spec /\ WF_vars(Device)
-----------------------------------------------------------------------------
(* Properties. *)

(* The FBL a power-up starts from now on: the one the record commits to    *)
(* while an update is pending, otherwise the one in the region.            *)
Target == IF Updating THEN record.crc ELSE fbl

(* If power were lost right now, the Boot Manager would find either a      *)
(* whole FBL it is willing to start, or a pending update whose image is    *)
(* whole in Slot B: no interleaving of updater, cut, faulty flash and      *)
(* recovery leaves a board that only blinks.                               *)
Survivable ==
  \/ BmTrustsFbl /\ HoldsImage(fbl)
  \/ Updating /\ slotB = record.crc /\ HoldsImage(slotB)

(* Code of the FBL is executed only from a region that holds a whole       *)
(* image, although the Boot Manager accepts a region whose CRC it cannot   *)
(* confirm as soon as its first word looks like a stack pointer.           *)
NeverWild == pc # "wild" /\ (pc \in FblStates => HoldsImage(fbl))

(* However often the power fails, the FBL a power-up leads to is never     *)
(* older than the one before, unless it was replaced over SWD.             *)
NoRollback ==
  [][Ver[Target'[1]] >= Ver[Target[1]] \/ \E i \in Images : Reflash(i)]_vars

(* The self-update is the indivisible replacement AtomicUpdate describes:  *)
(* its commit point is the last word of the UPDATING record.               *)
Atomic ==
  INSTANCE AtomicUpdate
  WITH image <- Target[1],
       running <- IF pc \in FblStates THEN fbl[1] ELSE NoImage

ImplementsAtomicUpdate == Atomic!Spec

(* From some point on there are only the device's own steps and commands,  *)
(* but for a board that blinks, which is switched off and on again: a      *)
(* flash error that the HAL reports to the BM, or a page it copied that    *)
(* does not read back, ends in the endless blink, and no program leaves it.*)
SwitchedBackOn == PowerCut /\ pc = "halt"
Undisturbed == <>[][Device \/ Host \/ SwitchedBackOn]_vars /\ []<>(pc # "halt")

(* Once the power stays on and the flash works, a board whose flash is     *)
(* survivable ends up serving commands, whatever the cuts and faults       *)
(* before left behind, a recovery that failed included: recovery can be    *)
(* repeated and terminates.                                                *)
EventuallyServes == Undisturbed /\ <>[]Survivable => []<>(pc = "run")

(* A recorded update is never forgotten, not by a recovery that failed     *)
(* either: the board ends up serving commands from the recorded image.     *)
UpdateCompletes ==
  Undisturbed =>
    \A i \in Images :
      (pc = "sbl_erase" /\ Updating /\ record.crc = slotB /\ slotB[1] = i)
        ~> (pc = "run" /\ fbl[1] = i)

(* "Record the new FBL CRC and raise the UPDATING flag BEFORE the SBL      *)
(* runs" (comment in BL_Handle_UpdateFbl).                                 *)
RecordedBeforeSbl ==
  pc \in {"sbl_erase", "sbl_copy"} => Updating /\ record.crc = slotB

(* The first command loop after an update finds Slot B wiped: the staged   *)
(* plaintext image of the FBL does not outlive the update.                 *)
WipedAfterUpdate == pc = "run" => ~residue
=============================================================================
