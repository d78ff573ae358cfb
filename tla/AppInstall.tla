----------------------------- MODULE AppInstall ------------------------------
(***************************************************************************)
(* Installing an application and deciding at boot whether to start it.     *)
(*                                                                         *)
(* BL_InstallApp copies an authenticated image from Slot B into Slot A,    *)
(* writes a metadata record into the page that does not hold the current   *)
(* one, and puts the new application on trial.  At every boot the FBL      *)
(* starts the application whose CRC matches the record, unless it is on    *)
(* trial and has already been started BOOT_TRIAL_MAX times without         *)
(* confirming itself.  A power cut may fall between any two flash          *)
(* operations and inside any erase or copy of a page.                      *)
(*                                                                         *)
(* A page of Slot A holds the image its content belongs to; a CRC over     *)
(* pages stands for their content (no collisions).  Slot B is only read    *)
(* here: `staged' names the image whose payload is whole in it.            *)
(***************************************************************************)
EXTENDS Integers

CONSTANTS
  Images,       \* signed application images
  Ver,          \* [Images -> Nat]: fw_version in the signed header
  Size,         \* [Images -> 1..NPages]: pages of payload
  Encrypted,    \* images staged as ciphertext
  GoodKey,      \* those that decrypt to what their header's plain_crc says
  Healthy,      \* images that reach App_ConfirmBoot when they run
  NPages,       \* pages of Slot A
  TopVer,       \* 0xFFFFFFFF: a version no valid record can carry
  TrialMax,     \* BOOT_TRIAL_MAX
  Erased, Garble, None,
  FaultAt,      \* sites whose flash operations may fail, see FaultSites
  MaxSeq        \* bound of the model: install counter

Pages == 1..NPages
Content == Images \cup {Erased, Garble}
FaultSites == {"promote", "meta", "trial", "attempt"}

ASSUME AppAssumption ==
  /\ NPages \in Nat \ {0}
  /\ TopVer \in Nat
  /\ Ver \in [Images -> 0..TopVer]
  /\ Size \in [Images -> Pages]
  /\ Encrypted \subseteq Images /\ GoodKey \subseteq Encrypted
  /\ Healthy \subseteq Images
  /\ Erased # Garble /\ {Erased, Garble, None} \cap Images = {}
  /\ TrialMax \in Nat \ {0}
  /\ FaultAt \subseteq FaultSites
  /\ MaxSeq \in Nat \ {0}

VARIABLES
  slotA,     \* the application slot
  staged,    \* the image in Slot B, None if there is no whole one
  meta,      \* the two metadata pages
  trial,     \* the boot-trial page
  pc,        \* what the processor is doing
  page,      \* loop counter of the erase and of the copy
  img,       \* BL_InstallApp's hdr: the image being installed
  target,    \* BL_InstallApp's target: the metadata page to rewrite
  proving,   \* history: the installed application has not confirmed itself
  launches   \* history: how often the boot decision started it unconfirmed,
             \* starts whose attempt could not be recorded left out

flash == <<slotA, staged, meta, trial>>
vars == <<slotA, staged, meta, trial, pc, page, img, target, proving, launches>>

PromoteStates == {"ins_erase", "ins_copy"}
MetaStates == {"meta_erase", "meta_body", "meta_check"}
TrialStates == {"trial_erase", "trial_mark"}
(* "armed": BootTrial_Begin found the page erased and marked it. *)
Proving == {"no", "installed", "armed"}
States == {"boot", "attempt", "loop", "app"} \cup PromoteStates \cup MetaStates \cup TrialStates

-----------------------------------------------------------------------------
(* Metadata: two pages, newest valid record wins. *)

Prefix(n) == [p \in 1..n |-> slotA[p]]

Blank == [size |-> 0, crc |-> <<>>, version |-> TopVer, seq |-> 0, check |-> FALSE]

Meta_IsValid(m) == m.check /\ m.version # TopVer

(* The page of the current record, 0 if there is none. *)
Meta_CurrentPage ==
  LET a == Meta_IsValid(meta[1])
      b == Meta_IsValid(meta[2])
  IN  IF a /\ b THEN (IF meta[2].seq > meta[1].seq THEN 2 ELSE 1)
      ELSE IF a THEN 1 ELSE IF b THEN 2 ELSE 0

Meta_Floor == IF Meta_CurrentPage = 0 THEN 0 ELSE meta[Meta_CurrentPage].version

Meta_NextSeq == IF Meta_CurrentPage = 0 THEN 1 ELSE meta[Meta_CurrentPage].seq + 1

(* Definitions named X_Y are mutants of X: the code with one plausible     *)
(* mistake, which some property below must see.                            *)
Meta_TargetPage_Current == IF Meta_CurrentPage = 0 THEN 1 ELSE Meta_CurrentPage

Meta_TargetPage == IF Meta_CurrentPage = 1 THEN 2 ELSE 1

BootMgr_AppValid_MagicOnly == Meta_CurrentPage # 0

BootMgr_AppValid ==
  /\ Meta_CurrentPage # 0
  /\ LET m == meta[Meta_CurrentPage] IN m.size # 0 /\ Prefix(m.size) = m.crc

-----------------------------------------------------------------------------
TrialPage == [active : BOOLEAN, confirmed : BOOLEAN, attempts : 0..TrialMax]

TypeOK ==
  /\ slotA \in [Pages -> Content]
  /\ staged \in Images \cup {None}
  /\ DOMAIN meta = {1, 2}
  /\ \A k \in {1, 2} :
       /\ meta[k].size \in 0..NPages
       /\ meta[k].crc \in [1..meta[k].size -> Content]
       /\ meta[k].version \in 0..TopVer
       /\ meta[k].seq \in 0..MaxSeq
       /\ meta[k].check \in BOOLEAN
  /\ trial \in TrialPage
  /\ pc \in States
  /\ page \in Pages
  /\ img \in Images \cup {None}
  /\ target \in {1, 2}
  /\ proving \in Proving
  /\ launches \in 0..(TrialMax + 1)

NoTrial == [active |-> FALSE, confirmed |-> FALSE, attempts |-> 0]

(* A board that has the FBL and nothing else. *)
Init ==
  /\ slotA = [p \in Pages |-> Erased]
  /\ staged = None
  /\ meta = [k \in {1, 2} |-> Blank]
  /\ trial = NoTrial
  /\ pc = "boot" /\ page = 1 /\ img = None /\ target = 1
  /\ proving = "no" /\ launches = 0

-----------------------------------------------------------------------------
(* The boot decision. *)

BootMgr_JumpToApp == pc' = IF BootMgr_AppValid THEN "app" ELSE "loop"

(* A start by the boot decision, counted by the history variable. *)
CountLaunch ==
  launches' = IF proving # "no" /\ BootMgr_AppValid /\ launches <= TrialMax
              THEN launches + 1 ELSE launches

ButtonHeld ==
  /\ pc = "boot" /\ pc' = "loop"
  /\ UNCHANGED <<flash, page, img, target, proving, launches>>

(* BootTrial_AllowJump: no trial, or already confirmed. *)
BootFreely ==
  /\ pc = "boot"
  /\ ~trial.active \/ trial.confirmed
  /\ BootMgr_JumpToApp /\ CountLaunch
  /\ UNCHANGED <<flash, page, img, target, proving>>

OnTrial_OneMore == trial.active /\ ~trial.confirmed /\ trial.attempts <= TrialMax

OnTrial == trial.active /\ ~trial.confirmed /\ trial.attempts < TrialMax

BootOnTrial ==
  /\ pc = "boot" /\ OnTrial
  /\ pc' = "attempt"
  /\ UNCHANGED <<flash, page, img, target, proving, launches>>

BootRefused ==
  /\ pc = "boot"
  /\ trial.active /\ ~trial.confirmed /\ ~OnTrial
  /\ pc' = "loop"
  /\ UNCHANGED <<flash, page, img, target, proving, launches>>

(* The attempt is programmed into the trial page before the jump. *)
Attempt_NotRecorded ==
  /\ pc = "attempt"
  /\ BootMgr_JumpToApp /\ CountLaunch
  /\ UNCHANGED <<flash, page, img, target, proving>>

Attempt ==
  /\ pc = "attempt"
  /\ trial' = [trial EXCEPT !.attempts = @ + 1]
  /\ BootMgr_JumpToApp /\ CountLaunch
  /\ UNCHANGED <<slotA, staged, meta, page, img, target, proving>>

-----------------------------------------------------------------------------
(* The application. *)

Running == slotA[1]

App_ConfirmBoot ==
  /\ pc = "app" /\ Running \in Healthy
  /\ trial' = [trial EXCEPT !.confirmed = trial.active \/ @]
  /\ proving' = "no" /\ launches' = 0
  /\ UNCHANGED <<slotA, staged, meta, pc, page, img, target>>

(* An application that hangs is reset by its watchdog. *)
Watchdog ==
  /\ pc = "app" /\ Running \notin Healthy
  /\ pc' = "boot" /\ page' = 1 /\ img' = None
  /\ UNCHANGED <<flash, target, proving, launches>>

-----------------------------------------------------------------------------
(* The FBL serving commands. *)

(* ERASE and WRITE, or a UDS download: Slot B ends up holding the payload  *)
(* of an image, or nothing usable.                                         *)
Stage(i) ==
  /\ pc = "loop"
  /\ staged' = i
  /\ UNCHANGED <<slotA, meta, trial, pc, page, img, target, proving, launches>>

(* GO starts the application without consulting the trial. *)
Go ==
  /\ pc = "loop"
  /\ BootMgr_JumpToApp
  /\ UNCHANGED <<flash, page, img, target, proving, launches>>

EcuReset ==
  /\ pc = "loop" /\ pc' = "boot"
  /\ UNCHANGED <<flash, page, img, target, proving, launches>>

(* BL_CheckImage, and for ciphertext the CRC of what it decrypts to. *)
Acceptable_AnyKey(i) == Ver[i] >= Meta_Floor

Acceptable(i) ==
  /\ Ver[i] >= Meta_Floor
  /\ i \in Encrypted => i \in GoodKey

Install(i) ==
  /\ pc = "loop" /\ staged = i /\ Acceptable(i)
  /\ Meta_NextSeq <= MaxSeq
  /\ img' = i /\ target' = Meta_TargetPage
  /\ pc' = "ins_erase" /\ page' = 1
  /\ UNCHANGED <<flash, proving, launches>>

NextPage_OneTooMany(next) ==
  IF page <= Size[img] THEN page' = page + 1 /\ UNCHANGED pc
  ELSE page' = 1 /\ pc' = next

NextPage(next) ==
  IF page < Size[img] THEN page' = page + 1 /\ UNCHANGED pc
  ELSE page' = 1 /\ pc' = next

InsErase ==
  /\ pc = "ins_erase"
  /\ slotA' = [slotA EXCEPT ![page] = Erased]
  /\ NextPage("ins_copy")
  /\ UNCHANGED <<staged, meta, trial, img, target, proving, launches>>

Plain(i) == IF i \in Encrypted \ GoodKey THEN Garble ELSE i

InsCopy ==
  /\ pc = "ins_copy"
  /\ slotA' = [slotA EXCEPT ![page] = Plain(img)]
  /\ NextPage("meta_erase")
  /\ UNCHANGED <<staged, meta, trial, img, target, proving, launches>>

MetaErase ==
  /\ pc = "meta_erase"
  /\ meta' = [meta EXCEPT ![target] = Blank]
  /\ pc' = "meta_body"
  /\ UNCHANGED <<slotA, staged, trial, page, img, target, proving, launches>>

(* The check word is programmed last. *)
MetaBody_SameSeq ==
  /\ pc = "meta_body"
  /\ meta' = [meta EXCEPT ![target] =
       [size |-> Size[img], crc |-> Prefix(Size[img]), version |-> Ver[img],
        seq |-> IF Meta_CurrentPage = 0 THEN 1 ELSE meta[Meta_CurrentPage].seq,
        check |-> FALSE]]
  /\ pc' = "meta_check"
  /\ UNCHANGED <<slotA, staged, trial, page, img, target, proving, launches>>

MetaBody ==
  /\ pc = "meta_body"
  /\ meta' = [meta EXCEPT ![target] =
       [size |-> Size[img], crc |-> Prefix(Size[img]), version |-> Ver[img],
        seq |-> Meta_NextSeq, check |-> FALSE]]
  /\ pc' = "meta_check"
  /\ UNCHANGED <<slotA, staged, trial, page, img, target, proving, launches>>

MetaCheck ==
  /\ pc = "meta_check"
  /\ meta' = [meta EXCEPT ![target].check = TRUE]
  /\ pc' = "trial_erase"
  /\ proving' = "installed" /\ launches' = 0
  /\ UNCHANGED <<slotA, staged, trial, page, img, target>>

(* BootTrial_Begin, and the positive reply. *)
TrialErase ==
  /\ pc = "trial_erase"
  /\ trial' = NoTrial
  /\ pc' = "trial_mark"
  /\ UNCHANGED <<slotA, staged, meta, page, img, target, proving, launches>>

TrialMark ==
  /\ pc = "trial_mark"
  /\ trial' = [trial EXCEPT !.active = TRUE]
  /\ pc' = "loop" /\ img' = None
  /\ proving' = IF trial = NoTrial THEN "armed" ELSE proving
  /\ UNCHANGED launches
  /\ UNCHANGED <<slotA, staged, meta, page, target>>

-----------------------------------------------------------------------------
(* Power and flash faults. *)

(* A cut or a reset: RAM is lost, the page of Slot A being erased or       *)
(* copied at that moment is left with any content, and so is the trial     *)
(* page.  A torn metadata page fails its check word: UNCHANGED or Blank.   *)
PowerCut ==
  /\ pc' = "boot" /\ page' = 1 /\ img' = None
  /\ \/ /\ pc \in PromoteStates
        /\ \E v \in Content : slotA' = [slotA EXCEPT ![page] = v]
        /\ UNCHANGED <<staged, meta, trial>>
     \/ /\ pc = "trial_erase"
        /\ trial' \in TrialPage
        /\ UNCHANGED <<slotA, staged, meta>>
     \/ /\ pc = "attempt"
        /\ trial' = [trial EXCEPT !.attempts = @ + 1]
        /\ UNCHANGED <<slotA, staged, meta>>
     \/ UNCHANGED flash
  /\ UNCHANGED <<target, proving, launches>>

(* Erase and write are read back, a failed one ends the install. *)
PromoteFault ==
  /\ "promote" \in FaultAt /\ pc \in PromoteStates
  /\ \E v \in Content : slotA' = [slotA EXCEPT ![page] = v]
  /\ pc' = "loop" /\ page' = 1 /\ img' = None
  /\ UNCHANGED <<staged, meta, trial, target, proving, launches>>

MetaFault ==
  /\ "meta" \in FaultAt /\ pc \in MetaStates
  /\ pc' = "loop" /\ img' = None
  /\ UNCHANGED <<flash, page, target, proving, launches>>

(* BootTrial_Begin and BootTrial_AllowJump do not look at the result: a    *)
(* page that was not erased is still marked.                               *)
TrialFault ==
  /\ "trial" \in FaultAt
  /\ \/ pc = "trial_erase" /\ pc' = "trial_mark" /\ UNCHANGED img
     \/ pc = "trial_mark" /\ pc' = "loop" /\ img' = None
  /\ UNCHANGED <<flash, page, target, proving, launches>>

AttemptFault ==
  /\ "attempt" \in FaultAt /\ pc = "attempt"
  /\ BootMgr_JumpToApp
  /\ UNCHANGED <<flash, page, img, target, proving, launches>>

-----------------------------------------------------------------------------
Boot == ButtonHeld \/ BootFreely \/ BootOnTrial \/ BootRefused \/ Attempt

Installing ==
  InsErase \/ InsCopy \/ MetaErase \/ MetaBody \/ MetaCheck \/ TrialErase \/ TrialMark

Host ==
  \/ \E i \in Images \cup {None} : Stage(i)
  \/ \E i \in Images : Install(i)
  \/ Go \/ EcuReset

Fault == PromoteFault \/ MetaFault \/ TrialFault \/ AttemptFault

Next == Boot \/ App_ConfirmBoot \/ Watchdog \/ Installing \/ Host \/ Fault \/ PowerCut

Spec == Init /\ [][Next]_vars

(* A powered processor keeps executing and a hung application is reset. *)
FairSpec == Spec /\ WF_vars(Boot \/ Watchdog \/ Installing)

-----------------------------------------------------------------------------
(* Properties. *)

(* The rollback floor never goes down: no cut, fault or reinstall leaves   *)
(* the two metadata pages without the record of the newest install.        *)
FloorNeverDrops == [][Meta_Floor' >= Meta_Floor]_vars

(* Whatever is started is a whole image that decrypted correctly, and the  *)
(* one the current record was written for.                                 *)
StartedIsInstalled ==
  pc = "app" =>
    \E i \in Images :
      /\ \A p \in 1..Size[i] : slotA[p] = i
      /\ i \in Encrypted => i \in GoodKey
      /\ Ver[i] = Meta_Floor

(* Once the record is complete the new application is what a boot starts:  *)
(* a positive reply is never given for an application that is not the      *)
(* current one.                                                            *)
InstalledIsCurrent ==
  pc \in TrialStates =>
    BootMgr_AppValid /\ Meta_Floor = Ver[img] /\ Prefix(Size[img]) = [p \in 1..Size[img] |-> img]

(* A bootable application is only given up for an image that passed every  *)
(* check: a refused one (older, or encrypted with another key) leaves the  *)
(* board as it was.                                                        *)
OnlyForABetterOne ==
  [][BootMgr_AppValid /\ ~BootMgr_AppValid' =>
       /\ pc \in PromoteStates
       /\ Ver[img] >= Meta_Floor
       /\ img \in Encrypted => img \in GoodKey]_vars

(* An application on trial is started at most BOOT_TRIAL_MAX times by the  *)
(* boot decision without having confirmed itself.  Starts whose attempt    *)
(* could not be programmed come on top: nobody looks at that result.       *)
TrialBound == proving = "armed" => launches <= TrialMax

(* An application that hangs does not lock the board: once it was put on   *)
(* trial and nothing else interferes, the FBL ends up serving commands.    *)
HungAppIsDropped ==
  <>[][Boot \/ App_ConfirmBoot \/ Watchdog \/ Installing \/ Host]_vars =>
    ((proving = "armed" /\ pc = "app" /\ Running \notin Healthy /\ ~trial.confirmed)
       ~> (pc = "loop"))

(* "A freshly installed app is on trial until it confirms itself":         *)
(* whether or not the install was interrupted after the record.            *)
EveryInstallOnTrial == launches <= TrialMax
=============================================================================
