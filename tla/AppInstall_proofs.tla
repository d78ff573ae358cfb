-------------------------- MODULE AppInstall_proofs --------------------------
(***************************************************************************)
(* Proofs about AppInstall for every set of images, size of Slot A and     *)
(* BOOT_TRIAL_MAX, with power cuts and flash faults wherever the code can  *)
(* meet them: none of the theorems restricts FaultAt.                      *)
(***************************************************************************)
EXTENDS AppInstall, TLAPS

(* Metadata page m describes image i, which this board can run. *)
Built(m, i) ==
  /\ m.size = Size[i]
  /\ m.crc = [p \in 1..Size[i] |-> i]
  /\ m.version = Ver[i]
  /\ i \in Encrypted => i \in GoodKey

IsRecord(m) ==
  m = [size |-> m.size, crc |-> m.crc, version |-> m.version, seq |-> m.seq,
       check |-> m.check]

RecordSound ==
  \A k \in {1, 2} :
    /\ IsRecord(meta[k])
    /\ meta[k].check => \E i \in Images : Built(meta[k], i)

(* What BL_InstallApp found out before it touched the flash still holds,   *)
(* and the page it is going to rewrite is not the current one.             *)
InstallSound ==
  pc \in PromoteStates \cup MetaStates =>
    /\ img \in Images
    /\ Ver[img] >= Meta_Floor
    /\ img \in Encrypted => img \in GoodKey
    /\ target = Meta_TargetPage
    /\ Meta_NextSeq <= MaxSeq

(* Pages of the new application that are in place already. *)
CopySound ==
  /\ pc \in PromoteStates => page <= Size[img]
  /\ pc = "ins_copy" => \A p \in 1..(page - 1) : slotA[p] = img
  /\ pc \in MetaStates \cup TrialStates =>
       img \in Images /\ \A p \in 1..Size[img] : slotA[p] = img

(* The record that only lacks its check word. *)
CheckSound ==
  pc = "meta_check" =>
    /\ Built(meta[target], img)
    /\ meta[target].seq = Meta_NextSeq
    /\ ~meta[target].check

CurrentSound ==
  pc \in TrialStates /\ Ver[img] # TopVer => BootMgr_AppValid /\ Meta_Floor = Ver[img]

(* An attempt is in the trial page for every start that is counted. *)
TrialSound ==
  /\ pc \in TrialStates => proving = "installed" /\ launches = 0
  /\ pc = "attempt" => OnTrial
  /\ proving = "armed" => trial.active /\ ~trial.confirmed /\ launches <= trial.attempts

IInv ==
  /\ TypeOK
  /\ RecordSound
  /\ InstallSound
  /\ CopySound
  /\ CheckSound
  /\ CurrentSound
  /\ StartedIsInstalled
  /\ TrialSound

-----------------------------------------------------------------------------
(* The two metadata pages. *)

(* What the operators over the metadata return. *)
LEMMA MetaTypes ==
  ASSUME TypeOK
  PROVE  /\ Meta_CurrentPage \in {0, 1, 2}
         /\ Meta_TargetPage \in {1, 2} /\ Meta_TargetPage # Meta_CurrentPage
         /\ Meta_Floor \in Nat /\ Meta_Floor <= TopVer
         /\ Meta_NextSeq \in Nat \ {0}
  BY AppAssumption DEF TypeOK, Meta_CurrentPage, Meta_TargetPage, Meta_Floor, Meta_NextSeq

(* They depend on the metadata pages only. *)
LEMMA MetaUnchanged ==
  ASSUME UNCHANGED meta
  PROVE  /\ Meta_CurrentPage' = Meta_CurrentPage
         /\ Meta_TargetPage' = Meta_TargetPage
         /\ Meta_Floor' = Meta_Floor
         /\ Meta_NextSeq' = Meta_NextSeq
  BY DEF Meta_CurrentPage, Meta_TargetPage, Meta_Floor, Meta_NextSeq, Meta_IsValid

(* Whatever is put into the target page, as long as it is no valid record, *)
(* the current record stays what it was.                                   *)
LEMMA TargetPageIsFree ==
  ASSUME TypeOK, NEW m, ~Meta_IsValid(m),
         meta' = [meta EXCEPT ![Meta_TargetPage] = m]
  PROVE  /\ Meta_CurrentPage' = Meta_CurrentPage
         /\ Meta_TargetPage' = Meta_TargetPage
         /\ Meta_Floor' = Meta_Floor
         /\ Meta_NextSeq' = Meta_NextSeq
<1>1. DOMAIN meta = {1, 2}
  BY DEF TypeOK
<1>2. Meta_CurrentPage' = Meta_CurrentPage
  BY <1>1 DEF Meta_CurrentPage, Meta_TargetPage, Meta_IsValid
<1>3. Meta_CurrentPage # 0 => meta'[Meta_CurrentPage] = meta[Meta_CurrentPage]
  BY <1>1 DEF Meta_CurrentPage, Meta_TargetPage
<1>4. QED
  BY <1>2, <1>3 DEF Meta_TargetPage, Meta_Floor, Meta_NextSeq

(* A valid record in the target page with the next sequence number becomes *)
(* the current one.                                                        *)
LEMMA NewestWins ==
  ASSUME TypeOK, NEW m, Meta_IsValid(m), m.seq = Meta_NextSeq,
         meta' = [meta EXCEPT ![Meta_TargetPage] = m]
  PROVE  /\ Meta_CurrentPage' = Meta_TargetPage
         /\ Meta_Floor' = m.version
<1>1. DOMAIN meta = {1, 2}
  BY DEF TypeOK
<1>2. \A k \in {1, 2} : meta[k].seq \in Nat
  BY AppAssumption DEF TypeOK
<1>3. Meta_TargetPage \in {1, 2}
  BY DEF Meta_TargetPage
<1>4. meta'[Meta_TargetPage] = m
  BY <1>1, <1>3
<1>5. Meta_CurrentPage' = Meta_TargetPage
  BY <1>1, <1>2 DEF Meta_CurrentPage, Meta_TargetPage, Meta_NextSeq, Meta_IsValid
<1>6. QED
  BY <1>3, <1>4, <1>5 DEF Meta_Floor

(* A current record whose CRC matches Slot A was built for a whole image. *)
LEMMA ValidIsWhole ==
  ASSUME TypeOK, RecordSound, BootMgr_AppValid
  PROVE  \E i \in Images :
           /\ \A p \in 1..Size[i] : slotA[p] = i
           /\ i \in Encrypted => i \in GoodKey
           /\ Ver[i] = Meta_Floor
<1> DEFINE m == meta[Meta_CurrentPage]
<1>1. Meta_CurrentPage \in {1, 2} /\ m.check
  BY DEF BootMgr_AppValid, Meta_CurrentPage, Meta_IsValid
<1>2. PICK i \in Images : Built(m, i)
  BY <1>1 DEF RecordSound
<1>3. Prefix(Size[i]) = [p \in 1..Size[i] |-> i]
  BY <1>2 DEF BootMgr_AppValid, Built
<1>4. ASSUME NEW p \in 1..Size[i] PROVE slotA[p] = i
  BY <1>3 DEF Prefix
<1>5. Meta_Floor = Ver[i]
  BY <1>1, <1>2 DEF Meta_Floor, Built
<1>6. QED
  BY <1>2, <1>4, <1>5 DEF Built

-----------------------------------------------------------------------------
LEMMA InitInv == Init => IInv
<1> SUFFICES ASSUME Init PROVE IInv
  OBVIOUS
<1> USE AppAssumption
<1>1. TypeOK
  <2>1. \A k \in {1, 2} : meta[k] = Blank
    BY DEF Init
  <2>2. Blank.crc \in [1..Blank.size -> Content]
    BY DEF Blank
  <2>3. \A k \in {1, 2} :
          /\ meta[k].size \in 0..NPages
          /\ meta[k].version \in 0..TopVer
          /\ meta[k].seq \in 0..MaxSeq
          /\ meta[k].check \in BOOLEAN
    <3>1. Blank.size = 0 /\ Blank.version = TopVer /\ Blank.seq = 0 /\ Blank.check = FALSE
      BY DEF Blank
    <3>2. 0 \in 0..NPages /\ TopVer \in 0..TopVer /\ 0 \in 0..MaxSeq
      OBVIOUS
    <3>3. QED
      BY <2>1, <3>1, <3>2
  <2>4. trial \in TrialPage
    BY DEF Init, NoTrial, TrialPage
  <2>5. slotA \in [Pages -> Content] /\ DOMAIN meta = {1, 2} /\ page \in Pages
    BY DEF Init, Content, Pages
  <2>6. QED
    BY <2>1, <2>2, <2>3, <2>4, <2>5 DEF Init, TypeOK, States, Proving
<1>2. RecordSound
  BY DEF Init, RecordSound, IsRecord, Blank
<1>3. QED
  BY <1>1, <1>2
     DEF Init, IInv, InstallSound, CopySound, CheckSound, CurrentSound, StartedIsInstalled,
         TrialSound, PromoteStates, MetaStates, TrialStates

(* Outside an installation only what is being started matters. *)
IdleStates == {"boot", "attempt", "loop", "app"}

LEMMA Idle ==
  ASSUME IInv, UNCHANGED meta, pc' \in IdleStates,
         pc' = "app" => UNCHANGED slotA /\ (pc = "app" \/ BootMgr_AppValid)
  PROVE  /\ RecordSound' /\ InstallSound' /\ CopySound' /\ CheckSound'
         /\ CurrentSound' /\ StartedIsInstalled'
<1>1. StartedIsInstalled'
  <2> SUFFICES ASSUME pc' = "app" PROVE StartedIsInstalled'
    BY DEF StartedIsInstalled
  <2>1. PICK i \in Images :
          /\ \A p \in 1..Size[i] : slotA[p] = i
          /\ i \in Encrypted => i \in GoodKey
          /\ Ver[i] = Meta_Floor
    BY ValidIsWhole DEF IInv, StartedIsInstalled
  <2>2. QED
    BY <2>1, MetaUnchanged DEF StartedIsInstalled
<1>2. RecordSound'
  BY DEF IInv, RecordSound
<1>3. QED
  BY <1>1, <1>2
     DEF IdleStates, InstallSound, CopySound, CheckSound, CurrentSound,
         PromoteStates, MetaStates, TrialStates

(* The steps that change neither the metadata nor, when they start the     *)
(* application, Slot A.                                                    *)
IdleStep ==
  \/ Boot \/ App_ConfirmBoot \/ Watchdog
  \/ \E i \in Images \cup {None} : Stage(i)
  \/ Go \/ EcuReset
  \/ PromoteFault \/ MetaFault \/ AttemptFault \/ PowerCut

LEMMA IdleTarget ==
  ASSUME IInv, IdleStep
  PROVE  /\ UNCHANGED meta /\ pc' \in IdleStates
         /\ pc' = "app" => UNCHANGED slotA /\ (pc = "app" \/ BootMgr_AppValid)
<1> USE DEF IdleStates, flash, BootMgr_JumpToApp
<1>1. CASE Boot
  BY <1>1 DEF Boot, ButtonHeld, BootFreely, BootOnTrial, BootRefused, Attempt
<1>2. CASE App_ConfirmBoot \/ Watchdog \/ Go \/ EcuReset \/ AttemptFault
  BY <1>2 DEF App_ConfirmBoot, Watchdog, Go, EcuReset, AttemptFault
<1>3. CASE \E i \in Images \cup {None} : Stage(i)
  BY <1>3 DEF Stage
<1>4. CASE PromoteFault \/ MetaFault \/ PowerCut
  BY <1>4 DEF PromoteFault, MetaFault, PowerCut
<1>5. QED
  BY <1>1, <1>2, <1>3, <1>4 DEF IdleStep

LEMMA MetaPagesKept ==
  ASSUME TypeOK, UNCHANGED meta
  PROVE  /\ DOMAIN meta' = {1, 2}
         /\ \A k \in {1, 2} :
              /\ meta'[k].size \in 0..NPages
              /\ meta'[k].crc \in [1..meta'[k].size -> Content]
              /\ meta'[k].version \in 0..TopVer
              /\ meta'[k].seq \in 0..MaxSeq
              /\ meta'[k].check \in BOOLEAN
  BY DEF TypeOK

LEMMA IdleTypes ==
  ASSUME IInv, IdleStep
  PROVE  TypeOK'
<1> USE AppAssumption
<1>1. /\ DOMAIN meta' = {1, 2}
      /\ \A k \in {1, 2} :
           /\ meta'[k].size \in 0..NPages
           /\ meta'[k].crc \in [1..meta'[k].size -> Content]
           /\ meta'[k].version \in 0..TopVer
           /\ meta'[k].seq \in 0..MaxSeq
           /\ meta'[k].check \in BOOLEAN
  BY MetaPagesKept, IdleTarget DEF IInv
<1>2. pc' \in States
  BY IdleTarget DEF IdleStates, States
<1>3. launches' \in 0..(TrialMax + 1) /\ proving' \in Proving
  <2> USE DEF IInv, TypeOK, CountLaunch, Proving
  <2>1. CASE Boot
    BY <2>1 DEF Boot, ButtonHeld, BootFreely, BootOnTrial, BootRefused, Attempt
  <2>2. CASE App_ConfirmBoot \/ Watchdog \/ Go \/ EcuReset \/ AttemptFault
    BY <2>2 DEF App_ConfirmBoot, Watchdog, Go, EcuReset, AttemptFault
  <2>3. CASE (\E i \in Images \cup {None} : Stage(i)) \/ PromoteFault \/ MetaFault \/ PowerCut
    BY <2>3 DEF Stage, PromoteFault, MetaFault, PowerCut
  <2>4. QED
    BY <2>1, <2>2, <2>3 DEF IdleStep
<1>4. trial' \in TrialPage
  <2>1. ASSUME pc = "attempt"
        PROVE  [trial EXCEPT !.attempts = @ + 1] \in TrialPage
    <3>1. trial \in TrialPage /\ trial.attempts < TrialMax
      BY <2>1 DEF IInv, TypeOK, TrialSound, OnTrial
    <3>2. trial.attempts + 1 \in 0..TrialMax
      BY <3>1 DEF TrialPage
    <3>3. QED
      BY <3>1, <3>2 DEF TrialPage
  <2>2. [trial EXCEPT !.confirmed = trial.active \/ @] \in TrialPage
    BY DEF IInv, TypeOK, TrialPage
  <2>3. trial \in TrialPage
    BY DEF IInv, TypeOK
  <2>4. QED
    BY <2>1, <2>2, <2>3
       DEF IdleStep, Boot, ButtonHeld, BootFreely, BootOnTrial, BootRefused, Attempt,
           App_ConfirmBoot, Watchdog, Go, EcuReset, AttemptFault, Stage, PromoteFault,
           MetaFault, PowerCut, flash
<1>5. slotA' \in [Pages -> Content]
  <2>1. ASSUME NEW v \in Content PROVE [slotA EXCEPT ![page] = v] \in [Pages -> Content]
    BY DEF IInv, TypeOK
  <2>2. slotA \in [Pages -> Content]
    BY DEF IInv, TypeOK
  <2>3. QED
    BY <2>1, <2>2
       DEF IdleStep, Boot, ButtonHeld, BootFreely, BootOnTrial, BootRefused, Attempt,
           App_ConfirmBoot, Watchdog, Go, EcuReset, AttemptFault, Stage, PromoteFault,
           MetaFault, PowerCut, flash
<1>6. /\ staged' \in Images \cup {None} /\ page' \in Pages
      /\ img' \in Images \cup {None} /\ target' \in {1, 2}
  BY DEF IInv, TypeOK, Pages, IdleStep, Boot, ButtonHeld, BootFreely, BootOnTrial,
         BootRefused, Attempt, App_ConfirmBoot, Watchdog, Go, EcuReset, AttemptFault,
         Stage, PromoteFault, MetaFault, PowerCut, flash
<1>7. QED
  BY <1>1, <1>2, <1>3, <1>4, <1>5, <1>6 DEF TypeOK

LEMMA IdleTrial ==
  ASSUME IInv, IdleStep
  PROVE  TrialSound'
<1> USE DEF IInv, TrialSound
<1>1. trial \in TrialPage /\ launches \in Nat
  BY AppAssumption DEF TypeOK
<1>2. trial.attempts \in Nat
  BY <1>1, AppAssumption DEF TrialPage
<1>3. pc' \notin TrialStates
  BY IdleTarget DEF IdleStates, TrialStates
<1>4. CASE BootOnTrial
  BY <1>4, <1>3 DEF BootOnTrial, OnTrial, flash
<1>5. CASE Attempt
  <2>1. pc' # "attempt"
    BY <1>5 DEF Attempt, BootMgr_JumpToApp
  <2>2. ASSUME proving' = "armed"
        PROVE  trial'.active /\ ~trial'.confirmed /\ launches' <= trial'.attempts
    <3>1. proving = "armed"
      BY <1>5, <2>2 DEF Attempt
    <3>2. trial' = [trial EXCEPT !.attempts = trial.attempts + 1]
      BY <1>5 DEF Attempt
    <3>3. /\ trial'.active = trial.active /\ trial'.confirmed = trial.confirmed
          /\ trial'.attempts = trial.attempts + 1
      BY <3>2, <1>1 DEF TrialPage
    <3>4. launches' \in {launches, launches + 1}
      BY <1>5 DEF Attempt, CountLaunch
    <3>5. trial.active /\ ~trial.confirmed /\ launches <= trial.attempts
      BY <3>1
    <3>6. launches' <= trial'.attempts
      BY <3>3, <3>4, <3>5, <1>1, <1>2
    <3>7. QED
      BY <3>3, <3>5, <3>6
  <2>3. QED
    BY <1>3, <2>1, <2>2
<1>6. CASE BootFreely
  <2>1. proving # "armed"
    BY <1>6 DEF BootFreely
  <2>2. QED
    BY <1>3, <1>6, <2>1 DEF BootFreely, BootMgr_JumpToApp
<1>7. CASE App_ConfirmBoot
  BY <1>3, <1>7 DEF App_ConfirmBoot
<1>8. CASE ButtonHeld \/ BootRefused \/ Watchdog \/ (\E i \in Images \cup {None} : Stage(i))
           \/ Go \/ EcuReset \/ PromoteFault \/ MetaFault \/ AttemptFault
  BY <1>3, <1>8
     DEF ButtonHeld, BootRefused, Watchdog, Stage, Go, EcuReset, PromoteFault, MetaFault,
         AttemptFault, BootMgr_JumpToApp, flash
<1>9. CASE PowerCut
  <2>1. pc' = "boot" /\ UNCHANGED <<proving, launches>>
    BY <1>9 DEF PowerCut
  <2>2. CASE pc = "trial_erase"
    BY <2>1, <2>2, <1>3 DEF TrialStates
  <2>3. CASE trial' = [trial EXCEPT !.attempts = @ + 1]
    <3>1. /\ trial'.active = trial.active /\ trial'.confirmed = trial.confirmed
          /\ trial'.attempts = trial.attempts + 1
      BY <2>3, <1>1 DEF TrialPage
    <3>2. launches <= trial.attempts => launches <= trial'.attempts
      BY <3>1, <1>1, <1>2
    <3>3. QED
      BY <2>1, <3>1, <3>2, <1>3
  <2>4. CASE UNCHANGED trial
    BY <2>1, <2>4, <1>3
  <2>5. QED
    BY <1>9, <2>2, <2>3, <2>4 DEF PowerCut, flash
<1>10. QED
  BY <1>4, <1>5, <1>6, <1>7, <1>8, <1>9 DEF IdleStep, Boot

LEMMA IdleInv == IInv /\ IdleStep => IInv'
  BY Idle, IdleTarget, IdleTypes, IdleTrial DEF IInv

-----------------------------------------------------------------------------
(* The steps of an installation. *)

LEMMA InstallInv ==
  ASSUME IInv, NEW i \in Images, Install(i)
  PROVE  IInv'
<1> USE DEF IInv
<1>1. /\ pc = "loop" /\ pc' = "ins_erase" /\ page' = 1 /\ img' = i
      /\ target' = Meta_TargetPage /\ Acceptable(i) /\ Meta_NextSeq <= MaxSeq
      /\ UNCHANGED <<slotA, staged, meta, trial, proving, launches>>
  BY DEF Install, flash
<1>2. TypeOK'
  BY <1>1, MetaTypes, MetaPagesKept, AppAssumption DEF TypeOK, States, PromoteStates, Pages
<1>3. InstallSound'
  BY <1>1, MetaUnchanged DEF InstallSound, Acceptable
<1>4. CopySound'
  <2>1. Size[i] \in Nat \ {0}
    BY AppAssumption DEF Pages
  <2>2. QED
    BY <1>1, <2>1 DEF CopySound, PromoteStates, MetaStates, TrialStates
<1>5. RecordSound' /\ CheckSound' /\ CurrentSound' /\ StartedIsInstalled'
  BY <1>1 DEF RecordSound, CheckSound, CurrentSound, StartedIsInstalled, TrialStates
<1>6. TrialSound'
  BY <1>1 DEF TrialSound, TrialStates
<1>7. QED
  BY <1>2, <1>3, <1>4, <1>5, <1>6

(* What the pass of a loop over pages leaves. *)
LEMMA PromotePage ==
  ASSUME IInv, pc \in PromoteStates, NEW next, NextPage(next)
  PROVE  /\ img \in Images /\ page \in 1..Size[img] /\ Size[img] \in Pages
         /\ page' \in 1..Size[img]
         /\ \/ page < Size[img] /\ page' = page + 1 /\ pc' = pc
            \/ page = Size[img] /\ page' = 1 /\ pc' = next
<1>1. img \in Images /\ Size[img] \in Pages
  BY AppAssumption DEF IInv, InstallSound
<1>2. page \in 1..Size[img]
  BY <1>1, AppAssumption DEF IInv, TypeOK, CopySound, Pages
<1>3. QED
  BY <1>1, <1>2, AppAssumption DEF NextPage, Pages

LEMMA PromoteInv ==
  ASSUME IInv, InsErase \/ InsCopy
  PROVE  IInv'
<1> DEFINE next == IF pc = "ins_erase" THEN "ins_copy" ELSE "meta_erase"
           v == IF pc = "ins_erase" THEN Erased ELSE img
<1>1. /\ pc \in PromoteStates /\ NextPage(next)
      /\ UNCHANGED <<staged, meta, trial, img, target, proving, launches>>
  BY DEF InsErase, InsCopy, PromoteStates
<1>2. /\ img \in Images /\ page \in 1..Size[img] /\ Size[img] \in Pages
      /\ page' \in 1..Size[img]
      /\ \/ page < Size[img] /\ page' = page + 1 /\ pc' = pc
         \/ page = Size[img] /\ page' = 1 /\ pc' = next
  BY <1>1, PromotePage
<1>3. slotA' = [slotA EXCEPT ![page] = v]
  <2>1. Plain(img) = img
    BY <1>1 DEF IInv, InstallSound, Plain
  <2>2. QED
    BY <2>1 DEF InsErase, InsCopy
<1>4. slotA \in [Pages -> Content] /\ page \in Pages /\ v \in Content
  BY <1>2 DEF IInv, TypeOK, Content
<1>5. pc' \in PromoteStates \cup {"meta_erase"}
  BY <1>1, <1>2 DEF PromoteStates
<1>6. TypeOK'
  <2>1. slotA' \in [Pages -> Content]
    BY <1>3, <1>4
  <2>2. page' \in Pages
    BY <1>2, AppAssumption DEF Pages
  <2>3. QED
    BY <1>1, <1>5, <2>1, <2>2, MetaPagesKept
       DEF IInv, TypeOK, States, PromoteStates, MetaStates
<1>7. InstallSound'
  BY <1>1, <1>5, MetaUnchanged DEF IInv, InstallSound, PromoteStates, MetaStates
<1>8. CopySound'
  <2>1. pc' \in PromoteStates => page' <= Size[img]'
    BY <1>1, <1>2 DEF Pages
  <2>2. ASSUME pc' = "ins_copy", NEW p \in 1..(page' - 1) PROVE slotA'[p] = img'
    <3>1. pc = "ins_copy" /\ page' = page + 1
      <4>1. page' # 1
        BY <2>2
      <4>2. QED
        BY <1>1, <1>2, <2>2, <4>1 DEF PromoteStates
    <3>2. p \in 1..(page - 1) \/ p = page
      BY <3>1, <1>2
    <3>3. p \in Pages
      BY <3>2, <1>4, AppAssumption DEF Pages
    <3>4. p # page => slotA[p] = img
      BY <3>1, <3>2 DEF IInv, CopySound
    <3>5. QED
      BY <3>1, <3>3, <3>4, <1>1, <1>3, <1>4
  <2>3. ASSUME pc' = "meta_erase", NEW p \in 1..Size[img] PROVE slotA'[p] = img
    <3>1. pc = "ins_copy" /\ page = Size[img]
      BY <1>1, <1>2, <2>3 DEF PromoteStates
    <3>2. p \in 1..(page - 1) \/ p = page
      BY <3>1, <1>2 DEF Pages
    <3>3. p \in Pages
      BY <1>2, AppAssumption DEF Pages
    <3>4. p # page => slotA[p] = img
      BY <3>1, <3>2 DEF IInv, CopySound
    <3>5. QED
      BY <3>1, <3>3, <3>4, <1>3, <1>4
  <2>4. QED
    BY <1>1, <1>2, <1>5, <2>1, <2>2, <2>3 DEF CopySound, PromoteStates, MetaStates, TrialStates
<1>9. RecordSound' /\ CheckSound' /\ CurrentSound' /\ StartedIsInstalled' /\ TrialSound'
  BY <1>1, <1>5
     DEF IInv, RecordSound, CheckSound, CurrentSound, StartedIsInstalled, TrialSound,
         PromoteStates, TrialStates
<1>10. QED
  BY <1>6, <1>7, <1>8, <1>9 DEF IInv

(* One metadata page rewritten. *)
LEMMA PageWritten ==
  ASSUME IInv, NEW m,
         m.size \in 0..NPages, m.crc \in [1..m.size -> Content],
         m.version \in 0..TopVer, m.seq \in 0..MaxSeq, m.check \in BOOLEAN,
         IsRecord(m), m.check => \E i \in Images : Built(m, i),
         pc \in MetaStates, meta' = [meta EXCEPT ![target] = m]
  PROVE  /\ DOMAIN meta' = {1, 2}
         /\ meta'[target] = m
         /\ \A k \in {1, 2} :
              /\ meta'[k].size \in 0..NPages
              /\ meta'[k].crc \in [1..meta'[k].size -> Content]
              /\ meta'[k].version \in 0..TopVer
              /\ meta'[k].seq \in 0..MaxSeq
              /\ meta'[k].check \in BOOLEAN
         /\ RecordSound'
<1>1. DOMAIN meta = {1, 2} /\ target \in {1, 2}
  BY DEF IInv, TypeOK
<1>2. DOMAIN meta' = {1, 2} /\ meta'[target] = m
  BY <1>1
<1>3. \A k \in {1, 2} \ {target} : meta'[k] = meta[k]
  BY <1>1
<1>4. ASSUME NEW k \in {1, 2}
      PROVE  /\ meta'[k].size \in 0..NPages
             /\ meta'[k].crc \in [1..meta'[k].size -> Content]
             /\ meta'[k].version \in 0..TopVer
             /\ meta'[k].seq \in 0..MaxSeq
             /\ meta'[k].check \in BOOLEAN
  BY <1>2, <1>3 DEF IInv, TypeOK
<1>5. ASSUME NEW k \in {1, 2}
      PROVE  IsRecord(meta'[k]) /\ (meta'[k].check => \E i \in Images : Built(meta'[k], i))
  <2>1. CASE k = target
    BY <1>2, <2>1
  <2>2. CASE k # target
    BY <1>3, <2>2 DEF IInv, RecordSound
  <2>3. QED
    BY <2>1, <2>2
<1>6. RecordSound'
  <2>1. \A k \in {1, 2} :
          IsRecord(meta'[k]) /\ (meta'[k].check => \E i \in Images : Built(meta'[k], i))
    BY <1>5
  <2>2. QED
    BY <2>1 DEF RecordSound, IsRecord, Built
<1>7. QED
  BY <1>2, <1>4, <1>6

(* While the target page is no valid record yet, what BL_InstallApp read   *)
(* at its start stays true.                                                *)
LEMMA TargetWritten ==
  ASSUME IInv, NEW m, ~Meta_IsValid(m), pc \in MetaStates,
         meta' = [meta EXCEPT ![target] = m], UNCHANGED <<slotA, img, target>>,
         pc' \in MetaStates
  PROVE  InstallSound' /\ CopySound' /\ Meta_NextSeq' = Meta_NextSeq
<1>1. target = Meta_TargetPage
  BY DEF IInv, InstallSound
<1>2. /\ Meta_TargetPage' = Meta_TargetPage /\ Meta_Floor' = Meta_Floor
      /\ Meta_NextSeq' = Meta_NextSeq
  BY <1>1, TargetPageIsFree DEF IInv
<1>3. InstallSound'
  BY <1>2 DEF IInv, InstallSound
<1>4. CopySound'
  BY DEF IInv, CopySound, PromoteStates, MetaStates, TrialStates
<1>5. QED
  BY <1>2, <1>3, <1>4

LEMMA MetaEraseInv == IInv /\ MetaErase => IInv'
<1> SUFFICES ASSUME IInv, MetaErase PROVE IInv'
  OBVIOUS
<1>1. /\ pc = "meta_erase" /\ pc' = "meta_body" /\ meta' = [meta EXCEPT ![target] = Blank]
      /\ UNCHANGED <<slotA, staged, trial, page, img, target, proving, launches>>
  BY DEF MetaErase
<1>2. /\ Blank.size = 0 /\ Blank.crc = <<>> /\ Blank.version = TopVer
      /\ Blank.seq = 0 /\ Blank.check = FALSE /\ IsRecord(Blank)
  BY DEF Blank, IsRecord
<1>3. /\ Blank.size \in 0..NPages /\ Blank.crc \in [1..Blank.size -> Content]
      /\ Blank.version \in 0..TopVer /\ Blank.seq \in 0..MaxSeq
  BY <1>2, AppAssumption
<1>4. TypeOK' /\ RecordSound'
  <2>1. pc \in MetaStates
    BY <1>1 DEF MetaStates
  <2>2. QED
    BY <1>1, <1>2, <1>3, <2>1, PageWritten DEF IInv, TypeOK, States, MetaStates
<1>5. InstallSound' /\ CopySound'
  BY <1>1, <1>2, TargetWritten DEF MetaStates, Meta_IsValid
<1>6. CheckSound' /\ CurrentSound' /\ StartedIsInstalled' /\ TrialSound'
  BY <1>1 DEF IInv, CheckSound, CurrentSound, StartedIsInstalled, TrialSound, TrialStates
<1>7. QED
  BY <1>4, <1>5, <1>6 DEF IInv

(* The CRC of what was copied is that of the image. *)
LEMMA CopiedCrc ==
  ASSUME IInv, pc \in MetaStates \cup TrialStates
  PROVE  /\ img \in Images /\ Size[img] \in Pages /\ Ver[img] \in 0..TopVer
         /\ Prefix(Size[img]) = [p \in 1..Size[img] |-> img]
  BY AppAssumption DEF IInv, CopySound, Prefix

LEMMA MetaBodyInv == IInv /\ MetaBody => IInv'
<1> SUFFICES ASSUME IInv, MetaBody PROVE IInv'
  OBVIOUS
<1> DEFINE m == [size |-> Size[img], crc |-> Prefix(Size[img]), version |-> Ver[img],
                 seq |-> Meta_NextSeq, check |-> FALSE]
<1>1. /\ pc = "meta_body" /\ pc' = "meta_check" /\ meta' = [meta EXCEPT ![target] = m]
      /\ UNCHANGED <<slotA, staged, trial, page, img, target, proving, launches>>
  BY DEF MetaBody
<1>2. pc \in MetaStates /\ pc' \in MetaStates
  BY <1>1 DEF MetaStates
<1>3. /\ m.size = Size[img] /\ m.crc = Prefix(Size[img]) /\ m.version = Ver[img]
      /\ m.seq = Meta_NextSeq /\ m.check = FALSE /\ IsRecord(m)
  BY DEF IsRecord
<1> HIDE DEF m
<1>4. /\ img \in Images /\ Size[img] \in Pages /\ Ver[img] \in 0..TopVer
      /\ Prefix(Size[img]) = [p \in 1..Size[img] |-> img]
  BY <1>2, CopiedCrc
<1>5. /\ m.size \in 0..NPages /\ m.version \in 0..TopVer /\ m.seq \in 0..MaxSeq
      /\ m.crc \in [1..m.size -> Content]
  <2>1. Meta_NextSeq \in 0..MaxSeq
    BY <1>2, MetaTypes, AppAssumption DEF IInv, InstallSound
  <2>2. [p \in 1..Size[img] |-> img] \in [1..Size[img] -> Content]
    BY <1>4 DEF Content
  <2>3. QED
    BY <1>3, <1>4, <2>1, <2>2, AppAssumption DEF Pages
<1>6. TypeOK' /\ RecordSound' /\ meta'[target] = m
  BY <1>1, <1>2, <1>3, <1>5, PageWritten DEF IInv, TypeOK, States, MetaStates
<1>7. InstallSound' /\ CopySound' /\ Meta_NextSeq' = Meta_NextSeq
  BY <1>1, <1>2, <1>3, TargetWritten DEF Meta_IsValid
<1>8. CheckSound'
  <2>1. img \in Encrypted => img \in GoodKey
    BY <1>2 DEF IInv, InstallSound
  <2>2. QED
    BY <1>1, <1>3, <1>4, <1>6, <1>7, <2>1 DEF CheckSound, Built
<1>9. CurrentSound' /\ StartedIsInstalled' /\ TrialSound'
  BY <1>1 DEF IInv, CurrentSound, StartedIsInstalled, TrialSound, TrialStates
<1>10. QED
  BY <1>6, <1>7, <1>8, <1>9 DEF IInv

(* Programming one word changes nothing else in a record. *)
LEMMA CheckedRecord ==
  ASSUME NEW s, NEW c, NEW v, NEW q, NEW k, NEW e, NEW r,
         r = [size |-> s, crc |-> c, version |-> v, seq |-> q, check |-> k]
  PROVE  [r EXCEPT !.check = e] =
           [size |-> s, crc |-> c, version |-> v, seq |-> q, check |-> e]
  OBVIOUS

(* The check word makes the new record the current one, unless its version *)
(* is the one that no valid record can carry.                              *)
LEMMA MetaCheckEffect ==
  ASSUME IInv, MetaCheck
  PROVE  /\ TypeOK' /\ RecordSound'
         /\ img \in Images /\ Ver[img] \in Nat
         /\ Prefix(Size[img]) = [p \in 1..Size[img] |-> img]
         /\ Ver[img] # TopVer =>
              /\ Meta_CurrentPage' = target
              /\ Built(meta'[target], img)
              /\ Meta_Floor' = Ver[img]
         /\ Ver[img] = TopVer =>
              /\ Meta_Floor' = Meta_Floor
              /\ \E m : ~Meta_IsValid(m) /\ meta' = [meta EXCEPT ![Meta_TargetPage] = m]
<1> DEFINE m == [meta[target] EXCEPT !.check = TRUE]
<1>1. /\ pc = "meta_check" /\ pc' = "trial_erase"
      /\ meta' = [meta EXCEPT ![target].check = TRUE]
      /\ UNCHANGED <<slotA, staged, trial, page, img, target>>
      /\ proving' = "installed" /\ launches' = 0
  BY DEF MetaCheck
<1>2. meta' = [meta EXCEPT ![target] = m]
  BY <1>1
<1>3. target \in {1, 2} /\ target = Meta_TargetPage /\ pc \in MetaStates
  BY <1>1 DEF IInv, TypeOK, InstallSound, MetaStates
<1>4. Built(meta[target], img) /\ meta[target].seq = Meta_NextSeq /\ IsRecord(meta[target])
  BY <1>1, <1>3 DEF IInv, CheckSound, RecordSound
<1>5. /\ m.size = meta[target].size /\ m.crc = meta[target].crc
      /\ m.version = meta[target].version /\ m.seq = meta[target].seq /\ m.check = TRUE
      /\ IsRecord(m)
  <2>1. m = [size |-> meta[target].size, crc |-> meta[target].crc,
             version |-> meta[target].version, seq |-> meta[target].seq, check |-> TRUE]
    <3>1. meta[target] =
            [size |-> meta[target].size, crc |-> meta[target].crc,
             version |-> meta[target].version, seq |-> meta[target].seq,
             check |-> meta[target].check]
      BY <1>4 DEF IsRecord
    <3>2. \A e : [meta[target] EXCEPT !.check = e] =
                  [size |-> meta[target].size, crc |-> meta[target].crc,
                   version |-> meta[target].version, seq |-> meta[target].seq, check |-> e]
      BY <3>1, CheckedRecord
    <3>3. QED
      BY <3>2, Zenon
  <2> HIDE DEF m
  <2>2. QED
    BY <2>1 DEF IsRecord
<1> HIDE DEF m
<1>6. Built(m, img) /\ m.seq = Meta_NextSeq /\ m.version = Ver[img]
  BY <1>4, <1>5 DEF Built
<1>7. /\ img \in Images /\ Size[img] \in Pages /\ Ver[img] \in 0..TopVer
      /\ Prefix(Size[img]) = [p \in 1..Size[img] |-> img]
  BY <1>3, CopiedCrc
<1>8. /\ m.size \in 0..NPages /\ m.crc \in [1..m.size -> Content]
      /\ m.version \in 0..TopVer /\ m.seq \in 0..MaxSeq
  BY <1>3, <1>5 DEF IInv, TypeOK
<1>9. TypeOK' /\ RecordSound' /\ meta'[target] = m
  <2>1. /\ DOMAIN meta' = {1, 2} /\ meta'[target] = m /\ RecordSound'
        /\ \A k \in {1, 2} :
              /\ meta'[k].size \in 0..NPages
              /\ meta'[k].crc \in [1..meta'[k].size -> Content]
              /\ meta'[k].version \in 0..TopVer
              /\ meta'[k].seq \in 0..MaxSeq
              /\ meta'[k].check \in BOOLEAN
    BY <1>2, <1>3, <1>5, <1>6, <1>7, <1>8, PageWritten
  <2>2. pc' \in States /\ proving' \in Proving /\ launches' \in 0..(TrialMax + 1)
    BY <1>1, AppAssumption DEF States, TrialStates, Proving
  <2>3. /\ slotA \in [Pages -> Content] /\ staged \in Images \cup {None}
        /\ trial \in TrialPage /\ page \in Pages /\ img \in Images \cup {None}
    BY DEF IInv, TypeOK
  <2>4. QED
    BY <1>1, <1>3, <2>1, <2>2, <2>3 DEF TypeOK
<1>10. Ver[img] # TopVer => Meta_CurrentPage' = target /\ Meta_Floor' = Ver[img]
  <2>1. Ver[img] # TopVer => Meta_IsValid(m)
    BY <1>5, <1>6 DEF Meta_IsValid
  <2>2. QED
    BY <1>2, <1>3, <1>6, <2>1, NewestWins DEF IInv
<1>11. Ver[img] = TopVer =>
         /\ Meta_Floor' = Meta_Floor
         /\ \E r : ~Meta_IsValid(r) /\ meta' = [meta EXCEPT ![Meta_TargetPage] = r]
  <2>1. Ver[img] = TopVer => ~Meta_IsValid(m)
    BY <1>6 DEF Meta_IsValid
  <2>2. meta' = [meta EXCEPT ![Meta_TargetPage] = m]
    BY <1>2, <1>3
  <2>3. QED
    BY <2>1, <2>2, TargetPageIsFree DEF IInv
<1>12. QED
  BY <1>6, <1>7, <1>9, <1>10, <1>11, AppAssumption

LEMMA MetaCheckInv == IInv /\ MetaCheck => IInv'
<1> SUFFICES ASSUME IInv, MetaCheck PROVE IInv'
  OBVIOUS
<1>1. /\ pc = "meta_check" /\ pc' = "trial_erase"
      /\ UNCHANGED <<slotA, staged, trial, page, img, target>>
      /\ proving' = "installed" /\ launches' = 0
  BY DEF MetaCheck
<1>2. /\ TypeOK' /\ RecordSound'
      /\ img \in Images
      /\ Prefix(Size[img]) = [p \in 1..Size[img] |-> img]
      /\ Ver[img] # TopVer =>
           /\ Meta_CurrentPage' = target
           /\ Built(meta'[target], img)
           /\ Meta_Floor' = Ver[img]
  BY MetaCheckEffect
<1>3. InstallSound' /\ CheckSound' /\ StartedIsInstalled'
  BY <1>1 DEF InstallSound, CheckSound, StartedIsInstalled, PromoteStates, MetaStates
<1>4. CopySound'
  BY <1>1 DEF IInv, CopySound, PromoteStates, MetaStates, TrialStates
<1>5. CurrentSound'
  <2> SUFFICES ASSUME Ver[img] # TopVer PROVE CurrentSound'
    BY <1>1 DEF CurrentSound
  <2>1. Size[img] # 0 /\ target # 0
    <3>1. Size[img] \in Pages
      BY <1>2, AppAssumption
    <3>2. target \in {1, 2}
      BY DEF IInv, TypeOK
    <3>3. QED
      BY <3>1, <3>2, AppAssumption DEF Pages
  <2>2. Prefix(Size[img])' = Prefix(Size[img])
    BY <1>1 DEF Prefix
  <2>3. meta'[target].size = Size[img] /\ meta'[target].crc = Prefix(Size[img])
    BY <1>2 DEF Built
  <2>4. BootMgr_AppValid'
    BY <1>2, <2>1, <2>2, <2>3 DEF BootMgr_AppValid, Prefix
  <2>5. QED
    BY <1>1, <1>2, <2>4 DEF CurrentSound
<1>6. TrialSound'
  BY <1>1 DEF TrialSound
<1>7. QED
  BY <1>2, <1>3, <1>4, <1>5, <1>6 DEF IInv

TrialStep == TrialErase \/ TrialMark \/ TrialFault

LEMMA TrialInv == IInv /\ TrialStep => IInv'
<1> SUFFICES ASSUME IInv, TrialStep PROVE IInv'
  OBVIOUS
<1>1. /\ pc \in TrialStates /\ pc' \in {"trial_mark", "loop"}
      /\ UNCHANGED <<slotA, staged, meta, page, target, launches>>
      /\ img' \in {img, None} /\ (pc' # "loop" => img' = img)
  BY DEF TrialStep, TrialErase, TrialMark, TrialFault, TrialStates, flash
<1>2. proving = "installed" /\ launches = 0
  BY <1>1 DEF IInv, TrialSound
<1>3. TypeOK'
  <2>1. proving' \in Proving
    BY <1>2 DEF TrialStep, TrialErase, TrialMark, TrialFault, Proving
  <2>2. trial' \in TrialPage
    <3>1. trial \in TrialPage /\ NoTrial \in TrialPage
      BY AppAssumption DEF IInv, TypeOK, NoTrial, TrialPage
    <3>2. [trial EXCEPT !.active = TRUE] \in TrialPage
      BY <3>1 DEF TrialPage
    <3>3. QED
      BY <3>1, <3>2 DEF TrialStep, TrialErase, TrialMark, TrialFault, flash
  <2>3. QED
    BY <1>1, <2>1, <2>2, MetaPagesKept DEF IInv, TypeOK, States, TrialStates
<1>4. RecordSound' /\ InstallSound' /\ CheckSound' /\ StartedIsInstalled'
  BY <1>1 DEF IInv, RecordSound, InstallSound, CheckSound, StartedIsInstalled,
              PromoteStates, MetaStates, TrialStates
<1>5. CopySound'
  BY <1>1 DEF IInv, CopySound, PromoteStates, MetaStates, TrialStates
<1>6. CurrentSound'
  <2>1. UNCHANGED <<slotA, meta>>
    BY <1>1
  <2>2. BootMgr_AppValid => BootMgr_AppValid'
    BY <2>1, MetaUnchanged DEF BootMgr_AppValid, Prefix
  <2>3. QED
    BY <1>1, <2>2, MetaUnchanged DEF IInv, CurrentSound, TrialStates
<1>7. TrialSound'
  <2>1. CASE proving' = "armed"
    <3>1. TrialMark /\ trial = NoTrial
      BY <1>2, <2>1 DEF TrialStep, TrialErase, TrialMark, TrialFault
    <3>2. trial'.active /\ ~trial'.confirmed /\ trial'.attempts = 0 /\ pc' = "loop"
      BY <3>1 DEF TrialMark, NoTrial
    <3>3. QED
      BY <1>1, <1>2, <3>2 DEF TrialSound, TrialStates
  <2>2. CASE proving' # "armed"
    BY <1>1, <1>2, <2>2 DEF TrialSound, TrialStep, TrialErase, TrialMark, TrialFault
  <2>3. QED
    BY <2>1, <2>2
<1>8. QED
  BY <1>3, <1>4, <1>5, <1>6, <1>7 DEF IInv

-----------------------------------------------------------------------------
LEMMA StutterInv == IInv /\ UNCHANGED vars => IInv'
  BY DEF vars, IInv, TypeOK, RecordSound, IsRecord, Built, InstallSound, CopySound, CheckSound,
         CurrentSound, StartedIsInstalled, TrialSound, OnTrial, BootMgr_AppValid, Prefix,
         Meta_CurrentPage, Meta_TargetPage, Meta_Floor, Meta_NextSeq, Meta_IsValid

LEMMA InvStep == IInv /\ [Next]_vars => IInv'
<1> SUFFICES ASSUME IInv, [Next]_vars PROVE IInv'
  OBVIOUS
<1>1. CASE IdleStep
  BY <1>1, IdleInv
<1>2. CASE InsErase \/ InsCopy
  BY <1>2, PromoteInv
<1>3. CASE MetaErase \/ MetaBody \/ MetaCheck
  BY <1>3, MetaEraseInv, MetaBodyInv, MetaCheckInv
<1>4. CASE TrialStep
  BY <1>4, TrialInv
<1>5. CASE \E i \in Images : Install(i)
  BY <1>5, InstallInv
<1>6. CASE UNCHANGED vars
  BY <1>6, StutterInv
<1>7. QED
  BY <1>1, <1>2, <1>3, <1>4, <1>5, <1>6 DEF Next, Installing, Host, Fault, IdleStep, TrialStep

(* The inductive invariant holds whatever is cut short or fails. *)
THEOREM Invariance == Spec => []IInv
<1>1. Init => IInv
  BY InitInv
<1>2. IInv /\ [Next]_vars => IInv'
  BY InvStep
<1>3. QED
  BY <1>1, <1>2, PTL DEF Spec

(* The state is well typed: what the page loops, sequence numbers and      *)
(* attempt counter of BL_InstallApp and BootTrial_AllowJump index stays in *)
(* range.                                                                  *)
THEOREM TypeCorrect == Spec => []TypeOK
<1>1. IInv => TypeOK
  BY DEF IInv
<1>2. QED
  BY <1>1, Invariance, PTL

(* BootMgr_JumpToApp starts nothing but a whole, correctly decrypted image *)
(* that the current metadata record was written for.                       *)
THEOREM OnlyInstalledStarts == Spec => []StartedIsInstalled
<1>1. IInv => StartedIsInstalled
  BY DEF IInv
<1>2. QED
  BY <1>1, Invariance, PTL

(* BL_InstallApp's record is the current one by the time the trial is      *)
(* armed, if no image carries the version Meta_IsValid rejects.            *)
THEOREM InstallTakesEffect ==
  ASSUME \A i \in Images : Ver[i] # TopVer
  PROVE  Spec => []InstalledIsCurrent
<1>1. ASSUME IInv PROVE InstalledIsCurrent
  <2> SUFFICES ASSUME pc \in TrialStates PROVE InstalledIsCurrent
    BY DEF InstalledIsCurrent
  <2>1. img \in Images /\ Prefix(Size[img]) = [p \in 1..Size[img] |-> img]
    BY <1>1, CopiedCrc
  <2>2. BootMgr_AppValid /\ Meta_Floor = Ver[img]
    BY <1>1, <2>1 DEF IInv, CurrentSound
  <2>3. QED
    BY <2>1, <2>2 DEF InstalledIsCurrent
<1>2. QED
  BY <1>1, Invariance, PTL

(* The boot decision starts an application on trial at most BOOT_TRIAL_MAX *)
(* times.                                                                  *)
THEOREM TrialIsBounded == Spec => []TrialBound
<1>1. ASSUME IInv PROVE TrialBound
  <2>1. trial.attempts \in 0..TrialMax /\ launches \in Nat
    BY <1>1, AppAssumption DEF IInv, TypeOK, TrialPage
  <2>2. QED
    BY <1>1, <2>1, AppAssumption DEF IInv, TrialSound, TrialBound
<1>2. QED
  BY <1>1, Invariance, PTL

(* The rollback floor never goes down: the step that completes a record    *)
(* raises it to a version BL_CheckImage compared with it, every other step *)
(* leaves the current page alone.                                          *)
LEMMA FloorStep == IInv /\ [Next]_vars => Meta_Floor' >= Meta_Floor
<1> SUFFICES ASSUME IInv, [Next]_vars PROVE Meta_Floor' >= Meta_Floor
  OBVIOUS
<1>1. Meta_Floor \in Nat
  BY MetaTypes DEF IInv
<1>2. CASE MetaErase
  <2>1. target = Meta_TargetPage /\ ~Meta_IsValid(Blank)
    BY <1>2 DEF IInv, InstallSound, MetaErase, MetaStates, Meta_IsValid, Blank
  <2>2. Meta_Floor' = Meta_Floor
    BY <1>2, <2>1, TargetPageIsFree DEF IInv, MetaErase
  <2>3. QED
    BY <1>1, <2>2
<1>3. CASE MetaBody
  <2> DEFINE m == [size |-> Size[img], crc |-> Prefix(Size[img]), version |-> Ver[img],
                   seq |-> Meta_NextSeq, check |-> FALSE]
  <2>1. target = Meta_TargetPage
    BY <1>3 DEF IInv, InstallSound, MetaBody, MetaStates
  <2>2. ~Meta_IsValid(m)
    BY DEF Meta_IsValid
  <2>3. meta' = [meta EXCEPT ![target] = m]
    BY <1>3 DEF MetaBody
  <2> HIDE DEF m
  <2>4. Meta_Floor' = Meta_Floor
    BY <2>1, <2>2, <2>3, TargetPageIsFree DEF IInv
  <2>5. QED
    BY <1>1, <2>4
<1>4. CASE MetaCheck
  <2>1. Ver[img] >= Meta_Floor
    BY <1>4 DEF IInv, InstallSound, MetaCheck, MetaStates
  <2>2. QED
    BY <1>1, <1>4, <2>1, MetaCheckEffect
<1>5. CASE UNCHANGED meta
  BY <1>1, <1>5, MetaUnchanged
<1>6. QED
  <2>1. IdleStep => UNCHANGED meta
    BY IdleTarget
  <2>2. InsErase \/ InsCopy \/ TrialStep \/ (\E i \in Images : Install(i)) => UNCHANGED meta
    BY DEF InsErase, InsCopy, TrialStep, TrialErase, TrialMark, TrialFault, Install, flash
  <2>3. UNCHANGED vars => UNCHANGED meta
    BY DEF vars
  <2>4. QED
    BY <1>2, <1>3, <1>4, <1>5, <2>1, <2>2, <2>3
       DEF Next, Installing, Host, Fault, IdleStep, TrialStep

(* Anti-rollback: Meta_Floor, which every install is compared with, only   *)
(* ever grows, across reinstalls, power cuts and failed writes.            *)
THEOREM FloorIsMonotonic == Spec => FloorNeverDrops
<1>1. IInv /\ [Next]_vars => [Meta_Floor' >= Meta_Floor]_vars
  BY FloorStep
<1>2. QED
  BY <1>1, Invariance, PTL DEF Spec, FloorNeverDrops

(* A page that is no valid record does not touch what the board starts.    *)
LEMMA AppKept ==
  ASSUME IInv, NEW m, ~Meta_IsValid(m), UNCHANGED slotA,
         meta' = [meta EXCEPT ![Meta_TargetPage] = m]
  PROVE  BootMgr_AppValid' = BootMgr_AppValid
<1>1. Meta_CurrentPage' = Meta_CurrentPage /\ Meta_TargetPage # Meta_CurrentPage
  BY TargetPageIsFree, MetaTypes DEF IInv
<1>2. Meta_CurrentPage # 0 => meta'[Meta_CurrentPage] = meta[Meta_CurrentPage]
  BY <1>1, MetaTypes DEF IInv, TypeOK
<1>3. QED
  BY <1>1, <1>2 DEF BootMgr_AppValid, Prefix

(* While Slot A is rewritten BL_InstallApp has made its checks; a step that*)
(* does not write it leaves a bootable application bootable.               *)
LEMMA BetterStep ==
  ASSUME IInv, Next, BootMgr_AppValid, pc \notin PromoteStates
  PROVE  BootMgr_AppValid'
<1>1. UNCHANGED slotA
  <2>1. IdleStep => UNCHANGED slotA
    BY DEF IdleStep, PromoteFault, Boot, ButtonHeld, BootFreely, BootOnTrial, BootRefused, Attempt,
           App_ConfirmBoot, Watchdog, Stage, Go, EcuReset, MetaFault, AttemptFault, PowerCut, flash
  <2>2. QED
    BY <2>1 DEF Next, Installing, Host, Fault, IdleStep, TrialStep, InsErase, InsCopy,
       MetaErase, MetaBody, MetaCheck, TrialErase, TrialMark, TrialFault, Install,
       PromoteFault, PromoteStates, flash
<1>2. CASE MetaErase
  <2>1. target = Meta_TargetPage /\ ~Meta_IsValid(Blank)
    BY <1>2 DEF IInv, InstallSound, MetaErase, MetaStates, Meta_IsValid, Blank
  <2>2. QED
    BY <1>1, <1>2, <2>1, AppKept DEF MetaErase
<1>3. CASE MetaBody
  <2> DEFINE m == [size |-> Size[img], crc |-> Prefix(Size[img]), version |-> Ver[img],
                   seq |-> Meta_NextSeq, check |-> FALSE]
  <2>1. target = Meta_TargetPage
    BY <1>3 DEF IInv, InstallSound, MetaBody, MetaStates
  <2>2. ~Meta_IsValid(m)
    BY DEF Meta_IsValid
  <2>3. meta' = [meta EXCEPT ![target] = m]
    BY <1>3 DEF MetaBody
  <2> HIDE DEF m
  <2>4. QED
    BY <1>1, <2>1, <2>2, <2>3, AppKept
<1>4. CASE MetaCheck /\ Ver[img] = TopVer
  <2>1. PICK m : ~Meta_IsValid(m) /\ meta' = [meta EXCEPT ![Meta_TargetPage] = m]
    BY <1>4, MetaCheckEffect
  <2>2. QED
    BY <1>1, <2>1, AppKept
<1>5. CASE MetaCheck /\ Ver[img] # TopVer
  <2>1. /\ img \in Images /\ Prefix(Size[img]) = [p \in 1..Size[img] |-> img]
        /\ Meta_CurrentPage' = target /\ Built(meta'[target], img)
    BY <1>5, MetaCheckEffect
  <2>2. Size[img] \in Nat \ {0} /\ target \in {1, 2}
    BY <2>1, AppAssumption DEF Pages, IInv, TypeOK
  <2>3. /\ Meta_CurrentPage' # 0 /\ meta'[target].size = Size[img]
        /\ meta'[target].crc = Prefix(Size[img])
    BY <2>1, <2>2 DEF Built
  <2>4. [p \in 1..meta'[target].size |-> slotA'[p]] = meta'[target].crc
    BY <1>1, <2>3 DEF Prefix
  <2>5. QED
    BY <2>1, <2>2, <2>3, <2>4 DEF BootMgr_AppValid, Prefix
<1>6. CASE UNCHANGED meta
  <2>1. Meta_CurrentPage' = Meta_CurrentPage
    BY <1>6, MetaUnchanged
  <2>2. QED
    BY <1>1, <1>6, <2>1 DEF BootMgr_AppValid, Prefix
<1>7. QED
  <2>1. IdleStep => UNCHANGED meta
    BY IdleTarget
  <2>2. InsErase \/ InsCopy \/ TrialStep \/ PromoteFault \/ (\E i \in Images : Install(i)) => UNCHANGED meta
    BY DEF InsErase, InsCopy, PromoteFault, TrialStep, TrialErase, TrialMark, TrialFault, Install, flash
  <2>3. QED
    BY <1>2, <1>3, <1>4, <1>5, <1>6, <2>1, <2>2
       DEF Next, Installing, Host, Fault, IdleStep, TrialStep

(* A bootable application is given up only while BL_InstallApp rewrites    *)
(* Slot A with an image that passed the version check and, if encrypted,   *)
(* decrypts to what its header says.                                       *)
THEOREM OldAppIsKept == Spec => OnlyForABetterOne
<1> DEFINE Better == BootMgr_AppValid /\ ~BootMgr_AppValid' =>
                       /\ pc \in PromoteStates
                       /\ Ver[img] >= Meta_Floor
                       /\ img \in Encrypted => img \in GoodKey
<1>1. IInv /\ [Next]_vars => [Better]_vars
  <2> SUFFICES ASSUME IInv, Next, BootMgr_AppValid, ~BootMgr_AppValid' PROVE Better
    OBVIOUS
  <2>1. pc \in PromoteStates
    BY BetterStep
  <2>2. QED
    BY <2>1 DEF IInv, InstallSound
<1>2. QED
  BY <1>1, Invariance, PTL DEF Spec, OnlyForABetterOne
=============================================================================
