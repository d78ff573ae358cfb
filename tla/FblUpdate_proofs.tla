-------------------------- MODULE FblUpdate_proofs ---------------------------
(***************************************************************************)
(* Proofs about FblUpdate for every set of images, region size and junk:   *)
(* as long as the UPDATING record itself is programmed without a flash     *)
(* fault, the board survives any sequence of power cuts.                   *)
(***************************************************************************)
EXTENDS FblUpdate, TLAPS

(* The faults the design tolerates.  A stamp that fails is harmless unless *)
(* somebody then rewrites the FBL over SWD under the stale record.         *)
FaultsTolerated ==
  /\ "record" \notin FaultAt
  /\ "stamp" \in FaultAt => ~SwdReflash

(* The update can be redone: the image the record names is in Slot B. *)
Pending == Updating /\ slotB = record.crc /\ HoldsImage(slotB)

(* Without a pending update the FBL region is whole; with one, either the  *)
(* source of the copy or the result of it is.                              *)
RecordSound ==
  /\ ~Updating => HoldsImage(fbl)
  /\ Updating => Pending \/ (fbl = record.crc /\ HoldsImage(fbl))

RunsWhole ==
  /\ pc # "wild"
  /\ pc \in FblStates => HoldsImage(fbl) /\ (Updating => fbl = record.crc)

CopyHasSource == pc \in CopyStates => Pending

(* While the UPDATING record is being programmed its crc word is that of   *)
(* the authentic image in Slot B before its state word can say UPDATING.   *)
RecordingSound ==
  /\ pc \in {"rec_erase", "rec_write"} =>
       HoldsImage(slotB) /\ Ver[slotB[1]] >= Ver[fbl[1]]
  /\ pc \in {"stamp_write", "rec_write"} =>
       record.state = "none" /\ (page > 1 => record.magic)
  /\ pc = "rec_write" /\ page = 3 => record.crc = slotB

ReflashSafe ==
  SwdReflash =>
    /\ Updating => Pending
    /\ pc \in {"wipe", "run", "rec_erase", "rec_write"} => ~Updating

IInv ==
  /\ TypeOK
  /\ RecordSound
  /\ RunsWhole
  /\ CopyHasSource
  /\ RecordingSound
  /\ ReflashSafe

-----------------------------------------------------------------------------
(* What a region's padding and first page say about the image it holds.    *)

LEMMA FirstPage ==
  ASSUME NEW region, HoldsImage(region)
  PROVE  region[1] \in Images
  BY FblAssumption DEF HoldsImage, Complete, Pages

LEMMA CompleteFirst ==
  ASSUME NEW region, NEW i \in Images, Complete(region, i)
  PROVE  region[1] = i
  BY FblAssumption DEF Complete, Pages

(* A region the programmer has just written is whole. *)
LEMMA Programmed ==
  ASSUME NEW i \in Images,
         NEW region, region = [p \in Pages |-> IF p <= Size[i] THEN i ELSE Erased]
  PROVE  region \in Region /\ Complete(region, i)
  BY FblAssumption DEF Region, Content, Complete, Pages

(* The update record does not restrict a Boot Manager that finds a whole   *)
(* FBL and no pending update.                                              *)
LEMMA WholeIsTrusted ==
  ASSUME HoldsImage(fbl), ~Updating
  PROVE  BmTrustsFbl
  BY FirstPage DEF BmTrustsFbl, SpOk

-----------------------------------------------------------------------------
LEMMA BlankIsRecord == Blank \in Records
  BY DEF Blank, Records

LEMMA InitInv == Init => IInv
<1> SUFFICES ASSUME Init PROVE IInv
  OBVIOUS
<1>1. PICK i \in Images : fbl = [p \in Pages |-> IF p <= Size[i] THEN i ELSE Erased]
  BY DEF Init
<1>2. fbl \in Region /\ HoldsImage(fbl)
  BY <1>1, Programmed DEF HoldsImage
<1>3. slotB \in Region
  BY DEF Init, Region, Content
<1>4. TypeOK
  <2>1. record \in Records
    BY BlankIsRecord DEF Init
  <2>2. page \in 1..LastPage
    BY FblAssumption DEF Init, LastPage
  <2>3. QED
    BY <1>2, <1>3, <2>1, <2>2 DEF Init, TypeOK, States
<1>5. ~Updating
  BY DEF Init, Updating, Blank
<1>6. QED
  BY <1>2, <1>4, <1>5
     DEF Init, IInv, RecordSound, RunsWhole, CopyHasSource, RecordingSound,
         ReflashSafe, FblStates, CopyStates

(* Types are preserved by every step, whatever the state: they do not need *)
(* the rest of the invariant.                                              *)
LEMMA PageOne ==
  ASSUME page' = 1
  PROVE  (page \in 1..LastPage)'
<1>1. LastPage' \in Nat \ {0}
  BY FblAssumption DEF LastPage
<1>2. QED
  BY <1>1

LEMMA TypeStep == TypeOK /\ [Next]_vars => TypeOK'
<1> SUFFICES ASSUME TypeOK, [Next]_vars PROVE TypeOK'
  OBVIOUS
<1> USE FblAssumption DEF States, FblStates, CopyStates
<1>1. ASSUME BmBoot \/ BmRecover \/ BmHalt \/ BmCheck PROVE TypeOK'
  <2>1. (page \in 1..LastPage)'
    BY <1>1, PageOne DEF TypeOK, LastPage, BmBoot, BmRecover, BmHalt, BmCheck, EnterFbl
  <2>2. QED
    BY <1>1, <2>1 DEF TypeOK, BmBoot, BmRecover, BmHalt, BmCheck, EnterFbl, flash
<1>2. ASSUME NEW at \in CopyStates, NEW next \in {"bm", "bm_copy", "bm_check", "sbl_copy"},
             ErasePage(at, next) \/ CopyPage(at, next)
      PROVE  TypeOK'
  <2>1. page \in Pages
    BY <1>2 DEF TypeOK, Pages, LastPage, ErasePage, CopyPage
  <2>2. slotB[page] \in Content /\ Erased \in Content
    BY <2>1 DEF TypeOK, Region, Content
  <2>3. fbl' \in Region
    BY <1>2, <2>2 DEF TypeOK, Region, ErasePage, CopyPage
  <2>4. page' \in Pages /\ pc' \in States \ {"stamp_write", "rec_write"}
    BY <1>2, <2>1 DEF ErasePage, CopyPage, NextPage, Pages
  <2>5. QED
    BY <1>2, <2>3, <2>4 DEF TypeOK, ErasePage, CopyPage, Pages, LastPage
<1>3. ASSUME FblStart PROVE TypeOK'
  <2>1. wasUpdate' \in BOOLEAN
    BY <1>3 DEF FblStart, Updating
  <2>2. QED
    BY <1>3, <2>1, PageOne DEF TypeOK, FblStart, flash
<1>4. ASSUME StampErase \/ RecErase PROVE TypeOK'
  BY <1>4, PageOne, BlankIsRecord DEF TypeOK, StampErase, RecErase
<1>5. ASSUME StampWrite \/ RecWrite PROVE TypeOK'
  <2>1. record' \in Records
    BY <1>5 DEF TypeOK, Records, StampWrite, RecWrite, ProgramWord
  <2>2. (page \in 1..LastPage)'
    BY <1>5, PageOne DEF TypeOK, LastPage, StampWrite, RecWrite, AfterStamp
  <2>3. QED
    BY <1>5, <2>1, <2>2 DEF TypeOK, StampWrite, RecWrite, AfterStamp
<1>6. ASSUME Wipe \/ WipeFault PROVE TypeOK'
  <2>1. slotB' \in Region
    BY <1>6 DEF TypeOK, Region, Content, Wipe, WipeFault
  <2>2. page' \in 1..NPages /\ pc' \in {"wipe", "run"}
    BY <1>6 DEF TypeOK, LastPage, Wipe, WipeFault, NextPage
  <2>3. QED
    BY <1>6, <2>1, <2>2 DEF TypeOK, LastPage, Wipe, WipeFault
<1>7. ASSUME Host PROVE TypeOK'
  <2>1. CASE \E i \in Images : UpdateFbl(i)
    BY <2>1, PageOne DEF TypeOK, UpdateFbl, flash
  <2>2. ASSUME NEW p \in Pages, HostErase(p) \/ \E v \in Content : HostWrite(p, v)
        PROVE  TypeOK'
    <3>1. slotB' \in Region
      BY <2>2 DEF TypeOK, Region, Content, HostErase, HostWrite
    <3>2. QED
      BY <2>2, <3>1 DEF TypeOK, LastPage, HostErase, HostWrite
  <2>3. QED
    BY <1>7, <2>1, <2>2 DEF Host
<1>8. ASSUME PowerCut PROVE TypeOK'
  <2>1. fbl' \in Region /\ slotB' \in Region
    BY <1>8 DEF TypeOK, Region, PowerCut, flash
  <2>2. QED
    BY <1>8, <2>1, PageOne DEF TypeOK, PowerCut, flash
<1>9. ASSUME SblFault \/ BmFault PROVE TypeOK'
  <2>1. fbl' \in Region
    BY <1>9 DEF TypeOK, Region, SblFault, BmFault
  <2>2. page' \in 1..NPages /\ pc' \in States \ {"stamp_write", "rec_write"}
    BY <1>9 DEF TypeOK, LastPage, SblFault, BmFault, NextPage
  <2>3. QED
    BY <1>9, <2>1, <2>2 DEF TypeOK, LastPage, SblFault, BmFault
<1>10. ASSUME StampFault \/ RecFault PROVE TypeOK'
  BY <1>10, PageOne DEF TypeOK, StampFault, RecFault, AfterStamp, flash
<1>11. ASSUME NEW i \in Images, Reflash(i) PROVE TypeOK'
  <2>1. fbl' \in Region
    BY <1>11, Programmed DEF Reflash
  <2>2. QED
    BY <1>11, <2>1, PageOne DEF TypeOK, Reflash
<1>12. ASSUME UNCHANGED vars PROVE TypeOK'
  BY <1>12 DEF TypeOK, LastPage, vars
<1>13. QED
  <2>1. BmErase \/ BmCopy \/ SblErase \/ SblCopy => TypeOK'
    BY <1>2 DEF BmErase, BmCopy, SblErase, SblCopy
  <2>2. QED
    BY <2>1, <1>1, <1>3, <1>4, <1>5, <1>6, <1>7, <1>8, <1>9, <1>10, <1>11, <1>12
       DEF Next, Device, Fault

-----------------------------------------------------------------------------
(* A step that leaves the flash alone and ends in the Boot Manager or in a *)
(* halt keeps the invariant: it only speaks about the flash then.          *)
LEMMA FlashKept ==
  ASSUME IInv, TypeOK', UNCHANGED flash, pc' \in {"bm", "halt"}
  PROVE  IInv'
<1>1. RecordSound' /\ ReflashSafe'
  BY DEF IInv, RecordSound, ReflashSafe, Updating, Pending, HoldsImage, Complete, flash
<1>2. RunsWhole' /\ CopyHasSource' /\ RecordingSound'
  BY DEF RunsWhole, CopyHasSource, RecordingSound, FblStates, CopyStates
<1>3. QED
  BY <1>1, <1>2 DEF IInv

(* Rewriting the FBL region is harmless while the update is pending. *)
LEMMA RegionRewritten ==
  ASSUME IInv, TypeOK', CopyHasSource, pc \in CopyStates,
         UNCHANGED <<slotB, record>>,
         pc' \in CopyStates \cup {"bm", "halt"}
  PROVE  IInv'
<1>1. Pending'
  BY DEF CopyHasSource, Pending, Updating, HoldsImage, Complete
<1>2. RecordSound' /\ CopyHasSource' /\ ReflashSafe'
  BY <1>1 DEF RecordSound, CopyHasSource, ReflashSafe, Pending, CopyStates
<1>3. RunsWhole' /\ RecordingSound'
  BY DEF RunsWhole, RecordingSound, FblStates, CopyStates
<1>4. QED
  BY <1>2, <1>3 DEF IInv

LEMMA InvStep ==
  ASSUME FaultsTolerated, IInv, [Next]_vars
  PROVE  IInv'
<1> USE DEF FblStates, CopyStates
<1>1. TypeOK'
  BY TypeStep DEF IInv
<1>2. ASSUME BmBoot PROVE IInv'
  <2>1. HoldsImage(fbl) /\ (Updating => fbl = record.crc)
    <3>1. CASE Updating
      BY <1>2, <3>1 DEF IInv, RecordSound, Pending, BmBoot, BmTrustsFbl
    <3>2. CASE ~Updating
      BY <3>2 DEF IInv, RecordSound
    <3>3. QED
      BY <3>1, <3>2
  <2>2. pc' = "start" /\ UNCHANGED flash
    BY <1>2, <2>1 DEF BmBoot, EnterFbl
  <2>3. QED
    BY <1>1, <2>1, <2>2
       DEF IInv, RecordSound, RunsWhole, CopyHasSource, RecordingSound, ReflashSafe,
           Updating, Pending, HoldsImage, Complete, flash
<1>3. ASSUME BmRecover PROVE IInv'
  <2>1. Pending
    BY <1>3 DEF IInv, RecordSound, Pending, BmRecover, BmTrustsFbl
  <2>2. QED
    BY <1>1, <1>3, <2>1
       DEF IInv, RecordSound, RunsWhole, CopyHasSource, RecordingSound, ReflashSafe,
           Updating, Pending, HoldsImage, Complete, BmRecover, flash
<1>4. ASSUME BmHalt PROVE IInv'
  BY <1>1, <1>4, FlashKept DEF BmHalt
<1>5. ASSUME BmErase \/ BmCopy \/ SblErase \/ SblCopy \/ SblFault \/ BmFault
      PROVE  IInv'
  <2>1. /\ pc \in CopyStates
        /\ pc' \in CopyStates \cup {"bm", "halt"}
        /\ UNCHANGED <<slotB, record>>
    BY <1>5 DEF BmErase, BmCopy, SblErase, SblCopy, SblFault, BmFault, ErasePage,
                CopyPage, NextPage
  <2>2. QED
    BY <1>1, <2>1, RegionRewritten DEF IInv
<1>6. ASSUME BmCheck PROVE IInv'
  <2>1. Pending /\ UNCHANGED flash
    BY <1>6 DEF IInv, CopyHasSource, BmCheck
  <2>2. CASE fbl = record.crc
    <3>1. HoldsImage(fbl) /\ pc' = "start"
      BY <1>6, <2>1, <2>2 DEF Pending, BmCheck, EnterFbl
    <3>2. QED
      BY <1>1, <2>1, <2>2, <3>1
         DEF IInv, RecordSound, RunsWhole, CopyHasSource, RecordingSound, ReflashSafe,
             Updating, Pending, HoldsImage, Complete, flash
  <2>3. CASE fbl # record.crc
    BY <1>1, <1>6, <2>1, <2>3, FlashKept DEF BmCheck
  <2>4. QED
    BY <2>2, <2>3
<1>7. ASSUME FblStart PROVE IInv'
  <2>1. pc' = "run" => ~Updating
    BY <1>7 DEF FblStart, Updating
  <2>2. QED
    BY <1>1, <1>7, <2>1
       DEF IInv, RecordSound, RunsWhole, CopyHasSource, RecordingSound, ReflashSafe,
           Updating, Pending, HoldsImage, Complete, FblStart, flash
<1>8. ASSUME StampErase \/ StampWrite PROVE IInv'
  <2>1. HoldsImage(fbl) /\ fbl' = fbl
    BY <1>8 DEF IInv, RunsWhole, StampErase, StampWrite
  <2>2. ~Updating'
    BY <1>8 DEF IInv, TypeOK, Records, LastPage, RecordingSound, StampErase, StampWrite,
                ProgramWord, Blank, Updating
  <2>3. RecordingSound'
    BY <1>8 DEF IInv, TypeOK, Records, LastPage, RecordingSound, StampErase, StampWrite,
                AfterStamp, ProgramWord, Blank
  <2>4. QED
    BY <1>1, <1>8, <2>1, <2>2, <2>3
       DEF IInv, RecordSound, RunsWhole, CopyHasSource, ReflashSafe, HoldsImage,
           Complete, StampErase, StampWrite, AfterStamp
<1>9. ASSUME Wipe \/ WipeFault PROVE IInv'
  <2>1. /\ HoldsImage(fbl) /\ (Updating => fbl = record.crc)
        /\ UNCHANGED <<fbl, record>>
        /\ pc' \in {"wipe", "run"}
        /\ SwdReflash => ~Updating
    BY <1>9 DEF IInv, RunsWhole, ReflashSafe, Wipe, WipeFault, NextPage
  <2>2. QED
    BY <1>1, <2>1
       DEF IInv, RecordSound, RunsWhole, CopyHasSource, RecordingSound, ReflashSafe,
           Updating, Pending, HoldsImage, Complete
<1>10. ASSUME Host PROVE IInv'
  <2>1. ASSUME NEW p \in Pages, HostErase(p) \/ \E v \in Content : HostWrite(p, v)
        PROVE  IInv'
    <3>1. /\ HoldsImage(fbl) /\ (Updating => fbl = record.crc)
          /\ UNCHANGED <<fbl, record>>
          /\ pc' = "run"
          /\ SwdReflash => ~Updating
      BY <2>1 DEF IInv, RunsWhole, ReflashSafe, HostErase, HostWrite
    <3>2. QED
      BY <1>1, <3>1
         DEF IInv, RecordSound, RunsWhole, CopyHasSource, RecordingSound, ReflashSafe,
             Updating, Pending, HoldsImage, Complete
  <2>2. ASSUME NEW i \in Images, UpdateFbl(i) PROVE IInv'
    <3>1. HoldsImage(slotB) /\ Ver[slotB[1]] >= Ver[fbl[1]]
      BY <2>2, CompleteFirst DEF UpdateFbl, HoldsImage
    <3>2. QED
      BY <1>1, <2>2, <3>1
         DEF IInv, RecordSound, RunsWhole, CopyHasSource, RecordingSound, ReflashSafe,
             Updating, Pending, HoldsImage, Complete, UpdateFbl, flash
  <2>3. QED
    BY <1>10, <2>1, <2>2 DEF Host
<1>11. ASSUME RecErase PROVE IInv'
  <2>1. ~Updating' /\ UNCHANGED <<fbl, slotB>> /\ pc' = "rec_write" /\ page' = 1
    BY <1>11 DEF RecErase, Blank, Updating
  <2>2. HoldsImage(fbl) /\ HoldsImage(slotB) /\ Ver[slotB[1]] >= Ver[fbl[1]]
    BY <1>11 DEF IInv, RunsWhole, RecordingSound, RecErase
  <2>3. record'.state = "none"
    BY <1>11 DEF RecErase, Blank
  <2>4. QED
    BY <1>1, <2>1, <2>2, <2>3
       DEF IInv, RecordSound, RunsWhole, CopyHasSource, RecordingSound, ReflashSafe,
           HoldsImage, Complete
<1>12. ASSUME RecWrite PROVE IInv'
  <2>1. /\ HoldsImage(fbl) /\ HoldsImage(slotB) /\ Ver[slotB[1]] >= Ver[fbl[1]]
        /\ UNCHANGED <<fbl, slotB>>
        /\ record.state = "none" /\ page \in 1..3
    BY <1>12 DEF IInv, TypeOK, LastPage, RunsWhole, RecordingSound, RecWrite
  <2>2. CASE page = 3
    <3>1. /\ record'.state = "UPDATING" /\ record'.magic
          /\ record'.crc = slotB /\ pc' = "sbl_erase"
      BY <1>12, <2>2 DEF IInv, TypeOK, Records, RecordingSound, RecWrite, ProgramWord
    <3>2. Pending'
      BY <2>1, <3>1 DEF Pending, Updating, HoldsImage, Complete
    <3>3. QED
      BY <1>1, <3>1, <3>2
         DEF IInv, RecordSound, RunsWhole, CopyHasSource, RecordingSound, ReflashSafe,
             Pending
  <2>3. CASE page < 3
    <3>1. /\ record'.state = "none" /\ record'.magic
          /\ page' = page + 1 /\ pc' = "rec_write"
          /\ page = 2 => record'.crc = slotB
      BY <1>12, <2>1, <2>3 DEF IInv, TypeOK, Records, RecordingSound, RecWrite, ProgramWord
    <3>2. QED
      BY <1>1, <2>1, <2>3, <3>1
         DEF IInv, RecordSound, RunsWhole, CopyHasSource, RecordingSound, ReflashSafe,
             Updating, HoldsImage, Complete
  <2>4. QED
    BY <2>1, <2>2, <2>3
<1>13. ASSUME PowerCut PROVE IInv'
  <2>1. CASE UNCHANGED flash
    BY <1>1, <1>13, <2>1, FlashKept DEF PowerCut
  <2>2. CASE pc \in CopyStates /\ UNCHANGED <<slotB, record>>
    BY <1>1, <1>13, <2>2, RegionRewritten DEF IInv, PowerCut
  <2>3. CASE pc = "wipe" /\ UNCHANGED <<fbl, record>>
    BY <1>1, <1>13, <2>3
       DEF IInv, RecordSound, RunsWhole, CopyHasSource, RecordingSound, ReflashSafe,
           Updating, Pending, HoldsImage, Complete, PowerCut
  <2>4. QED
    BY <1>13, <2>1, <2>2, <2>3 DEF PowerCut
<1>14. ASSUME StampFault PROVE IInv'
  <2>1. ~SwdReflash /\ UNCHANGED flash /\ pc' \in {"wipe", "run"} /\ pc \in FblStates
    BY <1>14 DEF FaultsTolerated, StampFault, AfterStamp
  <2>2. QED
    BY <1>1, <2>1
       DEF IInv, RecordSound, RunsWhole, CopyHasSource, RecordingSound, ReflashSafe,
           Updating, Pending, HoldsImage, Complete, flash
<1>15. ASSUME RecFault PROVE IInv'
  BY <1>15 DEF FaultsTolerated, RecFault
<1>16. ASSUME NEW i \in Images, Reflash(i) PROVE IInv'
  <2>1. /\ HoldsImage(fbl') /\ UNCHANGED <<slotB, record>> /\ pc' = "bm"
        /\ Updating => Pending
    BY <1>16, Programmed DEF IInv, ReflashSafe, Reflash, HoldsImage
  <2>2. QED
    BY <1>1, <2>1
       DEF IInv, RecordSound, RunsWhole, CopyHasSource, RecordingSound, ReflashSafe,
           Updating, Pending, HoldsImage, Complete
<1>17. ASSUME UNCHANGED vars PROVE IInv'
  BY <1>1, <1>17
     DEF IInv, RecordSound, RunsWhole, CopyHasSource, RecordingSound, ReflashSafe,
         Updating, Pending, HoldsImage, Complete, vars
<1>18. QED
  BY <1>2, <1>3, <1>4, <1>5, <1>6, <1>7, <1>8, <1>9, <1>10, <1>11, <1>12, <1>13,
     <1>14, <1>15, <1>16, <1>17
     DEF Next, Device, Fault

-----------------------------------------------------------------------------
(* Every behaviour keeps the values of its variables in their types. *)
THEOREM TypeCorrect == Spec => []TypeOK
<1>1. Init => TypeOK
  BY InitInv DEF IInv
<1>2. QED
  BY <1>1, TypeStep, PTL DEF Spec

THEOREM Invariance == FaultsTolerated /\ Spec => []IInv
<1> SUFFICES ASSUME FaultsTolerated PROVE Spec => []IInv
  OBVIOUS
<1>1. IInv /\ [Next]_vars => IInv'
  BY InvStep
<1>2. QED
  BY InitInv, <1>1, PTL DEF Spec

LEMMA SurvivableFromInv == IInv => Survivable
<1> SUFFICES ASSUME IInv PROVE Survivable
  OBVIOUS
<1>1. CASE ~Updating
  BY <1>1, WholeIsTrusted DEF IInv, RecordSound, Survivable
<1>2. CASE Updating
  BY <1>2 DEF IInv, RecordSound, Pending, Survivable, BmTrustsFbl
<1>3. QED
  BY <1>1, <1>2

(* At every instant a power cut would leave the Boot Manager a whole FBL   *)
(* to start or to copy again.                                              *)
THEOREM AlwaysSurvivable == FaultsTolerated /\ Spec => []Survivable
  BY Invariance, SurvivableFromInv, PTL

(* The processor never executes a region that holds no whole FBL. *)
THEOREM NeverRunsWild == FaultsTolerated /\ Spec => []NeverWild
<1>1. IInv => NeverWild
  BY DEF IInv, RunsWhole, NeverWild
<1>2. QED
  BY <1>1, Invariance, PTL

-----------------------------------------------------------------------------
(* The self-update implements the indivisible one.                         *)

Running == IF pc \in FblStates THEN fbl[1] ELSE NoImage

LEMMA TargetImage == IInv => Target[1] \in Images
  BY FirstPage DEF IInv, RecordSound, Pending, Target

LEMMA AtomicInit == Init => Atomic!Init
<1> SUFFICES ASSUME Init PROVE Atomic!Init
  OBVIOUS
<1>1. Target[1] \in Images
  BY InitInv, TargetImage
<1>2. QED
  BY <1>1 DEF Init, Atomic!Init, FblStates

(* What the device itself may do to the abstract state. *)
AtomicOwn ==
  [Atomic!Boot \/ Atomic!PowerCut \/ \E i \in Images : Atomic!Commit(i)]_(Atomic!vars)

(* The steps that neither start nor commit anything. *)
LEMMA TargetKept ==
  ASSUME UNCHANGED Target, UNCHANGED Running \/ Running' = NoImage
  PROVE  AtomicOwn
  BY DEF AtomicOwn, Atomic!PowerCut, Atomic!vars, Running

LEMMA AtomicStep ==
  ASSUME FaultsTolerated, IInv, IInv', [Next]_vars
  PROVE  AtomicOwn \/ \E i \in Images : Reflash(i) /\ Atomic!Reflash(i)
<1> USE DEF FblStates, CopyStates
<1>1. CASE BmBoot \/ BmCheck
  <2>1. UNCHANGED Target /\ Running = NoImage /\ pc' \in {"start", "halt"}
    BY <1>1 DEF IInv, RunsWhole, Target, Updating, Running, BmBoot, BmCheck, EnterFbl, flash
  <2>2. CASE pc' = "halt"
    BY <2>1, <2>2, TargetKept DEF Running
  <2>3. CASE pc' = "start"
    <3>1. Running' = Target[1]
      BY <2>1, <2>3 DEF IInv, RunsWhole, Target, Running
    <3>2. QED
      BY <2>1, <3>1 DEF AtomicOwn, Atomic!Boot, Running
  <2>4. QED
    BY <2>1, <2>2, <2>3
<1>2. CASE BmRecover \/ BmHalt \/ FblStart \/ StampFault \/ Host
  BY <1>2, TargetKept
     DEF Target, Updating, Running, BmRecover, BmHalt, FblStart, StampFault, AfterStamp,
         Host, HostErase, HostWrite, UpdateFbl, flash
<1>3. CASE BmErase \/ BmCopy \/ SblErase \/ SblCopy \/ SblFault \/ BmFault
  <2>1. pc \in CopyStates /\ UNCHANGED record /\ pc' \notin FblStates
    BY <1>3 DEF BmErase, BmCopy, SblErase, SblCopy, SblFault, BmFault, ErasePage,
                CopyPage, NextPage
  <2>2. UNCHANGED Target
    BY <2>1 DEF IInv, CopyHasSource, Pending, Target, Updating
  <2>3. QED
    BY <2>1, <2>2, TargetKept DEF Running
<1>4. CASE StampErase \/ RecErase
  <2>1. UNCHANGED fbl /\ ~Updating' /\ (Updating => fbl = record.crc)
    BY <1>4 DEF IInv, RunsWhole, StampErase, RecErase, Blank, Updating
  <2>2. UNCHANGED Target
    BY <2>1 DEF Target
  <2>3. QED
    BY <1>4, <2>1, <2>2, TargetKept DEF Running, StampErase, RecErase
<1>5. CASE StampWrite
  <2>1. ~Updating /\ ~Updating'
    BY <1>5 DEF IInv, TypeOK, Records, LastPage, RecordingSound, StampWrite,
                ProgramWord, Updating
  <2>2. UNCHANGED Target /\ UNCHANGED Running
    BY <1>5, <2>1 DEF Target, Running, StampWrite, AfterStamp
  <2>3. QED
    BY <2>2, TargetKept
<1>6. CASE Wipe \/ WipeFault
  BY <1>6, TargetKept DEF Target, Updating, Running, Wipe, WipeFault, NextPage
<1>7. CASE RecWrite
  <2>1. /\ ~Updating /\ UNCHANGED <<fbl, slotB>>
        /\ Running = fbl[1] /\ Target = fbl
        /\ page \in 1..3
    BY <1>7 DEF IInv, TypeOK, LastPage, RecordingSound, RecWrite, Updating, Target, Running
  <2>2. CASE page < 3
    <3>1. ~Updating' /\ pc' = "rec_write"
      BY <1>7, <2>2 DEF IInv, TypeOK, Records, RecordingSound, RecWrite, ProgramWord, Updating
    <3>2. QED
      BY <2>1, <3>1, <1>7, TargetKept DEF Target, Running, RecWrite
  <2>3. CASE page = 3
    <3>1. Target' = slotB /\ Running' = NoImage
      BY <1>7, <2>3 DEF IInv, TypeOK, Records, RecordingSound, RecWrite, ProgramWord,
                        Updating, Target, Running
    <3>2. slotB[1] \in Images /\ Ver[slotB[1]] >= Ver[fbl[1]]
      BY <1>7, FirstPage DEF IInv, RecordingSound, RecWrite
    <3>3. Atomic!Commit(slotB[1])
      BY <2>1, <3>1, <3>2 DEF Atomic!Commit, Running
    <3>4. QED
      BY <3>2, <3>3 DEF AtomicOwn
  <2>4. QED
    BY <2>1, <2>2, <2>3
<1>8. CASE PowerCut
  <2>1. UNCHANGED Target
    BY <1>8 DEF IInv, CopyHasSource, Pending, PowerCut, Target, Updating, flash
  <2>2. QED
    BY <1>8, <2>1, TargetKept DEF PowerCut, Running
<1>9. CASE RecFault
  BY <1>9 DEF FaultsTolerated, RecFault
<1>10. ASSUME NEW i \in Images, Reflash(i)
       PROVE  AtomicOwn \/ (Reflash(i) /\ Atomic!Reflash(i))
  <2>1. Running' = NoImage
    BY <1>10 DEF Reflash, Running
  <2>2. CASE Updating
    BY <1>10, <2>1, <2>2, TargetKept DEF Reflash, Target, Updating
  <2>3. CASE ~Updating
    <3>1. Target'[1] = i
      BY <1>10, <2>3, Programmed, CompleteFirst DEF Reflash, Target, Updating
    <3>2. Atomic!Reflash(i)
      BY <1>10, <2>1, <3>1 DEF Atomic!Reflash, Reflash, Running
    <3>3. QED
      BY <1>10, <3>2
  <2>4. QED
    BY <2>2, <2>3
<1>11. CASE UNCHANGED vars
  BY <1>11, TargetKept DEF vars, Target, Updating, Running
<1>12. QED
  BY <1>1, <1>2, <1>3, <1>4, <1>5, <1>6, <1>7, <1>8, <1>9, <1>10, <1>11
     DEF Next, Device, Fault

(* The recoverable, many-step self-update is an implementation of the      *)
(* indivisible one.                                                        *)
THEOREM Refinement == FaultsTolerated /\ Spec => ImplementsAtomicUpdate
<1> SUFFICES ASSUME FaultsTolerated PROVE Spec => Atomic!Spec
  BY DEF ImplementsAtomicUpdate
<1>1. IInv /\ IInv' /\ [Next]_vars => [Atomic!Next]_(Atomic!vars)
  BY AtomicStep DEF AtomicOwn, Atomic!Next
<1>2. Spec => []IInv
  BY Invariance
<1>3. QED
  BY AtomicInit, <1>1, <1>2, PTL DEF Spec, Atomic!Spec

(* Whatever the power does, the FBL the board boots next never gets older. *)
THEOREM VersionNeverDrops == FaultsTolerated /\ Spec => NoRollback
<1> SUFFICES ASSUME FaultsTolerated PROVE Spec => NoRollback
  OBVIOUS
<1>1. ASSUME IInv, IInv', [Next]_vars
      PROVE  [Ver[Target'[1]] >= Ver[Target[1]] \/ \E i \in Images : Reflash(i)]_vars
  <2>1. Ver[Target[1]] \in Nat
    BY <1>1, TargetImage, FblAssumption
  <2>2. CASE AtomicOwn
    BY <2>1, <2>2 DEF AtomicOwn, Atomic!Boot, Atomic!PowerCut, Atomic!Commit, Atomic!vars
  <2>3. CASE \E i \in Images : Reflash(i)
    BY <2>3
  <2>4. QED
    BY <1>1, <2>2, <2>3, AtomicStep
<1>2. Spec => []IInv
  BY Invariance
<1>3. QED
  BY <1>1, <1>2, PTL DEF Spec, NoRollback
=============================================================================
