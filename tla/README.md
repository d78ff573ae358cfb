# Formal model of the three-tier STM32 secure bootloader

TLA+ modules, TLC model-checking runs and TLAPS proofs for the bootloader in
this repository: Boot Manager (`BootManager/`), flash bootloader and
second-stage bootloader (`STM32F103RBT6_Secure_Bootloader/`), application
(`STM32F103RBT6_Application/`), and what surrounds them.  File names below are
relative to the repository; *FBL* is the flash bootloader, *BM* the Boot
Manager, *SBL* the RAM-resident second-stage bootloader.

- [1. The system](#1-the-system) - components, state, interactions, what is hard
- [2. The modules](#2-the-modules) - how state and actions correspond to the code
- [3. The runs](#3-the-runs) - what TLC checks, with which bounds, and what that shows
- [4. The proofs](#4-the-proofs)
- [5. Where code and comments part](#5-where-code-and-comments-part)
- [6. Not modelled](#6-not-modelled)
- [7. Plan](#7-plan)

To repeat a run: `tlc -workers 2 -config FblUpdate_cuts.cfg MCFblUpdate`; a
proof: `tlapm FblUpdate_proofs.tla`.  The proofs about a module `X` are in
`X_proofs`.  `PROJECT.json` lists every run with its
properties, the source lines behind every definition, the hazards, and for each
property one mutant: the code with a plausible mistake, which makes the
property fail.  Mutants sit in the modules next to the definition they alter and
are named after it (`ProgramWord_CrcLast` is a mutant of `ProgramWord`).

## 1. The system

### 1.1 Components

| Component | Code | State it keeps | Operations |
|---|---|---|---|
| Boot Manager | `BootManager/Core/Src/main.c` | none of its own; reads the FBL region, Slot B and the update record | decide whether the FBL can be trusted, redo an interrupted update, jump or blink |
| FBL self-update | `bootloader.c` `BL_Handle_UpdateFbl`, `FBL_EnsureBmState` | update record (`bm_state_t`: magic, crc, state) | record an update, stamp VALID at boot, wipe Slot B after an update |
| SBL | `sbl.c` | FBL region | erase the region, copy Slot B into it, reset |
| FBL installer | `bootloader.c` `BL_InstallApp`, `Meta_*` | Slot A, two metadata pages (size, crc, version, sequence number, check word) | authenticate Slot B, promote it to Slot A, write the record into the page that is not current |
| Boot decision and trial | `FBL main.c`, `BootTrial_*` | trial page: active, confirmed, attempts | start the application, count attempts, stop after `BOOT_TRIAL_MAX` |
| Application | `Application/Core/Src/main.c` | watchdog; the confirmed half-word of the trial page | confirm, or be reset |
| SecurityAccess policy | `bl_secaccess.c` | two deadlines on the millisecond tick, wrong keys in a row | gate 0x27, note a wrong or a right key |
| UDS server | `bootloader.c` `uds_dispatch`, `UDS_Handle`, `uds_s3_poll`; `bl_udspolicy.c` | session, owning link, unlock, seed, download address/remaining/counter, end of the readable range, S3 stamp | sessions, 0x27, download to Slot B, read-back, install routine, S3 |
| Raw commands and link loop | `bootloader.c` `BL_ProcessFrame`, `BL_Run` | Slot B; pending-action flags | ERASE, WRITE, VERIFY, GO, UPDATE_FBL, LOCK_BM, LOCK_RDP over five links |
| Flash driver | `flash.c`, `flash_if.c` | none | erase a page, program half-words in address order, read back |
| Option-byte locks | `BL_Handle_LockBm`, `BL_Handle_LockRdp` | option bytes | erase the block, write it back with retries |
| CAN ring, ISO-TP | `can_bl.c` | ring indices and slots; a message being reassembled | interrupt appends, loop takes; segmentation with flow control |
| SPI, I2C slaves | `bootloader.c` | framing of one message | take a frame, hand back a reply |
| Blue Pill bridge | `BluePill_Bridge/Core/Src/main.c` | one command in flight | USB to CAN/SPI/I2C and back |
| ESP32 gateway | `ESP32_OTA_Gateway/src/main.cpp` | the sink that spoke last | WiFi/BLE/USB to UART and back |
| Host tools | `host/*.py` | sequence of a flash session | retries, download, unlock, sign |

### 1.2 How they interact

The programs of the three tiers never run at the same time.  They communicate
through flash, across resets: the FBL leaves a record and an image, the SBL or
the BM acts on them, the next FBL stamps the record.  The application leaves a
half-word in the trial page for the next FBL.  Concurrency is of three kinds:
power may go at any instant; several testers on several links share one server
and one Slot B; an interrupt fills the CAN ring while the loop empties it.

### 1.3 What is hard

- A cut between any two flash operations, or inside one.  The update takes
  four programs and some 90 page operations; so does undoing the damage.
- Records of several words whose order of programming decides what a cut leaves.
- Results of flash operations that nobody looks at (SBL, record writes, trial).
- Counters and deadlines: the 8-bit block counter, the 32-bit tick, the metadata
  sequence number, the boot attempts.
- Server state that outlives the session it belongs to: seed, unlock, download,
  read-back window.
- Option bytes can only be erased together: for a while every protection is gone.
- Three programs with three timeouts and one retry between a command and its reply,
  over lines that lose things and with receivers that look at no identifier.
- A timeout (S3) that is polled by a loop which may be busy for seconds.

### 1.4 What makes each component correct

| Component | Property | Definition |
|---|---|---|
| Self-update | at every instant a power cut leaves something the BM can start or repair | `Survivable` |
| | FBL code runs only from a whole image, although the BM tolerates a region it cannot verify | `NeverWild` |
| | however often it fails and restarts, the FBL never gets older | `NoRollback` |
| | update and recovery together are one indivisible replacement | `ImplementsAtomicUpdate` |
| | with power on, the board ends up serving commands, from the recorded image; after a recovery that failed, once it was switched off and on | `EventuallyServes`, `UpdateCompletes` |
| Installer | no cut, fault or reinstall lowers the rollback floor | `FloorNeverDrops` |
| | a refused image costs nothing | `OnlyForABetterOne` |
| | after the record is complete the new application is what boots | `InstalledIsCurrent` |
| Boot decision | only a whole, correctly decrypted, recorded image is started | `StartedIsInstalled` |
| | a hanging application gets `BOOT_TRIAL_MAX` chances and then the FBL serves | `TrialBound`, `HungAppIsDropped` |
| Policy | wrapped deadlines behave like countdowns | `ImplementsPolicy` |
| UDS server | an unlock answers a seed sent to this link, in this session, unused | `UnlockAnswersOwnSeed` |
| | download and unlock do not outlive their session | `DownloadNeedsUnlock` |
| | an acknowledged block of the announced size is in its place, whatever was lost or repeated | `AckedIsStaged` |
| | ReadMemory returns only what this session wrote | `ReadBackIsFresh` |
| | a tester that goes quiet gives the board back | `QuietOwnerLetsGo` |
| Option-byte locks | an acknowledged lock has lost no protection the chip had | `LaunchedIsComplete` |
| | the Boot Manager's protection is missing only until its byte is written back | `ExposedOnlyBriefly` |
| | a command repeated after a failure repairs what that left | `RepeatHeals` |
| CAN ring | without a lock it is a bounded queue of whole frames | `ImplementsQueue` |
| CAN path | what the host was told is on the board | `AckedIsOnBoard` |
| | nobody waits for good; when the lines calm down a session succeeds | `CalmInstalls` |

## 2. The modules

```
AtomicUpdate  <-- refined by --  FblUpdate   --> FblUpdate_proofs
                                 AppInstall   --> AppInstall_proofs
SecPolicy     <-- refined by --  SecAccess   --> SecAccess_proofs
    ^-------- extended by  ---   UdsServer   --> UdsServer_proofs
FrameQueue    <-- refined by --  CanRing     --> CanRing_proofs
    ^-------- used by      ---   CanPath     --> CanPath_proofs
                                 OptionLock   --> OptionLock_proofs
Modular: lemmas about remainders, used by the proofs of SecAccess, UdsServer, CanRing
MCFblUpdate, MCAppInstall: the small instances TLC checks
```

Conventions.  A flash region is a function from pages to contents; a content is
the image it belongs to, a junk value, or erased.  A CRC over a region stands
for the content itself, so there are no collisions; an image that is whole in
its slot, has a genuine signature and the right digest is one predicate.  A page
erased or programmed is one step, a record whose word order matters is one step
per word.  `PowerCut` leaves the page being changed at that moment with any
content, clears RAM and starts the Boot Manager.  `FaultAt` names the places
where a flash operation may fail; what the code does about it, mostly nothing,
is the corresponding `...Fault` action.

### 2.1 FblUpdate and AtomicUpdate

`pc` is what the processor executes.

| `pc` | Code |
|---|---|
| `bm` | BM `main`, the decision (`BmBoot`, `BmRecover`, `BmHalt`) |
| `bm_erase`, `bm_copy`, `bm_check` | `bm_recover_fbl` |
| `start`, `stamp_erase`, `stamp_write`, `wipe` | `FBL_EnsureBmState` |
| `run` | `BL_Run` serving ERASE and WRITE (`HostErase`, `HostWrite`) and UPDATE_FBL |
| `rec_erase`, `rec_write` | `BL_Handle_UpdateFbl` programming the UPDATING record |
| `sbl_erase`, `sbl_copy` | `sbl_main`, then its reset |
| `halt`, `wild` | the error blink; the CPU started something that is no FBL |

`page` is the loop counter of whichever loop runs.  `residue` is history: Slot B
holds an FBL that has done its job.  `AtomicUpdate` has an image and what runs;
an accepted update changes the image in one step.  The refinement maps the image
to `Target[1]`: what the record commits to while it says UPDATING, otherwise what
the region holds.  The commit point is thus the last word of the record, and
everything the SBL and the BM do afterwards is stuttering.

A torn record is the old one or a blank one: its magic is programmed first after
an erase, and a record whose erase was cut is assumed to have lost its magic.
The repository's README describes torn pages in the same way.  `Reflash` is an
ST-Link rewriting the FBL region; the comment in `FBL_EnsureBmState` names it as
the reason for restamping.

No program leaves the blink of `halt`; only the power does (`SwitchedBackOn`).  The
BM gets there with a region it cannot trust and no update to redo, and also when
the HAL reports an error during the recovery, or a page it copied does not read back
(`BmFault`, `BmCheck`).

### 2.2 AppInstall

`boot`/`attempt` is the FBL from its start to the jump, `loop` is `BL_Run`, `app`
the application, the `ins_*`, `meta_*` and `trial_*` states are `BL_InstallApp` and
`BootTrial_Begin`.  `meta` is the pair of metadata pages with all their fields but
the magic; `check` is TRUE once the check word, programmed last, is there.
`staged` stands for Slot B: whole image or not.  `Encrypted` images are accepted
only when they decrypt to what the header says (`GoodKey`).  `Healthy` images reach
`App_ConfirmBoot`; the others are reset by `Watchdog`.  `proving` and `launches` are
history variables that count the starts of an unconfirmed application.

### 2.3 SecPolicy and SecAccess

`SecAccess` has the three fields of `bl_sec_t` that matter, on a tick that wraps at
`Wrap`, and `pending()` as the sign of a wrapped difference.  `SecPolicy` is what the
header promises, with countdowns.  `UdsServer` extends `SecPolicy`, since the run
`sec_policy` shows that the code implements it.

### 2.4 UdsServer

One action per UDS service that changes state; `Harmless` is every request that
does not, those the gate refuses included.  `Service` and `BL_UdsGate` are the
service table; `EndSession` is what `DiagnosticSessionControl` and `uds_s3_poll`
reset.  `pc` is where `BL_Run` stands: about to poll S3, about to serve, or busy
with a verify that came raw or over UDS.  `queued` says that the owner's next
request is in the CAN ring.  The tester is modelled after `udsflash` in
`host/bl_host.py`: `tx` is the number of blocks it had acknowledged; it sends the
next one, and the same again when no reply came.  There it does more than `udsflash`,
which gives up: the repeated block is what the server re-acknowledges a block for
(`bootloader.c:970`), so the model lets testers use it.  `fresh` and `mine` are
history.

Blocks are numbered, none is empty, and a place of Slot B holds the number of the
block written there; `slotB` also takes raw ERASE and WRITE from other links.  A tester
may go on past the size it announced (up to `LastBlock`): such a block is cut to
nothing, counted and acknowledged (`Store`), so `AckedIsStaged` speaks of the blocks
announced.

### 2.5 OptionLock

`block` is the option-byte block in flash, `loaded` what the chip obeys: the
registers the last reset loaded from it.  `pc`, `byte` and `tries` are where a
command stands.

| `pc` | Code |
|---|---|
| `bm_erase`, `bm_erase_again`, `bm_rdp`, `bm_wrp` | LOCK_BM inside `HAL_FLASHEx_OBProgram`: `HAL_FLASHEx_OBErase` and `FLASH_OB_RDP_LevelConfig` erase one after the other, RDP is rewritten, then the write-protection bytes that protect something |
| `rdp_erase`, `rdp_wrp`, `rdp_user`, `rdp_rdp`, `rdp_answer` | LOCK_RDP: one erase, WRP0 to WRP3 with three tries each, USER and RDP with two, the reply |
| `bm_launch`, `rdp_launch` | 1 was answered, `HAL_FLASH_OB_Launch` comes next |

The write-protection bits are two kinds of pages: the Boot Manager's (all in WRP0)
and others.  A byte is erased, torn, or holds a value; a blank RDP byte loads as
protected, a blank WRP byte as unprotected.  An erase may report an error with or
without having erased, a program may fail and leave the byte erased or spoiled.
`faults` counts what one command has met, up to 3, the number of failures that
three tries do not survive; `warned` says that a command answered 0.

### 2.6 FrameQueue and CanRing

`CanRing` is `can_bl.c` at the granularity that matters to a reader without a lock:
the interrupt's loop body is one step (nothing interrupts it), `CAN_BL_Read` is
four - look, copy the identifier, copy the data, release.  Frames have two halves,
so a torn one can be told; indices count modulo `Wrap`.  `FrameQueue` is what the
reader is promised: the peripheral's FIFO, a queue of `Capacity`, one `Take`.  The
refinement maps the queue to the slots between `tail` and `head`.  `CanPath` uses
`FrameQueue` for the FBL's side, so what it shows holds with the ring in its place.

### 2.7 CanPath

A session of `flash` in `host/bl_host.py` through the bridge over CAN.

| Part | State | Actions |
|---|---|---|
| host: `flash`, `transact_retry` | `next`, `tries`, `host` | `HostStart`, `HostSend`, `HostReply`, `HostTimeout` |
| bridge: main loop, `forward_can` | `bridge`, `cmd`, `sent`, `fifo` | `BridgeTake`, `BridgeFlow`, `BridgeOverflow`, `BridgeStream`, `BridgeReply`, `BridgeTimeout` |
| FBL: `BL_Run`, `CANTP_Recv` | `fbl`, `parts`, `inbox`, `queue` | `Interrupt`, `FblFirst`, `FblFault`, `FblNext`, `FblTimeout`, `BL_ProcessFrame` |
| Slot B | `written`, `installed` | in `BL_ProcessFrame` |
| lines | `serialCmd`, `serialReply` | `LoseFrame`, `LoseSerial`, `OtherNode`, `FblReset` |

A command is `Parts` frames.  As in the code, the FBL appends whatever is a
consecutive frame without looking at its number and relies on the CRC over the
whole; the bridge takes any flow control for one of its own (block size 0 lets it
send the rest at once) and the first single frame for the reply.  WRITE refuses a
place that is programmed, so a command that is sent again may be answered 0, and
the host then gives the session up.

Frames of other nodes reach both receivers (`Foreign`).  A single frame is the delicate
one.  The bridge hands it to the host as the reply, and what the host reads in it is
`ForeignReplies`: a success, a refusal, or a NACK.  To the FBL it is a message that
fails its CRC; if it is shorter than a CRC, `total - 4` wraps (`bootloader.c:1071`),
the CRC runs past the end of the RAM and the FBL hangs in `HardFault_Handler`
(`FblFault`, `fbl` = "hung"; `ToFbl` loses what is sent to it) until a reset.
`FblReset` brings the board back to the loop of the FBL with Slot B as it was.

Timeouts are transitions that may come at any time, except two that are long by
design: the bridge waits 12 s for a reply and the host 20 s, both longer than the
FBL is ever busy, so they fire only when nothing is on its way (`FblQuiet`).  The
bridge's wait for flow control is a spin of about a second and may end while the
FBL is still erasing.

## 3. The runs

| Run | Checks | Result |
|---|---|---|
| `fbl_cuts` | `TypeOK`, `Survivable`, `NeverWild`, `NoRollback`, `ImplementsAtomicUpdate` | hold |
| `fbl_live` | `EventuallyServes`, `UpdateCompletes` | hold |
| `fbl_record_fault` | `RecordedBeforeSbl` | violated, see 5 |
| `fbl_wipe_cut` | `WipedAfterUpdate` | violated, see 5 |
| `app_cuts` | `TypeOK`, `StartedIsInstalled`, `InstalledIsCurrent`, `TrialBound`, `FloorNeverDrops`, `OnlyForABetterOne`, `HungAppIsDropped` | hold |
| `app_trial_cut` | `EveryInstallOnTrial` | violated, see 5 |
| `sec_policy` | `TypeOK`, `ImplementsPolicy` | hold |
| `uds_sessions` | `TypeOK`, `DownloadNeedsUnlock`, `AckedIsStaged`, `ReadBackIsFresh`, `UnlockAnswersOwnSeed`, `QuietOwnerLetsGo` | hold |
| `uds_late` | `OnlyQuietTestersDropped` | violated, see 5 |
| `lock_cuts` | `TypeOK`, `LaunchedIsComplete`, `ExposedOnlyBriefly`, `RepeatHeals` | hold |
| `can_ring` | `TypeOK`, `ImplementsQueue` | hold |
| `can_path` | `TypeOK`, `AckedIsOnBoard`, `CalmInstalls` | hold |

### 3.1 Bounds

- `fbl_cuts`: 3 pages, 3 images (the factory one; a newer one as long as the
  region; a newer one of one page, so that padding exists), junk with and without
  a plausible stack pointer.  Three pages are a first, a last and one in between:
  every position of a cut relative to the vector table and to the end of the
  payload.  Cuts, updates and reflashes are not bounded.  Faults are those of the
  SBL, the recovery and the wipe; a failed record write defeats the design and has
  the run `fbl_record_fault`; a failed stamp is in `fbl_live`.
- `fbl_live`: 2 pages, since the liveness check is the expensive part; faults at
  all five sites, the recovery's included.
- `app_cuts`: an old and a newer healthy application, one that hangs, one encrypted
  for another board; the current version can be reinstalled.  Sequence numbers up
  to 3 (`MaxSeq`, the only bound on a counter) write both metadata pages and one of
  them twice.  `BOOT_TRIAL_MAX` has its real value 3.
- `sec_policy`: a tick of 16 values, started anywhere, delays below half of it,
  uptime up to half of it (`MaxUptime`): this is the precondition under which the
  signed difference works.  With
  `MaxUptime` = 12 the refinement fails, see 5.
- `uds_sessions`: 2 links, Slot B of 2 blocks, a block counter of 2 values (the
  hardest wrap: a repeat and the block after next have the same number as soon as
  there are three), S3 of one tick, one wrong key before the lockout.  Testers send
  up to one block more than fits (`LastBlock`), and two more than the smallest
  download announces.  No other counter is cut off: `idle` stops where it makes no
  difference.
- `lock_cuts`: the four write-protection bytes the chip has (`LastByte` = 3), every
  combination of option bytes to start from; commands, faults and cuts unbounded.
- `can_ring`: a ring of 4 slots and indices modulo 8, so that both the ring and the
  indices wrap and the ring is full in between; the peripheral's FIFO has its real
  depth 3; two different frames suffice to tell order, loss and halves.
- `can_path`: 3 blocks, 4 frames per command, the real 5 tries and FIFO depth, a ring
  of 4 (it never fills: flow control lets one frame through at a time).  Losses,
  resets, timeouts and sessions are unbounded.  `MaxForeign` = 1 and `ForeignReplies` =
  {0, 2}: one frame of another node at any moment, a first frame, consecutive frame, flow
  control, overflow, something else, or a single frame that reads as anything but a
  success.  Both limits are also the limits of what holds, see 5.  Of foreign frames that
  are longer or more unusual nothing is said: a single frame is no longer than a reply, a
  first frame announces as many frames as a command has, flow control has block size 0
  and asks for no pause.

### 3.2 Fairness

`FblUpdate`: weak fairness of `Device`, what the processor does on its own: a powered
CPU executes the next instruction.  Host commands, cuts and faults are not fair.
Both liveness properties are conditional on the disturbances ending (`Undisturbed`):
from some point on every step is the device's or a command, except that a board which
blinks is switched off and on again (`SwitchedBackOn`).  That exception is needed: an
error during the recovery sends the BM to the blink (`main.c:115-126`, `:203`) with
everything in flash that the next recovery needs, and no program leaves it.
`EventuallyServes` is conditional also on the flash staying survivable, which is what
`fbl_cuts` and the proof show for the faults the design tolerates.  What the
properties then say is that every cut and every fault before that point, in the update
or in the recovery, is repaired.

`AppInstall`: weak fairness of boot, install and watchdog steps.  An application that
hangs stops refreshing the IWDG, which nothing can stop once started.

`UdsServer`: weak fairness of the loop (it goes round, and takes a request that
waits) and of the tick.  Testers are never fair: `QuietOwnerLetsGo` is about one
that stops.

`CanPath`: weak fairness of the host's, the bridge's and the FBL's steps: each is a
loop that runs, and the operator starts a new session when one was given up.
Nothing is assumed of the lines; `CalmInstalls` is conditional on the trouble
ending, on waits that end only when there is nothing to wait for (`Calm`), and on
somebody resetting a board that hangs (`[]<>(fbl # "hung")`): nothing in the FBL ends
`HardFault_Handler`.

### 3.3 Deadlock

Checked in every run; the error blink of the BM is not a deadlock because the
power can be cycled.

## 4. The proofs

### 4.1 FblUpdate

`FblUpdate_proofs` proves, for every set of images with any versions and sizes, any
number of pages and any junk:

| Theorem | Statement |
|---|---|
| `TypeCorrect` | `Spec => []TypeOK` |
| `Invariance` | `FaultsTolerated /\ Spec => []IInv` |
| `AlwaysSurvivable` | `FaultsTolerated /\ Spec => []Survivable` |
| `NeverRunsWild` | `FaultsTolerated /\ Spec => []NeverWild` |
| `Refinement` | `FaultsTolerated /\ Spec => ImplementsAtomicUpdate` |
| `VersionNeverDrops` | `FaultsTolerated /\ Spec => NoRollback` |

Assumptions: `FblAssumption` (types of the constants; the contents of images, junk
and erased pages differ), and `FaultsTolerated`: the record writes whose results
`BL_Handle_UpdateFbl` drops succeed, and a stamp that fails is not followed by a
reflash over SWD under the stale record.  Both restrictions are needed:
`fbl_record_fault` shows the first.  Power cuts are not restricted.

`Survivable` is not inductive.  A state in which the region is whole and nothing
is pending satisfies it even if a copy loop is about to run with nothing in Slot B.
`IInv` adds what the program counters know:

- `RecordSound`: without a pending update the region is whole; with one, Slot B is
  what the record names, or the copy is already done.
- `RunsWhole`: FBL code runs in a whole region, the recorded one if the record
  still says UPDATING.
- `CopyHasSource`: whoever erases or copies the region has its source in Slot B.
- `RecordingSound`: while a record is being programmed its state word is still
  blank, and before it is written the crc word is that of the image in Slot B.
  This is where the order of the words matters; the mutant that programs crc last
  breaks exactly this.
- `ReflashSafe`: no record outlives the point where a reflash would contradict it.

`TypeStep` and `InvStep` have one step per group of actions and under it one per
conjunct.  `AtomicStep` shows that every step of `FblUpdate` is a step of
`AtomicUpdate` or leaves it unchanged; `NoRollback` follows from the refinement
since each abstract step keeps or raises the version, except a reflash.

### 4.2 AppInstall

`AppInstall_proofs` proves, for every set of images with any versions, sizes and
keys, any Slot A, any `BOOT_TRIAL_MAX`, and flash faults at every site:

| Theorem | Statement |
|---|---|
| `TypeCorrect` | `Spec => []TypeOK` |
| `Invariance` | `Spec => []IInv` |
| `OnlyInstalledStarts` | `Spec => []StartedIsInstalled` |
| `InstallTakesEffect` | if no image has the version `TopVer`: `Spec => []InstalledIsCurrent` |
| `TrialIsBounded` | `Spec => []TrialBound` |
| `FloorIsMonotonic` | `Spec => FloorNeverDrops` |
| `OldAppIsKept` | `Spec => OnlyForABetterOne` |

The only assumption is `AppAssumption` (types of the constants; the bound `MaxSeq` is
any number).  `InstallTakesEffect` needs its premise, see the last item of section 6.

`StartedIsInstalled` speaks of the moment of a start and says nothing of the state
before it, so `IInv` adds what makes a start safe:

- `RecordSound`: a page with a check word describes a whole image this board can run.
- `InstallSound`: the checks made before the first erase still hold, and the page
  that is about to be rewritten is not the current one.  It is inductive because no
  step in between touches the current page (`TargetPageIsFree`).
- `CopySound`: the pages of Slot A that the copy has passed hold the image.
- `CheckSound`: the record that lacks only its check word is the right one, with the
  next sequence number; the check word then makes it the current one (`NewestWins`).
- `CurrentSound`, `TrialSound`: the record is current while the trial is armed, and
  the trial page counts at least as many attempts as there were starts.

`FloorStep` is by cases on the two steps that write a metadata page and the one that
completes it; only the last changes the floor, to a version that was compared with it.
`OldAppIsKept` goes through what makes an application bootable: the current record and
the pages of Slot A it covers.  A write to the other metadata page leaves both alone
(`AppKept`), so only the erase and the copy of Slot A remain (`BetterStep`), and there
`InstallSound` still knows what the checks before the first erase found.

### 4.3 UdsServer

`UdsServer_proofs`: any set of links, any size of Slot B, any number of values of the
block counter but one, any S3 and policy delays, flash that may fail or not (`Weak`).

| Theorem | Statement |
|---|---|
| `TypeCorrect` | `Spec => []TypeOK` |
| `Invariance` | `Spec => []IInv` |
| `SecureDownload` | `Spec => []DownloadNeedsUnlock` |
| `AckedBlocksAreStaged` | `Spec => []AckedIsStaged` |
| `ReadBackNeverStale` | `Spec => []ReadBackIsFresh` |
| `UnlockNeedsOwnSeed` | `Spec => UnlockAnswersOwnSeed` |

Assumptions: `UdsAssumption` and `PolicyAssumption`.  With a counter of a single value
every block would look like a repeat; the code's has 256.  `AckedIsStaged` says of the
owner's download that each acknowledged block of the announced size is in its place.  To keep that through
one more block, `IInv` adds

- `CounterInStep`: while announced blocks are to come, the counter the server expects
  is the number of the next one, reduced; blocks past the announced size move the
  counter alone.  This is the reason why a repeat is told from the next block whatever the
  width: two successive numbers differ under any modulus but 1.
- `Staged`: no place before the next one has changed since it was written, and while
  announced blocks are to come the owner lags the server by no more than the one reply
  that may be lost.
- `RewrittenAhead`: RequestDownload has erased every place the download can reach, so
  the readable range, which grows block by block, never covers what was there before.
- `SeedKnown`: a seed that may be answered was sent in this session and not used.

Per conjunct there is one lemma for all actions (`DownloadStep`, `CounterStep`,
`StagedStep`, `RewrittenStep`, `SeedStep`); `GateOfDownload` and `ServedToOwner` state
once what the service table and the link check guarantee to a handler.

### 4.4 SecAccess

`SecAccess_proofs`: any width of the tick, any delays below half of it, any number of
tries.

| Theorem | Statement |
|---|---|
| `TypeCorrect` | `Spec => []TypeOK` |
| `PolicyRefinement` | if `MaxUptime <= Wrap \div 2`: `Spec => ImplementsPolicy` |

The premise is part of what the theorem says: `pending()` takes the sign of a wrapped
difference, and after half the range an old deadline reads as ahead again (section 5;
TLC finds it with a larger `MaxUptime`).  `IInv` says how far a deadline can be from
the tick: `bootUntil` was set at power-up and `retryAfter` no earlier, so neither is
more than the uptime behind, and neither is more than a delay ahead.  Within that
distance `LeftOfDeadline` shows that the code computes the ticks that are left, and a
tick takes exactly one of them.

### 4.5 CanRing

`CanRing_proofs`: any ring size, any width of the indices that is a multiple of it and
larger, any depth of the FIFO.

| Theorem | Statement |
|---|---|
| `TypeCorrect` | `Spec => []TypeOK` |
| `QueueRefinement` | `Spec => ImplementsQueue` |

`RingAssumption` is what 32-bit indices over 16 slots satisfy (the comment in the code
says "a power of two"); without the divisibility the slot after the wrap would be the
wrong one (`HeadSlot` is where the proof uses it).  The invariant has to say why two contexts
without a lock do not disturb each other: no slot holds two halves (`SlotsWhole`), and
while the reader is between its reads the oldest slot is still what it is copying
(`ReaderInStep`), because the interrupt writes only a slot that is not waiting and
`tail` moves last.  The queue of the refinement is a sequence built from the slots;
the interrupt's step appends to it and the release of a slot takes its head.

### 4.6 OptionLock

`OptionLock_proofs`: any number of write-protection bytes, any option bytes to start
from, cuts and faults at every step.  The only assumption is that the number is one.

| Theorem | Statement |
|---|---|
| `TypeCorrect` | `Spec => []TypeOK` |
| `Invariance` | `Spec => []IInv` |
| `LaunchComplete` | `Spec => []LaunchedIsComplete` |
| `BriefExposure` | `Spec => []ExposedOnlyBriefly` |
| `Healing` | `Spec => RepeatHeals` |

`LaunchedIsComplete` is about the end of a command, `IInv` about its course:

- `BmProgress`, `RdpProgress`: which bytes are back by the time the command is where it
  is.  For LOCK_RDP only while `ok` holds: a byte given up three times falsifies it.
- `Faultless`: as long as nothing failed, what is still to be written is blank, so its
  programming cannot be refused.  `Healing` rests on it: whatever an earlier command
  left, the erase makes every later write possible.
- `Exposure`: the Boot Manager's protection is missing while WRP0 is not written, or
  after three failures, or when the host was told.

### 4.7 CanPath

`CanPath_proofs`: any number of blocks, any number of frames per command from 2, any
number of tries, any FIFO and ring depth; losses, resets, timeouts and sessions
unbounded.

| Theorem | Statement |
|---|---|
| `TypeCorrect` | `Spec => []TypeOK` |
| `Acknowledged` | if `MaxForeign \in {0, 1}` and `1 \notin ForeignReplies`: `Spec => []AckedIsOnBoard` |

The premises are the limit of what the code achieves, not of the proof: with two foreign
frames, or with one that reads as a success, TLC finds a counterexample (section 5).  A
hang of the FBL is, to the proof, a loss of everything on its side of the line.

`AckedIsOnBoard` relates the host and Slot B, which three programs and two lines keep
apart.  What has to be known is that a reply the bridge hands on answers the command
the host waits for, and the code has no number that would say so.  The argument is
about what can be on the way at all:

- `Control`: who waits for whom.  The bridge has one command, the one the host waits
  for; while it is busy nothing is on the serial line.
- `Frames`, `Receiving`, `OneForeign`: which frames there are; at most one of them,
  anywhere, is foreign.
- `OfSession`: no part of another command is left on the lines, the session's ERASE
  apart, which undoes what earlier sessions wrote.
- `Progress`: while the bridge is busy, the exchange is *fresh* or *stale*.
  - Fresh: all parts on the lines belong to it and are in order (`Sorted`); a reply is
    either before the flow control the bridge still waits for, which then skips it, or
    it is the answer (`Replies`); without a foreign frame there is a single frame on
    its way (`LockStep`).  `Overtaken` and `ForeignReply` bound what the foreign frame
    can have caused: as a flow control or first frame it lets the bridge get ahead
    of the FBL, as a single frame it ends the wait early, never both.
  - Stale: after a NACK that answered something else the host sends again while parts
    of its first copy may still be on the lines.  They bring about no more flow
    control, so this exchange never gets beyond its first frame and ends with a NACK.
  - While the bridge is idle the host waits for nothing but its own timeout, or no
    parts are left, or what is left is stale.
- `Told`: success on the serial line is success on the board.

`IInv` was checked by TLC for 2 to 4 frames per command, FIFO depths 1 to 3 and rings
of 1 to 4 before it was proved.  The proof has per action of the FBL, the bridge, the
host and the lines a lemma that says what it does to the frames on the way
(`...Effect`), one that it keeps an exchange fresh (`...Fresh`), where needed one that
it keeps it stale (`...Stale`), and one that puts them together (`...Step`).  The
lemmas `Seq...` reduce the operations on sequences to which frames are there and
which comes before which; everything above them argues with these two only.

### 4.8 Only model-checked

The liveness properties, `EventuallyServes`, `UpdateCompletes`, `HungAppIsDropped`,
`QuietOwnerLetsGo` and `CalmInstalls`: the prover has no rule for fairness, which is
defined with `ENABLED`.  The runs check them on small instances.  Every invariant, every action
property and every refinement of a passing run is proved; for `Refinement` and the
theorems beside it under the premises of 4.1, for `PolicyRefinement`,
`InstallTakesEffect` and `Acknowledged` under their own.

## 5. Where code and comments part

Each is a run that TLC must find violated; `PROJECT.json` quotes the lines.

- `fbl_record_fault`: UPDATE_FBL runs the SBL even if the UPDATING record could not
  be written.  A cut in the copy then has no record to recover from.
- `fbl_wipe_cut`: a cut between the VALID stamp and the end of the wipe leaves the
  plaintext FBL in Slot B; the flag that asks for the wipe is gone.
- `app_trial_cut`: a cut between the metadata record and the trial mark leaves a
  new application that is never on trial.  If it hangs, the board stays in the
  watchdog loop until somebody holds the button.
- `uds_late`: S3 is polled before the waiting request is taken, so an owner whose
  request came in time is dropped when another link's VERIFY kept the loop busy.

Met while modelling, without a run of their own:

- `bl_secaccess.c:7` says of `pending()` that it "survives the 32-bit tick wrapping".
  It does for 2^31 ms (24.8 days): after that a deadline that nobody renewed reads as
  ahead again, and 0x27 is refused for as long again (`sec_policy` with a larger
  `MaxUptime`).
- `bootloader.c:615` says that LOCK_BM "does NOT read-lock the chip".  A cut between
  the HAL's erase and the rewrite of RDP leaves it blank, and blank means locked.
  LOCK_BM also does not restore the user byte, which the erase clears; LOCK_RDP does.
- `host/bl_host.py:213` calls a plain re-send safe because "nothing is written", and
  `tests/prod_bridge.py:11` says that a miss "means the board never acted on it".
  Neither is so when the reply is what was lost: the repeated WRITE is answered 0 and
  the session is given up.  It is safe all the same, which is `AckedIsOnBoard`.  The
  4 s timeout of `prod_bridge.py` is below the bridge's 12 s, so the premise of 2.7
  about the host's patience does not hold for it.
- A `TransferData` block past the announced size is cut to nothing, counted and answered
  positively (`bootloader.c:975-981`).  Nothing in the repository says otherwise, and the
  blocks announced do not suffer, which is `AckedIsStaged`; a tester that announces less
  than it sends is told that all of it arrived.
- A message of fewer than 4 bytes makes the FBL hang (`bootloader.c:1071`, see 2.7).  The
  session is lost and Slot B is not, which is `AckedIsOnBoard` and `CalmInstalls`.
- One foreign frame breaks `AckedIsOnBoard` if it reads as a success (1 added to
  `ForeignReplies` in the cfg of `can_path`).  The bridge takes the first single frame on
  the bus for "the FBL's reply" (`main.c:519`), `transact` takes `CD ..` for success, and
  a reply has no CRC, so a frame `03 CD 01 01` of another node while the bridge waits
  acknowledges a command that was not executed: in TLC's counterexample the session's
  ERASE, so that a block of an earlier session stays in Slot B.  The board installs only
  what its own VERIFY accepts; it is the host that is told something else.
- Two foreign frames, neither of them a success, break `AckedIsOnBoard` (`MaxForeign` = 2):
  a single frame taken for a reply makes the host send again while the first copy is
  still being executed, a flow control or first frame then lets the next command
  through one step early, and from there every reply belongs to the command before.
  Either side checking the identifier (`can_bl.c:361`, bridge `main.c:106` and `163`)
  would prevent it, and the bridge the one before.

## 6. Not modelled

- Cryptography: signatures, the cipher, the seed's unpredictability.  The models use
  the contract only.
- Registers, timing in microseconds, the 26 s watchdog stretch: a reset at any time
  is covered as a power cut.
- SPI and I2C on both sides: the exchange of 2.7 without flow control, paced by a
  line (DATA_READY) whose meaning is its timing.  The bridge's raw passthrough and its
  built-in client, and the FBL as sender of long messages.
- Single-frame commands (GO, GET_VERSION): the host does not send them again, and they
  have no flow control that would keep a late reply apart from the next one.
- The ESP32 gateway: with one host it is a line; two hosts at once share one reply path.
- The fixed order in which `BL_Run` polls its links: `UdsServer` takes any of them.
- The alternative build with iso14229 and isotp-c (`bl_uds.c`, `bl_isotp.c`).
- Vendored and generated code (`Drivers/`, `ThirdParty/`, CubeMX files).  It is nearly all
  of the repository: of 363 000 lines in C, the project's own programs are some 6 000,
  the rest are four copies of the ST HAL and CMSIS headers, iso14229, isotp-c and
  TweetNaCl.  Of the HAL only what LOCK_BM runs through is modelled, since it decides
  in which order the option bytes change.
- A record that keeps its magic but has a damaged crc word: below the granularity
  of the model, see 2.1.
- Versions and sequence numbers equal to 0xFFFFFFFF: `Meta_IsValid` treats them as
  the model does (`TopVer`), but the run has no such image.  With one,
  `InstalledIsCurrent` fails: the install reports success and nothing boots.

## 7. Plan

1. Done: `FblUpdate` with `AtomicUpdate` and its proofs; `AppInstall` with its proofs;
   `SecAccess` with `SecPolicy`; `UdsServer`; `OptionLock`; `CanRing` with `FrameQueue`;
   `CanPath`.
2. Done: proofs of every invariant, action property and refinement of these modules.
3. `SpiPath`: the bridge's SPI exchange with DATA_READY.
4. A composition of `FblUpdate`, `AppInstall` and `UdsServer` over one Slot B.
5. What the liveness properties rest on, as invariants that can be proved: every state
   from which the device can still get somewhere has an enabled device action.
6. If room is left, the `bl_uds.c` server.
