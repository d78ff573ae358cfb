---------------------------- MODULE AtomicUpdate ----------------------------
(***************************************************************************)
(* What the flash bootloader's self-update promises to the rest of the     *)
(* system: the device has exactly one bootloader image at any time, an     *)
(* accepted update replaces it in one indivisible step by an image that is *)
(* not older, and whatever runs is that image.  Power cuts only stop it.   *)
(***************************************************************************)
EXTENDS Integers

CONSTANTS
  Images,      \* signed FBL images
  Ver,         \* fw_version of an image
  SwdReflash,  \* TRUE when a programmer may rewrite the FBL over SWD
  NoImage      \* nothing is running

VARIABLES
  image,       \* the image the device boots next
  running      \* the image executing now, or NoImage

vars == <<image, running>>

Init == image \in Images /\ running = NoImage

Boot == running = NoImage /\ running' = image /\ UNCHANGED image

Commit(i) ==
  /\ running = image
  /\ Ver[i] >= Ver[image]
  /\ image' = i
  /\ running' = NoImage

PowerCut == running' = NoImage /\ UNCHANGED image

Reflash(i) == SwdReflash /\ image' = i /\ running' = NoImage

Next == Boot \/ PowerCut \/ \E i \in Images : Commit(i) \/ Reflash(i)

Spec == Init /\ [][Next]_vars
=============================================================================
