------------------------------ MODULE SecPolicy ------------------------------
(***************************************************************************)
(* What the brute-force policy of SecurityAccess promises, in the words of *)
(* its header: no 0x27 for a while after power-up; after a wrong key a     *)
(* wait before the next try; from the MaxFails-th wrong key in a row a     *)
(* longer one.  The waits are plain countdowns here: once one is over, it  *)
(* is over until something starts another.                                 *)
(***************************************************************************)
EXTENDS Naturals

CONSTANTS
  BootDelay,   \* BL_SEC_BOOT_DELAY_MS, in ticks of the model
  FailDelay,   \* BL_SEC_FAIL_DELAY_MS
  Lockout,     \* BL_SEC_LOCKOUT_MS
  MaxFails     \* BL_SEC_MAX_FAILS, also where the model stops counting

ASSUME PolicyAssumption ==
  /\ BootDelay \in Nat /\ FailDelay \in Nat /\ Lockout \in Nat
  /\ MaxFails \in Nat \ {0}

VARIABLES
  bootLeft,    \* ticks until 0x27 is served at all
  retryLeft,   \* ticks until the next key may be tried
  fails        \* wrong keys in a row

policy == <<bootLeft, retryLeft, fails>>

PolicyTypeOK ==
  /\ bootLeft \in 0..BootDelay
  /\ retryLeft \in Nat
  /\ fails \in 0..MaxFails

PowerUpValues(b, r, f) == b = BootDelay /\ r = 0 /\ f = 0

PolicyInit == PowerUpValues(bootLeft, retryLeft, fails)
PowerUp == PowerUpValues(bootLeft', retryLeft', fails')

GateOpen == bootLeft = 0 /\ retryLeft = 0

Less(n) == IF n = 0 THEN 0 ELSE n - 1

Elapse == bootLeft' = Less(bootLeft) /\ retryLeft' = Less(retryLeft) /\ UNCHANGED fails

OneMore == IF fails < MaxFails THEN fails + 1 ELSE fails

(* The wait that follows the n-th wrong key in a row. *)
DelayAfter(n) == IF n >= MaxFails THEN Lockout ELSE FailDelay

NoteFail ==
  /\ fails' = OneMore
  /\ retryLeft' = DelayAfter(OneMore)
  /\ UNCHANGED bootLeft

NoteSuccess == fails' = 0 /\ UNCHANGED <<bootLeft, retryLeft>>

PolicyNext ==
  \/ Elapse
  \/ PowerUp
  \/ GateOpen /\ NoteFail
  \/ GateOpen /\ NoteSuccess

PolicySpec == PolicyInit /\ [][PolicyNext]_policy
=============================================================================
