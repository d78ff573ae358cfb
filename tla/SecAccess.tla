------------------------------ MODULE SecAccess ------------------------------
(***************************************************************************)
(* The policy as bl_secaccess.c implements it: deadlines on the wrapping   *)
(* 32-bit millisecond tick, compared by the sign of their difference.      *)
(* Wrap stands for 2^32.  The requests are those uds_dispatch makes of it. *)
(***************************************************************************)
EXTENDS Integers

CONSTANTS
  Wrap,        \* 2^32, the ticks HAL_GetTick counts before it starts over
  BootDelay, FailDelay, Lockout, MaxFails,
  MaxUptime    \* bound of the model: ticks from one power-up to the next

ASSUME SecAssumption ==
  /\ Wrap \in Nat \ {0} /\ Wrap % 2 = 0
  /\ \A d \in {BootDelay, FailDelay, Lockout} : d \in Nat /\ d < Wrap \div 2
  /\ MaxFails \in Nat \ {0}
  /\ MaxUptime \in Nat

VARIABLES
  now,         \* HAL_GetTick()
  bootUntil,   \* boot_until
  retryAfter,  \* retry_after
  fails,       \* fails, counted up to MaxFails: more makes no difference
  uptime       \* history: ticks since power-up, without the wrap

vars == <<now, bootUntil, retryAfter, fails, uptime>>

Ticks == 0..(Wrap - 1)

(* Definitions named X_Y are mutants of X: the code with one plausible     *)
(* mistake, which some property below must see.                            *)
Later_NoWrap(t, d) == t + d

Later(t, d) == (t + d) % Wrap

(* (int32_t)(t - now) > 0 *)
Pending(t) == LET d == (t - now) % Wrap IN d > 0 /\ d < Wrap \div 2

TypeOK ==
  /\ now \in Ticks /\ bootUntil \in Ticks /\ retryAfter \in Ticks
  /\ fails \in 0..MaxFails
  /\ uptime \in 0..MaxUptime

(* BL_SecInit at any value of the tick. *)
Init ==
  /\ now \in Ticks
  /\ bootUntil = Later(now, BootDelay)
  /\ retryAfter = now
  /\ fails = 0
  /\ uptime = 0

BL_SecGate == ~Pending(bootUntil) /\ ~Pending(retryAfter)

Tick ==
  /\ uptime < MaxUptime
  /\ now' = Later(now, 1) /\ uptime' = uptime + 1
  /\ UNCHANGED <<bootUntil, retryAfter, fails>>

(* From the MaxFails-th wrong key in a row the wait is the lockout. *)
BL_SecFailDelayMs_OneLate(n) == IF n > MaxFails THEN Lockout ELSE FailDelay

BL_SecFailDelayMs(n) == IF n >= MaxFails THEN Lockout ELSE FailDelay

BL_SecNoteFail ==
  /\ BL_SecGate
  /\ fails' = IF fails < MaxFails THEN fails + 1 ELSE fails
  /\ retryAfter' = Later(now, BL_SecFailDelayMs(fails'))
  /\ UNCHANGED <<now, bootUntil, uptime>>

BL_SecNoteSuccess ==
  /\ BL_SecGate
  /\ fails' = 0
  /\ UNCHANGED <<now, bootUntil, retryAfter, uptime>>

PowerCycle ==
  /\ now' \in Ticks
  /\ bootUntil' = Later(now', BootDelay)
  /\ retryAfter' = now'
  /\ fails' = 0
  /\ uptime' = 0

Next == Tick \/ BL_SecNoteFail \/ BL_SecNoteSuccess \/ PowerCycle

Spec == Init /\ [][Next]_vars

-----------------------------------------------------------------------------
(* What is left of a wait, as the code sees it. *)
Left(t) == IF Pending(t) THEN (t - now) % Wrap ELSE 0

Policy ==
  INSTANCE SecPolicy WITH bootLeft <- Left(bootUntil), retryLeft <- Left(retryAfter)

(* The wrapped deadlines behave as the plain countdowns of the policy.     *)
ImplementsPolicy == Policy!PolicySpec
=============================================================================
