-------------------------- MODULE SecAccess_proofs --------------------------
(***************************************************************************)
(* The deadlines on the wrapping tick implement the plain countdowns of    *)
(* SecPolicy for every width of the tick and all delays below half of it,  *)
(* as long as the board is power-cycled before half of it has passed.      *)
(***************************************************************************)
EXTENDS SecAccess, Modular

Half == Wrap \div 2

(* At tick n the deadline t is e ticks ahead, or -e ticks past, and the    *)
(* code can tell which.                                                    *)
Ahead(t, n, e) == /\ e \in Int /\ -Half <= e /\ e < Half
                  /\ (t - n) % Wrap = e % Wrap

(* Pending and Left at a tick n. *)
LeftAt(t, n) == LET d == (t - n) % Wrap IN IF d > 0 /\ d < Wrap \div 2 THEN d ELSE 0

(* bootUntil was set at power-up, retryAfter no earlier. *)
DeadlinesInReach ==
  /\ Ahead(bootUntil, now, BootDelay - uptime)
  /\ \E e \in Int : e >= -uptime /\ Ahead(retryAfter, now, e)

IInv == TypeOK /\ DeadlinesInReach

-----------------------------------------------------------------------------
(* The constants.                                                          *)
LEMMA ConstantTypes ==
  /\ Wrap \in Nat \ {0} /\ Half \in Nat \ {0} /\ Wrap = 2 * Half
  /\ BootDelay \in 0..(Half - 1) /\ FailDelay \in 0..(Half - 1) /\ Lockout \in 0..(Half - 1)
<1>1. Wrap \in Nat \ {0} /\ Wrap % 2 = 0
  BY SecAssumption
<1>2. Half \in Nat \ {0} /\ Wrap = 2 * Half
  BY <1>1 DEF Half
<1>3. \A d \in {BootDelay, FailDelay, Lockout} : d \in Nat /\ d < Half
  BY SecAssumption DEF Half
<1>4. \A d \in {BootDelay, FailDelay, Lockout} : d \in 0..(Half - 1)
  BY <1>2, <1>3
<1>5. QED
  BY <1>1, <1>2, <1>4

(* A deadline is a tick.                                                   *)
LEMMA LaterType == ASSUME NEW t \in Int, NEW d \in Int PROVE Later(t, d) \in Ticks
  BY ModSplit, ConstantTypes DEF Later, Ticks

(* What the code makes of a deadline: the ticks that are left of it. *)
LEMMA LeftOfDeadline ==
  ASSUME NEW t \in Int, NEW n \in Int, NEW e, Ahead(t, n, e)
  PROVE  LeftAt(t, n) = IF e > 0 THEN e ELSE 0
<1> DEFINE d == (t - n) % Wrap
<1>1. /\ e \in Int /\ -Half <= e /\ e < Half /\ d = e % Wrap
  BY DEF Ahead
<1>2. CASE e >= 0
  <2>1. d = e
    BY <1>1, <1>2, ModSmall, ConstantTypes
  <2>2. QED
    BY <1>1, <1>2, <2>1 DEF LeftAt, Half
<1>3. CASE e < 0
  <2>1. e = (Wrap * (-1)) + (e + Wrap) /\ e + Wrap \in 0..(Wrap - 1)
    BY <1>1, <1>3, ConstantTypes
  <2>2. d = e + Wrap
    BY <1>1, <2>1, ModUnique, ConstantTypes
  <2>3. ~(d < Half)
    BY <1>1, <2>2, ConstantTypes
  <2>4. QED
    BY <1>3, <1>1, <2>3 DEF LeftAt, Half
<1>4. QED
  BY <1>1, <1>2, <1>3

(* A deadline d ticks from now is d ticks ahead. *)
LEMMA NewDeadline ==
  ASSUME NEW n \in Int, NEW d \in 0..(Half - 1)
  PROVE  (Later(n, d) - n) % Wrap = d % Wrap
<1>1. Wrap \in Nat \ {0} /\ n + d \in Int /\ -n \in Int /\ d \in Int
  BY ConstantTypes
<1>2. (((n + d) % Wrap) + (-n)) % Wrap = ((n + d) + (-n)) % Wrap
  BY ONLY <1>1, ModAdd
<1>3. (n + d) % Wrap \in Int
  BY ONLY <1>1, ModSplit
<1>4. ((n + d) % Wrap) + (-n) = ((n + d) % Wrap) - n /\ (n + d) + (-n) = d
  BY <1>1, <1>3
<1>5. QED
  BY <1>2, <1>4 DEF Later

(* A tick brings every deadline a tick nearer. *)
LEMMA TickNearer ==
  ASSUME NEW t \in Int, NEW n \in Int, NEW e, Ahead(t, n, e), e > -Half
  PROVE  Ahead(t, Later(n, 1), e - 1)
<1>1. Wrap \in Nat \ {0} /\ n + 1 \in Int /\ t \in Int /\ t - n \in Int /\ -1 \in Int
      /\ e \in Int
  BY ConstantTypes DEF Ahead
<1>2. (t - ((n + 1) % Wrap)) % Wrap = (t - (n + 1)) % Wrap
  BY ONLY <1>1, ModAdd
<1>3. (((t - n) % Wrap) + (-1)) % Wrap = ((t - n) + (-1)) % Wrap
  BY ONLY <1>1, ModAdd
<1>4. ((e % Wrap) + (-1)) % Wrap = (e + (-1)) % Wrap
  BY ONLY <1>1, ModAdd
<1>5. (t - n) + (-1) = t - (n + 1) /\ e + (-1) = e - 1
  BY <1>1
<1>6. (t - Later(n, 1)) % Wrap = (e - 1) % Wrap
  BY <1>2, <1>3, <1>4, <1>5 DEF Ahead, Later
<1>7. QED
  BY <1>1, <1>6, ConstantTypes DEF Ahead
-----------------------------------------------------------------------------
(* Every step keeps the types.                                             *)
LEMMA TypeStep == TypeOK /\ [Next]_vars => TypeOK'
<1> SUFFICES ASSUME TypeOK, [Next]_vars PROVE TypeOK'
  OBVIOUS
<1> USE SecAssumption
<1>1. now \in Int /\ 1 \in Int /\ \A d \in {BootDelay, FailDelay, Lockout} : d \in Int
  BY DEF TypeOK, Ticks
<1>2. CASE Tick
  BY <1>1, <1>2, LaterType DEF TypeOK, Tick
<1>3. CASE BL_SecNoteFail
  <2>1. retryAfter' \in Ticks
    BY <1>1, <1>3, LaterType DEF BL_SecNoteFail, BL_SecFailDelayMs
  <2>2. QED
    BY <1>3, <2>1 DEF TypeOK, BL_SecNoteFail
<1>4. CASE BL_SecNoteSuccess \/ UNCHANGED vars
  BY <1>4 DEF TypeOK, BL_SecNoteSuccess, vars
<1>5. CASE PowerCycle
  <2>1. now' \in Int
    BY <1>5 DEF PowerCycle, Ticks
  <2>2. QED
    BY <1>1, <1>5, <2>1, LaterType DEF TypeOK, PowerCycle
<1>6. QED
  BY <1>2, <1>3, <1>4, <1>5 DEF Next

(* So does power-up.                                                       *)
LEMMA InitType == Init => TypeOK
<1> SUFFICES ASSUME Init PROVE TypeOK
  OBVIOUS
<1>1. now \in Int /\ BootDelay \in Int
  BY SecAssumption DEF Init, Ticks
<1>2. QED
  BY <1>1, LaterType, SecAssumption DEF Init, TypeOK

(* Every deadline stays a value of the tick, whatever the uptime           *)
(* (BL_SecInit, BL_SecNoteFail).                                           *)
THEOREM TypeCorrect == Spec => []TypeOK
  BY InitType, TypeStep, PTL DEF Spec

(* What a power-up sets, at any value of the tick. *)
LEMMA PowerUpReach ==
  ASSUME NEW n \in Ticks
  PROVE  Ahead(Later(n, BootDelay), n, BootDelay - 0) /\ Ahead(n, n, 0)
<1>1. n \in Int /\ n - n = 0
  BY DEF Ticks
<1>2. QED
  BY <1>1, NewDeadline, ConstantTypes DEF Ahead

(* After power-up the deadlines are within reach of the signed difference. *)
LEMMA InitReach == Init => DeadlinesInReach
<1> SUFFICES ASSUME Init PROVE DeadlinesInReach
  OBVIOUS
<1>1. Ahead(bootUntil, now, BootDelay - uptime) /\ Ahead(retryAfter, now, 0) /\ 0 >= -uptime
  BY PowerUpReach DEF Init
<1>2. QED
  BY <1>1 DEF DeadlinesInReach

(* They stay there: what is further away was renewed, what has passed is no*)
(* more than the uptime ago.                                               *)
LEMMA ReachStep ==
  ASSUME MaxUptime <= Half, IInv, [Next]_vars
  PROVE  DeadlinesInReach'
<1>1. /\ now \in Int /\ bootUntil \in Int /\ retryAfter \in Int /\ uptime \in 0..MaxUptime
      /\ MaxUptime \in Nat
  BY SecAssumption DEF IInv, TypeOK, Ticks
<1>2. CASE Tick
  <2>1. /\ uptime + 1 <= Half /\ uptime' = uptime + 1 /\ now' = Later(now, 1)
        /\ UNCHANGED <<bootUntil, retryAfter>>
    BY <1>1, <1>2, ConstantTypes DEF Tick
  <2>2. Ahead(bootUntil', now', BootDelay - uptime')
    <3>1. Ahead(bootUntil, now, BootDelay - uptime) /\ BootDelay - uptime > -Half
      BY <1>1, <2>1, ConstantTypes DEF IInv, DeadlinesInReach
    <3>2. Ahead(bootUntil, Later(now, 1), (BootDelay - uptime) - 1)
      BY <1>1, <3>1, TickNearer
    <3>3. (BootDelay - uptime) - 1 = BootDelay - uptime'
      BY <1>1, <2>1, ConstantTypes
    <3>4. QED
      BY <2>1, <3>2, <3>3
  <2>3. PICK e \in Int : e >= -uptime /\ Ahead(retryAfter, now, e)
    BY DEF IInv, DeadlinesInReach
  <2>4. e > -Half /\ e - 1 >= -uptime'
    BY <1>1, <2>1, <2>3, ConstantTypes
  <2>5. Ahead(retryAfter', now', e - 1)
    BY <1>1, <2>1, <2>3, <2>4, TickNearer
  <2>6. QED
    BY <2>2, <2>4, <2>5 DEF DeadlinesInReach
<1>3. CASE BL_SecNoteFail
  <2>1. PICK d \in {FailDelay, Lockout} : retryAfter' = Later(now, d)
    BY <1>3 DEF BL_SecNoteFail, BL_SecFailDelayMs
  <2>2. d \in Int /\ d >= -uptime /\ Ahead(retryAfter', now, d)
    BY <1>1, <2>1, NewDeadline, ConstantTypes DEF Ahead
  <2>3. UNCHANGED <<now, bootUntil, uptime>>
    BY <1>3 DEF BL_SecNoteFail
  <2>4. QED
    BY <2>2, <2>3 DEF IInv, DeadlinesInReach
<1>4. CASE BL_SecNoteSuccess \/ UNCHANGED vars
  <2>1. UNCHANGED <<now, bootUntil, retryAfter, uptime>>
    BY <1>4 DEF BL_SecNoteSuccess, vars
  <2>2. QED
    BY <2>1 DEF IInv, DeadlinesInReach
<1>5. CASE PowerCycle
  <2>1. /\ Ahead(bootUntil', now', BootDelay - uptime') /\ Ahead(retryAfter', now', 0)
        /\ 0 >= -uptime'
    BY <1>5, PowerUpReach DEF PowerCycle
  <2>2. QED
    BY <2>1 DEF DeadlinesInReach
<1>6. QED
  BY <1>2, <1>3, <1>4, <1>5 DEF Next

(* The inductive invariant, as long as the tick counts less than half its  *)
(* range.                                                                  *)
LEMMA Invariance == ASSUME MaxUptime <= Half PROVE Spec => []IInv
<1>1. Init => IInv
  BY InitType, InitReach DEF IInv
<1>2. IInv /\ [Next]_vars => IInv'
  BY TypeStep, ReachStep DEF IInv
<1>3. QED
  BY <1>1, <1>2, PTL DEF Spec
-----------------------------------------------------------------------------
(* The refinement. *)

(* How the waits of the policy read in the invariant, now and after a step.*)
LEMMA Mapping ==
  /\ Left(bootUntil) = LeftAt(bootUntil, now)
  /\ Left(retryAfter) = LeftAt(retryAfter, now)
  /\ Left(bootUntil)' = LeftAt(bootUntil', now')
  /\ Left(retryAfter)' = LeftAt(retryAfter', now')
  BY DEF Left, Pending, LeftAt

(* The delay a power-up starts with.                                       *)
LEMMA PowerUpLeft ==
  ASSUME NEW n \in Ticks
  PROVE  LeftAt(Later(n, BootDelay), n) = BootDelay /\ LeftAt(n, n) = 0
<1>1. n \in Int /\ BootDelay \in Nat /\ BootDelay - 0 = BootDelay
  BY ConstantTypes DEF Ticks
<1>2. Later(n, BootDelay) \in Int
  BY <1>1, LaterType DEF Ticks
<1>3. QED
  BY <1>1, <1>2, PowerUpReach, LeftOfDeadline

(* Power-up is that of the policy.                                         *)
LEMMA InitPolicy == Init => Policy!PolicyInit
<1> SUFFICES ASSUME Init PROVE Policy!PolicyInit
  OBVIOUS
<1>1. LeftAt(bootUntil, now) = BootDelay /\ LeftAt(retryAfter, now) = 0 /\ fails = 0
  BY PowerUpLeft DEF Init
<1>2. QED
  BY <1>1, Mapping DEF Policy!PolicyInit, Policy!PowerUpValues

(* Every call of bl_secaccess.c is one of the policy.                      *)
LEMMA PolicyStep ==
  ASSUME MaxUptime <= Half, IInv, [Next]_vars
  PROVE  [Policy!PolicyNext]_(Policy!policy)
<1>1. /\ now \in Int /\ bootUntil \in Int /\ retryAfter \in Int /\ uptime \in 0..MaxUptime
      /\ MaxUptime \in Nat /\ fails \in 0..MaxFails
  BY SecAssumption DEF IInv, TypeOK, Ticks
<1>2. CASE Tick
  <2>1. /\ uptime + 1 <= Half /\ now' = Later(now, 1)
        /\ UNCHANGED <<bootUntil, retryAfter, fails>>
    BY <1>1, <1>2, ConstantTypes DEF Tick
  <2>2. Later(now, 1) \in Int
    BY <1>1, LaterType DEF Ticks
  <2>3. ASSUME NEW t \in Int, NEW e \in Int, Ahead(t, now, e), e > -Half
        PROVE  LeftAt(t, Later(now, 1)) = Policy!Less(LeftAt(t, now))
    <3>1. /\ LeftAt(t, now) = IF e > 0 THEN e ELSE 0
          /\ LeftAt(t, Later(now, 1)) = IF e - 1 > 0 THEN e - 1 ELSE 0
      BY <1>1, <2>2, <2>3, TickNearer, LeftOfDeadline
    <3>2. QED
      BY <2>3, <3>1 DEF Policy!Less
  <2>4. LeftAt(bootUntil, Later(now, 1)) = Policy!Less(LeftAt(bootUntil, now))
    <3>1. /\ Ahead(bootUntil, now, BootDelay - uptime)
          /\ BootDelay - uptime \in Int /\ BootDelay - uptime > -Half
      BY <1>1, <2>1, ConstantTypes DEF IInv, DeadlinesInReach
    <3>2. QED
      BY <1>1, <2>3, <3>1
  <2>5. LeftAt(retryAfter, Later(now, 1)) = Policy!Less(LeftAt(retryAfter, now))
    <3>1. PICK e \in Int : e >= -uptime /\ Ahead(retryAfter, now, e)
      BY DEF IInv, DeadlinesInReach
    <3>2. e > -Half
      BY <1>1, <2>1, <3>1, ConstantTypes
    <3>3. QED
      BY <1>1, <2>3, <3>1, <3>2
  <2>6. QED
    BY <2>1, <2>4, <2>5, Mapping DEF Policy!PolicyNext, Policy!Elapse
<1>3. BL_SecGate => Policy!GateOpen
  BY DEF BL_SecGate, Policy!GateOpen, Left
<1>4. CASE BL_SecNoteFail
  <2>1. fails' = Policy!OneMore /\ UNCHANGED <<now, bootUntil>>
    BY <1>4 DEF BL_SecNoteFail, Policy!OneMore
  <2>2. retryAfter' = Later(now, Policy!DelayAfter(Policy!OneMore))
    BY <1>4, <2>1 DEF BL_SecNoteFail, BL_SecFailDelayMs, Policy!DelayAfter
  <2>3. ASSUME NEW d \in {FailDelay, Lockout} PROVE LeftAt(Later(now, d), now) = d
    <3>1. d \in 0..(Half - 1) /\ d \in Nat
      BY ConstantTypes
    <3>2. Later(now, d) \in Int
      BY <1>1, <3>1, LaterType DEF Ticks
    <3>3. Ahead(Later(now, d), now, d)
      BY <1>1, <3>1, NewDeadline, ConstantTypes DEF Ahead
    <3>4. QED
      BY <1>1, <3>1, <3>2, <3>3, LeftOfDeadline
  <2>4. Policy!DelayAfter(Policy!OneMore) \in {FailDelay, Lockout}
    BY DEF Policy!DelayAfter
  <2>5. Left(retryAfter)' = Policy!DelayAfter(Policy!OneMore)
    BY <2>1, <2>2, <2>3, <2>4, Mapping
  <2>6. Left(bootUntil)' = Left(bootUntil)
    BY <2>1, Mapping
  <2>7. QED
    BY <1>3, <1>4, <2>1, <2>5, <2>6 DEF BL_SecNoteFail, Policy!PolicyNext, Policy!NoteFail
<1>5. CASE BL_SecNoteSuccess
  <2>1. Left(bootUntil)' = Left(bootUntil) /\ Left(retryAfter)' = Left(retryAfter)
    BY <1>5, Mapping DEF BL_SecNoteSuccess
  <2>2. QED
    BY <1>3, <1>5, <2>1 DEF BL_SecNoteSuccess, Policy!PolicyNext, Policy!NoteSuccess
<1>6. CASE PowerCycle
  <2>1. LeftAt(bootUntil', now') = BootDelay /\ LeftAt(retryAfter', now') = 0 /\ fails' = 0
    BY <1>6, PowerUpLeft DEF PowerCycle
  <2>2. QED
    BY <2>1, Mapping DEF Policy!PolicyNext, Policy!PowerUp, Policy!PowerUpValues
<1>7. CASE UNCHANGED vars
  <2>1. Left(bootUntil)' = Left(bootUntil) /\ Left(retryAfter)' = Left(retryAfter)
    BY <1>7, Mapping DEF vars
  <2>2. QED
    BY <1>7, <2>1 DEF vars, Policy!policy
<1>8. QED
  BY <1>2, <1>4, <1>5, <1>6, <1>7 DEF Next

(* The signed difference of wrapping deadlines is the countdown the header *)
(* promises: no 0x27 before the boot delay, none within the wait after a   *)
(* wrong key, the lockout from the MaxFails-th on, and never a wait longer *)
(* than that (bl_secaccess.c).                                             *)
THEOREM PolicyRefinement ==
  ASSUME MaxUptime <= Half
  PROVE  Spec => ImplementsPolicy
<1>1. IInv /\ [Next]_vars => [Policy!PolicyNext]_(Policy!policy)
  BY PolicyStep
<1>2. QED
  BY <1>1, InitPolicy, Invariance, PTL DEF Spec, ImplementsPolicy, Policy!PolicySpec
=============================================================================
