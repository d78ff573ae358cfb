------------------------------ MODULE Modular -------------------------------
(***************************************************************************)
(* Facts about counters that start over: what (a + b) % m is when a was    *)
(* reduced before, and when two numbers with the same remainder are equal. *)
(* The block counter, the ring's indices and the tick are such counters.   *)
(***************************************************************************)
EXTENDS Integers, TLAPS

(* A number is a multiple of the modulus and its remainder. *)
LEMMA ModSplit ==
  ASSUME NEW m \in Nat \ {0}, NEW a \in Int
  PROVE  /\ a % m \in 0..(m - 1)
         /\ \E q \in Int : a = (m * q) + (a % m)
<1>1. a = (m * (a \div m)) + (a % m) /\ a \div m \in Int
  OBVIOUS
<1>2. a % m \in 0..(m - 1)
  OBVIOUS
<1>3. QED
  BY <1>1, <1>2

(* There is one remainder. *)
LEMMA ModUnique ==
  ASSUME NEW m \in Nat \ {0}, NEW q \in Int, NEW r \in 0..(m - 1), NEW a \in Int,
         a = (m * q) + r
  PROVE  a % m = r
  OBVIOUS

(* A number below the modulus is its own remainder.                        *)
LEMMA ModSmall ==
  ASSUME NEW m \in Nat \ {0}, NEW r \in 0..(m - 1)
  PROVE  r % m = r
<1>1. r = (m * 0) + r
  OBVIOUS
<1>2. QED
  BY <1>1, ModUnique

(* Multiples of the modulus make no difference. *)
LEMMA ModShift ==
  ASSUME NEW m \in Nat \ {0}, NEW a \in Int, NEW q \in Int
  PROVE  (a + (m * q)) % m = a % m
<1>1. PICK p \in Int : a = (m * p) + (a % m)
  BY ModSplit
<1>2. a + (m * q) = (m * (p + q)) + (a % m)
  BY <1>1, ModSplit
<1>3. p + q \in Int /\ a % m \in 0..(m - 1) /\ a + (m * q) \in Int
  BY ModSplit
<1>4. QED
  BY <1>2, <1>3, ModUnique

(* A sum may be reduced before the last term is added. *)
LEMMA ModAdd ==
  ASSUME NEW m \in Nat \ {0}, NEW a \in Int, NEW b \in Int
  PROVE  /\ ((a % m) + b) % m = (a + b) % m
         /\ (b + (a % m)) % m = (b + a) % m
         /\ (b - (a % m)) % m = (b - a) % m
<1>1. PICK p \in Int : a = (m * p) + (a % m)
  BY ModSplit
<1>2. a % m \in Int
  BY ModSplit
<1>3. a + b = ((a % m) + b) + (m * p) /\ b - (a % m) = (b - a) + (m * p)
  BY <1>1, <1>2
<1>4. (((a % m) + b) + (m * p)) % m = ((a % m) + b) % m
  <2>1. (a % m) + b \in Int
    BY <1>2
  <2>2. QED
    BY <2>1, ModShift
<1>5. ((b - a) + (m * p)) % m = (b - a) % m
  <2>1. b - a \in Int
    OBVIOUS
  <2>2. QED
    BY <2>1, ModShift
<1>6. (a % m) + b = b + (a % m) /\ a + b = b + a
  BY <1>2
<1>7. QED
  BY <1>3, <1>4, <1>5, <1>6

(* Reduced by a multiple of the modulus first, it is the same remainder. *)
LEMMA ModOfMod ==
  ASSUME NEW m \in Nat \ {0}, NEW n \in Nat \ {0}, n % m = 0, NEW a \in Int
  PROVE  (a % n) % m = a % m
<1>1. PICK k \in Int : n = m * k
  <2>1. n \in Int
    OBVIOUS
  <2>2. \E k \in Int : n = (m * k) + (n % m)
    BY <2>1, ModSplit
  <2>3. ASSUME NEW k \in Int, n = (m * k) + (n % m) PROVE n = m * k
    BY <2>3
  <2>4. QED
    BY <2>2, <2>3
<1>2. PICK q \in Int : a = (n * q) + (a % n)
  BY ModSplit
<1>3. a % n \in Int /\ k * q \in Int
  BY ModSplit
<1>4. a = (a % n) + (m * (k * q))
  <2>1. (m * k) * q = m * (k * q)
    OBVIOUS
  <2>2. QED
    BY <1>1, <1>2, <1>3, <2>1
<1>5. ((a % n) + (m * (k * q))) % m = (a % n) % m
  BY <1>3, ModShift
<1>6. QED
  BY <1>4, <1>5

(* Numbers that are close and have the same remainder are the same. *)
LEMMA ModNear ==
  ASSUME NEW m \in Nat \ {0}, NEW a \in Int, NEW b \in Int,
         a % m = b % m, a - b < m, b - a < m
  PROVE  a = b
<1>1. PICK p \in Int : a = (m * p) + (a % m)
  BY ModSplit
<1>2. PICK q \in Int : b = (m * q) + (b % m)
  BY ModSplit
<1>3. a % m \in Int /\ b % m \in Int
  BY ModSplit
<1>4. a - b = m * (p - q)
  BY <1>1, <1>2, <1>3
<1>5. CASE p - q >= 1
  <2>1. m * (p - q) >= m
    BY <1>5
  <2>2. QED
    BY <1>4, <2>1
<1>6. CASE q - p >= 1
  <2>1. m * (q - p) >= m
    BY <1>6
  <2>2. m * (q - p) = -(m * (p - q))
    OBVIOUS
  <2>3. QED
    BY <1>4, <2>1, <2>2
<1>7. CASE p = q
  BY <1>4, <1>7
<1>8. QED
  BY <1>5, <1>6, <1>7
=============================================================================
