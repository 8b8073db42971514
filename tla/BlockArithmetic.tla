--------------------------- MODULE BlockArithmetic ---------------------------
(***************************************************************************)
(* Facts about positions in a sequence of blocks of B bytes: position x is *)
(* byte x % B of block x \div B.  The code computes such pairs for blocks  *)
(* of a cipher, of a hash function and of a benchmark's input.             *)
(***************************************************************************)
EXTENDS Integers, WellFoundedInduction, TLAPS

(* Some number in a set of them is the least.                              *)
LEMMA LeastNumber ==
  ASSUME NEW A \in SUBSET Nat, A # {}
  PROVE  \E x \in A : \A y \in A : x <= y
<1> DEFINE R == OpToRel(<, Nat)
<1>1. IsWellFoundedOn(R, Nat)
  BY NatLessThanWellFounded
<1>2. \A x, y \in Nat : x < y => <<x, y>> \in R
  BY DEF OpToRel
<1> HIDE DEF R
<1>3. PICK x \in A : \A y \in A : ~ (<<y, x>> \in R)
  BY <1>1, WFMin
<1>4. ASSUME NEW y \in A PROVE x <= y
  <2>1. x \in Nat /\ y \in Nat
    OBVIOUS
  <2>2. ~ (y < x)
    BY <1>2, <1>3, <2>1, Zenon
  <2> QED BY <2>1, <2>2
<1> QED BY <1>4

(* A position is its block's first byte plus its place in the block.       *)
LEMMA DivMod ==
  ASSUME NEW B \in Nat \ {0}, NEW x \in Nat
  PROVE  /\ x \div B \in Nat /\ x % B \in 0 .. B - 1
         /\ x = B * (x \div B) + (x % B)
OBVIOUS

(* Blocks do not overlap.                                                  *)
LEMMA MulStep ==
  ASSUME NEW B \in Nat, NEW p \in Nat, NEW q \in Nat, p < q
  PROVE  B * p + B <= B * q
<1>1. PICK d \in Nat : q = p + 1 + d
  <2>1. q - p - 1 \in Nat /\ q = p + 1 + (q - p - 1)
    OBVIOUS
  <2> QED BY <2>1
<1>2. B * q = B * p + B + B * d
  BY <1>1
<1>3. B * d \in Nat /\ B * p \in Nat
  OBVIOUS
<1> QED BY <1>2, <1>3

(* There is only one way to write a position as a block and a place in it. *)
LEMMA DivUnique ==
  ASSUME NEW B \in Nat \ {0}, NEW q \in Nat, NEW m \in 0 .. B - 1,
         NEW x \in Nat, x = B * q + m
  PROVE  x \div B = q /\ x % B = m
<1> DEFINE p == x \div B
           n == x % B
<1>1. p \in Nat /\ n \in 0 .. B - 1 /\ x = B * p + n
  BY DivMod
<1>2. ~ (p < q)
  BY <1>1, MulStep
<1>3. ~ (q < p)
  BY <1>1, MulStep
<1>4. p = q
  BY <1>1, <1>2, <1>3
<1> HIDE DEF p, n
<1>5. n = m
  BY <1>1, <1>4
<1> QED BY <1>4, <1>5 DEF p, n

(* Moving by whole blocks changes the block and not the place in it.       *)
LEMMA DivShift ==
  ASSUME NEW B \in Nat \ {0}, NEW c \in Nat, NEW x \in Nat
  PROVE  /\ B * c + x \in Nat
         /\ (B * c + x) \div B = c + (x \div B)
         /\ (B * c + x) % B = x % B
<1> DEFINE q == x \div B
           m == x % B
<1>1. q \in Nat /\ m \in 0 .. B - 1 /\ x = B * q + m
  BY DivMod
<1> HIDE DEF q, m
<1>2. B * (c + q) = B * c + B * q /\ B * c \in Nat /\ B * q \in Nat
  BY <1>1
<1>3. B * c + x \in Nat /\ B * c + x = B * (c + q) + m
  BY <1>1, <1>2
<1>4. c + q \in Nat
  BY <1>1
<1>5. \A y \in Nat : y = B * (c + q) + m => y \div B = c + q /\ y % B = m
  BY <1>1, <1>4, DivUnique
<1>6. (B * c + x) \div B = c + q /\ (B * c + x) % B = m
  BY <1>3, <1>5
<1> QED BY <1>3, <1>6 DEF q, m

(* The next block has the next number.                                     *)
LEMMA DivNext ==
  ASSUME NEW B \in Nat \ {0}, NEW x \in Nat
  PROVE  (x + B) \div B = (x \div B) + 1
<1>1. (B * 1 + x) \div B = 1 + (x \div B)
  BY DivShift
<1>2. B * 1 + x = x + B /\ x \div B \in Nat
  BY DivMod
<1> QED BY <1>1, <1>2

(* A position below another one is in no later block.                      *)
LEMMA DivMonotone ==
  ASSUME NEW B \in Nat \ {0}, NEW x \in Nat, NEW y \in Nat, x <= y
  PROVE  x \div B <= y \div B
<1> DEFINE p == x \div B
           q == y \div B
<1>1. /\ p \in Nat /\ q \in Nat
      /\ x % B \in 0 .. B - 1 /\ y % B \in 0 .. B - 1
      /\ x = B * p + (x % B) /\ y = B * q + (y % B)
  BY DivMod
<1> HIDE DEF p, q
<1>2. ASSUME q < p PROVE FALSE
  <2>1. B * q + B <= B * p
    BY <1>1, <1>2, MulStep
  <2>2. B * q \in Nat /\ B * p \in Nat
    BY <1>1
  <2> QED BY <1>1, <2>1, <2>2
<1> QED BY <1>1, <1>2 DEF p, q

(* The next position is the next place, or the first one after the last.   *)
LEMMA ModNext ==
  ASSUME NEW B \in Nat \ {0}, NEW x \in Nat
  PROVE  (x + 1) % B = IF (x % B) + 1 = B THEN 0 ELSE (x % B) + 1
<1> DEFINE q == x \div B
           m == x % B
<1>1. q \in Nat /\ m \in 0 .. B - 1 /\ x = B * q + m
  BY DivMod
<1> HIDE DEF q, m
<1>2. \A y \in Nat, p \in Nat, n \in 0 .. B - 1 :
        y = B * p + n => y % B = n
  BY DivUnique
<1>3. CASE m + 1 = B
  <2>1. B * (q + 1) = B * q + B /\ B * q \in Nat
    BY <1>1
  <2>2. x + 1 = B * (q + 1) + 0 /\ q + 1 \in Nat /\ 0 \in 0 .. B - 1
    BY <1>1, <1>3, <2>1
  <2>3. (x + 1) % B = 0
    <3> DEFINE y == x + 1
               p == q + 1
    <3>1. y \in Nat /\ p \in Nat /\ 0 \in 0 .. B - 1 /\ y = B * p + 0
      BY <2>2
    <3> HIDE DEF y, p
    <3>2. y % B = 0
      BY <3>1, <1>2
    <3> QED BY <3>2 DEF y
  <2> QED BY <1>3, <2>3 DEF m
<1>4. CASE m + 1 # B
  <2>1. B * q \in Nat
    BY <1>1
  <2>2. x + 1 = B * q + (m + 1) /\ m + 1 \in 0 .. B - 1
    BY <1>1, <1>4, <2>1
  <2>3. (x + 1) % B = m + 1
    BY <1>1, <1>2, <2>2
  <2> QED BY <1>4, <2>3 DEF m
<1> QED BY <1>3, <1>4

-----------------------------------------------------------------------------
(* Nothing is in block 0.                                                  *)
LEMMA ZeroMod ==
  ASSUME NEW m \in Nat \ {0}
  PROVE  0 % m = 0 /\ 0 \div m = 0
<1>1. 0 \in 0 .. m - 1 /\ 0 = m * 0 + 0 /\ 0 \in Nat
  OBVIOUS
<1> QED BY <1>1, DivUnique

(* A position in the first block is its own place.                         *)
LEMMA SmallMod ==
  ASSUME NEW m \in Nat \ {0}, NEW x \in 0 .. m - 1
  PROVE  x % m = x /\ x \div m = 0
<1>1. x \in Nat /\ x = m * 0 + x
  OBVIOUS
<1> QED BY <1>1, DivUnique

(* A whole block leaves nothing.                                           *)
LEMMA SelfMod ==
  ASSUME NEW m \in Nat \ {0}
  PROVE  m % m = 0
<1>1. 0 \in 0 .. m - 1 /\ m = m * 1 + 0 /\ m \in Nat
  OBVIOUS
<1> QED BY <1>1, DivUnique

(* A remainder does as well as the number when something is added.         *)
LEMMA ModAdd ==
  ASSUME NEW m \in Nat \ {0}, NEW a \in Nat, NEW b \in Nat
  PROVE  ((a % m) + b) % m = (a + b) % m
<1> DEFINE q == a \div m
           r == a % m
<1>1. q \in Nat /\ r \in 0 .. m - 1 /\ a = m * q + r /\ m * q \in Nat
  <2>1. q \in Nat /\ r \in 0 .. m - 1 /\ a = m * q + r
    BY DivMod
  <2> HIDE DEF q, r
  <2> QED BY <2>1
<1> HIDE DEF q, r
<1>2. r + b \in Nat /\ a + b = m * q + (r + b)
  BY <1>1
<1>3. (m * q + (r + b)) % m = (r + b) % m
  BY <1>1, <1>2, DivShift
<1> QED BY <1>2, <1>3 DEF r

(* The same, for all numbers at once.                                      *)
LEMMA ModSums ==
  \A m \in Nat \ {0} : \A x, y \in Nat :
    ((x % m) + y) % m = (x + y) % m /\ x % m \in Nat /\ x + y \in Nat
<1> SUFFICES ASSUME NEW m \in Nat \ {0}, NEW x \in Nat, NEW y \in Nat
             PROVE  /\ ((x % m) + y) % m = (x + y) % m
                    /\ x % m \in Nat /\ x + y \in Nat
  OBVIOUS
<1>1. x % m \in Nat /\ x + y \in Nat
  BY DivMod
<1>2. ((x % m) + y) % m = (x + y) % m
  BY ModAdd
<1> QED BY <1>1, <1>2

(* And so do the remainders of both terms.                                 *)
LEMMA ModBoth ==
  ASSUME NEW m \in Nat \ {0}, NEW a \in Nat, NEW b \in Nat
  PROVE  ((a % m) + (b % m)) % m = (a + b) % m
<1>1. b % m \in Nat
  BY DivMod
<1>2. ((a % m) + (b % m)) % m = (a + (b % m)) % m
  BY <1>1, ModAdd
<1>3. a + (b % m) = (b % m) + a
  BY <1>1
<1>4. ((b % m) + a) % m = (b + a) % m
  BY ModAdd
<1>5. b + a = a + b
  OBVIOUS
<1> QED BY <1>2, <1>3, <1>4, <1>5

(* A remainder in units that are c times as small.                         *)
LEMMA ModScale ==
  ASSUME NEW m \in Nat \ {0}, NEW c \in Nat \ {0}, NEW a \in Nat
  PROVE  /\ (c * a) % (c * m) = c * (a % m)
         /\ (c * a) \div (c * m) = a \div m
<1> DEFINE q == a \div m
           r == a % m
           M == c * m
           s == c * r
           x == c * a
<1>1. q \in Nat /\ r \in 0 .. m - 1 /\ a = m * q + r
  BY DivMod
<1> HIDE DEF q, r
<1>2. M \in Nat \ {0} /\ s \in Nat /\ x \in Nat
  BY <1>1
<1>3. s < M
  <2>1. r + 1 <= m /\ r \in Nat
    BY <1>1
  <2>2. PICK d \in Nat : m = r + 1 + d
    <3>1. m - r - 1 \in Nat /\ m = r + 1 + (m - r - 1)
      BY <2>1
    <3> QED BY <3>1
  <2>3. c * m = c * r + c + c * d /\ c * d \in Nat /\ c * r \in Nat
    BY <2>1, <2>2
  <2> QED BY <2>3
<1>4. x = M * q + s
  <2>1. c * (m * q + r) = c * (m * q) + c * r
    BY <1>1
  <2>2. c * (m * q) = (c * m) * q
    BY <1>1
  <2> QED BY <1>1, <2>1, <2>2
<1> HIDE DEF M, s, x
<1>5. x % M = s /\ x \div M = q
  <2>1. s \in 0 .. M - 1
    BY <1>2, <1>3
  <2> QED BY <1>1, <1>2, <1>4, <2>1, DivUnique
<1> QED BY <1>5 DEF M, s, x, q, r

(* The remainder by a size is that of the remainder by a multiple of it.   *)
LEMMA ModOfMod ==
  ASSUME NEW B \in Nat \ {0}, NEW w \in Nat \ {0}, NEW x \in Nat
  PROVE  (x % (B * w)) % B = x % B
<1> DEFINE m == B * w
           q == x \div m
           r == x % m
<1>1. m \in Nat \ {0}
  OBVIOUS
<1> HIDE DEF m
<1>2. q \in Nat /\ r \in Nat /\ x = m * q + r
  BY <1>1, DivMod
<1> HIDE DEF q, r
<1>3. w * q \in Nat /\ m * q = B * (w * q)
  BY <1>2 DEF m
<1>4. (B * (w * q) + r) % B = r % B
  BY <1>2, <1>3, DivShift
<1> QED BY <1>2, <1>3, <1>4 DEF r, m

(* What is left of a message once a block has been completed.              *)
LEMMA RestOfBlock ==
  ASSUME NEW B \in Nat \ {0}, NEW f \in Nat, NEW n \in Nat, NEW taken \in Nat,
         taken <= n,
         \/ f % B = 0 /\ taken = 0
         \/ taken = B - (f % B)
  PROVE  /\ (n - taken) % B = (f + n) % B
         /\ (n - taken) % B \in 0 .. B - 1
         /\ (n - taken) % B <= n - taken
<1> DEFINE u == f % B
           d == n - taken
<1>1. u \in 0 .. B - 1 /\ d \in Nat /\ n = taken + d
  <2>1. u \in 0 .. B - 1
    BY DivMod
  <2> HIDE DEF u
  <2> QED BY <2>1
<1>2. \A x, y \in Nat : ((x % B) + y) % B = (x + y) % B
  BY ModSums
<1>3. (u + taken) % B = 0
  <2>1. CASE u = 0 /\ taken = 0
    BY <2>1, ZeroMod
  <2>2. CASE taken = B - u
    <3>1. u + taken = B
      BY <1>1, <2>2
    <3>2. B % B = 0
      BY SelfMod
    <3> QED BY <3>1, <3>2, Zenon
  <2> QED BY <2>1, <2>2
<1>4. (f + taken) % B = 0
  BY <1>2, <1>3, Zenon
<1>5. (((f + taken) % B) + d) % B = ((f + taken) + d) % B
  <2>1. f + taken \in Nat
    OBVIOUS
  <2> QED BY <1>1, <1>2, <2>1, Zenon
<1> HIDE DEF d
<1>6. (f + taken) + d = f + n /\ 0 + d = d
  BY <1>1
<1>7. d % B = (f + n) % B
  BY <1>4, <1>5, <1>6, Zenon
<1>8. d % B \in 0 .. B - 1 /\ d % B <= d
  <2>1. /\ d % B \in 0 .. B - 1 /\ d \div B \in Nat
        /\ d = B * (d \div B) + (d % B)
    BY <1>1, DivMod
  <2>2. B * (d \div B) \in Nat
    BY <2>1
  <2>3. \A x, y, z \in Nat : x = y + z => z <= x
    OBVIOUS
  <2>4. d % B \in Nat
    BY <2>1
  <2> QED BY <1>1, <2>1, <2>2, <2>3, <2>4, Zenon
<1> QED BY <1>7, <1>8 DEF d

(* A number kept in two words of W and H values: adding to the lower one   *)
(* carries when the sum is less than what it is compared with.             *)
WordsCount(W, H, t, n, low, carry) ==
  /\ W \in Nat \ {0} /\ H \in Nat \ {0} /\ t \in Nat /\ n \in Nat
  /\ low = ((t % W) + n) % W
  /\ \/ carry = IF low < t % W THEN 1 ELSE 0
     \/ carry = IF low < n % W THEN 1 ELSE 0

(* Such a pair of words counts on, with either carry.                      *)
LEMMA TwoWords ==
  ASSUME NEW W, NEW H, NEW t, NEW n, NEW low, NEW carry,
         WordsCount(W, H, t, n, low, carry)
  PROVE  /\ low = (t + n) % W
         /\ (((t \div W) % H) + carry + (n \div W)) % H
              = ((t + n) \div W) % H
         /\ (t + n) % W \in 0 .. W - 1
         /\ ((t + n) \div W) % H \in 0 .. H - 1
<1> USE DEF WordsCount
<1>11. (t + n) % W \in 0 .. W - 1 /\ (t + n) \div W \in Nat
  <2>1. t + n \in Nat
    OBVIOUS
  <2> QED BY <2>1, DivMod
<1>12. ((t + n) \div W) % H \in 0 .. H - 1
  BY <1>11, DivMod
<1> DEFINE q == t \div W
           r == t % W
           p == n \div W
           s == n % W
<1>1. /\ q \in Nat /\ r \in 0 .. W - 1 /\ t = W * q + r
      /\ p \in Nat /\ s \in 0 .. W - 1 /\ n = W * p + s
  BY DivMod
<1>2. low = (t + n) % W
  BY ModAdd
<1>3. low = (r + s) % W
  BY <1>2, ModBoth
<1> HIDE DEF q, r, p, s
<1>4. W * (p + q) = W * p + W * q /\ W * p \in Nat /\ W * q \in Nat
  BY <1>1
<1>5. t + n = W * (p + q) + (r + s) /\ r + s \in Nat /\ p + q \in Nat
  BY <1>1, <1>4
<1>6. (t + n) \div W = p + q + ((r + s) \div W)
  <2> DEFINE c == p + q
             x == r + s
  <2>1. c \in Nat /\ x \in Nat /\ t + n = W * c + x
    BY <1>5
  <2> HIDE DEF c, x
  <2>2. (W * c + x) \div W = c + (x \div W)
    BY <2>1, DivShift
  <2> QED BY <2>1, <2>2 DEF c, x
<1>9. \A b \in Nat : ((q % H) + b) % H = (q + b) % H
  BY <1>1, ModAdd
<1>10. \A m \in 0 .. W - 1, c \in Nat, x \in Nat :
         x = W * c + m => x % W = m /\ x \div W = c
  BY DivUnique
<1>7. CASE r + s < W
  <2>1. r + s \in 0 .. W - 1 /\ r + s = W * 0 + (r + s)
    BY <1>1, <1>7
  <2>2. (r + s) % W = r + s /\ (r + s) \div W = 0
    BY <1>5, <2>1, DivUnique
  <2>3. carry = 0
    BY <1>1, <1>3, <2>2 DEF r, s
  <2>4. (t + n) \div W = q + carry + p
    BY <1>1, <1>6, <2>2, <2>3
  <2>5. ((q % H) + (carry + p)) % H = (q + (carry + p)) % H
    <3>1. carry + p \in Nat
      BY <1>1, <2>3
    <3> QED BY <1>9, <3>1
  <2>6. q % H \in Nat
    BY <1>1, DivMod
  <2>7. (q % H) + carry + p = (q % H) + (carry + p)
        /\ q + carry + p = q + (carry + p)
    BY <1>1, <2>3, <2>6
  <2> QED BY <1>2, <2>4, <2>5, <2>7 DEF q, p
<1>8. CASE ~ (r + s < W)
  <2>1. r + s - W \in 0 .. W - 1 /\ r + s = W * 1 + (r + s - W)
    BY <1>1, <1>8
  <2>2. (r + s) % W = r + s - W /\ (r + s) \div W = 1
    BY <1>5, <2>1, <1>10
  <2>3. carry = 1
    <3>1. low < r /\ low < s
      BY <1>1, <1>3, <2>2
    <3> QED BY <3>1 DEF r, s
  <2>4. (t + n) \div W = q + carry + p
    BY <1>1, <1>6, <2>2, <2>3
  <2>5. ((q % H) + (carry + p)) % H = (q + (carry + p)) % H
    <3>1. carry + p \in Nat
      BY <1>1, <2>3
    <3> QED BY <1>9, <3>1
  <2>6. q % H \in Nat
    BY <1>1, DivMod
  <2>7. (q % H) + carry + p = (q % H) + (carry + p)
        /\ q + carry + p = q + (carry + p)
    BY <1>1, <2>3, <2>6
  <2> QED BY <1>2, <2>4, <2>5, <2>7 DEF q, p
<1> QED BY <1>7, <1>8, <1>11, <1>12

(* Together the words are the number, up to the values of both.            *)
LEMMA WordsJoined ==
  ASSUME NEW W \in Nat \ {0}, NEW H \in Nat \ {0}, NEW t \in Nat
  PROVE  W * ((t \div W) % H) + (t % W) = t % (W * H)
<1> DEFINE q == t \div W
           r == t % W
           p == q \div H
           s == q % H
           M == W * H
           x == W * s + r
<1>1. q \in Nat /\ r \in 0 .. W - 1 /\ t = W * q + r
  BY DivMod
<1> HIDE DEF q, r
<1>2. p \in Nat /\ s \in 0 .. H - 1 /\ q = H * p + s
  BY <1>1, DivMod
<1> HIDE DEF p, s
<1>3. M \in Nat \ {0} /\ W * s \in Nat
  BY <1>2
<1>4. x \in 0 .. M - 1
  <2>1. PICK d \in Nat : H = s + 1 + d
    <3>1. H - s - 1 \in Nat /\ H = s + 1 + (H - s - 1)
      BY <1>2
    <3> QED BY <3>1
  <2>2. W * H = W * s + W + W * d /\ W * d \in Nat
    BY <1>2, <2>1
  <2> QED BY <1>1, <1>3, <2>2
<1>5. t = M * p + x
  <2>1. W * (H * p + s) = W * (H * p) + W * s
    BY <1>2
  <2>2. W * (H * p) = (W * H) * p /\ W * (H * p) \in Nat
    BY <1>2
  <2>3. W * q = M * p + W * s
    BY <1>2, <2>1, <2>2
  <2> HIDE DEF M
  <2>4. M * p \in Nat
    BY <1>2, <1>3
  <2> QED BY <1>1, <1>3, <2>3, <2>4
<1> HIDE DEF M, x
<1>6. t % M = x
  BY <1>2, <1>3, <1>4, <1>5, DivUnique
<1> QED BY <1>6 DEF M, x, s, q, r

(* The zeros of the padding, from where in a block the message ends.       *)
LEMMA ZerosNeeded ==
  ASSUME NEW B \in Nat \ {0}, NEW L \in Nat \ {0}, L < B, NEW f \in Nat
  PROVE  (B - ((f + 1 + L) % B)) % B
           = IF (f % B) + 1 + L <= B THEN B - (f % B) - 1 - L
                                     ELSE 2 * B - (f % B) - 1 - L
<1> DEFINE u == f % B
           e == 1 + L
           x == u + e
<1>1. u \in 0 .. B - 1 /\ e \in Nat /\ x \in Nat
  <2>1. u \in 0 .. B - 1
    BY DivMod
  <2> HIDE DEF u
  <2> QED BY <2>1
<1>2. (f + 1 + L) % B = x % B
  <2>1. (u + e) % B = (f + e) % B
    BY <1>1, ModAdd
  <2>2. f + 1 + L = f + e
    OBVIOUS
  <2> QED BY <2>1, <2>2
<1>3. \A c \in Nat, m \in 0 .. B - 1, y \in Nat : y = B * c + m => y % B = m
  BY DivUnique
<1> HIDE DEF u, x
<1>4. CASE x < B
  <2>1. x \in 0 .. B - 1 /\ x = B * 0 + x
    BY <1>1, <1>4
  <2>2. x % B = x
    BY <1>1, <1>3, <2>1
  <2>3. B - x \in 0 .. B - 1 /\ B - x \in Nat /\ B - x = B * 0 + (B - x)
    BY <1>1, <1>4 DEF x
  <2>4. (B - x) % B = B - x
    BY <1>3, <2>3
  <2> QED BY <1>1, <1>2, <1>4, <2>2, <2>4 DEF x, u
<1>5. CASE x = B
  <2>1. x = B * 1 + 0 /\ 0 \in 0 .. B - 1 /\ B = B * 1 + 0
    BY <1>5
  <2>2. x % B = 0 /\ B % B = 0
    BY <1>1, <1>3, <2>1
  <2>3. B - (x % B) = B
    BY <2>2
  <2> QED BY <1>1, <1>2, <1>5, <2>2, <2>3 DEF x, u
<1>6. CASE x > B
  <2>1. x - B \in 0 .. B - 1 /\ x = B * 1 + (x - B)
    BY <1>1, <1>6 DEF x
  <2>2. x % B = x - B
    BY <1>1, <1>3, <2>1
  <2>3. 2 * B - x \in 0 .. B - 1 /\ 2 * B - x = B * 0 + (2 * B - x)
        /\ 2 * B - x \in Nat /\ B - (x - B) = 2 * B - x
    BY <1>1, <1>6, <2>1
  <2>4. (2 * B - x) % B = 2 * B - x
    BY <1>3, <2>3
  <2> QED BY <1>1, <1>2, <1>6, <2>2, <2>3, <2>4 DEF x, u
<1> QED BY <1>1, <1>4, <1>5, <1>6

(* The zeros of the padding are as many as bring the one bit to the length *)
(* field, and no fewer bring it there.                                     *)
ZerosUpTo(B, L, f) == (B - ((f + 1 + L) % B)) % B

(* So a loop that adds zeros until the count is right stops after these.   *)
LEMMA PaddingStops ==
  ASSUME NEW B \in Nat \ {0}, NEW L \in Nat \ {0}, L < B, NEW f \in Nat
  PROVE  /\ ZerosUpTo(B, L, f) \in Nat
         /\ \A j \in 0 .. ZerosUpTo(B, L, f) :
              (f + 1 + j) % B = B - L <=> j = ZerosUpTo(B, L, f)
<1> DEFINE x == f + 1
           u == (x + L) % B
           w == B - u
           z == w % B
<1>1. x \in Nat /\ x + L \in Nat /\ f + 1 + L = x + L
  OBVIOUS
<1>2. u \in 0 .. B - 1
  BY <1>1, DivMod
<1>3. ZerosUpTo(B, L, f) = z
  BY <1>1 DEF ZerosUpTo
<1> HIDE DEF x, u
<1>4. w \in Nat /\ u + w = B
  BY <1>2
<1> HIDE DEF w
<1>5. z \in 0 .. B - 1
  BY <1>4, DivMod
<1>6. \A a, b \in Nat : ((a % B) + b) % B = (a + b) % B /\ a % B \in Nat
                        /\ a + b \in Nat
  BY ModSums
<1>7. B % B = 0 /\ \A a \in 0 .. B - 1 : a % B = a
  BY SelfMod, SmallMod
<1>8. ((x + z) + L) % B = 0
  <2>1. (z + u) % B = (w + u) % B
    <3>1. u \in Nat
      BY <1>2
    <3> QED BY <1>4, <1>6, <3>1, Zenon
  <2>2. w + u = B /\ z + u = u + z
    BY <1>2, <1>4, <1>5
  <2>3. (u + z) % B = 0
    BY <1>7, <2>1, <2>2, Zenon
  <2>4. (((x + L) % B) + z) % B = ((x + L) + z) % B
    <3>1. z \in Nat
      BY <1>5
    <3> QED BY <1>1, <1>6, <3>1, Zenon
  <2> HIDE DEF z
  <2>5. (x + L) + z = (x + z) + L
    BY <1>1, <1>5
  <2> QED BY <2>3, <2>4, <2>5, Zenon DEF u
<1> HIDE DEF z
<1> DEFINE v == (x + z) % B
<1>9. x + z \in Nat /\ v \in 0 .. B - 1
  <2>1. x + z \in Nat
    BY <1>1, <1>5
  <2> QED BY <2>1, DivMod
<1>10. (v + L) % B = 0
  BY <1>6, <1>8, <1>9
<1> HIDE DEF v
<1>11. v = B - L
  <2>1. CASE v + L < B
    <3>1. v + L \in 0 .. B - 1 /\ v + L # 0
      BY <1>9, <2>1
    <3> QED BY <1>7, <1>10, <3>1
  <2>2. CASE v + L >= B
    <3> DEFINE d == v + L - B
    <3>1. d \in 0 .. B - 1 /\ B + d = v + L /\ B \in Nat
      BY <1>9, <2>2
    <3> HIDE DEF d
    <3>2. ((B % B) + d) % B = (B + d) % B
      <4>1. d \in Nat
        BY <3>1
      <4> QED BY <1>6, <3>1, <4>1, Zenon
    <3>3. (B % B) + d = d
      BY <1>7, <3>1
    <3>4. d = 0
      BY <1>7, <1>10, <3>1, <3>2, <3>3, Zenon
    <3> QED BY <1>9, <3>1, <3>4
  <2> QED BY <1>9, <2>1, <2>2
<1>12. ASSUME NEW j \in 0 .. z, (x + j) % B = B - L
       PROVE  j = z
  <2> DEFINE d == z - j
  <2>1. d \in 0 .. B - 1 /\ (x + j) + d = x + z /\ x + j \in Nat
        /\ d \in Nat
    BY <1>1, <1>5
  <2> HIDE DEF d
  <2>2. (((x + j) % B) + d) % B = ((x + j) + d) % B
    BY <1>6, <2>1
  <2>3. (v + d) % B = v
    BY <1>11, <1>12, <2>1, <2>2, Zenon DEF v
  <2>4. CASE v + d < B
    <3>1. v + d \in 0 .. B - 1
      BY <1>9, <2>1, <2>4
    <3>2. v + d = v
      BY <1>7, <2>3, <3>1
    <3>3. d = 0
      BY <1>9, <2>1, <3>2
    <3> QED BY <1>5, <3>3 DEF d
  <2>5. CASE v + d >= B
    <3> DEFINE e == v + d - B
    <3>1. e \in 0 .. B - 1 /\ e \in Nat /\ B + e = v + d /\ B \in Nat
      BY <1>9, <2>1, <2>5
    <3> HIDE DEF e
    <3>2. ((B % B) + e) % B = (B + e) % B
      BY <1>6, <3>1
    <3>3. (B % B) + e = e
      BY <1>7, <3>1
    <3>4. e = v
      BY <1>7, <2>3, <3>1, <3>2, <3>3, Zenon
    <3>5. d = B
      BY <1>9, <2>1, <3>1, <3>4
    <3> QED BY <2>1, <3>5
  <2> QED BY <1>9, <2>1, <2>4, <2>5
<1>13. z \in Nat /\ z \in 0 .. z
  BY <1>5
<1> QED BY <1>3, <1>9, <1>11, <1>12, <1>13, Zenon DEF v, x
=============================================================================
