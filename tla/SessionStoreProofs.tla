------------------------- MODULE SessionStoreProofs -------------------------
(* Proofs about SessionIDs and SessionStore: for any base, padding, number   *)
(* of sessions, resolution of the clock and page sizes.                      *)
EXTENDS SessionStore, FiniteSetTheorems, WellFoundedInduction, TLAPS

---------------------------------------------------------------------------
(* Least numbers, which stand in for inductions.                             *)

\* A set of naturals that is not empty has a least element.
LEMMA LeastNat ==
    ASSUME NEW T \in SUBSET Nat, T # {} PROVE \E x \in T : \A y \in T : x =< y
<1> DEFINE R == OpToRel(<, Nat)
<1>1. IsWellFoundedOn(R, Nat)
  BY NatLessThanWellFounded
<1>2. \A x, y \in Nat : y < x => <<y, x>> \in R
  BY DEF OpToRel
<1> HIDE DEF R
<1>3. PICK x \in T : \A y \in T : ~(<<y, x>> \in R)
  BY <1>1, WFMin, Zenon
<1>4. \A y \in T : ~(y < x)
  BY <1>2, <1>3
<1> QED BY <1>4

\* What holds of 0, and of k + 1 if of k, holds of all numbers up to n.
LEMMA UpTo ==
    ASSUME NEW n \in Nat, NEW H \in SUBSET (0..n), 0 \in H,
           \A k \in 0..n - 1 : k \in H => k + 1 \in H
    PROVE  H = 0..n
<1> DEFINE T == (0..n) \ H
<1>1. SUFFICES ASSUME T # {} PROVE FALSE
  OBVIOUS
<1>2. PICK x \in T : \A y \in T : x =< y
  <2>1. T \in SUBSET Nat
    OBVIOUS
  <2> HIDE DEF T
  <2> QED BY <1>1, <2>1, LeastNat
<1>3. x \in 1..n /\ x - 1 \in 0..n - 1 /\ (x - 1) + 1 = x /\ x - 1 \notin T
  BY <1>2
<1> QED BY <1>2, <1>3

---------------------------------------------------------------------------
(* Powers.                                                                   *)

Powers(g, b, n) ==
    g \in [0..n -> Nat] /\ g[0] = 1 /\ \A k \in 1..n : g[k] = b * g[k - 1]

\* There is a table of the powers up to any exponent, and one only.
LEMMA PowersExist == ASSUME NEW b \in Nat, NEW n \in Nat PROVE \E g : Powers(g, b, n)
<1> DEFINE H == {k \in 0..n : \E g : Powers(g, b, k)}
<1>1. 0 \in H
  <2>1. Powers([j \in 0..0 |-> 1], b, 0)
    BY DEF Powers
  <2> QED BY <2>1
<1>2. ASSUME NEW k \in 0..n - 1, k \in H PROVE k + 1 \in H
  <2>1. PICK g : Powers(g, b, k)
    BY <1>2
  <2> DEFINE h == [j \in 0..k + 1 |-> IF j = k + 1 THEN b * g[k] ELSE g[j]]
  <2>2. \A j \in 0..k : h[j] = g[j] /\ g[j] \in Nat
    BY <2>1 DEF Powers
  <2>3. h[k + 1] = b * g[k] /\ k \in 0..k /\ k + 1 \in 0..n
    BY <1>2
  <2>4. b * g[k] \in Nat
    <3>1. \A x \in Nat : b * x \in Nat
      OBVIOUS
    <3>2. g[k] \in Nat
      BY <2>2, <2>3
    <3> QED BY <3>1, <3>2
  <2>5. h \in [0..k + 1 -> Nat]
    <3>1. \A j \in 0..k + 1 : j \in 0..k \/ j = k + 1
      OBVIOUS
    <3>2. \A j \in 0..k + 1 : h[j] \in Nat
      BY <2>2, <2>3, <2>4, <3>1
    <3> QED BY <3>2
  <2>6. ASSUME NEW j \in 1..k + 1 PROVE h[j] = b * h[j - 1]
    <3>1. CASE j = k + 1
      BY <2>2, <2>3, <3>1
    <3>2. CASE j # k + 1
      <4>1. j \in 1..k /\ j - 1 \in 0..k /\ j \in 0..k
        BY <3>2
      <4> QED BY <2>1, <2>2, <4>1 DEF Powers
    <3> QED BY <3>1, <3>2
  <2>7. h[0] = 1
    BY <2>1, <2>2 DEF Powers
  <2> HIDE DEF h
  <2>8. Powers(h, b, k + 1)
    BY <2>5, <2>6, <2>7 DEF Powers
  <2> QED BY <2>3, <2>8
<1> HIDE DEF H
<1>3. H = 0..n
  <2>1. H \in SUBSET (0..n)
    BY DEF H
  <2> QED BY <1>1, <1>2, <2>1, UpTo
<1> QED BY <1>3 DEF H

\* Two tables agree on the exponents of both.
LEMMA PowersAgree ==
    ASSUME NEW b \in Nat, NEW n \in Nat, NEW m \in 0..n, NEW g, Powers(g, b, n),
           NEW h, Powers(h, b, m)
    PROVE  h[m] = g[m]
<1> DEFINE H == {k \in 0..m : h[k] = g[k]}
<1>1. 0 \in H
  BY DEF Powers
<1>2. ASSUME NEW k \in 0..m - 1, k \in H PROVE k + 1 \in H
  <2>1. k + 1 \in 1..m /\ k + 1 \in 1..n /\ (k + 1) - 1 = k
    BY <1>2
  <2> QED BY <1>2, <2>1 DEF Powers
<1>3. H = 0..m
  <2>1. H \in SUBSET (0..m)
    OBVIOUS
  <2> HIDE DEF H
  <2> QED BY <1>1, <1>2, <2>1, UpTo
<1> QED BY <1>3

\* Power is read off such a table.
LEMMA PowerInTable ==
    ASSUME NEW b \in Nat, NEW n \in Nat, NEW g, Powers(g, b, n), NEW k \in 0..n
    PROVE  Power(b, k) = g[k]
<1> DEFINE Recursion(p) == p = [j \in 0..k |-> IF j = 0 THEN 1 ELSE b * p[j - 1]]
           power == CHOOSE p : Recursion(p)
<1>1. PICK h : Powers(h, b, k)
  BY PowersExist
<1>2. Recursion(h)
  <2>1. h = [j \in 0..k |-> h[j]]
    BY <1>1 DEF Powers
  <2>2. \A j \in 0..k : h[j] = IF j = 0 THEN 1 ELSE b * h[j - 1]
    BY <1>1 DEF Powers
  <2> QED BY <2>1, <2>2
<1>3. Recursion(power)
  BY <1>2
<1>4. power \in [0..k -> Nat]
  <2> DEFINE H == {j \in 0..k : power[j] \in Nat}
  <2> HIDE DEF power
  <2>1. \A j \in 0..k : power[j] = IF j = 0 THEN 1 ELSE b * power[j - 1]
    BY <1>3
  <2>2. 0 \in H
    BY <2>1
  <2>3. ASSUME NEW j \in 0..k - 1, j \in H PROVE j + 1 \in H
    <3>1. power[j + 1] = b * power[j] /\ power[j] \in Nat
      BY <2>1, <2>3
    <3> QED BY <3>1
  <2>4. H = 0..k
    <3>1. H \in SUBSET (0..k)
      OBVIOUS
    <3> HIDE DEF H
    <3> QED BY <2>2, <2>3, <3>1, UpTo
  <2> QED BY <1>3, <2>4
<1> HIDE DEF power
<1>5. Powers(power, b, k)
  <2>1. \A j \in 0..k : power[j] = IF j = 0 THEN 1 ELSE b * power[j - 1]
    BY <1>3
  <2> QED BY <1>4, <2>1 DEF Powers
<1>6. Power(b, k) = power[k]
  BY DEF Power, power
<1> QED BY <1>5, <1>6, PowersAgree

\* The equations of Power.
LEMMA PowerZero == ASSUME NEW b \in Nat PROVE Power(b, 0) = 1
<1>1. PICK g : Powers(g, b, 0)
  BY PowersExist
<1>2. Power(b, 0) = g[0]
  BY <1>1, PowerInTable
<1> QED BY <1>1, <1>2 DEF Powers

\* A power is a natural number, and the next is b times as much.
LEMMA PowerSucc ==
    ASSUME NEW b \in Nat, NEW k \in Nat
    PROVE  Power(b, k) \in Nat /\ Power(b, k + 1) = b * Power(b, k)
<1>1. PICK g : Powers(g, b, k + 1)
  BY PowersExist
<1>2. k \in 0..k + 1 /\ k + 1 \in 0..k + 1 /\ k + 1 \in 1..k + 1 /\ k + 1 \in Nat
  OBVIOUS
<1>3. Power(b, k) = g[k] /\ Power(b, k + 1) = g[k + 1]
  BY <1>1, <1>2, PowerInTable
<1> QED BY <1>1, <1>2, <1>3 DEF Powers

\* The powers of a positive base are positive.
LEMMA PowerPositive ==
    ASSUME NEW b \in Nat, b > 0, NEW n \in Nat PROVE Power(b, n) \in Nat /\ Power(b, n) > 0
<1> DEFINE H == {k \in 0..n : Power(b, k) > 0}
<1>1. \A k \in Nat : Power(b, k) \in Nat /\ Power(b, k + 1) = b * Power(b, k)
  BY PowerSucc
<1>2. 0 \in H
  BY PowerZero
<1>3. ASSUME NEW k \in 0..n - 1, k \in H PROVE k + 1 \in H
  <2>1. \A x \in Nat : x > 0 => b * x > 0
    OBVIOUS
  <2>2. Power(b, k) \in Nat /\ Power(b, k) > 0 /\ Power(b, k + 1) = b * Power(b, k)
    BY <1>1, <1>3
  <2> QED BY <2>1, <2>2
<1>4. H = 0..n
  <2>1. H \in SUBSET (0..n)
    OBVIOUS
  <2> HIDE DEF H
  <2> QED BY <1>2, <1>3, <2>1, UpTo
<1>5. n \in H
  BY <1>4
<1> QED BY <1>1, <1>5

\* A higher power is not less.
LEMMA PowerMonotonic ==
    ASSUME NEW b \in Nat, b > 0, NEW m \in Nat, NEW n \in Nat, m =< n
    PROVE  Power(b, m) =< Power(b, n)
<1> DEFINE H == {d \in 0..n - m : Power(b, m) =< Power(b, m + d)}
<1>1. \A k \in Nat : Power(b, k) \in Nat /\ Power(b, k + 1) = b * Power(b, k)
  BY PowerSucc
<1>2. 0 \in H
  <2>1. Power(b, m) \in Nat /\ m + 0 = m
    BY <1>1
  <2> QED BY <2>1
<1>3. ASSUME NEW d \in 0..n - m - 1, d \in H PROVE d + 1 \in H
  <2>1. \A x \in Nat : x =< b * x
    OBVIOUS
  <2>2. /\ Power(b, m + d) \in Nat /\ Power(b, (m + d) + 1) = b * Power(b, m + d)
        /\ (m + d) + 1 = m + (d + 1) /\ d + 1 \in 0..n - m
        /\ Power(b, m) \in Nat /\ Power(b, m) =< Power(b, m + d)
        /\ Power(b, (m + d) + 1) \in Nat
    BY <1>1, <1>3
  <2>3. Power(b, m + d) =< Power(b, m + (d + 1))
    BY <2>1, <2>2
  <2> QED BY <2>2, <2>3
<1>4. H = 0..n - m
  <2>1. H \in SUBSET (0..n - m) /\ n - m \in Nat
    OBVIOUS
  <2> HIDE DEF H
  <2> QED BY <1>2, <1>3, <2>1, UpTo
<1>5. n - m \in 0..n - m /\ m + (n - m) = n
  OBVIOUS
<1>6. n - m \in H
  BY <1>4, <1>5
<1> QED BY <1>5, <1>6

\* A power of a base of two or more is above its exponent.
LEMMA PowerAbove ==
    ASSUME NEW b \in Nat, b > 1, NEW n \in Nat PROVE n < Power(b, n)
<1> DEFINE H == {k \in 0..n : k < Power(b, k)}
<1>1. \A k \in Nat : Power(b, k) \in Nat /\ Power(b, k + 1) = b * Power(b, k)
  BY PowerSucc
<1>2. 0 \in H
  BY PowerZero
<1>3. ASSUME NEW k \in 0..n - 1, k \in H PROVE k + 1 \in H
  <2>1. \A x \in Nat : x > 0 => x + 1 =< b * x
    <3> SUFFICES ASSUME NEW x \in Nat, x > 0 PROVE x + 1 =< b * x
      OBVIOUS
    <3>1. PICK c \in Nat : b = c + 2
      <4>1. b - 2 \in Nat /\ b = (b - 2) + 2
        OBVIOUS
      <4> QED BY <4>1
    <3>2. b * x = c * x + 2 * x /\ c * x \in Nat
      BY <3>1
    <3> QED BY <3>2
  <2>2. Power(b, k) \in Nat /\ k < Power(b, k) /\ Power(b, k + 1) = b * Power(b, k)
    BY <1>1, <1>3
  <2>3. Power(b, k) + 1 =< Power(b, k + 1) /\ Power(b, k + 1) \in Nat
    BY <1>1, <2>1, <2>2
  <2> QED BY <2>2, <2>3
<1>4. H = 0..n
  <2>1. H \in SUBSET (0..n)
    OBVIOUS
  <2> HIDE DEF H
  <2> QED BY <1>2, <1>3, <2>1, UpTo
<1>5. n \in H
  BY <1>4
<1> QED BY <1>5

---------------------------------------------------------------------------
(* Quotients by powers, of which the digits are made.                        *)

\* A quotient is the number of times the divisor goes into the number.
LEMMA Quotient ==
    ASSUME NEW n \in Nat, NEW p \in Nat, p > 0
    PROVE  n \div p \in Nat /\ (n \div p) * p =< n /\ n < (n \div p + 1) * p
OBVIOUS

\* It is the only such number.
LEMMA QuotientIs ==
    ASSUME NEW n \in Nat, NEW p \in Nat, p > 0, NEW q \in Nat, q * p =< n, n < (q + 1) * p
    PROVE  n \div p = q
OBVIOUS

\* Multiplying keeps the order.
LEMMA TimesMonotonic ==
    ASSUME NEW x \in Nat, NEW y \in Nat, NEW p \in Nat, x =< y PROVE x * p =< y * p
<1>1. PICK d \in Nat : y = x + d
  <2>1. y - x \in Nat /\ y = x + (y - x)
    OBVIOUS
  <2> QED BY <2>1
<1>2. y * p = x * p + d * p /\ d * p \in Nat /\ x * p \in Nat
  BY <1>1
<1> QED BY <1>2

\* A larger number has no smaller quotient.
LEMMA QuotientMonotonic ==
    ASSUME NEW m \in Nat, NEW n \in Nat, NEW p \in Nat, p > 0, m =< n
    PROVE  m \div p =< n \div p
<1> DEFINE x == m \div p
           y == n \div p
<1>1. x \in Nat /\ y \in Nat /\ x * p =< m /\ n < (y + 1) * p
  BY Quotient
<1> HIDE DEF x, y
<1>2. ASSUME ~(x =< y) PROVE FALSE
  <2>1. y + 1 =< x /\ y + 1 \in Nat
    BY <1>1, <1>2
  <2>2. (y + 1) * p =< x * p
    BY <1>1, <2>1, TimesMonotonic
  <2>3. (y + 1) * p \in Nat /\ x * p \in Nat
    BY <1>1
  <2> QED BY <1>1, <2>2, <2>3
<1> QED BY <1>2 DEF x, y

\* Dividing twice is dividing by the product.
LEMMA QuotientOfQuotient ==
    ASSUME NEW n \in Nat, NEW p \in Nat, p > 0, NEW b \in Nat, b > 0
    PROVE  (n \div p) \div b = n \div (b * p)
<1> DEFINE a == n \div p
           q == a \div b
<1>1. a \in Nat /\ a * p =< n /\ n < (a + 1) * p
  BY Quotient
<1> HIDE DEF a
<1>2. q \in Nat /\ q * b =< a /\ a < (q + 1) * b
  BY <1>1, Quotient
<1> HIDE DEF q
<1>3. /\ q * b \in Nat /\ (q + 1) * b \in Nat /\ a + 1 \in Nat /\ a + 1 =< (q + 1) * b
      /\ (q * b) * p = q * (b * p) /\ ((q + 1) * b) * p = (q + 1) * (b * p)
      /\ b * p \in Nat /\ b * p > 0
  BY <1>1, <1>2
<1>4. (q * b) * p =< a * p /\ (a + 1) * p =< ((q + 1) * b) * p
  BY <1>1, <1>2, <1>3, TimesMonotonic
<1>5. q * (b * p) =< n /\ n < (q + 1) * (b * p)
  <2>1. /\ q * (b * p) \in Int /\ (q + 1) * (b * p) \in Int /\ a * p \in Int
        /\ (a + 1) * p \in Int
    BY <1>1, <1>2
  <2> QED BY <1>1, <1>3, <1>4, <2>1
<1>6. n \div (b * p) = q
  BY <1>2, <1>3, <1>5, QuotientIs
<1> QED BY <1>6 DEF a, q

\* What is left over is less than the divisor.
LEMMA Remainder ==
    ASSUME NEW n \in Nat, NEW p \in Nat, p > 0
    PROVE  n = p * (n \div p) + (n % p) /\ n % p \in 0..p - 1
OBVIOUS

\* A quotient is made of the next one and a digit.
LEMMA NextDigit ==
    ASSUME NEW n \in Nat, NEW b \in Nat, b > 1, NEW k \in Nat
    PROVE  /\ n \div Power(b, k) \in Nat
           /\ (n \div Power(b, k)) % b \in 0..b - 1
           /\ n \div Power(b, k) = b * (n \div Power(b, k + 1)) + ((n \div Power(b, k)) % b)
<1> DEFINE p == Power(b, k)
           a == n \div p
<1>1. p \in Nat /\ p > 0 /\ Power(b, k + 1) = b * p
  BY PowerPositive, PowerSucc
<1> HIDE DEF p
<1>2. a \in Nat /\ a \div b = n \div (b * p)
  BY <1>1, Quotient, QuotientOfQuotient
<1> HIDE DEF a
<1>3. a = b * (a \div b) + (a % b) /\ a % b \in 0..b - 1
  <2>1. b > 0
    OBVIOUS
  <2> QED BY <1>2, <2>1, Remainder
<1> QED BY <1>1, <1>2, <1>3 DEF p, a

Agree(b, w, m, n, k) == m \div Power(b, w - k) = n \div Power(b, w - k)
SameDigits(b, w, m, n, K) ==
    \A k \in 1..K : (m \div Power(b, w - k)) % b = (n \div Power(b, w - k)) % b

\* Two numbers that agree above a digit, and in the K digits from there, agree
\* on what these digits are the last of.
LEMMA SameQuotients ==
    ASSUME NEW b \in Nat, b > 1, NEW w \in Nat, NEW m \in Nat, NEW n \in Nat, NEW K \in 0..w,
           Agree(b, w, m, n, 0), SameDigits(b, w, m, n, K)
    PROVE  Agree(b, w, m, n, K)
<1> DEFINE H == {k \in 0..K : Agree(b, w, m, n, k)}
<1>1. 0 \in H
  OBVIOUS
<1>2. ASSUME NEW k \in 0..K - 1, k \in H PROVE k + 1 \in H
  <2> DEFINE j == w - (k + 1)
  <2>1. j \in Nat /\ j + 1 = w - k /\ k + 1 \in 1..K
    BY <1>2
  <2>2. /\ m \div Power(b, j + 1) = n \div Power(b, j + 1)
        /\ (m \div Power(b, j)) % b = (n \div Power(b, j)) % b
    BY <1>2, <2>1 DEF Agree, SameDigits
  <2>3. /\ m \div Power(b, j) = b * (m \div Power(b, j + 1)) + ((m \div Power(b, j)) % b)
        /\ n \div Power(b, j) = b * (n \div Power(b, j + 1)) + ((n \div Power(b, j)) % b)
    BY <2>1, NextDigit
  <2>4. m \div Power(b, j) = n \div Power(b, j)
    BY <2>2, <2>3, Zenon
  <2> QED BY <2>1, <2>4 DEF Agree
<1>3. H = 0..K
  <2>1. H \in SUBSET (0..K)
    OBVIOUS
  <2> HIDE DEF H
  <2> QED BY <1>1, <1>2, <2>1, UpTo
<1>4. K \in H
  BY <1>3
<1> QED BY <1>4

\* Dividing by one changes nothing, and by more than a number gives nothing.
LEMMA QuotientEnds ==
    ASSUME NEW b \in Nat, b > 0, NEW n \in Nat
    PROVE  /\ n \div Power(b, 0) = n
           /\ \A w \in Nat : n < Power(b, w) => n \div Power(b, w) = 0
<1>1. n \div 1 = n
  OBVIOUS
<1>2. ASSUME NEW w \in Nat, n < Power(b, w) PROVE n \div Power(b, w) = 0
  <2>1. Power(b, w) \in Nat /\ Power(b, w) > 0
    BY PowerPositive
  <2>2. 0 * Power(b, w) =< n /\ n < (0 + 1) * Power(b, w)
    BY <1>2, <2>1
  <2> QED BY <2>1, <2>2, QuotientIs
<1> QED BY <1>1, <1>2, PowerZero

---------------------------------------------------------------------------
(* Ids.                                                                      *)

\* A base has at least two digits, and an id at least one.
LEMMA BaseIsBase == Base \in Nat /\ Base > 1 /\ PadWidth \in Nat /\ PadWidth > 0
BY IDAssumption

\* The powers of the base, and the quotients by them.
LEMMA PowersOfBase ==
    /\ \A k \in Nat : Power(Base, k) \in Nat /\ Power(Base, k) > 0
    /\ \A n, k \in Nat : /\ n \div Power(Base, k) \in Nat
                         /\ (n \div Power(Base, k)) % Base \in 0..Base - 1
<1>1. Base > 0
  BY BaseIsBase
<1> QED BY <1>1, BaseIsBase, PowerPositive, NextDigit

\* An id is wide enough for its number, and no wider than the padding unless it
\* must be.
LEMMA WidthFits ==
    ASSUME NEW n \in Nat
    PROVE  /\ Width(n) \in Nat /\ Width(n) > 0 /\ n < Power(Base, Width(n))
           /\ n < Power(Base, PadWidth) => Width(n) = PadWidth
<1> DEFINE Fits(w) == n < Power(Base, w) /\ (w = PadWidth \/ n >= Power(Base, w - 1))
           T == {w \in PadWidth..PadWidth + n : n < Power(Base, w)}
<1>1. \E w \in PadWidth..PadWidth + n : Fits(w)
  <2>1. PadWidth + n \in T
    <3>1. PadWidth + n \in Nat /\ n =< PadWidth + n /\ PadWidth + n \in PadWidth..PadWidth + n
      BY BaseIsBase
    <3>2. PadWidth + n < Power(Base, PadWidth + n) /\ Power(Base, PadWidth + n) \in Nat
      BY <3>1, BaseIsBase, PowerAbove, PowerPositive
    <3> QED BY <3>1, <3>2
  <2>2. PICK w \in T : \A v \in T : w =< v
    <3>1. T \in SUBSET Nat
      BY BaseIsBase
    <3> HIDE DEF T
    <3> QED BY <2>1, <3>1, LeastNat
  <2>3. ASSUME w # PadWidth PROVE n >= Power(Base, w - 1)
    <3>1. w - 1 \in PadWidth..PadWidth + n /\ w - 1 \notin T /\ w - 1 \in Nat
      BY <2>2, <2>3, BaseIsBase
    <3>2. Power(Base, w - 1) \in Nat
      BY <3>1, BaseIsBase, PowerPositive
    <3> QED BY <3>1, <3>2
  <2> QED BY <2>2, <2>3
<1>2. Width(n) = CHOOSE w \in PadWidth..PadWidth + n : Fits(w)
  BY DEF Width
<1> HIDE DEF Fits
<1>3. Width(n) \in PadWidth..PadWidth + n /\ Fits(Width(n))
  BY <1>1, <1>2
<1>4. ASSUME n < Power(Base, PadWidth), Width(n) # PadWidth PROVE FALSE
  <2>1. Width(n) - 1 \in Nat /\ PadWidth =< Width(n) - 1
    BY <1>3, <1>4, BaseIsBase
  <2>2. Power(Base, PadWidth) =< Power(Base, Width(n) - 1)
    BY <2>1, BaseIsBase, PowerMonotonic
  <2>3. n >= Power(Base, Width(n) - 1)
    BY <1>3, <1>4 DEF Fits
  <2>4. \A k \in Nat : Power(Base, k) \in Nat
    BY BaseIsBase, PowerSucc
  <2> QED BY <1>4, <2>1, <2>2, <2>3, <2>4, BaseIsBase
<1> QED BY <1>3, <1>4, BaseIsBase DEF Fits

\* The digits of an id.
LEMMA FormatDigits ==
    ASSUME NEW n \in Nat
    PROVE  /\ Format(n) \in Seq(Nat) /\ Len(Format(n)) = Width(n)
           /\ \A k \in 1..Width(n) :
                  Format(n)[k] = (n \div Power(Base, Width(n) - k)) % Base
<1>1. \A k \in 1..Width(n) : (n \div Power(Base, Width(n) - k)) % Base \in Nat
  <2> SUFFICES ASSUME NEW k \in 1..Width(n)
               PROVE  (n \div Power(Base, Width(n) - k)) % Base \in Nat
    OBVIOUS
  <2>1. Width(n) - k \in Nat
    BY WidthFits
  <2>2. (n \div Power(Base, Width(n) - k)) % Base \in 0..Base - 1
    BY <2>1, BaseIsBase, NextDigit
  <2> QED BY <2>2, BaseIsBase
<1>2. Width(n) \in Nat
  BY WidthFits
<1> QED BY <1>1, <1>2 DEF Format

\* What is printed is read back, for every number: padding is trimmed, and no
\* digit is cut.
LEMMA ParseFormat == ASSUME NEW n \in Nat PROVE Parse(Format(n)) = n
<1> DEFINE W == Width(n)
           id == Format(n)
           Recursion(v) == v = [k \in 0..W |-> IF k = 0 THEN 0 ELSE Base * v[k - 1] + id[k]]
           value == CHOOSE v : Recursion(v)
           before == [k \in 0..W |-> n \div Power(Base, W - k)]
<1>1. W \in Nat /\ n < Power(Base, W) /\ Len(id) = W
  BY WidthFits, FormatDigits
<1>2. Parse(id) = value[W]
  BY <1>1 DEF Parse
<1>3. before[0] = 0 /\ before[W] = n
  <2>1. W - 0 = W /\ W - W = 0 /\ 0 \in 0..W /\ W \in 0..W
    BY <1>1
  <2>2. n \div Power(Base, 0) = n /\ n \div Power(Base, W) = 0
    BY <1>1, BaseIsBase, QuotientEnds
  <2> QED BY <2>1, <2>2
<1>4. \A k \in 1..W : before[k] = Base * before[k - 1] + id[k]
  <2> SUFFICES ASSUME NEW k \in 1..W PROVE before[k] = Base * before[k - 1] + id[k]
    OBVIOUS
  <2>1. W - k \in Nat /\ (W - k) + 1 = W - (k - 1) /\ k \in 0..W /\ k - 1 \in 0..W
    BY <1>1
  <2>2. n \div Power(Base, W - k) =
            Base * (n \div Power(Base, (W - k) + 1)) + ((n \div Power(Base, W - k)) % Base)
    BY <2>1, BaseIsBase, NextDigit
  <2>3. id[k] = (n \div Power(Base, W - k)) % Base
    BY FormatDigits
  <2>4. before[k] = n \div Power(Base, W - k)
        /\ before[k - 1] = n \div Power(Base, W - (k - 1))
    BY <2>1
  <2> HIDE DEF before, id, W
  <2> QED BY <2>1, <2>2, <2>3, <2>4, Zenon
<1>5. Recursion(before)
  <2>1. \A k \in 0..W : before[k] = IF k = 0 THEN 0 ELSE Base * before[k - 1] + id[k]
    <3>1. \A k \in 0..W : k = 0 \/ k \in 1..W
      BY <1>1
    <3> HIDE DEF before
    <3> QED BY <1>3, <1>4, <3>1
  <2>2. before = [k \in 0..W |-> before[k]]
    OBVIOUS
  <2> HIDE DEF before
  <2> QED BY <2>1, <2>2
<1>6. Recursion(value)
  BY <1>5
<1> DEFINE H == {k \in 0..W : value[k] = before[k]}
<1> HIDE DEF value, before, id
<1>7. H = 0..W
  <2>1. \A k \in 0..W : value[k] = IF k = 0 THEN 0 ELSE Base * value[k - 1] + id[k]
    BY <1>6
  <2>2. 0 \in H
    BY <1>1, <1>3, <2>1
  <2>3. ASSUME NEW k \in 0..W - 1, k \in H PROVE k + 1 \in H
    <3>1. k + 1 \in 1..W /\ k + 1 \in 0..W /\ (k + 1) - 1 = k
      BY <1>1, <2>3
    <3> QED BY <1>4, <2>1, <2>3, <3>1
  <2>4. H \in SUBSET (0..W)
    OBVIOUS
  <2> HIDE DEF H
  <2> QED BY <1>1, <2>2, <2>3, <2>4, UpTo
<1>8. W \in H
  BY <1>1, <1>7
<1> QED BY <1>2, <1>3, <1>8 DEF id

---------------------------------------------------------------------------
(* The order of text.                                                        *)

\* s comes before t from the character after the first k.
Splits(s, t, k) ==
    /\ k =< Len(t) /\ \A j \in 1..k : s[j] = t[j]
    /\ IF k = Len(s) THEN k < Len(t) ELSE k < Len(t) /\ s[k + 1] < t[k + 1]

\* No two texts come before each other, nor one before itself.
LEMMA BeforeAsymmetric ==
    ASSUME NEW s \in Seq(Int), NEW t \in Seq(Int), Before(s, t) PROVE ~Before(t, s)
<1> SUFFICES ASSUME Before(t, s) PROVE FALSE
  OBVIOUS
<1>1. PICK k \in 0..Len(s) : Splits(s, t, k)
  BY DEF Before, Splits
<1>2. PICK i \in 0..Len(t) : Splits(t, s, i)
  BY DEF Before, Splits
<1>3. Len(s) \in Nat /\ Len(t) \in Nat
  OBVIOUS
<1>4. CASE k < i
  <2>1. k + 1 \in 1..i /\ k # Len(s) /\ k + 1 \in 1..Len(s) /\ k + 1 \in 1..Len(t)
    BY <1>2, <1>3, <1>4 DEF Splits
  <2>2. s[k + 1] = t[k + 1] /\ s[k + 1] < t[k + 1] /\ s[k + 1] \in Int /\ t[k + 1] \in Int
    BY <1>1, <1>2, <2>1 DEF Splits
  <2> QED BY <2>2
<1>5. CASE i < k
  <2>1. i + 1 \in 1..k /\ i # Len(t) /\ i + 1 \in 1..Len(s) /\ i + 1 \in 1..Len(t)
    BY <1>1, <1>3, <1>5 DEF Splits
  <2>2. s[i + 1] = t[i + 1] /\ t[i + 1] < s[i + 1] /\ s[i + 1] \in Int /\ t[i + 1] \in Int
    BY <1>1, <1>2, <2>1 DEF Splits
  <2> QED BY <2>2
<1>6. CASE i = k
  <2>1. k < Len(t) /\ k < Len(s)
    BY <1>1, <1>2, <1>3, <1>6 DEF Splits
  <2>2. k + 1 \in 1..Len(s) /\ k + 1 \in 1..Len(t)
    BY <1>3, <2>1
  <2>3. s[k + 1] < t[k + 1] /\ t[k + 1] < s[k + 1] /\ s[k + 1] \in Int /\ t[k + 1] \in Int
    BY <1>1, <1>2, <1>6, <2>1, <2>2 DEF Splits
  <2> QED BY <2>3
<1> QED BY <1>3, <1>4, <1>5, <1>6

\* What comes before what comes before u comes before u.
LEMMA BeforeTransitive ==
    ASSUME NEW s \in Seq(Int), NEW t \in Seq(Int), NEW u \in Seq(Int), Before(s, t), Before(t, u)
    PROVE  Before(s, u)
<1>1. PICK k \in 0..Len(s) : Splits(s, t, k)
  BY DEF Before, Splits
<1>2. PICK i \in 0..Len(t) : Splits(t, u, i)
  BY DEF Before, Splits
<1>3. Len(s) \in Nat /\ Len(t) \in Nat /\ Len(u) \in Nat
  OBVIOUS
<1>4. CASE k < i
  <2>1. k + 1 \in 1..i /\ k + 1 \in 1..Len(t) /\ k + 1 \in 1..Len(u)
    BY <1>2, <1>3, <1>4 DEF Splits
  <2>2. t[k + 1] = u[k + 1] /\ \A j \in 1..k : s[j] = u[j]
    BY <1>1, <1>2, <1>3, <1>4, <2>1 DEF Splits
  <2>3. Splits(s, u, k)
    BY <1>1, <1>3, <2>1, <2>2 DEF Splits
  <2> QED BY <2>3 DEF Before, Splits
<1>5. CASE i =< k
  <2>1. i < Len(t) /\ i < Len(u) /\ t[i + 1] < u[i + 1]
    BY <1>1, <1>2, <1>3, <1>5 DEF Splits
  <2>2. \A j \in 1..i : s[j] = u[j]
    BY <1>1, <1>2, <1>3, <1>5 DEF Splits
  <2>3. CASE i = Len(s)
    <3>1. Splits(s, u, i)
      BY <1>3, <2>1, <2>2, <2>3 DEF Splits
    <3> QED BY <1>3, <2>3, <3>1 DEF Before, Splits
  <2>4. CASE i # Len(s)
    <3>1. i < Len(s) /\ i + 1 \in 1..Len(s) /\ i + 1 \in 1..Len(t) /\ i + 1 \in 1..Len(u)
      BY <1>1, <1>3, <1>5, <2>1, <2>4
    <3>2. s[i + 1] \in Int /\ t[i + 1] \in Int /\ u[i + 1] \in Int
      BY <3>1
    <3>3. s[i + 1] =< t[i + 1]
      <4>1. CASE i < k
        <5>1. i + 1 \in 1..k
          BY <1>3, <4>1
        <5> QED BY <1>1, <3>2, <5>1 DEF Splits
      <4>2. CASE i = k
        BY <1>1, <2>4, <3>2, <4>2 DEF Splits
      <4> QED BY <1>3, <1>5, <4>1, <4>2
    <3>4. s[i + 1] < u[i + 1] /\ i =< Len(u)
      <4>1. i \in Nat /\ i < Len(u)
        BY <1>3, <2>1
      <4>2. s[i + 1] < u[i + 1]
        BY <2>1, <3>2, <3>3
      <4> QED BY <1>3, <4>1, <4>2
    <3>6. Splits(s, u, i)
      BY <2>1, <2>2, <2>4, <3>4 DEF Splits
    <3>5. i \in 0..Len(s)
      BY <1>2, <1>3, <3>1
    <3> QED BY <3>5, <3>6 DEF Before, Splits
  <2> QED BY <2>3, <2>4
<1> QED BY <1>3, <1>4, <1>5

\* Of two texts one comes first.
LEMMA BeforeTotal ==
    ASSUME NEW s \in Seq(Int), NEW t \in Seq(Int), s # t PROVE Before(s, t) \/ Before(t, s)
<1> DEFINE Differ == {j \in 1..Len(s) : j =< Len(t) /\ s[j] # t[j]}
<1>1. Len(s) \in Nat /\ Len(t) \in Nat
  OBVIOUS
<1>2. CASE Differ = {}
  <2>1. \A j \in 1..Len(s) : j =< Len(t) => s[j] = t[j]
    BY <1>2
  <2>2. Len(s) # Len(t)
    <3> SUFFICES ASSUME Len(s) = Len(t) PROVE FALSE
      OBVIOUS
    <3>1. \A j \in 1..Len(s) : s[j] = t[j]
      BY <1>1, <2>1
    <3> QED BY <3>1
  <2>3. CASE Len(s) < Len(t)
    <3>1. Splits(s, t, Len(s))
      BY <1>1, <2>1, <2>3 DEF Splits
    <3>2. Len(s) \in 0..Len(s)
      BY <1>1
    <3> QED BY <3>1, <3>2 DEF Before, Splits
  <2>4. CASE Len(t) < Len(s)
    <3>1. Splits(t, s, Len(t))
      BY <1>1, <2>1, <2>4 DEF Splits
    <3>2. Len(t) \in 0..Len(t)
      BY <1>1
    <3> QED BY <3>1, <3>2 DEF Before, Splits
  <2> QED BY <1>1, <2>2, <2>3, <2>4
<1>3. CASE Differ # {}
  <2>1. PICK j \in Differ : \A i \in Differ : j =< i
    <3>1. Differ \in SUBSET Nat
      OBVIOUS
    <3> HIDE DEF Differ
    <3> QED BY <1>3, <3>1, LeastNat
  <2> DEFINE k == j - 1
  <2>2. /\ k \in 0..Len(s) /\ k \in 0..Len(t) /\ k < Len(s) /\ k < Len(t) /\ k + 1 = j
        /\ j \in 1..Len(s) /\ j \in 1..Len(t) /\ s[j] # t[j]
    BY <1>1, <2>1
  <2>3. \A i \in 1..k : s[i] = t[i]
    <3> SUFFICES ASSUME NEW i \in 1..k PROVE s[i] = t[i]
      OBVIOUS
    <3>1. i \in 1..Len(s) /\ i =< Len(t) /\ ~(j =< i)
      BY <1>1, <2>2
    <3> QED BY <2>1, <3>1
  <2>4. s[j] \in Int /\ t[j] \in Int
    BY <2>2
  <2> HIDE DEF k
  <2>5. CASE s[j] < t[j]
    <3>1. Splits(s, t, k)
      BY <1>1, <2>2, <2>3, <2>5 DEF Splits
    <3> QED BY <2>2, <3>1 DEF Before, Splits
  <2>6. CASE t[j] < s[j]
    <3>1. Splits(t, s, k)
      BY <1>1, <2>2, <2>3, <2>6 DEF Splits
    <3> QED BY <2>2, <3>1 DEF Before, Splits
  <2> QED BY <2>2, <2>4, <2>5, <2>6
<1> QED BY <1>2, <1>3

\* Ids no wider than the padding are ordered as their numbers are.
LEMMA IdOrder ==
    ASSUME NEW m \in Nat, NEW n \in Nat, n < Power(Base, PadWidth), m < n
    PROVE  Before(Format(m), Format(n))
<1> DEFINE W == PadWidth
           s == Format(m)
           t == Format(n)
<1>1. W \in Nat /\ m < Power(Base, W) /\ Width(m) = W /\ Width(n) = W
  <2>1. m < Power(Base, W)
    <3>1. Power(Base, W) \in Nat
      BY BaseIsBase, PowerPositive
    <3> QED BY <3>1
  <2> QED BY <2>1, BaseIsBase, WidthFits
<1>2. /\ s \in Seq(Nat) /\ t \in Seq(Nat) /\ Len(s) = W /\ Len(t) = W
      /\ \A k \in 1..W : s[k] = (m \div Power(Base, W - k)) % Base
      /\ \A k \in 1..W : t[k] = (n \div Power(Base, W - k)) % Base
  BY <1>1, FormatDigits
<1> HIDE DEF s, t
<1>3. m \div Power(Base, W) = n \div Power(Base, W)
  <2>1. m \div Power(Base, W) = 0 /\ n \div Power(Base, W) = 0
    BY <1>1, BaseIsBase, QuotientEnds
  <2> QED BY <2>1
<1> HIDE DEF W
<1>4. \E j \in 1..W : s[j] # t[j]
  <2> SUFFICES ASSUME \A j \in 1..W : s[j] = t[j] PROVE FALSE
    OBVIOUS
  <2>1. W \in 0..W /\ W - W = 0
    BY <1>1
  <2>2. \A k \in 1..W : (m \div Power(Base, W - k)) % Base = (n \div Power(Base, W - k)) % Base
    BY <1>2
  <2>3. m \div Power(Base, W - W) = n \div Power(Base, W - W)
    <3>1. Agree(Base, W, m, n, 0)
      BY <1>1, <1>3 DEF Agree
    <3>2. SameDigits(Base, W, m, n, W)
      BY <2>2 DEF SameDigits
    <3>3. Agree(Base, W, m, n, W)
      BY <1>1, <2>1, <3>1, <3>2, BaseIsBase, SameQuotients
    <3> QED BY <3>3 DEF Agree
  <2>4. m \div Power(Base, 0) = m /\ n \div Power(Base, 0) = n
    <3>1. Base > 0
      BY BaseIsBase
    <3> QED BY <3>1, BaseIsBase, QuotientEnds
  <2> QED BY <2>1, <2>3, <2>4
<1> DEFINE Differ == {j \in 1..W : s[j] # t[j]}
<1>5. PICK j \in Differ : \A i \in Differ : j =< i
  <2>1. Differ \in SUBSET Nat /\ Differ # {}
    BY <1>1, <1>4
  <2> HIDE DEF Differ
  <2> QED BY <2>1, LeastNat
<1>6. j \in 1..W /\ s[j] # t[j] /\ \A i \in 1..j - 1 : s[i] = t[i]
  BY <1>1, <1>5
<1>7. W - j \in Nat /\ (W - j) + 1 = W - (j - 1) /\ j - 1 \in 0..W /\ W \in Nat
  BY <1>1, <1>6
<1>8. m \div Power(Base, W - (j - 1)) = n \div Power(Base, W - (j - 1))
  <2>1. \A i \in 1..j - 1 : (m \div Power(Base, W - i)) % Base = (n \div Power(Base, W - i)) % Base
    <3>1. \A i \in 1..j - 1 : i \in 1..W
      BY <1>6, <1>7
    <3> QED BY <1>2, <1>6, <3>1
  <2>2. Agree(Base, W, m, n, 0)
    BY <1>1, <1>3 DEF Agree
  <2>3. SameDigits(Base, W, m, n, j - 1)
    BY <2>1 DEF SameDigits
  <2>4. Agree(Base, W, m, n, j - 1)
    BY <1>7, <2>2, <2>3, BaseIsBase, SameQuotients
  <2> QED BY <2>4 DEF Agree
<1>9. m \div Power(Base, W - j) =< n \div Power(Base, W - j)
  <2>1. Power(Base, W - j) \in Nat /\ Power(Base, W - j) > 0
    BY <1>7, PowersOfBase
  <2> QED BY <2>1, QuotientMonotonic
<1>10. s[j] < t[j]
  <2> DEFINE x == m \div Power(Base, W - j)
             y == n \div Power(Base, W - j)
             z == Base * (n \div Power(Base, (W - j) + 1))
  <2>1. x = z + s[j] /\ y = z + t[j]
    <3>1. /\ x = Base * (m \div Power(Base, (W - j) + 1)) + (x % Base)
          /\ y = Base * (n \div Power(Base, (W - j) + 1)) + (y % Base)
      BY <1>7, BaseIsBase, NextDigit
    <3>2. s[j] = x % Base /\ t[j] = y % Base
      BY <1>2, <1>6
    <3>3. m \div Power(Base, (W - j) + 1) = n \div Power(Base, (W - j) + 1)
      BY <1>7, <1>8
    <3> HIDE DEF x, y
    <3> QED BY <3>1, <3>2, <3>3, Zenon
  <2>2. z \in Int /\ s[j] \in Int /\ t[j] \in Int
    <3>1. n \div Power(Base, (W - j) + 1) \in Nat
      <4>1. (W - j) + 1 \in Nat
        BY <1>7
      <4> QED BY <4>1, PowersOfBase
    <3>2. \A q \in Nat : Base * q \in Int
      BY BaseIsBase
    <3>3. s[j] \in Nat /\ t[j] \in Nat
      BY <1>2, <1>6
    <3> QED BY <3>1, <3>2, <3>3
  <2>3. x =< y
    BY <1>9
  <2> HIDE DEF x, y, z
  <2> QED BY <1>6, <2>1, <2>2, <2>3
<1>11. Splits(s, t, j - 1)
  BY <1>2, <1>6, <1>7, <1>10 DEF Splits
<1>12. Before(s, t)
  BY <1>2, <1>7, <1>11 DEF Before, Splits
<1> QED BY <1>12 DEF s, t

---------------------------------------------------------------------------
(* The place of an element in a list ordered by texts, the last text first.  *)

Keys(S, f) ==
    /\ IsFiniteSet(S) /\ \A x \in S : f[x] \in Seq(Int)
    /\ \A x, y \in S : f[x] = f[y] => x = y
Ahead(S, f, x) == {y \in S : Before(f[x], f[y])}
Rank(S, f, x) == Cardinality(Ahead(S, f, x))

\* Places are numbers less than the length of the list.
LEMMA RankType ==
    ASSUME NEW S, NEW f, Keys(S, f), NEW x \in S
    PROVE  /\ IsFiniteSet(Ahead(S, f, x)) /\ Cardinality(S) \in Nat
           /\ Rank(S, f, x) \in Nat /\ Rank(S, f, x) < Cardinality(S)
           /\ x \notin Ahead(S, f, x)
<1> DEFINE A == Ahead(S, f, x)
<1>1. A \in SUBSET S /\ IsFiniteSet(S)
  BY DEF Keys, Ahead
<1>2. x \notin A
  <2>1. f[x] \in Seq(Int)
    BY DEF Keys
  <2> QED BY <2>1, BeforeAsymmetric DEF Ahead
<1> HIDE DEF A
<1>3. IsFiniteSet(A) /\ Cardinality(A) =< Cardinality(S) /\ Cardinality(A) # Cardinality(S)
  BY <1>1, <1>2, FS_Subset
<1>4. Cardinality(A) \in Nat /\ Cardinality(S) \in Nat
  BY <1>1, <1>3, FS_CardinalityType
<1> QED BY <1>2, <1>3, <1>4 DEF A, Rank

\* What is ahead of another has a lower place.
LEMMA RankStrict ==
    ASSUME NEW S, NEW f, Keys(S, f), NEW x \in S, NEW y \in Ahead(S, f, x)
    PROVE  y \in S /\ Rank(S, f, y) < Rank(S, f, x)
<1> DEFINE A == Ahead(S, f, x)
           B == Ahead(S, f, y)
<1>1. y \in S /\ Before(f[x], f[y]) /\ f[x] \in Seq(Int) /\ f[y] \in Seq(Int)
  BY DEF Ahead, Keys
<1>2. B \in SUBSET A
  <2> SUFFICES ASSUME NEW z \in B PROVE z \in A
    OBVIOUS
  <2>1. z \in S /\ f[z] \in Seq(Int) /\ Before(f[y], f[z])
    BY DEF Ahead, Keys
  <2>2. Before(f[x], f[z])
    BY <1>1, <2>1, BeforeTransitive
  <2> QED BY <2>1, <2>2 DEF Ahead
<1>3. y \in A /\ y \notin B
  BY <1>1, RankType
<1>4. IsFiniteSet(A) /\ Cardinality(A) \in Nat /\ Cardinality(B) \in Nat
  BY <1>1, RankType DEF Rank
<1> HIDE DEF A, B
<1>5. Cardinality(B) =< Cardinality(A) /\ Cardinality(B) # Cardinality(A)
  BY <1>2, <1>3, <1>4, FS_Subset
<1> QED BY <1>1, <1>4, <1>5 DEF A, B, Rank

\* No two elements share a place, and of two one is ahead of the other.
LEMMA RankDistinct ==
    ASSUME NEW S, NEW f, Keys(S, f), NEW x \in S, NEW y \in S, x # y
    PROVE  Rank(S, f, x) # Rank(S, f, y) /\ (y \in Ahead(S, f, x) \/ x \in Ahead(S, f, y))
<1>1. f[x] \in Seq(Int) /\ f[y] \in Seq(Int) /\ f[x] # f[y]
  BY DEF Keys
<1>2. y \in Ahead(S, f, x) \/ x \in Ahead(S, f, y)
  BY <1>1, BeforeTotal DEF Ahead
<1>3. Rank(S, f, x) \in Nat /\ Rank(S, f, y) \in Nat
  BY RankType
<1>4. CASE y \in Ahead(S, f, x)
  BY <1>3, <1>4, RankStrict
<1>5. CASE x \in Ahead(S, f, y)
  BY <1>3, <1>5, RankStrict
<1> QED BY <1>2, <1>4, <1>5

\* There are no gaps: next to an element that is not the first is another.
LEMMA RankPredecessor ==
    ASSUME NEW S, NEW f, Keys(S, f), NEW x \in S, Rank(S, f, x) # 0
    PROVE  \E y \in S : Rank(S, f, x) = Rank(S, f, y) + 1
<1> DEFINE A == Ahead(S, f, x)
           C == Cardinality(S)
           T == {C - Rank(S, f, y) : y \in A}
<1>1. /\ \A y \in S : Rank(S, f, y) \in Nat /\ Rank(S, f, y) < C
      /\ C \in Nat /\ IsFiniteSet(A) /\ x \notin A /\ A \in SUBSET S
  <2>1. A \in SUBSET S
    BY DEF Ahead
  <2> QED BY <2>1, RankType
<1>2. A # {}
  BY <1>1, FS_EmptySet DEF Rank
<1> HIDE DEF A, C
<1>3. PICK y \in A : \A z \in A : Rank(S, f, z) =< Rank(S, f, y)
  <2>1. T \in SUBSET Nat /\ T # {}
    BY <1>1, <1>2
  <2> HIDE DEF T
  <2>2. PICK t \in T : \A u \in T : t =< u
    BY <2>1, LeastNat
  <2>3. PICK y \in A : t = C - Rank(S, f, y)
    BY <2>2 DEF T
  <2>4. \A z \in A : C - Rank(S, f, y) =< C - Rank(S, f, z)
    BY <2>2, <2>3 DEF T
  <2>5. \A z \in A : Rank(S, f, z) =< Rank(S, f, y)
    BY <1>1, <2>3, <2>4
  <2> QED BY <2>3, <2>5
<1>4. y \in S /\ y \in Ahead(S, f, x)
  BY <1>1 DEF A
<1>5. Ahead(S, f, y) \in SUBSET A
  <2> SUFFICES ASSUME NEW z \in Ahead(S, f, y) PROVE z \in A
    OBVIOUS
  <2>1. /\ z \in S /\ f[z] \in Seq(Int) /\ Before(f[y], f[z])
        /\ Before(f[x], f[y]) /\ f[x] \in Seq(Int) /\ f[y] \in Seq(Int)
    BY <1>4 DEF Ahead, Keys
  <2>2. Before(f[x], f[z])
    BY <2>1, BeforeTransitive
  <2> QED BY <2>1, <2>2 DEF A, Ahead
<1>6. A = Ahead(S, f, y) \cup {y}
  <2> SUFFICES ASSUME NEW z \in A, z # y PROVE z \in Ahead(S, f, y)
    BY <1>3, <1>5
  <2>1. z \in S /\ y \in S
    BY <1>1
  <2>2. ASSUME y \in Ahead(S, f, z) PROVE FALSE
    <3>1. Rank(S, f, y) < Rank(S, f, z)
      BY <2>1, <2>2, RankStrict
    <3> QED BY <1>1, <1>3, <2>1, <3>1
  <2> QED BY <2>1, <2>2, RankDistinct
<1>7. IsFiniteSet(Ahead(S, f, y)) /\ y \notin Ahead(S, f, y)
  BY <1>4, RankType
<1>8. Cardinality(A) = Cardinality(Ahead(S, f, y)) + 1
  BY <1>6, <1>7, FS_AddElement
<1> QED BY <1>4, <1>8 DEF A, Rank

\* Of some elements one is first.
LEMMA RankFirst ==
    ASSUME NEW S, NEW f, Keys(S, f), S # {}
    PROVE  \E x \in S : Rank(S, f, x) = 0 /\ \A y \in S \ {x} : Before(f[y], f[x])
<1> DEFINE T == {Rank(S, f, x) : x \in S}
<1>1. \A x \in S : Rank(S, f, x) \in Nat
  BY RankType
<1>2. PICK t \in T : \A u \in T : t =< u
  <2>1. T \in SUBSET Nat /\ T # {}
    BY <1>1
  <2> HIDE DEF T
  <2> QED BY <2>1, LeastNat
<1>3. PICK x \in S : t = Rank(S, f, x)
  BY <1>2
<1>4. \A y \in S : Rank(S, f, x) =< Rank(S, f, y)
  BY <1>2, <1>3
<1> HIDE DEF T
<1>5. Rank(S, f, x) = 0
  <2> SUFFICES ASSUME Rank(S, f, x) # 0 PROVE FALSE
    OBVIOUS
  <2>1. PICK y \in S : Rank(S, f, x) = Rank(S, f, y) + 1
    BY RankPredecessor
  <2> QED BY <1>1, <1>4, <2>1
<1>6. ASSUME NEW y \in S \ {x} PROVE Before(f[y], f[x])
  <2>1. ASSUME y \in Ahead(S, f, x) PROVE FALSE
    <3>1. Rank(S, f, y) < Rank(S, f, x)
      BY <2>1, RankStrict
    <3> QED BY <1>1, <1>4, <3>1
  <2> QED BY <2>1, RankDistinct DEF Ahead
<1> QED BY <1>5, <1>6

---------------------------------------------------------------------------
(* The seed of the counter.                                                  *)

Ids == {Format(n) : n \in Numbers}

\* The ids of a bounded counter are as many as its values at most.
LEMMA IdsFinite ==
    /\ IsFiniteSet(Ids) /\ Cardinality(Ids) \in Nat /\ Cardinality(Ids) =< MaxN
    /\ \A id \in Ids : id \in Seq(Nat) /\ Parse(id) \in 1..MaxN /\ id = Format(Parse(id))
<1>1. MaxN \in Nat /\ Numbers = 1..MaxN
  BY StoreAssumption DEF Numbers
<1>2. [n \in Numbers |-> Format(n)] \in Surjection(Numbers, Ids)
  BY DEF Surjection, Ids
<1>3. IsFiniteSet(Numbers) /\ Cardinality(Numbers) = MaxN
  BY <1>1, FS_Interval
<1>4. IsFiniteSet(Ids) /\ Cardinality(Ids) =< MaxN /\ Cardinality(Ids) \in Nat
  BY <1>2, <1>3, FS_Surjection, FS_CardinalityType
<1>5. ASSUME NEW n \in Numbers
      PROVE  Format(n) \in Seq(Nat) /\ Parse(Format(n)) = n
  <2>1. n \in Nat
    BY <1>1
  <2> QED BY <2>1, FormatDigits, ParseFormat
<1> QED BY <1>1, <1>4, <1>5 DEF Ids

\* GetMaxSessionID finds the id that all others come before.
LEMMA MaxFound ==
    ASSUME NEW ids \in SUBSET Ids, ids # {}
    PROVE  /\ GetMaxSessionID(ids) \in ids
           /\ \A other \in ids \ {GetMaxSessionID(ids)} : Before(other, GetMaxSessionID(ids))
<1> DEFINE f == [id \in ids |-> id]
<1>1. Keys(ids, f)
  <2>1. IsFiniteSet(ids) /\ \A id \in ids : id \in Seq(Int)
    BY IdsFinite, FS_Subset
  <2> QED BY <2>1 DEF Keys
<1>2. PICK x \in ids : \A y \in ids \ {x} : Before(f[y], f[x])
  <2> HIDE DEF f
  <2> QED BY <1>1, RankFirst
<1>3. \A y \in ids \ {x} : First(x, y)
  BY <1>2 DEF First
<1> QED BY <1>3, Zenon DEF GetMaxSessionID, First

\* The seed is a number that was given out, or 0.
LEMMA SeedType == ASSUME NEW ids \in SUBSET Ids PROVE Seed(ids) \in 0..MaxN
<1>1. MaxN \in Nat
  BY StoreAssumption
<1>2. CASE ids = {}
  BY <1>1, <1>2 DEF Seed
<1>3. CASE ids # {}
  <2>1. GetMaxSessionID(ids) \in Ids
    BY <1>3, MaxFound
  <2> QED BY <1>1, <1>3, <2>1, IdsFinite DEF Seed
<1> QED BY <1>2, <1>3

\* The seed is behind no stored number that fits the padding, whatever longer
\* ids are stored.
LEMMA SeedAhead ==
    ASSUME NEW ids \in SUBSET Ids, NEW id \in ids, FitsPadding(id)
    PROVE  Parse(id) =< Seed(ids)
<1> DEFINE top == GetMaxSessionID(ids)
<1>1. ids # {} /\ top \in ids /\ \A other \in ids \ {top} : Before(other, top)
  BY MaxFound
<1>2. Seed(ids) = Parse(top)
  BY <1>1 DEF Seed
<1> HIDE DEF top
<1>3. /\ id \in Seq(Int) /\ Parse(id) \in 1..MaxN /\ id = Format(Parse(id))
      /\ top \in Seq(Int) /\ Parse(top) \in 1..MaxN /\ top = Format(Parse(top))
  BY <1>1, IdsFinite
<1>4. ASSUME Parse(top) < Parse(id) PROVE FALSE
  <2>1. Parse(id) \in Nat /\ Parse(top) \in Nat /\ Parse(id) < Power(Base, PadWidth)
    <3>1. Power(Base, PadWidth) \in Nat /\ MaxN \in Nat
      BY BaseIsBase, PowersOfBase, StoreAssumption
    <3> QED BY <1>3, <3>1 DEF FitsPadding
  <2>2. Before(top, id)
    BY <1>3, <1>4, <2>1, IdOrder
  <2>3. id # top
    BY <1>3, <1>4
  <2>4. Before(id, top)
    BY <1>1, <2>3
  <2> QED BY <1>3, <2>2, <2>4, BeforeAsymmetric
<1> QED BY <1>2, <1>3, <1>4

---------------------------------------------------------------------------
(* Timestamps.                                                               *)

LastDigit(t) == CHOOSE k \in 0..FracDigits :
    /\ k = 0 \/ Fraction(t)[k] # 0
    /\ \A j \in k + 1..FracDigits : Fraction(t)[j] = 0

\* The seconds and the digits of a time.
LEMMA TimeParts ==
    ASSUME NEW t \in Times
    PROVE  /\ t \in Nat /\ FracDigits \in Nat /\ Second(t) \in Nat
           /\ \A k \in 1..FracDigits :
                  /\ Fraction(t)[k] = (t \div Power(2, FracDigits - k)) % 2
                  /\ Fraction(t)[k] \in 0..1
<1>1. t \in Nat /\ FracDigits \in Nat
  BY StoreAssumption DEF Times
<1>2. \A k \in Nat : t \div Power(2, k) \in Nat /\ (t \div Power(2, k)) % 2 \in 0..2 - 1
  <2> SUFFICES ASSUME NEW b, b = 2, NEW k \in Nat
               PROVE  t \div Power(b, k) \in Nat /\ (t \div Power(b, k)) % b \in 0..b - 1
    OBVIOUS
  <2>1. b \in Nat /\ b > 1
    OBVIOUS
  <2> QED BY <1>1, <2>1, NextDigit
<1>3. \A k \in 1..FracDigits : Fraction(t)[k] = (t \div Power(2, FracDigits - k)) % 2
  BY DEF Fraction
<1>4. \A k \in 1..FracDigits : FracDigits - k \in Nat
  BY <1>1
<1> QED BY <1>1, <1>2, <1>3, <1>4 DEF Second

\* A fraction has a last digit that is not 0, or none.
LEMMA LastDigitIs ==
    ASSUME NEW t \in Times
    PROVE  /\ LastDigit(t) \in 0..FracDigits
           /\ \A j \in LastDigit(t) + 1..FracDigits : Fraction(t)[j] = 0
<1> DEFINE IsLast(k) == /\ k = 0 \/ Fraction(t)[k] # 0
                        /\ \A j \in k + 1..FracDigits : Fraction(t)[j] = 0
           T == {FracDigits - k : k \in {j \in 1..FracDigits : Fraction(t)[j] # 0}}
<1>1. FracDigits \in Nat
  BY StoreAssumption
<1>2. \E k \in 0..FracDigits : IsLast(k)
  <2>1. CASE T = {}
    <3>1. \A j \in 0 + 1..FracDigits : Fraction(t)[j] = 0
      BY <2>1
    <3> QED BY <1>1, <3>1
  <2>2. CASE T # {}
    <3>1. PICK u \in T : \A v \in T : u =< v
      <4>1. T \in SUBSET Nat
        BY <1>1
      <4> HIDE DEF T
      <4> QED BY <2>2, <4>1, LeastNat
    <3>2. PICK k \in 1..FracDigits : u = FracDigits - k /\ Fraction(t)[k] # 0
      BY <3>1
    <3>3. ASSUME NEW j \in k + 1..FracDigits, Fraction(t)[j] # 0 PROVE FALSE
      <4>1. j \in 1..FracDigits
        BY <1>1, <3>2, <3>3
      <4>2. FracDigits - j \in T
        BY <3>3, <4>1
      <4>3. FracDigits - k =< FracDigits - j
        BY <3>1, <3>2, <4>2
      <4> QED BY <1>1, <3>2, <3>3, <4>3
    <3>4. k \in 0..FracDigits /\ IsLast(k)
      BY <1>1, <3>2, <3>3
    <3> QED BY <3>4
  <2> QED BY <2>1, <2>2
<1>3. LastDigit(t) = CHOOSE k \in 0..FracDigits : IsLast(k)
  BY DEF LastDigit
<1> HIDE DEF IsLast
<1>4. LastDigit(t) \in 0..FracDigits /\ IsLast(LastDigit(t))
  BY <1>2, <1>3
<1> QED BY <1>4 DEF IsLast

Join(x, a, c, z) == <<x>> \o a \o c \o <<z>>
IsJoined(s, x, a, c) ==
    /\ s \in Seq(Int) /\ Len(s) = Len(a) + Len(c) + 2 /\ s[1] = x
    /\ \A k \in 1..Len(c) : s[1 + Len(a) + k] = c[k]

\* The characters of four texts put together, two of them a character long.
LEMMA Joined ==
    ASSUME NEW a \in Seq(Int), NEW c \in Seq(Int), NEW x \in Int, NEW z \in Int
    PROVE  IsJoined(Join(x, a, c, z), x, a, c)
BY DEF Join, IsJoined

\* The text of a time: its seconds; a dot and the digits up to the last that is
\* not 0, if there is one; the zone.
LEMMA TextOfTime ==
    ASSUME NEW t \in Times
    PROVE  /\ toTS[t] \in Seq(Int) /\ toTS[t][1] = Second(t)
           /\ Len(toTS[t]) = IF LastDigit(t) = 0 THEN 2 ELSE LastDigit(t) + 3
           /\ \A k \in 1..LastDigit(t) : toTS[t][k + 2] = Fraction(t)[k] + 1
<1> DEFINE a == IF LastDigit(t) = 0 THEN <<>> ELSE <<Dot>>
           c == [k \in 1..LastDigit(t) |-> Digit(Fraction(t)[k])]
<1>1. toTS[t] = Join(Second(t), a, c, Zone)
  BY DEF toTS, LastDigit, Join
<1>2. LastDigit(t) \in 0..FracDigits /\ FracDigits \in Nat
  BY LastDigitIs, TimeParts
<1>3. c \in Seq(Int) /\ Len(c) = LastDigit(t)
  <2>1. \A k \in 1..LastDigit(t) : Digit(Fraction(t)[k]) \in Int
    BY <1>2, TimeParts DEF Digit
  <2> QED BY <1>2, <2>1
<1>4. a \in Seq(Int) /\ Len(a) = IF LastDigit(t) = 0 THEN 0 ELSE 1
  BY DEF Dot
<1>5. \A k \in 1..LastDigit(t) : c[k] = Fraction(t)[k] + 1
  BY DEF Digit
<1> HIDE DEF a, c
<1>6. Second(t) \in Int /\ Zone \in Int
  BY TimeParts DEF Zone
<1>7. /\ toTS[t] \in Seq(Int) /\ Len(toTS[t]) = Len(a) + Len(c) + 2
      /\ toTS[t][1] = Second(t) /\ \A k \in 1..Len(c) : toTS[t][1 + Len(a) + k] = c[k]
  <2>1. a \in Seq(Int) /\ c \in Seq(Int) /\ Second(t) \in Int /\ Zone \in Int
    BY <1>3, <1>4, <1>6
  <2>2. IsJoined(toTS[t], Second(t), a, c)
    BY <1>1, <2>1, Joined
  <2> QED BY <2>2 DEF IsJoined
<1>8. \A k \in 1..LastDigit(t) : 1 + Len(a) + k = k + 2
  BY <1>2, <1>4
<1>9. \A k \in 1..LastDigit(t) : toTS[t][k + 2] = Fraction(t)[k] + 1
  <2> SUFFICES ASSUME NEW k \in 1..LastDigit(t) PROVE toTS[t][k + 2] = Fraction(t)[k] + 1
    OBVIOUS
  <2>1. k \in 1..Len(c) /\ 1 + Len(a) + k = k + 2 /\ c[k] = Fraction(t)[k] + 1
    BY <1>3, <1>5, <1>8
  <2> QED BY <1>7, <2>1
<1> QED BY <1>2, <1>3, <1>4, <1>7, <1>9

\* Times whose texts are the same are the same.
LEMMA TextsDistinct ==
    ASSUME NEW s \in Times, NEW t \in Times, toTS[s] = toTS[t] PROVE s = t
<1> DEFINE F == FracDigits
           l == LastDigit(s)
<1>1. F \in Nat /\ s \in Nat /\ t \in Nat
  BY TimeParts
<1>2. l \in 0..F /\ LastDigit(t) = l
  <2>1. LastDigit(s) \in 0..F /\ LastDigit(t) \in 0..F
    BY LastDigitIs
  <2>2. (IF LastDigit(s) = 0 THEN 2 ELSE LastDigit(s) + 3)
            = (IF LastDigit(t) = 0 THEN 2 ELSE LastDigit(t) + 3)
    BY TextOfTime
  <2> QED BY <1>1, <2>1, <2>2
<1>3. ASSUME NEW k \in 1..F PROVE Fraction(s)[k] = Fraction(t)[k]
  <2>1. CASE k \in 1..l
    <3>1. Fraction(s)[k] + 1 = Fraction(t)[k] + 1
      BY <1>2, <2>1, TextOfTime
    <3>2. Fraction(s)[k] \in Int /\ Fraction(t)[k] \in Int
      BY TimeParts
    <3> QED BY <3>1, <3>2
  <2>2. CASE k \in l + 1..F
    BY <1>2, <2>2, LastDigitIs
  <2> QED BY <1>1, <1>2, <2>1, <2>2
<1>4. PICK b : b = 2
  OBVIOUS
<1>5. Agree(b, F, s, t, 0)
  <2>1. Second(s) = Second(t)
    BY TextOfTime
  <2>2. F - 0 = F
    BY <1>1
  <2> QED BY <1>4, <2>1, <2>2 DEF Agree, Second
<1>6. SameDigits(b, F, s, t, F)
  BY <1>3, <1>4, TimeParts DEF SameDigits
<1>7. Agree(b, F, s, t, F)
  <2>1. b \in Nat /\ b > 1 /\ F \in 0..F
    BY <1>1, <1>4
  <2> QED BY <1>1, <1>5, <1>6, <2>1, SameQuotients
<1>8. s \div Power(b, 0) = s /\ t \div Power(b, 0) = t
  <2>1. b \in Nat /\ b > 0
    BY <1>4
  <2> QED BY <1>1, <2>1, QuotientEnds
<1>9. F - F = 0
  BY <1>1
<1> QED BY <1>7, <1>8, <1>9 DEF Agree

\* Times of different seconds are ordered by their texts as they passed.
LEMMA SecondsOrdered ==
    ASSUME NEW s \in Times, NEW t \in Times, Second(s) < Second(t)
    PROVE  Before(toTS[s], toTS[t])
<1>1. /\ Len(toTS[s]) \in Nat /\ Len(toTS[t]) \in Nat
      /\ Len(toTS[s]) > 0 /\ Len(toTS[t]) > 0 /\ toTS[s][1] < toTS[t][1]
  <2>1. ASSUME NEW u \in Times
        PROVE  Len(toTS[u]) \in Nat /\ Len(toTS[u]) > 0 /\ toTS[u][1] = Second(u)
    <3>1. LastDigit(u) \in Nat
      BY LastDigitIs, TimeParts
    <3>2. /\ Len(toTS[u]) = IF LastDigit(u) = 0 THEN 2 ELSE LastDigit(u) + 3
          /\ toTS[u][1] = Second(u)
      BY TextOfTime
    <3> QED BY <3>1, <3>2
  <2> QED BY <2>1
<1>2. Splits(toTS[s], toTS[t], 0)
  BY <1>1 DEF Splits
<1> QED BY <1>1, <1>2 DEF Before, Splits

\* Sessions created at different times are ordered by the texts of the times.
LEMMA TimesAreKeys ==
    ASSUME NEW T \in SUBSET Times PROVE IsFiniteSet(T) /\ Keys(T, toTS)
<1>1. IsFiniteSet(T)
  <2>1. IsFiniteSet(Times)
    BY StoreAssumption, FS_Interval DEF Times
  <2> QED BY <2>1, FS_Subset
<1>2. \A t \in T : t \in Times /\ toTS[t] \in Seq(Int)
  BY TextOfTime
<1>3. \A s, t \in T : toTS[s] = toTS[t] => s = t
  BY TextsDistinct
<1> QED BY <1>1, <1>2, <1>3 DEF Keys

---------------------------------------------------------------------------
(* The list as a client reads it.                                            *)

Created == {r.created : r \in rows}
RankNow(r) == Rank(Created, toTS, r.created)

Apart(r, o) == r.id # o.id /\ r.created # o.created /\ (Blank(r.ext) \/ r.ext # o.ext)
RowsApart == \A r, o \in rows : r # o => Apart(r, o)

\* The table has an entry for an id and for a time at most.
LEMMA RowsFinite ==
    ASSUME rows \subseteq Row, RowsApart
    PROVE  /\ Created \in SUBSET Times /\ Keys(Created, toTS)
           /\ IsFiniteSet(rows)
           /\ Cardinality(Created) \in Nat /\ Cardinality(Created) =< MaxN
<1>1. Created \in SUBSET Times
  BY DEF Created, Row
<1>2. IsFiniteSet(Created) /\ Keys(Created, toTS)
  BY <1>1, TimesAreKeys
<1>3. [r \in rows |-> r.id] \in Injection(rows, Ids)
  <2>1. \A r \in rows : r.id \in Ids
    BY DEF Row, Ids
  <2> QED BY <2>1 DEF Injection, IsInjective, RowsApart, Apart
<1>4. IsFiniteSet(rows) /\ Cardinality(rows) =< Cardinality(Ids)
  BY <1>3, IdsFinite, FS_Injection
<1>5. [r \in rows |-> r.created] \in Surjection(rows, Created)
  BY DEF Surjection, Created
<1>6. Cardinality(Created) =< Cardinality(rows)
  BY <1>4, <1>5, FS_Surjection
<1>7. Cardinality(Created) \in Nat /\ Cardinality(rows) \in Nat /\ Cardinality(Ids) \in Nat
      /\ Cardinality(Ids) =< MaxN /\ MaxN \in Nat
  BY <1>2, <1>4, IdsFinite, FS_CardinalityType, StoreAssumption
<1> QED BY <1>1, <1>2, <1>4, <1>6, <1>7

\* A row's place in the list of all sessions is its rank by creation.
LEMMA PlaceIsRank ==
    ASSUME rows \subseteq Row, RowsApart, NEW r \in rows
    PROVE  Place(r, Null) = RankNow(r)
<1> DEFINE A == {o \in rows : Before(toTS[r.created], toTS[o.created])}
           B == Ahead(Created, toTS, r.created)
           f == [o \in A |-> o.created]
<1>1. Place(r, Null) = Cardinality(A)
  BY DEF Place, Matching, Blank, Null, Descending, SortKey
<1>2. f \in Injection(A, B)
  BY DEF Injection, IsInjective, RowsApart, Apart, Ahead, Created
<1>3. f \in Surjection(A, B)
  BY <1>2 DEF Injection, Surjection, Ahead, Created
<1>4. IsFiniteSet(B)
  <2>1. r.created \in Created
    BY DEF Created
  <2> QED BY <2>1, RowsFinite, RankType
<1> HIDE DEF A, B, f
<1>5. Cardinality(A) = Cardinality(B)
  BY <1>2, <1>3, <1>4, FS_Injection
<1> QED BY <1>1, <1>5 DEF B, RankNow, Rank

\* A page has at least one entry, and no more than a page may have.
LEMMA ClampedType ==
    ASSUME NEW limit \in AskedLimits \cup {0} PROVE Clamped(limit) \in Nat /\ Clamped(limit) > 0
BY StoreAssumption DEF Clamped

\* A page holds what is in the places from its offset on.
LEMMA PageIs ==
    ASSUME rows \subseteq Row, RowsApart, NEW limit \in AskedLimits \cup {0}, NEW offset \in Nat,
           NEW r \in rows
    PROVE  /\ RankNow(r) \in Nat /\ RankNow(r) < Cardinality(Created)
           /\ r \in ListSessions(Null, limit, offset)
                <=> RankNow(r) \in offset..offset + Clamped(limit) - 1
<1>1. RankNow(r) \in Nat /\ RankNow(r) < Cardinality(Created)
  <2>1. r.created \in Created
    BY DEF Created
  <2> QED BY <2>1, RowsFinite, RankType DEF RankNow
<1>2. r \in Matching(Null)
  BY DEF Matching, Blank, Null
<1>3. Place(r, Null) = RankNow(r)
  BY PlaceIsRank
<1>4. Clamped(limit) \in Nat
  BY ClampedType
<1>5. r \in ListSessions(Null, limit, offset)
        <=> Place(r, Null) >= offset /\ Place(r, Null) < offset + Clamped(limit)
  BY <1>2 DEF ListSessions
<1> QED BY <1>1, <1>3, <1>4, <1>5

\* The next offset is not beyond what the page has shown, nor beyond the list.
LEMMA PageSize ==
    ASSUME rows \subseteq Row, RowsApart, NEW limit \in AskedLimits \cup {0}, NEW offset \in Nat
    PROVE  LET page == ListSessions(Null, limit, offset)
           IN  /\ Cardinality(page) \in Nat
               /\ Cardinality(page) =< Clamped(limit)
               /\ page # {} => offset + Cardinality(page) =< Cardinality(Created)
<1> DEFINE page == ListSessions(Null, limit, offset)
           c == Cardinality(Created)
           wide == offset..offset + Clamped(limit) - 1
           left == offset..c - 1
           f == [r \in page |-> RankNow(r)]
<1>1. Clamped(limit) \in Nat /\ c \in Nat
  BY ClampedType, RowsFinite
<1>2. page \in SUBSET rows
  BY DEF ListSessions, Matching
<1>3. \A r \in page : RankNow(r) \in wide /\ RankNow(r) \in left
  <2> SUFFICES ASSUME NEW r \in page PROVE RankNow(r) \in wide /\ RankNow(r) \in left
    OBVIOUS
  <2>1. r \in rows /\ r \in ListSessions(Null, limit, offset)
    BY <1>2
  <2>2. RankNow(r) \in wide /\ RankNow(r) \in Nat /\ RankNow(r) < c
    BY <2>1, PageIs
  <2> QED BY <1>1, <2>2
<1>4. \A r, o \in page : RankNow(r) = RankNow(o) => r = o
  <2> SUFFICES ASSUME NEW r \in page, NEW o \in page, r # o PROVE RankNow(r) # RankNow(o)
    OBVIOUS
  <2>1. r \in rows /\ o \in rows
    BY <1>2
  <2>2. r.created \in Created /\ o.created \in Created /\ r.created # o.created
    BY <2>1 DEF Created, RowsApart, Apart
  <2> QED BY <2>2, RowsFinite, RankDistinct DEF RankNow
<1> HIDE DEF page, c, wide, left
<1>5. f \in Injection(page, wide) /\ f \in Injection(page, left)
  BY <1>3, <1>4 DEF Injection, IsInjective
<1> HIDE DEF f
<1>6. IsFiniteSet(wide) /\ Cardinality(wide) = Clamped(limit)
  <2>1. offset \in Int /\ offset + Clamped(limit) - 1 \in Int
    BY <1>1
  <2>2. IsFiniteSet(wide) /\ Cardinality(wide) =
            IF offset > offset + Clamped(limit) - 1 THEN 0
            ELSE (offset + Clamped(limit) - 1) - offset + 1
    BY <2>1, FS_Interval DEF wide
  <2> QED BY <1>1, <2>2
<1>7. IsFiniteSet(left) /\ Cardinality(left) = IF offset > c - 1 THEN 0 ELSE c - offset
  <2>1. offset \in Int /\ c - 1 \in Int
    BY <1>1
  <2>2. IsFiniteSet(left)
        /\ Cardinality(left) = IF offset > c - 1 THEN 0 ELSE (c - 1) - offset + 1
    BY <2>1, FS_Interval DEF left
  <2> QED BY <1>1, <2>2
<1>8. IsFiniteSet(page) /\ Cardinality(page) =< Cardinality(wide)
      /\ Cardinality(page) =< Cardinality(left)
  BY <1>5, <1>6, <1>7, FS_Injection
<1>9. Cardinality(page) \in Nat
  BY <1>8, FS_CardinalityType
<1>10. page # {} => offset =< c - 1
  BY <1>1, <1>3 DEF left
<1> QED BY <1>1, <1>6, <1>7, <1>8, <1>9, <1>10 DEF page, c

\* After an empty page there is nothing more.
LEMMA EmptyPage ==
    ASSUME rows \subseteq Row, RowsApart, NEW limit \in AskedLimits \cup {0}, NEW offset \in Nat,
           ListSessions(Null, limit, offset) = {}, NEW r \in rows
    PROVE  RankNow(r) < offset
<1> SUFFICES ASSUME ~(RankNow(r) < offset) PROVE FALSE
  OBVIOUS
<1> DEFINE T == {RankNow(o) : o \in {o \in rows : RankNow(o) >= offset}}
<1>1. Clamped(limit) \in Nat /\ Clamped(limit) > 0
  BY ClampedType
<1>2. ASSUME NEW o \in rows
      PROVE  RankNow(o) \in Nat /\ ~(RankNow(o) \in offset..offset + Clamped(limit) - 1)
  BY PageIs
<1>3. PICK x \in rows : /\ RankNow(x) >= offset
                        /\ \A o \in rows : RankNow(o) >= offset => RankNow(x) =< RankNow(o)
  <2>1. T \in SUBSET Nat /\ T # {}
    <3>1. RankNow(r) >= offset
      BY <1>2
    <3> QED BY <1>2, <3>1
  <2>2. PICK t \in T : \A u \in T : t =< u
    <3> HIDE DEF T
    <3> QED BY <2>1, LeastNat
  <2> QED BY <2>2
<1>4. RankNow(x) # 0 /\ RankNow(x) > offset
  BY <1>1, <1>2, <1>3
<1>5. PICK y \in Created : RankNow(x) = Rank(Created, toTS, y) + 1
  <2>1. x.created \in Created
    BY DEF Created
  <2> QED BY <1>4, <2>1, RowsFinite, RankPredecessor DEF RankNow
<1>6. PICK o \in rows : y = o.created
  BY DEF Created
<1>7. RankNow(x) = RankNow(o) + 1
  BY <1>5, <1>6 DEF RankNow
<1> QED BY <1>2, <1>3, <1>4, <1>7

\* What comes later moves nothing forward.
LEMMA RankGrows ==
    ASSUME NEW S, NEW f, Keys(S, f), NEW T \in SUBSET S, NEW x \in T
    PROVE  Rank(T, f, x) =< Rank(S, f, x)
<1>1. Ahead(T, f, x) \in SUBSET Ahead(S, f, x)
  BY DEF Ahead
<1>2. IsFiniteSet(Ahead(S, f, x))
  BY RankType
<1> QED BY <1>1, <1>2, FS_Subset DEF Rank

---------------------------------------------------------------------------
(* The inductive invariant.                                                  *)

RowsOfThePast == \A r \in rows : r.created < now

\* What the client of a walk has not seen is still to come.
UnseenAhead ==
    ~walk.shrunk => \A t \in walk.unseen :
        t \in Created /\ Rank(Created, toTS, t) >= walk.offset

IInv == TypeOK /\ RowsApart /\ RowsOfThePast /\ UnseenAhead

\* A row as UpdateSessionActivity leaves it.
Written(r, w) == IF r.id = w.id THEN [r EXCEPT !.active = w.at, !.of = w.of] ELSE r

\* A write changes no id, no external id and no time of creation.
LEMMA WriteKeeps ==
    ASSUME rows \subseteq Row, NEW w \in Write, NEW r \in rows
    PROVE  /\ Written(r, w) \in Row
           /\ Written(r, w).id = r.id /\ Written(r, w).ext = r.ext
           /\ Written(r, w).created = r.created
BY DEF Row, Write, Written

\* The initial state.
LEMMA StoreInit == Init => IInv
<1> SUFFICES ASSUME Init PROVE IInv
  OBVIOUS
<1>1. TypeOK
  BY StoreAssumption DEF Init, TypeOK, NoWalk
<1> QED BY <1>1 DEF Init, IInv, RowsApart, RowsOfThePast, UnseenAhead, NoWalk

\* Creating a session.
LEMMA CreateStep == ASSUME IInv, NEW e \in Given, Create(e) PROVE IInv'
<1> DEFINE r0 == NewRow(NextNumber, e)
<1>1. /\ counter \in 0..MaxN /\ now \in 0..MaxTime + 1 /\ rows \subseteq Row
      /\ RowsApart /\ RowsOfThePast /\ UnseenAhead /\ MaxN \in Nat /\ MaxTime \in Nat
  BY StoreAssumption DEF IInv, TypeOK
<1>2. /\ NextNumber \in Numbers /\ counter' = NextNumber /\ now \in Times /\ now' = now + 1
      /\ late' = late /\ walk' = walk
  BY <1>1 DEF Create, NextNumber, Numbers, Times
<1>3. r0 \in Row /\ r0.created = now /\ r0.id = Format(NextNumber) /\ r0.ext = nullableString(e)
  <2>1. nullableString(e) \in Given
    BY DEF nullableString, Null, Given
  <2> QED BY <1>2, <2>1 DEF NewRow, Row
<1>4. \/ rows' = rows
      \/ ~Conflicts(Format(NextNumber), e) /\ rows' = rows \cup {r0}
  BY DEF Create
<1> HIDE DEF r0
<1>5. TypeOK'
  <2>1. counter' \in 0..MaxN /\ now' \in 0..MaxTime + 1
    BY <1>1, <1>2 DEF Numbers, Times
  <2>2. rows' \subseteq Row
    BY <1>1, <1>3, <1>4
  <2> QED BY <1>2, <2>1, <2>2 DEF IInv, TypeOK
<1>6. RowsApart'
  <2>1. CASE rows' = rows
    BY <1>1, <2>1 DEF RowsApart
  <2>2. CASE ~Conflicts(Format(NextNumber), e) /\ rows' = rows \cup {r0}
    <3>1. ASSUME NEW r \in rows PROVE Apart(r, r0) /\ Apart(r0, r)
      <4>1. r.created # now
        BY <1>1, <1>2 DEF RowsOfThePast, Row, Times
      <4>2. r.id # Format(NextNumber) /\ (Blank(e) \/ r.ext # e)
        BY <2>2 DEF Conflicts
      <4>3. Blank(r0.ext) \/ r.ext # r0.ext
        BY <1>3, <4>2 DEF nullableString, Blank, Null
      <4> QED BY <1>3, <4>1, <4>2, <4>3 DEF Apart, Blank
    <3> QED BY <1>1, <2>2, <3>1 DEF RowsApart
  <2> QED BY <1>4, <2>1, <2>2
<1>7. RowsOfThePast'
  <2>1. \A r \in rows : r.created \in Nat
    BY <1>1 DEF Row, Times
  <2>2. now \in Nat
    BY <1>1
  <2> QED BY <1>1, <1>2, <1>3, <1>4, <2>1, <2>2 DEF RowsOfThePast
<1>8. UnseenAhead'
  <2>1. Created \in SUBSET Created'
    BY <1>4 DEF Created
  <2>2. Created' \in SUBSET Times
    BY <1>5 DEF Created, TypeOK, Row
  <2>3. Keys(Created', toTS) /\ Keys(Created, toTS)
    BY <2>1, <2>2, TimesAreKeys
  <2>4. walk.offset \in Nat
    BY <1>1 DEF IInv, TypeOK
  <2>5. ASSUME ~walk.shrunk, NEW t \in walk.unseen
        PROVE  t \in Created' /\ Rank(Created', toTS, t) >= walk.offset
    <3>1. t \in Created /\ Rank(Created, toTS, t) >= walk.offset
      BY <1>1, <2>5 DEF UnseenAhead
    <3>2. t \in Created'
      BY <2>1, <3>1
    <3>3. Rank(Created, toTS, t) =< Rank(Created', toTS, t)
      BY <2>1, <2>3, <3>1, RankGrows
    <3>4. Rank(Created, toTS, t) \in Nat /\ Rank(Created', toTS, t) \in Nat
      BY <2>3, <3>1, <3>2, RankType
    <3> QED BY <2>4, <3>1, <3>2, <3>3, <3>4
  <2> QED BY <1>2, <2>5 DEF UnseenAhead
<1> QED BY <1>5, <1>6, <1>7, <1>8 DEF IInv

\* Deleting a session, after which a walk may miss another.
LEMMA DeleteStep == ASSUME IInv, NEW r \in rows, Delete(r) PROVE IInv'
<1>1. /\ TypeOK /\ RowsApart /\ RowsOfThePast /\ UnseenAhead
      /\ rows' \subseteq rows /\ counter' = counter /\ now' = now /\ late' = late
      /\ walk' = [walk EXCEPT !.unseen = @ \ {r.created}, !.shrunk = walk # NoWalk]
  BY DEF IInv, Delete
<1>2. TypeOK'
  <2>1. walk' \in [on: BOOLEAN, limit: AskedLimits \cup {0}, offset: 0..MaxN,
                   unseen: SUBSET Times, shrunk: BOOLEAN]
    BY <1>1 DEF TypeOK
  <2> QED BY <1>1, <2>1 DEF TypeOK
<1>3. RowsApart' /\ RowsOfThePast'
  BY <1>1 DEF RowsApart, RowsOfThePast
<1>4. UnseenAhead'
  <2>1. ~walk'.shrunk => walk'.unseen = {}
    <3>1. CASE walk = NoWalk
      <4>1. walk'.unseen = NoWalk.unseen \ {r.created}
        BY <1>1, <3>1 DEF NoWalk
      <4> QED BY <4>1 DEF NoWalk
    <3>2. CASE walk # NoWalk
      <4>1. walk' = [walk EXCEPT !.unseen = @ \ {r.created}, !.shrunk = TRUE]
        BY <1>1, <3>2
      <4>2. walk'.shrunk = TRUE
        BY <1>1, <4>1 DEF TypeOK
      <4> QED BY <4>2
    <3> QED BY <3>1, <3>2
  <2> QED BY <2>1 DEF UnseenAhead
<1> QED BY <1>2, <1>3, <1>4 DEF IInv

\* Writing activity, which moves nothing in the list.
LEMMA WriteStep == ASSUME IInv, NEW w \in late, WriteActivity(w) PROVE IInv'
<1>1. /\ TypeOK /\ RowsApart /\ RowsOfThePast /\ UnseenAhead /\ rows \subseteq Row /\ w \in Write
      /\ rows' = {Written(r, w) : r \in rows} /\ late' \subseteq late
      /\ counter' = counter /\ now' = now /\ walk' = walk
  BY DEF IInv, TypeOK, WriteActivity, UpdateSessionActivity, Written
<1>2. \A r \in rows : /\ Written(r, w) \in Row /\ Written(r, w).id = r.id
                      /\ Written(r, w).ext = r.ext /\ Written(r, w).created = r.created
  BY <1>1, WriteKeeps
<1>3. TypeOK'
  BY <1>1, <1>2 DEF TypeOK
<1>4. RowsApart'
  <2> SUFFICES ASSUME NEW r \in rows, NEW o \in rows, Written(r, w) # Written(o, w)
               PROVE  Apart(Written(r, w), Written(o, w))
    BY <1>1 DEF RowsApart
  <2>1. r # o
    OBVIOUS
  <2> QED BY <1>1, <1>2, <2>1 DEF RowsApart, Apart
<1>5. RowsOfThePast'
  BY <1>1, <1>2 DEF RowsOfThePast
<1>6. Created' = Created
  BY <1>1, <1>2 DEF Created
<1>7. UnseenAhead'
  BY <1>1, <1>6 DEF UnseenAhead
<1> QED BY <1>3, <1>4, <1>5, <1>7 DEF IInv

\* Clocking activity, a restart and the passing of time change neither the
\* table nor a walk.
LEMMA OtherStep ==
    ASSUME IInv, (\E r \in rows : ClockActivity(r)) \/ Restart \/ Tick \/ UNCHANGED vars
    PROVE  IInv'
<1>1. /\ TypeOK /\ RowsApart /\ RowsOfThePast /\ UnseenAhead /\ rows \subseteq Row
      /\ rows' = rows /\ walk' = walk
  BY DEF IInv, TypeOK, ClockActivity, Restart, Tick, vars
<1>2. now' = now \/ (now < MaxTime /\ now' = now + 1)
  BY DEF ClockActivity, Restart, Tick, vars
<1>3. counter' \in 0..MaxN
  <2>1. {r.id : r \in rows} \in SUBSET Ids
    BY <1>1 DEF Row, Ids
  <2>2. Seed({r.id : r \in rows}) \in 0..MaxN
    BY <2>1, SeedType
  <2>3. counter' \in {counter, Seed({r.id : r \in rows})}
    BY DEF ClockActivity, Restart, Tick, vars
  <2> QED BY <1>1, <2>2, <2>3 DEF TypeOK
<1>4. late' \subseteq Write
  <2>1. CASE \E r \in rows : ClockActivity(r)
    <3>1. PICK r \in rows : ClockActivity(r)
      BY <2>1
    <3>2. now \in Times
      BY <1>1, <3>1 DEF ClockActivity, TypeOK, Times
    <3>3. [id |-> r.id, of |-> r.created, at |-> now] \in Write
      BY <1>1, <3>2 DEF Row, Write
    <3> QED BY <1>1, <3>1, <3>3 DEF ClockActivity, TypeOK
  <2>2. CASE Restart \/ Tick \/ UNCHANGED vars
    BY <1>1, <2>2 DEF Restart, Tick, vars, TypeOK
  <2> QED BY <2>1, <2>2
<1>5. TypeOK'
  <2>1. now' \in 0..MaxTime + 1
    BY <1>1, <1>2, StoreAssumption DEF TypeOK
  <2> QED BY <1>1, <1>3, <1>4, <2>1 DEF TypeOK
<1>6. RowsOfThePast'
  <2>1. \A r \in rows : r.created \in Nat
    BY <1>1 DEF Row, Times
  <2>2. now \in Nat
    BY <1>1 DEF TypeOK
  <2> QED BY <1>1, <1>2, <2>1, <2>2 DEF RowsOfThePast
<1>7. RowsApart' /\ UnseenAhead'
  BY <1>1 DEF RowsApart, UnseenAhead, Created
<1> QED BY <1>5, <1>6, <1>7 DEF IInv

\* Starting a walk, when all is still to come.
LEMMA StartWalkStep == ASSUME IInv, NEW limit \in AskedLimits, StartWalk(limit) PROVE IInv'
<1>1. /\ TypeOK /\ RowsApart /\ RowsOfThePast /\ rows \subseteq Row /\ rows' = rows
      /\ counter' = counter /\ now' = now /\ late' = late
      /\ walk' = [on |-> TRUE, limit |-> limit, offset |-> 0, unseen |-> Created,
                  shrunk |-> FALSE]
  BY DEF IInv, TypeOK, StartWalk, Created
<1>2. Created \in SUBSET Times /\ Keys(Created, toTS)
  BY <1>1, RowsFinite
<1>3. TypeOK'
  BY <1>1, <1>2, StoreAssumption DEF TypeOK
<1>4. UnseenAhead'
  <2>1. \A t \in Created : Rank(Created, toTS, t) \in Nat
    BY <1>2, RankType
  <2>2. Created' = Created
    BY <1>1 DEF Created
  <2>3. \A t \in Created : Rank(Created, toTS, t) >= 0
    BY <2>1
  <2> QED BY <1>1, <2>2, <2>3 DEF UnseenAhead
<1> QED BY <1>1, <1>3, <1>4 DEF IInv, RowsApart, RowsOfThePast

\* The next page, which takes from what was to come all up to its end.
LEMMA NextPageStep == ASSUME IInv, NextPage PROVE IInv'
<1> DEFINE page == ListSessions(Null, walk.limit, walk.offset)
<1>1. /\ TypeOK /\ RowsApart /\ RowsOfThePast /\ UnseenAhead /\ rows \subseteq Row
      /\ rows' = rows /\ counter' = counter /\ now' = now /\ late' = late
      /\ walk.limit \in AskedLimits \cup {0} /\ walk.offset \in 0..MaxN /\ walk.offset \in Nat
  BY StoreAssumption DEF IInv, TypeOK, NextPage
<1>2. \/ page = {} /\ walk' = NoWalk
      \/ /\ page # {}
         /\ walk' = [walk EXCEPT !.offset = walk.offset + Cardinality(page),
                                 !.unseen = walk.unseen \ {r.created : r \in page}]
  BY DEF NextPage
<1>3. /\ Cardinality(page) \in Nat /\ Cardinality(page) =< Clamped(walk.limit)
      /\ page # {} => walk.offset + Cardinality(page) =< Cardinality(Created)
  BY <1>1, PageSize
<1>4. \A r \in rows : /\ RankNow(r) \in Nat
                      /\ r \in page <=>
                           RankNow(r) \in walk.offset..walk.offset + Clamped(walk.limit) - 1
  BY <1>1, PageIs
<1> HIDE DEF page
<1>5. Cardinality(Created) \in Nat /\ Cardinality(Created) =< MaxN /\ MaxN \in Nat
      /\ Clamped(walk.limit) \in Nat
  BY <1>1, RowsFinite, ClampedType, StoreAssumption
<1>6. TypeOK'
  <2>1. CASE walk' = NoWalk
    BY <1>1, <1>5, <2>1 DEF TypeOK, NoWalk
  <2>2. CASE page # {}
    <3>1. walk.offset + Cardinality(page) \in 0..MaxN
      BY <1>1, <1>3, <1>5, <2>2
    <3> QED BY <1>1, <1>2, <2>2, <3>1 DEF TypeOK
  <2> QED BY <1>2, <2>1, <2>2
<1>7. Created' = Created
  BY <1>1 DEF Created
<1>8. UnseenAhead'
  <2>1. CASE walk' = NoWalk
    BY <2>1 DEF UnseenAhead, NoWalk
  <2>2. CASE page # {}
    <3>1. /\ walk'.shrunk = walk.shrunk
          /\ walk'.offset = walk.offset + Cardinality(page)
          /\ walk'.unseen = walk.unseen \ {r.created : r \in page}
      BY <1>1, <1>2, <2>2 DEF TypeOK
    <3>2. ASSUME ~walk.shrunk, NEW t \in walk'.unseen
          PROVE  t \in Created /\ Rank(Created, toTS, t) >= walk'.offset
      <4>1. t \in walk.unseen /\ \A r \in page : r.created # t
        BY <3>1, <3>2
      <4>2. t \in Created /\ Rank(Created, toTS, t) >= walk.offset
        BY <1>1, <3>2, <4>1 DEF UnseenAhead
      <4>3. PICK r \in rows : r.created = t
        BY <4>2 DEF Created
      <4>4. r \notin page
        BY <4>1, <4>3
      <4>5. RankNow(r) >= walk.offset
        BY <4>2, <4>3 DEF RankNow
      <4>6. RankNow(r) >= walk.offset + Cardinality(page)
        BY <1>1, <1>3, <1>4, <1>5, <4>4, <4>5
      <4> QED BY <3>1, <4>2, <4>3, <4>6 DEF RankNow
    <3> QED BY <1>7, <3>1, <3>2 DEF UnseenAhead
  <2> QED BY <1>2, <2>1, <2>2
<1> QED BY <1>1, <1>6, <1>8 DEF IInv, RowsApart, RowsOfThePast

\* Every step.
LEMMA StoreStep == IInv /\ [Next]_vars => IInv'
<1> SUFFICES ASSUME IInv, [Next]_vars PROVE IInv'
  OBVIOUS
<1>1. CASE \E e \in Given : Create(e)
  BY <1>1, CreateStep
<1>2. CASE \E r \in rows : Delete(r)
  BY <1>2, DeleteStep
<1>3. CASE (\E r \in rows : ClockActivity(r)) \/ Restart \/ Tick \/ UNCHANGED vars
  BY <1>3, OtherStep
<1>4. CASE \E w \in late : WriteActivity(w)
  BY <1>4, WriteStep
<1>5. CASE \E limit \in AskedLimits : StartWalk(limit)
  BY <1>5, StartWalkStep
<1>6. CASE NextPage
  BY <1>6, NextPageStep
<1> QED BY <1>1, <1>2, <1>3, <1>4, <1>5, <1>6 DEF Next

\* The invariant holds in every behaviour.
LEMMA StoreInvariant == Spec => []IInv
BY StoreInit, StoreStep, PTL DEF Spec

---------------------------------------------------------------------------
(* The theorems.                                                             *)

\* The manager's counter, the table, the writes under way and the client's walk
\* are of their types: a walk goes no further than the table can be long.
THEOREM TypeCorrect == Spec => []TypeOK
BY StoreInvariant, PTL DEF IInv

\* Looking up an external id without white space finds its session alone, by
\* the unique index and the trimming of ListSessions.
THEOREM Lookup == Spec => []ExternalLookup
<1>1. IInv => ExternalLookup
  <2> SUFFICES ASSUME IInv, NEW r \in rows, ~Blank(r.ext), ~r.ext.padded,
                      NEW limit \in AskedLimits, NEW spaced \in BOOLEAN
               PROVE  ListSessions([r.ext EXCEPT !.padded = spaced], limit, 0) = {r}
    BY DEF ExternalLookup
  <2> DEFINE e == [r.ext EXCEPT !.padded = spaced]
  <2>1. rows \subseteq Row /\ RowsApart /\ r \in Row
    BY DEF IInv, TypeOK
  <2>2. e.name = r.ext.name /\ ~Blank(e) /\ TrimSpace(e) = r.ext
    BY <2>1 DEF Row, Given, Blank, TrimSpace
  <2> HIDE DEF e
  <2>3. Matching(e) = {r}
    BY <2>1, <2>2 DEF Matching, RowsApart, Apart
  <2>4. Place(r, e) = 0
    <3>1. toTS[r.created] \in Seq(Int)
      BY <2>1, TextOfTime DEF Row
    <3>2. ~Descending(r, r)
      BY <3>1, BeforeAsymmetric DEF Descending, SortKey
    <3>3. {o \in Matching(e) : Descending(o, r)} = {}
      BY <2>3, <3>2
    <3> QED BY <3>3, FS_EmptySet DEF Place
  <2>5. Clamped(limit) \in Nat /\ Clamped(limit) > 0
    BY ClampedType
  <2>6. ListSessions(e, limit, 0) = {o \in Matching(e) : Place(o, e) >= 0
                                                         /\ Place(o, e) < 0 + Clamped(limit)}
    BY DEF ListSessions
  <2>7. ListSessions(e, limit, 0) = {r}
    BY <2>3, <2>4, <2>5, <2>6
  <2> QED BY <2>7 DEF e
<1> QED BY <1>1, StoreInvariant, PTL

\* GET /v1/sessions lists newest first to the second, although it orders text.
THEOREM NewestFirst == Spec => []ListedNewestFirst
<1>1. IInv => ListedNewestFirst
  <2> SUFFICES ASSUME IInv, NEW r \in rows, NEW o \in rows,
                      Second(r.created) < Second(o.created)
               PROVE  Place(o, Null) < Place(r, Null)
    BY DEF ListedNewestFirst
  <2>1. rows \subseteq Row /\ RowsApart /\ r.created \in Times /\ o.created \in Times
    BY DEF IInv, TypeOK, Row
  <2>2. Before(toTS[r.created], toTS[o.created])
    BY <2>1, SecondsOrdered
  <2>3. r.created \in Created /\ o.created \in Ahead(Created, toTS, r.created)
    BY <2>2 DEF Created, Ahead
  <2>4. RankNow(o) < RankNow(r)
    BY <2>1, <2>3, RowsFinite, RankStrict DEF RankNow
  <2> QED BY <2>1, <2>4, PlaceIsRank
<1> QED BY <1>1, StoreInvariant, PTL

\* A client that pages to an empty page has been sent every session that was
\* there from first to last, unless a session was deleted meanwhile.
THEOREM WalkComplete == Spec => NoSessionSkipped
<1>1. IInv /\ [Next]_vars =>
          [walk # NoWalk /\ walk' = NoWalk => walk.shrunk \/ walk.unseen = {}]_vars
  <2> SUFFICES ASSUME IInv, Next, walk # NoWalk, walk' = NoWalk,
                      ~walk.shrunk, walk.unseen # {}
               PROVE  FALSE
    OBVIOUS
  <2>1. TypeOK /\ RowsApart /\ rows \subseteq Row /\ UnseenAhead
    BY DEF IInv, TypeOK
  <2>2. walk' # walk
    OBVIOUS
  <2>3. CASE \E r \in rows : Delete(r)
    <3>1. PICK r \in rows : Delete(r)
      BY <2>3
    <3>2. walk' = [walk EXCEPT !.unseen = @ \ {r.created}, !.shrunk = TRUE]
      BY <3>1 DEF Delete
    <3>3. walk'.shrunk = TRUE
      BY <2>1, <3>2 DEF TypeOK
    <3> QED BY <3>3 DEF NoWalk
  <2>4. CASE \E limit \in AskedLimits : StartWalk(limit)
    BY <2>4 DEF StartWalk
  <2>5. CASE NextPage
    <3> DEFINE page == ListSessions(Null, walk.limit, walk.offset)
    <3>1. walk.limit \in AskedLimits \cup {0} /\ walk.offset \in 0..MaxN /\ walk.offset \in Nat
      BY <2>1, StoreAssumption DEF TypeOK
    <3>2. \/ page = {}
          \/ walk' = [walk EXCEPT !.offset = walk.offset + Cardinality(page),
                                  !.unseen = walk.unseen \ {r.created : r \in page}]
      BY <2>5 DEF NextPage
    <3>3. IsFiniteSet(page) /\ Cardinality(page) \in Nat
      <4>1. page \in SUBSET rows
        BY DEF ListSessions, Matching
      <4> QED BY <2>1, <4>1, RowsFinite, FS_Subset, FS_CardinalityType
    <3>4. page = {}
      <4> HIDE DEF page
      <4> SUFFICES ASSUME page # {} PROVE FALSE
        OBVIOUS
      <4>1. Cardinality(page) # 0
        BY <3>3, FS_EmptySet
      <4>2. walk'.offset = walk.offset + Cardinality(page)
        BY <2>1, <3>2 DEF TypeOK
      <4> QED BY <3>1, <3>3, <4>1, <4>2 DEF NoWalk
    <3>5. PICK t \in walk.unseen : t \in Created /\ Rank(Created, toTS, t) >= walk.offset
      BY <2>1 DEF UnseenAhead
    <3>6. PICK r \in rows : t = r.created
      BY <3>5 DEF Created
    <3>7. RankNow(r) < walk.offset
      BY <2>1, <3>1, <3>4, EmptyPage
    <3>8. RankNow(r) \in Nat
      BY <2>1, <3>1, PageIs
    <3> QED BY <3>1, <3>5, <3>6, <3>7, <3>8 DEF RankNow
  <2> QED BY <2>2, <2>3, <2>4, <2>5
        DEF Next, Create, ClockActivity, WriteActivity, Restart, Tick
<1> QED BY <1>1, StoreInvariant, PTL DEF Spec, NoSessionSkipped

\* What keeps numbers from coming back while anything remembers them: no row
\* and no write under way whose id fits the padding is ahead of the counter, and
\* a write's id is stored, if it is, for the session the write is for.
LateIsOwn == \A w \in late :
    /\ w.of =< w.at
    /\ FitsPadding(w.id) =>
          /\ Parse(w.id) =< counter
          /\ \A r \in rows : r.id = w.id => r.created = w.of
OwnInv == IInv /\ CounterAheadOfRows /\ LateIsOwn /\ ActivityIsOwn

\* The initial state.
LEMMA OwnInit == Init => OwnInv
BY StoreInit DEF Init, OwnInv, CounterAheadOfRows, LateIsOwn, ActivityIsOwn

\* The types that the steps below use.
LEMMA OwnTypes ==
    ASSUME IInv
    PROVE  /\ counter \in 0..MaxN /\ MaxN \in Nat /\ now \in Nat
           /\ \A r \in rows : /\ r \in Row /\ r.id \in Ids /\ Parse(r.id) \in Nat
                              /\ r.created \in Nat /\ r.active \in Nat
           /\ \A w \in late : /\ w \in Write /\ w.id \in Ids /\ Parse(w.id) \in Nat
                              /\ w.of \in Nat /\ w.at \in Nat
<1>1. rows \subseteq Row /\ late \subseteq Write /\ counter \in 0..MaxN /\ now \in 0..MaxTime + 1
  BY DEF IInv, TypeOK
<1>2. MaxN \in Nat /\ MaxTime \in Nat
  BY StoreAssumption
<1>3. \A r \in rows : r.id \in Ids /\ r.created \in Times /\ r.active \in Times
  BY <1>1 DEF Row, Ids
<1>4. \A w \in late : w.id \in Ids /\ w.of \in Times /\ w.at \in Times
  BY <1>1 DEF Write, Ids
<1>5. \A id \in Ids : Parse(id) \in Nat
  BY <1>2, IdsFinite
<1> QED BY <1>1, <1>2, <1>3, <1>4, <1>5 DEF Times

\* A new number is the number of no row and of no write under way.
LEMMA OwnCreate == ASSUME OwnInv, NEW e \in Given, Create(e) PROVE OwnInv'
<1> DEFINE r0 == NewRow(NextNumber, e)
<1>1. /\ IInv /\ CounterAheadOfRows /\ LateIsOwn /\ ActivityIsOwn
      /\ counter' = counter + 1 /\ now' = now + 1 /\ late' = late
      /\ rows' = rows \/ rows' = rows \cup {r0}
  BY DEF OwnInv, Create, NextNumber
<1>2. IInv'
  BY <1>1, CreateStep
<1>3. /\ r0.id = Format(counter + 1) /\ r0.created = now /\ r0.active = now /\ r0.of = now
      /\ Parse(r0.id) = counter + 1 /\ counter \in Nat /\ now \in Nat
  <2>1. counter \in Nat /\ counter + 1 \in Nat /\ now \in Nat
    BY <1>1, OwnTypes
  <2> QED BY <2>1, ParseFormat DEF NewRow, NextNumber
<1> HIDE DEF r0
<1>4. CounterAheadOfRows'
  <2>1. \A r \in rows : Parse(r.id) \in Nat /\ (FitsPadding(r.id) => Parse(r.id) =< counter)
    BY <1>1, OwnTypes DEF CounterAheadOfRows
  <2> QED BY <1>1, <1>3, <2>1 DEF CounterAheadOfRows
<1>5. LateIsOwn'
  <2> SUFFICES ASSUME NEW w \in late
               PROVE  /\ w.of =< w.at
                      /\ FitsPadding(w.id) =>
                            /\ Parse(w.id) =< counter + 1
                            /\ \A r \in rows' : r.id = w.id => r.created = w.of
    BY <1>1 DEF LateIsOwn
  <2>1. Parse(w.id) \in Nat /\ w.of =< w.at
    BY <1>1, OwnTypes DEF LateIsOwn
  <2>2. ASSUME FitsPadding(w.id)
        PROVE  /\ Parse(w.id) =< counter
               /\ \A r \in rows : r.id = w.id => r.created = w.of
    BY <1>1, <2>2 DEF LateIsOwn
  <2>3. FitsPadding(w.id) => r0.id # w.id
    BY <1>3, <2>1, <2>2
  <2> QED BY <1>1, <1>3, <2>1, <2>2, <2>3
<1>6. ActivityIsOwn'
  BY <1>1, <1>3 DEF ActivityIsOwn
<1> QED BY <1>2, <1>4, <1>5, <1>6 DEF OwnInv

\* A late write finds its own session or none.
LEMMA OwnWrite == ASSUME OwnInv, NEW w \in late, WriteActivity(w) PROVE OwnInv'
<1>1. /\ IInv /\ CounterAheadOfRows /\ LateIsOwn /\ ActivityIsOwn
      /\ counter' = counter /\ late' \subseteq late /\ rows' = {Written(r, w) : r \in rows}
  BY DEF OwnInv, WriteActivity, UpdateSessionActivity, Written
<1>2. IInv'
  BY <1>1, WriteStep
<1>3. \A r \in rows : Written(r, w).id = r.id /\ Written(r, w).created = r.created
  <2>1. rows \subseteq Row /\ w \in Write
    BY <1>1, OwnTypes
  <2> QED BY <2>1, WriteKeeps
<1>4. CounterAheadOfRows' /\ LateIsOwn'
  BY <1>1, <1>3 DEF CounterAheadOfRows, LateIsOwn
<1>5. ActivityIsOwn'
  <2> SUFFICES ASSUME NEW r \in rows, FitsPadding(r.id)
               PROVE  /\ Written(r, w).of = Written(r, w).created
                      /\ Written(r, w).active >= Written(r, w).created
    BY <1>1, <1>3 DEF ActivityIsOwn
  <2>1. CASE r.id = w.id
    <3>1. Written(r, w).of = w.of /\ Written(r, w).active = w.at
      BY <1>1, <2>1, OwnTypes DEF Written, Row
    <3>2. r.created = w.of /\ w.of =< w.at /\ w.of \in Nat /\ w.at \in Nat
      BY <1>1, <2>1, OwnTypes DEF LateIsOwn
    <3> QED BY <1>3, <3>1, <3>2
  <2>2. CASE r.id # w.id
    BY <1>1, <2>2 DEF Written, ActivityIsOwn
  <2> QED BY <2>1, <2>2
<1> QED BY <1>2, <1>4, <1>5 DEF OwnInv

\* A restart forgets the writes under way, and seeds the counter.
LEMMA OwnRestart == ASSUME OwnInv, Restart PROVE OwnInv'
<1>1. /\ IInv /\ ActivityIsOwn /\ rows' = rows /\ late' = {}
      /\ counter' = Seed({r.id : r \in rows})
  BY DEF OwnInv, Restart
<1>2. IInv'
  BY <1>1, OtherStep
<1>3. ASSUME NEW r \in rows, FitsPadding(r.id) PROVE Parse(r.id) =< Seed({o.id : o \in rows})
  <2>1. {o.id : o \in rows} \in SUBSET Ids /\ r.id \in {o.id : o \in rows}
    BY <1>1, OwnTypes
  <2> HIDE DEF Ids
  <2> QED BY <1>3, <2>1, SeedAhead
<1> QED BY <1>1, <1>2, <1>3 DEF OwnInv, CounterAheadOfRows, LateIsOwn, ActivityIsOwn

\* A write is clocked for the session that has its id, after its creation.
LEMMA OwnClock == ASSUME OwnInv, NEW r \in rows, ClockActivity(r) PROVE OwnInv'
<1> DEFINE w0 == [id |-> r.id, of |-> r.created, at |-> now]
<1>1. /\ IInv /\ CounterAheadOfRows /\ LateIsOwn /\ ActivityIsOwn
      /\ counter' = counter /\ rows' = rows /\ late' = late \cup {w0}
  BY DEF OwnInv, ClockActivity
<1>2. IInv'
  BY OtherStep DEF OwnInv
<1>3. (FitsPadding(w0.id) => Parse(w0.id) =< counter) /\ w0.of =< w0.at
  BY <1>1, OwnTypes DEF CounterAheadOfRows, IInv, RowsOfThePast
<1>4. \A o \in rows : o.id = w0.id => o.created = w0.of
  BY <1>1 DEF IInv, RowsApart, Apart
<1> HIDE DEF w0
<1>5. LateIsOwn'
  BY <1>1, <1>3, <1>4 DEF LateIsOwn
<1> QED BY <1>1, <1>2, <1>5 DEF OwnInv, CounterAheadOfRows, ActivityIsOwn

\* Every step.
LEMMA OwnStep == OwnInv /\ [Next]_vars => OwnInv'
<1> SUFFICES ASSUME OwnInv, [Next]_vars PROVE OwnInv'
  OBVIOUS
<1>1. IInv'
  BY StoreStep DEF OwnInv
<1>2. CASE \E e \in Given : Create(e)
  BY <1>2, OwnCreate
<1>3. CASE \E r \in rows : Delete(r)
  BY <1>1, <1>3 DEF Delete, OwnInv, CounterAheadOfRows, LateIsOwn, ActivityIsOwn
<1>4. CASE \E r \in rows : ClockActivity(r)
  BY <1>4, OwnClock
<1>5. CASE \E w \in late : WriteActivity(w)
  BY <1>5, OwnWrite
<1>6. CASE Restart
  BY <1>6, OwnRestart
<1>7. CASE Tick \/ (\E limit \in AskedLimits : StartWalk(limit)) \/ NextPage \/ UNCHANGED vars
  BY <1>1, <1>7 DEF Tick, StartWalk, NextPage, vars, OwnInv, CounterAheadOfRows, LateIsOwn,
                    ActivityIsOwn
<1> QED BY <1>2, <1>3, <1>4, <1>5, <1>6, <1>7 DEF Next

\* The counter is behind no stored id that fits the padding, whatever was created,
\* deleted and restarted before and whatever longer ids are stored: Create gives
\* out no such id a second time.
THEOREM CounterAhead == Spec => []CounterAheadOfRows
<1>1. OwnInv => CounterAheadOfRows
  BY DEF OwnInv
<1> QED BY <1>1, OwnInit, OwnStep, PTL DEF Spec

\* A late write of activity reaches the session it was clocked for, or none, if
\* the id fits the padding.
THEOREM ActivityOwn == Spec => []ActivityIsOwn
<1>1. OwnInv => ActivityIsOwn
  BY DEF OwnInv
<1> QED BY <1>1, OwnInit, OwnStep, PTL DEF Spec
=============================================================================
