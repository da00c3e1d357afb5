----------------------------- MODULE WrapArith ------------------------------
(***************************************************************************)
(* Arithmetic of free-running counters that wrap at a modulus: the facts   *)
(* about % that the proofs on uint32_t positions rest on.                  *)
(***************************************************************************)
EXTENDS Integers, TLAPS

\* x is a multiple of d.
Multiple(x, d) == \E q \in Int : x = d * q

\* Division with remainder.
LEMMA DivMod ==
    ASSUME NEW n \in Int, NEW d \in Nat \ {0}
    PROVE  \E x \in Int : Multiple(x, d) /\ n % d \in 0 .. d - 1 /\ n = x + (n % d)
<1>1. n \div d \in Int /\ n % d \in 0 .. d - 1 /\ n = d * (n \div d) + (n % d)
  BY SMT
<1>2. d * (n \div d) \in Int
  BY <1>1, SMT
<1>3. Multiple(d * (n \div d), d)
  BY <1>1 DEF Multiple
<1>. QED
  BY <1>1, <1>2, <1>3, Zenon

\* Sums and differences of multiples are multiples.
LEMMA MultipleSum ==
    ASSUME NEW d \in Int, NEW x \in Int, NEW y \in Int, Multiple(x, d), Multiple(y, d)
    PROVE  Multiple(x + y, d) /\ Multiple(x - y, d)
<1>1. PICK q \in Int : x = d * q
  BY DEF Multiple
<1>2. PICK r \in Int : y = d * r
  BY DEF Multiple
<1>3. x + y = d * (q + r) /\ x - y = d * (q - r) /\ q + r \in Int /\ q - r \in Int
  BY <1>1, <1>2, SMT
<1>. QED
  BY <1>3, Zenon DEF Multiple

\* A multiple of a multiple is a multiple.
LEMMA MultipleTrans ==
    ASSUME NEW x \in Int, NEW d \in Int, NEW m \in Int, Multiple(x, m), Multiple(m, d)
    PROVE  Multiple(x, d)
<1>1. PICK q \in Int : x = m * q
  BY DEF Multiple
<1>2. PICK k \in Int : m = d * k
  BY DEF Multiple
<1>3. x = d * (k * q) /\ k * q \in Int
  BY <1>1, <1>2, SMT
<1>. QED
  BY <1>3, Zenon DEF Multiple

\* A multiple of d strictly between -d and d is 0.
LEMMA MultipleSmall ==
    ASSUME NEW d \in Nat \ {0}, NEW x \in Int, Multiple(x, d), x < d, -d < x
    PROVE  x = 0
<1>1. PICK q \in Int : x = d * q
  BY DEF Multiple
<1>2. q >= 1 => d * q >= d
  <2>1. SUFFICES ASSUME q >= 1 PROVE d * q >= d
    OBVIOUS
  <2>2. q - 1 \in Nat
    BY <2>1
  <2>3. d * (q - 1) >= 0
    BY <2>2
  <2>. QED
    BY <2>3, SMT
<1>3. q <= -1 => d * q <= -d
  <2>1. SUFFICES ASSUME q <= -1 PROVE d * q <= -d
    OBVIOUS
  <2>2. -1 - q \in Nat
    BY <2>1
  <2>3. d * (-1 - q) >= 0
    BY <2>2
  <2>. QED
    BY <2>3, SMT
<1>4. q = 0
  BY <1>1, <1>2, <1>3
<1>. QED
  BY <1>1, <1>4

\* A remainder is determined by any multiple that leaves it.
LEMMA ModUnique ==
    ASSUME NEW d \in Nat \ {0}, NEW x \in Int, Multiple(x, d), NEW r \in 0 .. d - 1
    PROVE  (x + r) % d = r
<1>1. x + r \in Int
  OBVIOUS
<1>2. PICK y \in Int : /\ Multiple(y, d)
                       /\ (x + r) % d \in 0 .. d - 1
                       /\ x + r = y + ((x + r) % d)
  BY <1>1, DivMod, Zenon
<1> DEFINE e == (x + r) % d
<1>3. e \in 0 .. d - 1 /\ x + r = y + e
  BY <1>2
<1>4. Multiple(x - y, d)
  BY <1>2, MultipleSum
<1> HIDE DEF e
<1>5. x - y < d /\ -d < x - y /\ x - y \in Int
  BY <1>3
<1>6. x - y = 0
  BY <1>4, <1>5, MultipleSmall
<1>7. e = r
  BY <1>3, <1>6
<1>. QED
  BY <1>7 DEF e

\* Advancing a wrapped position wraps the advanced position.
LEMMA ModAdd ==
    ASSUME NEW a \in Nat, NEW n \in Nat, NEW d \in Nat \ {0}
    PROVE  ((a % d) + n) % d = (a + n) % d
<1>1. a \in Int
  OBVIOUS
<1>2. PICK x \in Int : Multiple(x, d) /\ a % d \in 0 .. d - 1 /\ a = x + (a % d)
  BY <1>1, DivMod, Zenon
<1> DEFINE b == (a % d) + n
<1>3. b \in Int /\ a + n = x + b
  BY <1>2
<1> HIDE DEF b
<1>4. PICK y \in Int : Multiple(y, d) /\ b % d \in 0 .. d - 1 /\ b = y + (b % d)
  BY <1>3, DivMod, Zenon
<1> DEFINE e == b % d
<1>5. e \in 0 .. d - 1 /\ b = y + e
  BY <1>4
<1> HIDE DEF e
<1>6. a + n = (x + y) + e /\ x + y \in Int
  BY <1>3, <1>5
<1>7. Multiple(x + y, d)
  BY <1>2, <1>4, MultipleSum
<1>8. ((x + y) + e) % d = e
  BY <1>5, <1>6, <1>7, ModUnique, Zenon
<1>. QED
  BY <1>6, <1>8 DEF b, e

\* Positions less than d apart have different indices.
LEMMA ModDistinct ==
    ASSUME NEW a \in Nat, NEW b \in Nat, NEW d \in Nat \ {0}, a # b, a - b < d, b - a < d
    PROVE  a % d # b % d
<1>1. SUFFICES ASSUME a % d = b % d PROVE FALSE
  OBVIOUS
<1>2. a \in Int /\ b \in Int
  OBVIOUS
<1>3. PICK x \in Int : Multiple(x, d) /\ a % d \in 0 .. d - 1 /\ a = x + (a % d)
  BY <1>2, DivMod, Zenon
<1>4. PICK y \in Int : Multiple(y, d) /\ b % d \in 0 .. d - 1 /\ b = y + (b % d)
  BY <1>2, DivMod, Zenon
<1> DEFINE e == a % d
<1>5. e \in 0 .. d - 1 /\ a = x + e /\ b = y + e
  BY <1>1, <1>3, <1>4
<1> HIDE DEF e
<1>6. x - y \in Int /\ x - y < d /\ -d < x - y /\ x - y # 0
  BY <1>5
<1>7. Multiple(x - y, d)
  BY <1>3, <1>4, MultipleSum
<1>. QED
  BY <1>6, <1>7, MultipleSmall

\* Wrapping at a multiple of d does not change the index.
LEMMA ModMod ==
    ASSUME NEW a \in Nat, NEW d \in Nat \ {0}, NEW m \in Nat \ {0}, m % d = 0
    PROVE  (a % m) % d = a % d
<1>1. a \in Int /\ m \in Int /\ d \in Int
  OBVIOUS
<1>2. Multiple(m, d)
  <2>1. PICK x \in Int : Multiple(x, d) /\ m = x + (m % d)
    BY <1>1, DivMod, Zenon
  <2>2. m = x
    BY <2>1
  <2>. QED
    BY <2>1, <2>2
<1>3. PICK x \in Int : Multiple(x, m) /\ a % m \in 0 .. m - 1 /\ a = x + (a % m)
  BY <1>1, DivMod, Zenon
<1> DEFINE e == a % m
<1>4. e \in Int /\ a = x + e
  BY <1>3
<1> HIDE DEF e
<1>5. Multiple(x, d)
  BY <1>1, <1>2, <1>3, MultipleTrans
<1>6. PICK y \in Int : Multiple(y, d) /\ e % d \in 0 .. d - 1 /\ e = y + (e % d)
  BY <1>4, DivMod, Zenon
<1> DEFINE f == e % d
<1>7. f \in 0 .. d - 1 /\ e = y + f
  BY <1>6
<1> HIDE DEF f
<1>8. a = (x + y) + f /\ x + y \in Int
  BY <1>4, <1>7
<1>9. Multiple(x + y, d)
  BY <1>1, <1>5, <1>6, MultipleSum
<1>10. ((x + y) + f) % d = f
  BY <1>7, <1>8, <1>9, ModUnique, Zenon
<1>. QED
  BY <1>8, <1>10 DEF e, f

\* The distance between two wrapped positions at most s < d apart, as the
\* unsigned expression s - h + t computes the room that is left.
LEMMA ModRoom ==
    ASSUME NEW t \in Nat, NEW h \in Nat, NEW s \in Nat, NEW d \in Nat \ {0},
           t <= h, h - t <= s, s < d
    PROVE  (s + d - (h % d) + (t % d)) % d = s - (h - t)
<1>1. h \in Int /\ t \in Int /\ d \in Int
  OBVIOUS
<1>2. PICK x \in Int : Multiple(x, d) /\ h % d \in 0 .. d - 1 /\ h = x + (h % d)
  BY <1>1, DivMod, Zenon
<1>3. PICK y \in Int : Multiple(y, d) /\ t % d \in 0 .. d - 1 /\ t = y + (t % d)
  BY <1>1, DivMod, Zenon
<1> DEFINE e == h % d
           f == t % d
           r == s - (h - t)
<1>4. e \in Int /\ f \in Int /\ h = x + e /\ t = y + f
  BY <1>2, <1>3
<1>5. r \in 0 .. d - 1
  OBVIOUS
<1> HIDE DEF e, f
<1>6. s + d - e + f = ((x - y) + d) + r /\ (x - y) + d \in Int /\ x - y \in Int
  BY <1>4
<1>7. Multiple((x - y) + d, d)
  <2>1. Multiple(x - y, d)
    BY <1>2, <1>3, MultipleSum
  <2>2. Multiple(d, d)
    BY DEF Multiple
  <2>. QED
    BY <1>6, <2>1, <2>2, MultipleSum
<1> HIDE DEF r
<1>8. (((x - y) + d) + r) % d = r
  BY <1>5, <1>6, <1>7, ModUnique, Zenon
<1>9. (s + d - e + f) % d = r
  BY <1>6, <1>8, Zenon
<1>. QED
  BY <1>9 DEF e, f, r
=============================================================================
