---------------------------- MODULE PgUlidProofs ----------------------------
(***************************************************************************)
(* The codec and the journey of an id through its forms, for all sizes of  *)
(* an id, all layouts and all inputs: what the loops of crockford.rs and   *)
(* the standard library's byte conversions compute, and from it that       *)
(* PgUlid keeps the meaning of an id and reports the right errors.         *)
(***************************************************************************)
EXTENDS PgUlid, WellFoundedInduction, TLAPS

(***************************************************************************)
(* Induction over a set of numbers, and recursion over an interval, in a   *)
(* form that has no operator for a parameter.                              *)
(***************************************************************************)

\* A nonempty set of naturals has a least element.
LEMMA Least ==
  ASSUME NEW T \in SUBSET Nat, T # {}
  PROVE  \E x \in T : \A y \in T : x <= y
<1> DEFINE R == { p \in Nat \X Nat : p[1] < p[2] }
<1>1. IsWellFoundedOn(R, Nat)
  BY NatLessThanWellFounded DEF OpToRel
<1>2. \E x \in T : \A y \in T : ~ (<<y, x>> \in R)
  <2> HIDE DEF R
  <2> QED BY <1>1, WFMin, Zenon
<1>3. \A x, y \in T : ~ (<<y, x>> \in R) => x <= y
  OBVIOUS
<1> QED BY <1>2, <1>3, Zenon

\* A set that holds 0, and k if it holds k - 1, holds every number up to n.
LEMMA Induction ==
  ASSUME NEW n \in Nat, NEW S, 0 \in S, \A k \in 1 .. n : k - 1 \in S => k \in S
  PROVE  \A k \in 0 .. n : k \in S
<1> DEFINE T == { k \in 0 .. n : k \notin S }
<1>1. SUFFICES ASSUME T # {} PROVE FALSE
  OBVIOUS
<1>2. T \in SUBSET Nat
  OBVIOUS
<1>3. PICK x \in T : \A y \in T : x <= y
  <2> HIDE DEF T
  <2> QED BY <1>1, <1>2, Least, Zenon
<1>4. x \in 1 .. n /\ x \notin S
  OBVIOUS
<1>5. x - 1 \notin T
  BY <1>3, <1>4
<1>6. x - 1 \in S
  BY <1>4, <1>5
<1> QED BY <1>4, <1>6

\* One turn after the other: a state in S for every turn of a loop.
Runs(g, n, S, start, step) ==
  /\ g \in [0 .. n -> S] /\ g[0] = start
  /\ \A k \in 1 .. n : g[k] = step[k][g[k - 1]]

\* A loop whose turns lead from S to S has a run.
LEMMA Recursion ==
  ASSUME NEW n \in Nat, NEW S, NEW start \in S, NEW step \in [1 .. n -> [S -> S]]
  PROVE  \E g : Runs(g, n, S, start, step)
<1> DEFINE T == { k \in 0 .. n : \E g : Runs(g, k, S, start, step) }
<1>1. 0 \in T
  <2> DEFINE g == [i \in 0 .. 0 |-> start]
  <2>1. Runs(g, 0, S, start, step)
    BY DEF Runs
  <2> QED BY <2>1
<1>2. ASSUME NEW k \in 1 .. n, k - 1 \in T
      PROVE  k \in T
  <2>1. PICK g : Runs(g, k - 1, S, start, step)
    BY <1>2
  <2> DEFINE h == [i \in 0 .. k |-> IF i = k THEN step[k][g[k - 1]] ELSE g[i]]
  <2>2. g[k - 1] \in S /\ step[k] \in [S -> S]
    BY <2>1 DEF Runs
  <2>3. h \in [0 .. k -> S]
    BY <2>1, <2>2 DEF Runs
  <2>4. h[0] = start
    BY <2>1 DEF Runs
  <2>5. \A i \in 1 .. k : h[i] = step[i][h[i - 1]]
    BY <2>1 DEF Runs
  <2>6. Runs(h, k, S, start, step)
    <3> HIDE DEF h
    <3> QED BY <2>3, <2>4, <2>5 DEF Runs
  <2> QED BY <2>6
<1>3. \A k \in 0 .. n : k \in T
  <2> HIDE DEF T
  <2> QED BY <1>1, <1>2, Induction, Zenon
<1> QED BY <1>3
-----------------------------------------------------------------------------
(***************************************************************************)
(* Powers of two, and division with remainder.                             *)
(***************************************************************************)

\* Powers of two are positive.
LEMMA PowerPositive ==
  ASSUME NEW n \in Nat, Doubling(n)
  PROVE  \A k \in 0 .. n : 2^k \in Nat \ {0}
<1> DEFINE S == { k \in 0 .. n : 2^k \in Nat \ {0} }
<1>1. 0 \in S
  OBVIOUS
<1>2. ASSUME NEW k \in 1 .. n, k - 1 \in S PROVE k \in S
  <2>1. 2^(k - 1 + 1) = 2 * 2^(k - 1)
    <3> DEFINE j == k - 1
    <3>1. j \in 0 .. n - 1
      OBVIOUS
    <3> HIDE DEF j
    <3> QED BY <3>1 DEF Doubling, j
  <2>2. k - 1 + 1 = k
    OBVIOUS
  <2>3. 2^k = 2 * 2^(k - 1)
    BY <2>1, <2>2, Zenon
  <2> QED BY <2>3, <1>2
<1>3. \A k \in 0 .. n : k \in S
  <2> HIDE DEF S
  <2> QED BY <1>1, <1>2, Induction
<1> QED BY <1>3

\* The exponents of a product add up.
LEMMA PowerSum ==
  ASSUME NEW n \in Nat, Doubling(n), NEW a \in Nat, NEW b \in Nat, a + b <= n
  PROVE  2^(a + b) = 2^a * 2^b
<1> DEFINE S == { k \in 0 .. b : 2^(a + k) = 2^a * 2^k }
<1>1. 0 \in S
  <2>1. a + 0 = a /\ 2^0 = 1 /\ 2^a \in Nat
    BY PowerPositive
  <2>2. 2^(a + 0) = 2^a
    BY <2>1, Zenon
  <2> QED BY <2>1, <2>2
<1>2. ASSUME NEW k \in 1 .. b, k - 1 \in S PROVE k \in S
  <2> DEFINE i == k - 1
             j == a + (k - 1)
  <2>1. /\ i \in 0 .. n - 1 /\ j \in 0 .. n - 1
        /\ i + 1 = k /\ j + 1 = a + k
    OBVIOUS
  <2>2. 2^j = 2^a * 2^i
    BY <1>2
  <2> HIDE DEF i, j
  <2>3. 2^(i + 1) = 2 * 2^i /\ 2^(j + 1) = 2 * 2^j
    BY <2>1 DEF Doubling
  <2>4. 2^k = 2 * 2^i /\ 2^(a + k) = 2 * 2^j
    BY <2>1, <2>3, Zenon
  <2>5. 2^a \in Nat /\ 2^i \in Nat
    BY <2>1, PowerPositive
  <2>6. 2^(a + k) = 2^a * 2^k
    <3> DEFINE x == 2^a
               y == 2^i
    <3>1. 2 * (x * y) = x * (2 * y)
      <4> HIDE DEF x, y
      <4> QED BY <2>5 DEF x, y
    <3> QED BY <3>1, <2>2, <2>4
  <2> QED BY <2>6
<1>3. \A k \in 0 .. b : k \in S
  <2> HIDE DEF S
  <2> QED BY <1>1, <1>2, Induction
<1> QED BY <1>3

\* Division with remainder is unique.
LEMMA DivMod ==
  ASSUME NEW b \in Nat \ {0}, NEW q \in Nat, NEW r \in 0 .. b - 1
  PROVE  (q * b + r) \div b = q /\ (q * b + r) % b = r
  OBVIOUS

\* A number is its quotient and remainder.
LEMMA Parts ==
  ASSUME NEW b \in Nat \ {0}, NEW x \in Nat
  PROVE  x \div b \in Nat /\ x % b \in 0 .. b - 1 /\ x = (x \div b) * b + (x % b)
  OBVIOUS

\* Two shifts are one.
LEMMA DivDiv ==
  ASSUME NEW a \in Nat \ {0}, NEW b \in Nat \ {0}, NEW x \in Nat
  PROVE  (x \div a) \div b = x \div (b * a)
<1> DEFINE y == x \div a
           r == x % a
           q == y \div b
           s == y % b
<1>1. y \in Nat /\ r \in 0 .. a - 1 /\ x = y * a + r
  BY Parts, Zenon
<1> HIDE DEF y, r
<1>2. q \in Nat /\ s \in 0 .. b - 1 /\ y = q * b + s
  BY <1>1, Parts, Zenon
<1> HIDE DEF q, s
<1>3. x = q * (b * a) + (s * a + r)
  BY <1>1, <1>2
<1>4. s * a + r \in 0 .. b * a - 1 /\ b * a \in Nat \ {0}
  BY <1>1, <1>2
<1>5. x \div (b * a) = q
  <2> DEFINE c == b * a
             t == s * a + r
  <2>1. c \in Nat \ {0} /\ t \in 0 .. c - 1 /\ x = q * c + t
    BY <1>3, <1>4
  <2> HIDE DEF c, t
  <2>2. x \div c = q
    BY <2>1, <1>2, DivMod
  <2> QED BY <2>2 DEF c
<1> QED BY <1>5 DEF q, y

\* The digit above a, in radix b.
DigitAt(x, a, b) == (x \div a) % b

\* The digit above a of a number cut at a multiple of a and the radix is the
\* number's.
LEMMA CutDigit ==
  ASSUME NEW a \in Nat \ {0}, NEW b \in Nat \ {0}, NEW c \in Nat \ {0}, NEW x \in Nat,
         NEW m, m = c * b * a
  PROVE  DigitAt(x % m, a, b) = DigitAt(x, a, b)
<1> DEFINE q == x \div m
           r == x % m
           y == r \div a
           s == r % a
<1>1. m \in Nat \ {0}
  OBVIOUS
<1>2. m = (c * b) * a
  OBVIOUS
<1>3. q \in Nat /\ r \in Nat /\ x = q * m + r
  <2>1. q \in Nat /\ r \in 0 .. m - 1 /\ x = q * m + r
    BY <1>1, Parts, Zenon
  <2> QED BY <2>1, <1>1
<1> HIDE DEF q, r
<1>4. y \in Nat /\ s \in 0 .. a - 1 /\ r = y * a + s
  BY <1>3, Parts, Zenon
<1> HIDE DEF y, s
<1> DEFINE z == q * c
<1>5. z \in Nat /\ x = (z * b + y) * a + s
  BY <1>2, <1>3, <1>4
<1> HIDE DEF z
<1>6. x \div a = z * b + y
  <2> DEFINE w == z * b + y
  <2>1. w \in Nat /\ x = w * a + s
    BY <1>4, <1>5
  <2> HIDE DEF w
  <2> QED BY <2>1, <1>4, DivMod, Zenon DEF w
<1>7. (z * b + y) % b = y % b
  <2> DEFINE u == y \div b
             v == y % b
  <2>1. u \in Nat /\ v \in 0 .. b - 1 /\ y = u * b + v
    BY <1>4, Parts, Zenon
  <2> HIDE DEF u, v
  <2>2. z + u \in Nat /\ z * b + y = (z + u) * b + v
    BY <2>1, <1>5
  <2>3. (z * b + y) % b = v
    BY <2>1, <2>2, DivMod
  <2> QED BY <2>3 DEF v
<1> QED BY <1>6, <1>7 DEF y, r, DigitAt

\* A digit is shifted into x, and the bits above m fall off.
ShiftCut(x, b, d, m) == (x * b + d) % m

\* Cutting before or after a shift and an addition.
LEMMA CutStep ==
  ASSUME NEW m \in Nat \ {0}, NEW x \in Nat, NEW b \in Nat, NEW d \in Nat
  PROVE  ShiftCut(x % m, b, d, m) = ShiftCut(x, b, d, m)
<1> DEFINE q == x \div m
           r == x % m
           y == r * b + d
           u == y \div m
           v == y % m
<1>1. q \in Nat /\ r \in Nat /\ x = q * m + r
  BY Parts
<1> HIDE DEF q, r
<1>2. y \in Nat
  BY <1>1
<1>3. x * b + d = (q * b) * m + y /\ q * b \in Nat
  BY <1>1
<1> HIDE DEF y
<1>4. u \in Nat /\ v \in 0 .. m - 1 /\ y = u * m + v
  BY <1>2, Parts, Zenon
<1> HIDE DEF u, v
<1> DEFINE z == q * b + u
<1>5. z \in Nat /\ x * b + d = z * m + v
  BY <1>3, <1>4
<1> HIDE DEF z
<1>6. (x * b + d) % m = v
  BY <1>4, <1>5, DivMod
<1> QED BY <1>6 DEF v, y, r, ShiftCut

\* A mask leaves a number that fits as it is.
LEMMA SmallMod ==
  ASSUME NEW b \in Nat \ {0}, NEW x \in 0 .. b - 1
  PROVE  x % b = x
  OBVIOUS

\* A quotient grows with the dividend.
LEMMA DivMonotone ==
  ASSUME NEW b \in Nat \ {0}, NEW x \in Nat, NEW y \in Nat, x <= y
  PROVE  x \div b <= y \div b
<1> DEFINE p == x \div b
           q == y \div b
<1>1. /\ p \in Nat /\ x % b \in 0 .. b - 1 /\ x = p * b + (x % b)
      /\ q \in Nat /\ y % b \in 0 .. b - 1 /\ y = q * b + (y % b)
  BY Parts
<1> HIDE DEF p, q
<1>2. ASSUME q < p PROVE FALSE
  <2>1. p * b >= (q + 1) * b
    BY <1>1, <1>2
  <2> QED BY <2>1, <1>1
<1> QED BY <1>1, <1>2 DEF p, q
-----------------------------------------------------------------------------
(***************************************************************************)
(* Numbers written in radix R with n digits; p[k] is the k-th power of R.  *)
(* The codec and the big-endian bytes are the cases R = 32 and R = 256.    *)
(***************************************************************************)

Radix(R, p, n) ==
  /\ n \in Nat /\ R \in Nat \ {0}
  /\ p \in [0 .. n -> Nat \ {0}] /\ p[0] = 1
  /\ \A k \in 1 .. n : p[k] = R * p[k - 1]

\* The k-th digit of x, counted from the most significant.
Place(x, R, p, n, k) == (x \div p[n - k]) % R

\* A loop that shifts in one digit after the other.
ShiftsIn(f, d, R, n) ==
  /\ f \in [0 .. n -> Nat] /\ f[0] = 0
  /\ \A k \in 1 .. n : f[k] = f[k - 1] * R + d[k]

\* d are the digits of x.
HasDigits(x, d, R, p, n) == \A k \in 1 .. n : Place(x, R, p, n, k) = d[k]

\* The first k digits are the first k - 1 digits and the k-th.
LEMMA PrefixStep ==
  ASSUME NEW R, NEW p, NEW n, Radix(R, p, n), NEW x \in Nat, NEW k \in 1 .. n
  PROVE  /\ x \div p[n - k] \in Nat /\ x \div p[n - (k - 1)] \in Nat
         /\ Place(x, R, p, n, k) \in 0 .. R - 1
         /\ x \div p[n - k] = (x \div p[n - (k - 1)]) * R + Place(x, R, p, n, k)
<1> DEFINE a == p[n - k]
           y == x \div a
<1>1. /\ R \in Nat \ {0} /\ n \in Nat
      /\ p \in [0 .. n -> Nat \ {0}]
      /\ \A j \in 1 .. n : p[j] = R * p[j - 1]
  BY Zenon DEF Radix
<1>2. n - k \in 0 .. n /\ n - (k - 1) \in 1 .. n /\ n - (k - 1) - 1 = n - k
  BY <1>1
<1>3. a \in Nat \ {0}
  BY <1>1, <1>2
<1>4. p[n - (k - 1)] = R * a
  BY <1>1, <1>2
<1> HIDE DEF a
<1>5. y \div R = x \div (R * a) /\ y \in Nat
  BY <1>1, <1>3, DivDiv, Parts, Zenon
<1> HIDE DEF y
<1>6. y \div R \in Nat /\ y % R \in 0 .. R - 1 /\ y = (y \div R) * R + (y % R)
  BY <1>1, <1>5, Parts, Zenon
<1>7. y = x \div p[n - k] /\ Place(x, R, p, n, k) = y % R
  BY DEF Place, y, a
<1>8. x \div p[n - (k - 1)] = y \div R
  BY <1>4, <1>5, Zenon
<1> QED BY <1>5, <1>6, <1>7, <1>8

\* A number that fits n digits has nothing above them, and all of it in them.
LEMMA PrefixEnds ==
  ASSUME NEW R, NEW p, NEW n, Radix(R, p, n), NEW x \in 0 .. p[n] - 1
  PROVE  x \div p[n - 0] = 0 /\ x \div p[n - n] = x /\ x \in Nat
<1>1. n \in Nat /\ p[0] = 1 /\ p[n] \in Nat \ {0}
  BY DEF Radix
<1>2. n - 0 = n /\ n - n = 0 /\ x \in Nat
  BY <1>1
<1>3. x \div p[n] = 0
  <2>1. 0 * p[n] + x = x
    BY <1>1
  <2> QED BY <2>1, <1>1, DivMod
<1> QED BY <1>1, <1>2, <1>3

\* Shifting in n digits gives a number that fits, whose digits they are.
LEMMA DigitsShifted ==
  ASSUME NEW R, NEW p, NEW n, Radix(R, p, n),
         NEW d \in [1 .. n -> 0 .. R - 1], NEW f, ShiftsIn(f, d, R, n)
  PROVE  /\ f[n] \in 0 .. p[n] - 1
         /\ HasDigits(f[n], d, R, p, n)
<1>1. /\ n \in Nat /\ R \in Nat \ {0} /\ f[0] = 0 /\ p[0] = 1
      /\ f \in [0 .. n -> Nat]
      /\ p \in [0 .. n -> Nat \ {0}]
      /\ \A k \in 1 .. n : f[k] = f[k - 1] * R + d[k]
      /\ \A k \in 1 .. n : p[k] = R * p[k - 1]
  BY Zenon DEF Radix, ShiftsIn
<1>2. f[n] \in 0 .. p[n] - 1
  <2> DEFINE S == { k \in 0 .. n : f[k] < p[k] }
  <2>1. 0 \in S
    BY <1>1
  <2>2. ASSUME NEW k \in 1 .. n, k - 1 \in S PROVE k \in S
    <3> DEFINE a == f[k - 1]
               b == p[k - 1]
               c == d[k]
    <3>1. a \in Nat /\ b \in Nat \ {0} /\ c \in 0 .. R - 1 /\ a < b
      <4>1. f \in [0 .. n -> Nat] /\ p \in [0 .. n -> Nat \ {0}] /\ n \in Nat
        BY <1>1, Zenon
      <4> QED BY <4>1, <2>2
    <3>2. f[k] = a * R + c /\ p[k] = R * b
      BY <1>1, Zenon
    <3>3. R \in Nat \ {0}
      BY <1>1
    <3> HIDE DEF a, b, c
    <3>4. a * R + c < R * b
      <4>1. (a + 1) * R <= b * R
        BY <3>1, <3>3
      <4> QED BY <4>1, <3>1, <3>3
    <3> QED BY <3>2, <3>4
  <2>3. \A k \in 0 .. n : k \in S
    <3> HIDE DEF S
    <3> QED BY <1>1, <2>1, <2>2, Induction, Zenon
  <2> QED BY <2>3, <1>1
<1>3. /\ f[n] \in Nat
      /\ \A k \in 1 .. n : /\ f[k] = f[k - 1] * R + d[k]
                           /\ f[k - 1] \in Nat /\ d[k] \in 0 .. R - 1
  <2>1. f \in [0 .. n -> Nat] /\ n \in Nat
    BY <1>1, Zenon
  <2>2. f[n] \in Nat /\ \A k \in 1 .. n : f[k - 1] \in Nat /\ d[k] \in 0 .. R - 1
    BY <2>1
  <2> QED BY <1>1, <2>2, Zenon
<1>4. \A j \in 0 .. n : f[n] \div p[j] = f[n - j]
  <2> DEFINE S == { j \in 0 .. n : f[n] \div p[j] = f[n - j] }
  <2>1. 0 \in S
    BY <1>1, <1>3
  <2>2. ASSUME NEW j \in 1 .. n, j - 1 \in S PROVE j \in S
    <3> DEFINE a == p[j - 1]
               k == n - (j - 1)
    <3>1. a \in Nat \ {0} /\ p[j] = R * a /\ k \in 1 .. n /\ k - 1 = n - j
      <4>1. j - 1 \in 0 .. n /\ k \in 1 .. n /\ k - 1 = n - j
        BY <1>1
      <4> QED BY <1>1, <4>1, Zenon
    <3>2. f[n] \div a = f[k]
      BY <2>2
    <3> HIDE DEF a, k
    <3>3. f[k] = f[k - 1] * R + d[k] /\ f[k - 1] \in Nat /\ d[k] \in 0 .. R - 1
      BY <1>3, <3>1, Zenon
    <3>4. (f[n] \div a) \div R = f[n] \div (R * a)
      BY <1>1, <1>3, <3>1, DivDiv, Zenon
    <3>5. (f[k - 1] * R + d[k]) \div R = f[k - 1]
      BY <1>1, <3>3, DivMod, Zenon
    <3> QED BY <3>1, <3>2, <3>3, <3>4, <3>5
  <2>3. \A k \in 0 .. n : k \in S
    <3> HIDE DEF S
    <3> QED BY <1>1, <2>1, <2>2, Induction, Zenon
  <2> QED BY <2>3
<1>5. ASSUME NEW k \in 1 .. n PROVE Place(f[n], R, p, n, k) = d[k]
  <2>1. n - k \in 0 .. n /\ n - (n - k) = k
    BY <1>1
  <2>2. f[n] \div p[n - k] = f[k]
    BY <1>4, <2>1
  <2>3. f[k] = f[k - 1] * R + d[k] /\ f[k - 1] \in Nat /\ d[k] \in 0 .. R - 1
    BY <1>3, Zenon
  <2>4. (f[k - 1] * R + d[k]) % R = d[k]
    BY <1>1, <2>3, DivMod, Zenon
  <2> QED BY <2>2, <2>3, <2>4 DEF Place
<1> QED BY <1>2, <1>5, Zenon DEF HasDigits

\* A loop that adds up the digits' weights.
AddsUp(s, d, p, n) ==
  s[0] = 0 /\ \A k \in 1 .. n : s[k] = s[k - 1] + d[k] * p[n - k]

\* Two loops end with the same number.
EndAlike(s, f, n) == s[n] = f[n]

\* The sum of the digits' weights is what shifting them in gives.
LEMMA WeightedSum ==
  ASSUME NEW R, NEW p, NEW n, Radix(R, p, n), NEW d \in [1 .. n -> Nat],
         NEW f, ShiftsIn(f, d, R, n), NEW s, AddsUp(s, d, p, n)
  PROVE  EndAlike(s, f, n)
<1> DEFINE S == { k \in 0 .. n : s[k] = f[k] * p[n - k] }
<1>1. /\ n \in Nat /\ R \in Nat \ {0} /\ f[0] = 0 /\ p[0] = 1
      /\ f \in [0 .. n -> Nat]
      /\ p \in [0 .. n -> Nat \ {0}]
      /\ \A k \in 1 .. n : f[k] = f[k - 1] * R + d[k]
      /\ \A k \in 1 .. n : p[k] = R * p[k - 1]
  BY Zenon DEF Radix, ShiftsIn
<1>6. s[0] = 0 /\ \A k \in 1 .. n : s[k] = s[k - 1] + d[k] * p[n - k]
  BY Zenon DEF AddsUp
<1>2. 0 \in S
  <2>1. p[n - 0] \in Nat
    BY <1>1
  <2> QED BY <1>1, <1>6, <2>1
<1>3. ASSUME NEW k \in 1 .. n, k - 1 \in S PROVE k \in S
  <2> DEFINE j == n - (k - 1)
             a == p[n - k]
             b == f[k - 1]
             c == d[k]
  <2>1. j \in 1 .. n /\ j - 1 = n - k /\ n - k \in 0 .. n /\ k - 1 \in 0 .. n
    BY <1>1
  <2>2. a \in Nat /\ b \in Nat /\ c \in Nat /\ R \in Nat
    <3>1. f \in [0 .. n -> Nat] /\ p \in [0 .. n -> Nat \ {0}] /\ R \in Nat \ {0}
      BY <1>1, Zenon
    <3>2. a \in Nat \ {0} /\ b \in Nat /\ c \in Nat
      BY <3>1, <2>1, Zenon
    <3> QED BY <3>1, <3>2
  <2>3. p[j] = R * a
    <3> HIDE DEF j
    <3>1. p[j] = R * p[j - 1]
      BY <1>1, <2>1, Zenon
    <3> QED BY <3>1, <2>1, Zenon
  <2>4. s[k - 1] = b * p[j]
    BY <1>3
  <2>5. s[k] = s[k - 1] + c * a /\ f[k] = b * R + c
    BY <1>1, <1>6, Zenon
  <2>6. b * (R * a) + c * a = (b * R + c) * a
    <3> HIDE DEF a, b, c
    <3> QED BY <2>2
  <2>7. s[k] = f[k] * p[n - k]
    BY <2>3, <2>4, <2>5, <2>6, Zenon
  <2> QED BY <2>7
<1>4. \A k \in 0 .. n : k \in S
  <2> HIDE DEF S
  <2> QED BY <1>1, <1>2, <1>3, Induction, Zenon
<1>5. s[n] = f[n] * p[n - n] /\ n - n = 0 /\ f[n] \in Nat
  BY <1>1, <1>4
<1>7. s[n] = f[n]
  BY <1>1, <1>5
<1> QED BY <1>7, Zenon DEF EndAlike

\* Digits are compared from the first on: of two numbers that fit, the less
\* has the less digit at the first place where they differ.
LEMMA DigitOrder ==
  ASSUME NEW R, NEW p, NEW n, Radix(R, p, n),
         NEW x \in 0 .. p[n] - 1, NEW y \in 0 .. p[n] - 1, x < y
  PROVE  \E i \in 1 .. n :
           /\ Place(x, R, p, n, i) < Place(y, R, p, n, i)
           /\ \A j \in 1 .. i - 1 : Place(x, R, p, n, j) = Place(y, R, p, n, j)
<1> DEFINE T == { k \in 0 .. n : x \div p[n - k] # y \div p[n - k] }
<1>1. /\ x \div p[n - 0] = 0 /\ x \div p[n - n] = x /\ x \in Nat
      /\ y \div p[n - 0] = 0 /\ y \div p[n - n] = y /\ y \in Nat
  BY PrefixEnds
<1>2. n \in Nat /\ R \in Nat \ {0} /\ p \in [0 .. n -> Nat \ {0}]
  BY DEF Radix
<1>3. n \in T /\ 0 \notin T
  BY <1>1, <1>2
<1>4. T \subseteq 0 .. n /\ T \in SUBSET Nat /\ T # {}
  <2>1. T \subseteq 0 .. n
    BY Zenon
  <2> HIDE DEF T
  <2> QED BY <2>1, <1>2, <1>3
<1>5. PICK i \in T : \A k \in T : i <= k
  <2> HIDE DEF T
  <2> QED BY <1>4, Least, Zenon
<1>6. i \in 1 .. n /\ i - 1 \in 0 .. n /\ i - 1 \notin T
  <2> HIDE DEF T
  <2>1. i \in 0 .. n /\ i # 0
    BY <1>3, <1>4, Zenon
  <2> QED BY <2>1, <1>2, <1>5
<1>7. \A j \in 1 .. i - 1 : Place(x, R, p, n, j) = Place(y, R, p, n, j)
  <2> SUFFICES ASSUME NEW j \in 1 .. i - 1
               PROVE  Place(x, R, p, n, j) = Place(y, R, p, n, j)
    OBVIOUS
  <2>1. j \notin T /\ j \in 0 .. n
    BY <1>2, <1>5, <1>6
  <2>2. x \div p[n - j] = y \div p[n - j]
    BY <2>1
  <2> QED BY <2>2, Zenon DEF Place
<1> DEFINE a == x \div p[n - (i - 1)]
           b == y \div p[n - (i - 1)]
           c == Place(x, R, p, n, i)
           e == Place(y, R, p, n, i)
           v == x \div p[n - i]
           w == y \div p[n - i]
<1>8. a = b /\ v # w
  BY <1>5, <1>6
<1>9. /\ v \in Nat /\ a \in Nat /\ c \in 0 .. R - 1 /\ v = a * R + c
      /\ w \in Nat /\ b \in Nat /\ e \in 0 .. R - 1 /\ w = b * R + e
  BY <1>1, <1>6, PrefixStep
<1>10. v <= w
  <2>1. p[n - i] \in Nat \ {0}
    BY <1>2, <1>6
  <2> QED BY <2>1, <1>1, DivMonotone
<1>11. c < e
  <2> HIDE DEF a, b, c, e, v, w
  <2>1. a * R \in Nat
    BY <1>2, <1>9
  <2> QED BY <1>2, <1>8, <1>9, <1>10, <2>1
<1> QED BY <1>6, <1>7, <1>11

\* The powers of 2^w, up to the n-th.
Powers(w, n) == [k \in 0 .. n |-> 2^(w * k)]

\* Bytes are the digits of a number in radix 256, ...
LEMMA ByteRadix ==
  ASSUME NEW n \in Nat, NEW m \in Nat, Doubling(m), 8 * n <= m
  PROVE  Radix(256, Powers(8, n), n)
<1> DEFINE p == Powers(8, n)
<1>1. \A k \in 0 .. n : p[k] = 2^(8 * k) /\ 8 * k \in 0 .. m
  BY DEF Powers
<1>2. p \in [0 .. n -> Nat \ {0}]
  <2>1. \A k \in 0 .. n : 2^(8 * k) \in Nat \ {0}
    BY <1>1, PowerPositive, Zenon
  <2> QED BY <2>1, Zenon DEF Powers
<1>3. p[0] = 1
  <2>1. 8 * 0 = 0 /\ 2^0 = 1 /\ 0 \in 0 .. n
    OBVIOUS
  <2> QED BY <1>1, <2>1, Zenon
<1>4. ASSUME NEW k \in 1 .. n PROVE p[k] = 256 * p[k - 1]
  <2> DEFINE a == 8 * (k - 1)
  <2>1. a \in Nat /\ 8 + a = 8 * k /\ 8 + a <= m /\ k - 1 \in 0 .. n /\ k \in 0 .. n
    OBVIOUS
  <2>2. p[k] = 2^(8 * k) /\ p[k - 1] = 2^a
    BY <1>1, <2>1, Zenon
  <2> HIDE DEF a
  <2>3. 2^(8 + a) = 2^8 * 2^a
    BY <2>1, PowerSum, Zenon
  <2>4. 2^8 = 256
    OBVIOUS
  <2>5. 2^(8 * k) = 256 * 2^a
    <3>1. 2^(8 * k) = 2^(8 + a)
      BY <2>1, Zenon
    <3> QED BY <3>1, <2>3, <2>4, Zenon
  <2> QED BY <2>2, <2>5, Zenon
<1> HIDE DEF p
<1>5. 256 \in Nat \ {0}
  OBVIOUS
<1> QED BY <1>2, <1>3, <1>4, <1>5, Zenon DEF Radix, p

\* ... characters in radix 32.
LEMMA CharRadix ==
  ASSUME NEW n \in Nat, NEW m \in Nat, Doubling(m), 5 * n <= m
  PROVE  Radix(32, Powers(5, n), n)
<1> DEFINE p == Powers(5, n)
<1>1. \A k \in 0 .. n : p[k] = 2^(5 * k) /\ 5 * k \in 0 .. m
  BY DEF Powers
<1>2. p \in [0 .. n -> Nat \ {0}]
  <2>1. \A k \in 0 .. n : 2^(5 * k) \in Nat \ {0}
    BY <1>1, PowerPositive, Zenon
  <2> QED BY <2>1, Zenon DEF Powers
<1>3. p[0] = 1
  <2>1. 5 * 0 = 0 /\ 2^0 = 1 /\ 0 \in 0 .. n
    OBVIOUS
  <2> QED BY <1>1, <2>1, Zenon
<1>4. ASSUME NEW k \in 1 .. n PROVE p[k] = 32 * p[k - 1]
  <2> DEFINE a == 5 * (k - 1)
  <2>1. a \in Nat /\ 5 + a = 5 * k /\ 5 + a <= m /\ k - 1 \in 0 .. n /\ k \in 0 .. n
    OBVIOUS
  <2>2. p[k] = 2^(5 * k) /\ p[k - 1] = 2^a
    BY <1>1, <2>1, Zenon
  <2> HIDE DEF a
  <2>3. 2^(5 + a) = 2^5 * 2^a
    BY <2>1, PowerSum, Zenon
  <2>4. 2^5 = 32
    OBVIOUS
  <2>5. 2^(5 * k) = 32 * 2^a
    <3>1. 2^(5 * k) = 2^(5 + a)
      BY <2>1, Zenon
    <3> QED BY <3>1, <2>3, <2>4, Zenon
  <2> QED BY <2>2, <2>5, Zenon
<1> HIDE DEF p
<1>5. 32 \in Nat \ {0}
  OBVIOUS
<1> QED BY <1>2, <1>3, <1>4, <1>5, Zenon DEF Radix, p

-----------------------------------------------------------------------------
(***************************************************************************)
(* The tables.                                                             *)
(***************************************************************************)

\* ENCODE_LUT is the digits, then the letters without I, L, O and U.
LEMMA Alphabet ==
  \A i \in 1 .. 32 :
    ENCODE_LUT[i] = IF i <= 10 THEN 47 + i ELSE IF i <= 18 THEN 54 + i
                    ELSE IF i <= 20 THEN 55 + i ELSE IF i <= 22 THEN 56 + i
                    ELSE IF i <= 27 THEN 57 + i ELSE 58 + i
  BY DEF ENCODE_LUT

\* Its entries are in ascending order.
LEMMA AlphabetOrder ==
  \A i, j \in 1 .. 32 : i < j <=> ENCODE_LUT[i] < ENCODE_LUT[j]
  BY Alphabet

\* They are digits and upper-case letters, none of them an alias.
LEMMA AlphabetRange ==
  \A i \in 1 .. 32 : /\ ENCODE_LUT[i] \in 48 .. 57 \cup 65 .. 90
                     /\ ENCODE_LUT[i] \notin {73, 76, 79}
  BY Alphabet

\* The tables take a byte for its upper case.
LEMMA UpperOf ==
  ASSUME NEW c \in Bytes, NEW i \in 1 .. 32
  PROVE  /\ i \in Places(c) <=> ENCODE_LUT[i] = Upper(c)
         /\ Upper(c) = 79 <=> c \in {79, 111}
         /\ Upper(c) \in {73, 76} <=> c \in {73, 105, 76, 108}
<1>1. /\ ENCODE_LUT[i] \in 48 .. 57 \cup 65 .. 90
      /\ ENCODE_LUT[i] \notin {73, 76, 79}
  BY AlphabetRange
<1> QED BY <1>1 DEF Bytes, Places, Upper, UpperCase

\* The digits a character stands for: of a character of the alphabet its
\* place, of an alias the digit it is read as, of any other byte none.
LEMMA DigitsOf ==
  ASSUME NEW c \in Bytes
  PROVE  /\ \A i \in 1 .. 32 : ENCODE_LUT[i] = Upper(c) => Digits(c) = {i - 1}
         /\ Upper(c) = 79 => Digits(c) = {0}
         /\ Upper(c) \in {73, 76} => Digits(c) = {1}
         /\ Digits(c) # {} => \/ Upper(c) \in {73, 76, 79}
                              \/ \E i \in 1 .. 32 : ENCODE_LUT[i] = Upper(c)
<1> DEFINE u == Upper(c)
<1>1. \A i, j \in 1 .. 32 : ENCODE_LUT[i] = ENCODE_LUT[j] => i = j
  BY Alphabet
<1>2. \A i \in 1 .. 32 : ENCODE_LUT[i] \notin {73, 76, 79}
  BY AlphabetRange
<1>3. \A d : d \in Digits(c) <=> /\ d \in 0 .. 31
                                 /\ \/ ENCODE_LUT[d + 1] = u
                                    \/ d = 0 /\ u = 79
                                    \/ d = 1 /\ u \in {73, 76}
  BY DEF Digits
<1> HIDE DEF u
<1>4. \A d \in 0 .. 31 : d + 1 \in 1 .. 32
  OBVIOUS
<1>5. \A i \in 1 .. 32 : i - 1 \in 0 .. 31 /\ i - 1 + 1 = i
  OBVIOUS
<1>6. ASSUME NEW i \in 1 .. 32, ENCODE_LUT[i] = u PROVE Digits(c) = {i - 1}
  <2>1. u \notin {73, 76, 79}
    BY <1>2, <1>6
  <2>2. i - 1 \in Digits(c)
    BY <1>3, <1>5, <1>6
  <2>3. ASSUME NEW d \in Digits(c) PROVE d = i - 1
    <3>1. d \in 0 .. 31 /\ ENCODE_LUT[d + 1] = u
      BY <2>1, <1>3
    <3>2. d + 1 = i
      <4>1. d + 1 \in 1 .. 32 /\ ENCODE_LUT[d + 1] = ENCODE_LUT[i]
        BY <3>1, <1>4, <1>6, Zenon
      <4> QED BY <4>1, <1>1, Zenon
    <3> QED BY <3>1, <3>2
  <2> QED BY <2>2, <2>3, Zenon
<1>7. ASSUME u \in {73, 76, 79} PROVE \A d \in 0 .. 31 : ENCODE_LUT[d + 1] # u
  BY <1>2, <1>4, <1>7
<1>8. ASSUME u = 79 PROVE Digits(c) = {0}
  BY <1>3, <1>7, <1>8
<1>9. ASSUME u \in {73, 76} PROVE Digits(c) = {1}
  BY <1>3, <1>7, <1>9
<1>10. ASSUME Digits(c) # {}
       PROVE  u \in {73, 76, 79} \/ \E i \in 1 .. 32 : ENCODE_LUT[i] = u
  BY <1>3, <1>4, <1>10
<1> QED BY <1>6, <1>8, <1>9, <1>10, Zenon DEF u

\* DECODE_LUT gives the digit of a byte that has one, else INVALID_VALUE.
LEMMA DecodeTable ==
  ASSUME NEW c \in Bytes
  PROVE  /\ Digits(c) = {} => DECODE_LUT[c] = INVALID_VALUE
         /\ Digits(c) # {} => /\ DECODE_LUT[c] = Digit(c) /\ Digit(c) \in 0 .. 31
                              /\ DECODE_LUT[c] # INVALID_VALUE
         /\ DECODE_LUT[c] \in Nat
<1> DEFINE u == Upper(c)
<1>1. DECODE_LUT[c] = IF c \in {79, 111} THEN 0
                      ELSE IF c \in {73, 105, 76, 108} THEN 1
                      ELSE IF Places(c) = {} THEN INVALID_VALUE
                      ELSE (CHOOSE i \in Places(c) : TRUE) - 1
  BY DEF DECODE_LUT
<1>2. /\ u = 79 <=> c \in {79, 111}
      /\ u \in {73, 76} <=> c \in {73, 105, 76, 108}
  BY UpperOf
<1>3. \A i : i \in Places(c) <=> i \in 1 .. 32 /\ ENCODE_LUT[i] = u
  <2>1. \A i : i \in Places(c) => i \in 1 .. 32
    BY Zenon DEF Places
  <2>2. \A i \in 1 .. 32 : i \in Places(c) <=> ENCODE_LUT[i] = u
    BY UpperOf
  <2> QED BY <2>1, <2>2, Zenon
<1>4. \A d : Digits(c) = {d} => Digit(c) = d
  BY DEF Digit
<1>5. CASE u = 79
  <2>1. Digits(c) = {0} /\ Digit(c) = 0 /\ DECODE_LUT[c] = 0
    BY <1>1, <1>2, <1>4, <1>5, DigitsOf
  <2> QED BY <2>1 DEF INVALID_VALUE
<1>6. CASE u \in {73, 76}
  <2>1. Digits(c) = {1} /\ Digit(c) = 1 /\ DECODE_LUT[c] = 1
    BY <1>1, <1>2, <1>4, <1>6, DigitsOf
  <2> QED BY <2>1 DEF INVALID_VALUE
<1>7. CASE u \notin {73, 76, 79} /\ \E i \in 1 .. 32 : ENCODE_LUT[i] = u
  <2>1. PICK i \in 1 .. 32 : ENCODE_LUT[i] = u
    BY <1>7
  <2>2. Digits(c) = {i - 1} /\ Digit(c) = i - 1
    BY <1>4, <2>1, DigitsOf
  <2>3. Places(c) = {i}
    <3>1. \A j \in 1 .. 32 : ENCODE_LUT[i] = ENCODE_LUT[j] => i = j
      BY Alphabet
    <3> QED BY <3>1, <1>3, <2>1
  <2>4. DECODE_LUT[c] = i - 1
    BY <2>3, <1>1, <1>2, <1>7
  <2> QED BY <2>2, <2>4 DEF INVALID_VALUE
<1>8. CASE u \notin {73, 76, 79} /\ ~ \E i \in 1 .. 32 : ENCODE_LUT[i] = u
  <2>1. Digits(c) = {}
    BY <1>8, DigitsOf
  <2>2. Places(c) = {}
    BY <1>3, <1>8
  <2>3. DECODE_LUT[c] = INVALID_VALUE
    BY <2>2, <1>1, <1>2, <1>8
  <2> QED BY <2>1, <2>3 DEF INVALID_VALUE
<1> QED BY <1>5, <1>6, <1>7, <1>8

\* A character of the alphabet is the one its digit is written with.
LEMMA AlphabetDigit ==
  ASSUME NEW i \in 1 .. 32
  PROVE  /\ ENCODE_LUT[i] \in Bytes
         /\ Digits(ENCODE_LUT[i]) # {} /\ Digit(ENCODE_LUT[i]) = i - 1
<1>1. ENCODE_LUT[i] \in Bytes /\ Upper(ENCODE_LUT[i]) = ENCODE_LUT[i]
  BY AlphabetRange, SMTT(30) DEF Bytes, Upper
<1>2. Digits(ENCODE_LUT[i]) = {i - 1}
  BY <1>1, DigitsOf
<1>3. Digits(ENCODE_LUT[i]) # {} /\ Digit(ENCODE_LUT[i]) = i - 1
  <2> DEFINE c == ENCODE_LUT[i]
             d == i - 1
  <2> HIDE DEF c, d
  <2>1. Digits(c) = {d} => Digits(c) # {} /\ Digit(c) = d
    BY DEF Digit
  <2> QED BY <1>2, <2>1, Zenon DEF c, d
<1> QED BY <1>1, <1>3, Zenon

-----------------------------------------------------------------------------
(***************************************************************************)
(* The loops over bytes and characters.                                    *)
(***************************************************************************)

\* from_be_bytes shifts in the bytes.
LEMMA FromBytes ==
  ASSUME NEW n \in Nat, NEW bytes \in [1 .. n -> Bytes]
  PROVE  \E f : ShiftsIn(f, bytes, 256, n) /\ from_be_bytes(bytes) = f[n]
<1> DEFINE Turn(f) == [i \in 0 .. n |-> IF i = 0 THEN 0 ELSE f[i - 1] * 256 + bytes[i]]
           step == [k \in 1 .. n |-> [a \in Nat |-> a * 256 + bytes[k]]]
           acc == CHOOSE f : f = Turn(f)
<1>1. Len(bytes) = n
  OBVIOUS
<1>2. from_be_bytes(bytes) = acc[n]
  BY <1>1 DEF from_be_bytes
<1>3. \A k \in 1 .. n : bytes[k] \in Nat
  <2>1. \A b \in Bytes : b \in Nat
    BY DEF Bytes
  <2> QED BY <2>1, Zenon
<1>4. step \in [1 .. n -> [Nat -> Nat]]
  BY <1>3
<1>5. PICK g : Runs(g, n, Nat, 0, step)
  <2> HIDE DEF step
  <2> QED BY <1>4, Recursion, Zenon
<1>6. g = Turn(g)
  <2>1. g \in [0 .. n -> Nat] /\ g[0] = 0 /\ \A k \in 1 .. n : g[k] = step[k][g[k - 1]]
    BY <1>5, Zenon DEF Runs
  <2>2. ASSUME NEW i \in 1 .. n PROVE g[i] = g[i - 1] * 256 + bytes[i]
    <3>1. g[i - 1] \in Nat
      BY <2>1
    <3>2. g[i] = step[i][g[i - 1]]
      BY <2>1, Zenon
    <3> QED BY <3>1, <3>2, Zenon
  <2>3. \A i \in 0 .. n : g[i] = IF i = 0 THEN 0 ELSE g[i - 1] * 256 + bytes[i]
    BY <2>1, <2>2
  <2> QED BY <2>1, <2>3
<1>7. acc = Turn(acc)
  <2> HIDE DEF Turn
  <2> QED BY <1>6, Zenon
<1> HIDE DEF acc
<1>8. \A i \in 0 .. n : acc[i] = IF i = 0 THEN 0 ELSE acc[i - 1] * 256 + bytes[i]
  BY <1>7
<1>9. acc \in [0 .. n -> Nat]
  <2> DEFINE S == { k \in 0 .. n : acc[k] \in Nat }
  <2>1. 0 \in S
    BY <1>8
  <2>2. ASSUME NEW k \in 1 .. n, k - 1 \in S PROVE k \in S
    BY <1>3, <1>8, <2>2
  <2>3. \A k \in 0 .. n : k \in S
    <3> HIDE DEF S
    <3> QED BY <2>1, <2>2, Induction, Zenon
  <2> QED BY <1>7, <2>3
<1>10. ShiftsIn(acc, bytes, 256, n)
  BY <1>8, <1>9 DEF ShiftsIn
<1> QED BY <1>2, <1>10

\* Total adds up the weights.
LEMMA TotalOf ==
  ASSUME NEW n \in Nat, NEW w \in [1 .. n -> Nat]
  PROVE  \E s : /\ s[0] = 0 /\ \A k \in 1 .. n : s[k] = s[k - 1] + w[k]
                /\ Total(w, n) = s[n]
<1> DEFINE Turn(f) == [i \in 0 .. n |-> IF i = 0 THEN 0 ELSE f[i - 1] + w[i]]
           step == [k \in 1 .. n |-> [a \in Nat |-> a + w[k]]]
           sum == CHOOSE f : f = Turn(f)
<1>1. Total(w, n) = sum[n]
  BY DEF Total
<1>2. step \in [1 .. n -> [Nat -> Nat]]
  OBVIOUS
<1>3. PICK g : Runs(g, n, Nat, 0, step)
  <2> HIDE DEF step
  <2> QED BY <1>2, Recursion, Zenon
<1>4. g = Turn(g)
  <2>1. g \in [0 .. n -> Nat] /\ g[0] = 0 /\ \A k \in 1 .. n : g[k] = step[k][g[k - 1]]
    BY <1>3, Zenon DEF Runs
  <2>2. ASSUME NEW i \in 1 .. n PROVE g[i] = g[i - 1] + w[i]
    <3>1. g[i - 1] \in Nat
      BY <2>1
    <3>2. g[i] = step[i][g[i - 1]]
      BY <2>1, Zenon
    <3> QED BY <3>1, <3>2, Zenon
  <2>3. \A i \in 0 .. n : g[i] = IF i = 0 THEN 0 ELSE g[i - 1] + w[i]
    BY <2>1, <2>2
  <2> QED BY <2>1, <2>3
<1>5. sum = Turn(sum)
  <2> HIDE DEF Turn
  <2> QED BY <1>4, Zenon
<1> HIDE DEF sum
<1>6. sum[0] = 0 /\ \A k \in 1 .. n : sum[k] = sum[k - 1] + w[k]
  BY <1>5
<1> QED BY <1>1, <1>6

\* decode_base32 shifts in what the table gives for the characters, within
\* the bits of the integer, and fails if it is INVALID_VALUE for one of them.
DecoderRun(f, bytes, n, size) ==
  /\ f \in [0 .. n -> Nat] /\ f[0] = 0
  /\ \A k \in 1 .. n : f[k] = (f[k - 1] * 32 + DECODE_LUT[bytes[k]]) % 2^(8 * size)
  /\ decode_base32(bytes, size) =
       IF \E k \in 1 .. n : DECODE_LUT[bytes[k]] = INVALID_VALUE
       THEN Err(handle_error(bytes)) ELSE Ok(f[n])

\* The loop of decode_base32 so runs.
LEMMA DecodeLoop ==
  ASSUME NEW n \in Nat, NEW bytes \in [1 .. n -> Bytes], NEW size \in Nat,
         2^(8 * size) \in Nat \ {0}
  PROVE  \E f : DecoderRun(f, bytes, n, size)
<1> DEFINE m == 2^(8 * size)
           d == [i \in DOMAIN bytes |-> DECODE_LUT[bytes[i]]]
           Turn(f) == [i \in 0 .. n |-> IF i = 0 THEN 0 ELSE (f[i - 1] * 32 + d[i]) % m]
           step == [k \in 1 .. n |-> [a \in Nat |-> (a * 32 + d[k]) % m]]
           acc == CHOOSE f : f = Turn(f)
<1>1. Len(bytes) = n /\ DOMAIN bytes = 1 .. n
  OBVIOUS
<1>2. \A k \in 1 .. n : d[k] = DECODE_LUT[bytes[k]] /\ d[k] \in Nat
  BY <1>1, DecodeTable, Zenon
<1>3. decode_base32(bytes, size) =
        IF \E k \in DOMAIN d : d[k] = INVALID_VALUE
        THEN Err(handle_error(bytes)) ELSE Ok(acc[n])
  BY <1>1 DEF decode_base32
<1>4. DOMAIN d = 1 .. n
  BY <1>1
<1> HIDE DEF d
<1>5. step \in [1 .. n -> [Nat -> Nat]]
  <2>1. \A k \in 1 .. n, a \in Nat : (a * 32 + d[k]) % m \in Nat
    <3> HIDE DEF m
    <3> QED BY <1>2 DEF m
  <2> QED BY <2>1, Zenon
<1>6. PICK g : Runs(g, n, Nat, 0, step)
  <2>1. 0 \in Nat
    OBVIOUS
  <2> HIDE DEF step
  <2> QED BY <1>5, <2>1, Recursion, Zenon
<1>7. g = Turn(g)
  <2>1. g \in [0 .. n -> Nat] /\ g[0] = 0 /\ \A k \in 1 .. n : g[k] = step[k][g[k - 1]]
    BY <1>6, Zenon DEF Runs
  <2>2. ASSUME NEW i \in 1 .. n PROVE g[i] = (g[i - 1] * 32 + d[i]) % m
    <3>1. g[i - 1] \in Nat
      BY <2>1
    <3>2. g[i] = step[i][g[i - 1]]
      BY <2>1, Zenon
    <3> QED BY <3>1, <3>2, Zenon
  <2> HIDE DEF m
  <2>3. \A i \in 0 .. n : g[i] = IF i = 0 THEN 0 ELSE (g[i - 1] * 32 + d[i]) % m
    BY <2>1, <2>2
  <2> QED BY <2>1, <2>3
<1>8. acc = Turn(acc)
  <2> HIDE DEF Turn
  <2> QED BY <1>7, Zenon
<1> HIDE DEF acc
<1>9. \A i \in 0 .. n : acc[i] = IF i = 0 THEN 0 ELSE (acc[i - 1] * 32 + d[i]) % m
  <2> HIDE DEF m
  <2> QED BY <1>8
<1>10. \A k \in 1 .. n : acc[k] = (acc[k - 1] * 32 + d[k]) % m
  <2> HIDE DEF m
  <2> QED BY <1>9
<1>11. acc \in [0 .. n -> Nat] /\ acc[0] = 0
  <2> DEFINE S == { k \in 0 .. n : acc[k] \in Nat }
  <2>1. 0 \in S /\ acc[0] = 0
    BY <1>9
  <2>2. ASSUME NEW k \in 1 .. n, k - 1 \in S PROVE k \in S
    <3> DEFINE a == acc[k - 1]
               v == d[k]
    <3>1. a \in Nat /\ v \in Nat /\ acc[k] = (a * 32 + v) % m
      BY <2>2, <1>2, <1>10, Zenon
    <3> HIDE DEF a, v, m
    <3>2. acc[k] \in Nat
      BY <3>1 DEF m
    <3> QED BY <3>2
  <2>3. \A k \in 0 .. n : k \in S
    <3> HIDE DEF S
    <3> QED BY <2>1, <2>2, Induction, Zenon
  <2>4. acc \in [0 .. n -> Nat]
    <3> HIDE DEF m
    <3> QED BY <1>8, <2>3
  <2> QED BY <2>1, <2>4
<1>12. (\E k \in DOMAIN d : d[k] = INVALID_VALUE)
         <=> \E k \in 1 .. n : DECODE_LUT[bytes[k]] = INVALID_VALUE
  BY <1>2, <1>4, Zenon
<1>13. \A k \in 1 .. n : acc[k] = (acc[k - 1] * 32 + DECODE_LUT[bytes[k]]) % m
  BY <1>2, <1>10, Zenon
<1>14. decode_base32(bytes, size) =
         IF \E k \in 1 .. n : DECODE_LUT[bytes[k]] = INVALID_VALUE
         THEN Err(handle_error(bytes)) ELSE Ok(acc[n])
  BY <1>3, <1>12, Zenon
<1> QED BY <1>11, <1>13, <1>14, Zenon DEF DecoderRun

\* The states of encode_base32 over a buffer of n characters.
EncoderStates(n) == [acc : Nat, bits : 0 .. 4, out : Nat, buf : [1 .. n -> Bytes]]

\* What one turn of the loop does to them: the character for place i that is
\* now complete is taken out of the accumulator above the rest(i) lower bits.
Written(n, st, b, new) ==
  LET rest(i) == (st.bits + 8) - (i - st.out) * 5
  IN  /\ new \in EncoderStates(n)
      /\ new.acc = (st.acc * 256 + b) % 2^USIZE_BITS
      /\ new.bits + 5 * new.out = st.bits + 8 + 5 * st.out
      /\ st.out <= new.out
      /\ \A i \in 1 .. n : i <= st.out => new.buf[i] = st.buf[i]
      /\ \A i \in 1 .. n : i > st.out /\ i <= new.out =>
           /\ rest(i) \in 0 .. 7
           /\ new.buf[i] = ENCODE_LUT[((new.acc \div 2^rest(i)) % 32) + 1]

\* A turn of the encoder's loop, for whatever state it is in.
LEMMA WriteByteDoes ==
  ASSUME NEW n \in Nat, NEW st \in EncoderStates(n), NEW b \in Bytes
  PROVE  Written(n, st, b, WriteByte(st, b))
<1> DEFINE new == WriteByte(st, b)
           acc == (st.acc * 256 + b) % 2^USIZE_BITS
           bits == st.bits + 8
           k == bits \div 5
           rest(i) == bits - (i - st.out) * 5
           buf == [i \in DOMAIN st.buf |->
                     IF i \in st.out + 1 .. st.out + k
                     THEN ENCODE_LUT[((acc \div 2^rest(i)) % 32) + 1] ELSE st.buf[i]]
<1>1. new = [acc |-> acc, bits |-> bits - k * 5, out |-> st.out + k, buf |-> buf]
  BY DEF WriteByte, BITS_PER_CHAR
<1>2. /\ st.acc \in Nat /\ st.bits \in 0 .. 4 /\ st.out \in Nat
      /\ st.buf \in [1 .. n -> Bytes] /\ b \in Nat /\ DOMAIN st.buf = 1 .. n
  <2>1. /\ st.acc \in Nat /\ st.bits \in 0 .. 4 /\ st.out \in Nat
        /\ st.buf \in [1 .. n -> Bytes]
    BY DEF EncoderStates
  <2>2. b \in Nat
    BY DEF Bytes
  <2> QED BY <2>1, <2>2, Zenon
<1>3. /\ new.acc = acc /\ new.bits = bits - k * 5 /\ new.out = st.out + k
      /\ new.buf = buf
  BY <1>1
<1>4. /\ k \in Nat /\ bits \in 8 .. 12 /\ bits - k * 5 \in 0 .. 4
      /\ bits = st.bits + 8
  <2> DEFINE o == st.bits
  <2>1. o \in 0 .. 4
    BY <1>2, Zenon
  <2> HIDE DEF o
  <2>2. LET c == o + 8 IN c \div 5 \in Nat /\ c \in 8 .. 12 /\ c - (c \div 5) * 5 \in 0 .. 4
    BY <2>1
  <2> QED BY <2>2, Zenon DEF o
<1> HIDE DEF k, bits
<1>5. 2^USIZE_BITS \in Nat \ {0}
  BY UsizeAssumption, PowerPositive
<1>6. acc \in Nat
  <2> DEFINE m == 2^USIZE_BITS
             x == st.acc * 256 + b
  <2>1. m \in Nat \ {0} /\ x \in Nat
    BY <1>2, <1>5
  <2> HIDE DEF m, x
  <2>2. x % m \in Nat
    BY <2>1
  <2> QED BY <2>2 DEF m, x
<1> HIDE DEF acc
<1>7. ASSUME NEW i \in 1 .. n, i \in st.out + 1 .. st.out + k
      PROVE  /\ rest(i) \in 0 .. 7
             /\ ENCODE_LUT[((acc \div 2^rest(i)) % 32) + 1] \in Bytes
  <2> DEFINE r == rest(i)
             c == 2^r
             v == ((acc \div c) % 32) + 1
  <2>1. r \in 0 .. 7
    <3> DEFINE o == st.out
    <3>1. o \in Nat /\ i \in o + 1 .. o + k
      BY <1>2, <1>7
    <3> HIDE DEF o
    <3>2. bits - (i - o) * 5 \in 0 .. 7
      BY <3>1, <1>4
    <3> QED BY <3>2 DEF o
  <2> HIDE DEF r
  <2>2. c \in Nat \ {0}
    BY <2>1, UsizeAssumption, PowerPositive
  <2> HIDE DEF c
  <2>3. v \in 1 .. 32
    BY <1>6, <2>2
  <2> HIDE DEF v
  <2>4. ENCODE_LUT[v] \in Bytes
    BY <2>3, AlphabetDigit, Zenon
  <2> QED BY <2>1, <2>4 DEF r, c, v
<1>8. ASSUME NEW i \in 1 .. n
      PROVE  /\ buf[i] \in Bytes
             /\ i <= st.out => buf[i] = st.buf[i]
             /\ i > st.out /\ i <= st.out + k =>
                  /\ rest(i) \in 0 .. 7
                  /\ buf[i] = ENCODE_LUT[((acc \div 2^rest(i)) % 32) + 1]
  <2>1. buf[i] = IF i \in st.out + 1 .. st.out + k
                 THEN ENCODE_LUT[((acc \div 2^rest(i)) % 32) + 1] ELSE st.buf[i]
    BY <1>2, Zenon
  <2>2. st.buf[i] \in Bytes
    BY <1>2, Zenon
  <2>3. i \in st.out + 1 .. st.out + k <=> i > st.out /\ i <= st.out + k
    BY <1>2, <1>4, SMTT(20)
  <2>4. i <= st.out => ~ (i > st.out)
    BY <1>2
  <2> HIDE DEF buf, rest
  <2> QED BY <1>7, <2>1, <2>2, <2>3, <2>4, Zenon
<1>9. buf \in [1 .. n -> Bytes]
  <2>1. DOMAIN buf = 1 .. n /\ buf = [i \in 1 .. n |-> buf[i]]
    BY <1>2
  <2> HIDE DEF buf
  <2> QED BY <2>1, <1>8, Zenon
<1> HIDE DEF buf
<1>10. new \in EncoderStates(n)
  <2> DEFINE o == st.out + k
             q == bits - k * 5
  <2>1. o \in Nat /\ q \in 0 .. 4 /\ new = [acc |-> acc, bits |-> q, out |-> o, buf |-> buf]
    <3>1. o \in Nat
      BY <1>2, <1>4, SMTT(20)
    <3> QED BY <3>1, <1>1, <1>4, Zenon
  <2> HIDE DEF o, q, new
  <2> QED BY <2>1, <1>6, <1>9 DEF EncoderStates
<1>11. new.bits + 5 * new.out = st.bits + 8 + 5 * st.out /\ st.out <= new.out
  <2> DEFINE o == st.out
             p == new.out
             q == new.bits
  <2>1. o \in Nat /\ p = o + k /\ q = bits - k * 5
    BY <1>2, <1>3
  <2> HIDE DEF o, p, q
  <2>2. q + 5 * p = bits + 5 * o /\ o <= p
    BY <2>1, <1>4
  <2> QED BY <2>2, <1>4, Zenon DEF o, p, q
<1> HIDE DEF new
<1>12. /\ \A i \in 1 .. n : i <= st.out => new.buf[i] = st.buf[i]
       /\ \A i \in 1 .. n : i > st.out /\ i <= new.out =>
            /\ rest(i) \in 0 .. 7
            /\ new.buf[i] = ENCODE_LUT[((new.acc \div 2^rest(i)) % 32) + 1]
  BY <1>3, <1>8, Zenon
<1> QED BY <1>3, <1>10, <1>11, <1>12, Zenon DEF new, acc, bits, Written

\* The states the encoder goes through.
EncoderRun(f, input, size, buf, n, spare) ==
  /\ f \in [0 .. size -> EncoderStates(n)]
  /\ f[0] = [acc |-> 0, bits |-> spare, out |-> 0, buf |-> buf]
  /\ \A k \in 1 .. size : f[k] = WriteByte(f[k - 1], input[k])
  /\ WriteBytes(input, buf, spare) = f[size]

\* The encoder's loop so runs, whatever its buffer holds.
LEMMA WriteBytesLoop ==
  ASSUME NEW n \in Nat, NEW buf \in [1 .. n -> Bytes], NEW spare \in 0 .. 4,
         NEW size \in Nat, NEW input \in [1 .. size -> Bytes]
  PROVE  \E f : EncoderRun(f, input, size, buf, n, spare)
<1> DEFINE start == [acc |-> 0, bits |-> spare, out |-> 0, buf |-> buf]
           ES == EncoderStates(n)
           Turn(f) == [i \in 0 .. size |-> IF i = 0 THEN start ELSE WriteByte(f[i - 1], input[i])]
           step == [k \in 1 .. size |-> [s \in ES |-> WriteByte(s, input[k])]]
           st == CHOOSE f : f = Turn(f)
<1>1. Len(input) = size
  OBVIOUS
<1>2. WriteBytes(input, buf, spare) = st[size]
  BY <1>1 DEF WriteBytes
<1>3. start \in ES
  BY DEF EncoderStates
<1> HIDE DEF start
<1>4. \A k \in 1 .. size, s \in ES : WriteByte(s, input[k]) \in ES
  <2> SUFFICES ASSUME NEW k \in 1 .. size, NEW s \in ES
               PROVE  WriteByte(s, input[k]) \in ES
    BY Zenon
  <2>1. input[k] \in Bytes
    BY Zenon
  <2>2. Written(n, s, input[k], WriteByte(s, input[k]))
    BY <2>1, WriteByteDoes, Zenon
  <2> QED BY <2>2, Zenon DEF Written
<1> HIDE DEF ES
<1>5. step \in [1 .. size -> [ES -> ES]]
  BY <1>4, Zenon
<1>6. PICK g : Runs(g, size, ES, start, step)
  <2> HIDE DEF step
  <2> QED BY <1>3, <1>5, Recursion, Zenon
<1>7. g = Turn(g)
  <2>1. /\ g \in [0 .. size -> ES] /\ g[0] = start
        /\ \A k \in 1 .. size : g[k] = step[k][g[k - 1]]
    BY <1>6, Zenon DEF Runs
  <2>2. ASSUME NEW i \in 1 .. size PROVE g[i] = WriteByte(g[i - 1], input[i])
    <3>1. g[i - 1] \in ES
      BY <2>1
    <3>2. g[i] = step[i][g[i - 1]]
      BY <2>1, Zenon
    <3> QED BY <3>1, <3>2, Zenon
  <2>3. \A i \in 0 .. size : g[i] = IF i = 0 THEN start ELSE WriteByte(g[i - 1], input[i])
    BY <2>1, <2>2
  <2> QED BY <2>1, <2>3
<1>8. st = Turn(st)
  <2> HIDE DEF Turn
  <2> QED BY <1>7, Zenon
<1> HIDE DEF st
<1>9. st[0] = start /\ \A k \in 1 .. size : st[k] = WriteByte(st[k - 1], input[k])
  BY <1>8
<1>10. st \in [0 .. size -> ES]
  <2> DEFINE S == { k \in 0 .. size : st[k] \in ES }
  <2>1. 0 \in S
    BY <1>3, <1>9
  <2>2. ASSUME NEW k \in 1 .. size, k - 1 \in S PROVE k \in S
    <3>1. st[k] \in ES
      BY <2>2, <1>4, <1>9, Zenon
    <3> QED BY <3>1
  <2>3. \A k \in 0 .. size : k \in S
    <3> HIDE DEF S
    <3> QED BY <2>1, <2>2, Induction, Zenon
  <2> QED BY <1>8, <2>3
<1> QED BY <1>2, <1>9, <1>10, Zenon DEF start, ES, EncoderRun

-----------------------------------------------------------------------------
(***************************************************************************)
(* What the codec computes.                                                *)
(***************************************************************************)

\* The characters of an id hold its bits, and at most four more.
LEMMA SpareBits ==
  ASSUME NEW size \in Nat \ {0}
  PROVE  /\ base32_size(size) \in Nat \ {0}
         /\ 5 * base32_size(size) - 8 * size \in 0 .. 4
  BY DEF base32_size, BITS_PER_CHAR

\* The powers that a size needs.
Sized(size) == size \in Nat \ {0} /\ Doubling(5 * base32_size(size))

\* An id of a size is written in that many bytes, and in characters.
LEMMA SizedFacts ==
  ASSUME NEW size, Sized(size)
  PROVE  /\ size \in Nat \ {0} /\ base32_size(size) \in Nat \ {0}
         /\ Radix(256, Powers(8, size), size)
         /\ Radix(32, Powers(5, base32_size(size)), base32_size(size))
         /\ Powers(8, size)[size] = 2^(8 * size)
         /\ 2^(8 * size) \in Nat \ {0}
         /\ 0 .. 2^(8 * size) - 1 \subseteq 0 .. Powers(5, base32_size(size))[base32_size(size)] - 1
<1> DEFINE n == base32_size(size)
           a == 8 * size
           c == 5 * n - a
<1>1. size \in Nat \ {0} /\ Doubling(5 * n)
  BY Zenon DEF Sized
<1>2. n \in Nat \ {0} /\ 5 * n - 8 * size \in 0 .. 4
  BY <1>1, SpareBits, Zenon
<1> HIDE DEF n
<1>3. a \in Nat /\ c \in Nat /\ a + c = 5 * n /\ 5 * n \in Nat /\ a <= 5 * n /\ size \in Nat
  BY <1>1, <1>2
<1> HIDE DEF a, c
<1>4. Radix(256, Powers(8, size), size)
  BY <1>1, <1>3, ByteRadix DEF a
<1>5. Radix(32, Powers(5, n), n)
  BY <1>1, <1>2, CharRadix
<1>6. 2^a \in Nat \ {0} /\ 2^c \in Nat \ {0}
  <2>1. a \in 0 .. 5 * n /\ c \in 0 .. 5 * n
    BY <1>3
  <2> QED BY <1>1, <1>3, <2>1, PowerPositive, Zenon
<1>7. 2^(5 * n) = 2^a * 2^c
  <2>1. 2^(a + c) = 2^a * 2^c
    BY <1>1, <1>3, PowerSum
  <2> QED BY <2>1, <1>3, Zenon
<1>8. Powers(8, size)[size] = 2^a /\ Powers(5, n)[n] = 2^(5 * n)
  BY <1>1, <1>2 DEF Powers, a
<1>9. 2^a <= 2^(5 * n) /\ 2^(5 * n) \in Nat
  <2> DEFINE x == 2^a
             y == 2^c
             z == 2^(5 * n)
  <2>1. x \in Nat \ {0} /\ y \in Nat \ {0} /\ z = x * y
    BY <1>6, <1>7, Zenon
  <2> HIDE DEF x, y, z
  <2>2. x <= z /\ z \in Nat
    BY <2>1
  <2> QED BY <2>2 DEF x, z
<1>10. 0 .. 2^a - 1 \subseteq 0 .. Powers(5, n)[n] - 1
  BY <1>6, <1>8, <1>9
<1> QED BY <1>1, <1>2, <1>4, <1>5, <1>6, <1>8, <1>10, Zenon DEF n, a

\* The two radices in which a raw id of that size is written.
LEMMA SizedRadix ==
  ASSUME NEW size, Sized(size)
  PROVE  /\ size \in Nat \ {0} /\ base32_size(size) \in Nat \ {0}
         /\ Radix(256, Powers(8, size), size)
         /\ Radix(32, Powers(5, base32_size(size)), base32_size(size))
  BY SizedFacts

\* to_be_bytes gives the digits in radix 256.
LEMMA BytesOf ==
  ASSUME NEW size, Sized(size), NEW raw \in Nat
  PROVE  /\ to_be_bytes(raw, size) \in [1 .. size -> Bytes]
         /\ \A k \in 1 .. size :
              to_be_bytes(raw, size)[k] = Place(raw, 256, Powers(8, size), size, k)
<1>1. size \in Nat \ {0} /\ Radix(256, Powers(8, size), size)
  BY SizedRadix, Zenon
<1>2. \A k \in 1 .. size : to_be_bytes(raw, size)[k] = Place(raw, 256, Powers(8, size), size, k)
  <2>1. \A k \in 1 .. size : Powers(8, size)[size - k] = 2^(8 * (size - k))
    BY <1>1 DEF Powers
  <2> QED BY <2>1, Zenon DEF to_be_bytes, Place
<1>3. \A k \in 1 .. size : Place(raw, 256, Powers(8, size), size, k) \in Bytes
  <2>1. 0 .. 256 - 1 = Bytes
    BY DEF Bytes
  <2>2. \A k \in 1 .. size : Place(raw, 256, Powers(8, size), size, k) \in 0 .. 256 - 1
    <3> DEFINE p == Powers(8, size)
               R == 256
    <3> HIDE DEF p, R
    <3>1. Radix(R, p, size)
      BY <1>1, Zenon DEF p, R
    <3>2. \A k \in 1 .. size : Place(raw, R, p, size, k) \in 0 .. R - 1
      BY <3>1, PrefixStep
    <3> QED BY <3>2, Zenon DEF p, R
  <2> QED BY <2>1, <2>2
<1>4. to_be_bytes(raw, size) = [k \in 1 .. size |-> to_be_bytes(raw, size)[k]]
  BY DEF to_be_bytes
<1> HIDE DEF to_be_bytes
<1>5. \A k \in 1 .. size : to_be_bytes(raw, size)[k] \in Bytes
  BY <1>2, <1>3
<1>6. to_be_bytes(raw, size) \in [1 .. size -> Bytes]
  <2> DEFINE b == to_be_bytes(raw, size)
  <2> HIDE DEF b
  <2>1. b = [k \in 1 .. size |-> b[k]] /\ \A k \in 1 .. size : b[k] \in Bytes
    BY <1>4, <1>5, Zenon DEF b
  <2>2. b \in [1 .. size -> Bytes]
    BY <2>1, Zenon
  <2> QED BY <2>2, Zenon DEF b
<1> QED BY <1>2, <1>6, Zenon

\* The bytes of a raw id are its digits in radix 256.
LEMMA BytesDigits ==
  ASSUME NEW size, Sized(size), NEW raw \in Nat
  PROVE  HasDigits(raw, to_be_bytes(raw, size), 256, Powers(8, size), size)
  BY BytesOf DEF HasDigits

\* A machine word holds a character above any of its low eight bits, so that
\* the character of a number cut to a word is the number's.
LEMMA WordChar ==
  ASSUME NEW x \in Nat, NEW r \in 0 .. 7
  PROVE  ((x % 2^USIZE_BITS) \div 2^r) % 32 = (x \div 2^r) % 32
<1> DEFINE m == 2^USIZE_BITS
           w == USIZE_BITS
           v == 5
           u == USIZE_BITS - 5 - r
           a == 2^r
           b == 32
           c == 2^u
<1>1. w \in Nat /\ Doubling(w)
  BY UsizeAssumption, Zenon
<1>2. /\ u \in Nat /\ v \in Nat /\ r \in Nat /\ u + v \in Nat
      /\ u + v <= w /\ u + v + r <= w
  BY UsizeAssumption
<1>9. u \in 0 .. w /\ r \in 0 .. w
  BY UsizeAssumption
<1>10. u + v + r = w
  BY UsizeAssumption
<1>3. 2^v = b /\ b \in Nat \ {0}
  OBVIOUS
<1> HIDE DEF v, u, w, b
<1>4. a \in Nat \ {0} /\ c \in Nat \ {0}
  BY <1>1, <1>9, PowerPositive, Zenon
<1>5. 2^(u + v) = 2^u * 2^v
  BY <1>1, <1>2, PowerSum
<1>6. 2^(u + v + r) = 2^(u + v) * 2^r
  BY <1>1, <1>2, PowerSum
<1>7. m = c * b * a
  BY <1>10, <1>3, <1>5, <1>6, Zenon DEF w
<1> HIDE DEF m, a, c
<1>8. DigitAt(x % m, a, b) = DigitAt(x, a, b)
  <2>1. b \in Nat \ {0}
    BY <1>3, Zenon
  <2> QED BY <2>1, <1>4, <1>7, CutDigit
<1> QED BY <1>8, Zenon DEF m, a, b, DigitAt

\* A character taken out of the accumulator, in which the bytes up to the
\* k-th have been shifted and the high bits are lost, is one of the raw id.
LEMMA AccumulatedChar ==
  ASSUME NEW size, Sized(size), NEW raw \in Nat, NEW k \in 1 .. size,
         NEW r \in 0 .. 7, NEW j \in 1 .. base32_size(size),
         r + 8 * (size - k) = 5 * (base32_size(size) - j)
  PROVE  (((raw \div 2^(8 * (size - k))) % 2^USIZE_BITS) \div 2^r) % 32
           = Place(raw, 32, Powers(5, base32_size(size)), base32_size(size), j)
<1> DEFINE n == base32_size(size)
           e == 8 * (size - k)
           x == raw \div 2^e
<1>1. size \in Nat \ {0} /\ n \in Nat \ {0} /\ Doubling(5 * n)
  BY SizedRadix, Zenon DEF Sized
<1> HIDE DEF n
<1>3. e \in Nat /\ r + e = 5 * (n - j) /\ r + e <= 5 * n /\ 5 * n \in Nat
  BY <1>1 DEF n
<1> HIDE DEF e
<1>4. 2^(r + e) = 2^r * 2^e
  BY <1>1, <1>3, PowerSum
<1>5. 2^r \in Nat \ {0} /\ 2^e \in Nat \ {0}
  <2>1. r \in 0 .. 5 * n /\ e \in 0 .. 5 * n
    BY <1>3
  <2> QED BY <1>1, <1>3, <2>1, PowerPositive, Zenon
<1>6. x \in Nat /\ x \div 2^r = raw \div 2^(5 * (n - j))
  <2>1. x \in Nat
    BY <1>5, Parts, Zenon
  <2>2. x \div 2^r = raw \div (2^r * 2^e)
    BY <1>5, DivDiv, Zenon
  <2>3. 2^r * 2^e = 2^(5 * (n - j))
    BY <1>3, <1>4, Zenon
  <2> QED BY <2>1, <2>2, <2>3, Zenon
<1> HIDE DEF x
<1>7. ((x % 2^USIZE_BITS) \div 2^r) % 32 = (x \div 2^r) % 32
  BY <1>6, WordChar, Zenon
<1>9. Place(raw, 32, Powers(5, n), n, j) = (raw \div 2^(5 * (n - j))) % 32
  <2>1. Powers(5, n)[n - j] = 2^(5 * (n - j))
    BY <1>1 DEF Powers, n
  <2> QED BY <2>1, Zenon DEF Place
<1> QED BY <1>6, <1>7, <1>9, Zenon DEF x, e, n

\* The text of an id, the digits of which are those in radix 32.
Canonical(raw, n) ==
  [j \in 1 .. n |-> ENCODE_LUT[Place(raw, 32, Powers(5, n), n, j) + 1]]

\* What the encoder has done after k bytes.
Encoded(st, raw, size, k) ==
  /\ st.bits + 5 * st.out = (5 * base32_size(size) - 8 * size) + 8 * k
  /\ st.acc = (raw \div Powers(8, size)[size - k]) % 2^USIZE_BITS
  /\ \A j \in 1 .. base32_size(size) :
       j <= st.out => st.buf[j] = Canonical(raw, base32_size(size))[j]

\* The accumulator holds the bytes read, less the bits that fell off.
LEMMA AccumulatedByte ==
  ASSUME NEW size, Sized(size), NEW raw \in Nat, NEW k \in 1 .. size
  PROVE  (((raw \div Powers(8, size)[size - (k - 1)]) % 2^USIZE_BITS) * 256
            + to_be_bytes(raw, size)[k]) % 2^USIZE_BITS
           = (raw \div Powers(8, size)[size - k]) % 2^USIZE_BITS
<1> DEFINE p == Powers(8, size)
           m == 2^USIZE_BITS
           b == 256
           d == Place(raw, b, p, size, k)
           x == raw \div p[size - (k - 1)]
           y == raw \div p[size - k]
           z == to_be_bytes(raw, size)[k]
<1>1. Radix(b, p, size)
  BY SizedRadix, Zenon
<1>2. z = d
  BY BytesOf
<1>3. m \in Nat \ {0}
  BY UsizeAssumption, PowerPositive
<1>4. b \in Nat \ {0}
  OBVIOUS
<1> HIDE DEF p, m, b, z
<1>5. x \in Nat /\ d \in 0 .. b - 1 /\ y = x * b + d
  BY <1>1, PrefixStep
<1> HIDE DEF d, x, y
<1>6. d \in Nat
  BY <1>4, <1>5
<1>7. ShiftCut(x % m, b, d, m) = ShiftCut(x, b, d, m)
  <2>1. x \in Nat
    BY <1>5, Zenon
  <2>2. b \in Nat
    BY <1>4, Zenon
  <2> QED BY <2>1, <2>2, <1>3, <1>6, CutStep, Zenon
<1>8. ((x % m) * b + z) % m = y % m
  BY <1>2, <1>5, <1>7, Zenon DEF ShiftCut
<1> QED BY <1>8, Zenon DEF b, m, x, y, z, p

\* One turn of the loop.
LEMMA EncodeStep ==
  ASSUME NEW size, Sized(size), NEW raw \in Nat, NEW k \in 1 .. size,
         NEW st \in EncoderStates(base32_size(size)), Encoded(st, raw, size, k - 1)
  PROVE  Encoded(WriteByte(st, to_be_bytes(raw, size)[k]), raw, size, k)
<1> DEFINE n == base32_size(size)
           b == to_be_bytes(raw, size)[k]
           new == WriteByte(st, b)
           rest(i) == (st.bits + 8) - (i - st.out) * 5
<1>1. size \in Nat \ {0} /\ n \in Nat
  BY SizedRadix, Zenon DEF Sized
<1>2. b \in Bytes
  <2>1. to_be_bytes(raw, size) \in [1 .. size -> Bytes]
    BY BytesOf
  <2> QED BY <2>1, Zenon
<1>3. /\ new \in EncoderStates(n)
      /\ new.acc = (st.acc * 256 + b) % 2^USIZE_BITS
      /\ new.bits + 5 * new.out = st.bits + 8 + 5 * st.out
      /\ st.out <= new.out
      /\ \A i \in 1 .. n : i <= st.out => new.buf[i] = st.buf[i]
      /\ \A i \in 1 .. n : i > st.out /\ i <= new.out =>
           /\ rest(i) \in 0 .. 7
           /\ new.buf[i] = ENCODE_LUT[((new.acc \div 2^rest(i)) % 32) + 1]
  <2>1. Written(n, st, b, new)
    BY <1>1, <1>2, WriteByteDoes, Zenon
  <2> QED BY <2>1, Zenon DEF Written
<1>4. /\ st.bits + 5 * st.out = (5 * n - 8 * size) + 8 * (k - 1)
      /\ st.acc = (raw \div Powers(8, size)[size - (k - 1)]) % 2^USIZE_BITS
      /\ \A j \in 1 .. n : j <= st.out => st.buf[j] = Canonical(raw, n)[j]
  BY Zenon DEF Encoded
<1>5. st.bits \in Nat /\ st.out \in Nat /\ new.bits \in Nat /\ new.out \in Nat
  <2>1. new \in EncoderStates(n) /\ st \in EncoderStates(n)
    BY <1>3, Zenon
  <2> HIDE DEF new, n
  <2> QED BY <2>1 DEF EncoderStates
<1> HIDE DEF n, new
<1>6. new.bits + 5 * new.out = (5 * n - 8 * size) + 8 * k
  <2> DEFINE q == st.bits
             o == st.out
             q1 == new.bits
             o1 == new.out
  <2>1. /\ q \in Nat /\ o \in Nat /\ q1 \in Nat /\ o1 \in Nat
        /\ q1 + 5 * o1 = q + 8 + 5 * o
        /\ q + 5 * o = (5 * n - 8 * size) + 8 * (k - 1)
    BY <1>3, <1>4, <1>5
  <2> HIDE DEF q, o, q1, o1
  <2>2. q1 + 5 * o1 = (5 * n - 8 * size) + 8 * k
    BY <2>1, <1>1
  <2> QED BY <2>2, Zenon DEF q1, o1
<1>7. new.acc = (raw \div Powers(8, size)[size - k]) % 2^USIZE_BITS
  <2> DEFINE a == (raw \div Powers(8, size)[size - (k - 1)]) % 2^USIZE_BITS
             c == (raw \div Powers(8, size)[size - k]) % 2^USIZE_BITS
             m == 2^USIZE_BITS
  <2>1. (a * 256 + b) % m = c
    BY AccumulatedByte, SMTT(20)
  <2>2. new.acc = (st.acc * 256 + b) % m /\ st.acc = a
    BY <1>3, <1>4
  <2> HIDE DEF a, c, m, b
  <2> QED BY <2>1, <2>2 DEF c
<1>8. ASSUME NEW j \in 1 .. n, j <= new.out PROVE new.buf[j] = Canonical(raw, n)[j]
  <2>1. CASE j <= st.out
    BY <2>1, <1>3, <1>4, Zenon
  <2>2. CASE j > st.out
    <3> DEFINE r == rest(j)
    <3>1. r \in 0 .. 7 /\ new.buf[j] = ENCODE_LUT[((new.acc \div 2^r) % 32) + 1]
      BY <2>2, <1>3, <1>8, Zenon
    <3>2. r + 8 * (size - k) = 5 * (n - j)
      <4> DEFINE q == st.bits
                 o == st.out
      <4>1. q \in Nat /\ o \in Nat /\ q + 5 * o = (5 * n - 8 * size) + 8 * (k - 1)
        BY <1>4, <1>5
      <4> HIDE DEF q, o
      <4>2. ((q + 8) - (j - o) * 5) + 8 * (size - k) = 5 * (n - j)
        BY <4>1, <1>1
      <4> QED BY <4>2 DEF q, o
    <3>3. Powers(8, size)[size - k] = 2^(8 * (size - k))
      BY <1>1 DEF Powers
    <3> HIDE DEF r
    <3>4. (((raw \div 2^(8 * (size - k))) % 2^USIZE_BITS) \div 2^r) % 32
             = Place(raw, 32, Powers(5, n), n, j)
      BY <3>1, <3>2, AccumulatedChar, ZenonT(30) DEF n
    <3>5. new.buf[j] = ENCODE_LUT[Place(raw, 32, Powers(5, n), n, j) + 1]
      BY <3>1, <3>3, <3>4, <1>7, Zenon
    <3> QED BY <3>5, Zenon DEF Canonical
  <2> QED BY <2>1, <2>2, <1>5
<1> QED BY <1>6, <1>7, <1>8, Zenon DEF Encoded, n, new

\* encode_base32 writes the id's canonical text over the whole buffer, whatever
\* the buffer held and however few of the bits its accumulator keeps.
THEOREM Encodes ==
  ASSUME NEW size, Sized(size), NEW raw \in 0 .. 2^(8 * size) - 1,
         NEW buf \in [1 .. base32_size(size) -> Bytes]
  PROVE  encode_base32(to_be_bytes(raw, size), buf) = Canonical(raw, base32_size(size))
<1> DEFINE n == base32_size(size)
           spare == 5 * n - 8 * size
           input == to_be_bytes(raw, size)
           p == Powers(8, size)
<1>1. /\ size \in Nat \ {0} /\ n \in Nat /\ Radix(256, p, size)
      /\ p[size] = 2^(8 * size) /\ 2^(8 * size) \in Nat \ {0}
  BY SizedFacts DEF Sized
<1>2. raw \in Nat
  BY <1>1
<1>3. input \in [1 .. size -> Bytes]
  BY <1>2, BytesOf
<1>4. spare \in 0 .. 4
  BY <1>1, SpareBits
<1>5. Len(input) = size /\ Len(buf) = n
  <2> HIDE DEF input, n
  <2> QED BY <1>1, <1>3 DEF n
<1>6. encode_base32(input, buf) = WriteBytes(input, buf, spare).buf
  <2>1. n * 5 - size * 8 = spare
    BY <1>1
  <2> HIDE DEF input, n, spare
  <2> QED BY <1>5, <2>1, Zenon DEF encode_base32, BITS_PER_CHAR
<1> HIDE DEF n, input, spare
<1>7. size \in Nat
  BY <1>1
<1>19. PICK f : EncoderRun(f, input, size, buf, n, spare)
  <2>1. buf \in [1 .. n -> Bytes] /\ n \in Nat
    BY <1>1, Zenon DEF n
  <2> QED BY <2>1, <1>3, <1>4, <1>7, WriteBytesLoop, Zenon
<1>8. /\ f \in [0 .. size -> EncoderStates(n)]
      /\ f[0] = [acc |-> 0, bits |-> spare, out |-> 0, buf |-> buf]
      /\ \A k \in 1 .. size : f[k] = WriteByte(f[k - 1], input[k])
      /\ WriteBytes(input, buf, spare) = f[size]
  BY <1>19, Zenon DEF EncoderRun
<1> DEFINE S == { k \in 0 .. size : Encoded(f[k], raw, size, k) }
<1>9. 0 \in S
  <2>1. raw \div p[size - 0] = 0
    <3>1. raw \in 0 .. p[size] - 1
      BY <1>1
    <3> DEFINE R == 256
    <3> HIDE DEF p, R
    <3>2. Radix(R, p, size)
      BY <1>1 DEF R
    <3> QED BY <3>1, <3>2, PrefixEnds
  <2>2. 2^USIZE_BITS \in Nat \ {0}
    BY UsizeAssumption, PowerPositive
  <2>3. 0 = 0 % 2^USIZE_BITS
    BY <2>2
  <2>4. f[0].acc = 0 /\ f[0].bits = spare /\ f[0].out = 0
    BY <1>8
  <2>5. spare + 5 * 0 = spare + 8 * 0
    BY <1>4
  <2>6. f[0].bits + 5 * f[0].out = (5 * n - 8 * size) + 8 * 0
    BY <2>4, <2>5 DEF spare
  <2>7. f[0].acc = (raw \div p[size - 0]) % 2^USIZE_BITS
    BY <2>1, <2>3, <2>4, Zenon
  <2>8. \A j \in 1 .. n : ~ (j <= f[0].out)
    BY <1>1, <2>4
  <2>9. Encoded(f[0], raw, size, 0)
    BY <2>6, <2>7, <2>8, Zenon DEF Encoded, n, p
  <2> QED BY <2>9, <1>7
<1>10. ASSUME NEW k \in 1 .. size, k - 1 \in S PROVE k \in S
  <2>1. f[k - 1] \in EncoderStates(n) /\ Encoded(f[k - 1], raw, size, k - 1)
    BY <1>8, <1>10, Zenon
  <2>2. f[k] = WriteByte(f[k - 1], input[k])
    BY <1>8, Zenon
  <2>3. Encoded(WriteByte(f[k - 1], input[k]), raw, size, k)
    BY <2>1, <1>2, EncodeStep, Zenon DEF n, input
  <2>4. Encoded(f[k], raw, size, k)
    BY <2>2, <2>3, Zenon
  <2> QED BY <2>4, <1>7
<1>11. \A k \in 0 .. size : k \in S
  <2> HIDE DEF S
  <2> QED BY <1>7, <1>9, <1>10, Induction, Zenon
<1>12. Encoded(f[size], raw, size, size) /\ f[size] \in EncoderStates(n)
  BY <1>7, <1>8, <1>11
<1> DEFINE st == f[size]
<1>13. /\ st.bits + 5 * st.out = spare + 8 * size
       /\ \A j \in 1 .. n : j <= st.out => st.buf[j] = Canonical(raw, n)[j]
  BY <1>12, Zenon DEF Encoded, n, spare
<1>14. st.bits \in 0 .. 4 /\ st.out \in Nat /\ st.buf \in [1 .. n -> Bytes]
  BY <1>12 DEF EncoderStates
<1>15. st.out = n
  <2> DEFINE o == st.out
             q == st.bits
  <2>1. q \in 0 .. 4 /\ o \in Nat /\ q + 5 * o = spare + 8 * size
    BY <1>13, <1>14
  <2> HIDE DEF o, q
  <2>2. o = n
    BY <2>1, <1>1 DEF spare
  <2> QED BY <2>2 DEF o
<1>16. \A j \in 1 .. n : st.buf[j] = Canonical(raw, n)[j]
  <2>1. \A j \in 1 .. n : j <= st.out
    BY <1>1, <1>15
  <2> QED BY <2>1, <1>13, Zenon
<1>17. Canonical(raw, n) = [j \in 1 .. n |-> Canonical(raw, n)[j]]
  BY DEF Canonical
<1>18. st.buf = Canonical(raw, n)
  <2> DEFINE a == st.buf
             c == Canonical(raw, n)
  <2>1. a \in [1 .. n -> Bytes] /\ (\A j \in 1 .. n : a[j] = c[j]) /\ c = [j \in 1 .. n |-> c[j]]
    BY <1>14, <1>16, <1>17, Zenon
  <2> HIDE DEF a, c
  <2> QED BY <2>1, Zenon DEF a, c
<1> QED BY <1>6, <1>8, <1>18, Zenon DEF n, input

-----------------------------------------------------------------------------
(***************************************************************************)
(* What shifting in the digits d one after the other gives, as a number.   *)
(***************************************************************************)

Shifted(d, R, n) == (CHOOSE f : ShiftsIn(f, d, R, n))[n]

\* There is one such number.
LEMMA ShiftedIs ==
  ASSUME NEW n \in Nat, NEW R \in Nat, NEW d \in [1 .. n -> Nat]
  PROVE  /\ \E f : ShiftsIn(f, d, R, n) /\ f[n] = Shifted(d, R, n)
         /\ \A f : ShiftsIn(f, d, R, n) => f[n] = Shifted(d, R, n)
<1> DEFINE step == [k \in 1 .. n |-> [a \in Nat |-> a * R + d[k]]]
<1>1. \A k \in 1 .. n, a \in Nat : a * R + d[k] \in Nat
  BY SMTT(20)
<1>2. step \in [1 .. n -> [Nat -> Nat]] /\ 0 \in Nat
  BY <1>1
<1>3. PICK g : Runs(g, n, Nat, 0, step)
  <2> HIDE DEF step
  <2> QED BY <1>2, Recursion, Zenon
<1>4. ShiftsIn(g, d, R, n)
  <2>1. /\ g \in [0 .. n -> Nat] /\ g[0] = 0
        /\ \A k \in 1 .. n : g[k] = step[k][g[k - 1]]
    BY <1>3, Zenon DEF Runs
  <2>2. ASSUME NEW k \in 1 .. n PROVE g[k] = g[k - 1] * R + d[k]
    <3>1. k - 1 \in 0 .. n
      OBVIOUS
    <3>2. g[k - 1] \in Nat
      BY <2>1, <3>1, Zenon
    <3>3. g[k] = step[k][g[k - 1]]
      BY <2>1, Zenon
    <3> QED BY <3>2, <3>3, Zenon
  <2> QED BY <2>1, <2>2, Zenon DEF ShiftsIn
<1> HIDE DEF step
<1> DEFINE h == CHOOSE f : ShiftsIn(f, d, R, n)
<1>5. ShiftsIn(h, d, R, n) /\ Shifted(d, R, n) = h[n]
  BY <1>4, Zenon DEF Shifted
<1> HIDE DEF h
<1>6. ASSUME NEW f, ShiftsIn(f, d, R, n) PROVE f[n] = h[n]
  <2> DEFINE S == { k \in 0 .. n : f[k] = h[k] }
  <2>1. /\ f[0] = 0 /\ \A k \in 1 .. n : f[k] = f[k - 1] * R + d[k]
        /\ h[0] = 0 /\ \A k \in 1 .. n : h[k] = h[k - 1] * R + d[k]
    BY <1>5, <1>6, Zenon DEF ShiftsIn
  <2>2. 0 \in S
    BY <2>1
  <2>3. ASSUME NEW k \in 1 .. n, k - 1 \in S PROVE k \in S
    <3>1. f[k - 1] = h[k - 1]
      BY <2>3, Zenon
    <3>2. f[k] = h[k]
      BY <3>1, <2>1, Zenon
    <3> QED BY <3>2
  <2>4. \A k \in 0 .. n : k \in S
    <3> HIDE DEF S
    <3> QED BY <2>2, <2>3, Induction, Zenon
  <2> QED BY <2>4
<1> QED BY <1>5, <1>6, Zenon

\* It has the digits shifted in.
LEMMA ShiftedPlaces ==
  ASSUME NEW R, NEW p, NEW n, Radix(R, p, n), NEW d \in [1 .. n -> 0 .. R - 1]
  PROVE  /\ Shifted(d, R, n) \in 0 .. p[n] - 1
         /\ HasDigits(Shifted(d, R, n), d, R, p, n)
<1>1. n \in Nat /\ R \in Nat
  BY DEF Radix
<1>2. d \in [1 .. n -> Nat]
  BY <1>1
<1>3. PICK f : ShiftsIn(f, d, R, n) /\ f[n] = Shifted(d, R, n)
  BY <1>1, <1>2, ShiftedIs, Zenon
<1>4. f[n] \in 0 .. p[n] - 1 /\ HasDigits(f[n], d, R, p, n)
  <2>1. ShiftsIn(f, d, R, n)
    BY <1>3, Zenon
  <2> QED BY <2>1, DigitsShifted, Zenon
<1> QED BY <1>3, <1>4, Zenon

\* The digits d write the number x.
Spells(d, R, n, x) == Shifted(d, R, n) = x

\* A number is written by its digits.
LEMMA DigitsSpell ==
  ASSUME NEW R, NEW p, NEW n, Radix(R, p, n), NEW x \in 0 .. p[n] - 1,
         NEW d \in [1 .. n -> Nat], HasDigits(x, d, R, p, n)
  PROVE  Spells(d, R, n, x)
<1>1. n \in Nat /\ R \in Nat
  BY DEF Radix
<1>2. PICK f : ShiftsIn(f, d, R, n) /\ f[n] = Shifted(d, R, n)
  BY <1>1, ShiftedIs, Zenon
<1> DEFINE S == { k \in 0 .. n : f[k] = x \div p[n - k] }
<1>3. x \div p[n - 0] = 0 /\ x \div p[n - n] = x /\ x \in Nat
  BY PrefixEnds
<1>4. f[0] = 0 /\ \A k \in 1 .. n : f[k] = f[k - 1] * R + d[k]
  BY <1>2, Zenon DEF ShiftsIn
<1>5. 0 \in S
  BY <1>1, <1>3, <1>4
<1>6. ASSUME NEW k \in 1 .. n, k - 1 \in S PROVE k \in S
  <2>1. f[k - 1] = x \div p[n - (k - 1)]
    BY <1>6
  <2>2. x \div p[n - k] = (x \div p[n - (k - 1)]) * R + Place(x, R, p, n, k)
    BY <1>3, PrefixStep
  <2>3. f[k] = f[k - 1] * R + Place(x, R, p, n, k)
    BY <1>4, Zenon DEF HasDigits
  <2>4. k \in 0 .. n
    BY <1>1
  <2> QED BY <2>1, <2>2, <2>3, <2>4, Zenon
<1>7. \A k \in 0 .. n : k \in S
  <2> HIDE DEF S
  <2> QED BY <1>1, <1>5, <1>6, Induction, Zenon
<1>8. n \in 0 .. n
  BY <1>1
<1>9. f[n] = x
  BY <1>3, <1>7, <1>8, Zenon
<1> QED BY <1>2, <1>9, Zenon DEF Spells

\* The sum of the digits' weights.
LEMMA TotalIs ==
  ASSUME NEW R, NEW p, NEW n, Radix(R, p, n), NEW d \in [1 .. n -> Nat]
  PROVE  Total([i \in 1 .. n |-> d[i] * p[n - i]], n) = Shifted(d, R, n)
<1> DEFINE w == [i \in 1 .. n |-> d[i] * p[n - i]]
<1>1. n \in Nat /\ R \in Nat /\ p \in [0 .. n -> Nat \ {0}]
  BY DEF Radix
<1>2. w \in [1 .. n -> Nat]
  <2>1. ASSUME NEW i \in 1 .. n PROVE d[i] * p[n - i] \in Nat
    <3>1. n - i \in 0 .. n
      BY <1>1
    <3>2. d[i] \in Nat /\ p[n - i] \in Nat \ {0}
      BY <1>1, <3>1, Zenon
    <3> QED BY <3>2
  <2> QED BY <2>1, Zenon
<1>3. \A k \in 1 .. n : w[k] = d[k] * p[n - k]
  BY Zenon
<1> HIDE DEF w
<1>4. PICK s : /\ s[0] = 0 /\ \A k \in 1 .. n : s[k] = s[k - 1] + w[k]
               /\ Total(w, n) = s[n]
  BY <1>1, <1>2, TotalOf, Zenon
<1>5. PICK f : ShiftsIn(f, d, R, n) /\ f[n] = Shifted(d, R, n)
  BY <1>1, ShiftedIs, Zenon
<1>6. AddsUp(s, d, p, n)
  BY <1>3, <1>4, Zenon DEF AddsUp
<1>7. EndAlike(s, f, n)
  <2>1. ShiftsIn(f, d, R, n)
    BY <1>5, Zenon
  <2> QED BY <2>1, <1>6, WeightedSum, Zenon
<1> QED BY <1>4, <1>5, <1>7, Zenon DEF w, EndAlike

\* from_be_bytes and the big-endian number, of the bytes of an integer.
LEMMA BytesNumber ==
  ASSUME NEW size, Sized(size), NEW bytes \in [1 .. size -> Bytes]
  PROVE  /\ from_be_bytes(bytes) = Shifted(bytes, 256, size)
         /\ BigEndian(bytes) = Shifted(bytes, 256, size)
         /\ Shifted(bytes, 256, size) \in 0 .. 2^(8 * size) - 1
<1> DEFINE R == 256
           p == Powers(8, size)
<1>1. size \in Nat /\ Radix(R, p, size) /\ p[size] = 2^(8 * size)
  BY SizedFacts
<1>2. bytes \in [1 .. size -> Nat] /\ bytes \in [1 .. size -> 0 .. R - 1] /\ R \in Nat
  <2>1. 0 .. R - 1 = Bytes /\ R \in Nat /\ Bytes \subseteq Nat
    BY DEF Bytes
  <2> HIDE DEF R
  <2> QED BY <2>1, Zenon
<1>3. Len(bytes) = size /\ DOMAIN bytes = 1 .. size
  BY <1>1
<1>4. \A i \in 1 .. size : p[size - i] = 2^(8 * (size - i))
  BY <1>1 DEF Powers
<1>5. PICK f : ShiftsIn(f, bytes, R, size) /\ from_be_bytes(bytes) = f[size]
  BY <1>1, FromBytes
<1> HIDE DEF R, p
<1>6. f[size] = Shifted(bytes, R, size)
  <2>1. ShiftsIn(f, bytes, R, size)
    BY <1>5, Zenon
  <2> QED BY <2>1, <1>1, <1>2, ShiftedIs, Zenon
<1>7. Total([i \in 1 .. size |-> bytes[i] * p[size - i]], size) = Shifted(bytes, R, size)
  BY <1>1, <1>2, TotalIs, Zenon
<1>8. Shifted(bytes, R, size) \in 0 .. p[size] - 1
  BY <1>1, <1>2, ShiftedPlaces, Zenon
<1>9. BigEndian(bytes) = Total([i \in 1 .. size |-> bytes[i] * p[size - i]], size)
  <2>1. [i \in 1 .. size |-> bytes[i] * p[size - i]]
          = [i \in 1 .. size |-> bytes[i] * 2^(8 * (size - i))]
    BY <1>4, Zenon
  <2> QED BY <2>1, <1>3, Zenon DEF BigEndian
<1> QED BY <1>1, <1>5, <1>6, <1>7, <1>8, <1>9, Zenon DEF R

\* An integer survives the way over its bytes.
LEMMA BytesBack ==
  ASSUME NEW size, Sized(size), NEW raw \in 0 .. 2^(8 * size) - 1
  PROVE  /\ to_be_bytes(raw, size) \in [1 .. size -> Bytes]
         /\ from_be_bytes(to_be_bytes(raw, size)) = raw
         /\ BigEndian(to_be_bytes(raw, size)) = raw
<1> DEFINE R == 256
           p == Powers(8, size)
           b == to_be_bytes(raw, size)
<1>1. /\ size \in Nat /\ Radix(R, p, size) /\ raw \in 0 .. p[size] - 1
      /\ raw \in Nat
  <2>1. /\ size \in Nat \ {0} /\ p[size] = 2^(8 * size)
        /\ 2^(8 * size) \in Nat \ {0} /\ Radix(R, p, size)
    BY SizedFacts
  <2> DEFINE m == 2^(8 * size)
  <2> HIDE DEF m, p, R
  <2>2. p[size] = m /\ m \in Nat \ {0} /\ raw \in 0 .. m - 1
    BY <2>1, Zenon DEF m
  <2> QED BY <2>1, <2>2
<1>2. b \in [1 .. size -> Bytes]
  BY <1>1, BytesOf, Zenon
<1>6. HasDigits(raw, b, R, p, size)
  BY <1>1, BytesDigits
<1> HIDE DEF b, p
<1>3. from_be_bytes(b) = Shifted(b, R, size) /\ BigEndian(b) = Shifted(b, R, size)
  BY <1>2, BytesNumber
<1> HIDE DEF R
<1>4. b \in [1 .. size -> Nat]
  <2>1. Bytes \subseteq Nat
    BY DEF Bytes
  <2> QED BY <2>1, <1>2, Zenon
<1>5. Spells(b, R, size, raw)
  BY <1>1, <1>4, <1>6, DigitsSpell, Zenon
<1> QED BY <1>2, <1>3, <1>5, Zenon DEF Spells, b

-----------------------------------------------------------------------------
(***************************************************************************)
(* What the decoder reads.                                                 *)
(***************************************************************************)

\* Every character is one of the alphabet or an alias, in either case.
AllDigits(text, n) == \A k \in 1 .. n : Digits(text[k]) # {}

\* The digits they stand for.
TextDigits(text, n) == [k \in 1 .. n |-> Digit(text[k])]

\* The table gives each character of such a text the digit it is.
LEMMA TextDigitsAre ==
  ASSUME NEW n \in Nat, NEW text \in [1 .. n -> Bytes], AllDigits(text, n)
  PROVE  /\ TextDigits(text, n) \in [1 .. n -> 0 .. 31]
         /\ TextDigits(text, n) \in [1 .. n -> Nat]
         /\ \A k \in 1 .. n : /\ TextDigits(text, n)[k] = DECODE_LUT[text[k]]
                              /\ TextDigits(text, n)[k] = Digit(text[k])
                              /\ DECODE_LUT[text[k]] # INVALID_VALUE
<1>1. ASSUME NEW k \in 1 .. n
      PROVE  /\ DECODE_LUT[text[k]] = Digit(text[k]) /\ Digit(text[k]) \in 0 .. 31
             /\ DECODE_LUT[text[k]] # INVALID_VALUE
  <2>1. text[k] \in Bytes /\ Digits(text[k]) # {}
    BY Zenon DEF AllDigits
  <2> QED BY <2>1, DecodeTable, Zenon
<1>2. 0 .. 31 \subseteq Nat
  OBVIOUS
<1> QED BY <1>1, <1>2, Zenon DEF TextDigits

\* A loop that shifts digits in and loses the bits above m.
CutsAlong(f, d, R, m, n) ==
  /\ f \in [0 .. n -> Nat] /\ f[0] = 0
  /\ \A k \in 1 .. n : f[k] = ShiftCut(f[k - 1], R, d[k], m)

\* It ends with the number written, less those bits.
EndsCut(f, d, R, m, n) == f[n] = Shifted(d, R, n) % m

\* Losing the bits at every turn or at the end is the same.
LEMMA CutAlong ==
  ASSUME NEW n \in Nat, NEW R \in Nat, NEW d \in [1 .. n -> Nat], NEW m \in Nat \ {0},
         NEW f, CutsAlong(f, d, R, m, n)
  PROVE  EndsCut(f, d, R, m, n)
<1>1. PICK g : ShiftsIn(g, d, R, n) /\ g[n] = Shifted(d, R, n)
  BY ShiftedIs, Zenon
<1>2. /\ g \in [0 .. n -> Nat] /\ g[0] = 0
      /\ \A k \in 1 .. n : g[k] = g[k - 1] * R + d[k]
  BY <1>1, Zenon DEF ShiftsIn
<1>3. f[0] = 0 /\ \A k \in 1 .. n : f[k] = ShiftCut(f[k - 1], R, d[k], m)
  BY Zenon DEF CutsAlong
<1> DEFINE S == { k \in 0 .. n : f[k] = g[k] % m }
<1>4. 0 \in S
  BY <1>2, <1>3
<1>5. ASSUME NEW k \in 1 .. n, k - 1 \in S PROVE k \in S
  <2>1. f[k - 1] = g[k - 1] % m /\ k - 1 \in 0 .. n
    BY <1>5
  <2>2. g[k - 1] \in Nat /\ d[k] \in Nat
    BY <2>1, <1>2, Zenon
  <2>3. ShiftCut(g[k - 1] % m, R, d[k], m) = ShiftCut(g[k - 1], R, d[k], m)
    BY <2>2, CutStep, Zenon
  <2>4. ShiftCut(g[k - 1], R, d[k], m) = g[k] % m
    BY <1>2, Zenon DEF ShiftCut
  <2>5. f[k] = g[k] % m
    BY <2>1, <2>3, <2>4, <1>3, Zenon
  <2> QED BY <2>5
<1>6. \A k \in 0 .. n : k \in S
  <2> HIDE DEF S
  <2> QED BY <1>4, <1>5, Induction, Zenon
<1>7. f[n] = g[n] % m
  BY <1>6
<1> QED BY <1>1, <1>7, Zenon DEF EndsCut

\* decode_base32 gives the number written, less the bits above the integer's,
\* or fails on a text that is none, at every size.
THEOREM Decodes ==
  ASSUME NEW n \in Nat, NEW text \in [1 .. n -> Bytes], NEW size \in Nat,
         2^(8 * size) \in Nat \ {0}
  PROVE  decode_base32(text, size) =
           IF AllDigits(text, n) THEN Ok(Shifted(TextDigits(text, n), 32, n) % 2^(8 * size))
           ELSE Err(handle_error(text))
<1> DEFINE m == 2^(8 * size)
           R == 32
           d == TextDigits(text, n)
<1>5. PICK f : DecoderRun(f, text, n, size)
  BY DecodeLoop, Zenon
<1>1. /\ f \in [0 .. n -> Nat] /\ f[0] = 0
      /\ \A k \in 1 .. n : f[k] = (f[k - 1] * R + DECODE_LUT[text[k]]) % m
      /\ decode_base32(text, size) =
           IF \E k \in 1 .. n : DECODE_LUT[text[k]] = INVALID_VALUE
           THEN Err(handle_error(text)) ELSE Ok(f[n])
  BY <1>5, Zenon DEF DecoderRun
<1>2. m \in Nat \ {0} /\ R \in Nat
  OBVIOUS
<1> HIDE DEF m, R
<1>3. CASE AllDigits(text, n)
  <2>1. /\ d \in [1 .. n -> Nat]
        /\ \A k \in 1 .. n : d[k] = DECODE_LUT[text[k]] /\ DECODE_LUT[text[k]] # INVALID_VALUE
    BY <1>3, TextDigitsAre, Zenon
  <2> HIDE DEF d
  <2>2. CutsAlong(f, d, R, m, n)
    BY <1>1, <2>1, Zenon DEF CutsAlong, ShiftCut
  <2>3. EndsCut(f, d, R, m, n)
    BY <2>1, <2>2, <1>2, CutAlong, Zenon
  <2>4. decode_base32(text, size) = Ok(f[n])
    BY <2>1, <1>1, Zenon
  <2> QED BY <2>3, <2>4, <1>3, Zenon DEF d, R, m, EndsCut
<1>4. CASE ~ AllDigits(text, n)
  <2>1. PICK k \in 1 .. n : Digits(text[k]) = {}
    BY <1>4, Zenon DEF AllDigits
  <2>2. text[k] \in Bytes
    BY Zenon
  <2>3. DECODE_LUT[text[k]] = INVALID_VALUE
    BY <2>1, <2>2, DecodeTable, Zenon
  <2>4. decode_base32(text, size) = Err(handle_error(text))
    BY <2>3, <1>1, Zenon
  <2> QED BY <2>4, <1>4, Zenon
<1> QED BY <1>3, <1>4

\* The error names the first byte that is no digit.
LEMMA FirstInvalid ==
  ASSUME NEW n \in Nat, NEW text \in [1 .. n -> Bytes], ~ AllDigits(text, n)
  PROVE  \E at \in 1 .. n :
           /\ handle_error(text) = [is |-> "DecodeInvalidAscii", byte |-> text[at], index |-> at - 1]
           /\ Digits(text[at]) = {} /\ \A j \in 1 .. at - 1 : Digits(text[j]) # {}
<1> DEFINE Bad(i) == DECODE_LUT[text[i]] = INVALID_VALUE
           T == { i \in 1 .. n : Bad(i) }
           at == CHOOSE i \in DOMAIN text : Bad(i) /\ \A j \in 1 .. i - 1 : ~ Bad(j)
<1>1. \A i \in 1 .. n : Bad(i) <=> Digits(text[i]) = {}
  <2> SUFFICES ASSUME NEW i \in 1 .. n PROVE Bad(i) <=> Digits(text[i]) = {}
    BY Zenon
  <2>1. text[i] \in Bytes
    BY Zenon
  <2> QED BY <2>1, DecodeTable, Zenon
<1>2. DOMAIN text = 1 .. n
  BY Zenon
<1>3. \E i \in DOMAIN text : Bad(i) /\ \A j \in 1 .. i - 1 : ~ Bad(j)
  <2>1. T # {}
    BY <1>1, Zenon DEF AllDigits
  <2>2. T \subseteq 1 .. n
    BY Zenon
  <2>3. 1 .. n \subseteq Nat
    OBVIOUS
  <2>4. T \in SUBSET Nat
    BY <2>2, <2>3, Zenon
  <2>5. PICK i \in T : \A k \in T : i <= k
    <3> HIDE DEF T
    <3> QED BY <2>1, <2>4, Least, Zenon
  <2>6. i \in 1 .. n /\ Bad(i)
    BY Zenon
  <2>7. ASSUME NEW j \in 1 .. i - 1 PROVE ~ Bad(j)
    <3>1. j \in 1 .. n /\ ~ (i <= j)
      BY <2>6
    <3> QED BY <3>1, <2>5, Zenon
  <2> QED BY <2>6, <2>7, <1>2, Zenon
<1>4. at \in 1 .. n /\ Bad(at) /\ \A j \in 1 .. at - 1 : ~ Bad(j)
  BY <1>2, <1>3, Zenon
<1>5. handle_error(text) = [is |-> "DecodeInvalidAscii", byte |-> text[at], index |-> at - 1]
  BY Zenon DEF handle_error
<1> HIDE DEF at
<1>6. \A j \in 1 .. at - 1 : j \in 1 .. n
  BY <1>4
<1> HIDE DEF Bad
<1> QED BY <1>1, <1>4, <1>5, <1>6, Zenon

\* The number written, as Number defines it.
LEMMA NumberIs ==
  ASSUME NEW t \in Types, NEW n, n = base32_size(SIZE[t]), Sized(SIZE[t]),
         NEW text \in [1 .. n -> Bytes], AllDigits(text, n)
  PROVE  Number(t, text) = Shifted(TextDigits(text, n), 32, n) % 2^(8 * SIZE[t])
<1> DEFINE R == 32
           p == Powers(5, n)
           d == TextDigits(text, n)
<1>1. n \in Nat /\ Radix(R, p, n)
  BY SizedRadix
<1>2. d \in [1 .. n -> Nat] /\ \A k \in 1 .. n : d[k] = Digit(text[k])
  BY <1>1, TextDigitsAre, Zenon
<1>3. Len(text) = n /\ DOMAIN text = 1 .. n
  BY <1>1
<1>4. \A i \in 1 .. n : p[n - i] = 2^(5 * (n - i))
  BY <1>1 DEF Powers
<1> HIDE DEF R, p, d
<1>5. Total([i \in 1 .. n |-> d[i] * p[n - i]], n) = Shifted(d, R, n)
  BY <1>1, <1>2, TotalIs, Zenon
<1>6. [i \in 1 .. n |-> d[i] * p[n - i]] = [i \in 1 .. n |-> Digit(text[i]) * 2^(5 * (n - i))]
  BY <1>2, <1>4, Zenon
<1>7. Number(t, text) = Total([i \in 1 .. n |-> d[i] * p[n - i]], n) % 2^(8 * SIZE[t])
  BY <1>3, <1>6, Zenon DEF Number
<1> QED BY <1>5, <1>7, Zenon DEF d, R

-----------------------------------------------------------------------------
(***************************************************************************)
(* The one canonical text of an id.                                        *)
(***************************************************************************)

\* The k-th character stands for the k-th digit of the id.
CharsOf(text, raw, n, R) ==
  \A k \in 1 .. n :
    /\ Place(raw, R, Powers(5, n), n, k) \in 0 .. R - 1
    /\ text[k] = ENCODE_LUT[Place(raw, R, Powers(5, n), n, k) + 1]
    /\ Digit(text[k]) = Place(raw, R, Powers(5, n), n, k)

\* It is a text, and its digits are the id's.
LEMMA CanonicalText ==
  ASSUME NEW size, Sized(size), NEW n, n = base32_size(size), NEW raw \in Nat
  PROVE  /\ Canonical(raw, n) \in [1 .. n -> Bytes]
         /\ AllDigits(Canonical(raw, n), n)
         /\ CharsOf(Canonical(raw, n), raw, n, 32)
<1> DEFINE p == Powers(5, n)
           R == 32
           D(k) == Place(raw, R, p, n, k)
           c == Canonical(raw, n)
<1>1. n \in Nat /\ Radix(R, p, n)
  BY SizedRadix
<1> HIDE DEF p
<1>2. ASSUME NEW k \in 1 .. n
      PROVE  /\ c[k] = ENCODE_LUT[D(k) + 1] /\ c[k] \in Bytes /\ D(k) \in 0 .. 31
             /\ Digits(c[k]) # {} /\ Digit(c[k]) = D(k)
  <2>1. D(k) \in 0 .. R - 1
    <3> HIDE DEF R
    <3> QED BY <1>1, PrefixStep
  <2>2. c[k] = ENCODE_LUT[D(k) + 1]
    BY Zenon DEF Canonical, p
  <2> HIDE DEF c, D
  <2>3. D(k) \in 0 .. 31 /\ D(k) + 1 \in 1 .. 32 /\ (D(k) + 1) - 1 = D(k)
    BY <2>1
  <2> DEFINE i == D(k) + 1
  <2>4. i \in 1 .. 32 /\ i - 1 = D(k)
    BY <2>3
  <2> HIDE DEF i
  <2>5. /\ ENCODE_LUT[i] \in Bytes
        /\ Digits(ENCODE_LUT[i]) # {} /\ Digit(ENCODE_LUT[i]) = i - 1
    BY <2>4, AlphabetDigit
  <2>6. c[k] = ENCODE_LUT[i]
    BY <2>2, Zenon DEF i
  <2> QED BY <2>2, <2>3, <2>4, <2>5, <2>6
<1>3. c = [k \in 1 .. n |-> c[k]]
  BY Zenon DEF Canonical
<1> HIDE DEF c
<1>4. c \in [1 .. n -> Bytes]
  BY <1>2, <1>3, Zenon
<1>5. AllDigits(c, n)
  BY <1>2, Zenon DEF AllDigits
<1>6. CharsOf(c, raw, n, R)
  <2>1. 0 .. 31 = 0 .. R - 1
    OBVIOUS
  <2> HIDE DEF R
  <2> QED BY <1>2, <2>1, Zenon DEF CharsOf, p
<1> QED BY <1>4, <1>5, <1>6, Zenon DEF c

\* It reads as the id.
LEMMA CanonicalReads ==
  ASSUME NEW size, Sized(size), NEW n, n = base32_size(size),
         NEW raw \in 0 .. 2^(8 * size) - 1
  PROVE  Shifted(TextDigits(Canonical(raw, n), n), 32, n) % 2^(8 * size) = raw
<1> DEFINE p == Powers(5, n)
           R == 32
           c == Canonical(raw, n)
           d == TextDigits(c, n)
           m == 2^(8 * size)
<1>1. /\ n \in Nat /\ Radix(R, p, n) /\ m \in Nat \ {0} /\ 0 .. m - 1 \subseteq 0 .. p[n] - 1
  BY SizedFacts
<1>2. raw \in 0 .. p[n] - 1 /\ raw \in Nat
  BY <1>1
<1>3. c \in [1 .. n -> Bytes] /\ AllDigits(c, n)
  BY <1>2, CanonicalText, Zenon
<1>4. \A k \in 1 .. n : Digit(c[k]) = Place(raw, R, p, n, k)
  <2>1. CharsOf(c, raw, n, R)
    BY <1>2, CanonicalText, Zenon
  <2> HIDE DEF R, c
  <2> QED BY <2>1, Zenon DEF CharsOf
<1> HIDE DEF c, m, p, R
<1>5. d \in [1 .. n -> Nat] /\ \A k \in 1 .. n : d[k] = Digit(c[k])
  BY <1>1, <1>3, TextDigitsAre, Zenon
<1> HIDE DEF d
<1>6. HasDigits(raw, d, R, p, n)
  BY <1>4, <1>5, Zenon DEF HasDigits
<1>7. Spells(d, R, n, raw)
  BY <1>1, <1>2, <1>5, <1>6, DigitsSpell, Zenon
<1>8. raw \in 0 .. m - 1
  BY Zenon DEF m
<1>9. raw % m = raw
  BY <1>1, <1>8, SmallMod, Zenon
<1>10. Shifted(d, R, n) % m = raw
  BY <1>7, <1>9, Zenon DEF Spells
<1> QED BY <1>10, Zenon DEF d, R, m, c

\* A quotient is less than c just when the dividend is less than c divisors.
LEMMA DivLess ==
  ASSUME NEW a \in Nat \ {0}, NEW x \in Nat, NEW c \in Nat
  PROVE  x < c * a <=> x \div a < c
<1> DEFINE q == x \div a
           r == x % a
<1>1. q \in Nat /\ r \in 0 .. a - 1 /\ x = q * a + r
  BY Parts, Zenon
<1> HIDE DEF q, r
<1>2. ASSUME q < c PROVE x < c * a
  <2>1. (q + 1) * a <= c * a
    BY <1>1, <1>2
  <2> QED BY <2>1, <1>1
<1>3. ASSUME ~ (q < c) PROVE ~ (x < c * a)
  <2>1. q * a >= c * a
    BY <1>1, <1>3
  <2> QED BY <2>1, <1>1
<1> QED BY <1>2, <1>3 DEF q

\* Where the integer's bits begin in the first character.
LEMMA TopBits ==
  ASSUME NEW size \in Nat \ {0}, NEW n \in Nat \ {0}, 5 * n - 8 * size \in 0 .. 4
  PROVE  LET u == 5 - (5 * n - 8 * size)
             v == 5 * (n - 1)
         IN  /\ u \in Nat /\ v \in Nat /\ u + v = 8 * size /\ u + v <= 5 * n
             /\ 5 * n \in Nat /\ u \in 0 .. 5 * n /\ v \in 0 .. 5 * n
  OBVIOUS

\* A number fits the integer just when its first character leaves the spare
\* bits unset.
LEMMA TopDigit ==
  ASSUME NEW size, Sized(size), NEW n, n = base32_size(size),
         NEW x \in 0 .. Powers(5, n)[n] - 1
  PROVE  x < 2^(8 * size) <=>
           Place(x, 32, Powers(5, n), n, 1) < 2^(5 - (5 * n - 8 * size))
<1> DEFINE p == Powers(5, n)
           R == 32
           u == 5 - (5 * n - 8 * size)
           v == 5 * (n - 1)
           a == p[n - 1]
           c == 2^u
           m == 2^(8 * size)
<1>1. /\ size \in Nat \ {0} /\ n \in Nat \ {0} /\ Doubling(5 * n)
  BY SizedRadix, Zenon DEF Sized
<1>2. Radix(R, p, n)
  BY SizedRadix
<1>3. 5 * n - 8 * size \in 0 .. 4
  BY <1>1, SpareBits
<1>4. /\ u \in Nat /\ v \in Nat /\ u + v = 8 * size /\ u + v <= 5 * n
      /\ 5 * n \in Nat /\ u \in 0 .. 5 * n /\ v \in 0 .. 5 * n
  BY <1>1, <1>3, TopBits, Zenon
<1>5. a = 2^v
  <2>1. n - 1 \in 0 .. n
    BY <1>1
  <2> QED BY <2>1, Zenon DEF Powers
<1> DEFINE w == 5 * n
<1>6. w \in Nat /\ Doubling(w) /\ u + v <= w /\ u \in 0 .. w /\ v \in 0 .. w
  BY <1>1, <1>4, Zenon
<1> HIDE DEF p, R, u, v, w
<1>7. 2^(u + v) = 2^u * 2^v
  BY <1>4, <1>6, PowerSum
<1>8. c \in Nat \ {0} /\ 2^v \in Nat \ {0}
  BY <1>6, PowerPositive, Zenon
<1>9. m = c * a /\ a \in Nat \ {0}
  BY <1>4, <1>5, <1>7, <1>8, Zenon
<1>10. x \in 0 .. p[n] - 1
  BY Zenon DEF p
<1>11. x \div p[n - 0] = 0 /\ x \in Nat
  BY <1>2, <1>10, PrefixEnds
<1>12. x \div a = Place(x, R, p, n, 1)
  <2>1. 1 \in 1 .. n /\ 1 - 1 = 0
    BY <1>1
  <2>2. /\ Place(x, R, p, n, 1) \in 0 .. R - 1
        /\ x \div p[n - 1] = (x \div p[n - (1 - 1)]) * R + Place(x, R, p, n, 1)
    BY <1>2, <1>11, <2>1, PrefixStep
  <2> DEFINE y == Place(x, R, p, n, 1)
  <2> HIDE DEF y
  <2>3. R \in Nat /\ y \in 0 .. R - 1 /\ x \div p[n - 1] = 0 * R + y
    BY <1>2, <1>11, <2>1, <2>2 DEF Radix, y
  <2>4. 0 * R + y = y
    BY <2>3
  <2> QED BY <2>3, <2>4, Zenon DEF y
<1> HIDE DEF a, c, m
<1>13. x < c * a <=> x \div a < c
  <2>1. c \in Nat
    BY <1>8, Zenon
  <2> QED BY <2>1, <1>9, <1>11, DivLess, Zenon
<1> QED BY <1>9, <1>12, <1>13, Zenon DEF c, m, u, R, p

\* What a text of n characters gives an integer of `size' bytes, ...
Gives(text, n, size, id) == id = Shifted(TextDigits(text, n), 32, n) % 2^(8 * size)
\* ... and whether it is written in the alphabet, without a bit above the
\* integer's.
PlainAt(text, n, size) ==
  /\ \A i \in 1 .. n : \E d \in 1 .. 32 : ENCODE_LUT[d] = text[i]
  /\ Digit(text[1]) < 2^(5 - (5 * n - 8 * size))

\* If it is, and only then, a text is the one that encode_base32 writes for the
\* number decode_base32 reads in it.
THEOREM OneText ==
  ASSUME NEW size, Sized(size), NEW n, n = base32_size(size),
         NEW text \in [1 .. n -> Bytes], AllDigits(text, n),
         NEW id, Gives(text, n, size, id)
  PROVE  (Canonical(id, n) = text) <=> PlainAt(text, n, size)
<1> DEFINE p == Powers(5, n)
           R == 32
           d == TextDigits(text, n)
           N == Shifted(d, R, n)
           m == 2^(8 * size)
           top == 2^(5 - (5 * n - 8 * size))
           Spelt(i) == \E k \in 1 .. R : ENCODE_LUT[k] = text[i]
           P(x, k) == Place(x, R, p, n, k)
<1>1. /\ n \in Nat /\ n \in Nat \ {0} /\ Radix(R, p, n) /\ m \in Nat \ {0}
      /\ 0 .. m - 1 \subseteq 0 .. p[n] - 1
  BY SizedFacts
<1>2. 0 .. R - 1 = 0 .. 31 /\ 1 \in 1 .. n
  BY <1>1
<1>3. \A x \in 0 .. p[n] - 1 : x < m <=> P(x, 1) < top
  BY TopDigit
<1>4. \A x \in Nat : CharsOf(Canonical(x, n), x, n, R)
  BY CanonicalText, Zenon
<1>13. \A e \in 1 .. R : Digit(ENCODE_LUT[e]) = e - 1
  BY AlphabetDigit, Zenon
<1>14. R \in Nat
  OBVIOUS
<1>5. id = N % m
  BY Zenon DEF Gives
<1> HIDE DEF m, top, p
<1>6. /\ d \in [1 .. n -> 0 .. R - 1]
      /\ \A k \in 1 .. n : d[k] = Digit(text[k])
  BY <1>1, <1>2, TextDigitsAre, ZenonT(30)
<1> HIDE DEF d, R
<1>7. N \in 0 .. p[n] - 1 /\ HasDigits(N, d, R, p, n)
  BY <1>1, <1>6, ShiftedPlaces, Zenon
<1>8. \A k \in 1 .. n : P(N, k) = Digit(text[k])
  BY <1>6, <1>7, Zenon DEF HasDigits
<1> HIDE DEF N
<1>9. N \in Nat /\ id \in 0 .. m - 1 /\ id \in Nat
  <2>1. N \in Nat
    BY <1>1, <1>7, PrefixEnds, Zenon
  <2>2. id \in 0 .. m - 1
    BY <2>1, <1>1, <1>5, Parts, Zenon
  <2>3. id \in Nat
    BY <2>2, <1>1
  <2> QED BY <2>1, <2>2, <2>3, Zenon
<1>10. ASSUME Canonical(id, n) = text
       PROVE  (\A i \in 1 .. n : Spelt(i)) /\ Digit(text[1]) < top
  <2>5. \A k \in 1 .. n : /\ P(id, k) \in 0 .. R - 1
                          /\ text[k] = ENCODE_LUT[P(id, k) + 1]
                          /\ Digit(text[k]) = P(id, k)
    <3>1. CharsOf(text, id, n, R)
      BY <1>4, <1>9, <1>10, Zenon
    <3> QED BY <3>1, Zenon DEF CharsOf, p
  <2>1. ASSUME NEW i \in 1 .. n PROVE Spelt(i)
    <3> DEFINE e == P(id, i)
    <3>1. e \in 0 .. R - 1 /\ text[i] = ENCODE_LUT[e + 1]
      BY <2>5, Zenon
    <3> HIDE DEF e
    <3>2. e + 1 \in 1 .. R
      BY <3>1, <1>14
    <3> QED BY <3>1, <3>2, Zenon
  <2>2. Digit(text[1]) = P(id, 1)
    BY <1>2, <2>5, Zenon
  <2>3. id \in 0 .. p[n] - 1 /\ id < m
    BY <1>1, <1>9
  <2>4. P(id, 1) < top
    BY <1>3, <2>3, Zenon
  <2> QED BY <2>1, <2>2, <2>4, Zenon
<1>11. ASSUME \A i \in 1 .. n : Spelt(i), Digit(text[1]) < top
       PROVE  Canonical(id, n) = text
  <2>1. P(N, 1) < top
    BY <1>2, <1>8, <1>11, Zenon
  <2>2. N < m
    BY <1>3, <1>7, <2>1, Zenon
  <2>3. N % m = N
    <3>1. N \in 0 .. m - 1
      BY <1>1, <1>9, <2>2
    <3> QED BY <3>1, <1>1, SmallMod, Zenon
  <2>4. id = N
    BY <2>3, <1>5, Zenon
  <2>5. ASSUME NEW k \in 1 .. n PROVE Canonical(id, n)[k] = text[k]
    <3>1. PICK e \in 1 .. R : ENCODE_LUT[e] = text[k]
      BY <1>11, Zenon
    <3>2. Digit(ENCODE_LUT[e]) = e - 1
      BY <1>13, Zenon
    <3>3. P(N, k) = e - 1
      BY <3>1, <3>2, <1>8, Zenon
    <3>4. (e - 1) + 1 = e
      BY <1>14
    <3>5. Canonical(N, n)[k] = ENCODE_LUT[P(N, k) + 1]
      BY <1>4, <1>9, Zenon DEF CharsOf, p
    <3> QED BY <3>1, <3>3, <3>4, <3>5, <2>4, Zenon
  <2>6. Canonical(id, n) = [k \in 1 .. n |-> Canonical(id, n)[k]]
    BY Zenon DEF Canonical
  <2>7. text = [k \in 1 .. n |-> text[k]]
    BY Zenon
  <2> QED BY <2>5, <2>6, <2>7, Zenon
<1> QED BY <1>10, <1>11, Zenon DEF PlainAt, top, R

-----------------------------------------------------------------------------
(***************************************************************************)
(* Texts and bytes are in the order of the ids.                            *)
(***************************************************************************)

\* x has the less digit at the first place where it differs from y.
LessAt(x, y, R, p, n, i) ==
  /\ Place(x, R, p, n, i) < Place(y, R, p, n, i)
  /\ \A j \in 1 .. i - 1 : Place(x, R, p, n, j) = Place(y, R, p, n, j)

\* Of two numbers the less has the less digit at the first difference.
LEMMA FirstLess ==
  ASSUME NEW R, NEW p, NEW n, Radix(R, p, n),
         NEW x \in 0 .. p[n] - 1, NEW y \in 0 .. p[n] - 1, x < y
  PROVE  \E i \in 1 .. n : LessAt(x, y, R, p, n, i)
  BY DigitOrder DEF LessAt

\* The texts that encode_base32 writes for two ids are in the order of the ids.
THEOREM TextOrder ==
  ASSUME NEW size, Sized(size), NEW n, n = base32_size(size),
         NEW x \in 0 .. 2^(8 * size) - 1, NEW y \in 0 .. 2^(8 * size) - 1, x < y
  PROVE  LexLess(Canonical(x, n), Canonical(y, n))
<1> DEFINE p == Powers(5, n)
           R == 32
           m == 2^(8 * size)
           s == Canonical(x, n)
           t == Canonical(y, n)
<1>1. /\ n \in Nat /\ Radix(R, p, n) /\ m \in Nat \ {0} /\ 0 .. m - 1 \subseteq 0 .. p[n] - 1
  BY SizedFacts
<1>2. x \in 0 .. p[n] - 1 /\ y \in 0 .. p[n] - 1 /\ x \in Nat /\ y \in Nat
  BY <1>1
<1>3. CharsOf(s, x, n, R) /\ CharsOf(t, y, n, R) /\ s \in [1 .. n -> Bytes]
  <2>1. CharsOf(s, x, n, R) /\ s \in [1 .. n -> Bytes]
    BY <1>2, CanonicalText, Zenon
  <2>2. CharsOf(t, y, n, R)
    BY <1>2, CanonicalText, Zenon
  <2> QED BY <2>1, <2>2, Zenon
<1>4. R \in Nat /\ \A i, j \in 1 .. R : i < j <=> ENCODE_LUT[i] < ENCODE_LUT[j]
  BY AlphabetOrder, Zenon
<1> HIDE DEF p, R, m, s, t
<1>5. PICK i \in 1 .. n : LessAt(x, y, R, p, n, i)
  BY <1>1, <1>2, FirstLess, Zenon
<1>6. \A k \in 1 .. n : /\ Place(x, R, p, n, k) \in 0 .. R - 1
                        /\ s[k] = ENCODE_LUT[Place(x, R, p, n, k) + 1]
                        /\ Place(y, R, p, n, k) \in 0 .. R - 1
                        /\ t[k] = ENCODE_LUT[Place(y, R, p, n, k) + 1]
  BY <1>3, Zenon DEF CharsOf, p
<1>7. s[i] < t[i]
  <2> DEFINE a == Place(x, R, p, n, i)
             b == Place(y, R, p, n, i)
  <2>1. /\ a \in 0 .. R - 1 /\ b \in 0 .. R - 1 /\ a < b
        /\ s[i] = ENCODE_LUT[a + 1] /\ t[i] = ENCODE_LUT[b + 1]
    BY <1>5, <1>6, Zenon DEF LessAt
  <2> HIDE DEF a, b
  <2>2. a + 1 \in 1 .. R /\ b + 1 \in 1 .. R /\ a + 1 < b + 1
    BY <2>1, <1>4
  <2>3. ENCODE_LUT[a + 1] < ENCODE_LUT[b + 1]
    BY <2>2, <1>4, Zenon
  <2> QED BY <2>1, <2>3, Zenon
<1>8. \A j \in 1 .. i - 1 : s[j] = t[j]
  <2>1. \A j \in 1 .. i - 1 : j \in 1 .. n
    BY <1>1
  <2> SUFFICES ASSUME NEW j \in 1 .. i - 1 PROVE s[j] = t[j]
    BY Zenon
  <2>2. Place(x, R, p, n, j) = Place(y, R, p, n, j)
    BY <1>5, Zenon DEF LessAt
  <2> QED BY <2>1, <2>2, <1>6, Zenon
<1>9. i \in DOMAIN s
  BY <1>3, Zenon
<1> QED BY <1>7, <1>8, <1>9, Zenon DEF LexLess, s, t

\* The bytes of two integers are in their order.
LEMMA BytesAscend ==
  ASSUME NEW size, Sized(size),
         NEW x \in 0 .. 2^(8 * size) - 1, NEW y \in 0 .. 2^(8 * size) - 1, x < y
  PROVE  LexLess(to_be_bytes(x, size), to_be_bytes(y, size))
<1> DEFINE p == Powers(8, size)
           R == 256
           m == 2^(8 * size)
           s == to_be_bytes(x, size)
           t == to_be_bytes(y, size)
<1>1. size \in Nat /\ Radix(R, p, size) /\ m \in Nat \ {0} /\ p[size] = m
  BY SizedFacts
<1>2. x \in 0 .. m - 1 /\ y \in 0 .. m - 1 /\ x \in Nat /\ y \in Nat
  BY <1>1
<1>3. HasDigits(x, s, R, p, size) /\ HasDigits(y, t, R, p, size) /\ s \in [1 .. size -> Bytes]
  BY <1>2, BytesDigits, BytesOf, Zenon
<1> HIDE DEF p, R, m, s, t
<1>4. x \in 0 .. p[size] - 1 /\ y \in 0 .. p[size] - 1
  BY <1>1, <1>2, Zenon
<1>5. PICK i \in 1 .. size : LessAt(x, y, R, p, size, i)
  BY <1>1, <1>4, FirstLess, Zenon
<1>6. \A j \in 1 .. i - 1 : j \in 1 .. size
  BY <1>1
<1>7. s[i] < t[i] /\ \A j \in 1 .. i - 1 : s[j] = t[j]
  BY <1>3, <1>5, <1>6, Zenon DEF LessAt, HasDigits
<1>8. i \in DOMAIN s
  BY <1>3, Zenon
<1> QED BY <1>7, <1>8, Zenon DEF LexLess, s, t

\* ... and only then: to_be_bytes keeps the order by which Postgres indexes.
THEOREM BytesOrder ==
  ASSUME NEW size, Sized(size),
         NEW x \in 0 .. 2^(8 * size) - 1, NEW y \in 0 .. 2^(8 * size) - 1
  PROVE  LexLess(to_be_bytes(x, size), to_be_bytes(y, size)) <=> x < y
<1> DEFINE m == 2^(8 * size)
           s == to_be_bytes(x, size)
           t == to_be_bytes(y, size)
<1>1. size \in Nat /\ m \in Nat \ {0}
  BY SizedFacts
<1>2. x \in Nat /\ y \in Nat
  BY <1>1
<1>3. s \in [1 .. size -> Bytes] /\ t \in [1 .. size -> Bytes]
  BY <1>2, BytesOf, Zenon
<1>4. x < y => LexLess(s, t)
  BY BytesAscend, Zenon
<1>5. y < x => LexLess(t, s)
  BY BytesAscend, Zenon
<1>6. x = y => s = t
  OBVIOUS
<1>7. x < y \/ x = y \/ y < x
  BY <1>2
<1> HIDE DEF s, t, m
<1>8. ~ LexLess(s, s) /\ ~ (LexLess(s, t) /\ LexLess(t, s))
  <2>1. ASSUME NEW u, NEW v, u \in [1 .. size -> Bytes], v \in [1 .. size -> Bytes],
               LexLess(u, v), LexLess(v, u)
        PROVE  FALSE
    <3>1. \A k \in 1 .. size : u[k] \in Nat /\ v[k] \in Nat
      <4>1. Bytes \subseteq Nat
        BY DEF Bytes
      <4> QED BY <4>1, <2>1, Zenon
    <3>2. PICK i \in 1 .. size : u[i] < v[i] /\ \A j \in 1 .. i - 1 : u[j] = v[j]
      BY <2>1, Zenon DEF LexLess
    <3>3. PICK k \in 1 .. size : v[k] < u[k] /\ \A j \in 1 .. k - 1 : v[j] = u[j]
      BY <2>1, Zenon DEF LexLess
    <3>4. i \in 1 .. k - 1 \/ i = k \/ k \in 1 .. i - 1
      BY <1>1
    <3>5. u[i] \in Nat /\ v[i] \in Nat /\ u[k] \in Nat /\ v[k] \in Nat
      BY <3>1, Zenon
    <3> QED BY <3>2, <3>3, <3>4, <3>5
  <2> QED BY <2>1, <1>3, Zenon
<1> QED BY <1>4, <1>5, <1>6, <1>7, <1>8, Zenon DEF s, t

-----------------------------------------------------------------------------
(***************************************************************************)
(* The inductive invariant: what each form holds of the id it stands for.  *)
(***************************************************************************)

\* From here on a leaf is Zenon's unless it names another prover.
USE Zenon

Width(t) == base32_size(SIZE[t])
ValidId(t, id) == id \in Nat /\ is_valid(t, id)
UlidBytes == [1 .. SIZE["ulid"] -> Bytes]

\* An error fits its cause; the integer in a DecodeOverflow may be used.
RightError(t, v, e) ==
  /\ e.is \in Errors
  /\ e.is = "DecodeInvalidLen" => e.len = Len(v) /\ e.len # Width(t)
  /\ e.is = "DecodeInvalidAscii" =>
       /\ Len(v) = Width(t)
       /\ Digits(v[e.index + 1]) = {} /\ e.byte = v[e.index + 1]
       /\ \A i \in 1 .. e.index : Digits(v[i]) # {}
  /\ e.is = "DecodeOverflow" => e.id \in Nat /\ ~ is_valid(t, e.id)

\* The id with the timestamp ts and nothing random.
Earliest(ts) == from_components(ts, 0)
Timestamps == 0 .. TIMESTAMP_MASK

\* v, of type t, stands for the id m: as an id, ...
AsId(t, v, m) == ValidId(t, v) /\ v = m
AsBuffer(t, v, m) == ValidId(t, m) /\ v = Canonical(m, Width(t))
AsText(t, v, m) == v \in Seq(Bytes) /\ m = Denotes(t, "text", v)
AsInt(t, v, m) == v \in 0 .. 2^(8 * SIZE[t]) - 1 /\ m = Valid(t, v)
AsTimestamp(t, v, m) == t = "ulid" /\ v \in Timestamps /\ m = Earliest(v)
\* A time that has arrived from outside may be any.
AsTime(t, v, m) ==
  /\ t = "ulid" /\ v \in Int
  /\ m = Unknown \/ \E ts \in Timestamps : v = ts * MICROS_PER_MS /\ m = Earliest(ts)
AsTimestamptz(t, v, m) ==
  /\ t = "ulid" /\ v \in Int
  /\ \/ m = Unknown
     \/ \E ts \in Timestamps :
          v = ts * MICROS_PER_MS - PG_EPOCH_OFFSET_MICROS /\ m = Earliest(ts)
AsUlid(t, v, m) == t = "ulid" /\ v \in UlidBytes /\ m = BigEndian(v)
AsDatum(t, v, m) == AsUlid(t, v, m) \/ (t = "ulid" /\ v = Null /\ m = NoId)
AsBytea(t, v, m) ==
  /\ t = "ulid" /\ v \in Seq(Bytes)
  /\ m = IF Len(v) = SIZE[t] THEN BigEndian(v) ELSE NoId
AsError(t, v, m) == m = NoId /\ RightError(t, v.of, v.error)

StandsFor(t, f, v, m) ==
  /\ f \in {"id", "formatter", "formatter ref", "string", "text", "int", "timestamp",
            "time", "timestamptz", "ulid", "datum", "bytea", "error"}
  /\ f = "id" => AsId(t, v, m)
  /\ f \in {"formatter", "formatter ref", "string"} => AsBuffer(t, v, m)
  /\ f = "text" => AsText(t, v, m)
  /\ f = "int" => AsInt(t, v, m)
  /\ f = "timestamp" => AsTimestamp(t, v, m)
  /\ f = "time" => AsTime(t, v, m)
  /\ f = "timestamptz" => AsTimestamptz(t, v, m)
  /\ f = "ulid" => AsUlid(t, v, m)
  /\ f = "datum" => AsDatum(t, v, m)
  /\ f = "bytea" => AsBytea(t, v, m)
  /\ f = "error" => AsError(t, v, m)

Journey == ty \in Types /\ StandsFor(ty, form, value, meaning)

-----------------------------------------------------------------------------
(***************************************************************************)
(* The codec at the sizes of the two types.                                *)
(***************************************************************************)

\* Both types have what the codec needs.
LEMMA TypeSizes ==
  ASSUME NEW t \in Types
  PROVE  /\ Sized(SIZE[t]) /\ SIZE[t] \in Nat \ {0}
         /\ Width(t) \in Nat \ {0} /\ Width(t) = base32_size(SIZE[t])
         /\ 2^(8 * SIZE[t]) \in Nat \ {0}
         /\ Range32(t) \in Nat \ {0} /\ Range32(t) <= 2^(8 * SIZE[t])
<1> DEFINE size == SIZE[t]
           n == base32_size(size)
           r == RESERVED_BITS[t]
           w == 5 * n
           a == 8 * size - r
<1>1. size \in Nat \ {0} /\ r \in 0 .. 8 * size /\ Doubling(w)
  BY FormsAssumption, SMT
<1>2. Sized(size)
  BY <1>1 DEF Sized
<1> HIDE DEF size
<1>3. n \in Nat \ {0} /\ 2^(8 * size) \in Nat \ {0} /\ 5 * n - 8 * size \in 0 .. 4
  BY <1>1, <1>2, SizedFacts, SpareBits, SMT
<1> HIDE DEF n, r
<1>4. /\ w \in Nat /\ a \in Nat /\ r \in Nat /\ a + r = 8 * size /\ a + r <= w
      /\ a \in 0 .. w /\ r \in 0 .. w
  BY <1>1, <1>3, SMT
<1> HIDE DEF w, a
<1>5. 2^a \in Nat \ {0} /\ 2^r \in Nat \ {0}
  BY <1>1, <1>4, PowerPositive
<1>6. 2^(a + r) = 2^a * 2^r
  BY <1>1, <1>4, PowerSum, SMT
<1>7. 2^a <= 2^(8 * size)
  <2> DEFINE x == 2^a
             y == 2^r
             z == 2^(8 * size)
  <2>1. x \in Nat \ {0} /\ y \in Nat \ {0} /\ z = x * y
    BY <1>4, <1>5, <1>6
  <2> HIDE DEF x, y, z
  <2>2. x <= z
    BY <2>1, SMT
  <2> QED BY <2>2 DEF x, z
<1>8. Range32(t) = 2^a
  BY DEF Range32, a, size, r
<1> QED BY <1>1, <1>2, <1>3, <1>5, <1>7, <1>8 DEF size, n, Width

\* A valid id fits its integer.
LEMMA ValidFits ==
  ASSUME NEW t \in Types, NEW id, ValidId(t, id)
  PROVE  id \in 0 .. 2^(8 * SIZE[t]) - 1
<1> DEFINE x == Range32(t)
           y == 2^(8 * SIZE[t])
<1>1. x \in Nat \ {0} /\ y \in Nat \ {0} /\ x <= y
  BY TypeSizes
<1>2. id \in Nat /\ id < x
  BY DEF ValidId, is_valid
<1> HIDE DEF x, y
<1>3. id \in 0 .. y - 1
  BY <1>1, <1>2, SMT
<1> QED BY <1>3 DEF y

\* The formatters give the canonical text, whatever the buffer held.
LEMMA FormatterText ==
  ASSUME NEW t \in Types, NEW id, ValidId(t, id), NEW c \in Bytes
  PROVE  inner_encode_to_buf(t, id, Filled(t, c)) = Canonical(id, Width(t))
<1>1. Sized(SIZE[t]) /\ id \in 0 .. 2^(8 * SIZE[t]) - 1
  BY TypeSizes, ValidFits
<1>2. Filled(t, c) \in [1 .. base32_size(SIZE[t]) -> Bytes]
  BY DEF Filled
<1> QED BY <1>1, <1>2, Encodes DEF inner_encode_to_buf, Width

\* By the names of the formatters.
LEMMA Formatters ==
  ASSUME NEW id
  PROVE  /\ ValidId("snowflake", id) =>
              /\ Base32SnowFormatter(id) = Canonical(id, Width("snowflake"))
              /\ \A c \in Bytes : Base32SnowFormatterRef(id, Filled("snowflake", c))
                                    = Canonical(id, Width("snowflake"))
         /\ ValidId("ulid", id) =>
              /\ Base32UlidFormatter(id) = Canonical(id, Width("ulid"))
              /\ \A c \in Bytes : Base32UlidFormatterRef(id, Filled("ulid", c))
                                    = Canonical(id, Width("ulid"))
<1>1. 0 \in Bytes
  BY SMT DEF Bytes
<1>2. "snowflake" \in Types /\ "ulid" \in Types
  BY SMT DEF Types
<1> QED BY <1>1, <1>2, FormatterText
     DEF Base32SnowFormatter, Base32SnowFormatterRef, Base32UlidFormatter, Base32UlidFormatterRef

\* A text of digits writes a number.
LEMMA TextNumber ==
  ASSUME NEW size, Sized(size), NEW n, n = base32_size(size),
         NEW text \in [1 .. n -> Bytes], AllDigits(text, n)
  PROVE  Shifted(TextDigits(text, n), 32, n) \in Nat
<1> DEFINE R == 32
           d == TextDigits(text, n)
           p == Powers(5, n)
<1>1. n \in Nat /\ Radix(R, p, n) /\ 0 .. R - 1 = 0 .. 31
  BY SizedRadix, SMT
<1>2. d \in [1 .. n -> 0 .. R - 1]
  BY <1>1, TextDigitsAre, ZenonT(30)
<1> HIDE DEF R, d, p
<1>3. Shifted(d, R, n) \in 0 .. p[n] - 1
  BY <1>1, <1>2, ShiftedPlaces
<1>4. Shifted(d, R, n) \in Nat
  BY <1>1, <1>3, PrefixEnds
<1> QED BY <1>4 DEF R, d

\* A decoder's result r on a text: the number written, or what is wrong.
ReadsAs(t, text, r) ==
  IF WellFormed(t, text) THEN r = Ok(Number(t, text)) /\ Number(t, text) \in Nat
  ELSE \E e : r = Err(e) /\ RightError(t, text, e)

\* Every text has such a result.
LEMMA InnerDecode ==
  ASSUME NEW t \in Types, NEW text \in Seq(Bytes)
  PROVE  ReadsAs(t, text, inner_decode(t, text))
<1> DEFINE n == Width(t)
           size == SIZE[t]
           m == 2^(8 * size)
<1>1. /\ Sized(size) /\ size \in Nat \ {0} /\ n \in Nat /\ n = base32_size(size)
      /\ m \in Nat \ {0}
  BY TypeSizes, SMT
<1>2. CASE Len(text) # n
  <2> DEFINE e == [is |-> "DecodeInvalidLen", len |-> Len(text)]
  <2>1. inner_decode(t, text) = Err(e) /\ ~ WellFormed(t, text)
    BY <1>2 DEF inner_decode, WellFormed, Width
  <2>2. e.is = "DecodeInvalidLen" /\ e.len = Len(text)
    BY SMT
  <2> HIDE DEF e
  <2>3. e.is # "DecodeInvalidAscii" /\ e.is # "DecodeOverflow" /\ e.is \in Errors
    BY <2>2 DEF Errors
  <2>4. RightError(t, text, e)
    BY <2>2, <2>3, <1>2 DEF RightError
  <2> QED BY <2>1, <2>4 DEF ReadsAs
<1>3. CASE Len(text) = n
  <2>1. text \in [1 .. n -> Bytes] /\ DOMAIN text = 1 .. n
    BY <1>3, <1>1, SMT
  <2>2. WellFormed(t, text) <=> AllDigits(text, n)
    BY <2>1, <1>3 DEF WellFormed, AllDigits, Width
  <2>3. inner_decode(t, text) = decode_base32(text, size)
    BY <1>3 DEF inner_decode, Width
  <2>4. size \in Nat
    BY <1>1, SMT
  <2> DEFINE N == Shifted(TextDigits(text, n), 32, n)
  <2>5. decode_base32(text, size) = IF AllDigits(text, n) THEN Ok(N % m) ELSE Err(handle_error(text))
    BY <2>1, <2>4, <1>1, Decodes, SMT
  <2> HIDE DEF N
  <2>6. CASE AllDigits(text, n)
    <3>1. Number(t, text) = N % m
      <4>1. n = base32_size(SIZE[t]) /\ Sized(SIZE[t])
        BY <1>1
      <4> HIDE DEF n
      <4> QED BY <4>1, <2>1, <2>6, NumberIs, SMT DEF N
    <3>2. N \in Nat
      BY <1>1, <2>1, <2>6, TextNumber DEF N
    <3>3. N % m \in Nat
      <4> HIDE DEF m
      <4> QED BY <3>2, <1>1, SMT
    <3> QED BY <3>1, <3>3, <2>2, <2>3, <2>5, <2>6 DEF ReadsAs
  <2>7. CASE ~ AllDigits(text, n)
    <3> DEFINE e == handle_error(text)
    <3>1. PICK at \in 1 .. n :
            /\ e = [is |-> "DecodeInvalidAscii", byte |-> text[at], index |-> at - 1]
            /\ Digits(text[at]) = {} /\ \A j \in 1 .. at - 1 : Digits(text[j]) # {}
      BY <2>1, <2>7, <1>1, FirstInvalid
    <3>2. e.is = "DecodeInvalidAscii" /\ e.byte = text[at] /\ e.index = at - 1
      BY <3>1, SMT
    <3> HIDE DEF e
    <3>3. e.is # "DecodeInvalidLen" /\ e.is # "DecodeOverflow" /\ e.is \in Errors
      BY <3>2 DEF Errors
    <3>4. e.index + 1 = at
      BY <3>2, <1>1, SMT
    <3>5. RightError(t, text, e)
      BY <3>1, <3>2, <3>3, <3>4, <1>3 DEF RightError
    <3> QED BY <3>5, <2>2, <2>3, <2>5, <2>7 DEF ReadsAs, e
  <2> QED BY <2>6, <2>7, SMT
<1> QED BY <1>2, <1>3, SMT

-----------------------------------------------------------------------------
(***************************************************************************)
(* Each conversion leads from what a form holds to what the next one does. *)
(***************************************************************************)

\* Results have the fields they are read by.
LEMMA Results ==
  /\ \A x : Ok(x).ok = TRUE /\ Ok(x).value = x
  /\ \A e : Err(e).ok = FALSE /\ Err(e).error = e
  BY SMTT(20) DEF Ok, Err

\* What each form holds.
LEMMA FormIs ==
  ASSUME NEW t, NEW v, NEW m
  PROVE  /\ StandsFor(t, "id", v, m) <=> AsId(t, v, m)
         /\ StandsFor(t, "formatter", v, m) <=> AsBuffer(t, v, m)
         /\ StandsFor(t, "formatter ref", v, m) <=> AsBuffer(t, v, m)
         /\ StandsFor(t, "string", v, m) <=> AsBuffer(t, v, m)
         /\ StandsFor(t, "text", v, m) <=> AsText(t, v, m)
         /\ StandsFor(t, "int", v, m) <=> AsInt(t, v, m)
         /\ StandsFor(t, "timestamp", v, m) <=> AsTimestamp(t, v, m)
         /\ StandsFor(t, "time", v, m) <=> AsTime(t, v, m)
         /\ StandsFor(t, "timestamptz", v, m) <=> AsTimestamptz(t, v, m)
         /\ StandsFor(t, "ulid", v, m) <=> AsUlid(t, v, m)
         /\ StandsFor(t, "datum", v, m) <=> AsDatum(t, v, m)
         /\ StandsFor(t, "bytea", v, m) <=> AsBytea(t, v, m)
         /\ StandsFor(t, "error", v, m) <=> AsError(t, v, m)
  BY DEF StandsFor

\* A conversion of v with the result r.
Outcome(t, to, v, r, m) ==
  IF r.ok THEN StandsFor(t, to, r.value, m)
  ELSE StandsFor(t, "error", [error |-> r.error, of |-> v], m)

\* A good result stands for the id if its value does.
LEMMA OkOutcome ==
  ASSUME NEW t, NEW to, NEW v, NEW x, NEW m, StandsFor(t, to, x, m)
  PROVE  Outcome(t, to, v, Ok(x), m)
<1>1. Ok(x).ok = TRUE /\ Ok(x).value = x
  BY Results
<1> QED BY <1>1 DEF Outcome

\* An error that fits stands for none.
LEMMA ErrOutcome ==
  ASSUME NEW t, NEW to, NEW v, NEW e, RightError(t, v, e)
  PROVE  Outcome(t, to, v, Err(e), NoId)
<1>1. Err(e).ok = FALSE /\ Err(e).error = e
  BY Results
<1> DEFINE x == [error |-> e, of |-> v]
<1>2. x.of = v /\ x.error = e
  BY SMT
<1> HIDE DEF x
<1>3. StandsFor(t, "error", x, NoId)
  BY <1>2, FormIs DEF AsError
<1> QED BY <1>1, <1>3 DEF Outcome, x

\* A text denotes a valid number or nothing.
LEMMA TextDenotes ==
  ASSUME NEW t, NEW text
  PROVE  Denotes(t, "text", text) =
           IF WellFormed(t, text) THEN Valid(t, Number(t, text)) ELSE NoId
  BY DEF Denotes

\* No id is NoId.
LEMMA NoIdIsNone == NoId \notin Nat /\ Unknown \notin Nat /\ NoId \in Int /\ Unknown \in Int
  BY SMT DEF NoId, Unknown

\* The error of a number with reserved bits.
LEMMA OverflowIsRight ==
  ASSUME NEW t, NEW v, NEW id \in Nat, ~ is_valid(t, id)
  PROVE  RightError(t, v, DecodeOverflow(id))
<1> DEFINE e == DecodeOverflow(id)
<1>1. e.is = "DecodeOverflow" /\ e.id = id
  BY SMT DEF DecodeOverflow
<1> HIDE DEF e
<1>2. e.is \in Errors /\ e.is # "DecodeInvalidLen" /\ e.is # "DecodeInvalidAscii"
  BY <1>1 DEF Errors
<1>3. RightError(t, v, e)
  BY <1>1, <1>2 DEF RightError
<1> QED BY <1>3 DEF e

\* Errors of other kinds need fit nothing.
LEMMA OtherIsRight ==
  ASSUME NEW t, NEW v, NEW kind \in Errors,
         kind \notin {"DecodeInvalidLen", "DecodeInvalidAscii", "DecodeOverflow"}
  PROVE  RightError(t, v, [is |-> kind])
<1> DEFINE e == [is |-> kind]
<1>1. e.is = kind
  BY SMT
<1> HIDE DEF e
<1>2. RightError(t, v, e)
  BY <1>1 DEF RightError
<1> QED BY <1>2 DEF e

\* An integer is taken for an id, if it is a valid one.
LEMMA CheckedInt ==
  ASSUME NEW t, NEW v, NEW x \in Nat
  PROVE  /\ Outcome(t, "id", v, Checked(t, Ok(x)), Valid(t, x))
         /\ Valid(t, x) # NoId => ValidId(t, Valid(t, x)) /\ Checked(t, Ok(x)) = Ok(Valid(t, x))
         /\ Valid(t, x) = NoId => Checked(t, Ok(x)).ok = FALSE
<1>1. Ok(x).ok = TRUE /\ Ok(x).value = x
  BY Results
<1>2. CASE is_valid(t, x)
  <2>1. Valid(t, x) = x /\ Checked(t, Ok(x)) = Ok(x)
    BY <1>1, <1>2 DEF Valid, Checked
  <2>2. StandsFor(t, "id", x, x) /\ ValidId(t, x) /\ x # NoId
    BY <1>2, FormIs, NoIdIsNone DEF AsId, ValidId
  <2>3. Outcome(t, "id", v, Ok(x), x)
    BY <2>2, OkOutcome
  <2> QED BY <2>1, <2>2, <2>3
<1>3. CASE ~ is_valid(t, x)
  <2>1. Valid(t, x) = NoId /\ Checked(t, Ok(x)) = Err(DecodeOverflow(x))
    BY <1>1, <1>3 DEF Valid, Checked
  <2>2. RightError(t, v, DecodeOverflow(x))
    BY <1>3, OverflowIsRight
  <2>3. Outcome(t, "id", v, Err(DecodeOverflow(x)), NoId)
    BY <2>2, ErrOutcome
  <2>4. Err(DecodeOverflow(x)).ok = FALSE
    BY Results
  <2> QED BY <2>1, <2>3, <2>4
<1> QED BY <1>2, <1>3

\* A text is taken for the id it denotes.
Parses(t, v, r) ==
  LET m == Denotes(t, "text", v)
  IN  /\ Outcome(t, "id", v, r, m)
      /\ m # NoId => ValidId(t, m) /\ r = Ok(m)
      /\ m = NoId => r.ok = FALSE

\* Every text is, whatever it holds.
LEMMA CheckedText ==
  ASSUME NEW t \in Types, NEW v \in Seq(Bytes)
  PROVE  Parses(t, v, Checked(t, inner_decode(t, v)))
<1> DEFINE r == inner_decode(t, v)
           m == Denotes(t, "text", v)
<1>1. ReadsAs(t, v, r)
  BY InnerDecode
<1> HIDE DEF r
<1>2. CASE WellFormed(t, v)
  <2> DEFINE x == Number(t, v)
  <2>1. r = Ok(x) /\ x \in Nat /\ m = Valid(t, x)
    BY <1>1, <1>2, TextDenotes DEF ReadsAs
  <2> HIDE DEF x, m
  <2>2. /\ Outcome(t, "id", v, Checked(t, Ok(x)), Valid(t, x))
        /\ Valid(t, x) # NoId => ValidId(t, Valid(t, x)) /\ Checked(t, Ok(x)) = Ok(Valid(t, x))
        /\ Valid(t, x) = NoId => Checked(t, Ok(x)).ok = FALSE
    BY <2>1, CheckedInt
  <2>3. /\ Outcome(t, "id", v, Checked(t, r), m)
        /\ m # NoId => ValidId(t, m) /\ Checked(t, r) = Ok(m)
        /\ m = NoId => Checked(t, r).ok = FALSE
    BY <2>1, <2>2
  <2> QED BY <2>3 DEF Parses, m, r
<1>3. CASE ~ WellFormed(t, v)
  <2>1. PICK e : r = Err(e) /\ RightError(t, v, e)
    BY <1>1, <1>3 DEF ReadsAs
  <2>2. m = NoId
    BY <1>3, TextDenotes
  <2>3. Err(e).ok = FALSE
    BY Results
  <2>4. Checked(t, r) = Err(e)
    BY <2>1, <2>3 DEF Checked
  <2>5. Outcome(t, "id", v, Err(e), NoId)
    BY <2>1, ErrOutcome
  <2> QED BY <2>2, <2>3, <2>4, <2>5 DEF Parses, r
<1> QED BY <1>2, <1>3

\* The canonical text of an id denotes it.
LEMMA CanonicalDenotes ==
  ASSUME NEW t \in Types, NEW id, ValidId(t, id)
  PROVE  AsText(t, Canonical(id, Width(t)), id)
<1> DEFINE n == Width(t)
           size == SIZE[t]
           c == Canonical(id, n)
<1>1. Sized(size) /\ n = base32_size(size) /\ n \in Nat /\ id \in Nat
  BY TypeSizes DEF ValidId
<1>2. id \in 0 .. 2^(8 * size) - 1
  BY ValidFits
<1>3. c \in [1 .. n -> Bytes] /\ AllDigits(c, n)
  BY <1>1, CanonicalText
<1>4. Shifted(TextDigits(c, n), 32, n) % 2^(8 * size) = id
  BY <1>1, <1>2, CanonicalReads, SMT
<1> HIDE DEF c, n
<1>5. Number(t, c) = id
  <2>1. Number(t, c) = Shifted(TextDigits(c, n), 32, n) % 2^(8 * size)
    BY <1>1, <1>3, NumberIs, SMT
  <2> QED BY <2>1, <1>4, SMT
<1>6. c \in Seq(Bytes) /\ Len(c) = n /\ DOMAIN c = 1 .. n
  BY <1>1, <1>3, SMT
<1>7. WellFormed(t, c)
  BY <1>1, <1>3, <1>6 DEF WellFormed, AllDigits
<1>8. Valid(t, id) = id
  BY DEF Valid, ValidId
<1>9. Denotes(t, "text", c) = id
  BY <1>5, <1>7, <1>8, TextDenotes
<1> QED BY <1>6, <1>9 DEF AsText, c, n

\* What the encoder writes for an id, over any buffer, the decoder takes for
\* that id.
THEOREM RoundTrip ==
  ASSUME NEW t \in Types, NEW id, ValidId(t, id), NEW c \in Bytes
  PROVE  Checked(t, inner_decode(t, inner_encode_to_buf(t, id, Filled(t, c)))) = Ok(id)
<1> DEFINE text == Canonical(id, Width(t))
<1>1. inner_encode_to_buf(t, id, Filled(t, c)) = text
  BY FormatterText
<1>2. text \in Seq(Bytes) /\ id = Denotes(t, "text", text)
  BY CanonicalDenotes DEF AsText
<1> HIDE DEF text
<1>3. Parses(t, text, Checked(t, inner_decode(t, text)))
  BY <1>2, CheckedText
<1>4. id # NoId
  BY NoIdIsNone DEF ValidId
<1>5. Checked(t, inner_decode(t, text)) = Ok(id)
  BY <1>2, <1>3, <1>4 DEF Parses
<1> QED BY <1>1, <1>5

\* A buffer or a string with an id's text is read as the text.
LEMMA BufferIsItsText ==
  ASSUME NEW t \in Types, NEW v, NEW m, AsBuffer(t, v, m)
  PROVE  AsText(t, v, m) /\ m # NoId
<1>1. ValidId(t, m) /\ v = Canonical(m, Width(t))
  BY DEF AsBuffer
<1>2. AsText(t, Canonical(m, Width(t)), m) /\ m # NoId
  BY <1>1, CanonicalDenotes, NoIdIsNone DEF ValidId
<1> QED BY <1>1, <1>2

-----------------------------------------------------------------------------
(***************************************************************************)
(* The layout of a ULID.                                                   *)
(***************************************************************************)

\* It fills the integer, and leaves no id invalid.
LEMMA UlidLayout ==
  /\ "ulid" \in Types /\ Sized(SIZE["ulid"]) /\ SIZE["ulid"] \in Nat \ {0}
  /\ 2^(8 * SIZE["ulid"]) = 2^TIMESTAMP_BITS * 2^RANDOM_BITS
  /\ 2^TIMESTAMP_BITS \in Nat \ {0} /\ 2^RANDOM_BITS \in Nat \ {0}
  /\ Range32("ulid") = 2^(8 * SIZE["ulid"])
<1> DEFINE size == SIZE["ulid"]
           n == base32_size(size)
           a == TIMESTAMP_BITS
           b == RANDOM_BITS
           w == 5 * n
<1>1. "ulid" \in Types
  BY SMT DEF Types
<1>2. Sized(size) /\ size \in Nat \ {0}
  BY <1>1, TypeSizes
<1>3. 8 * size = a + b /\ RESERVED_BITS["ulid"] = 0
  BY FormsAssumption, SMT
<1>4. a \in Nat /\ b \in Nat /\ 2^a \in Nat \ {0} /\ 2^b \in Nat \ {0}
  BY UlidLayoutAssumption, SMT
<1> HIDE DEF size, a, b
<1>5. n \in Nat \ {0} /\ 5 * n - 8 * size \in 0 .. 4 /\ Doubling(w)
  BY <1>2, SpareBits DEF Sized
<1>6. w \in Nat /\ a + b <= w
  BY <1>2, <1>3, <1>4, <1>5, SMT
<1> HIDE DEF n, w
<1>7. 2^(a + b) = 2^a * 2^b
  BY <1>4, <1>5, <1>6, PowerSum, SMT
<1>8. 8 * size - 0 = 8 * size
  BY <1>2, SMT
<1>9. Range32("ulid") = 2^(8 * size)
  BY <1>3, <1>8 DEF Range32, size
<1> QED BY <1>1, <1>2, <1>3, <1>4, <1>7, <1>9 DEF size, a, b

\* A timestamp and random bits make an id, and come out of it again.
LEMMA FromComponents ==
  ASSUME NEW ts \in Nat, NEW rand \in Nat
  PROVE  /\ ValidId("ulid", from_components(ts, rand))
         /\ random(rand) \in Nat
         /\ from_components(ts, rand) = Earliest(ts) + random(rand)
         /\ from_components(ts, rand) \in Nat
         /\ timestamp(from_components(ts, rand)) = ts % 2^TIMESTAMP_BITS
<1> DEFINE A == 2^TIMESTAMP_BITS
           B == 2^RANDOM_BITS
           x == ts % A
           y == rand % B
<1>1. A \in Nat \ {0} /\ B \in Nat \ {0} /\ Range32("ulid") = A * B
  BY UlidLayout
<1>2. /\ from_components(ts, rand) = x * B + y /\ Earliest(ts) = x * B + (0 % B)
      /\ random(rand) = y
  BY DEF from_components, Earliest, random
<1>3. timestamp(x * B + y) = ((x * B + y) \div B) % A
  BY DEF timestamp
<1> HIDE DEF A, B
<1>4. x \in 0 .. A - 1 /\ y \in 0 .. B - 1
  BY <1>1, Parts
<1> HIDE DEF x, y
<1>5. x \in Nat /\ y \in Nat /\ x * B + y \in Nat /\ x * B + (0 % B) + y = x * B + y
  BY <1>1, <1>4, SMT
<1>6. x * B + y < A * B
  <2>1. (x + 1) * B <= A * B
    BY <1>1, <1>4, SMT
  <2> QED BY <2>1, <1>1, <1>4, SMT
<1>7. (x * B + y) \div B = x
  BY <1>1, <1>4, <1>5, DivMod
<1>8. x % A = x
  BY <1>1, <1>4, SmallMod
<1>9. ValidId("ulid", x * B + y)
  BY <1>1, <1>5, <1>6 DEF ValidId, is_valid
<1>10. timestamp(from_components(ts, rand)) = x
  BY <1>2, <1>3, <1>7, <1>8
<1>11. from_components(ts, rand) = Earliest(ts) + random(rand)
  BY <1>2, <1>5, SMT
<1> QED BY <1>2, <1>5, <1>9, <1>10, <1>11 DEF x, A

\* The timestamp of an id.
LEMMA TimestampOf ==
  ASSUME NEW id, ValidId("ulid", id)
  PROVE  /\ timestamp(id) \in Timestamps /\ timestamp(id) \in Nat
         /\ timestamp(id) = id \div 2^RANDOM_BITS
<1> DEFINE A == 2^TIMESTAMP_BITS
           B == 2^RANDOM_BITS
           q == id \div B
<1>1. A \in Nat \ {0} /\ B \in Nat \ {0} /\ Range32("ulid") = A * B
  BY UlidLayout
<1>2. id \in Nat /\ id < A * B
  BY <1>1 DEF ValidId, is_valid
<1>3. timestamp(id) = q % A /\ Timestamps = 0 .. A - 1
  BY DEF timestamp, Timestamps, TIMESTAMP_MASK
<1> HIDE DEF A, B
<1>4. q \in Nat
  BY <1>1, <1>2, Parts
<1>5. A \in Nat
  BY <1>1, SMT
<1>6. q < A
  BY <1>1, <1>2, <1>5, DivLess
<1> HIDE DEF q
<1>7. q % A = q /\ q \in 0 .. A - 1
  BY <1>1, <1>4, <1>6, SMT
<1> QED BY <1>3, <1>4, <1>7 DEF q, B

\* The id a timestamp begins with.
LEMMA EarliestOf ==
  ASSUME NEW ts \in Timestamps
  PROVE  /\ ts \in Nat /\ ts % 2^TIMESTAMP_BITS = ts
         /\ ValidId("ulid", Earliest(ts)) /\ Earliest(ts) \in Nat
<1> DEFINE A == 2^TIMESTAMP_BITS
<1>1. A \in Nat \ {0}
  BY UlidLayout
<1>2. ts \in 0 .. A - 1
  BY DEF Timestamps, TIMESTAMP_MASK
<1> HIDE DEF A
<1>3. ts \in Nat /\ ts % A = ts
  BY <1>1, <1>2, SMT
<1>4. 0 \in Nat
  BY SMT
<1>5. ValidId("ulid", Earliest(ts)) /\ Earliest(ts) \in Nat
  BY <1>3, <1>4, FromComponents DEF Earliest
<1> QED BY <1>3, <1>5 DEF A

(* Timestamps and times. *)

\* The timestamp and the time of an id are those of its millisecond.
LEMMA ToTimestampStands ==
  ASSUME NEW v, NEW m, AsId("ulid", v, m)
  PROVE  /\ AsTimestamp("ulid", timestamp(v), Earliest(timestamp(m)))
         /\ AsTime("ulid", datetime(v) * MICROS_PER_MS, Earliest(timestamp(m)))
<1>1. ValidId("ulid", v) /\ v = m
  BY DEF AsId
<1>2. timestamp(v) \in Timestamps /\ timestamp(v) \in Nat
  BY <1>1, TimestampOf
<1>3. MICROS_PER_MS \in Nat
  BY FormsAssumption, SMT
<1>4. timestamp(v) * MICROS_PER_MS \in Int
  BY <1>2, <1>3, SMT
<1> QED BY <1>1, <1>2, <1>4 DEF AsTimestamp, AsTime, datetime

\* A timestamp becomes an id of that millisecond.
LEMMA FromTimestampStands ==
  ASSUME NEW v, NEW m, AsTimestamp("ulid", v, m), NEW rand \in Nat
  PROVE  AsId("ulid", from_timestamp_and_rand(v, rand), m + random(rand))
<1>1. v \in Timestamps /\ m = Earliest(v)
  BY DEF AsTimestamp
<1>2. v \in Nat
  BY <1>1, EarliestOf
<1>3. /\ ValidId("ulid", from_components(v, rand))
      /\ from_components(v, rand) = Earliest(v) + random(rand)
  BY <1>2, FromComponents
<1> QED BY <1>1, <1>3 DEF AsId, from_timestamp_and_rand

\* So does a time, at any moment of the millisecond; one before the epoch
\* counts as the epoch.
LEMMA FromDatetimeStands ==
  ASSUME NEW v, NEW m, AsTime("ulid", v, m), NEW rand \in Nat,
         NEW micros \in 0 .. MICROS_PER_MS - 1,
         NEW id, id = from_datetime_and_rand((v + micros) \div MICROS_PER_MS, rand)
  PROVE  AsId("ulid", id, IF m = Unknown THEN id ELSE m + random(rand))
<1> DEFINE M == MICROS_PER_MS
           q == (v + micros) \div M
           ms == IF q < 0 THEN 0 ELSE q
<1>1. M \in Nat \ {0}
  BY FormsAssumption, SMT
<1>2. /\ v \in Int
      /\ m = Unknown \/ \E ts \in Timestamps : v = ts * M /\ m = Earliest(ts)
  BY DEF AsTime
<1>3. id = from_components(ms, rand)
  BY DEF from_datetime_and_rand
<1>4. micros \in 0 .. M - 1
  OBVIOUS
<1> HIDE DEF M
<1>5. q \in Int
  BY <1>1, <1>2, <1>4, SMT
<1>6. CASE m = Unknown
  <2> HIDE DEF q
  <2>1. ms \in Nat
    BY <1>5, SMT
  <2>2. ValidId("ulid", from_components(ms, rand))
    <3> HIDE DEF ms
    <3> QED BY <2>1, FromComponents
  <2> QED BY <1>3, <1>6, <2>2 DEF AsId
<1>7. ASSUME NEW ts \in Timestamps, v = ts * M, m = Earliest(ts)
      PROVE  AsId("ulid", id, IF m = Unknown THEN id ELSE m + random(rand))
  <2>1. ts \in Nat /\ Earliest(ts) \in Nat
    BY EarliestOf
  <2>2. q = ts
    <3>1. (ts * M + micros) \div M = ts
      BY <1>1, <1>4, <2>1, DivMod
    <3> QED BY <3>1, <1>7
  <2> HIDE DEF q
  <2>3. ms = ts
    BY <2>1, <2>2, SMT
  <2>4. /\ ValidId("ulid", from_components(ts, rand))
        /\ from_components(ts, rand) = Earliest(ts) + random(rand)
    BY <2>1, FromComponents
  <2>5. m # Unknown
    BY <1>7, <2>1, NoIdIsNone
  <2>6. id = from_components(ts, rand)
    BY <1>3, <2>3
  <2>7. id = m + random(rand)
    BY <1>7, <2>4, <2>6
  <2> QED BY <2>4, <2>5, <2>6, <2>7 DEF AsId
<1> QED BY <1>2, <1>6, <1>7

(* The bytes of a ULID. *)

\* from_inner keeps the id.
LEMMA InnerStands ==
  ASSUME NEW id, ValidId("ulid", id)
  PROVE  /\ AsUlid("ulid", to_be_bytes(id, SIZE["ulid"]), id)
         /\ from_be_bytes(to_be_bytes(id, SIZE["ulid"])) = id
<1> DEFINE size == SIZE["ulid"]
           b == to_be_bytes(id, size)
<1>1. "ulid" \in Types /\ Sized(size)
  BY UlidLayout
<1>2. id \in 0 .. 2^(8 * size) - 1
  BY <1>1, ValidFits
<1>3. b \in [1 .. size -> Bytes] /\ from_be_bytes(b) = id /\ BigEndian(b) = id
  BY <1>1, <1>2, BytesBack, SMT
<1> QED BY <1>3 DEF AsUlid, UlidBytes

\* to_inner gives the id back, and whatever the bytes it is a valid one.
LEMMA UlidStands ==
  ASSUME NEW v, NEW m, AsUlid("ulid", v, m)
  PROVE  from_be_bytes(v) = m /\ ValidId("ulid", m)
<1> DEFINE size == SIZE["ulid"]
           r == 2^(8 * size)
           x == Shifted(v, 256, size)
<1>1. Sized(size) /\ Range32("ulid") = r
  BY UlidLayout
<1>2. v \in [1 .. size -> Bytes] /\ m = BigEndian(v)
  BY DEF AsUlid, UlidBytes
<1>3. from_be_bytes(v) = x /\ BigEndian(v) = x /\ x \in 0 .. r - 1
  BY <1>1, <1>2, BytesNumber, SMT
<1>4. r \in Nat \ {0}
  BY UlidLayout, TypeSizes
<1> HIDE DEF x, r
<1>5. x \in Nat /\ x < r
  BY <1>3, <1>4, SMT
<1> QED BY <1>1, <1>2, <1>3, <1>5 DEF ValidId, is_valid

\* The bytes of a ULID are no NULL, and as long as a bytea must be.
LEMMA UlidIsBytea ==
  ASSUME NEW v \in UlidBytes
  PROVE  v \in Seq(Bytes) /\ Len(v) = SIZE["ulid"] /\ v # Null
<1> DEFINE size == SIZE["ulid"]
<1>1. size \in Nat \ {0}
  BY UlidLayout
<1>2. v \in [1 .. size -> Bytes]
  BY DEF UlidBytes
<1> HIDE DEF size
<1>3. v \in Seq(Bytes) /\ Len(v) = size
  BY <1>1, <1>2, SMT
<1>4. v # << >>
  BY <1>1, <1>3, SMT
<1> QED BY <1>3, <1>4 DEF size, Null

\* ... and a bytea that is so long holds the bytes of a ULID.
LEMMA ByteaIsUlid ==
  ASSUME NEW v \in Seq(Bytes), Len(v) = SIZE["ulid"]
  PROVE  v \in UlidBytes /\ SubSeq(v, 1, SIZE["ulid"]) = v
<1> DEFINE size == SIZE["ulid"]
<1>1. size \in Nat \ {0}
  BY UlidLayout
<1>2. Len(v) = size
  OBVIOUS
<1> HIDE DEF size
<1>3. v \in [1 .. size -> Bytes]
  BY <1>1, <1>2, SMT
<1>4. SubSeq(v, 1, size) = v
  BY <1>1, <1>2, SMT
<1> QED BY <1>3, <1>4 DEF UlidBytes, size

\* Storage and its NULL.
LEMMA DatumStands ==
  ASSUME NEW v, NEW m, AsDatum("ulid", v, m)
  PROVE  IF v = Null THEN m = NoId ELSE AsUlid("ulid", v, m)
<1>1. ASSUME AsUlid("ulid", v, m) PROVE v # Null
  BY <1>1, UlidIsBytea DEF AsUlid
<1> QED BY <1>1 DEF AsDatum

\* A bytea stands for the ULID it holds, or for none.
LEMMA ByteaStands ==
  ASSUME NEW v, NEW m, AsBytea("ulid", v, m)
  PROVE  /\ v \in Seq(Bytes) /\ Len(v) \in Nat
         /\ Len(v) = SIZE["ulid"] => AsUlid("ulid", v, m) /\ SubSeq(v, 1, SIZE["ulid"]) = v
         /\ Len(v) # SIZE["ulid"] => m = NoId
<1>1. v \in Seq(Bytes) /\ m = IF Len(v) = SIZE["ulid"] THEN BigEndian(v) ELSE NoId
  BY DEF AsBytea
<1>2. Len(v) \in Nat
  BY <1>1, SMT
<1>3. CASE Len(v) = SIZE["ulid"]
  <2>1. v \in UlidBytes /\ SubSeq(v, 1, SIZE["ulid"]) = v
    BY <1>1, <1>3, ByteaIsUlid
  <2> QED BY <2>1, <1>1, <1>2, <1>3 DEF AsUlid
<1> QED BY <1>1, <1>2, <1>3

\* A ULID sent as bytea.
LEMMA SentStands ==
  ASSUME NEW v, NEW m, AsUlid("ulid", v, m)
  PROVE  AsBytea("ulid", v, m) /\ AsDatum("ulid", v, m)
<1>1. v \in UlidBytes /\ m = BigEndian(v)
  BY DEF AsUlid
<1>2. v \in Seq(Bytes) /\ Len(v) = SIZE["ulid"]
  BY <1>1, UlidIsBytea
<1> QED BY <1>1, <1>2 DEF AsBytea, AsDatum

(* Times of Postgres. *)

\* The constants of the casts.
LEMMA PgConstants ==
  /\ MICROS_PER_MS \in Nat \ {0} /\ PG_EPOCH_OFFSET_MICROS \in Nat /\ I64_MAX \in Nat
  /\ TIMESTAMP_MASK + 1 \in Nat \ {0} /\ TIMESTAMP_MASK \in Nat
  /\ (TIMESTAMP_MASK + 1) * MICROS_PER_MS <= I64_MAX
<1> DEFINE A == 2^TIMESTAMP_BITS
<1>1. A \in Nat \ {0}
  BY UlidLayout
<1>2. TIMESTAMP_MASK = A - 1
  BY DEF TIMESTAMP_MASK
<1> HIDE DEF A
<1>3. TIMESTAMP_MASK + 1 \in Nat \ {0} /\ TIMESTAMP_MASK \in Nat
  BY <1>1, <1>2, SMT
<1> QED BY <1>3, PgAssumption, FormsAssumption

\* The timestamptz at which a millisecond of a ULID starts.
PgMicros(ts) == ts * MICROS_PER_MS - PG_EPOCH_OFFSET_MICROS

\* Neither the product nor the difference overflows.
LEMMA InRange ==
  ASSUME NEW ts \in Timestamps
  PROVE  /\ ts * MICROS_PER_MS \in Nat /\ PgMicros(ts) \in Int
         /\ Fits(ts * MICROS_PER_MS) /\ Fits(PgMicros(ts)) /\ PgMicros(ts) \in PgRange
<1> DEFINE M == MICROS_PER_MS
           K == TIMESTAMP_MASK
           x == ts * M
<1>1. M \in Nat \ {0} /\ K \in Nat /\ (K + 1) * M <= I64_MAX /\ I64_MAX \in Nat
  BY PgConstants
<1>2. ts \in 0 .. K
  BY DEF Timestamps
<1>3. PgMicros(ts) \in PgRange
  BY <1>2, PgAssumption DEF PgMicros
<1>4. PgRange \subseteq -I64_MAX - 1 .. I64_MAX
  BY PgAssumption
<1> HIDE DEF M, K
<1>5. ts \in Nat /\ ts + 1 <= K + 1
  BY <1>1, <1>2, SMT
<1>6. x \in Nat /\ x <= (K + 1) * M
  BY <1>1, <1>5, SMT
<1> HIDE DEF x
<1>7. x \in -I64_MAX - 1 .. I64_MAX
  <2> DEFINE y == (K + 1) * M
  <2>1. y \in Nat
    BY <1>1, SMT
  <2>2. x <= y /\ y <= I64_MAX
    BY <1>1, <1>6, SMT
  <2> HIDE DEF y
  <2> QED BY <2>1, <2>2, <1>1, <1>6, SMT
<1>8. PgMicros(ts) \in Int
  <2> DEFINE y == PgMicros(ts)
  <2>1. y \in -I64_MAX - 1 .. I64_MAX
    BY <1>3, <1>4
  <2> HIDE DEF y
  <2>2. y \in Int
    BY <2>1, <1>1, SMT
  <2> QED BY <2>2 DEF y
<1> QED BY <1>3, <1>4, <1>6, <1>7, <1>8 DEF Fits, x, M

\* ulid_to_timestamptz cannot fail.
LEMMA ToTimestamptz ==
  ASSUME NEW v, NEW m, AsUlid("ulid", v, m)
  PROVE  /\ ulid_to_timestamptz(v) = Ok(PgMicros(timestamp(m)))
         /\ AsTimestamptz("ulid", PgMicros(timestamp(m)), Earliest(timestamp(m)))
<1> DEFINE ts == timestamp(m)
<1>1. from_be_bytes(v) = m /\ ValidId("ulid", m)
  BY UlidStands
<1>2. ts \in Timestamps
  BY <1>1, TimestampOf
<1> HIDE DEF ts
<1>3. /\ PgMicros(ts) \in Int /\ PgMicros(ts) \in PgRange
      /\ Fits(ts * MICROS_PER_MS) /\ Fits(PgMicros(ts))
  BY <1>2, InRange
<1>4. ulid_to_timestamptz(v) = Ok(PgMicros(ts))
  BY <1>1, <1>3 DEF ulid_to_timestamptz, PgMicros, ts
<1>5. AsTimestamptz("ulid", PgMicros(ts), Earliest(ts))
  BY <1>2, <1>3 DEF AsTimestamptz, PgMicros
<1> QED BY <1>4, <1>5 DEF ts

\* timestamptz_to_ulid cuts a time that is in range to its millisecond.
LEMMA FromTimestamptz ==
  ASSUME NEW v \in Int, NEW ts \in Timestamps, NEW micros \in 0 .. MICROS_PER_MS - 1,
         v = PgMicros(ts) + micros
  PROVE  timestamptz_to_ulid(v) = Ok(to_be_bytes(Earliest(ts), SIZE["ulid"]))
<1> DEFINE M == MICROS_PER_MS
           K == TIMESTAMP_MASK
           F == PG_EPOCH_OFFSET_MICROS
           x == v + F
<1>1. M \in Nat \ {0} /\ K \in Nat /\ (K + 1) * M <= I64_MAX /\ I64_MAX \in Nat /\ F \in Nat
  BY PgConstants
<1>2. ts \in 0 .. K
  BY DEF Timestamps
<1>3. v = (ts * M - F) + micros /\ micros \in 0 .. M - 1
  BY DEF PgMicros
<1>4. timestamptz_to_ulid(v) =
        IF ~ Fits(x) THEN Err([is |-> "timestamp overflow"])
        ELSE IF Trunc(x) < 0 THEN Err([is |-> "timestamp before Unix epoch"])
        ELSE Ok(to_be_bytes(from_components(Trunc(x), 0), SIZE["ulid"]))
  BY DEF timestamptz_to_ulid, from_inner
<1>5. Trunc(x) = IF x >= 0 THEN x \div M ELSE -((-x) \div M)
  BY DEF Trunc
<1> HIDE DEF M, K, F
<1>6. ts \in Nat /\ ts * M \in Nat /\ micros \in Nat
  BY <1>1, <1>2, <1>3, SMT
<1>7. x = ts * M + micros
  <2> DEFINE y == ts * M
  <2>1. y \in Nat /\ v = (y - F) + micros
    BY <1>3, <1>6, SMT
  <2> HIDE DEF y
  <2>2. v + F = y + micros
    BY <2>1, <1>1, <1>6, SMT
  <2> QED BY <2>2 DEF y
<1>8. (ts * M + micros) \div M = ts
  BY <1>1, <1>3, <1>6, DivMod
<1>9. x \in Nat /\ x <= (K + 1) * M
  <2>1. (ts + 1) * M <= (K + 1) * M
    BY <1>1, <1>2, SMT
  <2>2. x \in Nat /\ x <= (ts + 1) * M
    BY <1>1, <1>3, <1>6, <1>7, SMTT(30)
  <2> DEFINE a == (ts + 1) * M
             b == (K + 1) * M
  <2>3. a \in Nat /\ b \in Nat
    BY <1>1, <1>6, SMT
  <2>4. a <= b /\ x <= a
    BY <2>1, <2>2, SMT
  <2> HIDE DEF a, b, x
  <2>5. x <= b
    BY <2>2, <2>3, <2>4, SMT
  <2> QED BY <2>2, <2>5, SMT DEF b
<1>10. x \div M = ts
  BY <1>7, <1>8
<1> HIDE DEF x
<1>11. Fits(x)
  <2> DEFINE b == (K + 1) * M
  <2>1. b \in Nat /\ x <= b /\ b <= I64_MAX
    BY <1>1, <1>9, SMT
  <2> HIDE DEF b
  <2>2. x \in -I64_MAX - 1 .. I64_MAX
    BY <2>1, <1>1, <1>9, SMT
  <2> QED BY <2>2 DEF Fits
<1>12. Trunc(x) = ts
  BY <1>5, <1>9, <1>10, SMT
<1>13. ~ (Trunc(x) < 0)
  BY <1>12, <1>6, SMT
<1>14. timestamptz_to_ulid(v) = Ok(to_be_bytes(from_components(Trunc(x), 0), SIZE["ulid"]))
  BY <1>4, <1>11, <1>13
<1> QED BY <1>12, <1>14 DEF Earliest

\* Any other timestamptz gives some ULID, or an error.
LEMMA AnyTimestamptz ==
  ASSUME NEW v \in Int
  PROVE  LET r == timestamptz_to_ulid(v)
         IN  \/ \E id : ValidId("ulid", id) /\ r = Ok(to_be_bytes(id, SIZE["ulid"]))
             \/ \E e : RightError("ulid", v, e) /\ r = Err(e)
<1> DEFINE M == MICROS_PER_MS
           F == PG_EPOCH_OFFSET_MICROS
           x == v + F
           ms == Trunc(x)
           late == [is |-> "timestamp overflow"]
           early == [is |-> "timestamp before Unix epoch"]
<1>1. M \in Nat \ {0} /\ F \in Nat
  BY PgConstants
<1>2. timestamptz_to_ulid(v) =
        IF ~ Fits(x) THEN Err(late) ELSE IF ms < 0 THEN Err(early)
        ELSE Ok(to_be_bytes(from_components(ms, 0), SIZE["ulid"]))
  BY DEF timestamptz_to_ulid, from_inner
<1>3. ms = IF x >= 0 THEN x \div M ELSE -((-x) \div M)
  BY DEF Trunc
<1> HIDE DEF M, F
<1>4. x \in Int
  BY <1>1, SMT
<1> HIDE DEF x, ms
<1>5. ms \in Int
  BY <1>1, <1>3, <1>4, SMT
<1>6. RightError("ulid", v, late) /\ RightError("ulid", v, early)
  <2>1. "timestamp overflow" \in Errors /\ "timestamp before Unix epoch" \in Errors
    BY DEF Errors
  <2> QED BY <2>1, OtherIsRight
<1> HIDE DEF late, early
<1>7. CASE ~ Fits(x) \/ ms < 0
  BY <1>2, <1>6, <1>7
<1>8. CASE Fits(x) /\ ~ (ms < 0)
  <2>1. ms \in Nat /\ 0 \in Nat
    BY <1>5, <1>8, SMT
  <2>2. ValidId("ulid", from_components(ms, 0))
    BY <2>1, FromComponents
  <2> QED BY <1>2, <1>8, <2>2
<1> QED BY <1>7, <1>8

\* The cast from timestamptz: the id a time came from, or what it is cast to.
CastMeaning(r, m) ==
  IF m # Unknown THEN m ELSE IF r.ok THEN BigEndian(r.value) ELSE NoId

\* It gives what that stands for.
LEMMA CastOutcome ==
  ASSUME NEW v, NEW m, AsTimestamptz("ulid", v, m), NEW r, r = timestamptz_to_ulid(v)
  PROVE  Outcome("ulid", "ulid", v, r, CastMeaning(r, m))
<1>1. /\ v \in Int
      /\ m = Unknown \/ \E ts \in Timestamps : v = PgMicros(ts) /\ m = Earliest(ts)
  BY DEF AsTimestamptz, PgMicros
<1>2. ASSUME NEW ts \in Timestamps, v = PgMicros(ts), m = Earliest(ts)
      PROVE  Outcome("ulid", "ulid", v, r, CastMeaning(r, m))
  <2> DEFINE b == to_be_bytes(Earliest(ts), SIZE["ulid"])
  <2>1. ValidId("ulid", Earliest(ts)) /\ Earliest(ts) \in Nat
    BY EarliestOf
  <2>2. CastMeaning(r, m) = m
    BY <1>2, <2>1, NoIdIsNone DEF CastMeaning
  <2>3. PgMicros(ts) \in Int /\ 0 \in 0 .. MICROS_PER_MS - 1
    BY InRange, PgConstants, SMT
  <2>4. v = PgMicros(ts) + 0
    BY <1>2, <2>3, SMT
  <2>5. r = Ok(b)
    BY <1>1, <2>3, <2>4, FromTimestamptz
  <2>6. AsUlid("ulid", b, Earliest(ts))
    BY <2>1, InnerStands
  <2> HIDE DEF b
  <2>7. StandsFor("ulid", "ulid", b, Earliest(ts))
    BY <2>6, FormIs
  <2>8. Outcome("ulid", "ulid", v, Ok(b), Earliest(ts))
    BY <2>7, OkOutcome
  <2> QED BY <1>2, <2>2, <2>5, <2>8
<1>3. ASSUME m = Unknown
      PROVE  Outcome("ulid", "ulid", v, r, CastMeaning(r, m))
  <2>1. CastMeaning(r, m) = IF r.ok THEN BigEndian(r.value) ELSE NoId
    BY <1>3 DEF CastMeaning
  <2>2. \/ \E id : ValidId("ulid", id) /\ r = Ok(to_be_bytes(id, SIZE["ulid"]))
        \/ \E e : RightError("ulid", v, e) /\ r = Err(e)
    BY <1>1, AnyTimestamptz
  <2>3. ASSUME NEW id, ValidId("ulid", id), r = Ok(to_be_bytes(id, SIZE["ulid"]))
        PROVE  Outcome("ulid", "ulid", v, r, CastMeaning(r, m))
    <3> DEFINE b == to_be_bytes(id, SIZE["ulid"])
    <3>1. AsUlid("ulid", b, id)
      BY <2>3, InnerStands
    <3> HIDE DEF b
    <3>2. StandsFor("ulid", "ulid", b, id) /\ id = BigEndian(b)
      BY <3>1, FormIs DEF AsUlid
    <3>3. Outcome("ulid", "ulid", v, Ok(b), id)
      BY <3>2, OkOutcome
    <3>4. r = Ok(b)
      BY <2>3 DEF b
    <3>5. r.ok = TRUE /\ r.value = b
      BY <3>4, Results
    <3>6. CastMeaning(r, m) = id
      BY <2>1, <3>2, <3>5
    <3> QED BY <3>3, <3>4, <3>6
  <2>4. ASSUME NEW e, RightError("ulid", v, e), r = Err(e)
        PROVE  Outcome("ulid", "ulid", v, r, CastMeaning(r, m))
    <3>1. r.ok = FALSE
      BY <2>4, Results
    <3>2. CastMeaning(r, m) = NoId
      BY <2>1, <3>1
    <3>3. Outcome("ulid", "ulid", v, Err(e), NoId)
      BY <2>4, ErrOutcome
    <3> QED BY <3>2, <3>3, <2>4
  <2> QED BY <2>2, <2>3, <2>4
<1> QED BY <1>1, <1>2, <1>3

-----------------------------------------------------------------------------
(***************************************************************************)
(* The steps.                                                              *)
(***************************************************************************)

\* What Convert does with the result r; n is what the next form stands for.
Moves(t, from, to, r, n) ==
  /\ ty = t /\ form = from
  /\ IF r.ok THEN form' = to /\ value' = r.value
             ELSE form' = "error" /\ value' = [error |-> r.error, of |-> value]
  /\ ty' = ty /\ meaning' = n

\* Converting v, which stands for m, gives what stands for n.
Carries(t, from, to, v, r, m, n) ==
  StandsFor(t, from, v, m) => Outcome(t, to, v, r, n)

\* A step that does keeps the invariant.
LEMMA Conversion ==
  ASSUME Journey, NEW t, NEW from, NEW to, NEW r, NEW n,
         Moves(t, from, to, r, n), Carries(t, from, to, value, r, meaning, n)
  PROVE  Journey'
<1>1. StandsFor(t, from, value, meaning) /\ t \in Types /\ ty' = t /\ meaning' = n
  BY DEF Moves, Journey
<1>2. StandsFor(t, form', value', n)
  BY <1>1 DEF Moves, Carries, Outcome
<1> QED BY <1>1, <1>2 DEF Journey

\* One that cannot fail does if its value stands for the id.
LEMMA OkCarries ==
  ASSUME NEW t, NEW from, NEW to, NEW v, NEW x, NEW m, NEW n,
         StandsFor(t, from, v, m) => StandsFor(t, to, x, n)
  PROVE  Carries(t, from, to, v, Ok(x), m, n)
  BY OkOutcome DEF Carries

\* An id as text, in whatever buffer or string.
LEMMA ShowCarries ==
  ASSUME NEW t \in Types, NEW v, NEW m
  PROVE  \A to \in {"formatter", "formatter ref", "string", "text"} :
           Carries(t, "id", to, v, Ok(Canonical(v, Width(t))), m, m)
<1> DEFINE c == Canonical(v, Width(t))
<1>1. ASSUME AsId(t, v, m) PROVE AsBuffer(t, c, m) /\ AsText(t, c, m)
  <2>1. AsBuffer(t, c, m)
    BY <1>1 DEF AsId, AsBuffer
  <2> QED BY <2>1, BufferIsItsText
<1> HIDE DEF c
<1>2. \A to \in {"formatter", "formatter ref", "string", "text"} :
        StandsFor(t, "id", v, m) => StandsFor(t, to, c, m)
  BY <1>1, FormIs
<1>3. \A to \in {"formatter", "formatter ref", "string", "text"} :
        Carries(t, "id", to, v, Ok(c), m, m)
  BY <1>2, OkCarries
<1> QED BY <1>3 DEF c

\* The text of a buffer.
LEMMA StrCarries ==
  ASSUME NEW t \in Types, NEW v, NEW m, NEW from \in {"formatter", "formatter ref"}
  PROVE  Carries(t, from, "text", v, Ok(v), m, m)
<1>1. AsBuffer(t, v, m) => AsText(t, v, m)
  BY BufferIsItsText
<1>2. StandsFor(t, from, v, m) => StandsFor(t, "text", v, m)
  BY <1>1, FormIs
<1> QED BY <1>2, OkCarries

\* A text, or a string, parsed.
LEMMA ParseCarries ==
  ASSUME NEW t \in Types, NEW v, NEW m, NEW from \in {"text", "string"}
  PROVE  Carries(t, from, "id", v, Checked(t, inner_decode(t, v)), m, m)
<1>1. ASSUME AsText(t, v, m) PROVE Outcome(t, "id", v, Checked(t, inner_decode(t, v)), m)
  <2>1. v \in Seq(Bytes) /\ m = Denotes(t, "text", v)
    BY <1>1 DEF AsText
  <2>2. Parses(t, v, Checked(t, inner_decode(t, v)))
    BY <2>1, CheckedText
  <2>3. Outcome(t, "id", v, Checked(t, inner_decode(t, v)), Denotes(t, "text", v))
    BY <2>2 DEF Parses
  <2> QED BY <2>1, <2>3
<1>2. StandsFor(t, from, v, m) => AsText(t, v, m)
  BY BufferIsItsText, FormIs
<1> QED BY <1>1, <1>2 DEF Carries

\* Integers.
LEMMA IntCarries ==
  ASSUME NEW t \in Types, NEW v, NEW m
  PROVE  /\ Carries(t, "id", "int", v, Ok(v), m, m)
         /\ Carries(t, "int", "id", v, Checked(t, Ok(v)), m, m)
<1>1. ASSUME AsId(t, v, m) PROVE AsInt(t, v, m)
  <2>1. ValidId(t, v) /\ v = m
    BY <1>1 DEF AsId
  <2>2. v \in 0 .. 2^(8 * SIZE[t]) - 1 /\ Valid(t, v) = v
    BY <2>1, ValidFits DEF Valid, ValidId
  <2> QED BY <2>1, <2>2 DEF AsInt
<1>2. ASSUME AsInt(t, v, m) PROVE Outcome(t, "id", v, Checked(t, Ok(v)), m)
  <2> DEFINE r == 2^(8 * SIZE[t])
  <2>1. v \in 0 .. r - 1 /\ m = Valid(t, v) /\ r \in Nat \ {0}
    BY <1>2, TypeSizes DEF AsInt
  <2> HIDE DEF r
  <2>2. v \in Nat
    BY <2>1, SMT
  <2>3. Outcome(t, "id", v, Checked(t, Ok(v)), Valid(t, v))
    BY <2>2, CheckedInt
  <2> QED BY <2>1, <2>3
<1>3. StandsFor(t, "id", v, m) => StandsFor(t, "int", v, m)
  BY <1>1, FormIs
<1>4. StandsFor(t, "int", v, m) => AsInt(t, v, m)
  BY FormIs
<1> QED BY <1>2, <1>3, <1>4, OkCarries DEF Carries

\* Encoding, by the formatters' names.
LEMMA EncodeCarries ==
  ASSUME NEW v, NEW m, NEW c \in Bytes
  PROVE  /\ Carries("snowflake", "id", "formatter", v, Ok(Base32SnowFormatter(v)), m, m)
         /\ Carries("snowflake", "id", "formatter ref", v,
                    Ok(Base32SnowFormatterRef(v, Filled("snowflake", c))), m, m)
         /\ \A to \in {"text", "string"} : Carries("snowflake", "id", to, v,
                    snow_formatter_str(Base32SnowFormatter(v)), m, m)
         /\ Carries("ulid", "id", "formatter", v, Ok(Base32UlidFormatter(v)), m, m)
         /\ Carries("ulid", "id", "formatter ref", v,
                    Ok(Base32UlidFormatterRef(v, Filled("ulid", c))), m, m)
         /\ \A to \in {"text", "string"} : Carries("ulid", "id", to, v,
                    ulid_formatter_str(Base32UlidFormatter(v)), m, m)
<1>1. "snowflake" \in Types /\ "ulid" \in Types
  BY DEF Types
<1>2. ASSUME NEW t \in Types, ~ ValidId(t, v), NEW to, NEW r
      PROVE  Carries(t, "id", to, v, r, m, m)
  BY <1>2, FormIs DEF Carries, AsId
<1>3. ASSUME ValidId("snowflake", v)
      PROVE  /\ Base32SnowFormatter(v) = Canonical(v, Width("snowflake"))
             /\ Base32SnowFormatterRef(v, Filled("snowflake", c)) = Canonical(v, Width("snowflake"))
  BY <1>3, Formatters
<1>4. ASSUME ValidId("ulid", v)
      PROVE  /\ Base32UlidFormatter(v) = Canonical(v, Width("ulid"))
             /\ Base32UlidFormatterRef(v, Filled("ulid", c)) = Canonical(v, Width("ulid"))
  BY <1>4, Formatters
<1>5. /\ Carries("snowflake", "id", "formatter", v, Ok(Base32SnowFormatter(v)), m, m)
      /\ Carries("snowflake", "id", "formatter ref", v,
                 Ok(Base32SnowFormatterRef(v, Filled("snowflake", c))), m, m)
      /\ \A to \in {"text", "string"} : Carries("snowflake", "id", to, v,
                 snow_formatter_str(Base32SnowFormatter(v)), m, m)
  BY <1>1, <1>2, <1>3, ShowCarries DEF snow_formatter_str
<1>6. /\ Carries("ulid", "id", "formatter", v, Ok(Base32UlidFormatter(v)), m, m)
      /\ Carries("ulid", "id", "formatter ref", v,
                 Ok(Base32UlidFormatterRef(v, Filled("ulid", c))), m, m)
      /\ \A to \in {"text", "string"} : Carries("ulid", "id", to, v,
                 ulid_formatter_str(Base32UlidFormatter(v)), m, m)
  BY <1>1, <1>2, <1>4, ShowCarries DEF ulid_formatter_str
<1> QED BY <1>5, <1>6

\* The actions of base32 and serde keep the invariant.
LEMMA SnowSteps ==
  ASSUME Journey,
         \/ SnowEncode \/ SnowEncodeToBuf \/ SnowShow \/ SnowToString \/ SnowParse
         \/ snow_as_int_serialize \/ snow_as_int_deserialize
         \/ snow_as_base32_serialize \/ snow_as_base32_deserialize
  PROVE  Journey'
<1> DEFINE t == "snowflake"
<1>1. t \in Types /\ 0 \in Bytes
  BY SMT DEF Types, Bytes
<1>2. CASE SnowEncode
  <2>1. Moves(t, "id", "formatter", Ok(Base32SnowFormatter(value)), meaning)
    BY <1>2 DEF SnowEncode, Convert, Moves
  <2> QED BY <1>1, <2>1, EncodeCarries, Conversion
<1>3. CASE SnowEncodeToBuf
  <2>1. PICK c \in Bytes :
          Moves(t, "id", "formatter ref", Ok(Base32SnowFormatterRef(value, Filled(t, c))), meaning)
    BY <1>3, FormsAssumption DEF SnowEncodeToBuf, Convert, Moves
  <2> QED BY <2>1, EncodeCarries, Conversion
<1>4. CASE SnowShow
  <2>1. PICK from \in {"formatter", "formatter ref"} : Moves(t, from, "text", Ok(value), meaning)
    BY <1>4 DEF SnowShow, Convert, Moves, snow_formatter_str, snow_formatter_ref_str
  <2> QED BY <1>1, <2>1, StrCarries, Conversion
<1>5. CASE SnowToString \/ snow_as_base32_serialize
  <2>1. PICK to \in {"text", "string"} :
          Moves(t, "id", to, snow_formatter_str(Base32SnowFormatter(value)), meaning)
    BY <1>5 DEF SnowToString, snow_as_base32_serialize, Convert, Moves
  <2> QED BY <1>1, <2>1, EncodeCarries, Conversion
<1>6. CASE SnowParse \/ snow_as_base32_deserialize
  <2>1. PICK from \in {"text", "string"} :
          Moves(t, from, "id", Checked(t, inner_decode(t, value)), meaning)
    BY <1>6 DEF SnowParse, snow_as_base32_deserialize, Convert, Moves, snow_decode
  <2> QED BY <1>1, <2>1, ParseCarries, Conversion
<1>7. CASE snow_as_int_serialize
  <2>1. Moves(t, "id", "int", Ok(value), meaning)
    BY <1>7 DEF snow_as_int_serialize, Convert, Moves
  <2> QED BY <1>1, <2>1, IntCarries, Conversion
<1>8. CASE snow_as_int_deserialize
  <2>1. Moves(t, "int", "id", Checked(t, Ok(value)), meaning)
    BY <1>8 DEF snow_as_int_deserialize, Convert, Moves
  <2> QED BY <1>1, <2>1, IntCarries, Conversion
<1> QED BY <1>2, <1>3, <1>4, <1>5, <1>6, <1>7, <1>8

\* Those of ULIDs likewise.
LEMMA UlidSteps ==
  ASSUME Journey,
         \/ UlidEncode \/ UlidEncodeToBuf \/ UlidShow \/ UlidToString \/ UlidParse
         \/ ulid_as_int_serialize \/ ulid_as_int_deserialize
         \/ ulid_as_base32_serialize \/ ulid_as_base32_deserialize
  PROVE  Journey'
<1> DEFINE t == "ulid"
<1>1. t \in Types /\ 0 \in Bytes
  BY SMT DEF Types, Bytes
<1>2. CASE UlidEncode
  <2>1. Moves(t, "id", "formatter", Ok(Base32UlidFormatter(value)), meaning)
    BY <1>2 DEF UlidEncode, Convert, Moves
  <2> QED BY <1>1, <2>1, EncodeCarries, Conversion
<1>3. CASE UlidEncodeToBuf
  <2>1. PICK c \in Bytes :
          Moves(t, "id", "formatter ref", Ok(Base32UlidFormatterRef(value, Filled(t, c))), meaning)
    BY <1>3, FormsAssumption DEF UlidEncodeToBuf, Convert, Moves
  <2> QED BY <2>1, EncodeCarries, Conversion
<1>4. CASE UlidShow
  <2>1. PICK from \in {"formatter", "formatter ref"} : Moves(t, from, "text", Ok(value), meaning)
    BY <1>4 DEF UlidShow, Convert, Moves, ulid_formatter_str, ulid_formatter_ref_str
  <2> QED BY <1>1, <2>1, StrCarries, Conversion
<1>5. CASE UlidToString \/ ulid_as_base32_serialize
  <2>1. PICK to \in {"text", "string"} :
          Moves(t, "id", to, ulid_formatter_str(Base32UlidFormatter(value)), meaning)
    BY <1>5 DEF UlidToString, ulid_as_base32_serialize, Convert, Moves
  <2> QED BY <1>1, <2>1, EncodeCarries, Conversion
<1>6. CASE UlidParse \/ ulid_as_base32_deserialize
  <2>1. PICK from \in {"text", "string"} :
          Moves(t, from, "id", Checked(t, inner_decode(t, value)), meaning)
    BY <1>6 DEF UlidParse, ulid_as_base32_deserialize, Convert, Moves, ulid_decode
  <2> QED BY <1>1, <2>1, ParseCarries, Conversion
<1>7. CASE ulid_as_int_serialize
  <2>1. Moves(t, "id", "int", Ok(value), meaning)
    BY <1>7 DEF ulid_as_int_serialize, Convert, Moves
  <2> QED BY <1>1, <2>1, IntCarries, Conversion
<1>8. CASE ulid_as_int_deserialize
  <2>1. Moves(t, "int", "id", Checked(t, Ok(value)), meaning)
    BY <1>8 DEF ulid_as_int_deserialize, Convert, Moves
  <2> QED BY <1>1, <2>1, IntCarries, Conversion
<1> QED BY <1>2, <1>3, <1>4, <1>5, <1>6, <1>7, <1>8

\* An id with its reserved bits cleared is a valid one.
LEMMA IntoValidStep ==
  ASSUME Journey, IntoValid
  PROVE  Journey'
<1> DEFINE id == value.error.id
           r == Range32(ty)
           x == into_valid(ty, id)
<1>1. /\ form = "error" /\ value.error.is = "DecodeOverflow"
      /\ form' = "id" /\ value' = x /\ meaning' = x /\ ty' = ty
  BY DEF IntoValid
<1>2. ty \in Types /\ StandsFor(ty, "error", value, meaning)
  BY <1>1 DEF Journey
<1>3. id \in Nat
  BY <1>1, <1>2, FormIs DEF AsError, RightError
<1>4. r \in Nat \ {0} /\ x = id % r
  BY <1>2, TypeSizes DEF into_valid
<1> HIDE DEF r, id, x
<1>5. x \in Nat /\ x < r
  BY <1>3, <1>4, SMT
<1>6. AsId(ty, x, x)
  BY <1>5 DEF AsId, ValidId, is_valid, r
<1>7. StandsFor(ty, "id", x, x)
  BY <1>6, FormIs
<1> QED BY <1>1, <1>2, <1>7 DEF Journey

\* Timestamps and times.
LEMMA TimeSteps ==
  ASSUME Journey, ToTimestamp \/ FromTimestamp \/ ToDatetime \/ FromDatetime
  PROVE  Journey'
<1> DEFINE early == Earliest(timestamp(meaning))
<1>1. Randoms \subseteq Nat
  BY FormsAssumption
<1>2. CASE ToTimestamp
  <2>1. Moves("ulid", "id", "timestamp", Ok(timestamp(value)), early)
    BY <1>2 DEF ToTimestamp, Convert, Moves, Earliest
  <2>2. StandsFor("ulid", "id", value, meaning)
        => StandsFor("ulid", "timestamp", timestamp(value), early)
    BY ToTimestampStands, FormIs
  <2> HIDE DEF early
  <2> QED BY <2>1, <2>2, OkCarries, Conversion
<1>3. CASE FromTimestamp
  <2> DEFINE id(rand) == from_timestamp_and_rand(value, rand)
  <2>1. PICK rand \in Randoms :
          Moves("ulid", "timestamp", "id", Ok(id(rand)), meaning + random(rand))
    BY <1>3 DEF FromTimestamp, Convert, Moves
  <2>2. StandsFor("ulid", "timestamp", value, meaning)
        => StandsFor("ulid", "id", id(rand), meaning + random(rand))
    BY <1>1, FromTimestampStands, FormIs
  <2> HIDE DEF id
  <2> QED BY <2>1, <2>2, OkCarries, Conversion
<1>4. CASE ToDatetime
  <2> DEFINE x == datetime(value) * MICROS_PER_MS
  <2>1. Moves("ulid", "id", "time", Ok(x), early)
    BY <1>4 DEF ToDatetime, Convert, Moves, Earliest
  <2>2. StandsFor("ulid", "id", value, meaning) => StandsFor("ulid", "time", x, early)
    BY ToTimestampStands, FormIs
  <2> HIDE DEF x, early
  <2> QED BY <2>1, <2>2, OkCarries, Conversion
<1>5. CASE FromDatetime
  <2> DEFINE id(rand, micros) == from_datetime_and_rand((value + micros) \div MICROS_PER_MS, rand)
             n(rand, micros) == IF meaning = Unknown THEN id(rand, micros)
                                ELSE meaning + random(rand)
  <2>1. PICK rand \in Randoms, micros \in 0 .. MICROS_PER_MS - 1 :
          Moves("ulid", "time", "id", Ok(id(rand, micros)), n(rand, micros))
    BY <1>5 DEF FromDatetime, Convert, Moves
  <2>2. AsTime("ulid", value, meaning) => AsId("ulid", id(rand, micros), n(rand, micros))
    BY <1>1, FromDatetimeStands
  <2> HIDE DEF id, n
  <2>3. StandsFor("ulid", "time", value, meaning)
        => StandsFor("ulid", "id", id(rand, micros), n(rand, micros))
    BY <2>2, FormIs
  <2> QED BY <2>1, <2>3, OkCarries, Conversion
<1> QED BY <1>2, <1>3, <1>4, <1>5

\* A text read by Postgres.
LEMMA ParsedOutcome ==
  ASSUME NEW v, NEW m, AsText("ulid", v, m)
  PROVE  Outcome("ulid", "ulid", v, Parsed(v), m)
<1> DEFINE r == Checked("ulid", inner_decode("ulid", v))
<1>1. v \in Seq(Bytes) /\ m = Denotes("ulid", "text", v) /\ "ulid" \in Types
  BY UlidLayout DEF AsText
<1>2. Parses("ulid", v, r)
  BY <1>1, CheckedText
<1>3. Parsed(v) = IF r.ok THEN Ok(to_be_bytes(r.value, SIZE["ulid"])) ELSE r
  BY DEF Parsed, ulid_decode, from_inner
<1> HIDE DEF r
<1>4. CASE m # NoId
  <2>1. ValidId("ulid", m) /\ r = Ok(m)
    BY <1>1, <1>2, <1>4 DEF Parses
  <2>2. r.ok = TRUE /\ r.value = m
    BY <2>1, Results
  <2> DEFINE b == to_be_bytes(m, SIZE["ulid"])
  <2>3. AsUlid("ulid", b, m)
    BY <2>1, InnerStands
  <2>4. Parsed(v) = Ok(b)
    BY <1>3, <2>2
  <2> HIDE DEF b
  <2>5. StandsFor("ulid", "ulid", b, m)
    BY <2>3, FormIs
  <2>6. Outcome("ulid", "ulid", v, Ok(b), m)
    BY <2>5, OkOutcome
  <2> QED BY <2>4, <2>6
<1>5. CASE m = NoId
  <2>1. r.ok = FALSE /\ Outcome("ulid", "id", v, r, m)
    BY <1>1, <1>2, <1>5 DEF Parses
  <2>2. Parsed(v) = r
    BY <1>3, <2>1
  <2>3. Outcome("ulid", "ulid", v, r, m)
    BY <2>1 DEF Outcome
  <2> QED BY <2>2, <2>3
<1> QED BY <1>4, <1>5

\* A ULID shown by Postgres.
LEMMA ShownOutcome ==
  ASSUME NEW v, NEW m, AsUlid("ulid", v, m)
  PROVE  Outcome("ulid", "text", v, Shown(v), m)
<1> DEFINE c == Canonical(m, Width("ulid"))
<1>1. from_be_bytes(v) = m /\ ValidId("ulid", m) /\ "ulid" \in Types
  BY UlidStands, UlidLayout
<1>2. Base32UlidFormatter(m) = c
  BY <1>1, Formatters
<1>3. Shown(v) = Ok(c)
  BY <1>1, <1>2 DEF Shown
<1>4. AsText("ulid", c, m)
  BY <1>1, CanonicalDenotes
<1> HIDE DEF c
<1>5. StandsFor("ulid", "text", c, m)
  BY <1>4, FormIs
<1>6. Outcome("ulid", "text", v, Ok(c), m)
  BY <1>5, OkOutcome
<1> QED BY <1>3, <1>6

\* A result that is good just when the id is one, or else an error that fits.
LEMMA GoodOrError ==
  ASSUME NEW to, NEW v, NEW m, NEW good \in BOOLEAN, NEW x, NEW kind \in Errors, NEW r,
         kind \notin {"DecodeInvalidLen", "DecodeInvalidAscii", "DecodeOverflow"},
         r = IF good THEN Ok(x) ELSE Err([is |-> kind]),
         good => StandsFor("ulid", to, x, m), ~ good => m = NoId
  PROVE  Outcome("ulid", to, v, r, m)
<1>1. CASE good
  <2>1. Outcome("ulid", to, v, Ok(x), m)
    BY <1>1, OkOutcome
  <2> QED BY <1>1, <2>1
<1>2. CASE ~ good
  <2>1. RightError("ulid", v, [is |-> kind])
    BY OtherIsRight
  <2>2. Outcome("ulid", to, v, Err([is |-> kind]), NoId)
    BY <2>1, ErrOutcome
  <2> QED BY <1>2, <2>2
<1> QED BY <1>1, <1>2

\* A datum read, by either way.
LEMMA DatumOutcome ==
  ASSUME NEW v, NEW m, AsDatum("ulid", v, m), NEW kind \in Errors, NEW r,
         kind \notin {"DecodeInvalidLen", "DecodeInvalidAscii", "DecodeOverflow"},
         r = IF v = Null THEN Err([is |-> kind]) ELSE Ok(v)
  PROVE  Outcome("ulid", "ulid", v, r, m)
<1> DEFINE good == v # Null
<1>1. r = IF good THEN Ok(v) ELSE Err([is |-> kind])
  OBVIOUS
<1>2. good => AsUlid("ulid", v, m)
  BY DatumStands
<1>3. ~ good => m = NoId
  BY DatumStands
<1>4. good \in BOOLEAN
  OBVIOUS
<1> HIDE DEF good
<1>5. good => StandsFor("ulid", "ulid", v, m)
  BY <1>2, FormIs
<1> QED BY <1>1, <1>3, <1>4, <1>5, GoodOrError

\* A bytea read: its length is checked by the cast ...
LEMMA ByteaOutcome ==
  ASSUME NEW v, NEW m, AsBytea("ulid", v, m), NEW r,
         r = IF Len(v) = SIZE["ulid"] THEN Ok(v) ELSE Err([is |-> "bytea length"])
  PROVE  Outcome("ulid", "ulid", v, r, m)
<1> DEFINE good == Len(v) = SIZE["ulid"]
<1>1. "bytea length" \in Errors
  BY DEF Errors
<1>2. /\ r = IF good THEN Ok(v) ELSE Err([is |-> "bytea length"])
      /\ good => AsUlid("ulid", v, m)
      /\ ~ good => m = NoId
  BY ByteaStands
<1>3. good \in BOOLEAN
  OBVIOUS
<1> HIDE DEF good
<1>4. good => StandsFor("ulid", "ulid", v, m)
  BY <1>2, FormIs
<1> QED BY <1>1, <1>2, <1>3, <1>4, GoodOrError

\* Lengths compared.
LEMMA Trichotomy ==
  ASSUME NEW a \in Nat, NEW b \in Nat
  PROVE  /\ a < b => a # b
         /\ a > b => a # b /\ ~ (a < b)
         /\ ~ (a < b) /\ ~ (a > b) => a = b
  BY SMT

\* ... and from both sides by ulid_recv.
LEMMA RecvOutcome ==
  ASSUME NEW v, NEW m, AsBytea("ulid", v, m), NEW r,
         r = IF Len(v) < SIZE["ulid"] THEN Err([is |-> "insufficient data"])
             ELSE IF Len(v) > SIZE["ulid"] THEN Err([is |-> "trailing data"])
             ELSE Ok(SubSeq(v, 1, SIZE["ulid"]))
  PROVE  Outcome("ulid", "ulid", v, r, m)
<1> DEFINE n == Len(v)
           size == SIZE["ulid"]
           kind == IF n < size THEN "insufficient data" ELSE "trailing data"
           good == n = size
<1>1. /\ kind \in Errors
      /\ kind \notin {"DecodeInvalidLen", "DecodeInvalidAscii", "DecodeOverflow"}
  BY DEF Errors
<1>2. /\ n \in Nat
      /\ good => AsUlid("ulid", v, m) /\ SubSeq(v, 1, size) = v
      /\ ~ good => m = NoId
  BY ByteaStands
<1>3. size \in Nat /\ n \in Nat
  BY <1>2, UlidLayout
<1>5. n < size => ~ good
  BY <1>3, Trichotomy
<1>6. n > size => ~ good /\ ~ (n < size)
  BY <1>3, Trichotomy
<1>7. ~ (n < size) /\ ~ (n > size) => good
  BY <1>3, Trichotomy
<1>8. r = IF good THEN Ok(v) ELSE Err([is |-> kind])
  <2> HIDE DEF good
  <2>1. CASE n < size
    <3>1. r = Err([is |-> "insufficient data"]) /\ kind = "insufficient data" /\ ~ good
      BY <2>1, <1>5
    <3> QED BY <3>1
  <2>2. CASE n > size
    <3>1. r = Err([is |-> "trailing data"]) /\ kind = "trailing data" /\ ~ good
      BY <2>2, <1>6
    <3> QED BY <3>1
  <2>3. CASE ~ (n < size) /\ ~ (n > size)
    <3>1. r = Ok(SubSeq(v, 1, size)) /\ good
      BY <2>3, <1>7
    <3> QED BY <3>1, <1>2
  <2> QED BY <2>1, <2>2, <2>3
<1>9. good \in BOOLEAN
  OBVIOUS
<1> HIDE DEF good, kind, n, size
<1>10. good => StandsFor("ulid", "ulid", v, m)
  BY <1>2, FormIs
<1> QED BY <1>1, <1>2, <1>8, <1>9, <1>10, GoodOrError

\* The actions of the Postgres extension keep the invariant.
LEMMA PgSteps ==
  ASSUME Journey,
         \/ FromInner \/ ToInner \/ IntoDatum \/ FromDatum \/ unbox_arg_unchecked \/ box_into
         \/ ulid_in \/ text_to_ulid \/ ulid_out \/ ulid_to_text
         \/ ulid_send \/ ulid_recv \/ ulid_to_bytea \/ bytea_to_ulid
         \/ CastToTimestamptz \/ CastFromTimestamptz
  PROVE  Journey'
<1> DEFINE t == "ulid"
<1>2. "None" \in Errors /\ "ULID argument must not be NULL" \in Errors
  BY DEF Errors
<1>3. CASE FromInner
  <2> DEFINE b == to_be_bytes(value, SIZE["ulid"])
  <2>1. Moves(t, "id", "ulid", Ok(b), meaning)
    BY <1>3 DEF FromInner, Convert, Moves, from_inner
  <2>2. AsId(t, value, meaning) => AsUlid(t, b, meaning)
    BY InnerStands DEF AsId
  <2> HIDE DEF b
  <2>3. StandsFor(t, "id", value, meaning) => StandsFor(t, "ulid", b, meaning)
    BY <2>2, FormIs
  <2> QED BY <2>1, <2>3, OkCarries, Conversion
<1>4. CASE ToInner
  <2>1. Moves(t, "ulid", "id", Ok(from_be_bytes(value)), meaning)
    BY <1>4 DEF ToInner, Convert, Moves, to_inner
  <2>2. AsUlid(t, value, meaning) => AsId(t, from_be_bytes(value), meaning)
    BY UlidStands DEF AsId
  <2>3. StandsFor(t, "ulid", value, meaning) => StandsFor(t, "id", from_be_bytes(value), meaning)
    BY <2>2, FormIs
  <2> QED BY <2>1, <2>3, OkCarries, Conversion
<1>5. CASE IntoDatum \/ box_into
  <2>1. Moves(t, "ulid", "datum", Ok(value), meaning)
    BY <1>5 DEF IntoDatum, box_into, Convert, Moves, into_datum
  <2>2. StandsFor(t, "ulid", value, meaning) => StandsFor(t, "datum", value, meaning)
    BY SentStands, FormIs
  <2> QED BY <2>1, <2>2, OkCarries, Conversion
<1>6. CASE FromDatum
  <2> DEFINE r == IF value = Null THEN Err([is |-> "None"]) ELSE Ok(value)
  <2>1. Moves(t, "datum", "ulid", r, meaning)
    BY <1>6 DEF FromDatum, Convert, Moves, from_polymorphic_datum
  <2>2. Carries(t, "datum", "ulid", value, r, meaning, meaning)
    BY <1>2, DatumOutcome, FormIs DEF Carries
  <2> HIDE DEF r
  <2> QED BY <2>1, <2>2, Conversion
<1>7. CASE unbox_arg_unchecked
  <2> DEFINE e == [is |-> "ULID argument must not be NULL"]
             q == IF value = Null THEN Err([is |-> "None"]) ELSE Ok(value)
             r == IF value = Null THEN Err(e) ELSE Ok(value)
  <2>1. Moves(t, "datum", "ulid", IF q.ok THEN q ELSE Err(e), meaning)
    BY <1>7 DEF unbox_arg_unchecked, Convert, Moves, from_polymorphic_datum
  <2>2. (IF q.ok THEN q ELSE Err(e)) = r
    <3> HIDE DEF e
    <3> QED BY Results
  <2>3. Carries(t, "datum", "ulid", value, r, meaning, meaning)
    BY <1>2, DatumOutcome, FormIs DEF Carries
  <2> HIDE DEF q, r
  <2> QED BY <2>1, <2>2, <2>3, Conversion
<1>8. CASE ulid_in \/ text_to_ulid
  <2>1. Moves(t, "text", "ulid", Parsed(value), meaning)
    BY <1>8 DEF ulid_in, text_to_ulid, Convert, Moves
  <2>2. Carries(t, "text", "ulid", value, Parsed(value), meaning, meaning)
    BY ParsedOutcome, FormIs DEF Carries
  <2> QED BY <2>1, <2>2, Conversion
<1>9. CASE ulid_out \/ ulid_to_text
  <2>1. Moves(t, "ulid", "text", Shown(value), meaning)
    BY <1>9 DEF ulid_out, ulid_to_text, Convert, Moves
  <2>2. Carries(t, "ulid", "text", value, Shown(value), meaning, meaning)
    BY ShownOutcome, FormIs DEF Carries
  <2> QED BY <2>1, <2>2, Conversion
<1>10. CASE ulid_send \/ ulid_to_bytea
  <2>1. Moves(t, "ulid", "bytea", Ok(value), meaning)
    BY <1>10 DEF ulid_send, ulid_to_bytea, Convert, Moves
  <2>2. StandsFor(t, "ulid", value, meaning) => StandsFor(t, "bytea", value, meaning)
    BY SentStands, FormIs
  <2> QED BY <2>1, <2>2, OkCarries, Conversion
<1>11. CASE ulid_recv
  <2> DEFINE r == IF Len(value) < SIZE["ulid"] THEN Err([is |-> "insufficient data"])
                  ELSE IF Len(value) > SIZE["ulid"] THEN Err([is |-> "trailing data"])
                  ELSE Ok(SubSeq(value, 1, SIZE["ulid"]))
  <2>1. Moves(t, "bytea", "ulid", r, meaning)
    BY <1>11 DEF ulid_recv, Convert, Moves
  <2>2. Carries(t, "bytea", "ulid", value, r, meaning, meaning)
    BY RecvOutcome, FormIs DEF Carries
  <2> HIDE DEF r
  <2> QED BY <2>1, <2>2, Conversion
<1>12. CASE bytea_to_ulid
  <2> DEFINE r == IF Len(value) = SIZE["ulid"] THEN Ok(value) ELSE Err([is |-> "bytea length"])
  <2>1. Moves(t, "bytea", "ulid", r, meaning)
    BY <1>12 DEF bytea_to_ulid, Convert, Moves
  <2>2. Carries(t, "bytea", "ulid", value, r, meaning, meaning)
    BY ByteaOutcome, FormIs DEF Carries
  <2> HIDE DEF r
  <2> QED BY <2>1, <2>2, Conversion
<1>13. CASE CastToTimestamptz
  <2> DEFINE x == PgMicros(timestamp(meaning))
             n == Earliest(timestamp(meaning))
  <2>1. Moves(t, "ulid", "timestamptz", ulid_to_timestamptz(value), n)
    BY <1>13 DEF CastToTimestamptz, Convert, Moves, Earliest
  <2>2. ASSUME AsUlid(t, value, meaning)
        PROVE  ulid_to_timestamptz(value) = Ok(x) /\ AsTimestamptz(t, x, n)
    BY <2>2, ToTimestamptz
  <2> HIDE DEF x, n
  <2>3. Carries(t, "ulid", "timestamptz", value, ulid_to_timestamptz(value), meaning, n)
    BY <2>2, FormIs, OkOutcome DEF Carries
  <2> QED BY <2>1, <2>3, Conversion
<1>14. CASE CastFromTimestamptz
  <2> DEFINE r == timestamptz_to_ulid(value)
  <2>1. Moves(t, "timestamptz", "ulid", r, CastMeaning(r, meaning))
    BY <1>14 DEF CastFromTimestamptz, Convert, Moves, CastMeaning
  <2>2. Carries(t, "timestamptz", "ulid", value, r, meaning, CastMeaning(r, meaning))
    BY CastOutcome, FormIs DEF Carries
  <2> HIDE DEF r
  <2> QED BY <2>1, <2>2, Conversion
<1> QED BY <1>3, <1>4, <1>5, <1>6, <1>7, <1>8, <1>9, <1>10, <1>11, <1>12, <1>13, <1>14

-----------------------------------------------------------------------------
(***************************************************************************)
(* The invariant is inductive.                                             *)
(***************************************************************************)

\* However an id arrives, it stands for what it denotes.
LEMMA JourneyInit == Init => Journey
<1> SUFFICES ASSUME Init PROVE Journey
  BY SMT
<1>1. "ulid" \in Types
  BY UlidLayout
<1>2. CASE FormsInit
  <2>1. ty \in Types /\ meaning = Denotes(ty, form, value)
    BY <1>2 DEF FormsInit
  <2>2. CASE form = "text" /\ value \in Texts[ty]
    <3>1. Texts[ty] \in SUBSET Seq(Bytes)
      BY <2>1, FormsAssumption
    <3>2. AsText(ty, value, meaning)
      BY <3>1, <2>1, <2>2 DEF AsText
    <3>3. StandsFor(ty, "text", value, meaning)
      BY <3>2, FormIs
    <3> QED BY <3>3, <2>1, <2>2 DEF Journey
  <2>3. CASE form = "int" /\ value \in Raws[ty]
    <3>1. Raws[ty] \subseteq 0 .. 2^(8 * SIZE[ty]) - 1
      BY <2>1, FormsAssumption
    <3>2. Denotes(ty, "int", value) = Valid(ty, value)
      BY DEF Denotes
    <3>3. AsInt(ty, value, meaning)
      BY <3>1, <3>2, <2>1, <2>3 DEF AsInt
    <3>4. StandsFor(ty, "int", value, meaning)
      BY <3>3, FormIs
    <3> QED BY <3>4, <2>1, <2>3 DEF Journey
  <2>4. CASE form = "time" /\ ty = "ulid" /\ value \in Times
    <3>1. Times \subseteq Int
      BY FormsAssumption
    <3>2. Denotes(ty, "time", value) = Unknown
      BY DEF Denotes
    <3>3. AsTime("ulid", value, meaning)
      BY <3>1, <3>2, <2>1, <2>4 DEF AsTime
    <3>4. StandsFor("ulid", "time", value, meaning)
      BY <3>3, FormIs
    <3> QED BY <3>4, <1>1, <2>4 DEF Journey
  <2> QED BY <1>2, <2>2, <2>3, <2>4 DEF FormsInit
<1>3. CASE gen_ulid
  <2>1. PICK ts \in Timestamps, rand \in Randoms : value = from_components(ts, rand)
    BY <1>3 DEF gen_ulid, Timestamps
  <2>2. ty = "ulid" /\ form = "id" /\ meaning = value
    BY <1>3 DEF gen_ulid
  <2>3. ts \in Nat /\ rand \in Nat
    BY EarliestOf, FormsAssumption
  <2>4. ValidId("ulid", from_components(ts, rand))
    BY <2>3, FromComponents
  <2>5. AsId("ulid", value, meaning)
    BY <2>1, <2>2, <2>4 DEF AsId
  <2>6. StandsFor("ulid", "id", value, meaning)
    BY <2>5, FormIs
  <2> QED BY <1>1, <2>2, <2>6 DEF Journey
<1>4. CASE ty = "ulid" /\ form = "datum" /\ value = Null /\ meaning = NoId
  <2>1. AsDatum("ulid", value, meaning)
    BY <1>4 DEF AsDatum
  <2>2. StandsFor("ulid", "datum", value, meaning)
    BY <2>1, FormIs
  <2> QED BY <1>1, <1>4, <2>2 DEF Journey
<1>5. CASE /\ ty = "ulid" /\ form = "bytea" /\ value \in Messages
           /\ meaning = IF Len(value) = SIZE[ty] THEN BigEndian(value) ELSE NoId
  <2>1. Messages \subseteq Seq(Bytes)
    BY PgAssumption
  <2>2. AsBytea("ulid", value, meaning)
    BY <1>5, <2>1 DEF AsBytea
  <2>3. StandsFor("ulid", "bytea", value, meaning)
    BY <2>2, FormIs
  <2> QED BY <1>1, <1>5, <2>3 DEF Journey
<1>6. CASE ty = "ulid" /\ form = "timestamptz" /\ value \in PgTimes /\ meaning = Unknown
  <2>1. value \in Int
    <3>1. I64_MAX \in Nat /\ value \in -I64_MAX - 1 .. I64_MAX
      BY <1>6, PgAssumption
    <3> QED BY <3>1, SMT
  <2>2. AsTimestamptz("ulid", value, meaning)
    BY <1>6, <2>1 DEF AsTimestamptz
  <2>3. StandsFor("ulid", "timestamptz", value, meaning)
    BY <2>2, FormIs
  <2> QED BY <1>1, <1>6, <2>3 DEF Journey
<1> QED BY <1>2, <1>3, <1>4, <1>5, <1>6 DEF Init

\* Every step keeps it.
LEMMA JourneyNext == Journey /\ [Next]_vars => Journey'
<1> SUFFICES ASSUME Journey, [Next]_vars PROVE Journey'
  BY SMT
<1>1. CASE UNCHANGED vars
  BY <1>1 DEF Journey, vars
<1>2. CASE FormsStep
  <2>1. CASE \/ SnowEncode \/ SnowEncodeToBuf \/ SnowShow \/ SnowToString \/ SnowParse
             \/ snow_as_int_serialize \/ snow_as_int_deserialize
             \/ snow_as_base32_serialize \/ snow_as_base32_deserialize
    BY <2>1, SnowSteps
  <2>2. CASE \/ UlidEncode \/ UlidEncodeToBuf \/ UlidShow \/ UlidToString \/ UlidParse
             \/ ulid_as_int_serialize \/ ulid_as_int_deserialize
             \/ ulid_as_base32_serialize \/ ulid_as_base32_deserialize
    BY <2>2, UlidSteps
  <2>3. CASE IntoValid
    BY <2>3, IntoValidStep
  <2>4. CASE ToTimestamp \/ FromTimestamp \/ ToDatetime \/ FromDatetime
    BY <2>4, TimeSteps
  <2> QED BY <1>2, <2>1, <2>2, <2>3, <2>4 DEF FormsStep
<1>3. CASE \/ FromInner \/ ToInner \/ IntoDatum \/ FromDatum \/ unbox_arg_unchecked \/ box_into
           \/ ulid_in \/ text_to_ulid \/ ulid_out \/ ulid_to_text
           \/ ulid_send \/ ulid_recv \/ ulid_to_bytea \/ bytea_to_ulid
           \/ CastToTimestamptz \/ CastFromTimestamptz
  BY <1>3, PgSteps
<1> QED BY <1>1, <1>2, <1>3 DEF Next

\* Each form an id takes stands for the id, and each error for none.
THEOREM Journeys == Spec => []Journey
  BY JourneyInit, JourneyNext, PTL DEF Spec

-----------------------------------------------------------------------------
(***************************************************************************)
(* The properties.                                                         *)
(***************************************************************************)

\* An id is refused just when it denotes none, by every decoder, and the error
\* names the length, the first invalid byte or the reserved bits.
THEOREM Refusals == Spec => []ErrorsAreRight
<1>1. Journey => ErrorsAreRight
  <2> SUFFICES ASSUME Journey, form = "error" PROVE ErrorsAreRight
    BY DEF ErrorsAreRight
  <2>1. AsError(ty, value, meaning)
    BY FormIs DEF Journey
  <2> QED BY <2>1 DEF AsError, RightError, ErrorsAreRight, Width
<1> QED BY <1>1, Journeys, PTL

\* Every character is one of the alphabet.
OfAlphabet(text) == \A i \in DOMAIN text : \E d \in 1 .. 32 : ENCODE_LUT[d] = text[i]

\* Those of a canonical text are.
LEMMA CanonicalChars ==
  ASSUME NEW t \in Types, NEW id, ValidId(t, id)
  PROVE  OfAlphabet(Canonical(id, Width(t)))
<1> DEFINE n == Width(t)
           c == Canonical(id, n)
           D(k) == Place(id, 32, Powers(5, n), n, k)
<1>1. Sized(SIZE[t]) /\ n = base32_size(SIZE[t]) /\ id \in Nat
  BY TypeSizes DEF ValidId
<1>2. c \in [1 .. n -> Bytes] /\ CharsOf(c, id, n, 32)
  BY <1>1, CanonicalText, ZenonT(40)
<1> HIDE DEF c, n
<1>3. ASSUME NEW i \in 1 .. n
      PROVE  D(i) \in 0 .. 31 /\ ENCODE_LUT[D(i) + 1] = c[i]
  BY <1>2, SMT DEF CharsOf
<1> HIDE DEF D
<1>4. ASSUME NEW i \in 1 .. n PROVE \E d \in 1 .. 32 : ENCODE_LUT[d] = c[i]
  <2>1. D(i) + 1 \in 1 .. 32 /\ ENCODE_LUT[D(i) + 1] = c[i]
    BY <1>3, SMT
  <2> QED BY <2>1, ZenonT(40)
<1>5. DOMAIN c = 1 .. n
  BY <1>2
<1>6. OfAlphabet(c)
  BY <1>4, <1>5 DEF OfAlphabet
<1> QED BY <1>6 DEF c, n

\* What as_str takes for UTF-8 unchecked is of the alphabet.
THEOREM BuffersAreText == Spec => []BufferIsText
<1>1. Journey => BufferIsText
  <2> SUFFICES ASSUME Journey, form \in {"formatter", "formatter ref"} PROVE BufferIsText
    BY DEF BufferIsText
  <2>1. ty \in Types /\ AsBuffer(ty, value, meaning)
    BY FormIs DEF Journey
  <2>2. ValidId(ty, meaning) /\ value = Canonical(meaning, Width(ty))
    BY <2>1 DEF AsBuffer
  <2>3. OfAlphabet(Canonical(meaning, Width(ty)))
    BY <2>1, <2>2, CanonicalChars
  <2> QED BY <2>2, <2>3 DEF BufferIsText, OfAlphabet
<1> QED BY <1>1, Journeys, PTL

\* An id's own decoder and formatter, by the type.
LEMMA ByType ==
  ASSUME ty \in Types
  PROVE  /\ \A id, text : eq(id, text) <=> Checked(ty, inner_decode(ty, text)) = Ok(id)
         /\ \A id : ValidId(ty, id) => formatter(id) = Canonical(id, Width(ty))
         /\ \A buf, text : formatter_eq(buf, text) <=> buf = text
<1>1. ty = "snowflake" \/ ty = "ulid"
  BY DEF Types
<1>2. \A x, y : Ok(x) = Ok(y) <=> x = y
  BY Results
<1>3. \A id, text : eq(id, text) <=> Checked(ty, inner_decode(ty, text)) = Ok(id)
  BY <1>1 DEF eq, ulid_eq, snow_eq, ulid_decode, snow_decode
<1>4. \A id : ValidId(ty, id) => formatter(id) = Canonical(id, Width(ty))
  BY <1>1, Formatters DEF formatter
<1>5. \A buf, text : formatter_eq(buf, text) <=> buf = text
  BY <1>1, <1>2 DEF formatter_eq, ulid_formatter_eq, ulid_formatter_ref_eq,
     snow_formatter_eq, snow_formatter_ref_eq, ulid_formatter_str, ulid_formatter_ref_str,
     snow_formatter_str, snow_formatter_ref_str
<1> QED BY <1>3, <1>4, <1>5

\* In upper case, without aliases and with no bit above the integer's.
Plain(t, text) ==
  /\ OfAlphabet(text)
  /\ Digit(text[1]) < 2^(5 - (5 * base32_size(SIZE[t]) - 8 * SIZE[t]))

\* Such a text is the canonical one of the number it writes.
LEMMA PlainText ==
  ASSUME NEW t \in Types, NEW text \in Seq(Bytes), WellFormed(t, text)
  PROVE  (Canonical(Number(t, text), Width(t)) = text) <=> Plain(t, text)
<1> DEFINE size == SIZE[t]
           n == base32_size(size)
           N == Number(t, text)
<1>1. Sized(size) /\ n \in Nat /\ n = Width(t)
  BY TypeSizes DEF Width
<1>2. Len(text) = n /\ \A i \in DOMAIN text : Digits(text[i]) # {}
  BY DEF WellFormed
<1>3. text \in [1 .. n -> Bytes] /\ DOMAIN text = 1 .. n
  <2> HIDE DEF n
  <2> QED BY <1>1, <1>2, SMT
<1>4. AllDigits(text, n)
  BY <1>2, <1>3, ZenonT(40) DEF AllDigits
<1>5. N = Shifted(TextDigits(text, n), 32, n) % 2^(8 * size)
  BY <1>1, <1>3, <1>4, NumberIs, SMTT(30)
<1>6. Gives(text, n, size, N)
  BY <1>5 DEF Gives
<1> HIDE DEF N
<1>7. (Canonical(N, n) = text) <=> PlainAt(text, n, size)
  BY <1>1, <1>3, <1>4, <1>6, OneText
<1> QED BY <1>1, <1>3, <1>7 DEF Plain, PlainAt, OfAlphabet, N

\* Every text of an id equals the id, and its formatter equals just the
\* canonical one, at every size of an id.
THEOREM Canonicity == Spec => []OneCanonicalText
<1>1. Journey => OneCanonicalText
  <2> SUFFICES ASSUME Journey, form = "text", meaning # NoId PROVE OneCanonicalText
    BY DEF OneCanonicalText
  <2> DEFINE m == meaning
  <2>1. ty \in Types /\ AsText(ty, value, m)
    BY FormIs DEF Journey
  <2>2. value \in Seq(Bytes) /\ m = Denotes(ty, "text", value)
    BY <2>1 DEF AsText
  <2>3. Parses(ty, value, Checked(ty, inner_decode(ty, value)))
    BY <2>1, <2>2, CheckedText
  <2>4. ValidId(ty, m) /\ Checked(ty, inner_decode(ty, value)) = Ok(m)
    BY <2>2, <2>3 DEF Parses
  <2>5. eq(m, value)
    BY <2>1, <2>4, ByType
  <2>6. formatter_eq(formatter(m), value) <=> Canonical(m, Width(ty)) = value
    BY <2>1, <2>4, ByType
  <2>7. WellFormed(ty, value) /\ m = Number(ty, value)
    BY <2>2, TextDenotes DEF Valid
  <2>8. (Canonical(Number(ty, value), Width(ty)) = value) <=> Plain(ty, value)
    BY <2>1, <2>2, <2>7, PlainText
  <2>9. formatter_eq(formatter(m), value) <=> Plain(ty, value)
    BY <2>6, <2>7, <2>8
  <2> QED BY <2>5, <2>9 DEF OneCanonicalText, Plain, OfAlphabet
<1> QED BY <1>1, Journeys, PTL

\* Texts and stored bytes sort as the ids do, at every size of an id.
THEOREM Ordering == Spec => []OrderPreserved
<1>1. Journey => OrderPreserved
  <2> SUFFICES ASSUME Journey, form = "id", is_valid(ty, value + 1) PROVE OrderPreserved
    BY DEF OrderPreserved
  <2> DEFINE size == SIZE[ty]
             x == value
             y == value + 1
  <2>1. ty \in Types /\ AsId(ty, x, meaning)
    BY FormIs DEF Journey
  <2>2. ValidId(ty, x) /\ x \in Nat
    BY <2>1 DEF AsId, ValidId
  <2>3. y \in Nat /\ x < y
    BY <2>2, SMT
  <2>4. ValidId(ty, y)
    BY <2>3 DEF ValidId
  <2>5. x \in 0 .. 2^(8 * size) - 1 /\ y \in 0 .. 2^(8 * size) - 1
    BY <2>1, <2>2, <2>4, ValidFits
  <2>6. Sized(size) /\ Width(ty) = base32_size(size)
    BY <2>1, TypeSizes
  <2>7. formatter(x) = Canonical(x, Width(ty)) /\ formatter(y) = Canonical(y, Width(ty))
    BY <2>1, <2>2, <2>4, ByType, ZenonT(40)
  <2> HIDE DEF y
  <2>8. LexLess(Canonical(x, Width(ty)), Canonical(y, Width(ty)))
    BY <2>3, <2>5, <2>6, TextOrder
  <2>9. LexLess(to_be_bytes(x, size), to_be_bytes(y, size))
    BY <2>3, <2>5, <2>6, BytesOrder
  <2> QED BY <2>7, <2>8, <2>9 DEF OrderPreserved, y
<1> QED BY <1>1, Journeys, PTL

\* Whatever the form, the id is a number, or none.
LEMMA MeaningIsInt ==
  ASSUME Journey
  PROVE  meaning \in Int
<1> DEFINE m == meaning
<1>1. NoId \in Int /\ Unknown \in Int /\ Nat \subseteq Int
  BY NoIdIsNone, SMT
<1>2. ASSUME NEW t, ValidId(t, m) PROVE m \in Int
  BY <1>1, <1>2 DEF ValidId
<1>3. ASSUME NEW ts \in Timestamps, m = Earliest(ts) PROVE m \in Int
  BY <1>1, <1>3, EarliestOf
<1>4. ty \in Types /\ StandsFor(ty, form, value, meaning)
  BY DEF Journey
<1>5. ASSUME AsId(ty, value, m) \/ AsBuffer(ty, value, m) PROVE m \in Int
  BY <1>2, <1>5 DEF AsId, AsBuffer
<1>6. ASSUME AsText(ty, value, m) PROVE m \in Int
  <2>1. value \in Seq(Bytes) /\ m = Denotes(ty, "text", value)
    BY <1>6 DEF AsText
  <2>2. Parses(ty, value, Checked(ty, inner_decode(ty, value)))
    BY <1>4, <2>1, CheckedText
  <2>3. m = NoId \/ ValidId(ty, m)
    BY <2>1, <2>2 DEF Parses
  <2> QED BY <1>1, <1>2, <2>3
<1>7. ASSUME AsInt(ty, value, m) PROVE m \in Int
  <2>1. m = Valid(ty, value) /\ value \in 0 .. 2^(8 * SIZE[ty]) - 1
    BY <1>7 DEF AsInt
  <2>2. value \in Int
    <3> DEFINE k == 2^(8 * SIZE[ty])
    <3>1. value \in 0 .. k - 1 /\ k \in Nat \ {0}
      BY <1>4, <2>1, TypeSizes
    <3> HIDE DEF k
    <3> QED BY <3>1, SMT
  <2> QED BY <1>1, <2>1, <2>2 DEF Valid
<1>8. ASSUME AsTimestamp(ty, value, m) PROVE m \in Int
  BY <1>3, <1>8 DEF AsTimestamp
<1>9. ASSUME AsTime(ty, value, m) \/ AsTimestamptz(ty, value, m) PROVE m \in Int
  BY <1>1, <1>3, <1>9 DEF AsTime, AsTimestamptz
<1>10. ASSUME AsUlid(ty, value, m) PROVE m \in Int
  <2>1. ty = "ulid"
    BY <1>10 DEF AsUlid
  <2> QED BY <1>2, <1>10, <2>1, UlidStands
<1>11. ASSUME AsDatum(ty, value, m) PROVE m \in Int
  BY <1>1, <1>10, <1>11 DEF AsDatum
<1>12. ASSUME AsBytea(ty, value, m) PROVE m \in Int
  <2>1. ty = "ulid"
    BY <1>12 DEF AsBytea
  <2>2. AsUlid(ty, value, m) \/ m = NoId
    BY <1>12, <2>1, ByteaStands, ZenonT(40)
  <2> QED BY <1>1, <1>10, <2>2
<1>13. ASSUME AsError(ty, value, m) PROVE m \in Int
  BY <1>1, <1>13 DEF AsError
<1>14. form \in {"id", "formatter", "formatter ref", "string", "text", "int", "timestamp",
                 "time", "timestamptz", "ulid", "datum", "bytea", "error"}
  BY <1>4 DEF StandsFor
<1>15. \/ AsId(ty, value, m) \/ AsBuffer(ty, value, m) \/ AsText(ty, value, m)
       \/ AsInt(ty, value, m) \/ AsTimestamp(ty, value, m) \/ AsTime(ty, value, m)
       \/ AsTimestamptz(ty, value, m) \/ AsUlid(ty, value, m) \/ AsDatum(ty, value, m)
       \/ AsBytea(ty, value, m) \/ AsError(ty, value, m)
  BY <1>4, <1>14 DEF StandsFor
<1> QED BY <1>5, <1>6, <1>7, <1>8, <1>9, <1>10, <1>11, <1>12, <1>13, <1>15

\* Each value is of its form.
LEMMA Typed ==
  ASSUME Journey
  PROVE  TypeOK
<1> DEFINE m == meaning
<1>1. ty \in Types /\ StandsFor(ty, form, value, m) /\ m \in Int
  BY MeaningIsInt DEF Journey
<1>2. Nat \subseteq Int
  BY SMT
<1>3. CASE form = "id"
  <2>1. value \in Nat /\ is_valid(ty, value)
    BY <1>1, <1>3, FormIs DEF AsId, ValidId
  <2> QED BY <1>1, <1>3, <2>1 DEF TypeOK
<1>4. CASE form = "int"
  <2>1. value \in 0 .. 2^(8 * SIZE[ty]) - 1
    BY <1>1, <1>4, FormIs DEF AsInt
  <2> QED BY <1>1, <1>4, <2>1 DEF TypeOK
<1>5. CASE form \in {"timestamp", "time", "timestamptz"}
  <2>1. AsTimestamp(ty, value, m) \/ AsTime(ty, value, m) \/ AsTimestamptz(ty, value, m)
    BY <1>1, <1>5, FormIs
  <2>2. value \in Int
    BY <1>2, <2>1, EarliestOf DEF AsTimestamp, AsTime, AsTimestamptz
  <2> QED BY <1>1, <1>5, <2>2 DEF TypeOK
<1>6. CASE form \in {"formatter", "formatter ref", "text", "string", "bytea"}
  <2>1. AsBuffer(ty, value, m) \/ AsText(ty, value, m) \/ AsBytea(ty, value, m)
    BY <1>1, <1>6, FormIs
  <2>2. value \in Seq(Bytes)
    BY <1>1, <2>1, BufferIsItsText DEF AsText, AsBytea
  <2> QED BY <1>1, <1>6, <2>2 DEF TypeOK
<1>7. CASE form = "ulid"
  <2>1. value \in [1 .. SIZE["ulid"] -> Bytes]
    BY <1>1, <1>7, FormIs, ZenonT(40) DEF AsUlid, UlidBytes
  <2> QED BY <1>1, <1>7, <2>1 DEF TypeOK
<1>8. CASE form = "datum"
  <2>1. value \in [1 .. SIZE["ulid"] -> Bytes] \cup {Null}
    BY <1>1, <1>8, FormIs DEF AsDatum, AsUlid, UlidBytes
  <2> QED BY <1>1, <1>8, <2>1 DEF TypeOK
<1>9. CASE form = "error"
  <2>1. value.error.is \in Errors
    BY <1>1, <1>9, FormIs DEF AsError, RightError
  <2> QED BY <1>1, <1>9, <2>1 DEF TypeOK
<1>10. form \in {"id", "formatter", "formatter ref", "string", "text", "int", "timestamp",
                 "time", "timestamptz", "ulid", "datum", "bytea", "error"}
  BY <1>1 DEF StandsFor
<1> QED BY <1>3, <1>4, <1>5, <1>6, <1>7, <1>8, <1>9, <1>10

\* No road through the library's forms or those of Postgres changes an id, and
\* ulid_is_valid accepts just the texts that the parser does.
THEOREM Meaning == Spec => []PgMeaningKept
<1>1. Journey => PgMeaningKept
  <2> SUFFICES ASSUME Journey PROVE PgMeaningKept
    BY SMT
  <2>1. ty \in Types /\ StandsFor(ty, form, value, meaning)
    BY DEF Journey
  <2>2. MeaningKept
    <3>1. ASSUME form = "id" PROVE AsId(ty, value, meaning)
      BY <2>1, <3>1, FormIs
    <3> QED BY <3>1 DEF MeaningKept, AsId
  <2>3. ASSUME form \in {"ulid", "datum"}, value # Null
        PROVE  BigEndian(value) = meaning
    <3>1. AsUlid(ty, value, meaning) \/ AsDatum(ty, value, meaning)
      BY <2>1, <2>3, FormIs
    <3> QED BY <2>3, <3>1 DEF AsUlid, AsDatum
  <2>4. ASSUME form = "text", ty = "ulid"
        PROVE  ulid_is_valid(value) <=> meaning # NoId
    <3> DEFINE r == Checked("ulid", inner_decode("ulid", value))
    <3>1. AsText("ulid", value, meaning)
      BY <2>1, <2>4, FormIs
    <3>2. value \in Seq(Bytes) /\ meaning = Denotes("ulid", "text", value) /\ "ulid" \in Types
      BY <3>1, UlidLayout DEF AsText
    <3>3. Parses("ulid", value, r)
      BY <3>2, CheckedText
    <3>4. ulid_is_valid(value) <=> r.ok
      BY DEF ulid_is_valid, ulid_decode
    <3> HIDE DEF r
    <3>5. meaning # NoId => r = Ok(meaning)
      BY <3>2, <3>3 DEF Parses
    <3>6. meaning = NoId => r.ok = FALSE
      BY <3>2, <3>3 DEF Parses
    <3>7. meaning # NoId => r.ok = TRUE
      BY <3>5, Results
    <3> QED BY <3>4, <3>6, <3>7
  <2> QED BY <2>2, <2>3, <2>4, Typed DEF PgMeaningKept
<1> QED BY <1>1, Journeys, PTL

\* The timestamptz v is in the millisecond ts of a ULID, `rest' after its start.
Within(v, ts, rest) ==
  /\ rest \in 0 .. MICROS_PER_MS - 1
  /\ v = PgMicros(ts) + rest /\ v - rest = PgMicros(ts)

\* Each that is in range is in one.
LEMMA CutTime ==
  ASSUME NEW v \in Int,
         v + PG_EPOCH_OFFSET_MICROS \in 0 .. (TIMESTAMP_MASK + 1) * MICROS_PER_MS - 1
  PROVE  \E ts \in Timestamps : Within(v, ts, (v + PG_EPOCH_OFFSET_MICROS) % MICROS_PER_MS)
<1> DEFINE x == v + PG_EPOCH_OFFSET_MICROS
<1> DEFINE M == MICROS_PER_MS
           K == TIMESTAMP_MASK
           F == PG_EPOCH_OFFSET_MICROS
           ts == x \div M
           rest == x % M
<1>1. M \in Nat \ {0} /\ K \in Nat /\ K + 1 \in Nat /\ F \in Nat
  BY PgConstants, SMT
<1>2. x = v + F /\ x \in 0 .. (K + 1) * M - 1
  OBVIOUS
<1> HIDE DEF x
<1>3. PgMicros(ts) = ts * M - F /\ Timestamps = 0 .. K
  BY DEF PgMicros, Timestamps
<1> HIDE DEF M, K, F
<1>4. x \in Nat /\ x < (K + 1) * M
  BY <1>1, <1>2, SMT
<1>5. ts \in Nat /\ rest \in 0 .. M - 1 /\ x = ts * M + rest
  BY <1>1, <1>4, Parts
<1>6. ts < K + 1
  BY <1>1, <1>4, DivLess
<1> HIDE DEF ts, rest
<1>7. ts \in 0 .. K
  BY <1>1, <1>5, <1>6, SMTT(30)
<1>8. rest \in Nat /\ ts * M \in Nat
  BY <1>1, <1>5, SMT
<1>9. v = (ts * M - F) + rest /\ v - rest = ts * M - F
  <2> DEFINE y == ts * M
  <2>1. y \in Nat /\ x = y + rest
    BY <1>5, <1>8
  <2> HIDE DEF y
  <2>2. v = (y - F) + rest /\ v - rest = y - F
    BY <1>1, <1>2, <1>8, <2>1, SMTT(30)
  <2> QED BY <2>2 DEF y
<1>10. ts \in Timestamps /\ v = PgMicros(ts) + rest /\ v - rest = PgMicros(ts)
  BY <1>3, <1>7, <1>9
<1> QED BY <1>5, <1>10 DEF Within, rest, M, x

\* The ids below the first one of a millisecond are those of earlier ones.
LEMMA BelowEarliest ==
  ASSUME NEW id, ValidId("ulid", id), NEW ts \in Timestamps
  PROVE  (id < Earliest(ts)) <=> (PgMicros(timestamp(id)) < PgMicros(ts))
<1> DEFINE A == 2^TIMESTAMP_BITS
           B == 2^RANDOM_BITS
           M == MICROS_PER_MS
           F == PG_EPOCH_OFFSET_MICROS
           q == timestamp(id)
<1>1. A \in Nat \ {0} /\ B \in Nat \ {0} /\ M \in Nat \ {0} /\ F \in Nat
  BY UlidLayout, PgConstants
<1>2. q \in Nat /\ q = id \div B /\ id \in Nat
  BY TimestampOf DEF ValidId
<1>3. ts \in Nat /\ ts % A = ts
  BY EarliestOf
<1>4. Earliest(ts) = (ts % A) * B + (0 % B)
  BY DEF Earliest, from_components
<1>5. PgMicros(q) = q * M - F /\ PgMicros(ts) = ts * M - F
  BY DEF PgMicros
<1> HIDE DEF A, B, M, F, q
<1>6. 0 % B = 0 /\ ts * B \in Nat
  BY <1>1, <1>3, SMT
<1>7. Earliest(ts) = ts * B
  <2>1. (ts % A) * B + (0 % B) = ts * B
    BY <1>3, <1>6, SMT
  <2> QED BY <2>1, <1>4
<1>8. id < ts * B <=> id \div B < ts
  BY <1>1, <1>2, <1>3, DivLess
<1>9. q < ts <=> q * M - F < ts * M - F
  <2>1. ASSUME q < ts PROVE q * M < ts * M
    <3>1. (q + 1) * M <= ts * M
      BY <1>1, <1>2, <1>3, <2>1, SMTT(30)
    <3> QED BY <3>1, <1>1, <1>2, <1>3, SMTT(30)
  <2>2. ASSUME ~ (q < ts) PROVE ~ (q * M < ts * M)
    BY <1>1, <1>2, <1>3, <2>2, SMTT(30)
  <2>3. q * M \in Nat /\ ts * M \in Nat
    BY <1>1, <1>2, <1>3, SMT
  <2> DEFINE a == q * M
             b == ts * M
  <2> HIDE DEF a, b
  <2>4. a \in Nat /\ b \in Nat
    BY <2>3 DEF a, b
  <2>5. (a < b) <=> (a - F < b - F)
    BY <2>4, <1>1, SMT
  <2>6. q < ts <=> a < b
    BY <2>1, <2>2 DEF a, b
  <2> QED BY <2>5, <2>6 DEF a, b
<1> QED BY <1>2, <1>5, <1>7, <1>8, <1>9 DEF q

\* The bounds of a scan: for every timestamptz within the ULID's range, and for
\* every id whatever, the order of the index agrees with that of the times.
ScanOf(v, micros, id) ==
  LET bound == timestamptz_to_ulid(v)
      ulid == from_inner(id).value
      own == ulid_to_timestamptz(ulid)
  IN  /\ bound.ok /\ own.ok
      /\ LexLess(ulid, bound.value) <=> own.value < v - micros

\* They agree.
LEMMA ScanIsExact ==
  ASSUME NEW v \in Int, NEW ts \in Timestamps, NEW micros, Within(v, ts, micros),
         NEW id, ValidId("ulid", id)
  PROVE  ScanOf(v, micros, id)
<1> DEFINE size == SIZE["ulid"]
           low == Earliest(ts)
           b == to_be_bytes(low, size)
           u == to_be_bytes(id, size)
           own == PgMicros(timestamp(id))
<1>1. /\ micros \in 0 .. MICROS_PER_MS - 1
      /\ v = PgMicros(ts) + micros /\ v - micros = PgMicros(ts)
  BY DEF Within
<1>2. timestamptz_to_ulid(v) = Ok(b)
  BY <1>1, FromTimestamptz
<1>3. AsUlid("ulid", u, id)
  BY InnerStands
<1>4. ulid_to_timestamptz(u) = Ok(own)
  BY <1>3, ToTimestamptz
<1>5. ValidId("ulid", low)
  BY EarliestOf
<1>6. "ulid" \in Types /\ Sized(size)
  BY UlidLayout
<1>7. id \in 0 .. 2^(8 * size) - 1 /\ low \in 0 .. 2^(8 * size) - 1
  BY <1>5, <1>6, ValidFits
<1>8. (id < low) <=> (own < PgMicros(ts))
  BY BelowEarliest, ZenonT(40)
<1> HIDE DEF size, low, own
<1>9. LexLess(u, b) <=> id < low
  BY <1>6, <1>7, BytesOrder, SMTT(30)
<1> HIDE DEF u, b
<1>10. LexLess(u, b) <=> own < v - micros
  BY <1>1, <1>8, <1>9, ZenonT(40)
<1>11. from_inner(id) = Ok(u)
  BY DEF from_inner, u, size
<1>12. \A y : Ok(y).ok = TRUE /\ Ok(y).value = y
  BY Results
<1> QED BY <1>2, <1>4, <1>10, <1>11, <1>12 DEF ScanOf

\* An index scan from a timestamptz returns just the ids of its millisecond
\* and later.
THEOREM Scans == Spec => []ScanExact
<1>1. Journey => ScanExact
  <2> DEFINE x == value + PG_EPOCH_OFFSET_MICROS
  <2> SUFFICES ASSUME Journey, form = "timestamptz",
                      x \in 0 .. (TIMESTAMP_MASK + 1) * MICROS_PER_MS - 1,
                      NEW id \in Ulids
               PROVE  ScanOf(value, x % MICROS_PER_MS, id)
    BY DEF ScanExact, ScanOf
  <2>1. value \in Int
    <3>1. AsTimestamptz(ty, value, meaning)
      BY FormIs DEF Journey
    <3> QED BY <3>1 DEF AsTimestamptz
  <2>2. PICK ts \in Timestamps : Within(value, ts, x % MICROS_PER_MS)
    BY <2>1, CutTime
  <2>3. ValidId("ulid", id)
    <3> DEFINE k == 2^TIMESTAMP_BITS * 2^RANDOM_BITS
    <3>1. id \in 0 .. k - 1 /\ Range32("ulid") = k
      BY UlidLayout DEF Ulids
    <3>2. k \in Nat
      BY UlidLayout, SMT
    <3> HIDE DEF k
    <3>3. id \in Nat /\ id < k
      BY <3>1, <3>2, SMT
    <3> QED BY <3>1, <3>3 DEF ValidId, is_valid
  <2> QED BY <2>1, <2>2, <2>3, ScanIsExact
<1> QED BY <1>1, Journeys, PTL
=============================================================================
