--------------------------- MODULE HeightFieldProofs --------------------------
(***************************************************************************)
(* Proofs about what the scenario computes with, which has no state of its *)
(* own: decimal ratios (DecimalRatio), sums (Totals), rate profiles        *)
(* (RateProfile), and the grid of a boundary with the surfaces on it       *)
(* (Grid, HeightField).  For any boundary, kernel and settings: the        *)
(* operations on a surface keep it between floor and top and change its    *)
(* volume by exactly what was asked for, profiles are balanced and never   *)
(* fall, weights are whole, and a ratio is the decimal number it is of.    *)
(***************************************************************************)
EXTENDS HeightField, RateProfile, DecimalRatio, FiniteSetTheorems, SequenceTheorems,
        NaturalsInduction, WellFoundedInduction, TLAPS

-----------------------------------------------------------------------------
(* Quotients, and induction over a set of numbers, which follows from the  *)
(* order of the numbers being well-founded.                                *)

(* A set of numbers has a least one. *)
LEMMA LeastNumber ==
  ASSUME NEW S, S \subseteq Nat, S # {}
  PROVE  Min(S) \in S /\ \A n \in S : Min(S) <= n
<1>1. \E x \in S : \A y \in S : ~ (<<y, x>> \in OpToRel(<, Nat))
  BY WFMin, NatLessThanWellFounded
<1>2. PICK x \in S : \A y \in S : ~ (<<y, x>> \in OpToRel(<, Nat))
  BY <1>1
<1>3. \A y \in S : x <= y
  <2>1. ASSUME NEW y \in S, y < x PROVE FALSE
    <3>1. <<y, x>> \in OpToRel(<, Nat)
      BY <2>1 DEF OpToRel
    <3>2. QED
      BY <1>2, <3>1
  <2>2. QED
    BY <2>1
<1>4. QED
  BY <1>2, <1>3 DEF Min

(* Quotient and remainder. *)
LEMMA Quotient ==
  ASSUME NEW x \in Int, NEW y \in Nat \ {0}
  PROVE  /\ x \div y \in Int /\ x % y \in 0..(y - 1)
         /\ x = y * (x \div y) + (x % y)
         /\ x \in Nat => x \div y \in Nat
<1>1. x \div y \in Int /\ x % y \in 0..(y - 1) /\ x = y * (x \div y) + (x % y)
  OBVIOUS
<1>2. x \in Nat => x \div y \in Nat
  OBVIOUS
<1>3. QED
  BY <1>1, <1>2

(* No other pair divides. *)
LEMMA QuotientIsUnique ==
  ASSUME NEW x \in Int, NEW y \in Nat \ {0}, NEW q \in Int, NEW r \in 0..(y - 1), x = y * q + r
  PROVE  x \div y = q /\ x % y = r
<1> DEFINE p == x \div y
           s == x % y
<1>1. p \in Int /\ s \in 0..(y - 1) /\ x = y * p + s
  BY Quotient
<1> HIDE DEF p, s
<1>2. y * (p - q) = r - s
  BY <1>1
<1>3. CASE p - q >= 1
  <2>1. y * (p - q) >= y
    BY <1>1, <1>3
  <2>2. QED
    BY <1>1, <1>2, <2>1
<1>4. CASE p - q <= -1
  <2>1. y * (p - q) <= -y
    BY <1>1, <1>4
  <2>2. QED
    BY <1>1, <1>2, <2>1
<1>5. CASE p - q = 0
  <2>1. p = q
    BY <1>1, <1>5
  <2>2. QED
    BY <1>1, <2>1 DEF p, s
<1>6. QED
  BY <1>1, <1>3, <1>4, <1>5

(* A set of numbers with zero and every successor has them all. *)
LEMMA Induction ==
  ASSUME NEW S, S \subseteq Nat, 0 \in S, \A n \in S : n + 1 \in S
  PROVE  S = Nat
<1> DEFINE T == Nat \ S
<1>1. CASE T # {}
  <2>1. T \subseteq Nat
    OBVIOUS
  <2>2. \E x \in T : \A y \in T : ~ (<<y, x>> \in OpToRel(<, Nat))
    <3> HIDE DEF T
    <3>1. QED
      BY <1>1, <2>1, WFMin, NatLessThanWellFounded
  <2>3. PICK x \in T : \A y \in T : ~ (<<y, x>> \in OpToRel(<, Nat))
    BY <2>2
  <2>4. x - 1 \in T
    <3>1. x # 0 /\ x \in Nat /\ x \notin S
      BY <2>3
    <3>2. x - 1 \in Nat /\ (x - 1) + 1 = x
      BY <3>1
    <3>3. QED
      BY <3>1, <3>2
  <2>5. <<x - 1, x>> \in OpToRel(<, Nat)
    BY <2>3, <2>4 DEF OpToRel
  <2>6. QED
    BY <2>3, <2>4, <2>5
<1>2. QED
  BY <1>1

(* The powers of ten are what their definition says: every number has a    *)
(* table of the powers up to it.                                           *)

Table(n, h) ==
  h \in [0..n -> Nat] /\ h[0] = 1 /\ \A i \in 0..(n - 1) : h[i + 1] = 10 * h[i]

(* The recursion of TenTo can be carried out up to every number. *)
LEMMA TablesExist == \A n \in Nat : \E h : Table(n, h)
<1> DEFINE S == {n \in Nat : \E h : Table(n, h)}
<1>1. 0 \in S
  <2>1. Table(0, [i \in 0..0 |-> 1])
    BY DEF Table
  <2>2. QED
    BY <2>1
<1>2. ASSUME NEW n \in S PROVE n + 1 \in S
  <2>1. PICK h : Table(n, h)
    OBVIOUS
  <2> DEFINE g == [i \in 0..(n + 1) |-> IF i = n + 1 THEN 10 * h[n] ELSE h[i]]
  <2>2. n \in Nat /\ h[n] \in Nat /\ \A i \in 0..n : h[i] \in Nat
    BY <2>1 DEF Table
  <2>3. g \in [0..(n + 1) -> Nat] /\ g[0] = 1
    BY <2>1, <2>2 DEF Table
  <2>4. ASSUME NEW i \in 0..n PROVE g[i + 1] = 10 * g[i]
    BY <2>1, <2>2 DEF Table
  <2>5. Table(n + 1, g)
    <3>1. (n + 1) - 1 = n
      BY <2>2
    <3> HIDE DEF g
    <3>2. QED
      BY <2>3, <2>4, <3>1 DEF Table
  <2>6. QED
    BY <2>2, <2>5
<1>3. S = Nat
  <2>1. S \subseteq Nat
    OBVIOUS
  <2> HIDE DEF S
  <2>2. QED
    BY <1>1, <1>2, <2>1, Induction
<1>4. QED
  BY <1>3

(* Two tables agree where both are defined. *)
LEMMA TablesAgree ==
  ASSUME NEW m \in Nat, NEW n \in Nat, m <= n, NEW g, Table(m, g), NEW h, Table(n, h)
  PROVE  g[m] = h[m]
<1> DEFINE S == {i \in Nat : i <= m => g[i] = h[i]}
<1>1. 0 \in S
  BY DEF Table
<1>2. ASSUME NEW i \in S PROVE i + 1 \in S
  <2>1. CASE i + 1 <= m
    <3>1. i \in 0..(m - 1) /\ i \in 0..(n - 1) /\ g[i] = h[i]
      BY <2>1
    <3>2. QED
      BY <3>1 DEF Table
  <2>2. QED
    BY <2>1
<1>3. S = Nat
  <2>1. S \subseteq Nat
    OBVIOUS
  <2> HIDE DEF S
  <2>2. QED
    BY <1>1, <1>2, <2>1, Induction
<1>4. QED
  BY <1>3

(* TenTo satisfies its equation. *)
LEMMA TenToFacts ==
  /\ TenTo[0] = 1
  /\ \A n \in Nat : TenTo[n] \in Nat /\ TenTo[n + 1] = 10 * TenTo[n]
<1> DEFINE table(n) == CHOOSE h : Table(n, h)
<1> DEFINE f == [n \in Nat |-> table(n)[n]]
<1>1. ASSUME NEW n \in Nat PROVE Table(n, table(n))
  BY TablesExist
<1>2. f[0] = 1
  BY <1>1 DEF Table
<1>3. ASSUME NEW n \in Nat PROVE f[n] \in Nat /\ f[n + 1] = 10 * f[n]
  <2>1. Table(n, table(n)) /\ Table(n + 1, table(n + 1))
    BY <1>1
  <2> HIDE DEF table
  <2>2. table(n)[n] = table(n + 1)[n]
    BY <2>1, TablesAgree
  <2>3. table(n)[n] \in Nat /\ table(n + 1)[n + 1] = 10 * table(n + 1)[n]
    BY <2>1 DEF Table
  <2>4. QED
    BY <2>2, <2>3
<1> HIDE DEF table
<1>4. f = [n \in Nat |-> IF n = 0 THEN 1 ELSE 10 * f[n - 1]]
  <2>1. ASSUME NEW n \in Nat, n # 0 PROVE f[n] = 10 * f[n - 1]
    <3>1. n - 1 \in Nat /\ (n - 1) + 1 = n
      BY <2>1
    <3> HIDE DEF f
    <3>2. QED
      BY <1>3, <3>1
  <2>2. f = [n \in Nat |-> f[n]]
    OBVIOUS
  <2> HIDE DEF f
  <2>3. \A n \in Nat : f[n] = IF n = 0 THEN 1 ELSE 10 * f[n - 1]
    BY <1>2, <2>1
  <2>4. QED
    BY <2>2, <2>3
<1> HIDE DEF f
<1>5. TenTo = [n \in Nat |-> IF n = 0 THEN 1 ELSE 10 * TenTo[n - 1]]
  BY <1>4, Zenon DEF TenTo
<1>6. TenTo[0] = 1
  BY <1>5
<1>7. \A n \in Nat : TenTo[n + 1] = 10 * TenTo[n]
  <2>1. ASSUME NEW n \in Nat PROVE TenTo[n + 1] = 10 * TenTo[n]
    <3>1. n + 1 \in Nat /\ n + 1 # 0 /\ (n + 1) - 1 = n
      OBVIOUS
    <3>2. TenTo[n + 1] = 10 * TenTo[(n + 1) - 1]
      BY <1>5, <3>1
    <3>3. QED
      BY <3>1, <3>2
  <2>2. QED
    BY <2>1
<1> DEFINE S == {n \in Nat : TenTo[n] \in Nat}
<1>8. S = Nat
  <2>1. S \subseteq Nat /\ 0 \in S
    BY <1>6
  <2>2. ASSUME NEW n \in S PROVE n + 1 \in S
    <3>1. n \in Nat /\ TenTo[n] \in Nat /\ TenTo[n + 1] = 10 * TenTo[n]
      BY <1>7
    <3>2. QED
      BY <3>1
  <2> HIDE DEF S
  <2>3. QED
    BY <2>1, <2>2, Induction
<1>9. QED
  BY <1>6, <1>7, <1>8

(* A power is beyond its exponent. *)
LEMMA TenToGrows == \A n \in Nat : TenTo[n] > n
<1> DEFINE S == {n \in Nat : TenTo[n] > n}
<1>1. S \subseteq Nat /\ 0 \in S
  BY TenToFacts
<1>2. ASSUME NEW n \in S PROVE n + 1 \in S
  <2>1. n \in Nat /\ TenTo[n] > n /\ TenTo[n] \in Nat /\ TenTo[n + 1] = 10 * TenTo[n]
    BY TenToFacts
  <2> DEFINE d == TenTo[n]
  <2>2. d \in Nat /\ d > n /\ 10 * d > n + 1
    BY <2>1
  <2>3. QED
    BY <2>1, <2>2
<1>3. S = Nat
  <2> HIDE DEF S
  <2>1. QED
    BY <1>1, <1>2, Induction
<1>4. QED
  BY <1>3

(* Exponents add up. *)
LEMMA TenToAdds ==
  ASSUME NEW m \in Nat
  PROVE  \A n \in Nat : TenTo[m + n] = TenTo[m] * TenTo[n]
<1> DEFINE S == {n \in Nat : TenTo[m + n] = TenTo[m] * TenTo[n]}
<1>1. S \subseteq Nat /\ 0 \in S
  BY TenToFacts
<1>2. ASSUME NEW n \in S PROVE n + 1 \in S
  <2>1. /\ TenTo[m + n] = TenTo[m] * TenTo[n] /\ m + n \in Nat /\ n \in Nat
        /\ m + (n + 1) = (m + n) + 1
    OBVIOUS
  <2>2. TenTo[(m + n) + 1] = 10 * TenTo[m + n] /\ TenTo[n + 1] = 10 * TenTo[n]
    BY <2>1, TenToFacts
  <2> DEFINE x == TenTo[m]
             y == TenTo[n]
  <2>3. x \in Nat /\ y \in Nat
    BY <2>1, TenToFacts
  <2>4. TenTo[(m + n) + 1] = 10 * (x * y) /\ TenTo[n + 1] = 10 * y
    BY <2>1, <2>2
  <2>5. 10 * (x * y) = x * (10 * y)
    <3> HIDE DEF x, y
    <3>1. QED
      BY <2>3
  <2>6. TenTo[m + (n + 1)] = TenTo[m] * TenTo[n + 1]
    BY <2>1, <2>4, <2>5
  <2>7. QED
    BY <2>1, <2>6
<1>3. S = Nat
  <2> HIDE DEF S
  <2>1. QED
    BY <1>1, <1>2, Induction
<1>4. QED
  BY <1>3

(* The trailing zeros of a number are there and are all. *)
LEMMA TrailingZerosFacts ==
  ASSUME NEW digits \in Nat \ {0}
  PROVE  /\ TrailingZeros(digits) \in Nat
         /\ digits \div TenTo[TrailingZeros(digits)] \in Nat \ {0}
         /\ digits = TenTo[TrailingZeros(digits)] * (digits \div TenTo[TrailingZeros(digits)])
<1> DEFINE Found(n) == digits % TenTo[n] = 0 /\ digits % TenTo[n + 1] # 0
<1> DEFINE S == {n \in Nat : n <= digits => digits % TenTo[n] = 0}
<1>1. \E n \in 0..digits : Found(n)
  <2>1. SUFFICES ASSUME \A n \in 0..digits : ~ Found(n) PROVE FALSE
    OBVIOUS
  <2>2. S \subseteq Nat /\ 0 \in S
    BY TenToFacts
  <2>3. ASSUME NEW n \in S PROVE n + 1 \in S
    BY <2>1
  <2>4. S = Nat
    <3> HIDE DEF S
    <3>1. QED
      BY <2>2, <2>3, Induction
  <2>5. digits % TenTo[digits] = 0
    BY <2>4
  <2>6. TenTo[digits] \in Nat /\ TenTo[digits] > digits
    BY TenToFacts, TenToGrows
  <2>7. QED
    BY <2>5, <2>6
<1> DEFINE z == TrailingZeros(digits)
<1>2. z \in 0..digits /\ Found(z)
  BY <1>1 DEF TrailingZeros
<1>3. TenTo[z] \in Nat \ {0}
  BY <1>2, TenToFacts, TenToGrows
<1> HIDE DEF z
<1> DEFINE t == TenTo[z]
           q == digits \div t
<1>4. t \in Nat \ {0} /\ digits % t = 0
  BY <1>2, <1>3
<1> HIDE DEF t
<1>5. q \in Nat /\ digits = t * q + (digits % t)
  BY <1>4, Quotient
<1> HIDE DEF q
<1>6. digits = t * q /\ q # 0
  BY <1>4, <1>5
<1>7. QED
  BY <1>2, <1>5, <1>6 DEF t, q, z

(* One is in lowest decimal terms. *)
LEMMA OneHasNoZeros == TrailingZeros(1) = 0
<1>1. TenTo[0] = 1 /\ TenTo[1] = 10 /\ TenTo[2] = 100
  <2>1. TenTo[0] = 1 /\ TenTo[0 + 1] = 10 * TenTo[0] /\ TenTo[1 + 1] = 10 * TenTo[1]
    BY TenToFacts
  <2>2. 0 + 1 = 1 /\ 1 + 1 = 2
    OBVIOUS
  <2>3. QED
    BY <2>1, <2>2
<1>2. 1 % TenTo[0] = 0 /\ 1 % TenTo[0 + 1] # 0 /\ 1 % TenTo[1] # 0
  BY <1>1
<1>3. QED
  BY <1>2 DEF TrailingZeros

(* Nothing divides one but itself. *)
LEMMA GcdOfOne ==
  ASSUME NEW digits \in Nat \ {0}
  PROVE  Gcd(digits, 1) = 1
<1> DEFINE common == {c \in 1..digits : digits % c = 0 /\ 1 % c = 0}
<1>1. 1 \in common
  OBVIOUS
<1>2. \A c \in common : c = 1
  OBVIOUS
<1>3. common = {1}
  BY <1>1, <1>2
<1> HIDE DEF common
<1>4. (CHOOSE c \in common : \A other \in common : other <= c) = 1
  BY <1>3
<1>5. QED
  BY <1>4 DEF Gcd, common

-----------------------------------------------------------------------------
(* The ratio of an interval and its multiples. *)

(* The ratio of a decimal number to one, as a product of powers. *)
LEMMA RatioForm ==
  ASSUME NEW d, d.digits \in Nat \ {0}, d.exponent \in Int
  PROVE  LET z == TrailingZeros(d.digits)
         IN PositiveRatio(d, [digits |-> 1, exponent |-> 0])
              = [numerator |-> (d.digits \div TenTo[z]) * Power(d.exponent + z),
                 denominator |-> Power(-(d.exponent + z))]
<1> DEFINE z == TrailingZeros(d.digits)
           m == d.digits \div TenTo[z]
           one == [digits |-> 1, exponent |-> 0]
<1>1. z \in Nat /\ m \in Nat \ {0}
  BY TrailingZerosFacts
<1> HIDE DEF z, m
<1>2. DecimalParts(d) = [digits |-> m, exponent |-> d.exponent + z]
  BY DEF DecimalParts, m, z
<1>3. DecimalParts(one) = one
  <2>1. one.digits = 1 /\ one.exponent = 0 /\ 1 \div 1 = 1
    OBVIOUS
  <2> HIDE DEF one
  <2>2. DecimalParts(one) = [digits |-> 1, exponent |-> 0]
    BY <2>1, OneHasNoZeros, TenToFacts DEF DecimalParts
  <2>3. QED
    BY <2>2 DEF one
<1>4. Gcd(m, 1) = 1 /\ m \div 1 = m /\ 1 \div 1 = 1
  BY <1>1, GcdOfOne
<1> DEFINE e == d.exponent + z
<1>5. e \in Int /\ e - 0 = e
  BY <1>1
<1> HIDE DEF e
<1>6. /\ DecimalParts(d).digits = m /\ DecimalParts(d).exponent = e
      /\ DecimalParts(one).digits = 1 /\ DecimalParts(one).exponent = 0
  BY <1>2, <1>3 DEF e
<1>7. Power(e) \in Nat /\ Power(-e) \in Nat
  BY <1>5, TenToFacts DEF Power
<1>8. PositiveRatio(d, one) = [numerator |-> m * Power(e), denominator |-> 1 * Power(-e)]
  BY <1>4, <1>5, <1>6 DEF PositiveRatio, Power
<1>9. 1 * Power(-e) = Power(-e)
  BY <1>7
<1>10. QED
  BY <1>8, <1>9 DEF m, e, z

(* The ratio is the decimal number, in lower terms. *)
LEMMA RatioIsDecimal ==
  ASSUME NEW d, d.digits \in Nat \ {0}, d.exponent \in Int
  PROVE  LET ratio == PositiveRatio(d, [digits |-> 1, exponent |-> 0])
         IN /\ ratio.numerator \in Nat \ {0} /\ ratio.denominator \in Nat \ {0}
            /\ \E c \in Nat \ {0} : /\ d.digits * Power(d.exponent) = c * ratio.numerator
                                    /\ Power(-d.exponent) = c * ratio.denominator
<1> DEFINE z == TrailingZeros(d.digits)
           m == d.digits \div TenTo[z]
           x == d.exponent
           ratio == PositiveRatio(d, [digits |-> 1, exponent |-> 0])
<1>1. z \in Nat /\ m \in Nat \ {0} /\ d.digits = TenTo[z] * m
  BY TrailingZerosFacts
<1>2. ratio.numerator = m * Power(x + z) /\ ratio.denominator = Power(-(x + z))
  <2>1. ratio = [numerator |-> m * Power(x + z), denominator |-> Power(-(x + z))]
    BY RatioForm
  <2> HIDE DEF ratio, m, z, x
  <2>2. QED
    BY <2>1
<1> HIDE DEF z, m, ratio
<1>3. \A n \in Nat : TenTo[n] \in Nat \ {0}
  BY TenToFacts, TenToGrows
<1>4. Power(x + z) \in Nat \ {0} /\ Power(-(x + z)) \in Nat \ {0}
  BY <1>1, <1>3 DEF Power
<1> DEFINE t == TenTo[z]
<1>5. t \in Nat \ {0} /\ d.digits = t * m
  BY <1>1, <1>3
<1> HIDE DEF t, x
<1>6. \E c \in Nat \ {0} : d.digits * Power(x) = c * (m * Power(x + z)) /\ Power(-x) = c * Power(-(x + z))
  <2>0. x \in Int
    BY DEF x
  <2>1. CASE x >= 0
    <3>1. Power(x) = TenTo[x] /\ Power(-x) = 1 /\ Power(x + z) = TenTo[x + z] /\ Power(-(x + z)) = 1
      <4>1. ASSUME NEW n \in Nat
            PROVE  Power(n) = TenTo[n] /\ Power(-n) = 1
        <5>1. CASE n = 0
          BY <5>1, TenToFacts DEF Power
        <5>2. CASE n > 0
          BY <5>2 DEF Power
        <5>3. QED
          BY <5>1, <5>2
      <4>2. x \in Nat /\ x + z \in Nat
        BY <2>0, <2>1, <1>1
      <4>3. QED
        BY <4>1, <4>2
    <3> DEFINE u == TenTo[x]
    <3>2. TenTo[x + z] = u * t /\ u \in Nat
      <4>1. x \in Nat
        BY <2>0, <2>1
      <4>2. \A n \in Nat : TenTo[x + n] = TenTo[x] * TenTo[n]
        BY <4>1, TenToAdds
      <4>3. QED
        BY <4>1, <4>2, <1>1, TenToFacts DEF t
    <3> HIDE DEF u
    <3>3. (t * m) * u = 1 * (m * (u * t)) /\ 1 = 1 * 1
      BY <3>2, <1>1, <1>5
    <3>4. QED
      BY <1>5, <3>1, <3>2, <3>3 DEF u
  <2>2. CASE x < 0 /\ x + z >= 0
    <3> DEFINE u == TenTo[x + z]
               v == TenTo[-x]
    <3>1. Power(x) = 1 /\ Power(-x) = v /\ Power(x + z) = u /\ Power(-(x + z)) = 1
      BY <2>0, <2>2, <1>1, TenToFacts DEF Power
    <3>2. u \in Nat /\ v \in Nat \ {0} /\ t = u * v
      <4>1. x + z \in Nat /\ -x \in Nat /\ (x + z) + (-x) = z
        BY <2>0, <2>2, <1>1
      <4>2. TenTo[(x + z) + (-x)] = TenTo[x + z] * TenTo[-x]
        BY <4>1, TenToAdds
      <4>3. QED
        BY <4>1, <4>2, <1>3 DEF t
    <3> HIDE DEF u, v
    <3>3. (t * m) * 1 = v * (m * u) /\ v = v * 1
      BY <3>2, <1>1, <1>5
    <3>4. QED
      BY <1>5, <3>1, <3>2, <3>3
  <2>3. CASE x < 0 /\ x + z < 0
    <3> DEFINE v == TenTo[-(x + z)]
    <3>1. Power(x) = 1 /\ Power(-x) = TenTo[-x] /\ Power(x + z) = 1 /\ Power(-(x + z)) = v
      BY <2>0, <2>3, <1>1, TenToFacts DEF Power
    <3>2. v \in Nat /\ TenTo[-x] = t * v
      <4>1. -(x + z) \in Nat /\ z + (-(x + z)) = -x
        BY <2>0, <2>3, <1>1
      <4>2. TenTo[z + (-(x + z))] = TenTo[z] * TenTo[-(x + z)]
        BY <4>1, <1>1, TenToAdds
      <4>3. QED
        BY <4>1, <4>2, <1>3 DEF t
    <3> HIDE DEF v
    <3>3. (t * m) * 1 = t * (m * 1)
      BY <1>1, <1>5
    <3>4. QED
      BY <1>5, <3>1, <3>2, <3>3
  <2>4. QED
    BY <2>0, <2>1, <2>2, <2>3, <1>1
<1>7. m * Power(x + z) \in Nat \ {0}
  BY <1>1, <1>4
<1>8. QED
  BY <1>2, <1>4, <1>6, <1>7 DEF ratio, x

(* A later multiple is not earlier. *)
LEMMA RoundedGrows ==
  ASSUME NEW ratio, ratio.numerator \in Nat \ {0}, ratio.denominator \in Nat \ {0},
         NEW i \in Nat, NEW j \in Nat, i <= j
  PROVE  /\ RoundedMultiple(ratio, i) \in Nat
         /\ RoundedMultiple(ratio, i) <= RoundedMultiple(ratio, j)
<1> DEFINE num == ratio.numerator
           den == ratio.denominator
           x == num * i
           y == num * j
           Rounded(p) == IF 2 * (p % den) > den \/ (2 * (p % den) = den /\ (p \div den) % 2 = 1)
                         THEN p \div den + 1 ELSE p \div den
<1>1. num \in Nat \ {0} /\ den \in Nat \ {0}
  OBVIOUS
<1>2. RoundedMultiple(ratio, i) = Rounded(x) /\ RoundedMultiple(ratio, j) = Rounded(y)
  BY DEF RoundedMultiple
<1> HIDE DEF num, den
<1>3. x \in Nat /\ y \in Nat /\ x <= y
  BY <1>1
<1> HIDE DEF x, y
<1> DEFINE qx == x \div den
           qy == y \div den
           rx == x % den
           ry == y % den
<1>4. /\ qx \in Nat /\ rx \in 0..(den - 1) /\ x = den * qx + rx
      /\ qy \in Nat /\ ry \in 0..(den - 1) /\ y = den * qy + ry
  <2>1. ASSUME NEW p \in Nat
        PROVE  /\ p \div den \in Nat /\ p % den \in 0..(den - 1)
               /\ p = den * (p \div den) + (p % den)
    <3>1. p \in Int
      OBVIOUS
    <3>2. QED
      BY <3>1, <1>1, Quotient
  <2>2. QED
    BY <2>1, <1>3
<1>5. /\ Rounded(x) = IF 2 * rx > den \/ (2 * rx = den /\ qx % 2 = 1) THEN qx + 1 ELSE qx
      /\ Rounded(y) = IF 2 * ry > den \/ (2 * ry = den /\ qy % 2 = 1) THEN qy + 1 ELSE qy
  OBVIOUS
<1> HIDE DEF qx, qy, rx, ry, Rounded
<1>6. qx <= qy
  <2>1. SUFFICES ASSUME qx >= qy + 1 PROVE FALSE
    BY <1>4
  <2>2. den * qx >= den * (qy + 1)
    BY <1>1, <1>4, <2>1
  <2>3. QED
    BY <1>1, <1>3, <1>4, <2>2
<1>7. qx = qy => rx <= ry
  BY <1>1, <1>3, <1>4
<1>8. Rounded(x) \in Nat /\ Rounded(x) <= Rounded(y)
  BY <1>1, <1>4, <1>5, <1>6, <1>7
<1>9. QED
  BY <1>2, <1>8

-----------------------------------------------------------------------------
(* Sums over finite sets.  Induction over a finite set, whose subsets with *)
(* the property at hand are gathered in a set.                             *)

(* What a finite set has whenever all its smaller subsets have it.         *)
LEMMA FiniteDescent ==
  ASSUME NEW S, IsFiniteSet(S), NEW F,
         \A T \in SUBSET S : (\A x \in T : T \ {x} \in F) => T \in F
  PROVE  \A T \in SUBSET S : T \in F
<1> DEFINE N == {n \in Nat : \A T \in SUBSET S : Cardinality(T) <= n => T \in F}
<1>1. \A T \in SUBSET S : IsFiniteSet(T) /\ Cardinality(T) \in Nat
  BY FS_Subset, FS_CardinalityType
<1>2. 0 \in N
  <2>1. ASSUME NEW T \in SUBSET S, Cardinality(T) <= 0
        PROVE  T \in F
    <3>1. Cardinality(T) = 0
      BY <1>1, <2>1
    <3>2. T = {}
      BY <1>1, <3>1, FS_EmptySet
    <3>3. QED
      BY <3>2
  <2>2. QED
    BY <2>1
<1>3. ASSUME NEW n \in N PROVE n + 1 \in N
  <2>1. n \in Nat /\ \A T \in SUBSET S : Cardinality(T) <= n => T \in F
    BY <1>3
  <2>2. ASSUME NEW T \in SUBSET S, Cardinality(T) <= n + 1
        PROVE  T \in F
    <3>1. ASSUME NEW x \in T PROVE T \ {x} \in F
      <4>1. T \ {x} \in SUBSET S /\ Cardinality(T) \in Nat
        BY <1>1
      <4>2. Cardinality(T \ {x}) = Cardinality(T) - 1
        BY <1>1, FS_RemoveElement
      <4>3. Cardinality(T \ {x}) <= n
        BY <2>1, <2>2, <4>1, <4>2
      <4>4. QED
        BY <2>1, <4>1, <4>3
    <3>2. QED
      BY <3>1
  <2>3. QED
    BY <2>1, <2>2
<1>4. N = Nat
  <2>1. N \subseteq Nat
    OBVIOUS
  <2> HIDE DEF N
  <2>2. QED
    BY <1>2, <1>3, <2>1, Induction
<1>5. ASSUME NEW T \in SUBSET S PROVE T \in F
  <2>1. Cardinality(T) \in N /\ Cardinality(T) <= Cardinality(T)
    BY <1>1, <1>4
  <2>2. QED
    BY <2>1
<1>6. QED
  BY <1>5

(* What the empty set has and one more element keeps, a finite set has.    *)
LEMMA FiniteInduction ==
  ASSUME NEW S, IsFiniteSet(S), NEW F, {} \in F,
         \A T \in SUBSET S : \A x \in S \ T : T \in F => T \cup {x} \in F
  PROVE  S \in F
<1>1. ASSUME NEW T \in SUBSET S, \A x \in T : T \ {x} \in F
      PROVE  T \in F
  <2>1. CASE T = {}
    BY <2>1
  <2>2. CASE T # {}
    <3>1. PICK x \in T : TRUE
      BY <2>2
    <3>2. T \ {x} \in SUBSET S /\ x \in S \ (T \ {x}) /\ (T \ {x}) \cup {x} = T
      BY <3>1
    <3>3. T \ {x} \in F
      BY Zenon, <1>1, <3>1
    <3>4. (T \ {x}) \cup {x} \in F
      BY Zenon, <3>2, <3>3
    <3>5. QED
      BY Zenon, <3>2, <3>4
  <2>3. QED
    BY Zenon, <2>1, <2>2
<1>2. \A T \in SUBSET S : T \in F
  <2>1. \A T \in SUBSET S : (\A x \in T : T \ {x} \in F) => T \in F
    BY Zenon, <1>1
  <2>2. QED
    BY Zenon, <2>1, FiniteDescent
<1>3. QED
  BY <1>2

(* A table of the sums over all subsets, by which element they are taken. *)
SumTable(S, f, g) ==
  /\ g \in [SUBSET S -> Int] /\ g[{}] = 0
  /\ \A T \in SUBSET S : \A x \in T : g[T] = f[x] + g[T \ {x}]

(* There is a table of sums, in whatever order elements are taken.         *)
LEMMA SumTableExists ==
  ASSUME NEW S, IsFiniteSet(S), NEW f, \A x \in S : f[x] \in Int
  PROVE  \E g : SumTable(S, f, g)
<1> DEFINE F == {T \in SUBSET S : \E g : SumTable(T, f, g)}
<1>1. {} \in F
  <2>1. SumTable({}, f, [T \in SUBSET {} |-> 0])
    BY DEF SumTable
  <2>2. QED
    BY <2>1
<1>2. ASSUME NEW T \in SUBSET S, NEW y \in S \ T, T \in F
      PROVE  T \cup {y} \in F
  <2>1. PICK g : SumTable(T, f, g)
    BY <1>2
  <2> DEFINE h == [U \in SUBSET (T \cup {y}) |-> IF y \in U THEN f[y] + g[U \ {y}] ELSE g[U]]
  <2>2. \A U \in SUBSET T : g[U] \in Int
    BY <2>1 DEF SumTable
  <2>3. \A U \in SUBSET (T \cup {y}) : U \ {y} \in SUBSET T /\ (y \notin U => U \in SUBSET T)
    OBVIOUS
  <2>4. f[y] \in Int
    OBVIOUS
  <2>5. h \in [SUBSET (T \cup {y}) -> Int]
    BY <2>2, <2>3, <2>4
  <2>6. h[{}] = 0
    BY <2>1 DEF SumTable
  <2>7. ASSUME NEW U \in SUBSET (T \cup {y}), NEW x \in U
        PROVE  h[U] = f[x] + h[U \ {x}]
    <3>1. U \ {x} \in SUBSET (T \cup {y})
      OBVIOUS
    <3>2. CASE x = y
      <4>1. y \notin U \ {x} /\ y \in U /\ U \ {x} = U \ {y}
        BY <3>2
      <4>2. QED
        BY <3>1, <3>2, <4>1
    <3>3. CASE x # y /\ y \in U
      <4>1. x \in U \ {y} /\ U \ {y} \in SUBSET T
        BY <2>3, <3>3
      <4>2. g[U \ {y}] = f[x] + g[(U \ {y}) \ {x}]
        BY <2>1, <4>1 DEF SumTable
      <4>3. (U \ {y}) \ {x} = (U \ {x}) \ {y} /\ (U \ {x}) \ {y} \in SUBSET T
        BY <4>1
      <4>4. h[U] = f[y] + g[U \ {y}] /\ h[U \ {x}] = f[y] + g[(U \ {x}) \ {y}]
        BY <3>1, <3>3
      <4>5. f[x] \in Int /\ g[(U \ {x}) \ {y}] \in Int
        BY <2>2, <4>3
      <4>6. QED
        <5> HIDE DEF h
        <5>1. f[y] + (f[x] + g[(U \ {x}) \ {y}]) = f[x] + (f[y] + g[(U \ {x}) \ {y}])
          BY <2>4, <4>5
        <5>2. QED
          BY <4>2, <4>3, <4>4, <5>1
    <3>4. CASE y \notin U
      <4>1. U \in SUBSET T /\ y \notin U \ {x}
        BY <2>3, <3>4
      <4>2. g[U] = f[x] + g[U \ {x}]
        BY <2>1, <4>1 DEF SumTable
      <4>3. QED
        BY <3>1, <3>4, <4>1, <4>2
    <3>5. QED
      BY <3>2, <3>3, <3>4
  <2>8. SumTable(T \cup {y}, f, h)
    <3> HIDE DEF h
    <3>1. QED
      BY <2>5, <2>6, <2>7 DEF SumTable
  <2>9. QED
    BY <2>8
<1>3. S \in F
  <2> HIDE DEF F
  <2>1. QED
    BY <1>1, <1>2, FiniteInduction
<1>4. QED
  BY <1>3

(* What the fold computes is in that table. *)
Picked(f, iter, T) == IF T = {} THEN 0 ELSE f[CHOOSE x \in T : TRUE] + iter[T \ {CHOOSE x \in T : TRUE}]

(* Total, a fold, comes to what the table says of the whole set.           *)
LEMMA SumIsInTable ==
  ASSUME NEW S, IsFiniteSet(S), NEW f, \A x \in S : f[x] \in Int, f = [x \in S |-> f[x]],
         NEW g, SumTable(S, f, g)
  PROVE  Total(f) = g[S]
<1> DEFINE iter == CHOOSE iter : iter = [T \in SUBSET S |-> Picked(f, iter, T)]
<1>1. DOMAIN f = S
  OBVIOUS
<1>2. Total(f) = iter[S]
  BY <1>1 DEF Total, MapThenSumSet, MapThenFoldSet, Picked
<1>3. g = [T \in SUBSET S |-> Picked(f, g, T)]
  <2>1. g = [T \in SUBSET S |-> g[T]]
    BY DEF SumTable
  <2>2. ASSUME NEW T \in SUBSET S PROVE g[T] = Picked(f, g, T)
    <3>1. CASE T = {}
      BY <3>1 DEF SumTable, Picked
    <3>2. CASE T # {}
      <4>1. (CHOOSE x \in T : TRUE) \in T
        BY <3>2
      <4>2. QED
        BY <3>2, <4>1 DEF SumTable, Picked
    <3>3. QED
      BY <3>1, <3>2
  <2>3. QED
    BY <2>1, <2>2
<1>4. iter = [T \in SUBSET S |-> Picked(f, iter, T)]
  BY <1>3
<1> HIDE DEF iter
<1> DEFINE F == {T \in SUBSET S : iter[T] = g[T]}
<1>5. ASSUME NEW T \in SUBSET S, \A x \in T : T \ {x} \in F
      PROVE  T \in F
  <2>1. iter[T] = Picked(f, iter, T) /\ g[T] = Picked(f, g, T)
    BY <1>3, <1>4
  <2>2. CASE T = {}
    BY <2>1, <2>2 DEF Picked
  <2>3. CASE T # {}
    <3>1. (CHOOSE x \in T : TRUE) \in T
      BY <2>3
    <3>2. iter[T \ {CHOOSE x \in T : TRUE}] = g[T \ {CHOOSE x \in T : TRUE}]
      BY <1>5, <3>1
    <3>3. QED
      BY <2>1, <2>3, <3>2 DEF Picked
  <2>4. QED
    BY <2>2, <2>3
<1>6. \A T \in SUBSET S : T \in F
  <2> HIDE DEF F
  <2>1. QED
    BY <1>5, FiniteDescent
<1>7. QED
  BY <1>2, <1>6

(* What the sums over parts of a set amount to. *)
Part(f, T) == Total([x \in T |-> f[x]])

(* So does the sum over a part of the set.                                 *)
LEMMA PartIsInTable ==
  ASSUME NEW S, IsFiniteSet(S), NEW f, \A x \in S : f[x] \in Int,
         NEW g, SumTable(S, f, g), NEW T \in SUBSET S
  PROVE  Part(f, T) = g[T]
<1> DEFINE p == [x \in T |-> f[x]]
           h == [U \in SUBSET T |-> g[U]]
<1>1. IsFiniteSet(T)
  BY FS_Subset
<1>2. \A x \in T : p[x] = f[x] /\ p[x] \in Int
  OBVIOUS
<1>3. p = [x \in T |-> p[x]]
  OBVIOUS
<1>4. SumTable(T, p, h)
  <2>1. \A U \in SUBSET T : U \in SUBSET S /\ h[U] = g[U] /\ g[U] \in Int
    BY DEF SumTable
  <2>2. h \in [SUBSET T -> Int] /\ h[{}] = 0
    BY <2>1 DEF SumTable
  <2>3. ASSUME NEW U \in SUBSET T, NEW x \in U
        PROVE  h[U] = p[x] + h[U \ {x}]
    <3>1. U \ {x} \in SUBSET T /\ x \in T
      OBVIOUS
    <3> HIDE DEF h, p
    <3>2. g[U] = f[x] + g[U \ {x}]
      BY <2>1 DEF SumTable
    <3>3. QED
      BY <2>1, <1>2, <3>1, <3>2
  <2>4. QED
    <3> HIDE DEF h, p
    <3>1. QED
      BY <2>2, <2>3 DEF SumTable
<1>5. Total(p) = h[T]
  <2> HIDE DEF h, p
  <2>1. QED
    BY <1>1, <1>2, <1>3, <1>4, SumIsInTable
<1>6. QED
  BY <1>5 DEF Part

(* The sum over a finite set: an element and the sum over the others.      *)
LEMMA PartFacts ==
  ASSUME NEW T, IsFiniteSet(T), NEW f, \A x \in T : f[x] \in Int
  PROVE  /\ Part(f, {}) = 0 /\ Part(f, T) \in Int
         /\ \A x \in T : Part(f, T) = f[x] + Part(f, T \ {x})
<1>1. PICK g : SumTable(T, f, g)
  BY SumTableExists
<1>2. \A U \in SUBSET T : Part(f, U) = g[U]
  BY <1>1, PartIsInTable
<1>3. QED
  BY <1>1, <1>2 DEF SumTable

(* Total is the sum over the whole domain.                                 *)
LEMMA SumIsPart ==
  ASSUME NEW S, NEW f \in [S -> Int]
  PROVE  Total(f) = Part(f, S)
<1>1. f = [x \in S |-> f[x]]
  OBVIOUS
<1>2. QED
  BY <1>1 DEF Part

(* Sums over equal values. *)
LEMMA SamePart ==
  ASSUME NEW T, NEW f, NEW g, \A x \in T : f[x] = g[x]
  PROVE  Part(f, T) = Part(g, T)
<1>1. [x \in T |-> f[x]] = [x \in T |-> g[x]]
  OBVIOUS
<1>2. QED
  BY <1>1 DEF Part

(* One more element adds its value.                                        *)
LEMMA PartAddElement ==
  ASSUME NEW T, IsFiniteSet(T), NEW y, y \notin T, NEW f, \A x \in T \cup {y} : f[x] \in Int
  PROVE  Part(f, T \cup {y}) = f[y] + Part(f, T)
<1>1. IsFiniteSet(T \cup {y}) /\ (T \cup {y}) \ {y} = T
  BY FS_AddElement
<1>2. QED
  BY <1>1, PartFacts

(* Disjoint sets add up.                                                   *)
LEMMA PartUnion ==
  ASSUME NEW A, IsFiniteSet(A), NEW B, IsFiniteSet(B), A \cap B = {},
         NEW f, \A x \in A \cup B : f[x] \in Int
  PROVE  Part(f, A \cup B) = Part(f, A) + Part(f, B)
<1> DEFINE F == {T \in SUBSET A : Part(f, T \cup B) = Part(f, T) + Part(f, B)}
<1>1. Part(f, B) \in Int
  BY PartFacts
<1>2. {} \in F
  <2>1. {} \cup B = B /\ Part(f, {}) = 0
    BY PartFacts
  <2>2. QED
    BY <1>1, <2>1
<1>3. ASSUME NEW T \in SUBSET A, NEW y \in A \ T, T \in F
      PROVE  T \cup {y} \in F
  <2>1. /\ IsFiniteSet(T) /\ IsFiniteSet(T \cup B) /\ y \notin T \cup B
        /\ (T \cup {y}) \cup B = (T \cup B) \cup {y} /\ T \cup {y} \in SUBSET A
    BY FS_Subset, FS_Union
  <2>2. Part(f, (T \cup B) \cup {y}) = f[y] + Part(f, T \cup B)
    BY <2>1, PartAddElement
  <2>3. Part(f, T \cup {y}) = f[y] + Part(f, T)
    BY <2>1, PartAddElement
  <2>4. Part(f, T) \in Int /\ f[y] \in Int /\ Part(f, T \cup B) = Part(f, T) + Part(f, B)
    BY <1>3, <2>1, PartFacts
  <2>5. Part(f, (T \cup {y}) \cup B) = Part(f, T \cup {y}) + Part(f, B)
    <3>1. Part(f, (T \cup {y}) \cup B) = Part(f, (T \cup B) \cup {y})
      BY <2>1
    <3>2. QED
      BY <1>1, <2>2, <2>3, <2>4, <3>1
  <2>6. QED
    BY <2>1, <2>5
<1>4. A \in F
  <2> HIDE DEF F
  <2>1. QED
    BY <1>2, <1>3, FiniteInduction
<1>5. QED
  BY <1>4

(* Sums of sums and of multiples, and the order of sums. *)
LEMMA PartAdds ==
  ASSUME NEW S, IsFiniteSet(S), NEW a, NEW b, NEW c,
         \A x \in S : a[x] \in Int /\ b[x] \in Int /\ c[x] = a[x] + b[x]
  PROVE  Part(c, S) = Part(a, S) + Part(b, S)
<1> DEFINE F == {T \in SUBSET S : Part(c, T) = Part(a, T) + Part(b, T)}
<1>1. {} \in F
  <2>1. Part(a, {}) = 0 /\ Part(b, {}) = 0 /\ Part(c, {}) = 0
    BY PartFacts, FS_EmptySet
  <2>2. QED
    BY <2>1
<1>2. ASSUME NEW T \in SUBSET S, NEW y \in S \ T, T \in F
      PROVE  T \cup {y} \in F
  <2>1. IsFiniteSet(T) /\ y \notin T /\ T \cup {y} \in SUBSET S
    BY FS_Subset
  <2>2. /\ \A x \in T \cup {y} : a[x] \in Int /\ b[x] \in Int /\ c[x] \in Int
        /\ c[y] = a[y] + b[y]
    BY <2>1
  <2>3. /\ Part(a, T \cup {y}) = a[y] + Part(a, T)
        /\ Part(b, T \cup {y}) = b[y] + Part(b, T)
        /\ Part(c, T \cup {y}) = c[y] + Part(c, T)
    BY <2>1, <2>2, PartAddElement
  <2>4. Part(a, T) \in Int /\ Part(b, T) \in Int /\ Part(c, T) = Part(a, T) + Part(b, T)
    BY <1>2, <2>1, <2>2, PartFacts
  <2>5. a[y] \in Int /\ b[y] \in Int /\ c[y] = a[y] + b[y]
    BY <2>2
  <2>6. Part(c, T \cup {y}) = Part(a, T \cup {y}) + Part(b, T \cup {y})
    BY <2>3, <2>4, <2>5
  <2>7. QED
    BY <2>1, <2>6
<1>3. S \in F
  <2> HIDE DEF F
  <2>1. QED
    BY <1>1, <1>2, FiniteInduction
<1>4. QED
  BY <1>3

(* A common factor can be taken out of a sum.                              *)
LEMMA PartScales ==
  ASSUME NEW S, IsFiniteSet(S), NEW k \in Int, NEW a, NEW b,
         \A x \in S : a[x] \in Int /\ b[x] = k * a[x]
  PROVE  Part(b, S) = k * Part(a, S)
<1> DEFINE F == {T \in SUBSET S : Part(b, T) = k * Part(a, T)}
<1>1. {} \in F
  <2>1. Part(a, {}) = 0 /\ Part(b, {}) = 0
    BY PartFacts, FS_EmptySet
  <2>2. QED
    BY <2>1
<1>2. ASSUME NEW T \in SUBSET S, NEW y \in S \ T, T \in F
      PROVE  T \cup {y} \in F
  <2>1. IsFiniteSet(T) /\ y \notin T /\ T \cup {y} \in SUBSET S
    BY FS_Subset
  <2>2. /\ \A x \in T \cup {y} : a[x] \in Int /\ b[x] \in Int
        /\ a[y] \in Int /\ b[y] = k * a[y]
    BY <2>1
  <2>3. /\ Part(a, T \cup {y}) = a[y] + Part(a, T)
        /\ Part(b, T \cup {y}) = b[y] + Part(b, T)
    BY <2>1, <2>2, PartAddElement
  <2>4. Part(a, T) \in Int /\ Part(b, T) = k * Part(a, T)
    BY <1>2, <2>1, <2>2, PartFacts
  <2>5. k * (a[y] + Part(a, T)) = k * a[y] + k * Part(a, T)
    BY <2>2, <2>4
  <2>6. Part(b, T \cup {y}) = k * Part(a, T \cup {y})
    BY <2>2, <2>3, <2>4, <2>5
  <2>7. QED
    BY <2>1, <2>6
<1>3. S \in F
  <2> HIDE DEF F
  <2>1. QED
    BY <1>1, <1>2, FiniteInduction
<1>4. QED
  BY <1>3

(* Larger values add up to a larger sum.                                   *)
LEMMA PartGrows ==
  ASSUME NEW S, IsFiniteSet(S), NEW a, NEW b,
         \A x \in S : a[x] \in Int /\ b[x] \in Int /\ a[x] <= b[x]
  PROVE  Part(a, S) <= Part(b, S)
<1> DEFINE F == {T \in SUBSET S : Part(a, T) <= Part(b, T)}
<1>1. {} \in F
  <2>1. Part(a, {}) = 0 /\ Part(b, {}) = 0
    BY PartFacts, FS_EmptySet
  <2>2. QED
    BY <2>1
<1>2. ASSUME NEW T \in SUBSET S, NEW y \in S \ T, T \in F
      PROVE  T \cup {y} \in F
  <2>1. IsFiniteSet(T) /\ y \notin T /\ T \cup {y} \in SUBSET S
    BY FS_Subset
  <2>2. /\ \A x \in T \cup {y} : a[x] \in Int /\ b[x] \in Int
        /\ a[y] \in Int /\ b[y] \in Int /\ a[y] <= b[y]
    BY <2>1
  <2>3. /\ Part(a, T \cup {y}) = a[y] + Part(a, T)
        /\ Part(b, T \cup {y}) = b[y] + Part(b, T)
    BY <2>1, <2>2, PartAddElement
  <2>4. Part(a, T) \in Int /\ Part(b, T) \in Int /\ Part(a, T) <= Part(b, T)
    BY <1>2, <2>1, <2>2, PartFacts
  <2>5. Part(a, T \cup {y}) <= Part(b, T \cup {y})
    BY <2>2, <2>3, <2>4
  <2>6. QED
    BY <2>1, <2>5
<1>3. S \in F
  <2> HIDE DEF F
  <2>1. QED
    BY <1>1, <1>2, FiniteInduction
<1>4. QED
  BY <1>3

(* Zeros add up to nothing.                                                *)
LEMMA PartOfZeros ==
  ASSUME NEW S, IsFiniteSet(S), NEW a, \A x \in S : a[x] = 0
  PROVE  Part(a, S) = 0
<1>1. \A x \in S : a[x] \in Int /\ a[x] = 0 * a[x]
  OBVIOUS
<1>2. Part(a, S) = 0 * Part(a, S) /\ Part(a, S) \in Int
  BY <1>1, PartScales, PartFacts
<1>3. QED
  BY <1>2

(* A sum without negative values is no less than any part of it.           *)
LEMMA PartOfNats ==
  ASSUME NEW S, IsFiniteSet(S), NEW a, \A x \in S : a[x] \in Nat
  PROVE  /\ Part(a, S) \in Nat /\ \A x \in S : a[x] <= Part(a, S)
         /\ Part(a, S) = 0 => \A x \in S : a[x] = 0
         /\ \A T \in SUBSET S : Part(a, T) \in Nat /\ Part(a, T) <= Part(a, S)
<1>1. \A T \in SUBSET S : IsFiniteSet(T) /\ \A x \in T : a[x] \in Int /\ a[x] \in Nat
  BY FS_Subset
<1>2. ASSUME NEW T \in SUBSET S PROVE Part(a, T) \in Nat
  <2>1. \A x \in T : [y \in T |-> 0][x] = 0
    OBVIOUS
  <2> DEFINE zero == [y \in T |-> 0]
  <2>2. Part(zero, T) = 0
    BY <1>1, <2>1, PartOfZeros
  <2>3. Part(zero, T) <= Part(a, T)
    <3>1. \A x \in T : zero[x] \in Int /\ a[x] \in Int /\ zero[x] <= a[x]
      BY <1>1
    <3> HIDE DEF zero
    <3>2. QED
      BY <1>1, <3>1, PartGrows
  <2>4. Part(a, T) \in Int
    BY <1>1, PartFacts
  <2>5. QED
    BY <2>2, <2>3, <2>4
<1>3. ASSUME NEW x \in S PROVE a[x] <= Part(a, S)
  <2>1. Part(a, S) = a[x] + Part(a, S \ {x})
    BY <1>1, PartFacts
  <2>2. Part(a, S \ {x}) \in Nat
    BY <1>2
  <2>3. QED
    BY <2>1, <2>2, <1>1
<1>4. ASSUME NEW T \in SUBSET S PROVE Part(a, T) <= Part(a, S)
  <2>1. S \ T \in SUBSET S /\ T \cup (S \ T) = S /\ T \cap (S \ T) = {}
    OBVIOUS
  <2>2. Part(a, T \cup (S \ T)) = Part(a, T) + Part(a, S \ T)
    <3>1. IsFiniteSet(T) /\ IsFiniteSet(S \ T)
      BY <1>1, <2>1
    <3>2. \A x \in T \cup (S \ T) : a[x] \in Int
      BY <1>1
    <3>3. QED
      BY <2>1, <3>1, <3>2, PartUnion
  <2>3. Part(a, T) \in Nat /\ Part(a, S \ T) \in Nat
    BY <1>2, <2>1
  <2>4. Part(a, S) = Part(a, T) + Part(a, S \ T)
    BY <2>1, <2>2
  <2>5. QED
    BY <2>3, <2>4
<1>5. ASSUME NEW x \in S, Part(a, S) = 0 PROVE a[x] = 0
  BY <1>3, <1>5, <1>1
<1>6. QED
  BY <1>2, <1>3, <1>4, <1>5

(* One value that differs. *)
LEMMA PartDiffers ==
  ASSUME NEW S, IsFiniteSet(S), NEW a, NEW b, \A x \in S : a[x] \in Int,
         NEW y \in S, NEW d \in Int, b[y] = a[y] + d, \A x \in S \ {y} : b[x] = a[x]
  PROVE  Part(b, S) = Part(a, S) + d
<1>1. IsFiniteSet(S \ {y})
  BY FS_RemoveElement
<1>2. Part(a, S) = a[y] + Part(a, S \ {y})
  BY PartFacts
<1>3. \A x \in S : b[x] \in Int
  OBVIOUS
<1>4. Part(b, S) = b[y] + Part(b, S \ {y})
  BY <1>3, PartFacts
<1>5. Part(b, S \ {y}) = Part(a, S \ {y})
  BY SamePart
<1>6. Part(a, S \ {y}) \in Int
  BY <1>1, PartFacts
<1>7. QED
  BY <1>2, <1>4, <1>5, <1>6

(* What pairs carry, gathered at one of their ends. *)
MeetingAt(P, x, end) == {p \in P : p[end] = x}

(* What all pairs carry is what the nodes at one of their ends receive.    *)
LEMMA PartExchange ==
  ASSUME NEW P, IsFiniteSet(P), NEW X, IsFiniteSet(X), NEW m, \A p \in P : m[p] \in Int,
         NEW end, \A p \in P : p[end] \in X,
         NEW t, \A x \in X : t[x] = Part(m, MeetingAt(P, x, end))
  PROVE  Part(t, X) = Part(m, P)
<1> DEFINE Own(Q, x) == {p \in Q : p[end] = x}
           through(Q) == [x \in X |-> Part(m, Own(Q, x))]
           F == {Q \in SUBSET P : Part(through(Q), X) = Part(m, Q)}
<1>1. {} \in F
  <2>1. \A x \in X : Own({}, x) = {}
    OBVIOUS
  <2>2. Part(m, {}) = 0
    BY PartFacts, FS_EmptySet
  <2>3. \A x \in X : through({})[x] = 0
    BY <2>1, <2>2
  <2>4. Part(through({}), X) = 0
    <3> HIDE DEF through
    <3>1. QED
      BY <2>3, PartOfZeros
  <2>5. QED
    BY <2>2, <2>4
<1>2. ASSUME NEW Q \in SUBSET P, NEW q \in P \ Q, Q \in F
      PROVE  Q \cup {q} \in F
  <2> DEFINE R == Q \cup {q}
             y == q[end]
  <2>1. /\ y \in X /\ R \in SUBSET P /\ m[q] \in Int
        /\ Own(R, y) = Own(Q, y) \cup {q} /\ q \notin Own(Q, y)
        /\ \A x \in X \ {y} : Own(R, x) = Own(Q, x)
    OBVIOUS
  <2>2. \A x \in X : Own(Q, x) \in SUBSET P
    OBVIOUS
  <2>3. \A x \in X : IsFiniteSet(Own(Q, x)) /\ Part(m, Own(Q, x)) \in Int
    <3> HIDE DEF Own
    <3>1. QED
      BY <2>2, FS_Subset, PartFacts
  <2>4. Part(m, Own(R, y)) = m[q] + Part(m, Own(Q, y))
    <3>1. \A x \in Own(Q, y) \cup {q} : m[x] \in Int
      BY <2>1
    <3>2. IsFiniteSet(Own(Q, y)) /\ q \notin Own(Q, y)
      BY <2>1, <2>3
    <3> HIDE DEF Own, R, y
    <3>3. Part(m, Own(Q, y) \cup {q}) = m[q] + Part(m, Own(Q, y))
      BY <3>1, <3>2, PartAddElement
    <3>4. QED
      BY <2>1, <3>3
  <2>5. /\ \A x \in X : through(Q)[x] \in Int
        /\ through(R)[y] = through(Q)[y] + m[q]
        /\ \A x \in X \ {y} : through(R)[x] = through(Q)[x]
    <3> HIDE DEF Own, R, y
    <3>1. \A x \in X : /\ through(Q)[x] = Part(m, Own(Q, x))
                       /\ through(R)[x] = Part(m, Own(R, x))
      OBVIOUS
    <3> HIDE DEF through
    <3>2. \A x \in X : through(Q)[x] \in Int
      BY <2>3, <3>1
    <3>3. through(R)[y] = m[q] + through(Q)[y]
      BY <2>1, <2>4, <3>1
    <3>4. through(R)[y] = through(Q)[y] + m[q]
      BY <2>1, <3>2, <3>3
    <3>5. \A x \in X \ {y} : through(R)[x] = through(Q)[x]
      BY <2>1, <3>1
    <3>6. QED
      BY <3>2, <3>4, <3>5
  <2>6. Part(through(R), X) = Part(through(Q), X) + m[q]
    <3> HIDE DEF through, R, y
    <3>1. QED
      BY <2>1, <2>5, PartDiffers
  <2>7. Part(through(Q), X) = Part(m, Q)
    BY <1>2
  <2>8. Part(m, R) = m[q] + Part(m, Q) /\ Part(m, Q) \in Int
    <3>1. IsFiniteSet(Q) /\ q \notin Q /\ \A x \in Q \cup {q} : m[x] \in Int
      BY FS_Subset
    <3>2. QED
      BY <3>1, PartAddElement, PartFacts
  <2>9. Part(through(R), X) = Part(m, R)
    BY <2>1, <2>6, <2>7, <2>8
  <2>10. QED
    <3> HIDE DEF through
    <3>1. QED
      BY <2>1, <2>9
<1>3. P \in F
  <2> HIDE DEF F
  <2>1. QED
    BY <1>1, <1>2, FiniteInduction
<1>4. Part(through(P), X) = Part(m, P)
  BY <1>3
<1>5. \A x \in X : through(P)[x] = t[x]
  BY DEF MeetingAt
<1>6. QED
  <2> HIDE DEF through
  <2>1. Part(through(P), X) = Part(t, X)
    BY Zenon, <1>5, SamePart
  <2>2. QED
    BY <1>4, <2>1

(* A sum of equal values is a multiple.                                    *)
LEMMA PartOfConstant ==
  ASSUME NEW S, IsFiniteSet(S), NEW c \in Int, NEW a, \A x \in S : a[x] = c
  PROVE  Part(a, S) = c * Cardinality(S)
<1> DEFINE F == {T \in SUBSET S : Part(a, T) = c * Cardinality(T)}
<1>1. {} \in F
  <2>1. Part(a, {}) = 0 /\ Cardinality({}) = 0
    BY PartFacts, FS_EmptySet
  <2>2. QED
    BY <2>1
<1>2. ASSUME NEW T \in SUBSET S, NEW y \in S \ T, T \in F
      PROVE  T \cup {y} \in F
  <2>1. IsFiniteSet(T) /\ y \notin T /\ T \cup {y} \in SUBSET S
    BY FS_Subset
  <2>2. \A x \in T \cup {y} : a[x] \in Int /\ a[x] = c
    BY <2>1
  <2>3. Part(a, T \cup {y}) = a[y] + Part(a, T)
    BY <2>1, <2>2, PartAddElement
  <2>4. Cardinality(T) \in Nat /\ Cardinality(T \cup {y}) = Cardinality(T) + 1
    BY <2>1, FS_AddElement, FS_CardinalityType
  <2>5. a[y] = c /\ Part(a, T) = c * Cardinality(T)
    BY <1>2, <2>2
  <2>6. c * (Cardinality(T) + 1) = c + c * Cardinality(T)
    BY <2>4
  <2>7. Part(a, T \cup {y}) = c * Cardinality(T \cup {y})
    BY <2>3, <2>4, <2>5, <2>6
  <2>8. QED
    BY <2>1, <2>7
<1>3. S \in F
  <2> HIDE DEF F
  <2>1. QED
    BY <1>1, <1>2, FiniteInduction
<1>4. QED
  BY <1>3

-----------------------------------------------------------------------------

(* Finite sets in a strict order, given as the set of its pairs. *)
StrictOrder(S, order) ==
  /\ \A x \in S : <<x, x>> \notin order
  /\ \A x, y \in S : x = y \/ <<x, y>> \in order \/ <<y, x>> \in order
  /\ \A x, y, z \in S : <<x, y>> \in order /\ <<y, z>> \in order => <<x, z>> \in order

(* Every nonempty part of the set has a first element.                     *)
LEMMA FirstExists ==
  ASSUME NEW S, IsFiniteSet(S), NEW order, StrictOrder(S, order)
  PROVE  \A T \in SUBSET S :
           T # {} => \E x \in T : \A y \in T \ {x} : <<x, y>> \in order
<1> DEFINE F == {T \in SUBSET S : T # {} => \E x \in T : \A y \in T \ {x} : <<x, y>> \in order}
<1>1. ASSUME NEW T \in SUBSET S, \A x \in T : T \ {x} \in F
      PROVE  T \in F
  <2>1. SUFFICES ASSUME T # {}
                 PROVE  \E x \in T : \A y \in T \ {x} : <<x, y>> \in order
    OBVIOUS
  <2>2. PICK u \in T : TRUE
    BY <2>1
  <2>3. CASE T = {u}
    BY <2>3
  <2>4. CASE T # {u}
    <3>1. T \ {u} # {} /\ T \ {u} \in F
      BY <1>1, <2>2, <2>4
    <3>2. PICK v \in T \ {u} : \A y \in (T \ {u}) \ {v} : <<v, y>> \in order
      BY <3>1
    <3>3. u \in S /\ v \in S /\ u # v
      OBVIOUS
    <3>4. CASE <<v, u>> \in order
      <4>1. \A y \in T \ {v} : <<v, y>> \in order
        BY <3>2, <3>4
      <4>2. QED
        BY <4>1
    <3>5. CASE <<u, v>> \in order
      <4>1. ASSUME NEW y \in T \ {u} PROVE <<u, y>> \in order
        <5>1. CASE y = v
          BY <5>1, <3>5
        <5>2. CASE y # v
          <6>1. <<v, y>> \in order /\ y \in S
            BY <5>2, <3>2
          <6>2. QED
            BY <3>3, <3>5, <6>1 DEF StrictOrder
        <5>3. QED
          BY <5>1, <5>2
      <4>2. QED
        BY <4>1
    <3>6. QED
      BY <3>3, <3>4, <3>5 DEF StrictOrder
  <2>5. QED
    BY <2>3, <2>4
<1>2. \A T \in SUBSET S : T \in F
  <2> HIDE DEF F
  <2>1. QED
    BY <1>1, FiniteDescent
<1>3. QED
  BY <1>2

(* Every nonempty part of the set has a last element.                      *)
LEMMA LastExists ==
  ASSUME NEW S, IsFiniteSet(S), NEW order, StrictOrder(S, order)
  PROVE  \A T \in SUBSET S :
           T # {} => \E x \in T : \A y \in T \ {x} : <<y, x>> \in order
<1> DEFINE reverse == {<<p[2], p[1]>> : p \in {q \in S \X S : q \in order}}
<1>1. \A x, y \in S : <<x, y>> \in reverse <=> <<y, x>> \in order
  <2>1. ASSUME NEW x \in S, NEW y \in S, <<x, y>> \in reverse
        PROVE  <<y, x>> \in order
    <3>1. PICK p \in S \X S : p \in order /\ <<x, y>> = <<p[2], p[1]>>
      BY <2>1
    <3>2. p = <<y, x>>
      BY <3>1
    <3>3. QED
      BY <3>1, <3>2
  <2>2. ASSUME NEW x \in S, NEW y \in S, <<y, x>> \in order
        PROVE  <<x, y>> \in reverse
    <3>1. <<y, x>> \in S \X S /\ <<y, x>>[1] = y /\ <<y, x>>[2] = x
      OBVIOUS
    <3>2. QED
      BY <2>2, <3>1
  <2>3. QED
    BY <2>1, <2>2
<1> HIDE DEF reverse
<1>2. StrictOrder(S, reverse)
  BY <1>1 DEF StrictOrder
<1>3. ASSUME NEW T \in SUBSET S, T # {}
      PROVE  \E x \in T : \A y \in T \ {x} : <<y, x>> \in order
  <2>1. PICK x \in T : \A y \in T \ {x} : <<x, y>> \in reverse
    BY <1>2, <1>3, FirstExists
  <2>2. \A y \in T \ {x} : <<y, x>> \in order
    BY <1>1, <2>1
  <2>3. QED
    BY <2>2
<1>4. QED
  BY <1>3

(* As many elements have a rank below k as k says. *)
Ranked(T, order, k) == {x \in T : Cardinality({y \in T : <<y, x>> \in order}) < k}

(* As many elements as k have fewer than k before them.                    *)
LEMMA RankedCount ==
  ASSUME NEW S, IsFiniteSet(S), NEW order, StrictOrder(S, order)
  PROVE  \A k \in 0..Cardinality(S) : Cardinality(Ranked(S, order, k)) = k
<1> DEFINE Below(T, x) == {y \in T : <<y, x>> \in order}
           F == {T \in SUBSET S :
                   \A k \in 0..Cardinality(T) : Cardinality(Ranked(T, order, k)) = k}
<1>1. \A T \in SUBSET S : IsFiniteSet(T) /\ Cardinality(T) \in Nat
  BY FS_Subset, FS_CardinalityType
<1>2. \A T \in SUBSET S : \A x : /\ Below(T, x) \in SUBSET S
                                 /\ Cardinality(Below(T, x)) \in Nat
  BY <1>1
<1>3. ASSUME NEW T \in SUBSET S, \A x \in T : T \ {x} \in F
      PROVE  T \in F
  <2>1. CASE T = {}
    <3>1. Cardinality(T) = 0 /\ \A k : Ranked(T, order, k) = {}
      BY <2>1, FS_EmptySet DEF Ranked
    <3>2. QED
      BY <2>1, <3>1
  <2>2. CASE T # {}
    <3>1. PICK z \in T : \A y \in T \ {z} : <<y, z>> \in order
      BY <2>2, LastExists
    <3> DEFINE U == T \ {z}
               n == Cardinality(T)
    <3>2. U \in SUBSET S /\ z \notin U /\ U \in F /\ T = U \cup {z} /\ z \in S
      BY <1>3
    <3>3. IsFiniteSet(T) /\ n \in Nat /\ Cardinality(U) = n - 1
      BY <1>1, FS_RemoveElement
    <3>4. Below(T, z) = U
      <4>1. <<z, z>> \notin order
        BY <3>2 DEF StrictOrder
      <4>2. QED
        BY <3>1, <4>1
    <3>5. ASSUME NEW x \in U PROVE Below(T, x) = Below(U, x)
      <4>1. <<z, x>> \notin order
        <5>1. <<x, z>> \in order /\ x \in S /\ z \in S
          BY <3>1, <3>2
        <5>2. QED
          BY <5>1 DEF StrictOrder
      <4>2. QED
        BY <4>1
    <3>6. ASSUME NEW k \in 0..n PROVE Cardinality(Ranked(T, order, k)) = k
      <4>1. CASE k = n
        <5>1. ASSUME NEW x \in T PROVE Cardinality(Below(T, x)) < k
          <6>1. Below(T, x) \in SUBSET (T \ {x})
            <7>1. <<x, x>> \notin order
              BY DEF StrictOrder
            <7>2. QED
              BY <7>1
          <6>2. IsFiniteSet(T \ {x}) /\ Cardinality(T \ {x}) = n - 1
            BY <3>3, FS_RemoveElement
          <6>3. Cardinality(Below(T, x)) <= n - 1
            <7> HIDE DEF Below, n
            <7>1. QED
              BY <6>1, <6>2, FS_Subset
          <6>4. QED
            <7> HIDE DEF Below, n
            <7>1. QED
              BY <1>2, <3>3, <4>1, <6>3
        <5>2. Ranked(T, order, k) = T
          BY <5>1 DEF Ranked
        <5>3. QED
          BY <4>1, <5>2
      <4>2. CASE k < n
        <5>1. k \in 0..Cardinality(U)
          BY <3>3, <4>2
        <5>2. z \notin Ranked(T, order, k)
          <6>1. ~ (Cardinality(Below(T, z)) < k)
            <7>1. Cardinality(Below(T, z)) = n - 1 /\ k \in 0..n
              BY <3>3, <3>4
            <7> HIDE DEF Below, n
            <7>2. QED
              BY <3>3, <4>2, <7>1
          <6>2. QED
            BY <6>1 DEF Ranked
        <5>3. ASSUME NEW x
              PROVE  x \in Ranked(T, order, k) <=> x \in Ranked(U, order, k)
          <6>1. CASE x = z
            BY <5>2, <6>1 DEF Ranked
          <6>2. CASE x \in U
            <7>1. Below(T, x) = Below(U, x)
              BY <3>5, <6>2
            <7>2. QED
              BY <6>2, <7>1 DEF Ranked
          <6>3. CASE x \notin T
            BY <6>3 DEF Ranked
          <6>4. QED
            BY <6>1, <6>2, <6>3
        <5>4. Ranked(T, order, k) = Ranked(U, order, k)
          BY <5>3 DEF Ranked
        <5>5. Cardinality(Ranked(U, order, k)) = k
          BY <3>2, <5>1
        <5>6. QED
          BY <5>4, <5>5
      <4>3. QED
        BY <3>3, <4>1, <4>2
    <3>7. QED
      BY <3>6
  <2>3. QED
    BY <2>1, <2>2
<1>4. \A T \in SUBSET S : T \in F
  <2> HIDE DEF F
  <2>1. QED
    BY <1>3, FiniteDescent
<1>5. QED
  BY <1>4

(* The nodes in their order. *)
BeforeOrder(S) == {p \in S \X S : Before(p[1], p[2])}

(* Before puts the nodes in a strict order.                                *)
LEMMA BeforeIsOrder ==
  ASSUME NEW S \in SUBSET (Int \X Int)
  PROVE  /\ StrictOrder(S, BeforeOrder(S))
         /\ \A m, n \in S : <<m, n>> \in BeforeOrder(S) <=> Before(m, n)
<1>1. \A m, n \in S : <<m, n>> \in BeforeOrder(S) <=> Before(m, n)
  BY DEF BeforeOrder
<1>2. \A n \in S : n = <<n[1], n[2]>> /\ n[1] \in Int /\ n[2] \in Int
  OBVIOUS
<1>3. \A n \in S : ~ Before(n, n)
  BY <1>2 DEF Before
<1>4. ASSUME NEW m \in S, NEW n \in S
      PROVE  m = n \/ Before(m, n) \/ Before(n, m)
  <2>1. m[1] = n[1] /\ m[2] = n[2] => m = n
    BY <1>2
  <2>2. m[1] \in Int /\ m[2] \in Int /\ n[1] \in Int /\ n[2] \in Int
    BY <1>2
  <2>3. QED
    BY <2>1, <2>2 DEF Before
<1>5. ASSUME NEW l \in S, NEW m \in S, NEW n \in S, Before(l, m), Before(m, n)
      PROVE  Before(l, n)
  <2>1. /\ l[1] \in Int /\ l[2] \in Int /\ m[1] \in Int /\ m[2] \in Int
        /\ n[1] \in Int /\ n[2] \in Int
    BY <1>2
  <2>2. QED
    BY <1>5, <2>1 DEF Before
<1> HIDE DEF BeforeOrder
<1>6. StrictOrder(S, BeforeOrder(S))
  BY <1>1, <1>3, <1>4, <1>5 DEF StrictOrder
<1>7. QED
  BY <1>1, <1>6

(* Shares that add up to a whole number of parts are rounded so that the   *)
(* sum is kept, each to a number next to it.                               *)
THEOREM ApportionedFacts ==
  ASSUME NEW S \in SUBSET (Int \X Int), IsFiniteSet(S), NEW share \in [S -> Int],
         NEW parts \in Nat \ {0}, NEW total \in Int, Total(share) = parts * total
  PROVE  LET change == Apportioned(share, parts, total)
         IN /\ change \in [S -> Int] /\ Total(change) = total
            /\ \A node \in S : \A low, high \in Int :
                 parts * low <= share[node] /\ share[node] <= parts * high
                   => low <= change[node] /\ change[node] <= high
<1> DEFINE whole == [node \in S |-> share[node] \div parts]
           rest == [node \in S |-> share[node] % parts]
           split == {node \in S : share[node] % parts # 0}
           k == total - Total(whole)
           bonus == [node \in S |->
                       IF node \in split /\ Cardinality({n \in split : Before(n, node)}) < k
                       THEN 1 ELSE 0]
           change == Apportioned(share, parts, total)
           up == Ranked(split, BeforeOrder(split), k)
<1>1. DOMAIN share = S /\ \A node \in S : share[node] \in Int
  OBVIOUS
<1>2. change = [node \in S |-> whole[node] + bonus[node]]
  BY <1>1 DEF Apportioned
<1>3. \A node \in S : /\ whole[node] \in Int /\ rest[node] \in 0..(parts - 1)
                      /\ share[node] = parts * whole[node] + rest[node]
                      /\ bonus[node] \in {0, 1} /\ (node \notin split => bonus[node] = 0)
                      /\ (node \notin split <=> rest[node] = 0)
  <2>1. ASSUME NEW node \in S
        PROVE  /\ share[node] \div parts \in Int /\ share[node] % parts \in 0..(parts - 1)
               /\ share[node] = parts * (share[node] \div parts) + (share[node] % parts)
    BY <1>1, Quotient
  <2>2. QED
    BY <2>1
<1>4. split \in SUBSET S /\ IsFiniteSet(split) /\ split \in SUBSET (Int \X Int)
  BY FS_Subset
<1>5. whole \in [S -> Int]
  BY <1>3
<1>6. Total(whole) = Part(whole, S) /\ Part(whole, S) \in Int /\ Total(share) = Part(share, S)
  <2>1. \A node \in S : whole[node] \in Int
    BY <1>3
  <2> HIDE DEF whole
  <2>2. QED
    BY <1>5, <2>1, SumIsPart, PartFacts
<1>7. k \in Int
  BY <1>6
<1>8. parts * k = Part(rest, S)
  <2> DEFINE times == [node \in S |-> parts * whole[node]]
  <2>1. \A node \in S : /\ times[node] = parts * whole[node] /\ times[node] \in Int
                        /\ rest[node] \in Int
                        /\ share[node] = times[node] + rest[node]
    BY <1>3
  <2>2. Part(times, S) = parts * Part(whole, S)
    <3>1. \A node \in S : whole[node] \in Int /\ times[node] = parts * whole[node]
      BY <1>3
    <3>2. parts \in Int
      OBVIOUS
    <3> HIDE DEF times, whole, rest
    <3>3. QED
      BY <3>1, <3>2, PartScales
  <2> HIDE DEF times, whole, rest
  <2>3. Part(share, S) = Part(times, S) + Part(rest, S) /\ Part(rest, S) \in Int
    BY <2>1, PartAdds, PartFacts
  <2>4. parts * total = parts * Part(whole, S) + Part(rest, S)
    BY <1>6, <2>2, <2>3
  <2>5. parts * (total - Part(whole, S)) = parts * total - parts * Part(whole, S)
    BY <1>6
  <2>6. QED
    BY <1>6, <2>3, <2>4, <2>5
<1>9. k \in 0..Cardinality(split)
  <2> DEFINE most == [node \in S |-> IF node \in split THEN parts - 1 ELSE 0]
             c == Cardinality(split)
  <2>1. c \in Nat
    BY <1>4, FS_CardinalityType
  <2>2. Part(rest, S) \in Nat
    <3>1. \A node \in S : rest[node] \in Nat
      BY <1>3
    <3> HIDE DEF rest
    <3>2. QED
      BY <3>1, PartOfNats
  <2>3. Part(rest, S) <= (parts - 1) * c
    <3>1. \A node \in S : rest[node] \in Int /\ most[node] \in Int /\ rest[node] <= most[node]
      BY <1>3
    <3>2. \A node \in split : most[node] = parts - 1
      BY <1>4
    <3>3. \A node \in S \ split : most[node] = 0
      OBVIOUS
    <3>4. S \ split \in SUBSET S /\ split \cup (S \ split) = S /\ split \cap (S \ split) = {}
      OBVIOUS
    <3>5. IsFiniteSet(S \ split)
      BY <3>4, FS_Subset
    <3>6. parts - 1 \in Int
      OBVIOUS
    <3> HIDE DEF most, rest, split
    <3>7. Part(rest, S) <= Part(most, S)
      BY <3>1, PartGrows
    <3>8. Part(most, split) = (parts - 1) * c
      BY <1>4, <3>2, <3>6, PartOfConstant
    <3>9. Part(most, S \ split) = 0
      BY <3>3, <3>5, PartOfZeros
    <3>10. Part(most, split \cup (S \ split)) = Part(most, split) + Part(most, S \ split)
      BY <1>4, <3>1, <3>4, <3>5, PartUnion
    <3>11. Part(most, S) = Part(most, split) + Part(most, S \ split)
      BY <3>4, <3>10
    <3>12. (parts - 1) * c \in Int
      BY <2>1
    <3>13. QED
      BY <3>7, <3>8, <3>9, <3>11, <3>12
  <2> HIDE DEF c
  <2>4. k >= 0
    <3>1. parts * k >= 0
      BY <1>8, <2>2
    <3> HIDE DEF k
    <3>2. k < 0 => parts * k < 0
      BY <1>7
    <3>3. QED
      BY <1>7, <3>1, <3>2
  <2>5. k <= c
    <3>1. parts * k <= (parts - 1) * c
      BY <1>8, <2>3
    <3> HIDE DEF k
    <3>2. (parts - 1) * c = parts * c - c
      BY <2>1
    <3>3. k > c => parts * k > parts * c
      BY <1>7, <2>1
    <3>4. parts * c \in Int /\ parts * k \in Int
      BY <1>7, <2>1
    <3>5. QED
      BY <1>7, <2>1, <3>1, <3>2, <3>3, <3>4
  <2>6. QED
    BY <1>7, <2>1, <2>4, <2>5 DEF c
<1>10. Part(bonus, S) = k
  <2>1. StrictOrder(split, BeforeOrder(split))
    BY <1>4, BeforeIsOrder
  <2>2. Cardinality(up) = k
    <3> HIDE DEF split, k
    <3>1. QED
      BY <1>4, <1>9, <2>1, RankedCount
  <2>3. \A node \in split : {n \in split : Before(n, node)} = {n \in split : <<n, node>> \in BeforeOrder(split)}
    <3> HIDE DEF split
    <3>1. QED
      BY <1>4, BeforeIsOrder
  <2>4. /\ up \in SUBSET S /\ \A node \in up : bonus[node] = 1
        /\ \A node \in S \ up : bonus[node] = 0
    <3>1. \A node \in S : node \in up <=> node \in split /\ Cardinality({n \in split : Before(n, node)}) < k
      BY <2>3 DEF Ranked
    <3>2. up \in SUBSET split
      BY DEF Ranked
    <3> HIDE DEF up, split, k
    <3>3. QED
      BY <1>4, <3>1, <3>2
  <2> HIDE DEF up, bonus, k
  <2>5. IsFiniteSet(up) /\ IsFiniteSet(S \ up) /\ up \cup (S \ up) = S /\ up \cap (S \ up) = {}
    <3>1. S \ up \in SUBSET S
      OBVIOUS
    <3>2. QED
      BY <2>4, <3>1, FS_Subset
  <2>6. Part(bonus, up) = 1 * Cardinality(up)
    BY <2>4, <2>5, PartOfConstant
  <2>7. Part(bonus, S \ up) = 0
    BY <2>4, <2>5, PartOfZeros
  <2>8. Part(bonus, up \cup (S \ up)) = Part(bonus, up) + Part(bonus, S \ up)
    <3>1. \A node \in up \cup (S \ up) : bonus[node] \in Int
      BY <2>4
    <3>2. QED
      BY <2>5, <3>1, PartUnion
  <2>9. Part(bonus, S) = Part(bonus, up) + Part(bonus, S \ up)
    BY <2>5, <2>8
  <2>10. QED
    BY <1>7, <2>2, <2>6, <2>7, <2>9
<1>11. change \in [S -> Int] /\ Total(change) = total
  <2>1. /\ \A node \in S : /\ change[node] = whole[node] + bonus[node] /\ whole[node] \in Int
                           /\ bonus[node] \in Int
        /\ change = [node \in S |-> change[node]]
    BY <1>2, <1>3
  <2>2. k = total - Part(whole, S)
    BY <1>6
  <2> HIDE DEF change, whole, bonus, k
  <2>3. Part(change, S) = Part(whole, S) + Part(bonus, S)
    BY <2>1, PartAdds
  <2>6. change \in [S -> Int]
    BY <2>1
  <2>4. Total(change) = Part(change, S)
    BY <2>6, SumIsPart
  <2>5. Total(change) = total
    BY <1>6, <1>10, <2>2, <2>3, <2>4
  <2>7. QED
    BY <2>5, <2>6
<1>12. ASSUME NEW node \in S, NEW low \in Int, NEW high \in Int,
              parts * low <= share[node], share[node] <= parts * high
       PROVE  low <= change[node] /\ change[node] <= high
  <2> DEFINE q == whole[node]
             r == rest[node]
             b == bonus[node]
  <2>1. /\ change[node] = q + b /\ q \in Int /\ r \in 0..(parts - 1)
        /\ share[node] = parts * q + r /\ b \in {0, 1} /\ (r = 0 => b = 0)
    BY <1>2, <1>3
  <2> HIDE DEF q, r, b, change
  <2>2. low <= q
    <3>1. parts * low <= parts * q + r
      BY <1>12, <2>1
    <3>2. SUFFICES ASSUME q + 1 <= low PROVE FALSE
      BY <2>1
    <3>3. parts * (q + 1) <= parts * low
      BY <2>1, <3>2
    <3>4. parts * (q + 1) = parts * q + parts
      BY <2>1
    <3>5. parts * q \in Int /\ parts * low \in Int
      BY <2>1
    <3>6. QED
      BY <2>1, <3>1, <3>3, <3>4, <3>5
  <2>3. q + b <= high
    <3>1. parts * q + r <= parts * high
      BY <1>12, <2>1
    <3>2. SUFFICES ASSUME high + 1 <= q + b PROVE FALSE
      BY <2>1
    <3>3. CASE b = 0
      <4>1. parts * (high + 1) <= parts * q
        BY <2>1, <3>2, <3>3
      <4>2. parts * (high + 1) = parts * high + parts
        OBVIOUS
      <4>3. parts * q \in Int /\ parts * high \in Int /\ r \in Nat
        BY <2>1
      <4>4. parts * high + parts <= parts * high
        BY <3>1, <4>1, <4>2, <4>3
      <4>5. QED
        BY <4>3, <4>4
    <3>4. CASE b = 1
      <4>1. parts * high <= parts * q /\ r > 0
        BY <2>1, <3>2, <3>4
      <4>2. parts * q \in Int /\ parts * high \in Int
        BY <2>1
      <4>3. QED
        BY <2>1, <3>1, <4>1, <4>2
    <3>5. QED
      BY <2>1, <3>3, <3>4
  <2>4. QED
    BY <2>1, <2>2, <2>3
<1>13. QED
  BY <1>11, <1>12

(* The smaller of two numbers.                                             *)
LEMMA MinOfTwo ==
  ASSUME NEW a \in Int, NEW b \in Int
  PROVE  Min({a, b}) = IF a <= b THEN a ELSE b
<1> DEFINE m == IF a <= b THEN a ELSE b
<1>1. m \in {a, b} /\ \A y \in {a, b} : m <= y
  OBVIOUS
<1>2. \A x \in {a, b} : (\A y \in {a, b} : x <= y) => x = m
  OBVIOUS
<1>3. Min({a, b}) \in {a, b} /\ \A y \in {a, b} : Min({a, b}) <= y
  <2> HIDE DEF m
  <2>1. QED
    BY <1>1 DEF Min
<1>4. QED
  BY <1>2, <1>3

(* The order of ratios with positive denominators. *)
LEMMA CrossOrder ==
  ASSUME NEW a \in Int, NEW b \in Nat \ {0}, NEW c \in Int, NEW d \in Nat \ {0},
         NEW e \in Int, NEW f \in Nat \ {0}, a * d <= c * b, c * f <= e * d
  PROVE  /\ a * f <= e * b
         /\ a * f = e * b => a * d = c * b /\ c * f = e * d
<1> DEFINE x == a * f
           y == e * b
           u == a * d
           v == c * b
           s == c * f
           t == e * d
<1>1. x \in Int /\ y \in Int /\ u \in Int /\ v \in Int /\ s \in Int /\ t \in Int
  OBVIOUS
<1>2. u * f = d * x /\ v * f = s * b /\ t * b = d * y
  OBVIOUS
<1>3. u <= v /\ s <= t
  OBVIOUS
<1> HIDE DEF x, y, u, v, s, t
<1>4. u * f <= v * f /\ (u < v => u * f < v * f)
  BY <1>1, <1>3
<1>5. s * b <= t * b /\ (s < t => s * b < t * b)
  BY <1>1, <1>3
<1>6. d * x <= d * y /\ (u < v \/ s < t => d * x < d * y)
  <2>1. d * x \in Int /\ d * y \in Int /\ v * f \in Int /\ s * b \in Int /\ t * b \in Int
    BY <1>1
  <2>2. QED
    BY <1>2, <1>4, <1>5, <2>1
<1>7. x <= y
  <2>1. x > y => d * x > d * y
    BY <1>1
  <2>2. d * x \in Int /\ d * y \in Int
    BY <1>1
  <2>3. QED
    BY <1>1, <1>6, <2>1, <2>2
<1>8. x = y => u = v /\ s = t
  BY <1>1, <1>3, <1>6
<1>9. QED
  BY <1>7, <1>8 DEF x, y, u, v, s, t

(* The order in which the nodes run out of room. *)
SweepOrder(S, room, slope) == {p \in S \X S : RunsOutFirst(room, slope, p[1], p[2])}

(* RunsOutFirst, with its ties broken by Before, is a strict order.        *)
LEMMA SweepIsOrder ==
  ASSUME NEW S \in SUBSET (Int \X Int), NEW room, NEW slope,
         \A n \in S : room[n] \in Nat /\ slope[n] \in Nat \ {0}
  PROVE  /\ StrictOrder(S, SweepOrder(S, room, slope))
         /\ \A m, n \in S : <<m, n>> \in SweepOrder(S, room, slope) <=> RunsOutFirst(room, slope, m, n)
<1>1. \A m, n \in S : <<m, n>> \in SweepOrder(S, room, slope) <=> RunsOutFirst(room, slope, m, n)
  BY DEF SweepOrder
<1>2. /\ \A n \in S : ~ Before(n, n)
      /\ \A m, n \in S : m = n \/ Before(m, n) \/ Before(n, m)
      /\ \A l, m, n \in S : Before(l, m) /\ Before(m, n) => Before(l, n)
  BY BeforeIsOrder DEF StrictOrder
<1>3. \A m, n \in S : room[m] * slope[n] \in Int
  OBVIOUS
<1>4. \A n \in S : ~ RunsOutFirst(room, slope, n, n)
  BY <1>2, <1>3 DEF RunsOutFirst
<1>5. ASSUME NEW m \in S, NEW n \in S
      PROVE  m = n \/ RunsOutFirst(room, slope, m, n) \/ RunsOutFirst(room, slope, n, m)
  <2> DEFINE u == room[m] * slope[n]
             v == room[n] * slope[m]
  <2>1. u \in Int /\ v \in Int
    BY <1>3
  <2>2. u < v \/ v < u \/ u = v
    <3> HIDE DEF u, v
    <3>1. QED
      BY <2>1
  <2>3. QED
    BY <1>2, <2>2 DEF RunsOutFirst
<1>6. ASSUME NEW l \in S, NEW m \in S, NEW n \in S,
             RunsOutFirst(room, slope, l, m), RunsOutFirst(room, slope, m, n)
      PROVE  RunsOutFirst(room, slope, l, n)
  <2> DEFINE a == room[l] * slope[m]
             b == room[m] * slope[l]
             c == room[m] * slope[n]
             d == room[n] * slope[m]
             e == room[l] * slope[n]
             f == room[n] * slope[l]
  <2>1. /\ a \in Int /\ b \in Int /\ c \in Int /\ d \in Int /\ e \in Int /\ f \in Int
    BY <1>3
  <2>2. a < b \/ (a = b /\ Before(l, m))
    BY <1>6 DEF RunsOutFirst
  <2>3. c < d \/ (c = d /\ Before(m, n))
    BY <1>6 DEF RunsOutFirst
  <2>4. e <= f /\ (e = f => a = b /\ c = d)
    <3>1. a <= b /\ c <= d
      <4> HIDE DEF a, b, c, d
      <4>1. QED
        BY <2>1, <2>2, <2>3
    <3>2. /\ room[l] \in Int /\ slope[l] \in Nat \ {0} /\ room[m] \in Int
          /\ slope[m] \in Nat \ {0} /\ room[n] \in Int /\ slope[n] \in Nat \ {0}
      OBVIOUS
    <3>3. /\ room[l] * slope[n] <= room[n] * slope[l]
          /\ (room[l] * slope[n] = room[n] * slope[l]
                => /\ room[l] * slope[m] = room[m] * slope[l]
                   /\ room[m] * slope[n] = room[n] * slope[m])
      <4> DEFINE rl == room[l]
                 rm == room[m]
                 rn == room[n]
                 sl == slope[l]
                 sm == slope[m]
                 sn == slope[n]
      <4>1. /\ rl \in Int /\ rm \in Int /\ rn \in Int /\ sl \in Nat \ {0} /\ sm \in Nat \ {0}
            /\ sn \in Nat \ {0} /\ rl * sm <= rm * sl /\ rm * sn <= rn * sm
        BY <3>1, <3>2
      <4> HIDE DEF rl, rm, rn, sl, sm, sn
      <4>2. rl * sn <= rn * sl /\ (rl * sn = rn * sl => rl * sm = rm * sl /\ rm * sn = rn * sm)
        BY <4>1, CrossOrder
      <4>3. QED
        BY <4>2 DEF rl, rm, rn, sl, sm, sn
    <3>4. QED
      BY <3>3
  <2>5. e < f \/ (e = f /\ Before(l, n))
    <3>1. CASE e = f
      <4>1. a = b /\ c = d
        BY <2>4, <3>1
      <4>2. Before(l, m) /\ Before(m, n)
        <5> HIDE DEF a, b, c, d
        <5>1. QED
          BY <2>1, <2>2, <2>3, <4>1
      <4>3. QED
        BY <1>2, <3>1, <4>2
    <3>2. CASE e # f
      <4> HIDE DEF e, f
      <4>1. QED
        BY <2>1, <2>4, <3>2
    <3>3. QED
      BY <3>1, <3>2
  <2>6. QED
    BY <2>5 DEF RunsOutFirst
<1> HIDE DEF SweepOrder
<1>7. StrictOrder(S, SweepOrder(S, room, slope))
  <2>1. \A n \in S : <<n, n>> \notin SweepOrder(S, room, slope)
    BY <1>1, <1>4
  <2>2. \A m, n \in S : \/ m = n \/ <<m, n>> \in SweepOrder(S, room, slope)
                        \/ <<n, m>> \in SweepOrder(S, room, slope)
    BY <1>1, <1>5
  <2>3. \A l, m, n \in S :
          <<l, m>> \in SweepOrder(S, room, slope) /\ <<m, n>> \in SweepOrder(S, room, slope)
            => <<l, n>> \in SweepOrder(S, room, slope)
    BY <1>1, <1>6
  <2>4. QED
    BY <2>1, <2>2, <2>3 DEF StrictOrder
<1>8. QED
  BY <1>1, <1>7

(* solve_height_delta: the change asked for, no node beyond its room. *)
THEOREM SolveHeightDeltaFacts ==
  ASSUME NEW S \in SUBSET (Int \X Int), IsFiniteSet(S), NEW slope \in [S -> Nat \ {0}],
         NEW room \in [S -> Nat], NEW requested \in Nat, requested <= Total(room)
  PROVE  LET delta == SolveHeightDelta(slope, room, requested)
         IN /\ delta \in [S -> Int] /\ Total(delta) = requested
            /\ \A node \in S : delta[node] \in 0..room[node]
<1> DEFINE delta == SolveHeightDelta(slope, room, requested)
           order == {node \in S : slope[node] > 0 /\ room[node] > 0}
           earlier(node) == {n \in order : RunsOutFirst(room, slope, n, node)}
           left(node) == requested - Total([n \in earlier(node) |-> room[n]])
           rate(node) == Total([n \in order \ earlier(node) |-> slope[n]])
           reached == {node \in order : left(node) * slope[node] <= room[node] * rate(node)}
<1>1. DOMAIN room = S /\ \A n \in S : room[n] \in Nat /\ room[n] \in Int
                                       /\ slope[n] \in Nat \ {0} /\ slope[n] \in Int
  OBVIOUS
<1>2. Total(room) = Part(room, S)
  <2>1. room \in [S -> Int]
    BY <1>1
  <2>2. QED
    BY <2>1, SumIsPart
<1>3. CASE requested = 0
  <2>1. delta = [node \in S |-> 0]
    BY <1>1, <1>3 DEF SolveHeightDelta
  <2>2. delta \in [S -> Int] /\ \A node \in S : delta[node] = 0
    BY <2>1
  <2> HIDE DEF delta
  <2>3. Total(delta) = 0
    BY <2>2, SumIsPart, PartOfZeros
  <2>4. QED
    BY <1>1, <1>3, <2>2, <2>3 DEF delta
<1>4. CASE requested # 0 /\ requested >= Total(room)
  <2>1. delta = room
    BY <1>4 DEF SolveHeightDelta
  <2>2. Part(room, S) \in Nat
    BY <1>1, PartOfNats
  <2>3. requested = Total(room)
    BY <1>2, <1>4, <2>2
  <2>4. delta \in [S -> Int] /\ \A node \in S : delta[node] \in 0..room[node]
    BY <1>1, <2>1
  <2>5. QED
    BY <2>1, <2>3, <2>4
<1>5. CASE requested # 0 /\ ~ (requested >= Total(room))
  <2>1. /\ order \in SUBSET S /\ order \in SUBSET (Int \X Int)
        /\ \A n \in S : n \in order <=> room[n] > 0
        /\ \A n \in S \ order : room[n] = 0
    BY <1>1
  <2>2. /\ IsFiniteSet(order) /\ IsFiniteSet(S \ order)
        /\ S = order \cup (S \ order) /\ order \cap (S \ order) = {}
    <3>1. S \ order \in SUBSET S
      OBVIOUS
    <3> HIDE DEF order
    <3>2. QED
      BY <2>1, <3>1, FS_Subset
  <2> HIDE DEF order
  <2>3. /\ \A T \in SUBSET order : IsFiniteSet(T)
        /\ \A T \in SUBSET order : Part(room, T) \in Nat /\ Part(slope, T) \in Nat
    <3>1. \A T \in SUBSET order : IsFiniteSet(T)
      BY <2>2, FS_Subset
    <3>2. \A x \in order : room[x] \in Nat /\ slope[x] \in Nat
      BY <1>1, <2>1
    <3>3. QED
      BY <2>2, <3>1, <3>2, PartOfNats
  <2>4. Part(room, order) = Total(room)
    <3>1. Part(room, S \ order) = 0
      BY <2>1, <2>2, PartOfZeros
    <3>2. \A x \in order \cup (S \ order) : room[x] \in Int
      BY <1>1, <2>1
    <3>3. Part(room, order \cup (S \ order)) = Part(room, order) + Part(room, S \ order)
      BY <2>2, <3>2, PartUnion
    <3>4. Part(room, S) = Part(room, order) + Part(room, S \ order) /\ Part(room, order) \in Nat
      BY <2>2, <2>3, <3>3
    <3>5. QED
      BY <1>2, <3>1, <3>4
  <2>5. requested < Part(room, order)
    BY <1>5, <2>3, <2>4
  <2>6. /\ StrictOrder(order, SweepOrder(order, room, slope))
        /\ \A m, n \in order : <<m, n>> \in SweepOrder(order, room, slope)
                                 <=> RunsOutFirst(room, slope, m, n)
    BY <1>1, <2>1, SweepIsOrder
  <2>7. /\ \A n \in order : ~ RunsOutFirst(room, slope, n, n)
        /\ \A m, n \in order : \/ m = n \/ RunsOutFirst(room, slope, m, n)
                               \/ RunsOutFirst(room, slope, n, m)
        /\ \A l, m, n \in order :
             RunsOutFirst(room, slope, l, m) /\ RunsOutFirst(room, slope, m, n)
               => RunsOutFirst(room, slope, l, n)
    BY <2>6 DEF StrictOrder
  <2>8. \A n \in order : /\ earlier(n) \in SUBSET order /\ order \ earlier(n) \in SUBSET order
                         /\ left(n) = requested - Part(room, earlier(n))
                         /\ rate(n) = Part(slope, order \ earlier(n))
                         /\ n \in order \ earlier(n)
    BY <2>7 DEF Part
  <2> HIDE DEF left, rate
  <2>9. \A n \in order : /\ left(n) \in Int /\ rate(n) \in Nat \ {0}
                         /\ Part(room, earlier(n)) = requested - left(n)
    <3>1. ASSUME NEW n \in order PROVE left(n) \in Int /\ rate(n) \in Nat \ {0}
                                       /\ Part(room, earlier(n)) = requested - left(n)
      <4>1. Part(room, earlier(n)) \in Nat /\ Part(slope, order \ earlier(n)) \in Nat
        BY <2>3, <2>8
      <4>2. slope[n] <= Part(slope, order \ earlier(n)) /\ slope[n] \in Nat \ {0}
        <5>1. IsFiniteSet(order \ earlier(n)) /\ \A x \in order \ earlier(n) : slope[x] \in Nat
          BY <1>1, <2>1, <2>3, <2>8
        <5>2. n \in order \ earlier(n)
          BY <2>8
        <5> HIDE DEF earlier
        <5>3. slope[n] <= Part(slope, order \ earlier(n))
          BY <5>1, <5>2, PartOfNats
        <5>4. QED
          BY <1>1, <2>1, <5>3
      <4> HIDE DEF earlier
      <4>3. QED
        BY <2>8, <4>1, <4>2
    <3>2. QED
      BY <3>1
  <2>10. reached # {}
    <3>1. order # {}
      <4>1. Part(room, {}) = 0
        BY FS_EmptySet, PartFacts
      <4>2. ASSUME order = {} PROVE FALSE
        <5>1. Part(room, order) = 0
          BY <4>1, <4>2
        <5>2. QED
          BY <2>5, <5>1
      <4>3. QED
        BY <4>2
    <3>2. PICK z \in order : \A n \in order \ {z} : <<n, z>> \in SweepOrder(order, room, slope)
      BY <2>2, <2>6, <3>1, LastExists
    <3>3. earlier(z) = order \ {z}
      BY <2>6, <2>7, <3>2
    <3>4. order \ earlier(z) = {z}
      BY <3>3
    <3>5. rate(z) = slope[z]
      <4>1. rate(z) = Part(slope, {z})
        BY <2>8, <3>4
      <4>2. Part(slope, {z}) = slope[z] + Part(slope, {z} \ {z}) /\ Part(slope, {}) = 0
        <5>1. IsFiniteSet({z}) /\ \A x \in {z} : slope[x] \in Int
          BY <1>1, <2>1, FS_Singleton
        <5>2. QED
          BY <5>1, PartFacts
      <4>3. {z} \ {z} = {} /\ slope[z] \in Nat
        BY <1>1, <2>1
      <4>4. QED
        BY <4>1, <4>2, <4>3
    <3>6. left(z) < room[z]
      <4>1. Part(room, order) = room[z] + Part(room, order \ {z})
        <5>1. \A x \in order : room[x] \in Int
          BY <1>1, <2>1
        <5>2. QED
          BY <2>2, <5>1, PartFacts
      <4>2. Part(room, order \ {z}) = requested - left(z)
        BY <2>9, <3>3
      <4>3. room[z] \in Nat /\ left(z) \in Int
        BY <1>1, <2>1, <2>9
      <4>4. QED
        BY <2>5, <4>1, <4>2, <4>3
    <3>7. left(z) * slope[z] <= room[z] * rate(z)
      <4>1. left(z) \in Int /\ room[z] \in Int /\ slope[z] \in Nat
        BY <1>1, <2>1, <2>9
      <4>2. left(z) * slope[z] <= room[z] * slope[z]
        BY <3>6, <4>1
      <4>3. QED
        BY <3>5, <4>2
    <3>8. QED
      BY <3>7
  <2> DEFINE last == CHOOSE node \in reached :
                       \A n \in reached \ {node} : RunsOutFirst(room, slope, node, n)
             before == earlier(last)
             after == order \ before
             L == left(last)
             R == rate(last)
             share == [node \in S |-> Min({L * slope[node], room[node] * R})]
  <2>11. delta = Apportioned(share, R, requested)
    BY <1>1, <1>5, <2>10 DEF SolveHeightDelta, left, rate, order
  <2>12. last \in reached /\ \A n \in reached \ {last} : RunsOutFirst(room, slope, last, n)
    <3>1. reached \in SUBSET order
      OBVIOUS
    <3>2. \E x \in reached : \A y \in reached \ {x} : RunsOutFirst(room, slope, x, y)
      <4> HIDE DEF reached
      <4>1. PICK x \in reached : \A y \in reached \ {x} : <<x, y>> \in SweepOrder(order, room, slope)
        BY <2>2, <2>6, <2>10, <3>1, FirstExists
      <4>2. QED
        BY <2>6, <3>1, <4>1
    <3> HIDE DEF reached
    <3>3. QED
      BY <3>2
  <2>13. last \in order /\ L * slope[last] <= room[last] * R
    BY <2>12
  <2>14. /\ before \in SUBSET order /\ after \in SUBSET order /\ last \in after
         /\ order = before \cup after /\ before \cap after = {}
    <3>1. before \in SUBSET order
      OBVIOUS
    <3>2. last \in after
      BY <2>7, <2>13
    <3> HIDE DEF before
    <3>3. QED
      BY <3>1, <3>2
  <2>15. \A n \in before : ~ (left(n) * slope[n] <= room[n] * rate(n))
    <3>1. ASSUME NEW n \in before, left(n) * slope[n] <= room[n] * rate(n)
          PROVE  FALSE
      <4>1. n \in order /\ RunsOutFirst(room, slope, n, last)
        OBVIOUS
      <4>2. n \in reached /\ n # last
        BY <2>7, <3>1, <4>1
      <4>3. RunsOutFirst(room, slope, last, n)
        BY <2>12, <4>2
      <4>4. QED
        BY <2>7, <2>13, <4>1, <4>3
    <3>2. QED
      BY <3>1
  <2>16. \A n \in after : n = last \/ RunsOutFirst(room, slope, last, n)
    <3>1. \A n \in after : n \in order /\ ~ RunsOutFirst(room, slope, n, last)
      OBVIOUS
    <3> HIDE DEF after
    <3>2. QED
      BY <2>7, <2>13, <3>1
  <2>17. \A m, n \in order : RunsOutFirst(room, slope, m, n) => room[m] * slope[n] <= room[n] * slope[m]
    <3>1. ASSUME NEW m \in order, NEW n \in order, RunsOutFirst(room, slope, m, n)
          PROVE  room[m] * slope[n] <= room[n] * slope[m]
      <4>1. room[m] * slope[n] \in Int /\ room[n] * slope[m] \in Int
        BY <1>1, <2>1
      <4>2. QED
        BY <3>1, <4>1 DEF RunsOutFirst
    <3>2. QED
      BY <3>1
  <2>18. /\ L \in Int /\ R \in Nat \ {0} /\ Part(room, before) = requested - L
         /\ R = Part(slope, after)
    BY <2>8, <2>9, <2>13
  <2>19. ASSUME NEW p \in before, \A n \in before \ {p} : RunsOutFirst(room, slope, n, p)
         PROVE  room[p] * R < L * slope[p]
    <3>1. /\ p \in order /\ RunsOutFirst(room, slope, p, last)
      OBVIOUS
    <3>2. earlier(p) = before \ {p}
      <4>1. ASSUME NEW n \in earlier(p) PROVE n \in before /\ n # p
        <5>1. n \in order /\ RunsOutFirst(room, slope, n, p)
          OBVIOUS
        <5>2. RunsOutFirst(room, slope, n, last)
          BY <2>7, <2>13, <3>1, <5>1
        <5>3. QED
          BY <2>7, <3>1, <5>1, <5>2
      <4>2. \A n \in before \ {p} : n \in earlier(p)
        BY <2>19
      <4> HIDE DEF earlier, before
      <4>3. QED
        BY <4>1, <4>2
    <3>3. order \ earlier(p) = after \cup {p} /\ p \notin after
      <4> HIDE DEF earlier, before
      <4>1. QED
        BY <2>14, <3>1, <3>2
    <3>4. Part(room, before) = room[p] + Part(room, earlier(p))
      <4>1. IsFiniteSet(before) /\ \A x \in before : room[x] \in Int
        <5> HIDE DEF before
        <5>1. QED
          BY <1>1, <2>1, <2>3, <2>14
      <4> HIDE DEF before, earlier
      <4>2. Part(room, before) = room[p] + Part(room, before \ {p})
        BY <4>1, PartFacts
      <4>3. QED
        BY <3>2, <4>2
    <3>5. rate(p) = slope[p] + R
      <4>1. IsFiniteSet(after) /\ \A x \in after \cup {p} : slope[x] \in Int
        <5> HIDE DEF before, after
        <5>1. QED
          BY <1>1, <2>1, <2>3, <2>14, <3>1
      <4>2. rate(p) = Part(slope, order \ earlier(p))
        BY <2>8, <3>1
      <4> HIDE DEF before, after, earlier, R
      <4>3. Part(slope, after \cup {p}) = slope[p] + Part(slope, after)
        BY <3>3, <4>1, PartAddElement
      <4>4. QED
        BY <2>18, <3>3, <4>2, <4>3
    <3> DEFINE k == slope[p]
               r == room[p]
               lp == left(p)
    <3>6. k \in Nat \ {0} /\ r \in Nat \ {0} /\ lp \in Int
      <4>1. p \in S /\ room[p] > 0 /\ left(p) \in Int
        BY <2>1, <2>9, <3>1
      <4>2. room[p] \in Nat /\ slope[p] \in Nat \ {0}
        BY <1>1, <4>1
      <4>3. QED
        BY <4>1, <4>2
    <3>7. lp = L + r
      <4>1. Part(room, earlier(p)) = requested - lp
        BY <2>9, <3>1
      <4> HIDE DEF lp, r, L, before, earlier
      <4>2. requested - L = r + (requested - lp)
        BY <2>18, <3>4, <4>1 DEF r
      <4>3. QED
        BY <2>18, <3>6, <4>2
    <3>8. ~ (lp * k <= r * rate(p))
      BY <2>15
    <3> HIDE DEF k, r, lp, L, R, before, earlier
    <3>9. ~ ((L + r) * k <= r * (k + R))
      BY <3>5, <3>7, <3>8 DEF k
    <3>10. (L + r) * k = L * k + r * k /\ r * (k + R) = r * k + r * R
      BY <2>18, <3>6
    <3>11. L * k \in Int /\ r * k \in Int /\ r * R \in Int
      BY <2>18, <3>6
    <3>12. r * R < L * k
      BY <3>9, <3>10, <3>11
    <3>13. QED
      BY <3>12 DEF k, r
  <2>20. L >= 0 /\ \A n \in before : room[n] * R <= L * slope[n]
    <3>1. CASE before = {}
      <4>1. Part(room, {}) = 0
        BY PartFacts, FS_EmptySet
      <4> HIDE DEF before, L, R
      <4>2. L = requested
        BY <2>18, <3>1, <4>1
      <4>3. QED
        BY <3>1, <4>2
    <3>2. CASE before # {}
      <4>1. PICK p \in before : \A n \in before \ {p} : RunsOutFirst(room, slope, n, p)
        <5> HIDE DEF before
        <5>1. PICK p \in before : \A n \in before \ {p} : <<n, p>> \in SweepOrder(order, room, slope)
          BY <2>2, <2>6, <2>14, <3>2, LastExists
        <5>2. QED
          BY <2>6, <2>14, <5>1
      <4>2. room[p] * R < L * slope[p]
        BY <2>19, <4>1
      <4>3. \A n \in before : room[n] \in Nat \ {0} /\ slope[n] \in Nat \ {0}
        <5> HIDE DEF before
        <5>1. QED
          BY <1>1, <2>1, <2>14
      <4> HIDE DEF before, L, R
      <4>4. L >= 0
        <5>1. room[p] * R \in Nat /\ slope[p] \in Nat \ {0}
          BY <2>18, <4>3
        <5>2. L < 0 => L * slope[p] < 0
          BY <2>18, <5>1
        <5>3. QED
          BY <2>18, <4>2, <5>1, <5>2
      <4>5. ASSUME NEW n \in before PROVE room[n] * R <= L * slope[n]
        <5>1. room[n] * slope[p] <= room[p] * slope[n]
          <6>1. n \in order /\ p \in order
            BY <2>14
          <6>2. CASE n = p
            <7>1. room[p] * slope[p] \in Int
              BY <4>3
            <7>2. QED
              BY <6>2, <7>1
          <6>3. CASE n # p
            BY <2>17, <4>1, <6>1, <6>3
          <6>4. QED
            BY <6>2, <6>3
        <5>2. room[p] * R <= L * slope[p]
          <6>1. room[p] * R \in Int /\ L * slope[p] \in Int
            BY <2>18, <4>3
          <6>2. QED
            BY <4>2, <6>1
        <5>3. /\ room[n] \in Int /\ slope[n] \in Nat \ {0} /\ room[p] \in Int
              /\ slope[p] \in Nat \ {0}
          BY <4>3
        <5>4. QED
          BY <2>18, <5>1, <5>2, <5>3, CrossOrder
      <4>6. QED
        BY <4>4, <4>5
    <3>3. QED
      BY <3>1, <3>2
  <2>21. \A n \in after : L * slope[n] <= room[n] * R
    <3>1. ASSUME NEW n \in after PROVE L * slope[n] <= room[n] * R
      <4>1. n \in order /\ last \in order
        <5> HIDE DEF after, before
        <5>1. QED
          BY <2>13, <2>14
      <4>2. CASE n = last
        BY <2>13, <4>2
      <4>3. CASE n # last
        <5>1. room[last] * slope[n] <= room[n] * slope[last]
          BY <2>16, <2>17, <4>1, <4>3
        <5>2. /\ room[n] \in Int /\ slope[n] \in Nat \ {0} /\ room[last] \in Int
              /\ slope[last] \in Nat \ {0}
          <6> HIDE DEF last
          <6>1. QED
            BY <1>1, <2>1, <4>1
        <5>3. L * slope[last] <= room[last] * R
          BY <2>13
        <5> HIDE DEF last, L, R, before, after
        <5>4. QED
          BY <2>18, <5>1, <5>2, <5>3, CrossOrder
      <4>4. QED
        BY <4>2, <4>3
    <3>2. QED
      BY <3>1
  <2>22. ASSUME NEW n \in S
         PROVE  /\ share[n] = IF L * slope[n] <= room[n] * R THEN L * slope[n] ELSE room[n] * R
                /\ share[n] \in Int /\ 0 <= share[n] /\ share[n] <= R * room[n]
                /\ (n \in before => share[n] = R * room[n])
                /\ (n \in after => share[n] = L * slope[n])
                /\ (n \in S \ order => share[n] = 0)
    <3> DEFINE k == slope[n]
               r == room[n]
               x == L * k
               y == r * R
    <3>1. k \in Nat \ {0} /\ r \in Nat
      BY <1>1
    <3>2. share[n] = Min({x, y})
      OBVIOUS
    <3>3. n \in before => y <= x
      <4> HIDE DEF before, L, R
      <4>1. QED
        BY <2>20
    <3>4. n \in after => x <= y
      <4> HIDE DEF after, L, R
      <4>1. QED
        BY <2>21
    <3>5. n \in S \ order => r = 0
      BY <2>1
    <3> HIDE DEF k, r, share, L, R, before, after
    <3>6. x \in Nat /\ y \in Nat /\ y = R * r
      BY <2>18, <2>20, <3>1
    <3>7. r = 0 => y = 0
      BY <2>18
    <3> HIDE DEF x, y
    <3>8. share[n] = IF x <= y THEN x ELSE y
      BY <3>2, <3>6, MinOfTwo
    <3>9. /\ share[n] \in Int /\ 0 <= share[n] /\ share[n] <= R * r
          /\ (n \in before => share[n] = R * r) /\ (n \in after => share[n] = x)
          /\ (n \in S \ order => share[n] = 0)
      BY <3>3, <3>4, <3>5, <3>6, <3>7, <3>8
    <3>10. QED
      BY <3>8, <3>9 DEF x, y, k, r
  <2>23. share \in [S -> Int]
    BY <2>22
  <2>24. Total(share) = R * requested
    <3> HIDE DEF share, L, R, before, after
    <3>1. IsFiniteSet(before) /\ IsFiniteSet(after)
      BY <2>3, <2>14
    <3>2. before \in SUBSET S /\ after \in SUBSET S
      BY <2>1, <2>14
    <3>3. Part(share, before) = R * Part(room, before)
      <4>1. \A x \in before : room[x] \in Int /\ share[x] = R * room[x]
        BY <1>1, <2>22, <3>2
      <4>2. QED
        BY <2>18, <3>1, <4>1, PartScales
    <3>4. Part(share, after) = L * R
      <4>1. \A x \in after : slope[x] \in Int /\ share[x] = L * slope[x]
        BY <1>1, <2>22, <3>2
      <4>2. Part(share, after) = L * Part(slope, after)
        BY <2>18, <3>1, <4>1, PartScales
      <4>3. QED
        BY <2>18, <4>2
    <3>5. Part(share, S \ order) = 0
      BY <2>2, <2>22, PartOfZeros
    <3>6. Part(share, before \cup after) = Part(share, before) + Part(share, after)
      <4>1. \A x \in before \cup after : share[x] \in Int
        BY <2>22, <3>2
      <4>2. QED
        BY <2>14, <3>1, <4>1, PartUnion
    <3>7. Part(share, order \cup (S \ order)) = Part(share, order) + Part(share, S \ order)
      <4>1. \A x \in order \cup (S \ order) : share[x] \in Int
        BY <2>1, <2>22
      <4>2. QED
        BY <2>2, <4>1, PartUnion
    <3>8. Part(share, S) = R * (requested - L) + L * R
      <4>1. Part(share, S) = Part(share, order) + 0
        BY <2>2, <3>5, <3>7
      <4>2. Part(share, order) = R * (requested - L) + L * R
        BY <2>14, <2>18, <3>3, <3>4, <3>6
      <4>3. R * (requested - L) + L * R \in Int
        BY <2>18
      <4>4. QED
        BY <4>1, <4>2, <4>3
    <3>9. R * (requested - L) + L * R = R * requested
      <4>1. R * (requested - L) = R * requested - R * L /\ L * R = R * L /\ R * L \in Int
            /\ R * requested \in Int
        BY <2>18
      <4>2. QED
        BY <4>1
    <3>10. Total(share) = Part(share, S)
      BY <2>23, SumIsPart
    <3>11. QED
      BY <3>8, <3>9, <3>10
  <2>25. /\ delta \in [S -> Int] /\ Total(delta) = requested
         /\ \A node \in S : \A low, high \in Int :
              R * low <= share[node] /\ share[node] <= R * high
                => low <= delta[node] /\ delta[node] <= high
    <3> HIDE DEF share, L, R, delta
    <3>1. R \in Nat \ {0} /\ requested \in Int /\ share \in [S -> Int] /\ Total(share) = R * requested
      BY <2>18, <2>23, <2>24
    <3>2. LET change == Apportioned(share, R, requested)
          IN /\ change \in [S -> Int] /\ Total(change) = requested
             /\ \A node \in S : \A low, high \in Int :
                  R * low <= share[node] /\ share[node] <= R * high
                    => low <= change[node] /\ change[node] <= high
      BY <3>1, ApportionedFacts
    <3>3. QED
      BY <2>11, <3>2
  <2>26. ASSUME NEW node \in S PROVE delta[node] \in 0..room[node]
    <3>1. R * 0 <= share[node] /\ share[node] <= R * room[node] /\ room[node] \in Int
      <4> HIDE DEF share, L, R
      <4>1. R * 0 = 0
        BY <2>18
      <4>2. QED
        BY <1>1, <2>22, <4>1
    <3> HIDE DEF share, L, R, delta
    <3>2. 0 <= delta[node] /\ delta[node] <= room[node] /\ delta[node] \in Int
      BY <2>25, <3>1
    <3>3. QED
      BY <3>1, <3>2
  <2>27. QED
    BY <2>25, <2>26
<1>6. QED
  BY <1>3, <1>4, <1>5

(* The least of finitely many rationals, and the greatest of the values of *)
(* a function.                                                             *)
Rationals == Int \X (Nat \ {0})

(* Least picks a rational that none of the others is below.                *)
LEMMA LeastFacts ==
  ASSUME NEW R \in SUBSET Rationals, IsFiniteSet(R), R # {}
  PROVE  Least(R) \in R /\ \A r \in R : Least(R)[1] * r[2] <= r[1] * Least(R)[2]
<1> DEFINE F == {T \in SUBSET R : T # {} => \E r \in T : \A s \in T : ~ LessThan(s, r)}
<1>1. \A r \in R : r[1] \in Int /\ r[2] \in Nat \ {0}
  BY DEF Rationals
<1>2. \A r, s \in R : r[1] * s[2] \in Int
  BY <1>1
<1>3. {} \in F
  OBVIOUS
<1>4. ASSUME NEW T \in SUBSET R, NEW y \in R \ T, T \in F
      PROVE  T \cup {y} \in F
  <2>1. ~ LessThan(y, y)
    BY <1>2 DEF LessThan
  <2>2. CASE T = {}
    BY <2>1, <2>2
  <2>3. CASE T # {}
    <3>1. PICK r \in T : \A s \in T : ~ LessThan(s, r)
      BY <1>4, <2>3
    <3>2. CASE ~ LessThan(y, r)
      <4>1. \A s \in T \cup {y} : ~ LessThan(s, r)
        BY <3>1, <3>2
      <4>2. QED
        BY <4>1
    <3>3. CASE LessThan(y, r)
      <4>1. ASSUME NEW s \in T PROVE ~ LessThan(s, y)
        <5> DEFINE a == y[1]
                   b == y[2]
                   c == r[1]
                   d == r[2]
                   e == s[1]
                   f == s[2]
        <5>1. /\ a \in Int /\ b \in Nat \ {0} /\ c \in Int /\ d \in Nat \ {0}
              /\ e \in Int /\ f \in Nat \ {0}
          BY <1>1
        <5>2. a * d < c * b /\ ~ (e * d < c * f)
          BY <3>1, <3>3 DEF LessThan
        <5> HIDE DEF a, b, c, d, e, f
        <5>3. a * d <= c * b /\ c * f <= e * d
          <6>1. a * d \in Int /\ c * b \in Int /\ e * d \in Int /\ c * f \in Int
            BY <5>1
          <6>2. QED
            BY <5>2, <6>1
        <5>4. a * f <= e * b
          BY <5>1, <5>3, CrossOrder
        <5>5. ~ (e * b < a * f)
          <6>1. a * f \in Int /\ e * b \in Int
            BY <5>1
          <6>2. QED
            BY <5>4, <6>1
        <5>6. QED
          BY <5>5 DEF LessThan, a, b, e, f
      <4>2. \A s \in T \cup {y} : ~ LessThan(s, y)
        BY <2>1, <4>1
      <4>3. QED
        BY <4>2
    <3>4. QED
      BY <3>2, <3>3
  <2>4. QED
    BY <2>2, <2>3
<1>5. R \in F
  <2> HIDE DEF F
  <2>1. QED
    BY <1>3, <1>4, FiniteInduction
<1>6. \E r \in R : \A s \in R : ~ LessThan(s, r)
  BY <1>5
<1>7. Least(R) \in R /\ \A s \in R : ~ LessThan(s, Least(R))
  BY <1>6 DEF Least
<1>8. ASSUME NEW s \in R PROVE Least(R)[1] * s[2] <= s[1] * Least(R)[2]
  <2>1. ~ (s[1] * Least(R)[2] < Least(R)[1] * s[2])
    BY <1>7 DEF LessThan
  <2>2. s[1] * Least(R)[2] \in Int /\ Least(R)[1] * s[2] \in Int
    BY <1>2, <1>7
  <2>3. QED
    BY <2>1, <2>2
<1>9. QED
  BY <1>7, <1>8

(* The greatest of finitely many values is one of them.                    *)
LEMMA GreatestValue ==
  ASSUME NEW S, IsFiniteSet(S), S # {}, NEW f, \A x \in S : f[x] \in Int
  PROVE  /\ \E x \in S : Max({f[y] : y \in S}) = f[x]
         /\ \A x \in S : f[x] <= Max({f[y] : y \in S})
<1> DEFINE F == {T \in SUBSET S : T # {} => \E x \in T : \A y \in T : f[y] <= f[x]}
<1>1. {} \in F
  OBVIOUS
<1>2. ASSUME NEW T \in SUBSET S, NEW z \in S \ T, T \in F
      PROVE  T \cup {z} \in F
  <2>1. f[z] \in Int
    OBVIOUS
  <2>2. CASE T = {}
    BY <2>1, <2>2
  <2>3. CASE T # {}
    <3>1. PICK x \in T : \A y \in T : f[y] <= f[x]
      BY <1>2, <2>3
    <3>2. f[x] \in Int /\ \A y \in T : f[y] \in Int
      OBVIOUS
    <3>3. CASE f[z] <= f[x]
      <4>1. \A y \in T \cup {z} : f[y] <= f[x]
        BY <3>1, <3>3
      <4>2. QED
        BY <4>1
    <3>4. CASE f[x] <= f[z]
      <4>1. \A y \in T \cup {z} : f[y] <= f[z]
        BY <2>1, <3>1, <3>2, <3>4
      <4>2. QED
        BY <4>1
    <3>5. QED
      BY <2>1, <3>2, <3>3, <3>4
  <2>4. QED
    BY <2>2, <2>3
<1>3. S \in F
  <2> HIDE DEF F
  <2>1. QED
    BY <1>1, <1>2, FiniteInduction
<1>4. PICK x \in S : \A y \in S : f[y] <= f[x]
  BY <1>3
<1> DEFINE values == {f[y] : y \in S}
<1>5. f[x] \in values /\ \A v \in values : v <= f[x]
  BY <1>4
<1>6. Max(values) \in values /\ \A v \in values : Max(values) >= v
  <2> HIDE DEF values
  <2>1. f[x] >= f[x] /\ \A v \in values : f[x] >= v
    BY <1>5
  <2>2. QED
    BY <1>5, <2>1 DEF Max
<1>7. ASSUME NEW y \in S PROVE f[y] <= Max(values)
  <2>1. Max(values) >= f[y]
    BY <1>6
  <2>2. Max(values) \in Int /\ f[y] \in Int
    BY <1>6
  <2>3. QED
    BY <2>1, <2>2
<1>8. QED
  BY <1>6, <1>7

(* Finitely many arguments have finitely many values.                      *)
LEMMA ImageIsFinite ==
  ASSUME NEW S, IsFiniteSet(S), NEW f
  PROVE  IsFiniteSet({f[x] : x \in S})
<1> DEFINE F == {T \in SUBSET S : IsFiniteSet({f[x] : x \in T})}
<1>1. {} \in F
  <2>1. {f[x] : x \in {}} = {}
    OBVIOUS
  <2>2. QED
    BY <2>1, FS_EmptySet
<1>2. ASSUME NEW T \in SUBSET S, NEW z \in S \ T, T \in F
      PROVE  T \cup {z} \in F
  <2>1. {f[x] : x \in T \cup {z}} = {f[x] : x \in T} \cup {f[z]}
    OBVIOUS
  <2>2. IsFiniteSet({f[x] : x \in T} \cup {f[z]})
    BY <1>2, FS_AddElement
  <2>3. QED
    BY <2>1, <2>2
<1>3. S \in F
  <2> HIDE DEF F
  <2>1. QED
    BY <1>1, <1>2, FiniteInduction
<1>4. QED
  BY <1>3

-----------------------------------------------------------------------------

(* Grids and the surfaces on them. *)
IsGrid(g) ==
  /\ DOMAIN g.weight \in SUBSET (Int \X Int) /\ IsFiniteSet(DOMAIN g.weight)
  /\ g.weight \in [DOMAIN g.weight -> Nat \ {0}]
  /\ g.pairs \in SUBSET ((DOMAIN g.weight) \X (DOMAIN g.weight)) /\ IsFiniteSet(g.pairs)

(* No node lies below the floor or over the top. *)
Fills(g, surface) ==
  /\ surface \in [DOMAIN g.weight -> Nat]
  /\ \A node \in DOMAIN g.weight : surface[node] <= Top * g.weight[node]

(* The room up to the top adds up to the capacity that is left.            *)
LEMMA RoomFacts ==
  ASSUME NEW g, IsGrid(g), NEW surface, Fills(g, surface)
  PROVE  /\ Room(g, surface) \in [DOMAIN g.weight -> Nat]
         /\ \A node \in DOMAIN g.weight :
              Room(g, surface)[node] = Top * g.weight[node] - surface[node]
         /\ Total(Room(g, surface)) = Capacity(g) - Total(surface)
         /\ Capacity(g) \in Nat /\ Total(surface) \in Nat
<1> DEFINE S == DOMAIN g.weight
           room == Room(g, surface)
           full == [node \in S |-> Top * g.weight[node]]
<1>1. /\ IsFiniteSet(S) /\ \A n \in S : g.weight[n] \in Nat \ {0} /\ g.weight[n] \in Int
      /\ g.weight \in [S -> Nat \ {0}]
  BY DEF IsGrid
<1>2. /\ surface \in [S -> Nat] /\ \A n \in S : surface[n] \in Nat /\ surface[n] <= Top * g.weight[n]
      /\ DOMAIN surface = S
  BY DEF Fills
<1>3. Top \in Nat /\ Top \in Int
  BY HeightFieldAssumption
<1>4. \A n \in S : Top * g.weight[n] \in Nat
  BY <1>1, <1>3
<1>5. room = [n \in S |-> Top * g.weight[n] - surface[n]]
  BY <1>2 DEF Room
<1>6. \A n \in S : room[n] \in Nat /\ room[n] = Top * g.weight[n] - surface[n]
  BY <1>2, <1>4, <1>5
<1>7. room \in [S -> Nat] /\ room \in [S -> Int] /\ surface \in [S -> Int] /\ g.weight \in [S -> Int]
  <2>1. /\ room \in [S -> Nat] /\ room \in [S -> Int]
    <3> HIDE DEF room
    <3>1. room = [n \in S |-> room[n]]
      BY <1>5
    <3>2. \A n \in S : room[n] \in Nat /\ room[n] \in Int
      BY <1>6
    <3> HIDE DEF S
    <3>3. QED
      BY <3>1, <3>2
  <2>2. surface \in [S -> Int]
    <3> HIDE DEF S
    <3>1. QED
      BY <1>2
  <2>3. g.weight \in [S -> Int]
    <3> DEFINE weight == g.weight
    <3>1. weight \in [S -> Nat \ {0}]
      BY <1>1
    <3> HIDE DEF S, weight
    <3>2. weight \in [S -> Int]
      BY <3>1
    <3>3. QED
      BY <3>2 DEF weight
  <2>4. QED
    BY <2>1, <2>2, <2>3
<1>8. Total(room) = Part(room, S) /\ Total(surface) = Part(surface, S) /\ Total(g.weight) = Part(g.weight, S)
  <2> HIDE DEF room, S
  <2>1. QED
    BY <1>7, SumIsPart
<1>9. Part(full, S) = Top * Part(g.weight, S) /\ Part(full, S) = Part(room, S) + Part(surface, S)
  <2>1. \A n \in S : /\ g.weight[n] \in Int /\ full[n] = Top * g.weight[n]
                     /\ room[n] \in Int /\ surface[n] \in Int /\ full[n] = room[n] + surface[n]
    BY <1>1, <1>2, <1>4, <1>6
  <2> HIDE DEF full, room, S
  <2>2. QED
    BY <1>1, <1>3, <2>1, PartScales, PartAdds
<1>10. /\ Part(room, S) \in Nat /\ Part(surface, S) \in Nat /\ Part(g.weight, S) \in Nat
  <2>1. \A n \in S : room[n] \in Nat /\ surface[n] \in Nat /\ g.weight[n] \in Nat
    BY <1>1, <1>2, <1>6
  <2> HIDE DEF room, S
  <2>2. QED
    BY <1>1, <2>1, PartOfNats
<1>11. Capacity(g) = Part(full, S) /\ Capacity(g) \in Nat
  <2> HIDE DEF full, S
  <2>1. QED
    BY <1>3, <1>8, <1>9, <1>10 DEF Capacity
<1>12. QED
  <2> HIDE DEF full, room
  <2>1. Total(room) = Capacity(g) - Total(surface)
    BY <1>8, <1>9, <1>10, <1>11
  <2>2. QED
    BY <1>6, <1>7, <1>8, <1>10, <1>11, <2>1 DEF room

(* What falls is what was asked for, and stays between floor and top. *)
THEOREM AddVolumeFacts ==
  ASSUME NEW g, IsGrid(g), NEW surface, Fills(g, surface), NEW center, NEW radius,
         \A node \in DOMAIN g.weight :
           Kernel(SquaredDistance(g, node, center), radius * radius) \in Nat \ {0},
         NEW requested \in Nat, requested <= Capacity(g) - Total(surface)
  PROVE  LET next == AddVolume(g, surface, requested, center, radius)
         IN Fills(g, next) /\ Total(next) = Total(surface) + requested
<1> DEFINE S == DOMAIN g.weight
           room == Room(g, surface)
           slope == [node \in S |-> g.weight[node]
                                      * Kernel(SquaredDistance(g, node, center), radius * radius)]
           delta == SolveHeightDelta(slope, room, requested)
           next == AddVolume(g, surface, requested, center, radius)
<1>1. /\ IsFiniteSet(S) /\ \A n \in S : g.weight[n] \in Nat \ {0}
      /\ S \in SUBSET (Int \X Int)
  BY DEF IsGrid
<1>2. /\ surface \in [S -> Nat] /\ \A n \in S : surface[n] \in Nat /\ surface[n] <= Top * g.weight[n]
      /\ DOMAIN surface = S
  BY DEF Fills
<1>3. slope \in [S -> Nat \ {0}]
  <2>1. ASSUME NEW n \in S PROVE slope[n] \in Nat \ {0}
    <3> DEFINE k == Kernel(SquaredDistance(g, n, center), radius * radius)
               w == g.weight[n]
    <3>1. slope[n] = w * k /\ w \in Nat \ {0} /\ k \in Nat \ {0}
      BY <1>1
    <3> HIDE DEF k, w, slope
    <3>2. QED
      BY <3>1
  <2>2. QED
    BY <2>1
<1>4. /\ room \in [S -> Nat] /\ Total(room) = Capacity(g) - Total(surface)
      /\ \A n \in S : room[n] = Top * g.weight[n] - surface[n]
  BY RoomFacts
<1>5. delta \in [S -> Int] /\ Total(delta) = requested /\ \A n \in S : delta[n] \in 0..room[n]
  <2> HIDE DEF room, slope, S
  <2>1. QED
    BY <1>1, <1>3, <1>4, SolveHeightDeltaFacts
<1>6. next = [n \in S |-> surface[n] + delta[n]]
  BY <1>2 DEF AddVolume
<1> HIDE DEF delta, room, slope, next
<1>7. \A n \in S : /\ next[n] = surface[n] + delta[n] /\ next[n] \in Nat
                   /\ next[n] <= Top * g.weight[n]
                   /\ surface[n] \in Int /\ delta[n] \in Int
  <2>1. ASSUME NEW n \in S
        PROVE  /\ next[n] = surface[n] + delta[n] /\ next[n] \in Nat
               /\ next[n] <= Top * g.weight[n]
               /\ surface[n] \in Int /\ delta[n] \in Int
    <3>1. next[n] = surface[n] + delta[n]
      BY <1>6
    <3>2. Top * g.weight[n] \in Int
      BY <1>1, HeightFieldAssumption
    <3>3. QED
      BY <1>2, <1>4, <1>5, <3>1, <3>2
  <2>2. QED
    BY <2>1
<1>8. Fills(g, next)
  BY <1>6, <1>7 DEF Fills
<1>9. Total(next) = Total(surface) + Total(delta)
  <2>1. next \in [S -> Int] /\ surface \in [S -> Int]
    <3>1. next = [n \in S |-> next[n]]
      BY <1>6
    <3>2. \A n \in S : next[n] \in Int
      BY <1>7
    <3> HIDE DEF S
    <3>3. QED
      BY <1>2, <3>1, <3>2
  <2> HIDE DEF S
  <2>2. /\ Total(next) = Part(next, S) /\ Total(surface) = Part(surface, S)
        /\ Total(delta) = Part(delta, S)
    BY <1>5, <2>1, SumIsPart
  <2>3. QED
    BY <1>1, <1>7, <2>2, PartAdds
<1>10. QED
  BY <1>5, <1>8, <1>9 DEF next

(* What is taken is what was asked for, and floor and top hold             *)
(* (remove_volume_uniformly).                                              *)
THEOREM RemoveVolumeFacts ==
  ASSUME NEW g, IsGrid(g), NEW surface, Fills(g, surface),
         NEW requested \in Nat, requested <= Total(surface)
  PROVE  LET next == RemoveVolumeUniformly(g, surface, requested)
         IN Fills(g, next) /\ Total(next) = Total(surface) - requested
<1> DEFINE S == DOMAIN g.weight
           delta == SolveHeightDelta(g.weight, surface, requested)
           next == RemoveVolumeUniformly(g, surface, requested)
<1>1. /\ IsFiniteSet(S) /\ \A n \in S : g.weight[n] \in Nat \ {0}
      /\ S \in SUBSET (Int \X Int) /\ g.weight \in [S -> Nat \ {0}]
  BY DEF IsGrid
<1>2. /\ surface \in [S -> Nat] /\ \A n \in S : surface[n] \in Nat /\ surface[n] <= Top * g.weight[n]
      /\ DOMAIN surface = S
  BY DEF Fills
<1>3. delta \in [S -> Int] /\ Total(delta) = requested /\ \A n \in S : delta[n] \in 0..surface[n]
  <2> HIDE DEF S
  <2>1. QED
    BY <1>1, <1>2, SolveHeightDeltaFacts
<1>4. next = [n \in S |-> surface[n] - delta[n]]
  BY <1>2 DEF RemoveVolumeUniformly
<1> HIDE DEF delta, next
<1>5. \A n \in S : /\ surface[n] = next[n] + delta[n] /\ next[n] \in Nat
                   /\ next[n] <= Top * g.weight[n] /\ delta[n] \in Int
  <2>1. ASSUME NEW n \in S
        PROVE  /\ surface[n] = next[n] + delta[n] /\ next[n] \in Nat
               /\ next[n] <= Top * g.weight[n] /\ delta[n] \in Int
    <3>1. next[n] = surface[n] - delta[n]
      BY <1>4
    <3>2. Top * g.weight[n] \in Int
      BY <1>1, HeightFieldAssumption
    <3>3. QED
      BY <1>2, <1>3, <3>1, <3>2
  <2>2. QED
    BY <2>1
<1>6. Fills(g, next)
  BY <1>4, <1>5 DEF Fills
<1>7. Total(surface) = Total(next) + Total(delta) /\ Total(next) \in Int
  <2>1. next \in [S -> Int] /\ surface \in [S -> Int]
    <3>1. next = [n \in S |-> next[n]]
      BY <1>4
    <3>2. \A n \in S : next[n] \in Int
      BY <1>5
    <3> HIDE DEF S
    <3>3. QED
      BY <1>2, <3>1, <3>2
  <2>2. \A n \in S : next[n] \in Int /\ delta[n] \in Int /\ surface[n] = next[n] + delta[n]
    BY <1>5
  <2> HIDE DEF S
  <2>3. /\ Total(next) = Part(next, S) /\ Total(surface) = Part(surface, S)
        /\ Total(delta) = Part(delta, S)
    BY <1>3, <2>1, SumIsPart
  <2>4. QED
    BY <1>1, <2>2, <2>3, PartAdds, PartFacts
<1>8. QED
  <2>1. Total(next) = Total(surface) - requested
    BY <1>3, <1>7
  <2>2. QED
    BY <1>6, <2>1 DEF next

(* Division rounds down.                                                   *)
LEMMA QuotientFloor ==
  ASSUME NEW a \in Int, NEW b \in Nat \ {0}
  PROVE  /\ a \div b \in Int /\ (a \div b) * b <= a
         /\ a \in Nat => a \div b \in Nat
<1>1. /\ a \div b \in Int /\ a % b \in 0..(b - 1) /\ a = b * (a \div b) + (a % b)
  BY Quotient
<1> DEFINE q == a \div b
           r == a % b
<1>2. (q * b <= a) /\ (a \in Nat => q \in Nat)
  <2>1. q \in Int /\ r \in 0..(b - 1) /\ a = b * q + r
    BY <1>1
  <2> HIDE DEF q, r
  <2>2. q * b = b * q /\ b * q <= a
    BY <2>1
  <2>3. ASSUME a \in Nat, q < 0 PROVE FALSE
    <3>1. b * q <= - b
      BY <2>1, <2>3
    <3>2. QED
      BY <2>1, <2>3, <3>1
  <2>4. QED
    BY <2>1, <2>2, <2>3
<1>3. QED
  BY <1>1, <1>2

(* The nodes of a grid are finitely many, and so are its pairs.            *)
LEMMA GridFacts ==
  ASSUME NEW g, IsGrid(g)
  PROVE  /\ DOMAIN g.weight \in SUBSET (Int \X Int) /\ IsFiniteSet(DOMAIN g.weight)
         /\ \A n \in DOMAIN g.weight : g.weight[n] \in Nat \ {0} /\ g.weight[n] \in Int
         /\ g.pairs \in SUBSET ((DOMAIN g.weight) \X (DOMAIN g.weight)) /\ IsFiniteSet(g.pairs)
<1>1. /\ DOMAIN g.weight \in SUBSET (Int \X Int) /\ IsFiniteSet(DOMAIN g.weight)
      /\ g.weight \in [DOMAIN g.weight -> Nat \ {0}]
  BY Zenon DEF IsGrid
<1>2. g.pairs \in SUBSET ((DOMAIN g.weight) \X (DOMAIN g.weight)) /\ IsFiniteSet(g.pairs)
  BY Zenon DEF IsGrid
<1>3. \A n \in DOMAIN g.weight : g.weight[n] \in Nat \ {0}
  BY <1>1
<1>4. \A n \in DOMAIN g.weight : g.weight[n] \in Int
  BY <1>3
<1>5. QED
  BY Zenon, <1>1, <1>2, <1>3, <1>4

(* A pair that is too steep wants to move some volume.                     *)
LEMMA TransferFacts ==
  ASSUME NEW g, IsGrid(g), NEW surface \in [DOMAIN g.weight -> Int]
  PROVE  /\ TransferPairs(g, surface) \in SUBSET ((DOMAIN g.weight) \X (DOMAIN g.weight))
         /\ IsFiniteSet(TransferPairs(g, surface))
         /\ \A p \in TransferPairs(g, surface) :
              /\ Excess(g, surface, p[1], p[2]) \in Nat \ {0}
              /\ Wanted(g, surface, p) \in Nat
              /\ p[1] \in DOMAIN g.weight /\ p[2] \in DOMAIN g.weight
<1> DEFINE S == DOMAIN g.weight
           pairs == g.pairs
           turned == {<<pair[2], pair[1]>> : pair \in pairs}
           P == TransferPairs(g, surface)
<1>1. pairs \in SUBSET (S \X S) /\ IsFiniteSet(pairs) /\ \A n \in S : g.weight[n] \in Nat \ {0}
  BY Zenon, GridFacts
<1>2. IsFiniteSet(turned)
  <2> DEFINE turn == [pair \in pairs |-> <<pair[2], pair[1]>>]
  <2>1. turned = {turn[pair] : pair \in pairs}
    OBVIOUS
  <2> HIDE DEF turn, turned, pairs
  <2>2. QED
    BY <1>1, <2>1, ImageIsFinite
<1>3. turned \in SUBSET (S \X S)
  BY <1>1
<1>4. IsFiniteSet(pairs \cup turned)
  BY <1>1, <1>2, FS_Union
<1>5. P \in SUBSET (pairs \cup turned)
  BY DEF TransferPairs
<1>6. P \in SUBSET (S \X S) /\ IsFiniteSet(P)
  BY <1>1, <1>3, <1>4, <1>5, FS_Subset
<1>7. ASSUME NEW p \in P
      PROVE  /\ Excess(g, surface, p[1], p[2]) \in Nat \ {0}
             /\ Wanted(g, surface, p) \in Nat /\ p[1] \in S /\ p[2] \in S
  <2>1. p[1] \in S /\ p[2] \in S
    BY <1>6
  <2>2. Excess(g, surface, p[1], p[2]) > 0
    BY DEF TransferPairs
  <2> DEFINE a == surface[p[1]]
             b == surface[p[2]]
             v == g.weight[p[1]]
             w == g.weight[p[2]]
             allowed == AllowedDifference(<<p[1], p[2]>>)
             e == Excess(g, surface, p[1], p[2])
  <2>3. allowed \in Nat
    <3>1. Repose \in Nat
      BY HeightFieldAssumption
    <3>2. (7 * Repose) \div 5 \in Nat
      BY <3>1
    <3>3. QED
      BY <3>1, <3>2 DEF AllowedDifference
  <2>4. a \in Int /\ b \in Int /\ v \in Nat \ {0} /\ w \in Nat \ {0}
    BY <1>1, <2>1
  <2>5. e = a * w - b * v - allowed * v * w
    BY DEF Excess
  <2>6. Wanted(g, surface, p) = e \div (v + w)
    BY DEF Wanted
  <2> HIDE DEF a, b, v, w, allowed
  <2>7. e \in Nat \ {0}
    <3>1. a * w - b * v - allowed * v * w \in Int
      BY <2>3, <2>4
    <3>2. QED
      BY <2>2, <2>5, <3>1
  <2>8. e \div (v + w) \in Nat
    <3> HIDE DEF e
    <3>1. QED
      BY <2>4, <2>7, QuotientFloor
  <2>9. QED
    BY <2>1, <2>6, <2>7, <2>8
<1>8. QED
  <2> HIDE DEF P
  <2>1. \A p \in P : /\ Excess(g, surface, p[1], p[2]) \in Nat \ {0}
                     /\ Wanted(g, surface, p) \in Nat /\ p[1] \in S /\ p[2] \in S
    BY <1>7
  <2>2. QED
    BY Zenon, <1>6, <2>1 DEF P

(* What is requested of a node at its end of the transfers. *)
WantedOf(g, surface) == [p \in TransferPairs(g, surface) |-> Wanted(g, surface, p)]
Own(g, surface, node, end) == {p \in TransferPairs(g, surface) : p[end] = node}
WantedAt(g, surface, node, end) == Part(WantedOf(g, surface), Own(g, surface, node, end))

Available(g, surface, node, end) ==
  IF end = 1 THEN surface[node] ELSE Room(g, surface)[node]

(* The scale of a node keeps what is wanted of it within what is           *)
(* available.                                                              *)
LEMMA ScaleFacts ==
  ASSUME NEW g, IsGrid(g), NEW surface \in [DOMAIN g.weight -> Int], NEW end \in {1, 2},
         NEW p \in TransferPairs(g, surface)
  PROVE  LET s == Scale(g, surface, TransferPairs(g, surface), p[end], end)
             requested == WantedAt(g, surface, p[end], end)
             available == Available(g, surface, p[end], end)
         IN /\ s \in Rationals /\ requested \in Nat /\ available \in Int
            /\ requested # 0 => s[1] * requested <= available * s[2]
            /\ available \in Nat => s[1] \in Nat
<1> DEFINE S == DOMAIN g.weight
           P == TransferPairs(g, surface)
           node == p[end]
           own == Own(g, surface, node, end)
           s == Scale(g, surface, P, node, end)
           requested == WantedAt(g, surface, node, end)
           available == Available(g, surface, node, end)
           towards == [q \in own |-> Excess(g, surface, q[1], q[2]) \div g.weight[q[3 - end]]]
           steepest == Max({towards[q] : q \in own})
<1>1. /\ P \in SUBSET (S \X S) /\ IsFiniteSet(P)
      /\ \A q \in P : /\ Excess(g, surface, q[1], q[2]) \in Nat \ {0}
                      /\ Wanted(g, surface, q) \in Nat /\ q[1] \in S /\ q[2] \in S
  <2> HIDE DEF own, s, requested, available, towards, steepest, node
  <2>1. QED
    BY Zenon, TransferFacts
<1>2. own \in SUBSET P /\ p \in own /\ IsFiniteSet(own)
  <2>1. own \in SUBSET P /\ p \in own
    BY DEF Own
  <2>2. QED
    BY <1>1, <2>1, FS_Subset
<1>3. \A q \in own : towards[q] \in Nat
  <2>1. ASSUME NEW q \in own PROVE towards[q] \in Nat
    <3>1. q[3 - end] \in S
      BY <1>1, <1>2
    <3>2. g.weight[q[3 - end]] \in Nat \ {0} /\ Excess(g, surface, q[1], q[2]) \in Nat
      BY <1>1, <1>2, <3>1 DEF IsGrid
    <3>3. QED
      BY <3>2, QuotientFloor
  <2>2. QED
    BY <2>1
<1>4. steepest \in Nat
  <2> HIDE DEF towards, own
  <2>1. \A q \in own : towards[q] \in Int
    BY <1>3
  <2>2. \E q \in own : steepest = towards[q]
    BY <1>2, <2>1, GreatestValue
  <2>3. QED
    BY <1>3, <2>2
<1>5. requested \in Nat
  <2>1. \A q \in own : WantedOf(g, surface)[q] \in Nat
    BY <1>1, <1>2 DEF WantedOf
  <2> HIDE DEF own
  <2>2. Part(WantedOf(g, surface), own) \in Nat
    BY <1>2, <2>1, PartOfNats
  <2>3. QED
    BY <2>2 DEF WantedAt, own
<1>6. available \in Int
  <2>1. node \in S
    BY <1>1
  <2>2. surface[node] \in Int /\ g.weight[node] \in Int
    BY <2>1 DEF IsGrid
  <2>3. Room(g, surface)[node] = Top * g.weight[node] - surface[node]
    BY <2>1 DEF Room
  <2>4. Top * g.weight[node] - surface[node] \in Int
    BY <2>2, HeightFieldAssumption
  <2>5. QED
    BY <2>2, <2>3, <2>4 DEF Available
<1>7. s = IF requested = 0 THEN <<1, 1>>
          ELSE Least({<<Min({available, steepest}), requested>>, <<1, 1>>})
  <2>1. Total([q \in own |-> Wanted(g, surface, q)]) = requested
    <3>1. [q \in own |-> Wanted(g, surface, q)] = [q \in own |-> WantedOf(g, surface)[q]]
      BY <1>2 DEF WantedOf
    <3>2. QED
      BY <3>1 DEF WantedAt, Part
  <2>2. {towards[q] : q \in own}
          = {Excess(g, surface, q[1], q[2]) \div g.weight[q[3 - end]] : q \in own}
    OBVIOUS
  <2>3. own = {q \in P : q[end] = node}
    BY DEF Own
  <2>4. QED
    BY <2>1, <2>2, <2>3 DEF Scale, Available
<1>8. CASE requested = 0
  <2>1. s = <<1, 1>>
    BY <1>7, <1>8
  <2>2. QED
    BY <1>5, <1>6, <1>8, <2>1 DEF Rationals
<1>9. CASE requested # 0
  <2> DEFINE bound == Min({available, steepest})
             R == {<<bound, requested>>, <<1, 1>>}
  <2>1. bound \in Int /\ bound <= available /\ (available \in Nat => bound \in Nat)
    <3> HIDE DEF available, steepest
    <3>1. bound = IF available <= steepest THEN available ELSE steepest
      BY <1>4, <1>6, MinOfTwo
    <3>2. QED
      BY <1>4, <1>6, <3>1
  <2>2. s = Least(R)
    BY <1>7, <1>9
  <2> HIDE DEF bound, s, requested, available
  <2>3. R \in SUBSET Rationals /\ R # {} /\ <<bound, requested>> \in R /\ <<1, 1>> \in R
    BY <1>5, <1>9, <2>1 DEF Rationals
  <2>4. IsFiniteSet(R)
    <3> DEFINE r == <<bound, requested>>
               t == <<1, 1>>
    <3>1. R = {t} \cup {r}
      OBVIOUS
    <3> HIDE DEF R, r, t
    <3>2. IsFiniteSet({t})
      BY FS_Singleton
    <3>3. IsFiniteSet({t} \cup {r})
      BY <3>2, FS_AddElement
    <3>4. QED
      BY <3>1, <3>3
  <2>5. s \in R /\ s[1] * requested <= bound * s[2]
    <3>1. <<bound, requested>>[1] = bound /\ <<bound, requested>>[2] = requested
      OBVIOUS
    <3>2. Least(R) \in R /\ \A r \in R : Least(R)[1] * r[2] <= r[1] * Least(R)[2]
      <4> HIDE DEF R
      <4>1. QED
        BY <2>3, <2>4, LeastFacts
    <3> HIDE DEF R
    <3>3. QED
      BY <2>2, <2>3, <3>1, <3>2
  <2>6. s \in Rationals
    BY <2>3, <2>5
  <2>7. bound * s[2] <= available * s[2]
    <3>1. s[2] \in Nat
      BY <2>6 DEF Rationals
    <3>2. QED
      BY <1>6, <2>1, <3>1
  <2>8. s[1] * requested <= available * s[2]
    <3> DEFINE u == s[1]
               v == s[2]
    <3>1. u \in Int /\ v \in Nat
      BY <2>6 DEF Rationals
    <3>2. u * requested <= bound * v /\ bound * v <= available * v
      BY <2>5, <2>7
    <3> HIDE DEF u, v
    <3>3. u * requested \in Int /\ bound * v \in Int /\ available * v \in Int
      BY <1>5, <1>6, <2>1, <3>1
    <3>4. u * requested <= available * v
      BY <3>2, <3>3
    <3>5. QED
      BY <3>4 DEF u, v
  <2>9. available \in Nat => s[1] \in Nat
    BY <2>1, <2>5
  <2>10. QED
    BY <1>5, <1>6, <2>6, <2>8, <2>9 DEF s, requested, available
<1>10. QED
  BY <1>8, <1>9

(* The part of what is wanted of a pair that both of its ends allow, and   *)
(* what is moved over it.                                                  *)
ScaleAt(g, surface, p, end) == Scale(g, surface, TransferPairs(g, surface), p[end], end)

ScaleOf(g, surface, p) == Least({ScaleAt(g, surface, p, end) : end \in {1, 2}})

MovedOver(g, surface) ==
  [p \in TransferPairs(g, surface) |->
     (Wanted(g, surface, p) * ScaleOf(g, surface, p)[1]) \div ScaleOf(g, surface, p)[2]]

PassedAt(g, surface, node, end) == Part(MovedOver(g, surface), Own(g, surface, node, end))

(* A node loses what it passes on and gains what is passed to it.          *)
LEMMA RelaxedBy ==
  ASSUME NEW g, NEW surface
  PROVE  RelaxNeighborPairs(g, surface)
           = [node \in DOMAIN surface |->
                surface[node] - PassedAt(g, surface, node, 1) + PassedAt(g, surface, node, 2)]
<1> DEFINE P == TransferPairs(g, surface)
           moved == [p \in P |->
             LET scale == Least({Scale(g, surface, P, p[end], end) : end \in {1, 2}})
             IN (Wanted(g, surface, p) * scale[1]) \div scale[2]]
<1>1. moved = MovedOver(g, surface)
  BY DEF MovedOver, ScaleOf, ScaleAt
<1> HIDE DEF moved
<1>2. ASSUME NEW node, NEW end
      PROVE  PassedAt(g, surface, node, end)
               = Total([p \in {q \in P : q[end] = node} |-> moved[p]])
  BY <1>1 DEF PassedAt, Part, Own
<1>3. RelaxNeighborPairs(g, surface)
        = [node \in DOMAIN surface |->
             surface[node] - Total([p \in {q \in P : q[1] = node} |-> moved[p]])
               + Total([p \in {q \in P : q[2] = node} |-> moved[p]])]
  BY DEF RelaxNeighborPairs, moved
<1> HIDE DEF P
<1>4. QED
  BY <1>2, <1>3

(* What moves over a pair is no more than either end allows of it. *)
LEMMA MovedFacts ==
  ASSUME NEW g, IsGrid(g), NEW surface \in [DOMAIN g.weight -> Int],
         NEW p \in TransferPairs(g, surface)
  PROVE  /\ MovedOver(g, surface)[p] \in Int
         /\ \A end \in {1, 2} :
              /\ WantedAt(g, surface, p[end], end) # 0
                   => MovedOver(g, surface)[p] * WantedAt(g, surface, p[end], end)
                        <= Wanted(g, surface, p) * Available(g, surface, p[end], end)
              /\ WantedAt(g, surface, p[end], end) = 0 => MovedOver(g, surface)[p] = 0
         /\ (\A end \in {1, 2} : Available(g, surface, p[end], end) \in Nat)
              => MovedOver(g, surface)[p] \in Nat
<1> DEFINE P == TransferPairs(g, surface)
           s(end) == ScaleAt(g, surface, p, end)
           requested(end) == WantedAt(g, surface, p[end], end)
           available(end) == Available(g, surface, p[end], end)
           R == {s(end) : end \in {1, 2}}
           r == ScaleOf(g, surface, p)
           w == Wanted(g, surface, p)
           m == MovedOver(g, surface)[p]
<1>1. \A end \in {1, 2} :
        /\ s(end) \in Rationals /\ requested(end) \in Nat /\ available(end) \in Int
        /\ requested(end) # 0 => s(end)[1] * requested(end) <= available(end) * s(end)[2]
        /\ available(end) \in Nat => s(end)[1] \in Nat
  BY ScaleFacts DEF ScaleAt
<1>2. w \in Nat /\ IsFiniteSet(P)
  BY Zenon, TransferFacts
<1>3. m = (w * r[1]) \div r[2]
  BY DEF MovedOver
<1>4. ASSUME NEW end \in {1, 2}, requested(end) = 0 PROVE w = 0
  <2> DEFINE own == Own(g, surface, p[end], end)
             wanted == WantedOf(g, surface)
  <2>1. own \in SUBSET P /\ p \in own
    BY DEF Own
  <2>2. IsFiniteSet(own)
    BY <1>2, <2>1, FS_Subset
  <2>3. \A q \in own : wanted[q] \in Nat
    <3>1. \A q \in P : Wanted(g, surface, q) \in Nat
      BY Zenon, TransferFacts
    <3>2. QED
      BY <2>1, <3>1 DEF WantedOf
  <2>4. Part(wanted, own) = 0
    BY <1>4 DEF WantedAt
  <2> HIDE DEF own, wanted
  <2>5. wanted[p] = 0
    BY <2>1, <2>2, <2>3, <2>4, PartOfNats
  <2>6. QED
    BY <2>5 DEF wanted, WantedOf
<1>5. r = Least(R)
  BY DEF ScaleOf
<1> HIDE DEF s, requested, available, r, w, m, P
<1>6. R = {s(1)} \cup {s(2)} /\ s(1) \in R /\ s(2) \in R
  OBVIOUS
<1>7. R \in SUBSET Rationals /\ R # {}
  BY <1>1, <1>6
<1>8. IsFiniteSet(R)
  <2> DEFINE a == s(1)
             b == s(2)
  <2>1. R = {a} \cup {b}
    BY <1>6
  <2> HIDE DEF R, a, b
  <2>2. IsFiniteSet({a})
    BY FS_Singleton
  <2>3. QED
    BY <2>1, <2>2, FS_AddElement
<1>9. r \in R /\ \A q \in R : r[1] * q[2] <= q[1] * r[2]
  <2> HIDE DEF R
  <2>1. QED
    BY <1>5, <1>7, <1>8, LeastFacts
<1>10. r \in Rationals /\ (r = s(1) \/ r = s(2))
       /\ \A end \in {1, 2} : r[1] * s(end)[2] <= s(end)[1] * r[2]
  BY <1>6, <1>7, <1>9
<1>11. r[1] \in Int /\ r[2] \in Nat \ {0} /\ w \in Int /\ w * r[1] \in Int
  <2>1. r[1] \in Int /\ r[2] \in Nat \ {0}
    BY <1>10 DEF Rationals
  <2> DEFINE u == r[1]
  <2>2. u \in Int /\ w \in Int
    BY <1>2, <2>1
  <2> HIDE DEF u
  <2>3. w * u \in Int
    BY <2>2
  <2>4. QED
    BY <2>1, <2>2, <2>3 DEF u
<1>12. m \in Int /\ m * r[2] <= w * r[1] /\ (w * r[1] \in Nat => m \in Nat)
  <2> DEFINE x == w * r[1]
             y == r[2]
  <2>1. x \in Int /\ y \in Nat \ {0}
    BY <1>11
  <2> HIDE DEF x, y
  <2>2. x \div y \in Int /\ (x \div y) * y <= x /\ (x \in Nat => x \div y \in Nat)
    BY <2>1, QuotientFloor
  <2>3. m = x \div y
    BY <1>3 DEF x, y
  <2>4. QED
    BY <2>2, <2>3 DEF x, y
<1>13. ASSUME NEW end \in {1, 2}, requested(end) # 0
       PROVE  m * requested(end) <= w * available(end)
  <2> DEFINE a == s(end)[1]
             b == s(end)[2]
             u == r[1]
             v == r[2]
             n == requested(end)
             c == available(end)
  <2>1. a \in Int /\ b \in Nat \ {0}
    BY <1>1 DEF Rationals
  <2>2. u \in Int /\ v \in Nat \ {0} /\ n \in Nat \ {0} /\ c \in Int
    BY <1>1, <1>11, <1>13
  <2>3. u * b <= a * v /\ a * n <= c * b
    BY <1>1, <1>10, <1>13
  <2>4. m * v <= w * u
    BY <1>12
  <2> HIDE DEF a, b, u, v, n, c
  <2>5. u * n <= c * v
    BY <2>1, <2>2, <2>3, CrossOrder
  <2>6. (m * v) * n <= (w * u) * n
    <3> DEFINE x == m * v
               y == w * u
    <3>1. x \in Int /\ y \in Int /\ x <= y
      BY <1>2, <1>12, <2>2, <2>4
    <3> HIDE DEF x, y
    <3>2. x * n <= y * n
      BY <2>2, <3>1
    <3>3. QED
      BY <3>2 DEF x, y
  <2>7. w * (u * n) <= w * (c * v)
    <3> DEFINE x == u * n
               y == c * v
    <3>1. x \in Int /\ y \in Int /\ x <= y
      BY <2>2, <2>5
    <3> HIDE DEF x, y
    <3>2. w * x <= w * y
      BY <1>2, <3>1
    <3>3. QED
      BY <3>2 DEF x, y
  <2>8. /\ (m * v) * n = (m * n) * v /\ (w * u) * n = w * (u * n)
        /\ w * (c * v) = (w * c) * v
    BY <1>2, <1>12, <2>2
  <2>9. (m * n) * v <= (w * c) * v
    <3>1. /\ (m * v) * n \in Int /\ (w * u) * n \in Int
          /\ w * (u * n) \in Int /\ w * (c * v) \in Int
      BY <1>2, <1>12, <2>2
    <3>2. QED
      BY <2>6, <2>7, <2>8, <3>1
  <2>10. m * n <= w * c
    <3> DEFINE x == m * n
               y == w * c
    <3>1. x \in Int /\ y \in Int /\ x * v <= y * v
      BY <1>2, <1>12, <2>2, <2>9
    <3> HIDE DEF x, y
    <3>2. ~ (x > y)
      <4>1. SUFFICES ASSUME x > y PROVE FALSE
        OBVIOUS
      <4>2. x >= y + 1
        BY <3>1, <4>1
      <4>3. x * v >= (y + 1) * v
        BY <2>2, <3>1, <4>2
      <4>4. (y + 1) * v = y * v + v
        BY <2>2, <3>1
      <4>5. y * v \in Int /\ x * v \in Int
        BY <2>2, <3>1
      <4>6. QED
        BY <2>2, <3>1, <4>3, <4>4, <4>5
    <3>3. x <= y
      BY <3>1, <3>2
    <3>4. QED
      BY <3>3 DEF x, y
  <2>11. QED
    BY <2>10 DEF n, c
<1>14. ASSUME NEW end \in {1, 2}, requested(end) = 0
       PROVE  m = 0
  <2> DEFINE v == r[2]
             u == r[1]
  <2>1. w = 0
    BY <1>4, <1>14 DEF requested, w
  <2>2. w * u = 0
    BY <1>11, <2>1
  <2>3. 0 = v * 0 + 0 /\ 0 \in 0..(v - 1) /\ v \in Nat \ {0}
    BY <1>11
  <2>4. 0 \div v = 0
    <3> HIDE DEF v
    <3>1. QED
      BY <2>3, QuotientIsUnique
  <2>5. QED
    BY <1>3, <2>2, <2>4
<1>15. ASSUME \A end \in {1, 2} : available(end) \in Nat
       PROVE  m \in Nat
  <2>1. s(1)[1] \in Nat /\ s(2)[1] \in Nat
    BY <1>1, <1>15
  <2>2. r[1] \in Nat
    BY <1>10, <2>1
  <2> DEFINE u == r[1]
  <2> HIDE DEF u
  <2>3. u \in Nat => w * u \in Nat
    BY <1>2
  <2>4. QED
    BY <1>12, <2>2, <2>3 DEF u
<1>16. /\ m \in Int
       /\ \A end \in {1, 2} : /\ requested(end) # 0 => m * requested(end) <= w * available(end)
                              /\ requested(end) = 0 => m = 0
       /\ (\A end \in {1, 2} : available(end) \in Nat) => m \in Nat
  BY <1>12, <1>13, <1>14, <1>15
<1>17. QED
  BY <1>16 DEF requested, available, m, w

(* No more moves through a node than it has, or has room for. *)
LEMMA ThroughFacts ==
  ASSUME NEW g, IsGrid(g), NEW surface, Fills(g, surface),
         NEW node \in DOMAIN g.weight, NEW end \in {1, 2}
  PROVE  PassedAt(g, surface, node, end) \in 0..Available(g, surface, node, end)
<1> DEFINE S == DOMAIN g.weight
           P == TransferPairs(g, surface)
           own == Own(g, surface, node, end)
           moved == MovedOver(g, surface)
           wanted == WantedOf(g, surface)
           n == WantedAt(g, surface, node, end)
           c == Available(g, surface, node, end)
           total == PassedAt(g, surface, node, end)
<1>1. surface \in [S -> Int] /\ surface \in [S -> Nat] /\ DOMAIN surface = S
  <2>1. surface \in [S -> Nat]
    BY DEF Fills
  <2> HIDE DEF S
  <2>2. QED
    BY <2>1
<1>2. \A m \in S, e \in {1, 2} : Available(g, surface, m, e) \in Nat
  <2>1. Room(g, surface) \in [S -> Nat]
    BY RoomFacts
  <2> HIDE DEF S
  <2>2. QED
    BY <1>1, <2>1 DEF Available
<1>3. /\ P \in SUBSET (S \X S) /\ IsFiniteSet(P)
      /\ \A p \in P : /\ Wanted(g, surface, p) \in Nat /\ p[1] \in S /\ p[2] \in S
  <2> HIDE DEF own, moved, wanted, n, c, total
  <2>1. QED
    BY Zenon, <1>1, TransferFacts
<1>4. own \in SUBSET P /\ \A p \in own : p[end] = node
  BY DEF Own
<1>5. IsFiniteSet(own)
  BY <1>3, <1>4, FS_Subset
<1>6. \A p \in own : wanted[p] = Wanted(g, surface, p) /\ wanted[p] \in Nat
  BY <1>3, <1>4 DEF WantedOf
<1>7. ASSUME NEW p \in own
      PROVE  /\ moved[p] \in Nat
             /\ n # 0 => moved[p] * n <= wanted[p] * c
             /\ n = 0 => moved[p] = 0
  <2>1. p \in P /\ p[end] = node
    BY <1>4
  <2>2. \A e \in {1, 2} : Available(g, surface, p[e], e) \in Nat
    BY <1>2, <1>3, <2>1
  <2>3. /\ \A e \in {1, 2} :
              /\ WantedAt(g, surface, p[e], e) # 0
                   => moved[p] * WantedAt(g, surface, p[e], e)
                        <= Wanted(g, surface, p) * Available(g, surface, p[e], e)
              /\ WantedAt(g, surface, p[e], e) = 0 => moved[p] = 0
        /\ (\A e \in {1, 2} : Available(g, surface, p[e], e) \in Nat) => moved[p] \in Nat
    BY Zenon, <1>1, <2>1, MovedFacts
  <2>4. QED
    BY <1>6, <2>1, <2>2, <2>3
<1>8. total = Part(moved, own) /\ n = Part(wanted, own)
  BY DEF PassedAt, WantedAt
<1>9. c \in Nat
  BY <1>2
<1> HIDE DEF own, moved, wanted, c, n, total, P, S
<1>10. n \in Nat /\ total \in Nat
  BY <1>5, <1>6, <1>7, <1>8, PartOfNats
<1>11. CASE n = 0
  <2>1. total = 0
    BY <1>5, <1>7, <1>8, <1>11, PartOfZeros
  <2>2. QED
    BY <1>9, <2>1 DEF total, c
<1>12. CASE n # 0
  <2> DEFINE a == [p \in own |-> n * moved[p]]
             b == [p \in own |-> c * wanted[p]]
  <2>1. \A p \in own : /\ moved[p] \in Int /\ wanted[p] \in Int /\ a[p] = n * moved[p]
                       /\ b[p] = c * wanted[p] /\ a[p] \in Int /\ b[p] \in Int
    BY <1>6, <1>7, <1>9, <1>10
  <2>2. \A p \in own : a[p] <= b[p]
    <3>1. ASSUME NEW p \in own PROVE a[p] <= b[p]
      <4> DEFINE x == moved[p]
                 y == wanted[p]
      <4>1. x \in Nat /\ y \in Nat /\ x * n <= y * c
        BY <1>6, <1>7, <1>12
      <4> HIDE DEF x, y
      <4>2. n * x <= c * y
        <5>1. n * x = x * n /\ c * y = y * c
          BY <1>9, <1>10, <4>1
        <5>2. QED
          BY <4>1, <5>1
      <4>3. QED
        BY <4>2 DEF x, y
    <3>2. QED
      BY <3>1
  <2> HIDE DEF a, b
  <2>3. Part(a, own) = n * total /\ Part(b, own) = c * n
    <3>1. n \in Int /\ c \in Int
      BY <1>9, <1>10
    <3>2. Part(a, own) = n * Part(moved, own)
      <4>1. \A p \in own : moved[p] \in Int /\ a[p] = n * moved[p]
        BY <2>1
      <4>2. QED
        BY Zenon, <1>5, <3>1, <4>1, PartScales
    <3>3. Part(b, own) = c * Part(wanted, own)
      <4>1. \A p \in own : wanted[p] \in Int /\ b[p] = c * wanted[p]
        BY <2>1
      <4>2. QED
        BY Zenon, <1>5, <3>1, <4>1, PartScales
    <3>4. QED
      BY <1>8, <3>2, <3>3
  <2>4. Part(a, own) <= Part(b, own)
    BY <1>5, <2>1, <2>2, PartGrows
  <2>5. n * total <= n * c
    <3>1. c * n = n * c
      BY <1>9, <1>10
    <3>2. QED
      BY <2>3, <2>4, <3>1
  <2>6. total <= c
    <3>1. SUFFICES ASSUME total > c PROVE FALSE
      BY <1>9, <1>10
    <3>2. total >= c + 1 /\ n >= 1
      BY <1>9, <1>10, <1>12, <3>1
    <3>3. n * total >= n * (c + 1)
      BY <1>9, <1>10, <3>2
    <3>4. n * (c + 1) = n * c + n
      BY <1>9, <1>10
    <3>5. n * c \in Int /\ n * total \in Int
      BY <1>9, <1>10
    <3>6. QED
      BY <1>9, <1>10, <2>5, <3>2, <3>3, <3>4, <3>5
  <2>7. QED
    BY <1>9, <1>10, <2>6 DEF total, c
<1>13. QED
  BY <1>11, <1>12

(* One round of slides gives every node a number of volume units.          *)
LEMMA RelaxNeighborPairsType ==
  ASSUME NEW g, IsGrid(g), NEW surface \in [DOMAIN g.weight -> Int]
  PROVE  /\ RelaxNeighborPairs(g, surface) \in [DOMAIN g.weight -> Int]
         /\ \A node \in DOMAIN g.weight, end \in {1, 2} : PassedAt(g, surface, node, end) \in Int
<1> DEFINE S == DOMAIN g.weight
           P == TransferPairs(g, surface)
           moved == MovedOver(g, surface)
           next == RelaxNeighborPairs(g, surface)
<1>1. IsFiniteSet(P) /\ \A p \in P : moved[p] \in Int
  BY Zenon, TransferFacts, MovedFacts
<1>2. ASSUME NEW node \in S, NEW end \in {1, 2}
      PROVE  PassedAt(g, surface, node, end) \in Int
  <2> DEFINE own == Own(g, surface, node, end)
  <2>1. own \in SUBSET P
    BY DEF Own
  <2>2. IsFiniteSet(own)
    BY <1>1, <2>1, FS_Subset
  <2>3. \A p \in own : moved[p] \in Int
    BY <1>1, <2>1
  <2> HIDE DEF own, moved
  <2>4. Part(moved, own) \in Int
    BY <2>2, <2>3, PartFacts
  <2>5. QED
    BY <2>4 DEF PassedAt, own, moved
<1>3. next = [node \in S |-> surface[node] - PassedAt(g, surface, node, 1) + PassedAt(g, surface, node, 2)]
  BY RelaxedBy
<1> HIDE DEF S, next
<1>4. \A node \in S : next[node] \in Int
  <2>1. \A node \in S : /\ surface[node] \in Int /\ PassedAt(g, surface, node, 1) \in Int
                        /\ PassedAt(g, surface, node, 2) \in Int
    BY <1>2 DEF S
  <2>2. QED
    BY <1>3, <2>1
<1>5. next = [node \in S |-> next[node]]
  BY <1>3
<1>6. next \in [S -> Int]
  BY <1>4, <1>5
<1>7. QED
  BY <1>2, <1>6 DEF S, next

(* What slides down the pairs stays on the surface, floor and top hold. *)
LEMMA RelaxNeighborPairsFacts ==
  ASSUME NEW g, IsGrid(g), NEW surface, Fills(g, surface)
  PROVE  /\ Fills(g, RelaxNeighborPairs(g, surface))
         /\ Total(RelaxNeighborPairs(g, surface)) = Total(surface)
<1> DEFINE S == DOMAIN g.weight
           P == TransferPairs(g, surface)
           moved == MovedOver(g, surface)
           next == RelaxNeighborPairs(g, surface)
           given == [node \in S |-> PassedAt(g, surface, node, 1)]
           taken == [node \in S |-> PassedAt(g, surface, node, 2)]
           kept == [node \in S |-> next[node] + given[node]]
<1>1. surface \in [S -> Int] /\ surface \in [S -> Nat] /\ DOMAIN surface = S
  <2>1. surface \in [S -> Nat]
    BY DEF Fills
  <2> HIDE DEF S
  <2>2. QED
    BY <2>1
<1>2. IsFiniteSet(S) /\ \A n \in S : Top * g.weight[n] \in Nat
  <2>1. IsFiniteSet(S) /\ (\A n \in S : g.weight[n] \in Nat \ {0}) /\ Top \in Nat
    BY GridFacts, HeightFieldAssumption
  <2>2. QED
    BY <2>1
<1>3. next = [node \in S |-> surface[node] - given[node] + taken[node]]
  <2>1. next = [node \in DOMAIN surface |->
                  surface[node] - PassedAt(g, surface, node, 1) + PassedAt(g, surface, node, 2)]
    BY RelaxedBy
  <2> HIDE DEF S, next
  <2>2. QED
    BY <1>1, <2>1
<1>4. ASSUME NEW n \in S
      PROVE  /\ given[n] \in 0..surface[n] /\ taken[n] \in 0..(Top * g.weight[n] - surface[n])
  <2>1. /\ Available(g, surface, n, 1) = surface[n]
        /\ Available(g, surface, n, 2) = Top * g.weight[n] - surface[n]
    BY RoomFacts DEF Available
  <2>2. \A end \in {1, 2} :
          PassedAt(g, surface, n, end) \in 0..Available(g, surface, n, end)
    BY Zenon, ThroughFacts
  <2>3. QED
    BY <2>1, <2>2
<1>5. next \in [S -> Int] /\ \A n \in S : given[n] \in Int /\ taken[n] \in Int
  BY <1>1, RelaxNeighborPairsType
<1>6. IsFiniteSet(P) /\ (\A p \in P : moved[p] \in Int) /\ \A p \in P : p[1] \in S /\ p[2] \in S
  BY Zenon, <1>1, TransferFacts, MovedFacts
<1>7. Part(given, S) = Part(moved, P) /\ Part(taken, S) = Part(moved, P)
  <2>1. /\ given = [n \in S |-> Part(moved, {p \in P : p[1] = n})]
        /\ taken = [n \in S |-> Part(moved, {p \in P : p[2] = n})]
    BY DEF PassedAt, Own
  <2> HIDE DEF S, P, moved, given, taken
  <2>2. /\ \A n \in S : given[n] = Part(moved, MeetingAt(P, n, 1))
        /\ \A n \in S : taken[n] = Part(moved, MeetingAt(P, n, 2))
    BY <2>1 DEF MeetingAt
  <2>3. (\A p \in P : p[1] \in S) /\ (\A p \in P : p[2] \in S)
    BY <1>6
  <2>4. IsFiniteSet(P) /\ IsFiniteSet(S) /\ \A p \in P : moved[p] \in Int
    BY <1>2, <1>6
  <2>5. Part(given, S) = Part(moved, P)
    <3> DEFINE end == 1
    <3>1. (\A p \in P : p[end] \in S) /\ \A n \in S : given[n] = Part(moved, MeetingAt(P, n, end))
      BY <2>2, <2>3
    <3> HIDE DEF end
    <3>2. QED
      BY <2>4, <3>1, PartExchange
  <2>6. Part(taken, S) = Part(moved, P)
    <3> DEFINE end == 2
    <3>1. (\A p \in P : p[end] \in S) /\ \A n \in S : taken[n] = Part(moved, MeetingAt(P, n, end))
      BY <2>2, <2>3
    <3> HIDE DEF end
    <3>2. QED
      BY <2>4, <3>1, PartExchange
  <2>7. QED
    BY <2>5, <2>6
<1> HIDE DEF next, given, taken
<1>8. \A n \in S : /\ surface[n] \in Nat /\ next[n] \in Nat /\ next[n] <= Top * g.weight[n]
                   /\ next[n] = surface[n] - given[n] + taken[n]
  <2>1. ASSUME NEW n \in S
        PROVE  /\ surface[n] \in Nat /\ next[n] \in Nat /\ next[n] <= Top * g.weight[n]
               /\ next[n] = surface[n] - given[n] + taken[n]
    <3> DEFINE a == surface[n]
               b == Top * g.weight[n]
               c == given[n]
               d == taken[n]
    <3>1. /\ a \in Nat /\ b \in Nat /\ c \in 0..a /\ d \in 0..(b - a)
          /\ next[n] = a - c + d
      BY <1>1, <1>2, <1>3, <1>4
    <3> HIDE DEF a, b, c, d
    <3>2. next[n] \in Nat /\ next[n] <= b
      BY <3>1
    <3>3. QED
      BY <3>1, <3>2 DEF a, b, c, d
  <2>2. QED
    BY <2>1
<1>9. Fills(g, next)
  <2>1. next \in [S -> Nat]
    <3>1. next = [n \in S |-> next[n]]
      BY <1>3
    <3> HIDE DEF S
    <3>2. QED
      BY <1>8, <3>1
  <2>2. QED
    BY <1>8, <2>1 DEF Fills
<1>10. Part(next, S) = Part(surface, S)
  <2>1. \A n \in S : /\ next[n] \in Int /\ given[n] \in Int /\ taken[n] \in Int
                     /\ surface[n] \in Int
                     /\ kept[n] = next[n] + given[n] /\ kept[n] = surface[n] + taken[n]
    BY <1>1, <1>5, <1>8
  <2> HIDE DEF kept, S
  <2>2. /\ Part(kept, S) = Part(next, S) + Part(given, S)
        /\ Part(kept, S) = Part(surface, S) + Part(taken, S)
    BY <1>2, <2>1, PartAdds
  <2>3. Part(next, S) \in Int /\ Part(given, S) \in Int /\ Part(surface, S) \in Int
    BY <1>2, <2>1, PartFacts
  <2>4. QED
    BY <1>7, <2>2, <2>3
<1>11. Total(next) = Total(surface)
  <2> HIDE DEF S
  <2>1. QED
    BY <1>1, <1>5, <1>10, SumIsPart
<1>12. QED
  BY <1>9, <1>11 DEF next

(* Tables of up to n steps of R, each until nothing changes. *)
StepTable(D, R, n, h) ==
  /\ h \in [0..n -> [D -> D]] /\ h[0] = [c \in D |-> c]
  /\ \A i \in 0..(n - 1) : h[i + 1] = [c \in D |-> IF R[c] = c THEN c ELSE h[i][R[c]]]

(* There is a table of any number of steps.                                *)
LEMMA StepTablesExist ==
  ASSUME NEW D, NEW R \in [D -> D]
  PROVE  \A n \in Nat : \E h : StepTable(D, R, n, h)
<1> DEFINE S == {n \in Nat : \E h : StepTable(D, R, n, h)}
<1>1. 0 \in S
  <2> DEFINE h == [i \in 0..0 |-> [c \in D |-> c]]
  <2>1. h \in [0..0 -> [D -> D]] /\ h[0] = [c \in D |-> c]
    OBVIOUS
  <2>2. \A i \in 0..(0 - 1) : FALSE
    OBVIOUS
  <2> HIDE DEF h
  <2>3. StepTable(D, R, 0, h)
    BY <2>1, <2>2 DEF StepTable
  <2>4. QED
    BY <2>3
<1>2. ASSUME NEW n \in S PROVE n + 1 \in S
  <2>1. PICK h : StepTable(D, R, n, h)
    OBVIOUS
  <2> DEFINE later == [c \in D |-> IF R[c] = c THEN c ELSE h[n][R[c]]]
             k == [i \in 0..(n + 1) |-> IF i = n + 1 THEN later ELSE h[i]]
  <2>2. n \in Nat /\ \A i \in 0..n : h[i] \in [D -> D]
    BY <2>1 DEF StepTable
  <2>3. later \in [D -> D]
    BY <2>2
  <2>4. \A i \in 0..n : k[i] = h[i]
    BY <2>2
  <2>5. k[n + 1] = later
    BY <2>2
  <2>6. k \in [0..(n + 1) -> [D -> D]]
    <3>1. \A i \in 0..(n + 1) : i = n + 1 \/ i \in 0..n
      BY <2>2
    <3> HIDE DEF later
    <3>2. \A i \in 0..(n + 1) : k[i] \in [D -> D]
      BY <2>2, <2>3, <2>4, <2>5, <3>1
    <3>3. QED
      BY <3>2
  <2>7. ASSUME NEW i \in 0..n
        PROVE  k[i + 1] = [c \in D |-> IF R[c] = c THEN c ELSE k[i][R[c]]]
    <3>1. CASE i = n
      <4>1. k[i + 1] = later /\ k[i] = h[n]
        BY <2>2, <2>4, <2>5, <3>1
      <4> HIDE DEF k
      <4>2. QED
        BY <3>1, <4>1
    <3>2. CASE i # n
      <4>1. i \in 0..(n - 1) /\ i + 1 \in 0..n
        BY <2>2, <3>2
      <4>2. k[i + 1] = h[i + 1] /\ k[i] = h[i]
        BY <2>4, <4>1
      <4>3. h[i + 1] = [c \in D |-> IF R[c] = c THEN c ELSE h[i][R[c]]]
        BY <2>1, <4>1 DEF StepTable
      <4> HIDE DEF k
      <4>4. QED
        BY <4>2, <4>3
    <3>3. QED
      BY <3>1, <3>2
  <2>8. k[0] = [c \in D |-> c] /\ (n + 1) - 1 = n
    BY <2>1, <2>2, <2>4 DEF StepTable
  <2>9. StepTable(D, R, n + 1, k)
    <3> HIDE DEF k, later
    <3>1. QED
      BY <2>6, <2>7, <2>8 DEF StepTable
  <2>10. QED
    BY <2>2, <2>9
<1>3. S = Nat
  <2>1. S \subseteq Nat
    OBVIOUS
  <2> HIDE DEF S
  <2>2. QED
    BY <1>1, <1>2, <2>1, Induction
<1>4. QED
  BY <1>3

(* A longer table agrees with a shorter one.                               *)
LEMMA StepTablesAgree ==
  ASSUME NEW D, NEW R \in [D -> D], NEW m \in Nat, NEW n \in Nat, m <= n,
         NEW g, StepTable(D, R, m, g), NEW h, StepTable(D, R, n, h)
  PROVE  g[m] = h[m]
<1> DEFINE S == {i \in Nat : i <= m => g[i] = h[i]}
<1>1. 0 \in S
  BY DEF StepTable
<1>2. ASSUME NEW i \in S PROVE i + 1 \in S
  <2>1. CASE i + 1 <= m
    <3>1. i \in 0..(m - 1) /\ i \in 0..(n - 1) /\ g[i] = h[i]
      BY <2>1
    <3>2. /\ g[i + 1] = [c \in D |-> IF R[c] = c THEN c ELSE g[i][R[c]]]
          /\ h[i + 1] = [c \in D |-> IF R[c] = c THEN c ELSE h[i][R[c]]]
      BY <3>1 DEF StepTable
    <3>3. QED
      BY <3>1, <3>2
  <2>2. QED
    BY <2>1
<1>3. S = Nat
  <2>1. S \subseteq Nat
    OBVIOUS
  <2> HIDE DEF S
  <2>2. QED
    BY <1>1, <1>2, <2>1, Induction
<1>4. QED
  BY <1>3

(* The recursion of relax_slopes has a solution.                           *)
LEMMA StepsExist ==
  ASSUME NEW D, NEW R \in [D -> D]
  PROVE  \E f : f = [at \in Nat \X D |->
                       IF at[1] = 0 \/ R[at[2]] = at[2] THEN at[2] ELSE f[<<at[1] - 1, R[at[2]]>>]]
<1> DEFINE table(n) == CHOOSE h : StepTable(D, R, n, h)
           f == [at \in Nat \X D |-> table(at[1])[at[1]][at[2]]]
<1>1. ASSUME NEW n \in Nat PROVE StepTable(D, R, n, table(n))
  BY StepTablesExist
<1> HIDE DEF table
<1>2. ASSUME NEW at \in Nat \X D
      PROVE  f[at] = IF at[1] = 0 \/ R[at[2]] = at[2] THEN at[2] ELSE f[<<at[1] - 1, R[at[2]]>>]
  <2> DEFINE n == at[1]
             c == at[2]
  <2>1. n \in Nat /\ c \in D /\ R[c] \in D /\ f[at] = table(n)[n][c]
    OBVIOUS
  <2>2. CASE n = 0
    <3>1. table(0)[0] = [d \in D |-> d]
      BY <1>1 DEF StepTable
    <3>2. QED
      BY <2>1, <2>2, <3>1
  <2>3. CASE n # 0
    <3> DEFINE m == n - 1
    <3>1. m \in Nat /\ m + 1 = n /\ m \in 0..(n - 1) /\ m <= n
      BY <2>1, <2>3
    <3>2. f[<<m, R[c]>>] = table(m)[m][R[c]]
      BY <2>1, <3>1
    <3>3. StepTable(D, R, n, table(n)) /\ StepTable(D, R, m, table(m))
      BY <1>1, <2>1, <3>1
    <3> HIDE DEF m, n, c, f
    <3>4. table(m)[m] = table(n)[m]
      <4> DEFINE a == table(m)
                 b == table(n)
      <4>1. StepTable(D, R, m, a) /\ StepTable(D, R, n, b) /\ m \in Nat /\ n \in Nat /\ m <= n
        BY <2>1, <3>1, <3>3
      <4> HIDE DEF a, b
      <4>2. a[m] = b[m]
        BY <4>1, StepTablesAgree
      <4>3. QED
        BY <4>2 DEF a, b
    <3>5. table(n)[m + 1] = [d \in D |-> IF R[d] = d THEN d ELSE table(n)[m][R[d]]]
      BY <3>1, <3>3 DEF StepTable
    <3>6. f[at] = IF R[c] = c THEN c ELSE f[<<m, R[c]>>]
      BY <2>1, <3>1, <3>2, <3>4, <3>5
    <3>7. QED
      BY <2>3, <3>6 DEF m, n, c
  <2>4. QED
    BY <2>2, <2>3
<1>3. f = [at \in Nat \X D |-> f[at]]
  OBVIOUS
<1> HIDE DEF f
<1>4. f = [at \in Nat \X D |->
             IF at[1] = 0 \/ R[at[2]] = at[2] THEN at[2] ELSE f[<<at[1] - 1, R[at[2]]>>]]
  BY <1>2, <1>3
<1>5. QED
  BY <1>4

(* The slopes come to rest with the volume they had, between floor and top. *)
THEOREM RelaxSlopesFacts ==
  ASSUME NEW g, IsGrid(g), NEW surface, Fills(g, surface)
  PROVE  /\ Fills(g, RelaxSlopes(g, surface))
         /\ Total(RelaxSlopes(g, surface)) = Total(surface)
<1> DEFINE S == DOMAIN g.weight
           D == [S -> Int]
           R == [c \in D |-> RelaxNeighborPairs(g, c)]
           Rule(f) == [at \in Nat \X D |->
                         IF at[1] = 0 \/ R[at[2]] = at[2] THEN at[2]
                         ELSE f[<<at[1] - 1, R[at[2]]>>]]
           Step(f) == [at \in Nat \X D |->
                         LET left == at[1]
                             current == at[2]
                             next == RelaxNeighborPairs(g, current)
                         IN IF left = 0 \/ next = current THEN current
                            ELSE f[<<left - 1, next>>]]
           relax == CHOOSE f : f = Step(f)
           AsFull(c, d) == Fills(g, c) => Fills(g, d) /\ Total(d) = Total(c)
           K == {n \in Nat : \A c \in D : AsFull(c, relax[<<n, c>>])}
<1>1. DOMAIN surface = S /\ surface \in D
  <2>1. surface \in [S -> Nat]
    BY DEF Fills
  <2> HIDE DEF S
  <2>2. QED
    BY <2>1
<1>2. R \in [D -> D]
  <2>1. \A c \in D : RelaxNeighborPairs(g, c) \in D
    BY RelaxNeighborPairsType
  <2> HIDE DEF D
  <2>2. QED
    BY <2>1
<1>3. ASSUME NEW f PROVE Step(f) = Rule(f)
  <2> HIDE DEF D
  <2>1. QED
    OBVIOUS
<1>4. RelaxSlopes(g, surface) = relax[<<MaxIterations, surface>>]
  BY <1>1 DEF RelaxSlopes
<1>5. relax = Rule(relax)
  <2>1. \E f : f = Rule(f)
    <3> HIDE DEF D, R
    <3>1. QED
      BY <1>2, StepsExist
  <2>2. \E f : f = Step(f)
    <3> HIDE DEF Step, Rule
    <3>1. QED
      BY <1>3, <2>1
  <2>3. relax = Step(relax)
    <3> HIDE DEF Step
    <3>1. QED
      BY <2>2
  <2> HIDE DEF relax, Step, Rule
  <2>4. QED
    BY <1>3, <2>3
<1>6. \A n \in Nat, c \in D :
        relax[<<n, c>>] = IF n = 0 \/ R[c] = c THEN c ELSE relax[<<n - 1, R[c]>>]
  <2> HIDE DEF relax, R, D
  <2>1. QED
    BY <1>5
<1>7. \A c \in D : R[c] \in D /\ AsFull(c, R[c])
  BY <1>2, RelaxNeighborPairsFacts
<1> HIDE DEF relax, R, D
<1>8. 0 \in K
  BY <1>6
<1>9. ASSUME NEW n \in K PROVE n + 1 \in K
  <2>1. n \in Nat /\ n + 1 \in Nat /\ n + 1 # 0 /\ (n + 1) - 1 = n
    OBVIOUS
  <2>2. ASSUME NEW c \in D PROVE AsFull(c, relax[<<n + 1, c>>])
    <3>1. CASE R[c] = c
      BY <1>6, <2>1, <3>1
    <3>2. CASE R[c] # c
      <4>1. relax[<<n + 1, c>>] = relax[<<n, R[c]>>]
        BY <1>6, <2>1, <3>2
      <4>2. AsFull(c, R[c]) /\ AsFull(R[c], relax[<<n, R[c]>>])
        BY <1>7
      <4>3. QED
        BY <4>1, <4>2
    <3>3. QED
      BY <3>1, <3>2
  <2>3. QED
    BY <2>1, <2>2
<1>10. K = Nat
  <2>1. K \subseteq Nat
    OBVIOUS
  <2> HIDE DEF K
  <2>2. QED
    BY <1>8, <1>9, <2>1, Induction
<1>11. MaxIterations \in Nat
  BY HeightFieldAssumption
<1>12. QED
  BY <1>1, <1>4, <1>10, <1>11

(* Products of integers.                                                   *)
LEMMA ProductsAreIntegers ==
  ASSUME NEW a \in Int, NEW b \in Int
  PROVE  a * b \in Int
  OBVIOUS

(* A bump without volume, scaled until it fits. *)
LEMMA RaisedFacts ==
  ASSUME NEW g, IsGrid(g), NEW surface, Fills(g, surface), NEW crest \in Nat \ {0},
         NEW delta \in [DOMAIN g.weight -> Int], Total(delta) = 0
  PROVE  /\ Fills(g, Raised(g, surface, crest, delta))
         /\ Total(Raised(g, surface, crest, delta)) = Total(surface)
<1> DEFINE S == DOMAIN g.weight
           room == Room(g, surface)
           rising == {n \in S : delta[n] > 0}
           falling == {n \in S : delta[n] < 0}
           above == [n \in rising |-> <<room[n] * crest, delta[n]>>]
           below == [n \in falling |-> <<surface[n] * crest, -delta[n]>>]
           limits == {above[n] : n \in rising} \cup {below[n] : n \in falling}
           R == limits \cup {<<1, 1>>}
           scale == Least(R)
           share == [n \in S |-> delta[n] * scale[1]]
           parts == crest * scale[2]
           change == Apportioned(share, parts, 0)
           next == Raised(g, surface, crest, delta)
<1>1. /\ surface \in [S -> Int] /\ DOMAIN surface = S
      /\ \A n \in S : surface[n] \in Nat /\ surface[n] <= Top * g.weight[n]
  <2>1. surface \in [S -> Nat] /\ \A n \in S : surface[n] <= Top * g.weight[n]
    BY DEF Fills
  <2> HIDE DEF S
  <2>2. QED
    BY <2>1
<1>2. \A n \in S : room[n] \in Nat /\ room[n] = Top * g.weight[n] - surface[n]
  BY RoomFacts
<1>3. IsFiniteSet(S) /\ S \in SUBSET (Int \X Int) /\ \A n \in S : g.weight[n] \in Int
  BY GridFacts
<1>4. next = [n \in S |-> surface[n] + change[n]]
  <2>1. /\ {<<room[n] * crest, delta[n]>> : n \in {m \in DOMAIN surface : delta[m] > 0}}
             = {above[n] : n \in rising}
        /\ {<<surface[n] * crest, -delta[n]>> : n \in {m \in DOMAIN surface : delta[m] < 0}}
             = {below[n] : n \in falling}
    BY <1>1
  <2> DEFINE lim == {<<room[n] * crest, delta[n]>> : n \in {m \in DOMAIN surface : delta[m] > 0}}
                      \cup {<<surface[n] * crest, -delta[n]>> :
                              n \in {m \in DOMAIN surface : delta[m] < 0}}
  <2>2. lim = limits
    BY <2>1
  <2>3. BumpScale(lim) = scale
    BY <2>2 DEF BumpScale
  <2>4. next = [n \in DOMAIN surface |-> surface[n] +
                 Apportioned([node \in DOMAIN surface |-> delta[node] * BumpScale(lim)[1]],
                             crest * BumpScale(lim)[2], 0)[n]]
    BY DEF Raised
  <2> HIDE DEF lim, next, scale
  <2>5. QED
    BY <1>1, <2>3, <2>4
<1>5. /\ \A n \in S : delta[n] \in Int
      /\ \A n \in rising : above[n] \in Rationals /\ above[n][1] \in Nat
      /\ \A n \in falling : below[n] \in Rationals /\ below[n][1] \in Nat
  <2>1. \A n \in S : room[n] * crest \in Nat /\ surface[n] * crest \in Nat
    BY <1>1, <1>2
  <2>2. \A n \in rising : n \in S /\ delta[n] \in Nat \ {0}
    OBVIOUS
  <2>3. \A n \in falling : n \in S /\ -delta[n] \in Nat \ {0}
    OBVIOUS
  <2> HIDE DEF rising, falling, room, S
  <2>4. \A n \in rising : above[n] \in Rationals /\ above[n][1] \in Nat
    BY <2>1, <2>2 DEF Rationals
  <2>5. \A n \in falling : below[n] \in Rationals /\ below[n][1] \in Nat
    BY <2>1, <2>3 DEF Rationals
  <2>6. QED
    BY <2>4, <2>5 DEF S
<1>6. IsFiniteSet(R)
  <2>1. rising \in SUBSET S /\ falling \in SUBSET S
    OBVIOUS
  <2>2. IsFiniteSet(rising) /\ IsFiniteSet(falling)
    BY <1>3, <2>1, FS_Subset
  <2> DEFINE A == {above[n] : n \in rising}
             B == {below[n] : n \in falling}
  <2>3. IsFiniteSet(A) /\ IsFiniteSet(B)
    <3> HIDE DEF rising, falling, above, below
    <3>1. QED
      BY <2>2, ImageIsFinite
  <2> DEFINE t == <<1, 1>>
  <2> HIDE DEF A, B, t
  <2>4. IsFiniteSet(A \cup B)
    BY <2>3, FS_Union
  <2>5. IsFiniteSet((A \cup B) \cup {t})
    BY <2>4, FS_AddElement
  <2>6. QED
    BY <2>5 DEF A, B, t
<1>7. R \in SUBSET Rationals /\ R # {} /\ \A r \in R : r[1] \in Nat
  <2> HIDE DEF above, below, rising, falling
  <2>1. \A r \in R : r \in Rationals /\ r[1] \in Nat
    BY <1>5 DEF Rationals
  <2>2. QED
    BY <2>1
<1>8. scale \in R /\ \A r \in R : scale[1] * r[2] <= r[1] * scale[2]
  <2> HIDE DEF R
  <2>1. QED
    BY <1>6, <1>7, LeastFacts
<1>9. scale[1] \in Nat /\ scale[2] \in Nat \ {0} /\ parts \in Nat \ {0}
  <2>1. scale[1] \in Nat /\ scale[2] \in Nat \ {0}
    BY <1>7, <1>8 DEF Rationals
  <2> DEFINE u == scale[2]
  <2>2. u \in Nat \ {0}
    BY <2>1
  <2> HIDE DEF u
  <2>3. crest * u \in Nat \ {0}
    BY <2>2
  <2>4. QED
    BY <2>1, <2>3 DEF u
<1>10. /\ \A n \in rising : scale[1] * delta[n] <= (room[n] * crest) * scale[2]
       /\ \A n \in falling : scale[1] * (-delta[n]) <= (surface[n] * crest) * scale[2]
  <2>1. \A n \in rising : above[n] \in R /\ above[n][1] = room[n] * crest /\ above[n][2] = delta[n]
    OBVIOUS
  <2>2. \A n \in falling : below[n] \in R /\ below[n][1] = surface[n] * crest
                                         /\ below[n][2] = -delta[n]
    OBVIOUS
  <2> HIDE DEF R, rising, falling, above, below, room, scale
  <2>3. QED
    BY <1>8, <2>1, <2>2
<1> HIDE DEF R, room, above, below, scale, parts
<1>11. share \in [S -> Int] /\ \A n \in S : share[n] = scale[1] * delta[n]
  <2>1. \A n \in S : share[n] \in Int /\ share[n] = scale[1] * delta[n]
    <3>1. ASSUME NEW n \in S PROVE share[n] \in Int /\ share[n] = scale[1] * delta[n]
      <4> DEFINE a == scale[1]
                 b == delta[n]
      <4>1. a \in Int /\ b \in Int /\ share[n] = b * a
        BY <1>5, <1>9
      <4> HIDE DEF a, b
      <4>2. b * a \in Int /\ b * a = a * b
        BY <4>1
      <4>3. QED
        BY <4>1, <4>2 DEF a, b
    <3>2. QED
      BY <3>1
  <2>2. share = [n \in S |-> share[n]]
    OBVIOUS
  <2> HIDE DEF share, S
  <2>3. share \in [S -> Int]
    BY <2>1, <2>2
  <2>4. QED
    BY <2>1, <2>3
<1> HIDE DEF share
<1>12. Total(share) = parts * 0
  <2> DEFINE k == scale[1]
  <2>1. k \in Int /\ \A n \in S : delta[n] \in Int /\ share[n] = k * delta[n]
    BY <1>5, <1>9, <1>11
  <2> HIDE DEF k
  <2>2. Part(share, S) = k * Part(delta, S)
    BY <1>3, <2>1, PartScales
  <2>3. Total(share) = Part(share, S) /\ Total(delta) = Part(delta, S)
    <3> HIDE DEF S
    <3>1. Total(share) = Part(share, S)
      BY <1>11, SumIsPart
    <3>2. Total(delta) = Part(delta, S)
      BY SumIsPart DEF S
    <3>3. QED
      BY <3>1, <3>2
  <2>4. Total(share) = 0
    BY <2>1, <2>2, <2>3
  <2>5. QED
    BY <1>9, <2>4
<1>13. /\ change \in [S -> Int] /\ Total(change) = 0
       /\ \A node \in S : \A low, high \in Int :
            parts * low <= share[node] /\ share[node] <= parts * high
              => low <= change[node] /\ change[node] <= high
  <2> DEFINE zero == 0
             apportioned == Apportioned(share, parts, zero)
  <2>1. zero \in Int /\ Total(share) = parts * zero
    BY <1>12
  <2> HIDE DEF S, zero, apportioned
  <2>2. /\ apportioned \in [S -> Int] /\ Total(apportioned) = zero
        /\ \A node \in S : \A low, high \in Int :
             parts * low <= share[node] /\ share[node] <= parts * high
               => low <= apportioned[node] /\ apportioned[node] <= high
    BY <1>3, <1>9, <1>11, <2>1, ApportionedFacts DEF apportioned
  <2>3. QED
    BY <2>2 DEF apportioned, zero
<1> HIDE DEF change, next
<1>14. ASSUME NEW n \in S PROVE -surface[n] <= change[n] /\ change[n] <= room[n]
  <2> DEFINE h == surface[n]
             r == room[n]
             d == delta[n]
             a == scale[1]
             b == scale[2]
  <2>1. /\ h \in Nat /\ r \in Nat /\ d \in Int /\ a \in Nat /\ b \in Nat \ {0}
        /\ parts = crest * b /\ share[n] = a * d /\ parts \in Nat
    BY <1>1, <1>2, <1>5, <1>9, <1>11 DEF parts
  <2>2. (d > 0 => a * d <= (r * crest) * b) /\ (d < 0 => a * (-d) <= (h * crest) * b)
    BY <1>10
  <2> HIDE DEF h, r, d, a, b
  <2>3. /\ (r * crest) * b = (crest * b) * r /\ (h * crest) * b = (crest * b) * h
        /\ (crest * b) * (-h) = -((crest * b) * h) /\ a * (-d) = -(a * d)
    BY <2>1
  <2>4. (crest * b) * r \in Nat /\ (crest * b) * h \in Nat /\ a * d \in Int
    BY <2>1
  <2>5. a * d <= (crest * b) * r /\ (crest * b) * (-h) <= a * d
    <3>1. CASE d > 0
      <4>1. a * d >= 0
        BY <2>1, <3>1
      <4>2. QED
        BY <2>2, <2>3, <2>4, <3>1, <4>1
    <3>2. CASE d < 0
      <4>1. a * (-d) >= 0
        BY <2>1, <3>2
      <4>2. QED
        BY <2>2, <2>3, <2>4, <3>2, <4>1
    <3>3. CASE d = 0
      <4>1. a * d = 0
        BY <2>1, <3>3
      <4>2. QED
        BY <2>3, <2>4, <4>1
    <3>4. QED
      BY <2>1, <3>1, <3>2, <3>3
  <2>6. -h \in Int /\ r \in Int /\ parts * (-h) <= share[n] /\ share[n] <= parts * r
    BY <2>1, <2>5
  <2>7. -h <= change[n] /\ change[n] <= r
    BY <1>13, <2>6
  <2>8. QED
    BY <2>7 DEF h, r
<1>15. \A n \in S : /\ next[n] = surface[n] + change[n] /\ next[n] \in Nat
                    /\ next[n] <= Top * g.weight[n]
                    /\ surface[n] \in Int /\ change[n] \in Int
  <2>1. ASSUME NEW n \in S
        PROVE  /\ next[n] = surface[n] + change[n] /\ next[n] \in Nat
               /\ next[n] <= Top * g.weight[n]
               /\ surface[n] \in Int /\ change[n] \in Int
    <3> DEFINE a == surface[n]
               b == Top * g.weight[n]
               c == change[n]
    <3>1. /\ a \in Nat /\ room[n] = b - a /\ room[n] \in Nat /\ c \in Int
          /\ -a <= c /\ c <= room[n] /\ next[n] = a + c
      BY <1>1, <1>2, <1>4, <1>13, <1>14
    <3>2. b \in Int
      BY <1>3, HeightFieldAssumption
    <3> HIDE DEF a, b, c
    <3>3. next[n] \in Nat /\ next[n] <= b
      BY <3>1, <3>2
    <3>4. QED
      BY <3>1, <3>3 DEF a, b, c
  <2>2. QED
    BY <2>1
<1>16. next \in [S -> Nat] /\ next \in [S -> Int]
  <2>1. next = [n \in S |-> next[n]]
    BY <1>4
  <2>2. \A n \in S : next[n] \in Nat /\ next[n] \in Int
    BY <1>15
  <2> HIDE DEF S
  <2>3. QED
    BY <2>1, <2>2
<1>17. Fills(g, next)
  BY <1>15, <1>16 DEF Fills
<1>18. Total(next) = Total(surface)
  <2> HIDE DEF S
  <2>1. /\ Total(next) = Part(next, S) /\ Total(surface) = Part(surface, S)
        /\ Total(change) = Part(change, S)
    BY <1>1, <1>13, <1>16, SumIsPart
  <2>2. Part(next, S) = Part(surface, S) + Part(change, S)
    BY <1>3, <1>15, PartAdds
  <2>3. Part(surface, S) \in Int
    BY <1>3, <1>15, PartFacts
  <2>4. QED
    BY <1>13, <2>1, <2>2, <2>3
<1>19. QED
  BY <1>17, <1>18 DEF next

(* Over the whole surface a bump has no volume. *)
LEMMA BumpFacts ==
  ASSUME NEW g, IsGrid(g), NEW surface, DOMAIN surface = DOMAIN g.weight, NEW center,
         NEW radius \in Int,
         \A node \in DOMAIN g.weight : SquaredDistance(g, node, center) \in Int
  PROVE  LET profile == BumpProfile(g, surface, center, radius)
             volume == [node \in DOMAIN g.weight |-> g.weight[node] * profile[node]]
         IN /\ \A node \in DOMAIN g.weight : profile[node] \in Int
            /\ Part(volume, DOMAIN g.weight) = 0
<1> DEFINE S == DOMAIN g.weight
           profile == BumpProfile(g, surface, center, radius)
           volume == [node \in S |-> g.weight[node] * profile[node]]
           away(n) == SquaredDistance(g, n, center)
           support == {n \in S : away(n) < radius * radius}
           bump == [n \in support |-> (radius * radius - away(n)) * (radius * radius - away(n))]
           loads == [n \in support |-> g.weight[n] * bump[n]]
           areas == [n \in support |-> g.weight[n]]
           area == Total(areas)
           mean == Total(loads)
           lift == [n \in support |-> area * loads[n]]
           drop == [n \in support |-> (-mean) * areas[n]]
           both == [n \in support |-> lift[n] + drop[n]]
<1>1. IsFiniteSet(S) /\ \A n \in S : g.weight[n] \in Int
  BY GridFacts
<1>2. support \in SUBSET S /\ IsFiniteSet(support)
  <2>1. support \in SUBSET S
    OBVIOUS
  <2>2. QED
    BY <1>1, <2>1, FS_Subset
<1>3. \A n \in support : bump[n] \in Int
  <2>1. ASSUME NEW n \in support PROVE bump[n] \in Int
    <3> DEFINE d == away(n)
    <3>1. d \in Int /\ bump[n] = (radius * radius - d) * (radius * radius - d)
      OBVIOUS
    <3> HIDE DEF d, bump
    <3>2. radius * radius - d \in Int
      BY <3>1
    <3>3. QED
      BY <3>1, <3>2, ProductsAreIntegers
  <2>2. QED
    BY <2>1
<1>4. \A n \in support : loads[n] \in Int /\ areas[n] \in Int /\ areas[n] = g.weight[n]
                         /\ loads[n] = g.weight[n] * bump[n]
  <2> HIDE DEF bump
  <2>1. ASSUME NEW n \in support PROVE loads[n] \in Int
    <3>1. g.weight[n] \in Int /\ bump[n] \in Int /\ loads[n] = g.weight[n] * bump[n]
      BY <1>1, <1>2, <1>3
    <3> HIDE DEF loads
    <3>2. QED
      BY <3>1, ProductsAreIntegers
  <2>2. QED
    BY <1>1, <1>2, <2>1
<1>5. loads \in [support -> Int] /\ areas \in [support -> Int]
  <2>1. loads = [n \in support |-> loads[n]] /\ areas = [n \in support |-> areas[n]]
    OBVIOUS
  <2> HIDE DEF loads, areas, support
  <2>2. QED
    BY <1>4, <2>1
<1>6. area = Part(areas, support) /\ mean = Part(loads, support) /\ area \in Int /\ mean \in Int
  <2> HIDE DEF loads, areas, support
  <2>1. area = Part(areas, support) /\ mean = Part(loads, support)
    BY <1>5, SumIsPart
  <2>2. QED
    BY <1>2, <1>4, <2>1, PartFacts
<1>7. profile = [n \in S |-> IF n \in support THEN bump[n] * area - mean ELSE 0]
  BY DEF BumpProfile
<1> HIDE DEF bump, area, mean, profile
<1>8. \A n \in S : profile[n] \in Int
  <2>1. ASSUME NEW n \in support PROVE bump[n] * area - mean \in Int
    <3>1. bump[n] * area \in Int
      BY <1>3, <1>6, ProductsAreIntegers
    <3>2. QED
      BY <1>6, <3>1
  <2>2. QED
    BY <1>7, <2>1
<1>9. \A n \in support : /\ lift[n] = area * loads[n] /\ drop[n] = (-mean) * areas[n]
                         /\ lift[n] \in Int /\ drop[n] \in Int /\ both[n] = lift[n] + drop[n]
  <2>1. -mean \in Int
    BY <1>6
  <2> HIDE DEF loads, areas
  <2>2. ASSUME NEW n \in support
        PROVE  area * loads[n] \in Int /\ (-mean) * areas[n] \in Int
    <3>1. area * loads[n] \in Int
      BY <1>4, <1>6, ProductsAreIntegers
    <3>2. (-mean) * areas[n] \in Int
      BY <1>4, <2>1, ProductsAreIntegers
    <3>3. QED
      BY <3>1, <3>2
  <2>3. QED
    BY <2>2
<1>10. \A n \in support : volume[n] = both[n]
  <2>1. ASSUME NEW n \in support PROVE volume[n] = both[n]
    <3> DEFINE w == g.weight[n]
               b == bump[n]
    <3>1. volume[n] = w * (b * area - mean)
      BY <1>2, <1>7
    <3>2. loads[n] = w * b /\ areas[n] = w
      BY <1>4
    <3>3. both[n] = area * (w * b) + (-mean) * w
      BY <1>9, <3>2
    <3>4. w \in Int /\ b \in Int
      BY <1>1, <1>2, <1>3
    <3> HIDE DEF w, b, both, volume
    <3>5. w * (b * area - mean) = area * (w * b) + (-mean) * w
      BY <1>6, <3>4
    <3>6. QED
      BY <3>1, <3>3, <3>5
  <2>2. QED
    BY <2>1
<1> HIDE DEF lift, drop, both, loads, areas
<1>11. Part(both, support) = 0
  <2>1. Part(lift, support) = area * Part(loads, support)
    <3>1. \A n \in support : loads[n] \in Int /\ lift[n] = area * loads[n]
      BY <1>4, <1>9
    <3> HIDE DEF support
    <3>2. QED
      BY Zenon, <1>2, <1>6, <3>1, PartScales
  <2>2. Part(drop, support) = (-mean) * Part(areas, support)
    <3> DEFINE k == -mean
    <3>1. k \in Int /\ \A n \in support : areas[n] \in Int /\ drop[n] = k * areas[n]
      <4>1. k \in Int
        BY <1>6
      <4>2. \A n \in support : areas[n] \in Int
        BY <1>4
      <4>3. \A n \in support : drop[n] = (-mean) * areas[n]
        BY <1>9
      <4>4. QED
        BY Zenon, <4>1, <4>2, <4>3
    <3> HIDE DEF support, k
    <3>2. Part(drop, support) = k * Part(areas, support)
      BY Zenon, <1>2, <3>1, PartScales
    <3>3. QED
      BY <3>2 DEF k
  <2>3. Part(both, support) = Part(lift, support) + Part(drop, support)
    <3>1. \A n \in support : lift[n] \in Int /\ drop[n] \in Int /\ both[n] = lift[n] + drop[n]
      BY <1>9
    <3> HIDE DEF support
    <3>2. QED
      BY Zenon, <1>2, <3>1, PartAdds
  <2>4. area * mean + (-mean) * area = 0
    BY <1>6
  <2>5. QED
    BY <1>6, <2>1, <2>2, <2>3, <2>4
<1>12. Part(volume, support) = 0
  <2> HIDE DEF support, volume
  <2>1. Part(volume, support) = Part(both, support)
    BY Zenon, <1>10, SamePart
  <2>2. QED
    BY <1>11, <2>1
<1>13. Part(volume, S \ support) = 0
  <2>1. \A n \in S \ support : volume[n] = 0
    <3>1. ASSUME NEW n \in S \ support PROVE volume[n] = 0
      <4>1. volume[n] = g.weight[n] * 0 /\ g.weight[n] \in Int
        BY <1>1, <1>7
      <4>2. QED
        BY <4>1
    <3>2. QED
      BY <3>1
  <2>2. IsFiniteSet(S \ support)
    BY <1>1, FS_Subset
  <2> HIDE DEF support, volume, S
  <2>3. QED
    BY <2>1, <2>2, PartOfZeros
<1>14. \A n \in S : volume[n] \in Int
  <2>1. ASSUME NEW n \in S PROVE volume[n] \in Int
    <3>1. g.weight[n] \in Int /\ profile[n] \in Int /\ volume[n] = g.weight[n] * profile[n]
      BY <1>1, <1>8
    <3> HIDE DEF volume
    <3>2. QED
      BY <3>1, ProductsAreIntegers
  <2>2. QED
    BY <2>1
<1>15. Part(volume, S) = 0
  <2>1. S = (S \ support) \cup support /\ (S \ support) \cap support = {}
    BY <1>2
  <2>2. IsFiniteSet(S \ support)
    BY <1>1, FS_Subset
  <2> HIDE DEF support, volume, S
  <2>3. Part(volume, (S \ support) \cup support) = Part(volume, S \ support) + Part(volume, support)
    BY <1>2, <1>14, <2>1, <2>2, PartUnion
  <2>4. QED
    BY <1>12, <1>13, <2>1, <2>3
<1>16. QED
  BY <1>8, <1>15 DEF profile

(* A bump keeps the volume, and no node is pushed under the floor or over  *)
(* the top (apply_local_roughness).                                        *)
THEOREM ApplyLocalRoughnessFacts ==
  ASSUME NEW g, IsGrid(g), NEW surface, Fills(g, surface), NEW center, NEW radius \in Int,
         NEW peak \in Int,
         \A node \in DOMAIN g.weight : SquaredDistance(g, node, center) \in Int
  PROVE  LET next == ApplyLocalRoughness(g, surface, center, radius, peak)
         IN Fills(g, next) /\ Total(next) = Total(surface)
<1> DEFINE S == DOMAIN g.weight
           profile == BumpProfile(g, surface, center, radius)
           crest == Max({profile[node] : node \in S})
           volume == [node \in S |-> g.weight[node] * profile[node]]
           delta == [node \in S |-> g.weight[node] * profile[node] * peak]
           next == ApplyLocalRoughness(g, surface, center, radius, peak)
<1>1. DOMAIN surface = S /\ surface \in [S -> Nat]
  BY DEF Fills
<1>2. next = IF peak = 0 \/ crest <= 0 THEN surface ELSE Raised(g, surface, crest, delta)
  BY <1>1 DEF ApplyLocalRoughness
<1>3. IsFiniteSet(S) /\ \A n \in S : g.weight[n] \in Int
  BY GridFacts
<1>4. (\A n \in S : profile[n] \in Int) /\ Part(volume, S) = 0
  BY <1>1, BumpFacts
<1> HIDE DEF profile
<1>5. \A n \in S : /\ volume[n] \in Int /\ delta[n] = peak * volume[n] /\ delta[n] \in Int
  <2>1. ASSUME NEW n \in S
        PROVE  volume[n] \in Int /\ delta[n] = peak * volume[n] /\ delta[n] \in Int
    <3> DEFINE w == g.weight[n]
               p == profile[n]
    <3>1. /\ w \in Int /\ p \in Int /\ volume[n] = w * p /\ delta[n] = w * p * peak
      BY <1>3, <1>4
    <3> HIDE DEF w, p, volume, delta
    <3>2. w * p \in Int /\ w * p * peak = peak * (w * p)
      BY <3>1
    <3>3. peak * (w * p) \in Int
      BY <3>2, ProductsAreIntegers
    <3>4. QED
      BY <3>1, <3>2, <3>3
  <2>2. QED
    BY <2>1
<1>6. delta \in [S -> Int]
  <2>1. delta = [n \in S |-> delta[n]]
    OBVIOUS
  <2> HIDE DEF delta, S, volume
  <2>2. QED
    BY <1>5, <2>1
<1> HIDE DEF delta, volume
<1>7. Total(delta) = 0
  <2> HIDE DEF S
  <2>1. Total(delta) = Part(delta, S)
    BY <1>6, SumIsPart
  <2>2. Part(delta, S) = peak * Part(volume, S)
    <3>1. \A n \in S : volume[n] \in Int /\ delta[n] = peak * volume[n]
      BY <1>5
    <3>2. QED
      BY Zenon, <1>3, <3>1, PartScales
  <2>3. QED
    BY <1>4, <2>1, <2>2
<1>8. CASE peak = 0 \/ crest <= 0
  BY <1>2, <1>8
<1>9. CASE ~ (peak = 0 \/ crest <= 0)
  <2>1. next = Raised(g, surface, crest, delta)
    BY <1>2, <1>9
  <2>2. CASE S = {}
    <3>1. next = [node \in {} |-> node] /\ surface = [node \in {} |-> node]
      <4>1. next = [node \in DOMAIN surface |-> next[node]]
        BY <2>1 DEF Raised
      <4> HIDE DEF next
      <4>2. QED
        BY <1>1, <2>2, <4>1
    <3>2. next = surface
      BY <3>1
    <3> HIDE DEF next
    <3>3. QED
      BY <3>2 DEF next
  <2>3. CASE S # {}
    <3>1. crest \in Int
      <4> HIDE DEF S
      <4>1. \E n \in S : crest = profile[n]
        BY Zenon, <1>3, <1>4, <2>3, GreatestValue
      <4>2. QED
        BY <1>4, <4>1
    <3>2. crest \in Nat \ {0}
      BY <1>9, <3>1
    <3> HIDE DEF crest, next
    <3>3. Fills(g, next) /\ Total(next) = Total(surface)
      BY <1>6, <1>7, <2>1, <3>2, RaisedFacts
    <3>4. QED
      BY <3>3 DEF next
  <2>4. QED
    BY <2>2, <2>3
<1>10. QED
  BY <1>8, <1>9

-----------------------------------------------------------------------------
(* Profiles: what is drawn, and its integral.                              *)

(* A segment of a profile; no tick of it has a negative factor. *)
Segments ==
  {segment \in [start : Nat, duration : Nat \ {0}, integral : Int] :
     Unit * segment.duration + segment.integral >= 0}

Integrals(segments) == [i \in DOMAIN segments |-> segments[i].integral]

(* In order between two times, and balanced. *)
GoodSegments(segments, from, until) ==
  /\ segments \in Seq(Segments)
  /\ \A i \in DOMAIN segments :
       segments[i].start >= from /\ SegmentEnd(segments[i]) <= until
  /\ \A i, j \in DOMAIN segments : i < j => SegmentEnd(segments[i]) <= segments[j].start
  /\ Part(Integrals(segments), DOMAIN segments) = 0

(* The numbers of a segment, and that it stops no tick below nothing.      *)
LEMMA SegmentFacts ==
  ASSUME NEW s \in Segments
  PROVE  /\ s.start \in Nat /\ s.duration \in Nat \ {0} /\ s.integral \in Int
         /\ SegmentEnd(s) \in Nat /\ SegmentEnd(s) > s.start
         /\ Unit * s.duration + s.integral >= 0
<1>1. s.start \in Nat /\ s.duration \in Nat \ {0} /\ s.integral \in Int
      /\ Unit * s.duration + s.integral >= 0
  BY DEF Segments
<1>2. QED
  BY <1>1 DEF SegmentEnd

(* A sum over consecutive numbers does not depend on where they start.     *)
LEMMA PartShifts ==
  ASSUME NEW k \in Nat
  PROVE  \A n \in Nat : \A f, g :
           (\A i \in 1..n : f[i] \in Int /\ g[i + k] = f[i])
             => Part(g, (k + 1)..(k + n)) = Part(f, 1..n)
<1> DEFINE Shifts(f, g, n) == \A i \in 1..n : f[i] \in Int /\ g[i + k] = f[i]
           N == {n \in Nat : \A f, g : Shifts(f, g, n) => Part(g, (k + 1)..(k + n)) = Part(f, 1..n)}
<1>1. 0 \in N
  <2>1. (k + 1)..(k + 0) = {} /\ 1..0 = {}
    OBVIOUS
  <2>2. QED
    BY <2>1, PartFacts, FS_EmptySet
<1>2. ASSUME NEW n \in N PROVE n + 1 \in N
  <2>0. n \in Nat
    OBVIOUS
  <2>1. ASSUME NEW f, NEW g, Shifts(f, g, n + 1)
        PROVE  Part(g, (k + 1)..(k + (n + 1))) = Part(f, 1..(n + 1))
    <3>1. Shifts(f, g, n)
      BY <2>0, <2>1
    <3>2. Part(g, (k + 1)..(k + n)) = Part(f, 1..n)
      BY <3>1
    <3> DEFINE A == (k + 1)..(k + n)
               B == 1..n
               y == k + (n + 1)
               z == n + 1
    <3>3. /\ (k + 1)..(k + (n + 1)) = A \cup {y} /\ 1..(n + 1) = B \cup {z}
          /\ y \notin A /\ z \notin B
      BY <2>0
    <3>4. g[y] = f[z] /\ \A i \in B \cup {z} : f[i] \in Int
      <4>1. y = z + k /\ z \in 1..(n + 1)
        BY <2>0
      <4>2. \A i \in B \cup {z} : i \in 1..(n + 1)
        BY <2>0
      <4>3. QED
        BY <2>1, <4>1, <4>2
    <3>5. \A i \in A \cup {y} : g[i] \in Int
      <4>1. ASSUME NEW i \in A \cup {y} PROVE g[i] \in Int
        <5>1. i - k \in 1..(n + 1) /\ (i - k) + k = i
          BY <2>0
        <5>2. QED
          BY <2>1, <5>1
      <4>2. QED
        BY <4>1
    <3>6. IsFiniteSet(A) /\ IsFiniteSet(B)
      BY <2>0, FS_Interval
    <3> HIDE DEF A, B, y, z
    <3>7. /\ Part(g, A \cup {y}) = g[y] + Part(g, A)
          /\ Part(f, B \cup {z}) = f[z] + Part(f, B)
      BY <3>3, <3>4, <3>5, <3>6, PartAddElement
    <3>8. QED
      BY <3>2, <3>3, <3>4, <3>7 DEF A, B
  <2>2. QED
    BY <2>0, <2>1
<1>3. N = Nat
  <2>1. N \subseteq Nat
    OBVIOUS
  <2> HIDE DEF N
  <2>2. QED
    BY <1>1, <1>2, <2>1, Induction
<1>4. QED
  BY <1>3

(* A pair before what is good from its end on. *)
LEMMA PairJoins ==
  ASSUME NEW a \in Segments, NEW b \in Segments, NEW from \in Nat, NEW middle \in Nat,
         NEW until \in Nat, NEW rest,
         from <= a.start, SegmentEnd(a) <= b.start, SegmentEnd(b) <= middle, middle <= until,
         a.integral + b.integral = 0, GoodSegments(rest, middle, until)
  PROVE  GoodSegments(<<a, b>> \o rest, from, until)
<1> DEFINE pair == <<a, b>>
           all == pair \o rest
           n == Len(rest)
<1>1. rest \in Seq(Segments) /\ n \in Nat /\ DOMAIN rest = 1..n
  BY DEF GoodSegments
<1>2. pair \in Seq(Segments) /\ Len(pair) = 2 /\ pair[1] = a /\ pair[2] = b
  OBVIOUS
<1>3. /\ all \in Seq(Segments) /\ Len(all) = n + 2 /\ DOMAIN all = 1..(n + 2)
      /\ all[1] = a /\ all[2] = b /\ \A i \in 1..n : all[i + 2] = rest[i]
  <2> HIDE DEF pair, all
  <2>1. /\ all \in Seq(Segments) /\ Len(all) = 2 + n
        /\ \A i \in 1..(2 + n) : all[i] = IF i <= 2 THEN pair[i] ELSE rest[i - 2]
    <3>1. /\ pair \o rest \in Seq(Segments) /\ Len(pair \o rest) = Len(pair) + Len(rest)
          /\ \A i \in 1..(Len(pair) + Len(rest)) :
               (pair \o rest)[i] = IF i <= Len(pair) THEN pair[i] ELSE rest[i - Len(pair)]
      BY <1>1, <1>2, ConcatProperties
    <3>2. QED
      BY <1>2, <3>1 DEF all
  <2>2. all[1] = a /\ all[2] = b
    BY <1>1, <1>2, <2>1
  <2>3. ASSUME NEW i \in 1..n PROVE all[i + 2] = rest[i]
    <3>1. i + 2 \in 1..(2 + n) /\ ~ (i + 2 <= 2) /\ (i + 2) - 2 = i
      BY <1>1
    <3>2. QED
      BY <2>1, <3>1
  <2>4. Len(all) = n + 2 /\ DOMAIN all = 1..(n + 2)
    <3>1. 2 + n = n + 2 /\ DOMAIN all = 1..Len(all)
      BY <1>1, <2>1
    <3>2. QED
      BY <2>1, <3>1
  <2>5. QED
    BY <2>1, <2>2, <2>3, <2>4
<1> HIDE DEF all, pair
<1>4. \A i \in 1..(n + 2) : i = 1 \/ i = 2 \/ (i - 2 \in 1..n /\ all[i] = rest[i - 2])
  <2>1. ASSUME NEW i \in 1..(n + 2), i # 1, i # 2
        PROVE  i - 2 \in 1..n /\ all[i] = rest[i - 2]
    <3>1. i - 2 \in 1..n /\ (i - 2) + 2 = i
      BY <1>1, <2>1
    <3>2. QED
      BY <1>3, <3>1
  <2>2. QED
    BY <2>1
<1>5. /\ \A i \in 1..n : /\ rest[i].start >= middle /\ SegmentEnd(rest[i]) <= until
                         /\ rest[i] \in Segments
      /\ \A i, j \in 1..n : i < j => SegmentEnd(rest[i]) <= rest[j].start
      /\ Part(Integrals(rest), 1..n) = 0
  BY <1>1 DEF GoodSegments
<1>6. /\ a.start \in Nat /\ SegmentEnd(a) \in Nat /\ SegmentEnd(a) > a.start
      /\ b.start \in Nat /\ SegmentEnd(b) \in Nat /\ SegmentEnd(b) > b.start
      /\ a.integral \in Int /\ b.integral \in Int
  BY SegmentFacts
<1>7. \A i \in 1..n : rest[i].start \in Nat /\ SegmentEnd(rest[i]) \in Nat /\ rest[i].integral \in Int
  BY <1>5, SegmentFacts
<1>8. \A i \in DOMAIN all : all[i].start >= from /\ SegmentEnd(all[i]) <= until
  <2>0. from <= middle
    BY <1>6
  <2>1. ASSUME NEW i \in 1..(n + 2) PROVE all[i].start >= from /\ SegmentEnd(all[i]) <= until
    <3>1. CASE i = 1
      BY <1>3, <1>6, <3>1
    <3>2. CASE i = 2
      BY <1>3, <1>6, <3>2
    <3>3. CASE i - 2 \in 1..n /\ all[i] = rest[i - 2]
      <4>1. all[i].start >= middle /\ SegmentEnd(all[i]) <= until /\ all[i].start \in Nat
        <5> DEFINE k == i - 2
        <5>1. k \in 1..n /\ all[i] = rest[k]
          BY Zenon, <3>3
        <5> HIDE DEF k
        <5>2. rest[k].start >= middle /\ SegmentEnd(rest[k]) <= until /\ rest[k].start \in Nat
          BY Zenon, <1>5, <1>7, <5>1
        <5>3. QED
          BY Zenon, <5>1, <5>2
      <4>2. QED
        BY <2>0, <4>1
    <3>4. QED
      BY <1>4, <3>1, <3>2, <3>3
  <2>2. QED
    BY <1>3, <2>1
<1>9. \A i, j \in DOMAIN all : i < j => SegmentEnd(all[i]) <= all[j].start
  <2>1. ASSUME NEW i \in 1..(n + 2), NEW j \in 1..(n + 2), i < j
        PROVE  SegmentEnd(all[i]) <= all[j].start
    <3>1. CASE i = 1 /\ j = 2
      BY <1>3, <3>1
    <3>2. CASE i = 1 /\ j - 2 \in 1..n /\ all[j] = rest[j - 2]
      <4>1. all[j].start >= middle /\ all[j].start \in Nat /\ all[i] = a
        BY <1>3, <1>5, <1>7, <3>2
      <4>2. QED
        BY <1>6, <4>1
    <3>3. CASE i = 2 /\ j - 2 \in 1..n /\ all[j] = rest[j - 2]
      <4>1. all[j].start >= middle /\ all[j].start \in Nat /\ all[i] = b
        BY <1>3, <1>5, <1>7, <3>3
      <4>2. QED
        BY <1>6, <4>1
    <3>4. CASE /\ i - 2 \in 1..n /\ all[i] = rest[i - 2]
               /\ j - 2 \in 1..n /\ all[j] = rest[j - 2]
      <4>1. i - 2 < j - 2
        BY <1>1, <2>1
      <4>2. QED
        BY <1>5, <3>4, <4>1
    <3>5. QED
      BY <1>1, <1>4, <2>1, <3>1, <3>2, <3>3, <3>4
  <2>2. QED
    BY <1>3, <2>1
<1>10. Part(Integrals(all), DOMAIN all) = 0
  <2> DEFINE f == Integrals(rest)
             g == Integrals(all)
  <2>1. \A i \in 1..n : f[i] \in Int /\ g[i + 2] = f[i]
    <3>1. \A i \in 1..n : f[i] = rest[i].integral
      BY <1>1 DEF Integrals
    <3>2. \A i \in 1..n : i + 2 \in DOMAIN all
      BY <1>1, <1>3
    <3>3. \A i \in 1..n : g[i + 2] = all[i + 2].integral
      BY <3>2 DEF Integrals
    <3>4. QED
      BY <1>3, <1>7, <3>1, <3>3
  <2>2. g[1] = a.integral /\ g[2] = b.integral
    <3>1. 1 \in DOMAIN all /\ 2 \in DOMAIN all
      BY <1>1, <1>3
    <3>2. QED
      BY <1>3, <3>1 DEF Integrals
  <2> HIDE DEF f, g
  <2>3. Part(g, 3..(2 + n)) = Part(f, 1..n)
    <3> DEFINE k == 2
    <3>1. k \in Nat /\ \A i \in 1..n : f[i] \in Int /\ g[i + k] = f[i]
      BY <2>1
    <3> HIDE DEF k
    <3>2. Part(g, (k + 1)..(k + n)) = Part(f, 1..n)
      <4>1. \A m \in Nat : \A d, e :
              (\A i \in 1..m : d[i] \in Int /\ e[i + k] = d[i])
                => Part(e, (k + 1)..(k + m)) = Part(d, 1..m)
        BY <3>1, PartShifts
      <4>2. \A d, e :
              (\A i \in 1..n : d[i] \in Int /\ e[i + k] = d[i])
                => Part(e, (k + 1)..(k + n)) = Part(d, 1..n)
        BY Zenon, <1>1, <4>1
      <4>3. QED
        BY Zenon, <3>1, <4>2
    <3>3. QED
      BY <3>2 DEF k
  <2> DEFINE later == 3..(2 + n)
  <2>4. DOMAIN all = (later \cup {2}) \cup {1} /\ 2 \notin later /\ 1 \notin later \cup {2}
    BY <1>1, <1>3
  <2>5. IsFiniteSet(later) /\ IsFiniteSet(later \cup {2})
    <3>1. IsFiniteSet(later)
      BY <1>1, FS_Interval
    <3> HIDE DEF later
    <3>2. QED
      BY <3>1, FS_AddElement
  <2>6. \A i \in (later \cup {2}) \cup {1} : g[i] \in Int
    <3>1. ASSUME NEW i \in later PROVE g[i] \in Int
      <4>1. i - 2 \in 1..n /\ (i - 2) + 2 = i
        BY <1>1
      <4>2. QED
        BY <2>1, <4>1
    <3>2. QED
      BY <1>6, <2>2, <3>1
  <2> HIDE DEF later
  <2>7. Part(g, later \cup {2}) = g[2] + Part(g, later)
    BY <2>4, <2>5, <2>6, PartAddElement
  <2>8. Part(g, (later \cup {2}) \cup {1}) = g[1] + Part(g, later \cup {2})
    BY <2>4, <2>5, <2>6, PartAddElement
  <2>9. Part(g, later) = 0
    BY <1>5, <2>3 DEF later, f
  <2>10. QED
    BY <1>6, <2>2, <2>4, <2>7, <2>8, <2>9 DEF g
<1>11. QED
  BY <1>3, <1>8, <1>9, <1>10 DEF GoodSegments, all, pair

(* The settings of a profile: average factors, and changes of a tick or    *)
(* longer.                                                                 *)
ProfileSettings(factors, changes) ==
  /\ factors[1] \in 1..Unit /\ factors[2] \in Int /\ factors[2] >= Unit
  /\ changes[1] \in Nat \ {0} /\ changes[2] \in Int /\ changes[1] <= changes[2]

(* Half of a number, rounded down.                                         *)
LEMMA HalfFacts ==
  ASSUME NEW x \in Nat
  PROVE  x \div 2 \in Nat /\ 2 * (x \div 2) <= x
<1> DEFINE q == x \div 2
           r == x % 2
<1>1. q \in Int /\ r \in 0..(2 - 1) /\ x = 2 * q + r /\ q \in Nat
  BY Quotient
<1> HIDE DEF q, r
<1>2. q \in Nat /\ 2 * q <= x
  BY <1>1
<1>3. QED
  BY <1>2 DEF q

(* A drawn pair lies in order in what remains, and is balanced. *)
LEMMA PairFits ==
  ASSUME NEW factors, NEW changes, ProfileSettings(factors, changes),
         NEW cursor \in Nat, NEW remaining \in Nat, remaining >= 2 * changes[1],
         NEW pair \in Pairs(cursor, remaining, factors, changes)
  PROVE  \E a, b \in Segments :
           /\ pair = <<a, b>> /\ a.start = cursor /\ SegmentEnd(a) = b.start
           /\ SegmentEnd(b) <= cursor + remaining /\ a.integral + b.integral = 0
           /\ SegmentEnd(b) >= cursor + 2 * changes[1]
<1> DEFINE c1 == changes[1]
           c2 == changes[2]
           f1 == factors[1]
           f2 == factors[2]
           Draws == UNION {[first : {first},
                            second : Uniform(<<c1, Min({c2, remaining - first})>>),
                            positive_first : BOOLEAN, balanced : BOOLEAN] :
                             first \in Uniform(<<c1, Min({c2, remaining - c1})>>)}
           PositivePart(d) == IF d.positive_first THEN d.first ELSE d.second
           NegativePart(d) == IF d.positive_first THEN d.second ELSE d.first
           Balance(d) == IF d.balanced THEN 0
                         ELSE Min({(f2 - Unit) * PositivePart(d), (Unit - f1) * NegativePart(d)})
           Half(d) == IF d.positive_first THEN Balance(d) \div 2 ELSE -(Balance(d) \div 2)
<1>1. /\ f1 \in 1..Unit /\ f2 \in Int /\ f2 >= Unit /\ Unit \in Nat \ {0}
      /\ c1 \in Nat \ {0} /\ c2 \in Int /\ c1 <= c2 /\ remaining >= 2 * c1
  BY RateProfileAssumption DEF ProfileSettings
<1>2. PICK d \in Draws :
        pair = << [start |-> cursor, duration |-> d.first, integral |-> Half(d)],
                  [start |-> cursor + d.first, duration |-> d.second, integral |-> -Half(d)] >>
  BY Zenon DEF Pairs
<1>3. PICK first \in Uniform(<<c1, Min({c2, remaining - c1})>>) :
        d \in [first : {first}, second : Uniform(<<c1, Min({c2, remaining - first})>>),
               positive_first : BOOLEAN, balanced : BOOLEAN]
  BY <1>2
<1> DEFINE second == d.second
<1>4. /\ d.first = first /\ second \in Uniform(<<c1, Min({c2, remaining - first})>>)
      /\ d.positive_first \in BOOLEAN /\ d.balanced \in BOOLEAN
  BY <1>3
<1> HIDE DEF c1, c2, f1, f2, Draws, second
<1>5. first \in Nat /\ first >= c1 /\ first <= remaining - c1
  <2>1. Min({c2, remaining - c1}) = IF c2 <= remaining - c1 THEN c2 ELSE remaining - c1
    BY <1>1, MinOfTwo
  <2>2. first = c1 \/ first = Min({c2, remaining - c1})
    BY <1>3 DEF Uniform
  <2>3. QED
    BY <1>1, <2>1, <2>2
<1>6. second \in Nat /\ second >= c1 /\ first + second <= remaining
  <2>1. Min({c2, remaining - first}) = IF c2 <= remaining - first THEN c2 ELSE remaining - first
    BY <1>1, <1>5, MinOfTwo
  <2>2. second = c1 \/ second = Min({c2, remaining - first})
    BY <1>4 DEF Uniform
  <2>3. QED
    BY <1>1, <1>5, <2>1, <2>2
<1> DEFINE positive == PositivePart(d)
           negative == NegativePart(d)
           balance == Balance(d)
           half == Half(d)
           h == balance \div 2
<1>7. positive \in Nat /\ negative \in Nat
      /\ (d.positive_first => positive = first /\ negative = second)
      /\ (~ d.positive_first => positive = second /\ negative = first)
  BY <1>4, <1>5, <1>6 DEF second
<1>8. balance \in Nat /\ balance <= Unit * negative
  <2> DEFINE u == (f2 - Unit) * positive
             v == (Unit - f1) * negative
  <2> HIDE DEF positive, negative
  <2>1. u \in Nat /\ v \in Nat /\ v <= Unit * negative
    <3>1. f2 - Unit \in Nat /\ Unit - f1 \in Nat /\ Unit - f1 <= Unit
      BY <1>1
    <3> DEFINE e == f2 - Unit
               f == Unit - f1
    <3>2. e \in Nat /\ f \in Nat /\ f <= Unit
      BY <3>1
    <3> HIDE DEF e, f
    <3>3. e * positive \in Nat /\ f * negative \in Nat /\ f * negative <= Unit * negative
      BY <1>1, <1>7, <3>2
    <3>4. QED
      BY <3>3 DEF e, f
  <2>2. Unit * negative \in Nat
    BY <1>1, <1>7
  <2>3. balance = IF d.balanced THEN 0 ELSE Min({u, v})
    BY DEF positive, negative
  <2> HIDE DEF u, v, balance
  <2>4. Min({u, v}) = IF u <= v THEN u ELSE v
    BY <2>1, MinOfTwo
  <2>5. QED
    BY <2>1, <2>2, <2>3, <2>4
<1> HIDE DEF positive, negative, balance
<1>9. h \in Nat /\ h <= Unit * negative
  <2>1. h \in Nat /\ 2 * h <= balance
    BY <1>8, HalfFacts
  <2>2. Unit * negative \in Nat
    BY <1>1, <1>7
  <2> HIDE DEF h
  <2>3. QED
    BY <1>8, <2>1, <2>2
<1>10. half = IF d.positive_first THEN h ELSE -h
  BY DEF balance
<1> HIDE DEF h, half
<1> DEFINE a == [start |-> cursor, duration |-> first, integral |-> half]
           b == [start |-> cursor + first, duration |-> second, integral |-> -half]
<1>11. pair = <<a, b>>
  BY <1>2, <1>4 DEF half, second
<1>12. half \in Int /\ -half \in Int /\ first \in Nat \ {0} /\ second \in Nat \ {0}
  BY <1>1, <1>4, <1>5, <1>6, <1>9, <1>10
<1>13. Unit * first + half >= 0 /\ Unit * second + (-half) >= 0
  <2>1. Unit * first \in Nat /\ Unit * second \in Nat
    BY <1>1, <1>12
  <2>2. CASE d.positive_first
    BY <1>7, <1>9, <1>10, <2>1, <2>2
  <2>3. CASE ~ d.positive_first
    BY <1>7, <1>9, <1>10, <2>1, <2>3
  <2>4. QED
    BY <2>2, <2>3
<1>14. a \in Segments /\ b \in Segments
  BY <1>12, <1>13 DEF Segments
<1>15. /\ a.start = cursor /\ SegmentEnd(a) = b.start
       /\ SegmentEnd(b) <= cursor + remaining /\ a.integral + b.integral = 0
  BY <1>6, <1>12 DEF SegmentEnd
<1>16. SegmentEnd(b) >= cursor + 2 * c1
  <2>1. SegmentEnd(b) = (cursor + first) + second
    BY DEF SegmentEnd
  <2>2. QED
    BY <1>1, <1>5, <1>6, <2>1
<1>17. QED
  BY <1>11, <1>14, <1>15, <1>16 DEF c1

(* A profile without segments is balanced.                                 *)
LEMMA NoSegmentsAreGood ==
  ASSUME NEW from, NEW until
  PROVE  GoodSegments(<< >>, from, until)
<1>1. << >> \in Seq(Segments) /\ DOMAIN << >> = {}
  OBVIOUS
<1>2. Part(Integrals(<< >>), {}) = 0
  BY PartFacts, FS_EmptySet
<1>3. QED
  BY <1>1, <1>2 DEF GoodSegments

(* There is room for a shortest change for every segment. *)
Sparse(segments, change, from, until) == Len(segments) * change <= until - from

LEMMA SparseJoins ==
  ASSUME NEW change \in Nat, NEW from \in Nat, NEW middle \in Nat, NEW until \in Nat,
         from + 2 * change <= middle, NEW a \in Segments, NEW b \in Segments,
         NEW rest \in Seq(Segments), Sparse(rest, change, middle, until)
  PROVE  Sparse(<<a, b>> \o rest, change, from, until)
<1>1. Len(rest) \in Nat /\ Len(<<a, b>> \o rest) = 2 + Len(rest)
  OBVIOUS
<1> DEFINE n == Len(rest)
<1>2. Len(<<a, b>> \o rest) = 2 + n /\ n \in Nat
  BY <1>1
<1>3. n * change <= until - middle
  BY DEF Sparse
<1> HIDE DEF n
<1>4. n * change \in Nat /\ (2 + n) * change = 2 * change + n * change /\ 2 * change \in Nat
  BY <1>2
<1>5. (2 + n) * change <= until - from
  <2> DEFINE x == n * change
             y == 2 * change
             z == (2 + n) * change
  <2>1. x \in Nat /\ y \in Nat /\ z = y + x /\ from + y <= middle /\ x <= until - middle
    BY <1>3, <1>4
  <2> HIDE DEF x, y, z
  <2>2. z <= until - from
    BY <2>1
  <2>3. QED
    BY <2>2 DEF z
<1>6. QED
  BY Zenon, <1>2, <1>5 DEF Sparse

(* Every profile that may be drawn is in order and balanced, and has a     *)
(* segment for every shortest change at the most.                          *)
THEOREM ProfilesFacts ==
  ASSUME NEW factors, NEW changes, ProfileSettings(factors, changes), NEW duration \in Nat,
         NEW profile \in Profiles(duration, factors, changes)
  PROVE  /\ profile = [duration |-> duration, segments |-> profile.segments]
         /\ GoodSegments(profile.segments, 0, duration)
         /\ Sparse(profile.segments, changes[1], 0, duration)
<1> DEFINE NoMore(c) == duration - c < 2 * changes[1] \/ Unit \in {factors[1], factors[2]}
           Drawn(c) == Pairs(c, duration - c, factors, changes)
           Rule(h, c) == IF NoMore(c) THEN {<<>>}
                         ELSE UNION {{pair \o rest : rest \in h[SegmentEnd(pair[2])]} :
                                       pair \in Drawn(c)}
           Late(r) == (duration - r)..duration
           Drawing(r, h) == h = [c \in Late(r) |-> Rule(h, c)]
           from == CHOOSE h : h = [c \in 0..duration |-> Rule(h, c)]
           Exists == {r \in Nat : r <= duration => \E h : Drawing(r, h)}
           Fine(s, c) == GoodSegments(s, c, duration) /\ Sparse(s, changes[1], c, duration)
           Good == {r \in Nat : r <= duration =>
                      \A c \in Late(r) : \A s \in from[c] : Fine(s, c)}
<1>1. ASSUME NEW c \in 0..duration, ~ NoMore(c), NEW pair \in Drawn(c)
      PROVE  \E a, b \in Segments :
               /\ pair = <<a, b>> /\ a.start = c /\ SegmentEnd(a) = b.start
               /\ SegmentEnd(b) \in (c + 1)..duration /\ a.integral + b.integral = 0
               /\ c + 2 * changes[1] <= SegmentEnd(b)
  <2> DEFINE remaining == duration - c
  <2>1. changes[1] \in Nat \ {0}
    BY DEF ProfileSettings
  <2>2. remaining \in Nat /\ remaining >= 2 * changes[1] /\ c \in Nat /\ c + remaining = duration
    BY <1>1, <2>1
  <2>3. pair \in Pairs(c, remaining, factors, changes)
    OBVIOUS
  <2> HIDE DEF remaining
  <2>4. PICK a, b \in Segments :
          /\ pair = <<a, b>> /\ a.start = c /\ SegmentEnd(a) = b.start
          /\ SegmentEnd(b) <= c + remaining /\ a.integral + b.integral = 0
          /\ SegmentEnd(b) >= c + 2 * changes[1]
    BY <2>2, <2>3, PairFits
  <2>5. SegmentEnd(a) > a.start /\ SegmentEnd(b) > b.start /\ SegmentEnd(b) \in Nat
        /\ SegmentEnd(a) \in Nat
    BY SegmentFacts
  <2>6. SegmentEnd(b) \in (c + 1)..duration
    BY <2>2, <2>4, <2>5
  <2>7. QED
    BY <2>4, <2>6
<1>2. ASSUME NEW c \in 0..duration, ~ NoMore(c), NEW pair \in Drawn(c)
      PROVE  SegmentEnd(pair[2]) \in (c + 1)..duration
  <2>1. PICK a, b \in Segments : pair = <<a, b>> /\ SegmentEnd(b) \in (c + 1)..duration
    BY <1>1, <1>2
  <2>2. pair[2] = b
    BY <2>1
  <2>3. QED
    BY <2>1, <2>2
<1> HIDE DEF NoMore, Drawn
<1>3. ASSUME NEW c \in 0..duration, NEW g, NEW h, \A d \in (c + 1)..duration : g[d] = h[d]
      PROVE  Rule(g, c) = Rule(h, c)
  <2>1. CASE NoMore(c)
    BY <2>1
  <2>2. CASE ~ NoMore(c)
    <3>1. \A pair \in Drawn(c) : g[SegmentEnd(pair[2])] = h[SegmentEnd(pair[2])]
      BY <1>2, <1>3, <2>2
    <3> DEFINE Joined(t, pair) == {pair \o rest : rest \in t[SegmentEnd(pair[2])]}
    <3>2. \A pair \in Drawn(c) : Joined(g, pair) = Joined(h, pair)
      BY <3>1
    <3>3. UNION {Joined(g, pair) : pair \in Drawn(c)} = UNION {Joined(h, pair) : pair \in Drawn(c)}
      <4> HIDE DEF Joined
      <4>1. QED
        BY <3>2
    <3>4. Rule(g, c) = UNION {Joined(g, pair) : pair \in Drawn(c)}
      BY <2>2
    <3>5. Rule(h, c) = UNION {Joined(h, pair) : pair \in Drawn(c)}
      BY <2>2
    <3>6. QED
      BY <3>3, <3>4, <3>5
  <2>3. QED
    BY <2>1, <2>2
<1> HIDE DEF Rule
<1>4. 0 \in Exists
  <2> DEFINE g == [c \in Late(0) |-> Rule([d \in {} |-> d], c)]
  <2>1. \A c \in Late(0) : c \in 0..duration /\ (c + 1)..duration = {}
    OBVIOUS
  <2>2. \A c \in Late(0) : Rule(g, c) = Rule([d \in {} |-> d], c)
    BY <1>3, <2>1
  <2>3. g = [c \in Late(0) |-> Rule(g, c)]
    BY <2>2
  <2>4. QED
    BY <2>3
<1>5. ASSUME NEW r \in Exists PROVE r + 1 \in Exists
  <2>1. r \in Nat
    OBVIOUS
  <2>2. SUFFICES ASSUME r + 1 <= duration PROVE \E h : Drawing(r + 1, h)
    BY <2>1
  <2>3. PICK h : Drawing(r, h)
    BY <2>1, <2>2
  <2> DEFINE z == duration - (r + 1)
             g == [c \in Late(r + 1) |-> IF c = z THEN Rule(h, z) ELSE h[c]]
  <2>4. /\ \A c \in Late(r + 1) : c \in 0..duration /\ (c = z \/ c \in Late(r))
                                   /\ \A d \in (c + 1)..duration : d \in Late(r) /\ d \in Late(r + 1) /\ d # z
        /\ z \in Late(r + 1) /\ z \notin Late(r)
        /\ \A c \in Late(r) : c \in Late(r + 1)
    BY <2>1, <2>2
  <2> HIDE DEF z, Late
  <2>5. \A c \in Late(r) : g[c] = h[c] /\ h[c] = Rule(h, c)
    BY <2>3, <2>4
  <2>6. \A c \in Late(r + 1) : Rule(g, c) = Rule(h, c)
    <3>1. ASSUME NEW c \in Late(r + 1) PROVE Rule(g, c) = Rule(h, c)
      <4>1. \A d \in (c + 1)..duration : g[d] = h[d]
        BY <2>4, <2>5
      <4> HIDE DEF g
      <4>2. QED
        BY <1>3, <2>4, <4>1
    <3>2. QED
      BY <3>1
  <2>7. \A c \in Late(r + 1) : g[c] = Rule(g, c)
    <3>1. g[z] = Rule(h, z)
      BY <2>4
    <3> HIDE DEF g
    <3>2. QED
      BY <2>4, <2>5, <2>6, <3>1
  <2>8. g = [c \in Late(r + 1) |-> g[c]]
    OBVIOUS
  <2> HIDE DEF g
  <2>9. g = [c \in Late(r + 1) |-> Rule(g, c)]
    BY <2>7, <2>8
  <2>10. QED
    BY <2>9
<1>6. Exists = Nat
  <2>1. Exists \subseteq Nat
    OBVIOUS
  <2> HIDE DEF Exists
  <2>2. QED
    BY <1>4, <1>5, <2>1, Induction
<1>7. from = [c \in 0..duration |-> Rule(from, c)]
  <2>1. \E h : Drawing(duration, h)
    BY <1>6
  <2>2. Late(duration) = 0..duration
    OBVIOUS
  <2>3. \E h : h = [c \in 0..duration |-> Rule(h, c)]
    BY <2>1, <2>2
  <2>4. QED
    BY <2>3
<1> HIDE DEF from
<1>8. ASSUME NEW c \in 0..duration,
             \A d \in (c + 1)..duration : \A s \in from[d] : Fine(s, d),
             NEW s \in from[c]
      PROVE  Fine(s, c)
  <2>1. s \in Rule(from, c)
    <3>1. from[c] = Rule(from, c)
      BY <1>7
    <3>2. QED
      BY <3>1
  <2>2. CASE NoMore(c)
    <3>1. s = << >>
      BY <2>1, <2>2 DEF Rule
    <3>2. Sparse(<< >>, changes[1], c, duration)
      <4>1. Len(<< >>) = 0 /\ 0 * changes[1] = 0 /\ 0 <= duration - c
        BY DEF ProfileSettings
      <4>2. QED
        BY <4>1 DEF Sparse
    <3>3. GoodSegments(<< >>, c, duration)
      BY NoSegmentsAreGood
    <3>4. QED
      BY <3>1, <3>2, <3>3
  <2>3. CASE ~ NoMore(c)
    <3>1. PICK pair \in Drawn(c) : \E rest \in from[SegmentEnd(pair[2])] : s = pair \o rest
      BY <2>1, <2>3 DEF Rule
    <3>2. PICK rest \in from[SegmentEnd(pair[2])] : s = pair \o rest
      BY <3>1
    <3>3. PICK a, b \in Segments :
            /\ pair = <<a, b>> /\ a.start = c /\ SegmentEnd(a) = b.start
            /\ SegmentEnd(b) \in (c + 1)..duration /\ a.integral + b.integral = 0
            /\ c + 2 * changes[1] <= SegmentEnd(b)
      BY <1>1, <2>3 DEF NoMore, Drawn
    <3> DEFINE middle == SegmentEnd(b)
    <3>4. pair[2] = b
      BY <3>3
    <3>5. middle \in (c + 1)..duration /\ middle \in Nat /\ middle <= duration /\ c \in Nat
      BY <3>3
    <3>6. GoodSegments(rest, middle, duration) /\ Sparse(rest, changes[1], middle, duration)
      BY <1>8, <3>2, <3>4, <3>5
    <3>7. SegmentEnd(a) <= b.start /\ c <= a.start /\ SegmentEnd(b) <= middle
      BY <3>3, <3>5, SegmentFacts
    <3>8. c + 2 * changes[1] <= middle /\ changes[1] \in Nat
      BY <3>3 DEF ProfileSettings
    <3> HIDE DEF middle
    <3>9. GoodSegments(<<a, b>> \o rest, c, duration)
      BY <3>3, <3>5, <3>6, <3>7, PairJoins
    <3>10. rest \in Seq(Segments)
      BY <3>6 DEF GoodSegments
    <3>11. Sparse(<<a, b>> \o rest, changes[1], c, duration)
      BY <3>5, <3>6, <3>8, <3>10, SparseJoins
    <3>12. QED
      BY <3>2, <3>3, <3>9, <3>11
  <2>4. QED
    BY <2>2, <2>3
<1> HIDE DEF Fine
<1>9. 0 \in Good
  <2>1. \A c \in Late(0) : c \in 0..duration /\ (c + 1)..duration = {}
    OBVIOUS
  <2> HIDE DEF Late
  <2>2. \A c \in Late(0) : \A s \in from[c] : Fine(s, c)
    BY <1>8, <2>1
  <2>3. QED
    BY <2>2
<1>10. ASSUME NEW r \in Good PROVE r + 1 \in Good
  <2>1. r \in Nat
    OBVIOUS
  <2>2. SUFFICES ASSUME r + 1 <= duration
                 PROVE  \A c \in Late(r + 1) : \A s \in from[c] : Fine(s, c)
    BY <2>1
  <2>3. \A c \in Late(r) : \A s \in from[c] : Fine(s, c)
    BY <2>1, <2>2
  <2>4. \A c \in Late(r + 1) : c \in 0..duration /\ \A d \in (c + 1)..duration : d \in Late(r)
    BY <2>1, <2>2
  <2> HIDE DEF Late
  <2>5. QED
    BY <1>8, <2>3, <2>4
<1>11. Good = Nat
  <2>1. Good \subseteq Nat
    OBVIOUS
  <2> HIDE DEF Good
  <2>2. QED
    BY <1>9, <1>10, <2>1, Induction
<1>12. \A s \in from[0] : Fine(s, 0)
  <2>1. duration \in Good /\ 0 \in Late(duration)
    BY <1>11
  <2> HIDE DEF Late
  <2>2. QED
    BY <2>1
<1>13. Profiles(duration, factors, changes)
         = {[duration |-> duration, segments |-> segments] : segments \in from[0]}
  BY Zenon DEF Profiles, from, Rule, NoMore, Drawn
<1>14. PICK segments \in from[0] : profile = [duration |-> duration, segments |-> segments]
  BY <1>13
<1>15. QED
  BY <1>12, <1>14 DEF Fine

(* What every segment adds up to a time. *)
Deviations(segments, elapsed) ==
  [i \in DOMAIN segments |->
     IF segments[i].start < elapsed THEN IntegratedDeviationTo(segments[i], elapsed) ELSE 0]

Accumulated(segments, elapsed) ==
  Unit * elapsed + Part(Deviations(segments, elapsed), DOMAIN segments)

(* Segments in order do not overlap, end in time and are balanced.         *)
LEMMA GoodSegmentFacts ==
  ASSUME NEW segments, NEW until, GoodSegments(segments, 0, until)
  PROVE  /\ IsFiniteSet(DOMAIN segments) /\ DOMAIN segments \subseteq Nat \ {0}
         /\ \A i \in DOMAIN segments :
              /\ segments[i] \in Segments /\ SegmentEnd(segments[i]) <= until
              /\ i > 1 => i - 1 \in DOMAIN segments
         /\ \A i, j \in DOMAIN segments : i < j => SegmentEnd(segments[i]) <= segments[j].start
         /\ Part(Integrals(segments), DOMAIN segments) = 0
<1>1. segments \in Seq(Segments)
  BY DEF GoodSegments
<1>2. PICK n \in Nat : DOMAIN segments = 1..n
  BY <1>1
<1>3. IsFiniteSet(1..n)
  BY FS_Interval
<1>4. \A i \in 1..n : segments[i] \in Segments /\ i \in Nat \ {0} /\ (i > 1 => i - 1 \in 1..n)
  BY <1>1, <1>2
<1>5. QED
  BY <1>2, <1>3, <1>4 DEF GoodSegments

(* Inside a segment the deviation is the share of the integral of the      *)
(* ticks that have gone by.                                                *)
LEMMA DeviationInside ==
  ASSUME NEW s \in Segments, NEW x \in 0..s.duration
  PROVE  (IF s.start < s.start + x THEN IntegratedDeviationTo(s, s.start + x) ELSE 0)
           = (s.integral * x) \div s.duration
<1> DEFINE k == s.integral
           d == s.duration
           a == s.start
<1>1. k \in Int /\ d \in Nat \ {0} /\ a \in Nat /\ x \in Nat /\ x <= d
  BY SegmentFacts
<1>2. SegmentEnd(s) = a + d
  BY DEF SegmentEnd
<1>3. IntegratedDeviationTo(s, a + x)
        = IF a + x >= a + d THEN k ELSE (k * ((a + x) - a)) \div d
  BY <1>2 DEF IntegratedDeviationTo
<1> HIDE DEF k, d, a
<1>4. (a + x) - a = x
  BY <1>1
<1>5. (k * d) \div d = k
  <2>1. k * d \in Int /\ k * d = d * k + 0 /\ 0 \in 0..(d - 1)
    BY <1>1
  <2> DEFINE kd == k * d
             z == 0
  <2>2. kd \in Int /\ kd = d * k + z /\ z \in 0..(d - 1)
    BY <2>1
  <2> HIDE DEF kd, z
  <2>3. kd \div d = k
    BY <1>1, <2>2, QuotientIsUnique
  <2>4. QED
    BY <2>3 DEF kd
<1>6. (k * 0) \div d = 0
  <2> DEFINE z == 0
  <2>1. z \in Int /\ z = d * z + z /\ z \in 0..(d - 1)
    BY <1>1
  <2> HIDE DEF z
  <2>2. z \div d = z
    BY <1>1, <2>1, QuotientIsUnique
  <2>3. k * 0 = 0
    BY <1>1
  <2>4. QED
    BY <2>2, <2>3 DEF z
<1>7. CASE x = 0
  <2>1. ~ (a < a + x)
    BY <1>1, <1>7
  <2>2. QED
    BY <1>6, <1>7, <2>1 DEF a, k, d
<1>8. CASE x = d
  <2>1. a < a + x /\ a + x >= a + d
    BY <1>1, <1>8
  <2>2. QED
    BY <1>3, <1>5, <1>8, <2>1 DEF a, k, d
<1>9. CASE x # 0 /\ x # d
  <2>1. a < a + x /\ ~ (a + x >= a + d)
    BY <1>1, <1>9
  <2>2. QED
    BY <1>3, <1>4, <2>1 DEF a, k, d
<1>10. QED
  BY <1>7, <1>8, <1>9

(* In a tick a running segment slows the profile down by at most the whole *)
(* rate.                                                                   *)
LEMMA RunningTick ==
  ASSUME NEW k \in Int, NEW d \in Nat \ {0}, Unit * d + k >= 0, NEW x \in Nat
  PROVE  /\ (k * x) \div d \in Int /\ (k * (x + 1)) \div d \in Int
         /\ Unit + (k * (x + 1)) \div d - (k * x) \div d >= 0
<1> DEFINE a == k * x
           b == k * (x + 1)
           p == a \div d
           q == b \div d
           r == a % d
           s == b % d
           ud == Unit * d
<1>0. Unit \in Nat \ {0}
  BY RateProfileAssumption
<1>1. a \in Int /\ b \in Int /\ b = a + k /\ ud \in Int
  BY <1>0
<1> HIDE DEF a, b
<1>2. p \in Int /\ q \in Int /\ r \in 0..(d - 1) /\ s \in 0..(d - 1) /\ a = d * p + r /\ b = d * q + s
  BY <1>1, Quotient
<1>3. ud + k >= 0
  OBVIOUS
<1> HIDE DEF p, q, r, s
<1> DEFINE v == Unit + q - p
<1>4. v \in Int /\ d * v = ud + d * q - d * p
  BY <1>0, <1>2
<1>5. d * v = ud + k + r - s
  BY <1>1, <1>2, <1>4 DEF ud
<1>6. d * v > -d
  <2> DEFINE dv == d * v
  <2> HIDE DEF dv, ud
  <2>1. dv = ud + k + r - s
    BY <1>5 DEF dv
  <2>2. dv > -d
    BY <1>1, <1>2, <1>3, <2>1
  <2>3. QED
    BY <2>2 DEF dv
<1>7. v >= 0
  <2> HIDE DEF v
  <2>1. ASSUME v <= -1 PROVE FALSE
    <3>1. d * v <= d * (-1)
      BY <1>4, <2>1
    <3>2. QED
      BY <1>4, <1>6, <3>1
  <2>2. QED
    BY <1>4, <2>1
<1>8. QED
  BY <1>2, <1>7 DEF p, q, a, b

(* The deviation of one segment in a tick. *)
LEMMA DeviationTick ==
  ASSUME NEW s \in Segments, NEW e \in Nat
  PROVE  LET at(t) == IF s.start < t THEN IntegratedDeviationTo(s, t) ELSE 0
         IN /\ at(e) \in Int /\ at(e + 1) \in Int
            /\ s.start <= e /\ e < SegmentEnd(s) => Unit + at(e + 1) - at(e) >= 0
            /\ ~ (s.start <= e /\ e < SegmentEnd(s)) => at(e + 1) = at(e)
<1> DEFINE at(t) == IF s.start < t THEN IntegratedDeviationTo(s, t) ELSE 0
<1>1. /\ s.start \in Nat /\ s.duration \in Nat \ {0} /\ s.integral \in Int
      /\ SegmentEnd(s) = s.start + s.duration /\ Unit * s.duration + s.integral >= 0
  BY SegmentFacts DEF SegmentEnd
<1>2. CASE s.start <= e /\ e < SegmentEnd(s)
  <2> DEFINE x == e - s.start
             y == x + 1
  <2>1. x \in Nat /\ x \in 0..s.duration /\ y \in 0..s.duration
        /\ s.start + x = e /\ s.start + y = e + 1
    BY <1>1, <1>2
  <2> HIDE DEF x
  <2>2. at(s.start + x) = (s.integral * x) \div s.duration
    BY <2>1, DeviationInside
  <2>3. at(s.start + y) = (s.integral * (x + 1)) \div s.duration
    <3> HIDE DEF y
    <3>1. at(s.start + y) = (s.integral * y) \div s.duration
      BY <2>1, DeviationInside
    <3>2. QED
      BY <3>1 DEF y
  <2>4. at(e) = (s.integral * x) \div s.duration
    BY <2>1, <2>2
  <2>5. at(e + 1) = (s.integral * (x + 1)) \div s.duration
    BY <2>1, <2>3
  <2> HIDE DEF at
  <2>6. at(e) \in Int /\ at(e + 1) \in Int /\ Unit + at(e + 1) - at(e) >= 0
    BY <1>1, <2>1, <2>4, <2>5, RunningTick
  <2>7. QED
    BY <1>2, <2>6 DEF at
<1>3. CASE s.start > e
  <2>1. ~ (s.start < e) /\ ~ (s.start < e + 1)
    BY <1>1, <1>3
  <2>2. at(e) = 0 /\ at(e + 1) = 0
    BY <2>1
  <2>3. QED
    BY <1>1, <1>3, <2>2
<1>4. CASE e >= SegmentEnd(s)
  <2>1. s.start < e /\ s.start < e + 1 /\ e + 1 >= SegmentEnd(s)
    BY <1>1, <1>4
  <2>2. at(e) = s.integral /\ at(e + 1) = s.integral
    BY <1>4, <2>1 DEF IntegratedDeviationTo
  <2>3. ~ (s.start <= e /\ e < SegmentEnd(s))
    BY <1>1, <1>4
  <2>4. QED
    BY <1>1, <2>2, <2>3
<1>5. QED
  BY <1>1, <1>2, <1>3, <1>4

(* The deviations of the segments are integers, and add up to one.         *)
LEMMA DeviationsFacts ==
  ASSUME NEW segments, NEW until, GoodSegments(segments, 0, until), NEW e \in Nat
  PROVE  /\ \A i \in DOMAIN segments : Deviations(segments, e)[i] \in Int
         /\ Part(Deviations(segments, e), DOMAIN segments) \in Int
         /\ Accumulated(segments, e) \in Int
<1>1. IsFiniteSet(DOMAIN segments) /\ \A i \in DOMAIN segments : segments[i] \in Segments
  BY GoodSegmentFacts
<1>2. \A i \in DOMAIN segments : Deviations(segments, e)[i] \in Int
  <2>1. TAKE i \in DOMAIN segments
  <2> DEFINE s == segments[i]
  <2>2. s \in Segments
    BY <1>1
  <2> HIDE DEF s
  <2>3. (IF s.start < e THEN IntegratedDeviationTo(s, e) ELSE 0) \in Int
    BY <2>2, DeviationTick
  <2>4. QED
    BY <2>3 DEF Deviations, s
<1>3. Part(Deviations(segments, e), DOMAIN segments) \in Int
  BY <1>1, <1>2, PartFacts
<1>4. QED
  BY <1>2, <1>3, RateProfileAssumption DEF Accumulated

(* No tick has a negative factor. *)
LEMMA AccumulatedGrows ==
  ASSUME NEW segments, NEW until, GoodSegments(segments, 0, until), NEW e \in Nat
  PROVE  Accumulated(segments, e) <= Accumulated(segments, e + 1)
<1> DEFINE S == DOMAIN segments
           a == Deviations(segments, e)
           b == Deviations(segments, e + 1)
           Running(i) == segments[i].start <= e /\ e < SegmentEnd(segments[i])
<1>1. IsFiniteSet(S) /\ S \subseteq Nat \ {0} /\ \A i \in S : segments[i] \in Segments
  BY GoodSegmentFacts
<1>2. \A i \in S : /\ a[i] \in Int /\ b[i] \in Int
                   /\ Running(i) => Unit + b[i] - a[i] >= 0
                   /\ ~ Running(i) => b[i] = a[i]
  <2>1. TAKE i \in S
  <2> DEFINE s == segments[i]
             at(t) == IF s.start < t THEN IntegratedDeviationTo(s, t) ELSE 0
  <2>2. s \in Segments
    BY <1>1
  <2>3. a[i] = at(e) /\ b[i] = at(e + 1)
    BY DEF Deviations
  <2> HIDE DEF s
  <2>4. /\ at(e) \in Int /\ at(e + 1) \in Int
        /\ s.start <= e /\ e < SegmentEnd(s) => Unit + at(e + 1) - at(e) >= 0
        /\ ~ (s.start <= e /\ e < SegmentEnd(s)) => at(e + 1) = at(e)
    BY <2>2, DeviationTick
  <2> HIDE DEF at, a, b
  <2>5. QED
    BY <2>3, <2>4 DEF s
<1>3. \A i, j \in S : Running(i) /\ Running(j) => i = j
  <2>1. ASSUME NEW i \in S, NEW j \in S, Running(i), Running(j), i < j PROVE FALSE
    <3>1. SegmentEnd(segments[i]) <= segments[j].start
      BY <2>1, GoodSegmentFacts
    <3>2. SegmentEnd(segments[i]) \in Nat /\ segments[j].start \in Nat
      BY <1>1, SegmentFacts
    <3>3. QED
      BY <2>1, <3>1, <3>2
  <2>2. \A i, j \in S : i < j \/ j < i \/ i = j
    BY <1>1
  <2>3. QED
    BY <2>1, <2>2
<1>4. /\ Accumulated(segments, e) = Unit * e + Part(a, S)
      /\ Accumulated(segments, e + 1) = Unit * (e + 1) + Part(b, S)
  BY DEF Accumulated
<1>5. Part(a, S) \in Int /\ Part(b, S) \in Int
  <2> HIDE DEF a, b, S
  <2>1. QED
    BY <1>1, <1>2, PartFacts
<1>6. Unit \in Nat
  BY RateProfileAssumption
<1>7. CASE \E y \in S : Running(y)
  <2>1. PICK y \in S : Running(y)
    BY <1>7
  <2> DEFINE d == b[y] - a[y]
  <2>2. d \in Int /\ Unit + d >= 0 /\ b[y] = a[y] + d
    BY <1>2, <1>6, <2>1
  <2>3. \A x \in S \ {y} : b[x] = a[x]
    BY <1>2, <1>3, <2>1
  <2>4. \A x \in S : a[x] \in Int
    BY <1>2
  <2> HIDE DEF a, b, S, d
  <2>5. Part(b, S) = Part(a, S) + d
    <3>1. y \in S /\ IsFiniteSet(S)
      BY Zenon, <1>1, <2>1
    <3>2. d \in Int /\ b[y] = a[y] + d
      BY Zenon, <2>2
    <3>3. QED
      BY <2>3, <2>4, <3>1, <3>2, PartDiffers
  <2>6. QED
    BY <1>4, <1>5, <1>6, <2>2, <2>5
<1>8. CASE ~ \E y \in S : Running(y)
  <2>1. \A x \in S : a[x] = b[x]
    BY <1>2, <1>8
  <2> HIDE DEF a, b, S
  <2>2. Part(a, S) = Part(b, S)
    BY <2>1, SamePart
  <2>3. QED
    BY <1>4, <1>5, <1>6, <2>2
<1>9. QED
  BY <1>7, <1>8

(* integrated_factor_to, at the end of the profile too, where the whole    *)
(* integrals cancel out.                                                   *)
LEMMA IntegratedIsAccumulated ==
  ASSUME NEW profile, profile.duration \in Nat,
         GoodSegments(profile.segments, 0, profile.duration),
         NEW e \in 0..profile.duration
  PROVE  IntegratedFactorTo(profile, e) = Accumulated(profile.segments, e)
<1> DEFINE segments == profile.segments
           until == profile.duration
           S == DOMAIN segments
           a == Deviations(segments, e)
<1>1. IsFiniteSet(S) /\ \A i \in S : segments[i] \in Segments /\ SegmentEnd(segments[i]) <= until
  BY GoodSegmentFacts
<1>2. e \in Nat /\ until \in Nat
  OBVIOUS
<1>3. \A i \in S : a[i] \in Int
  BY <1>2, DeviationsFacts
<1>4. CASE e = until
  <2>1. \A i \in S : segments[i].start < e /\ e >= SegmentEnd(segments[i])
    <3>1. TAKE i \in S
    <3>2. SegmentEnd(segments[i]) \in Nat /\ segments[i].start \in Nat
          /\ SegmentEnd(segments[i]) > segments[i].start
      BY <1>1, SegmentFacts
    <3>3. QED
      BY <1>1, <1>2, <1>4, <3>2
  <2>2. \A i \in S : a[i] = Integrals(segments)[i]
    BY <2>1 DEF Deviations, IntegratedDeviationTo, Integrals
  <2>3. Part(a, S) = 0
    <3>1. Part(Integrals(segments), S) = 0
      BY GoodSegmentFacts
    <3> HIDE DEF a, S
    <3>2. Part(a, S) = Part(Integrals(segments), S)
      BY <2>2, SamePart
    <3>3. QED
      BY <3>1, <3>2
  <2>4. IntegratedFactorTo(profile, e) = Unit * until
    BY <1>4 DEF IntegratedFactorTo
  <2>5. QED
    BY <1>2, <1>4, <2>3, <2>4, RateProfileAssumption DEF Accumulated
<1>5. CASE e # until
  <2> DEFINE B == {i \in S : segments[i].start < e}
             R == S \ B
  <2>1. IntegratedFactorTo(profile, e)
          = Unit * e + Total([i \in B |-> IntegratedDeviationTo(segments[i], e)])
    BY <1>5 DEF IntegratedFactorTo
  <2>2. [i \in B |-> IntegratedDeviationTo(segments[i], e)] = [i \in B |-> a[i]]
    BY DEF Deviations
  <2>3. IntegratedFactorTo(profile, e) = Unit * e + Part(a, B)
    BY <2>1, <2>2 DEF Part
  <2>4. \A i \in R : a[i] = 0
    BY DEF Deviations
  <2>5. S = B \cup R /\ B \cap R = {} /\ R \subseteq S /\ B \subseteq S
    OBVIOUS
  <2> HIDE DEF a, S, B, R
  <2>6. IsFiniteSet(B) /\ IsFiniteSet(R)
    BY <1>1, <2>5, FS_Subset
  <2>7. Part(a, R) = 0
    BY <2>4, <2>6, PartOfZeros
  <2>8. \A x \in B \cup R : a[x] \in Int
    BY <1>3, <2>5
  <2>9. Part(a, B \cup R) = Part(a, B) + Part(a, R)
    BY <2>5, <2>6, <2>8, PartUnion
  <2>10. Part(a, B) \in Int
    BY <1>3, <2>5, <2>6, PartFacts
  <2>11. Part(a, S) = Part(a, B)
    BY <2>5, <2>7, <2>9, <2>10
  <2>12. QED
    BY <2>3, <2>11 DEF Accumulated, a, S
<1>6. QED
  BY <1>4, <1>5

(* The integral of a profile starts at nothing, ends at the average rate,  *)
(* and never falls.                                                        *)
THEOREM IntegratedFactorFacts ==
  ASSUME NEW profile, profile.duration \in Nat,
         GoodSegments(profile.segments, 0, profile.duration)
  PROVE  /\ \A e \in 0..profile.duration : IntegratedFactorTo(profile, e) \in Nat
         /\ IntegratedFactorTo(profile, 0) = 0
         /\ IntegratedFactorTo(profile, profile.duration) = Unit * profile.duration
         /\ \A a, b \in 0..profile.duration :
              a <= b => IntegratedFactorTo(profile, a) <= IntegratedFactorTo(profile, b)
<1> DEFINE segments == profile.segments
           until == profile.duration
           S == DOMAIN segments
           F(e) == Accumulated(segments, e)
<1>1. \A e \in Nat : F(e) \in Int /\ F(e) <= F(e + 1)
  BY DeviationsFacts, AccumulatedGrows
<1>2. \A e \in 0..until : IntegratedFactorTo(profile, e) = F(e)
  BY IntegratedIsAccumulated
<1>3. F(0) = 0
  <2> DEFINE z == 0
             d == Deviations(segments, z)
  <2>1. IsFiniteSet(S) /\ \A i \in S : segments[i] \in Segments
    BY GoodSegmentFacts
  <2>2. \A i \in S : d[i] = 0
    <3>1. \A i \in S : ~ (segments[i].start < z)
      BY <2>1, SegmentFacts
    <3>2. QED
      BY <3>1 DEF Deviations
  <2>3. Part(d, S) = 0
    <3> HIDE DEF d, S
    <3>1. QED
      BY <2>1, <2>2, PartOfZeros
  <2>4. QED
    BY <2>3, RateProfileAssumption DEF Accumulated
<1> HIDE DEF F
<1>4. ASSUME NEW a \in Nat PROVE \A k \in Nat : F(a) <= F(a + k)
  <2> DEFINE K == {k \in Nat : F(a) <= F(a + k)}
  <2>1. 0 \in K
    <3>1. a + 0 = a
      OBVIOUS
    <3>2. F(a) <= F(a)
      BY <1>1
    <3>3. QED
      BY <3>1, <3>2
  <2>2. ASSUME NEW k \in K PROVE k + 1 \in K
    <3>1. k \in Nat /\ a + k \in Nat /\ a + (k + 1) = (a + k) + 1
      OBVIOUS
    <3>2. F(a) \in Int /\ F(a + k) \in Int /\ F((a + k) + 1) \in Int /\ F(a + k) <= F((a + k) + 1)
      BY <1>1, <3>1
    <3>3. F(a) <= F((a + k) + 1)
      BY <3>2
    <3>4. QED
      BY <3>1, <3>3
  <2>3. K = Nat
    <3>1. K \subseteq Nat
      OBVIOUS
    <3> HIDE DEF K
    <3>2. QED
      BY <2>1, <2>2, <3>1, Induction
  <2>4. QED
    BY <2>3
<1>5. \A a, b \in Nat : a <= b => F(a) <= F(b)
  <2>1. TAKE a, b \in Nat
  <2>2. HAVE a <= b
  <2>3. b - a \in Nat /\ a + (b - a) = b
    BY <2>2
  <2>4. QED
    BY <1>4, <2>3
<1>6. \A a, b \in 0..until : a <= b => IntegratedFactorTo(profile, a) <= IntegratedFactorTo(profile, b)
  <2>1. \A a \in 0..until : a \in Nat
    OBVIOUS
  <2>2. QED
    BY <1>2, <1>5, <2>1
<1>7. \A e \in 0..until : IntegratedFactorTo(profile, e) \in Nat
  <2>1. \A e \in 0..until : e \in Nat /\ 0 <= e /\ 0 \in Nat
    OBVIOUS
  <2>2. \A e \in 0..until : F(0) <= F(e) /\ F(e) \in Int
    BY <1>1, <1>5, <2>1
  <2>3. \A e \in 0..until : F(e) \in Nat
    BY <1>3, <2>2
  <2>4. QED
    BY <1>2, <2>3
<1>8. IntegratedFactorTo(profile, 0) = 0
  <2>1. 0 \in 0..until
    OBVIOUS
  <2>2. QED
    BY <1>2, <1>3, <2>1
<1>9. IntegratedFactorTo(profile, until) = Unit * until
  BY DEF IntegratedFactorTo
<1>10. QED
  BY <1>6, <1>7, <1>8, <1>9

(* SmoothRateProfile::new accepts it. *)
LEMMA GoodSegmentsAreValid ==
  ASSUME NEW profile, profile.duration \in Nat,
         GoodSegments(profile.segments, 0, profile.duration)
  PROVE  ValidProfile(profile)
<1> DEFINE segments == profile.segments
           S == DOMAIN segments
<1>1. /\ IsFiniteSet(S) /\ S \subseteq Nat \ {0}
      /\ \A i \in S : /\ segments[i] \in Segments /\ SegmentEnd(segments[i]) <= profile.duration
                      /\ i > 1 => i - 1 \in S
      /\ \A i, j \in S : i < j => SegmentEnd(segments[i]) <= segments[j].start
      /\ Part(Integrals(segments), S) = 0
  BY GoodSegmentFacts
<1>2. \A i \in S : i > 1 => segments[i].start >= SegmentEnd(segments[i - 1])
  <2>1. TAKE i \in S
  <2>2. HAVE i > 1
  <2>3. i - 1 \in S /\ i \in Nat /\ i - 1 < i
    BY <1>1, <2>2
  <2>4. SegmentEnd(segments[i - 1]) <= segments[i].start
    BY <1>1, <2>3
  <2>5. segments[i].start \in Nat /\ SegmentEnd(segments[i - 1]) \in Nat
    BY <1>1, <2>3, SegmentFacts
  <2>6. QED
    BY <2>4, <2>5
<1>3. Total([i \in S |-> segments[i].integral]) = 0
  <2>1. [i \in S |-> segments[i].integral] = [i \in S |-> Integrals(segments)[i]]
    BY DEF Integrals
  <2>2. QED
    BY <1>1, <2>1 DEF Part
<1>4. QED
  BY <1>1, <1>2, <1>3 DEF ValidProfile

-----------------------------------------------------------------------------
(* The grid of a boundary, and the heights on it.                          *)

(* The least of finitely many values is one of them.                       *)
LEMMA LeastValue ==
  ASSUME NEW S, IsFiniteSet(S), S # {}, NEW f, \A x \in S : f[x] \in Int
  PROVE  /\ \E x \in S : Min({f[y] : y \in S}) = f[x]
         /\ \A x \in S : Min({f[y] : y \in S}) <= f[x]
<1> DEFINE g == [x \in S |-> -f[x]]
<1>1. \A x \in S : g[x] \in Int /\ g[x] = -f[x]
  OBVIOUS
<1>2. PICK x \in S : \A y \in S : g[y] <= g[x]
  <2> HIDE DEF g
  <2>1. /\ \E x \in S : Max({g[y] : y \in S}) = g[x]
        /\ \A x \in S : g[x] <= Max({g[y] : y \in S})
    <3>1. \A y \in S : g[y] \in Int
      BY Zenon, <1>1
    <3>2. QED
      BY Zenon, <3>1, GreatestValue
  <2>2. QED
    BY <2>1
<1> HIDE DEF g
<1>3. \A y \in S : f[x] <= f[y]
  <2>1. TAKE y \in S
  <2>2. g[y] <= g[x] /\ f[x] \in Int /\ f[y] \in Int /\ g[y] = -f[y] /\ g[x] = -f[x]
    BY <1>1, <1>2
  <2>3. QED
    BY <2>2
<1> DEFINE values == {f[y] : y \in S}
<1>4. f[x] \in values /\ \A v \in values : f[x] <= v
  BY <1>3
<1>5. \A v \in values : v \in Int
  OBVIOUS
<1> HIDE DEF values
<1>6. Min(values) = f[x]
  BY <1>4, <1>5 DEF Min
<1>7. QED
  BY <1>3, <1>6 DEF values

(* The larger of two numbers.                                              *)
LEMMA MaxOfTwo ==
  ASSUME NEW a \in Int, NEW b \in Int
  PROVE  Max({a, b}) = IF a >= b THEN a ELSE b
BY DEF Max

(* The extent of a boundary, the nodes over it and their positions.        *)
LEMMA AxisFacts ==
  ASSUME NEW boundary \in Seq(Int \X Int), Len(boundary) > 0, NEW axis \in {1, 2}
  PROVE  /\ Min(Axis(boundary, axis)) \in Int /\ Max(Axis(boundary, axis)) \in Int
         /\ Min(Axis(boundary, axis)) <= Max(Axis(boundary, axis))
         /\ NodeCount(boundary, axis) \in Nat /\ NodeCount(boundary, axis) >= 2
<1> DEFINE S == 1..Len(boundary)
           f == [i \in S |-> boundary[i][axis]]
<1>1. S = DOMAIN boundary /\ IsFiniteSet(S) /\ S # {}
  <2>0. Len(boundary) \in Nat /\ S = DOMAIN boundary
    OBVIOUS
  <2>1. S = DOMAIN boundary /\ S # {}
    <3>1. 1 \in S
      BY <2>0
    <3>2. QED
      BY <2>0, <3>1
  <2> DEFINE n == Len(boundary)
             m == 1
  <2>2. n \in Int /\ m \in Int
    OBVIOUS
  <2> HIDE DEF n, m
  <2>3. IsFiniteSet(m..n)
    BY <2>2, FS_Interval
  <2>4. IsFiniteSet(S)
    BY <2>3 DEF m, n
  <2>5. QED
    BY <2>1, <2>4
<1>2. \A i \in S : f[i] \in Int
  OBVIOUS
<1>3. Axis(boundary, axis) = {f[i] : i \in S}
  BY <1>1 DEF Axis, ToSet
<1> HIDE DEF f, S
<1>4. /\ \E x \in S : Min({f[y] : y \in S}) = f[x]
      /\ \A x \in S : Min({f[y] : y \in S}) <= f[x]
  BY Zenon, <1>1, <1>2, LeastValue
<1>5. /\ \E x \in S : Max({f[y] : y \in S}) = f[x]
      /\ \A x \in S : f[x] <= Max({f[y] : y \in S})
  BY Zenon, <1>1, <1>2, GreatestValue
<1> DEFINE low == Min(Axis(boundary, axis))
           high == Max(Axis(boundary, axis))
<1>6. low \in Int /\ high \in Int
  BY <1>2, <1>3, <1>4, <1>5
<1>7. low <= high
  <2>1. PICK x \in S : TRUE
    BY <1>1
  <2>2. low <= f[x] /\ f[x] <= high /\ f[x] \in Int
    BY <1>2, <1>3, <1>4, <1>5
  <2>3. QED
    BY <1>6, <2>2
<1> DEFINE count == NodeCount(boundary, axis)
           n == ((high - low) + CellSize - 1) \div CellSize
<1>8. count = Max({1, n}) + 1
  BY DEF NodeCount
<1> HIDE DEF low, high, count
<1>9. n \in Int
  <2> DEFINE x == (high - low) + CellSize - 1
  <2>1. x \in Int /\ CellSize \in Nat \ {0}
    BY <1>6, GridAssumption
  <2> HIDE DEF x
  <2>2. x \div CellSize \in Int
    BY <2>1, Quotient
  <2>3. QED
    BY <2>2 DEF x
<1> HIDE DEF n
<1>10. count \in Nat /\ count >= 2
  <2> DEFINE z == 1
  <2>1. z \in Int
    OBVIOUS
  <2> HIDE DEF z
  <2>2. Max({z, n}) = IF z >= n THEN z ELSE n
    BY <1>9, <2>1, MaxOfTwo
  <2>3. QED
    BY <1>8, <1>9, <2>2 DEF z
<1>11. QED
  BY <1>6, <1>7, <1>10 DEF low, high, count

(* The nodes over a boundary are finitely many, at integer positions.      *)
LEMMA NodesFacts ==
  ASSUME NEW boundary \in Seq(Int \X Int), Len(boundary) > 0
  PROVE  /\ Nodes(boundary) \subseteq Int \X Int /\ IsFiniteSet(Nodes(boundary))
         /\ \A node \in Int \X Int : Position(boundary, node) \in Int \X Int
<1>1. /\ Min(Axis(boundary, 1)) \in Int /\ NodeCount(boundary, 1) \in Nat
      /\ Min(Axis(boundary, 2)) \in Int /\ NodeCount(boundary, 2) \in Nat
  <2> DEFINE x == 1
             y == 2
  <2>1. x \in {1, 2} /\ y \in {1, 2}
    OBVIOUS
  <2> HIDE DEF x, y
  <2>2. /\ Min(Axis(boundary, x)) \in Int /\ NodeCount(boundary, x) \in Nat
        /\ Min(Axis(boundary, y)) \in Int /\ NodeCount(boundary, y) \in Nat
    BY <2>1, AxisFacts
  <2>3. QED
    BY <2>2 DEF x, y
<1> DEFINE A == 0..(NodeCount(boundary, 1) - 1)
           B == 0..(NodeCount(boundary, 2) - 1)
<1>2. IsFiniteSet(A) /\ IsFiniteSet(B) /\ A \subseteq Int /\ B \subseteq Int
  <2> DEFINE a == NodeCount(boundary, 1) - 1
             b == NodeCount(boundary, 2) - 1
             z == 0
  <2>1. a \in Int /\ b \in Int /\ z \in Int
    BY <1>1
  <2> HIDE DEF a, b, z
  <2>2. IsFiniteSet(z..a) /\ IsFiniteSet(z..b)
    BY <2>1, FS_Interval
  <2>3. z..a \subseteq Int /\ z..b \subseteq Int
    BY <2>1
  <2>4. QED
    BY <2>2, <2>3 DEF a, b, z
<1>3. Nodes(boundary) = A \X B
  BY DEF Nodes
<1> HIDE DEF A, B
<1>4. IsFiniteSet(A \X B)
  BY <1>2, FS_Product
<1>5. ASSUME NEW node \in Int \X Int PROVE Position(boundary, node) \in Int \X Int
  <2> DEFINE left == Min(Axis(boundary, 1))
             low == Min(Axis(boundary, 2))
             x == node[1]
             y == node[2]
  <2>1. left \in Int /\ low \in Int
    BY Zenon, <1>1
  <2>2. x \in Int /\ y \in Int
    BY <1>5
  <2>3. CellSize \in Int
    BY GridAssumption
  <2>4. Position(boundary, node) = <<left + CellSize * x, low + CellSize * y>>
    BY Zenon DEF Position
  <2> HIDE DEF left, low, x, y
  <2> DEFINE right == CellSize * x
             up == CellSize * y
  <2>5. right \in Int /\ up \in Int
    BY Zenon, <2>2, <2>3, ProductsAreIntegers
  <2>6. Position(boundary, node) = <<left + right, low + up>>
    BY Zenon, <2>4
  <2> HIDE DEF right, up
  <2>7. left + right \in Int /\ low + up \in Int
    BY <2>1, <2>5
  <2>8. QED
    BY <2>6, <2>7
<1>6. QED
  BY <1>2, <1>3, <1>4, <1>5

(* The squared distance of a node to a point.                              *)
LEMMA SquaredDistanceFacts ==
  ASSUME NEW g, g.boundary \in Seq(Int \X Int), Len(g.boundary) > 0,
         NEW node \in Int \X Int, NEW center \in Int \X Int
  PROVE  SquaredDistance(g, node, center) \in Nat
<1> DEFINE at == Position(g.boundary, node)
           x == at[1] - center[1]
           y == at[2] - center[2]
<1>1. at \in Int \X Int
  BY NodesFacts
<1>2. x \in Int /\ y \in Int
  <2> HIDE DEF at
  <2>1. QED
    BY <1>1
<1>3. SquaredDistance(g, node, center) = x * x + y * y
  BY DEF SquaredDistance
<1> HIDE DEF x, y
<1>4. x * x \in Nat /\ y * y \in Nat
  <2>1. \A z \in Int : z * z \in Nat
    OBVIOUS
  <2>2. QED
    BY <1>2, <2>1
<1>5. QED
  BY <1>3, <1>4

(* The largest unit is a positive number that no weight is below.          *)
LEMMA UnitFacts ==
  ASSUME NEW S, IsFiniteSet(S), NEW weight \in [S -> Nat \ {0}]
  PROVE  InLargestUnit(weight) \in [S -> Nat \ {0}]
<1> DEFINE values == {weight[node] : node \in S}
           units == {u \in 1..Min(values) : \A v \in values : v % u = 0}
           unit == Max(units)
<1>1. DOMAIN weight = S /\ \A node \in S : weight[node] \in Nat \ {0}
  OBVIOUS
<1>2. InLargestUnit(weight) = [node \in S |-> weight[node] \div unit]
  BY <1>1 DEF InLargestUnit
<1>3. ASSUME NEW node \in S PROVE weight[node] \div unit \in Nat \ {0}
  <2>0. S # {} /\ weight[node] \in Nat \ {0} /\ weight[node] \in values
    BY <1>3
  <2>1. /\ \E x \in S : Min(values) = weight[x]
        /\ \A x \in S : Min(values) <= weight[x]
    <3>1. \A x \in S : weight[x] \in Int
      BY <1>1
    <3>2. QED
      BY Zenon, <2>0, <3>1, LeastValue
  <2>2. Min(values) \in Nat \ {0} /\ Min(values) <= weight[node]
    BY <1>1, <2>1
  <2>3. \A v \in values : v % 1 = 0
    BY <1>1
  <2> HIDE DEF values
  <2> DEFINE f == [u \in units |-> u]
  <2>4. 1 \in units /\ units \subseteq 1..Min(values)
    BY <2>2, <2>3
  <2>5. IsFiniteSet(units)
    <3> HIDE DEF units
    <3>1. IsFiniteSet(1..Min(values))
      BY <2>2, FS_Interval
    <3>2. QED
      BY <2>4, <3>1, FS_Subset
  <2>6. \A u \in units : f[u] \in Int /\ f[u] = u
    OBVIOUS
  <2>7. {f[u] : u \in units} = units
    BY <2>6
  <2>8. units # {}
    BY <2>4
  <2> HIDE DEF f, units
  <2>9. \E x \in units : Max({f[u] : u \in units}) = f[x]
    <3>1. \A x \in units : f[x] \in Int
      BY Zenon, <2>6
    <3>2. QED
      BY Zenon, <2>5, <2>8, <3>1, GreatestValue
  <2>10. unit \in units
    BY <2>6, <2>7, <2>9
  <2>11. unit \in Nat \ {0} /\ unit <= weight[node]
    <3>1. unit \in 1..Min(values)
      BY <2>4, <2>10
    <3> HIDE DEF unit
    <3>2. QED
      BY <2>0, <2>2, <3>1
  <2> HIDE DEF unit
  <2> DEFINE w == weight[node]
             q == w \div unit
             r == w % unit
  <2>12. w \in Nat /\ w \in Int /\ w >= unit
    BY <2>0, <2>11
  <2> HIDE DEF w
  <2>13. q \in Int /\ r \in 0..(unit - 1) /\ w = unit * q + r
    BY <2>11, <2>12, Quotient
  <2> HIDE DEF q, r
  <2>14. q >= 1
    <3>1. ASSUME q <= 0 PROVE FALSE
      <4>1. unit * q <= 0
        BY <2>11, <2>13, <3>1
      <4>2. unit * q \in Int
        BY <2>11, <2>13
      <4>3. QED
        BY <2>11, <2>12, <2>13, <4>1, <4>2
    <3>2. QED
      BY <2>13, <3>1
  <2>15. QED
    BY <2>13, <2>14 DEF q, w
<1>4. QED
  <2> HIDE DEF unit
  <2>1. QED
    BY <1>2, <1>3

(* Grid::new, for a boundary whose areas are whole: every weight that is   *)
(* kept is positive, and the pairs lie between the nodes that are kept.    *)
LEMMA NewGridFacts ==
  ASSUME NEW boundary \in Seq(Int \X Int), Len(boundary) > 0,
         \A node \in Nodes(boundary) : NodeWeight(boundary, node) \in Int
  PROVE  /\ IsGrid(NewGrid(boundary)) /\ NewGrid(boundary).boundary = boundary
         /\ DOMAIN NewGrid(boundary).weight \subseteq Nodes(boundary)
<1> DEFINE raw == [node \in Nodes(boundary) |-> NodeWeight(boundary, node)]
           S == Loaded(raw)
           kept == Restrict(raw, S)
           g == NewGrid(boundary)
<1>1. Nodes(boundary) \subseteq Int \X Int /\ IsFiniteSet(Nodes(boundary))
  BY NodesFacts
<1>2. S = {node \in Nodes(boundary) : raw[node] > 0}
  BY DEF Loaded
<1>3. S \subseteq Nodes(boundary) /\ S \subseteq Int \X Int /\ \A node \in S : raw[node] \in Nat \ {0}
  <2>1. \A node \in Nodes(boundary) : raw[node] \in Int
    OBVIOUS
  <2>2. S \subseteq Nodes(boundary)
    BY <1>2
  <2> HIDE DEF raw
  <2>3. \A node \in S : raw[node] \in Int /\ raw[node] > 0
    BY <1>2, <2>1
  <2> HIDE DEF S
  <2>4. QED
    BY <1>1, <2>2, <2>3
<1>4. IsFiniteSet(S)
  BY <1>1, <1>3, FS_Subset
<1>5. kept = [node \in S |-> raw[node]]
  BY DEF Restrict
<1>6. /\ g.boundary = boundary /\ g.pairs = NeighborPairs(S) /\ g.weight = InLargestUnit(kept)
  BY DEF NewGrid, Weighted
<1> HIDE DEF g, S, raw
<1>7. kept \in [S -> Nat \ {0}]
  <2> HIDE DEF kept
  <2>1. \A node \in S : kept[node] \in Nat \ {0}
    BY <1>3, <1>5
  <2>2. QED
    BY <1>5, <2>1
<1> HIDE DEF kept
<1>8. g.weight \in [S -> Nat \ {0}] /\ DOMAIN g.weight = S
  <2>1. InLargestUnit(kept) \in [S -> Nat \ {0}]
    BY <1>4, <1>7, UnitFacts
  <2>2. QED
    BY <1>6, <2>1
<1>9. g.pairs \subseteq S \X S
  BY <1>6 DEF NeighborPairs
<1>10. IsFiniteSet(g.pairs)
  <2>1. IsFiniteSet(S \X S)
    BY <1>4, FS_Product
  <2>2. QED
    BY <1>9, <2>1, FS_Subset
<1>11. IsGrid(g)
  BY <1>3, <1>4, <1>8, <1>9, <1>10 DEF IsGrid
<1>12. QED
  BY <1>3, <1>6, <1>8, <1>11 DEF g

(* The factors of a product can be exchanged.                              *)
LEMMA FactorsExchange ==
  ASSUME NEW a \in Int, NEW b \in Int, NEW c \in Int
  PROVE  a * (b * c) = b * (a * c)
  OBVIOUS

(* A product of positive numbers is positive.                              *)
LEMMA PositiveProduct ==
  ASSUME NEW a \in Nat \ {0}, NEW b \in Nat \ {0}
  PROVE  a * b \in Nat \ {0}
  OBVIOUS

(* A table of the products over all subsets. *)
ProductTable(S, f, g) ==
  /\ g \in [SUBSET S -> Nat \ {0}] /\ g[{}] = 1
  /\ \A T \in SUBSET S : \A x \in T : g[T] = g[T \ {x}] * f[x]

(* There is a table of products, in whatever order factors are taken.      *)
LEMMA ProductTableExists ==
  ASSUME NEW S, IsFiniteSet(S), NEW f, \A x \in S : f[x] \in Nat \ {0}
  PROVE  \E g : ProductTable(S, f, g)
<1> DEFINE F == {T \in SUBSET S : \E g : ProductTable(T, f, g)}
<1>1. {} \in F
  <2>1. ProductTable({}, f, [T \in SUBSET {} |-> 1])
    BY DEF ProductTable
  <2>2. QED
    BY <2>1
<1>2. ASSUME NEW T \in SUBSET S, NEW y \in S \ T, T \in F
      PROVE  T \cup {y} \in F
  <2>1. PICK g : ProductTable(T, f, g)
    BY <1>2
  <2> DEFINE h == [U \in SUBSET (T \cup {y}) |-> IF y \in U THEN g[U \ {y}] * f[y] ELSE g[U]]
  <2>2. \A U \in SUBSET T : g[U] \in Nat \ {0}
    BY <2>1 DEF ProductTable
  <2>3. \A U \in SUBSET (T \cup {y}) : U \ {y} \in SUBSET T /\ (y \notin U => U \in SUBSET T)
    OBVIOUS
  <2>4. f[y] \in Nat \ {0}
    OBVIOUS
  <2>5. h \in [SUBSET (T \cup {y}) -> Nat \ {0}]
    <3>1. \A U \in SUBSET (T \cup {y}) : h[U] \in Nat \ {0}
      <4>1. TAKE U \in SUBSET (T \cup {y})
      <4>2. CASE y \in U
        <5>1. g[U \ {y}] \in Nat \ {0}
          BY <2>2, <2>3
        <5>2. g[U \ {y}] * f[y] \in Nat \ {0}
          BY <2>4, <5>1, PositiveProduct
        <5>3. QED
          BY <4>2, <5>2
      <4>3. CASE y \notin U
        BY <2>2, <2>3, <4>3
      <4>4. QED
        BY <4>2, <4>3
    <3>2. h = [U \in SUBSET (T \cup {y}) |-> h[U]]
      OBVIOUS
    <3> HIDE DEF h
    <3>3. QED
      BY <3>1, <3>2
  <2>6. h[{}] = 1
    BY <2>1 DEF ProductTable
  <2>7. ASSUME NEW U \in SUBSET (T \cup {y}), NEW x \in U
        PROVE  h[U] = h[U \ {x}] * f[x]
    <3>1. U \ {x} \in SUBSET (T \cup {y})
      OBVIOUS
    <3>2. CASE x = y
      <4>1. y \notin U \ {x} /\ y \in U /\ U \ {x} = U \ {y}
        BY <3>2
      <4>2. QED
        BY <3>1, <3>2, <4>1
    <3>3. CASE x # y /\ y \in U
      <4>1. x \in U \ {y} /\ U \ {y} \in SUBSET T
        BY <2>3, <3>3
      <4>2. g[U \ {y}] = g[(U \ {y}) \ {x}] * f[x]
        BY <2>1, <4>1 DEF ProductTable
      <4>3. (U \ {y}) \ {x} = (U \ {x}) \ {y} /\ (U \ {x}) \ {y} \in SUBSET T
        BY <4>1
      <4>4. h[U] = g[U \ {y}] * f[y] /\ h[U \ {x}] = g[(U \ {x}) \ {y}] * f[y]
        BY <3>1, <3>3
      <4>5. x \in S
        BY <4>1
      <4>6. f[x] \in Int /\ g[(U \ {x}) \ {y}] \in Int /\ f[y] \in Int
        BY <2>2, <2>4, <4>3, <4>5
      <4>7. QED
        <5> DEFINE k == g[(U \ {x}) \ {y}]
                   a == f[x]
                   b == f[y]
        <5> HIDE DEF h, k, a, b
        <5>1. k \in Int /\ a \in Int /\ b \in Int
          BY <4>6 DEF k, a, b
        <5>2. (k * a) * b = (k * b) * a
          BY <5>1
        <5>3. h[U] = (k * a) * b
          BY <4>2, <4>3, <4>4 DEF k, a, b
        <5>4. h[U \ {x}] * f[x] = (k * b) * a
          BY <4>4 DEF k, a, b
        <5>5. QED
          BY <5>2, <5>3, <5>4
    <3>4. CASE y \notin U
      <4>1. U \in SUBSET T /\ y \notin U \ {x}
        BY <2>3, <3>4
      <4>2. g[U] = g[U \ {x}] * f[x]
        BY <2>1, <4>1 DEF ProductTable
      <4>3. QED
        BY <3>1, <3>4, <4>1, <4>2
    <3>5. QED
      BY <3>2, <3>3, <3>4
  <2>8. ProductTable(T \cup {y}, f, h)
    <3> HIDE DEF h
    <3>1. QED
      BY <2>5, <2>6, <2>7 DEF ProductTable
  <2>9. QED
    BY <2>8
<1>3. S \in F
  <2> HIDE DEF F
  <2>1. QED
    BY <1>1, <1>2, FiniteInduction
<1>4. QED
  BY <1>3

(* What the fold over the weights computes. *)
PickedProduct(f, iter, T) ==
  IF T = {} THEN 1 ELSE iter[T \ {CHOOSE x \in T : TRUE}] * f[CHOOSE x \in T : TRUE]

ProductOver(f, S) == FoldSet(LAMBDA node, product : product * f[node], 1, S)

(* The product of the weights is positive.                                 *)
LEMMA ProductIsPositive ==
  ASSUME NEW S, IsFiniteSet(S), NEW f, \A x \in S : f[x] \in Nat \ {0}
  PROVE  ProductOver(f, S) \in Nat \ {0}
<1>1. PICK g : ProductTable(S, f, g)
  BY ProductTableExists
<1> DEFINE iter == CHOOSE iter : iter = [T \in SUBSET S |-> PickedProduct(f, iter, T)]
<1>2. ProductOver(f, S) = iter[S]
  BY DEF ProductOver, FoldSet, MapThenFoldSet, PickedProduct
<1>3. g = [T \in SUBSET S |-> PickedProduct(f, g, T)]
  <2>1. g = [T \in SUBSET S |-> g[T]]
    BY <1>1 DEF ProductTable
  <2>2. ASSUME NEW T \in SUBSET S PROVE g[T] = PickedProduct(f, g, T)
    <3>1. CASE T = {}
      BY <1>1, <3>1 DEF ProductTable, PickedProduct
    <3>2. CASE T # {}
      <4>1. (CHOOSE x \in T : TRUE) \in T
        BY <3>2
      <4>2. QED
        BY <1>1, <3>2, <4>1 DEF ProductTable, PickedProduct
    <3>3. QED
      BY <3>1, <3>2
  <2>3. QED
    BY <2>1, <2>2
<1>4. iter = [T \in SUBSET S |-> PickedProduct(f, iter, T)]
  BY <1>3
<1> HIDE DEF iter
<1> DEFINE F == {T \in SUBSET S : iter[T] = g[T]}
<1>5. ASSUME NEW T \in SUBSET S, \A x \in T : T \ {x} \in F
      PROVE  T \in F
  <2>1. iter[T] = PickedProduct(f, iter, T) /\ g[T] = PickedProduct(f, g, T)
    BY <1>3, <1>4
  <2>2. CASE T = {}
    BY <2>1, <2>2 DEF PickedProduct
  <2>3. CASE T # {}
    <3>1. (CHOOSE x \in T : TRUE) \in T
      BY <2>3
    <3>2. iter[T \ {CHOOSE x \in T : TRUE}] = g[T \ {CHOOSE x \in T : TRUE}]
      BY <1>5, <3>1
    <3>3. QED
      BY <2>1, <2>3, <3>2 DEF PickedProduct
  <2>4. QED
    BY <2>2, <2>3
<1>6. iter[S] = g[S]
  <2>1. \A T \in SUBSET S : T \in F
    <3> HIDE DEF F
    <3>1. QED
      BY <1>5, FiniteDescent
  <2>2. QED
    BY <2>1
<1>7. g[S] \in Nat \ {0}
  BY <1>1 DEF ProductTable
<1>8. QED
  BY <1>2, <1>6, <1>7

(* The smaller of two integers is one.                                     *)
LEMMA MinIsInteger ==
  ASSUME NEW a \in Int, NEW b \in Int
  PROVE  Min({a, b}) \in Int
BY MinOfTwo

(* A height is a number of volumes by a positive weight.                   *)
LEMMA HeightAtFacts ==
  ASSUME NEW g, IsGrid(g), g.boundary \in Seq(Int \X Int), Len(g.boundary) > 0,
         NEW surface, Fills(g, surface), NEW point \in Int \X Int
  PROVE  HeightAt(g, surface, point) \in Rationals
<1> DEFINE b == g.boundary
           cell == [axis \in {1, 2} |->
                      Min({(point[axis] - Min(Axis(b, axis))) \div CellSize,
                           NodeCount(b, axis) - 2})]
           offset == [axis \in {1, 2} |-> point[axis] - Position(b, cell)[axis]]
           corners == {<<cell[1] + at[1], cell[2] + at[2]>> : at \in {0, 1} \X {0, 1}}
                        \cap DOMAIN surface
           share(node, axis) == IF node[axis] = cell[axis] THEN CellSize - offset[axis]
                                ELSE offset[axis]
           weights == FoldSet(LAMBDA node, product : product * g.weight[node], 1, corners)
           volume == [node \in corners |-> surface[node] * (weights \div g.weight[node])
                                             * share(node, 1) * share(node, 2)]
<1>1. HeightAt(g, surface, point) = <<Total(volume), weights * CellSize * CellSize>>
  BY DEF HeightAt
<1>2. CellSize \in Nat \ {0}
  BY GridAssumption
<1>3. \A axis \in {1, 2} : cell[axis] \in Int
  <2>1. TAKE axis \in {1, 2}
  <2> DEFINE low == Min(Axis(b, axis))
             count == NodeCount(b, axis)
             x == point[axis] - low
  <2>2. low \in Int /\ count \in Int
    BY AxisFacts
  <2>3. point[axis] \in Int
    OBVIOUS
  <2>4. cell[axis] = Min({x \div CellSize, count - 2})
    OBVIOUS
  <2> HIDE DEF low, count, cell
  <2>5. x \in Int /\ count - 2 \in Int
    BY <2>2, <2>3
  <2> HIDE DEF x
  <2>6. x \div CellSize \in Int
    BY <1>2, <2>5, Quotient
  <2>7. QED
    BY <2>4, <2>5, <2>6, MinIsInteger
<1>4. \A axis \in {1, 2} : offset[axis] \in Int
  <2>1. CellSize * cell[1] \in Int /\ CellSize * cell[2] \in Int
    <3>1. cell[1] \in Int /\ cell[2] \in Int
      BY <1>3
    <3> HIDE DEF cell
    <3>2. QED
      BY <1>2, <3>1
  <2>2. Min(Axis(b, 1)) \in Int /\ Min(Axis(b, 2)) \in Int
    <3> DEFINE x == 1
               y == 2
    <3>1. x \in {1, 2} /\ y \in {1, 2}
      OBVIOUS
    <3> HIDE DEF x, y
    <3>2. Min(Axis(b, x)) \in Int /\ Min(Axis(b, y)) \in Int
      BY <3>1, AxisFacts
    <3>3. QED
      BY <3>2 DEF x, y
  <2>3. Position(b, cell) = <<Min(Axis(b, 1)) + CellSize * cell[1], Min(Axis(b, 2)) + CellSize * cell[2]>>
    BY DEF Position
  <2>4. point[1] \in Int /\ point[2] \in Int
    OBVIOUS
  <2>5. /\ offset[1] = point[1] - Position(b, cell)[1]
        /\ offset[2] = point[2] - Position(b, cell)[2]
    BY DEF offset
  <2> HIDE DEF cell, offset
  <2>6. offset[1] \in Int /\ offset[2] \in Int
    BY <2>1, <2>2, <2>3, <2>4, <2>5
  <2>7. QED
    BY <2>6
<1> HIDE DEF offset
<1>5. \A node \in corners : share(node, 1) \in Int /\ share(node, 2) \in Int
  BY <1>2, <1>4
<1>6. corners \subseteq DOMAIN g.weight /\ IsFiniteSet(corners)
  <2>1. DOMAIN surface = DOMAIN g.weight
    BY DEF Fills
  <2>2. corners \subseteq DOMAIN g.weight
    BY <2>1
  <2> HIDE DEF corners
  <2>3. IsFiniteSet(DOMAIN g.weight)
    BY GridFacts
  <2>4. QED
    BY <2>2, <2>3, FS_Subset
<1> HIDE DEF corners, share
<1>7. \A node \in corners : g.weight[node] \in Nat \ {0} /\ surface[node] \in Nat
  <2>1. \A node \in DOMAIN g.weight : g.weight[node] \in Nat \ {0} /\ surface[node] \in Nat
    BY GridFacts DEF Fills
  <2>2. QED
    BY <1>6, <2>1
<1>8. weights \in Nat \ {0}
  <2> DEFINE w == g.weight
  <2>0. weights = ProductOver(w, corners)
    BY DEF ProductOver
  <2>1. \A x \in corners : w[x] \in Nat \ {0}
    BY <1>7
  <2> HIDE DEF w
  <2>2. ProductOver(w, corners) \in Nat \ {0}
    BY <1>6, <2>1, ProductIsPositive
  <2> HIDE DEF weights
  <2>3. QED
    BY <2>0, <2>2
<1> HIDE DEF weights
<1>9. \A node \in corners : volume[node] \in Int
  <2>1. TAKE node \in corners
  <2>2. weights \div g.weight[node] \in Int
    <3> DEFINE d == g.weight[node]
    <3>1. d \in Nat \ {0} /\ weights \in Int
      BY <1>7, <1>8
    <3> HIDE DEF d
    <3>2. weights \div d \in Int
      BY <3>1, Quotient
    <3>3. QED
      BY <3>2 DEF d
  <2> DEFINE a == surface[node]
             q == weights \div g.weight[node]
             r == share(node, 1)
             s == share(node, 2)
  <2>3. a \in Int /\ q \in Int /\ r \in Int /\ s \in Int
    BY <1>5, <1>7, <2>2
  <2>4. volume[node] = a * q * r * s
    OBVIOUS
  <2> HIDE DEF a, q, r, s, volume
  <2>5. a * q \in Int
    BY <2>3, ProductsAreIntegers
  <2>6. a * q * r \in Int
    BY <2>3, <2>5, ProductsAreIntegers
  <2>7. QED
    BY <2>3, <2>4, <2>6, ProductsAreIntegers
<1>10. Total(volume) \in Int
  <2>1. volume = [node \in corners |-> volume[node]]
    OBVIOUS
  <2> HIDE DEF volume
  <2>2. Part(volume, corners) \in Int
    BY <1>6, <1>9, PartFacts
  <2>3. QED
    BY <2>1, <2>2 DEF Part
<1>11. weights * CellSize * CellSize \in Nat \ {0}
  <2>1. weights * CellSize \in Nat \ {0}
    BY <1>2, <1>8, PositiveProduct
  <2> DEFINE wc == weights * CellSize
  <2> HIDE DEF wc
  <2>2. wc \in Nat \ {0}
    BY <2>1 DEF wc
  <2>3. wc * CellSize \in Nat \ {0}
    BY <1>2, <2>2, PositiveProduct
  <2>4. QED
    BY <2>3 DEF wc
<1> HIDE DEF volume
<1>12. QED
  BY <1>1, <1>10, <1>11 DEF Rationals

(* The mean height around a point is a ratio, with no division by zero     *)
(* (mean_height_within).                                                   *)
LEMMA MeanHeightFacts ==
  ASSUME NEW g, IsGrid(g), g.boundary \in Seq(Int \X Int), Len(g.boundary) > 0,
         NEW surface, Fills(g, surface), NEW center \in Int \X Int, NEW radius \in Int
  PROVE  MeanHeightWithin(g, surface, center, radius) \in Rationals
<1> DEFINE near == {node \in DOMAIN surface :
                      SquaredDistance(g, node, center) <= radius * radius}
           volume == [node \in near |-> surface[node]]
           weight == [node \in near |-> g.weight[node]]
<1>1. MeanHeightWithin(g, surface, center, radius)
        = IF near = {} THEN HeightAt(g, surface, center) ELSE <<Total(volume), Total(weight)>>
  BY DEF MeanHeightWithin
<1>2. DOMAIN surface = DOMAIN g.weight
  BY DEF Fills
<1>3. near \subseteq DOMAIN g.weight /\ IsFiniteSet(near)
  <2>1. near \subseteq DOMAIN g.weight
    BY <1>2
  <2> HIDE DEF near
  <2>2. IsFiniteSet(DOMAIN g.weight)
    BY GridFacts
  <2>3. QED
    BY <2>1, <2>2, FS_Subset
<1> HIDE DEF near
<1>4. \A node \in near : g.weight[node] \in Nat \ {0} /\ surface[node] \in Nat
  <2>1. \A node \in DOMAIN g.weight : g.weight[node] \in Nat \ {0} /\ surface[node] \in Nat
    BY GridFacts DEF Fills
  <2>2. QED
    BY <1>3, <2>1
<1>5. CASE near = {}
  <2>1. HeightAt(g, surface, center) \in Rationals
    BY HeightAtFacts
  <2>2. QED
    BY <1>1, <1>5, <2>1
<1>6. CASE near # {}
  <2> DEFINE w == g.weight
  <2>1. Total(volume) = Part(surface, near) /\ Total(weight) = Part(w, near)
    BY DEF Part
  <2>2. \A node \in near : surface[node] \in Nat /\ surface[node] \in Int
                           /\ w[node] \in Nat /\ w[node] # 0 /\ w[node] \in Int
    BY <1>4
  <2> HIDE DEF volume, weight, w
  <2>3. Part(surface, near) \in Int
    BY <1>3, <2>2, PartFacts
  <2>4. Part(w, near) \in Nat /\ (Part(w, near) = 0 => \A x \in near : w[x] = 0)
    BY <1>3, <2>2, PartOfNats
  <2>5. Part(w, near) \in Nat \ {0}
    BY <1>6, <2>2, <2>4
  <2>6. QED
    BY <1>1, <1>6, <2>1, <2>3, <2>5 DEF Rationals
<1>7. QED
  BY <1>5, <1>6

(* Below what something is not below is below it.                          *)
LEMMA LessThanChains ==
  ASSUME NEW r \in Rationals, NEW s \in Rationals, NEW t \in Rationals,
         LessThan(r, s), ~ LessThan(t, s)
  PROVE  LessThan(r, t)
<1> DEFINE a == r[1]
           b == r[2]
           c == s[1]
           d == s[2]
           e == t[1]
           f == t[2]
<1>1. /\ a \in Int /\ b \in Nat \ {0} /\ c \in Int /\ d \in Nat \ {0}
      /\ e \in Int /\ f \in Nat \ {0}
  BY DEF Rationals
<1>2. a * d < c * b /\ ~ (e * d < c * f)
  BY DEF LessThan
<1> HIDE DEF a, b, c, d, e, f
<1>3. a * d \in Int /\ c * b \in Int /\ e * d \in Int /\ c * f \in Int /\ a * f \in Int /\ e * b \in Int
  BY <1>1
<1>4. ASSUME e * b <= a * f PROVE FALSE
  <2>1. c * f <= e * d
    BY <1>2, <1>3
  <2>2. /\ c * b <= a * d
        /\ c * b = a * d => c * f = e * d /\ e * b = a * f
    BY <1>1, <1>4, <2>1, CrossOrder
  <2>3. QED
    BY <1>2, <1>3, <2>2
<1>5. a * f < e * b
  BY <1>3, <1>4
<1>6. QED
  BY <1>5 DEF LessThan, a, b, e, f

(* Of two ratios only one is below the other.                              *)
LEMMA LessThanIsStrict ==
  ASSUME NEW r \in Rationals, NEW s \in Rationals, LessThan(r, s)
  PROVE  ~ LessThan(s, r)
<1>1. r[1] * s[2] \in Int /\ s[1] * r[2] \in Int
  BY DEF Rationals
<1>2. QED
  BY <1>1 DEF LessThan

-----------------------------------------------------------------------------
(* Recursions, and the weights of the grid: from polygon to whole numbers. *)

(* A function defined by recursion to one argument that is smaller.        *)
Descends(c, S, stop, base, next, combine) ==
  c = [w \in S |-> IF w \in stop THEN base[w] ELSE combine[<<w, c[next[w]]>>]]

(* Such a function exists, and its values are of the type that every step  *)
(* keeps.                                                                  *)
LEMMA Descent ==
  ASSUME NEW S, NEW len \in [S -> Nat], NEW stop, NEW next \in [S -> S],
         \A w \in S \ stop : len[next[w]] < len[w],
         NEW A, NEW base \in [S -> A],
         NEW combine, \A w \in S \ stop, x \in A : combine[<<w, x>>] \in A
  PROVE  /\ \E c : Descends(c, S, stop, base, next, combine)
         /\ \A c : Descends(c, S, stop, base, next, combine) => c \in [S -> A]
<1> DEFINE T(n) == {w \in S : len[w] <= n}
           Rule(h, w) == IF w \in stop THEN base[w] ELSE combine[<<w, h[next[w]]>>]
           Values(n, h) == h \in [T(n) -> A] /\ \A w \in T(n) : h[w] = Rule(h, w)
<1>1. \A w \in S : len[w] \in Nat /\ next[w] \in S /\ base[w] \in A
  OBVIOUS
<1>2. \A w \in S \ stop, x \in A : combine[<<w, x>>] \in A
  OBVIOUS
<1>3. \A n \in Nat : \E h : Values(n, h)
  <2> DEFINE N == {n \in Nat : \E h : Values(n, h)}
  <2>1. 0 \in N
    <3> DEFINE h == [w \in T(0) |-> base[w]]
    <3>1. \A w \in T(0) : w \in stop
      <4>1. ASSUME NEW w \in T(0), w \notin stop PROVE FALSE
        <5>1. len[next[w]] < len[w] /\ len[w] <= 0 /\ len[next[w]] \in Nat /\ len[w] \in Nat
          BY <1>1, <4>1
        <5>2. QED
          BY <5>1
      <4>2. QED
        BY <4>1
    <3>2. Values(0, h)
      BY <1>1, <3>1
    <3>3. QED
      BY <3>2
  <2>2. ASSUME NEW n \in N PROVE n + 1 \in N
    <3>1. PICK h : Values(n, h)
      OBVIOUS
    <3> DEFINE g == [w \in T(n + 1) |-> Rule(h, w)]
    <3>2. n \in Nat /\ T(n) \subseteq T(n + 1)
      <4>1. n \in Nat
        OBVIOUS
      <4>2. \A w \in S : len[w] <= n => len[w] <= n + 1
        BY <1>1, <4>1
      <4>3. QED
        BY <4>1, <4>2
    <3>3. ASSUME NEW w \in T(n + 1), w \notin stop PROVE next[w] \in T(n)
      <4>1. len[next[w]] < len[w] /\ len[w] <= n + 1 /\ len[next[w]] \in Nat /\ len[w] \in Nat
        BY <1>1, <3>3
      <4>2. len[next[w]] <= n
        BY <3>2, <4>1
      <4>3. QED
        BY <1>1, <4>2
    <3>4. \A w \in T(n) : g[w] = h[w]
      BY <3>1, <3>2
    <3>5. \A w \in T(n + 1) : g[w] \in A
      <4>1. TAKE w \in T(n + 1)
      <4>2. CASE w \in stop
        BY <1>1, <4>2
      <4>3. CASE w \notin stop
        <5>1. h[next[w]] \in A
          BY <3>1, <3>3, <4>3
        <5>2. QED
          BY <1>2, <4>3, <5>1
      <4>4. QED
        BY <4>2, <4>3
    <3>6. \A w \in T(n + 1) : g[w] = Rule(g, w)
      <4>1. TAKE w \in T(n + 1)
      <4>2. w \notin stop => g[next[w]] = h[next[w]]
        BY <3>3, <3>4
      <4>3. g[w] = Rule(h, w)
        OBVIOUS
      <4> HIDE DEF g
      <4>4. QED
        BY <4>2, <4>3
    <3>7. g \in [T(n + 1) -> A]
      <4>1. DOMAIN g = T(n + 1) /\ g = [w \in T(n + 1) |-> g[w]]
        OBVIOUS
      <4> HIDE DEF g
      <4>2. QED
        BY <3>5, <4>1
    <3>8. Values(n + 1, g)
      BY <3>6, <3>7
    <3> HIDE DEF g, Values
    <3>9. \E f : Values(n + 1, f)
      BY <3>8
    <3>10. n + 1 \in Nat
      BY <3>2
    <3>11. QED
      BY <3>9, <3>10
  <2>3. N = Nat
    <3>1. N \subseteq Nat
      OBVIOUS
    <3> HIDE DEF N
    <3>2. QED
      BY <2>1, <2>2, <3>1, Induction
  <2>4. QED
    BY <2>3
<1> DEFINE H(n) == CHOOSE h : Values(n, h)
<1>4. \A n \in Nat : Values(n, H(n))
  BY <1>3
<1>5. \A n \in Nat, w \in S : len[w] <= n => H(n)[w] \in A /\ H(n)[w] = Rule(H(n), w)
  BY <1>4
<1> HIDE DEF H
<1>6. \A w \in S, m, n \in Nat : len[w] <= m /\ len[w] <= n => H(m)[w] = H(n)[w]
  <2> DEFINE K == {k \in Nat : \A w \in S : len[w] <= k =>
                     \A m, n \in Nat : len[w] <= m /\ len[w] <= n => H(m)[w] = H(n)[w]}
  <2>1. ASSUME NEW w \in S, w \in stop, NEW m \in Nat, NEW n \in Nat, len[w] <= m, len[w] <= n
        PROVE  H(m)[w] = H(n)[w]
    <3>1. H(m)[w] = base[w] /\ H(n)[w] = base[w]
      BY <1>5, <2>1
    <3>2. QED
      BY <3>1
  <2>2. 0 \in K
    <3>1. \A w \in S : len[w] <= 0 => w \in stop
      <4>1. ASSUME NEW w \in S, w \notin stop, len[w] <= 0 PROVE FALSE
        <5>1. len[next[w]] < len[w] /\ len[next[w]] \in Nat /\ len[w] \in Nat
          BY <1>1, <4>1
        <5>2. QED
          BY <4>1, <5>1
      <4>2. QED
        BY <4>1
    <3>2. QED
      BY <2>1, <3>1
  <2>3. ASSUME NEW k \in K PROVE k + 1 \in K
    <3>1. k \in Nat
      OBVIOUS
    <3>2. ASSUME NEW w \in S, len[w] <= k + 1, NEW m \in Nat, NEW n \in Nat,
                 len[w] <= m, len[w] <= n
          PROVE  H(m)[w] = H(n)[w]
      <4>1. CASE w \in stop
        BY <2>1, <3>2, <4>1
      <4>2. CASE w \notin stop
        <5> DEFINE v == next[w]
        <5>1. v \in S /\ len[v] < len[w] /\ len[v] \in Nat /\ len[w] \in Nat
          BY <1>1, <4>2
        <5>2. len[v] <= k /\ len[v] <= m /\ len[v] <= n
          BY <3>1, <3>2, <5>1
        <5>3. H(m)[v] = H(n)[v]
          BY <5>1, <5>2
        <5>4. H(m)[w] = combine[<<w, H(m)[v]>>] /\ H(n)[w] = combine[<<w, H(n)[v]>>]
          BY <1>5, <3>2, <4>2
        <5>5. QED
          BY <5>3, <5>4
      <4>3. QED
        BY <4>1, <4>2
    <3>3. QED
      BY <3>1, <3>2
  <2>4. K = Nat
    <3>1. K \subseteq Nat
      OBVIOUS
    <3> HIDE DEF K
    <3>2. QED
      BY <2>2, <2>3, <3>1, Induction
  <2>5. TAKE w \in S, m, n \in Nat
  <2>6. len[w] \in K /\ len[w] <= len[w]
    <3>1. len[w] \in Nat
      BY <1>1
    <3> HIDE DEF K
    <3>2. QED
      BY <2>4, <3>1
  <2>7. QED
    BY <2>6
<1>7. \E c : Descends(c, S, stop, base, next, combine)
  <2> DEFINE c == [w \in S |-> H(len[w])[w]]
  <2>1. ASSUME NEW w \in S
        PROVE  c[w] = IF w \in stop THEN base[w] ELSE combine[<<w, c[next[w]]>>]
    <3>1. CASE w \in stop
      <4>1. len[w] \in Nat /\ len[w] <= len[w]
        BY <1>1
      <4>2. H(len[w])[w] = base[w]
        BY <1>5, <3>1, <4>1
      <4>3. QED
        BY <3>1, <4>2
    <3>2. CASE w \notin stop
      <4> DEFINE v == next[w]
                 n == len[w]
                 m == len[v]
      <4>1. v \in S /\ m < n /\ m \in Nat /\ n \in Nat
        BY <1>1, <3>2
      <4>2. H(n)[w] = combine[<<w, H(n)[v]>>]
        BY <1>5, <3>2, <4>1
      <4>3. H(n)[v] = H(m)[v]
        BY <1>6, <4>1
      <4>4. c[w] = H(n)[w] /\ c[v] = H(m)[v]
        BY <4>1
      <4>5. QED
        BY <3>2, <4>2, <4>3, <4>4
    <3>3. QED
      BY <3>1, <3>2
  <2>2. c = [w \in S |-> c[w]]
    OBVIOUS
  <2> HIDE DEF c
  <2>3. c = [w \in S |-> IF w \in stop THEN base[w] ELSE combine[<<w, c[next[w]]>>]]
    BY <2>1, <2>2
  <2>4. QED
    BY <2>3 DEF Descends
<1>8. ASSUME NEW c, Descends(c, S, stop, base, next, combine) PROVE c \in [S -> A]
  <2>1. /\ \A w \in S : c[w] = IF w \in stop THEN base[w] ELSE combine[<<w, c[next[w]]>>]
        /\ c = [w \in S |-> c[w]]
    <3> DEFINE body(w) == IF w \in stop THEN base[w] ELSE combine[<<w, c[next[w]]>>]
    <3>1. c = [w \in S |-> body(w)]
      BY <1>8 DEF Descends
    <3> HIDE DEF body
    <3>2. c = [w \in S |-> c[w]] /\ \A w \in S : c[w] = body(w)
      BY <3>1
    <3>3. QED
      BY <3>2 DEF body
  <2> DEFINE K == {k \in Nat : \A w \in S : len[w] <= k => c[w] \in A}
  <2>2. 0 \in K
    <3>1. ASSUME NEW w \in S, len[w] <= 0 PROVE c[w] \in A
      <4>1. w \in stop
        <5>1. ASSUME w \notin stop PROVE FALSE
          <6>1. len[next[w]] < len[w] /\ len[next[w]] \in Nat /\ len[w] \in Nat
            BY <1>1, <5>1
          <6>2. QED
            BY <3>1, <6>1
        <5>2. QED
          BY <5>1
      <4>2. QED
        BY <1>1, <2>1, <4>1
    <3>2. QED
      BY <3>1
  <2>3. ASSUME NEW k \in K PROVE k + 1 \in K
    <3>1. k \in Nat
      OBVIOUS
    <3>2. ASSUME NEW w \in S, len[w] <= k + 1 PROVE c[w] \in A
      <4>1. CASE w \in stop
        BY <1>1, <2>1, <4>1
      <4>2. CASE w \notin stop
        <5> DEFINE v == next[w]
        <5>1. v \in S /\ len[v] < len[w] /\ len[v] \in Nat /\ len[w] \in Nat
          BY <1>1, <4>2
        <5>2. len[v] <= k
          BY <3>1, <3>2, <5>1
        <5>3. c[v] \in A
          BY <5>1, <5>2
        <5>4. c[w] = combine[<<w, c[v]>>]
          BY <2>1, <4>2
        <5>5. QED
          BY <1>2, <4>2, <5>3, <5>4
      <4>3. QED
        BY <4>1, <4>2
    <3>3. QED
      BY <3>1, <3>2
  <2>4. K = Nat
    <3>1. K \subseteq Nat
      OBVIOUS
    <3> HIDE DEF K
    <3>2. QED
      BY <2>2, <2>3, <3>1, Induction
  <2>5. \A w \in S : c[w] \in A
    <3>1. TAKE w \in S
    <3>2. len[w] \in K /\ len[w] <= len[w]
      <4>1. len[w] \in Nat
        BY <1>1
      <4> HIDE DEF K
      <4>2. QED
        BY <2>4, <4>1
    <3>3. QED
      BY <3>2
  <2>6. QED
    BY <2>1, <2>5
<1>9. QED
  BY <1>7, <1>8

(* FlattenSeq gives a sequence of the elements of its sequences: every     *)
(* point that clip_axis appends is a point.                                *)
LEMMA FlattenFacts ==
  ASSUME NEW P, NEW seqs \in Seq(Seq(P))
  PROVE  FlattenSeq(seqs) \in Seq(P)
<1>1. CASE Len(seqs) = 0
  <2>1. seqs = <<>>
    BY <1>1
  <2>2. <<>> \in Seq(P)
    OBVIOUS
  <2>3. FlattenSeq(seqs) = seqs
    BY <1>1 DEF FlattenSeq
  <2>4. QED
    BY <2>1, <2>2, <2>3
<1>2. CASE Len(seqs) # 0
  <2> DEFINE n == Len(seqs)
             S == 1..n
             A == Seq(P)
             Rule(f, i) == IF i = 1 THEN seqs[i] ELSE f[i - 1] \o seqs[i]
             Solves(f) == f = [i \in S |-> Rule(f, i)]
             len == [i \in S |-> i]
             next == [i \in S |-> IF i = 1 THEN 1 ELSE i - 1]
             base == [i \in S |-> seqs[i]]
             combine(V) == [x \in S \X V |-> x[2] \o seqs[x[1]]]
             Good(c, V) == Descends(c, S, {1}, base, next, combine(V))
  <2>1. n \in Nat \ {0} /\ DOMAIN seqs = S /\ \A i \in S : seqs[i] \in A
    BY <1>2
  <2>2. /\ len \in [S -> Nat] /\ next \in [S -> S] /\ base \in [S -> A]
        /\ \A i \in S \ {1} : len[next[i]] < len[i]
        /\ \A i \in S : next[i] = IF i = 1 THEN 1 ELSE i - 1
    BY <2>1
  <2>3. \A V : \A i \in S, x \in V : combine(V)[<<i, x>>] = x \o seqs[i]
    OBVIOUS
  <2>4. \A x \in A, i \in S : x \o seqs[i] \in A
    BY <2>1
  <2>5. ASSUME NEW V, A \subseteq V
        PROVE  /\ \E c : Good(c, V)
               /\ \A c : Good(c, V) => c \in [S -> A]
    <3> DEFINE g == combine(V)
    <3>1. \A i \in S, x \in A : g[<<i, x>>] \in A
      <4>1. \A i \in S, x \in A : g[<<i, x>>] = x \o seqs[i]
        BY <2>3, <2>5
      <4>2. QED
        BY <2>4, <4>1
    <3> HIDE DEF g, len, next, base, S, A
    <3> DEFINE stop == {1}
    <3>2. \A i \in S \ stop : len[next[i]] < len[i]
      BY <2>2
    <3> HIDE DEF stop
    <3>3. /\ \E c : Descends(c, S, stop, base, next, g)
          /\ \A c : Descends(c, S, stop, base, next, g) => c \in [S -> A]
      BY <2>2, <3>1, <3>2, Descent
    <3>4. QED
      BY <3>3 DEF stop, g
  <2>6. ASSUME NEW V, NEW c, DOMAIN c = S, \A i \in S : c[i] \in V
        PROVE  Good(c, V) <=> Solves(c)
    <3> DEFINE Step(i) == IF i \in {1} THEN base[i] ELSE combine(V)[<<i, c[next[i]]>>]
    <3>1. ASSUME NEW i \in S PROVE Step(i) = Rule(c, i)
      <4>1. CASE i = 1
        BY <4>1
      <4>2. CASE i # 1
        <5>1. next[i] = i - 1 /\ next[i] \in S
          BY <2>2, <4>2
        <5>2. combine(V)[<<i, c[next[i]]>>] = c[next[i]] \o seqs[i]
          BY <2>3, <2>6, <5>1
        <5>3. QED
          BY <4>2, <5>1, <5>2
      <4>3. QED
        BY <4>1, <4>2
    <3>2. Good(c, V) <=> c = [i \in S |-> Step(i)]
      BY DEF Descends
    <3> HIDE DEF Step, Rule
    <3>3. [i \in S |-> Step(i)] = [i \in S |-> Rule(c, i)]
      BY <3>1
    <3>4. QED
      BY <3>2, <3>3
  <2>7. \E c : Solves(c)
    <3>1. PICK c : Good(c, A)
      BY <2>5
    <3>2. c \in [S -> A]
      BY <2>5, <3>1
    <3>3. DOMAIN c = S /\ \A i \in S : c[i] \in A
      BY <3>2
    <3> HIDE DEF Good, Solves
    <3>4. QED
      BY <2>6, <3>1, <3>3
  <2> DEFINE f == CHOOSE c : Solves(c)
  <2>8. Solves(f)
    BY <2>7
  <2>9. f \in [S -> A]
    <3> DEFINE V == A \cup {f[i] : i \in S}
    <3>1. A \subseteq V /\ \A i \in S : f[i] \in V
      OBVIOUS
    <3>2. DOMAIN f = S
      <4> HIDE DEF f, Rule
      <4>1. QED
        BY <2>8
    <3> HIDE DEF V, f, Good, Solves
    <3>3. Good(f, V)
      BY <2>6, <2>8, <3>1, <3>2
    <3>4. QED
      BY <2>5, <3>1, <3>3
  <2>10. FlattenSeq(seqs) = f[n]
    BY <1>2 DEF FlattenSeq
  <2>11. n \in S
    BY <2>1
  <2> HIDE DEF f, S, n, A
  <2>12. FlattenSeq(seqs) \in A
    BY <2>9, <2>10, <2>11
  <2>13. QED
    BY <2>12 DEF A
<1>3. QED
  BY <1>1, <1>2

(* Neighbours in a ring of points are points of it.                        *)
LEMMA NeighborFacts ==
  ASSUME NEW P, NEW w \in Seq(P), NEW i \in DOMAIN w
  PROVE  w[i] \in P /\ Previous(w, i) \in P /\ Following(w, i) \in P
<1>1. DOMAIN w = 1..Len(w) /\ Len(w) \in Nat /\ \A j \in 1..Len(w) : w[j] \in P
  OBVIOUS
<1>2. (IF i = 1 THEN Len(w) ELSE i - 1) \in 1..Len(w)
  BY <1>1
<1>3. (IF i = Len(w) THEN 1 ELSE i + 1) \in 1..Len(w)
  BY <1>1
<1>4. QED
  BY <1>1, <1>2, <1>3 DEF Previous, Following

(* intersection: an edge whose ends lie on two sides of a grid line is cut *)
(* at a point of the integer plane, by no division through zero.           *)
LEMMA CrossingFacts ==
  ASSUME NEW p \in Int \X Int, NEW q \in Int \X Int, NEW axis \in {1, 2},
         NEW bound \in Int, p[axis] # q[axis]
  PROVE  Crossing(p, q, axis, bound) \in Int \X Int
<1> DEFINE low == IF p[axis] < q[axis] THEN p ELSE q
           high == IF p[axis] < q[axis] THEN q ELSE p
           other == 3 - axis
           rise == (bound - low[axis]) * (high[other] - low[other])
           run == high[axis] - low[axis]
           value == low[other] + rise \div run
<1>1. other \in {1, 2}
  OBVIOUS
<1>2. \A j \in {1, 2} : p[j] \in Int /\ q[j] \in Int
  OBVIOUS
<1>3. \A j \in {1, 2} : low[j] \in Int /\ high[j] \in Int
  BY <1>2
<1>4. low[axis] < high[axis]
  BY <1>2
<1> HIDE DEF low, high, other
<1>5. run \in Nat \ {0}
  BY <1>3, <1>4
<1>6. rise \in Int
  BY <1>1, <1>3
<1> HIDE DEF rise, run
<1>7. rise \div run \in Int
  BY <1>5, <1>6, Quotient
<1> DEFINE quotient == rise \div run
<1>8. value \in Int
  <2>1. quotient \in Int /\ low[other] \in Int
    BY <1>1, <1>3, <1>7
  <2> HIDE DEF quotient
  <2>2. low[other] + quotient \in Int
    BY <2>1
  <2>3. QED
    BY <2>2 DEF quotient
<1>9. Crossing(p, q, axis, bound) = IF axis = 1 THEN <<bound, value>> ELSE <<value, bound>>
  BY DEF Crossing, low, high, other, rise, run
<1> HIDE DEF value
<1>10. QED
  BY <1>8, <1>9

(* clip_axis: a polygon cut along a grid line is a polygon.                *)
LEMMA ClipAxisFacts ==
  ASSUME NEW w \in Seq(Int \X Int), NEW axis \in {1, 2}, NEW bound \in Int,
         NEW greater \in BOOLEAN
  PROVE  ClipAxis(w, axis, bound, greater) \in Seq(Int \X Int)
<1> DEFINE Point == Int \X Int
           inside(p) == IF greater THEN p[axis] >= bound ELSE p[axis] <= bound
           cut(p, q) == IF inside(p) # inside(q) THEN <<Crossing(p, q, axis, bound)>> ELSE <<>>
           kept(q) == IF inside(q) THEN <<q>> ELSE <<>>
           step(p, q) == cut(p, q) \o kept(q)
           pieces == [i \in DOMAIN w |-> step(Previous(w, i), w[i])]
<1>1. ASSUME NEW p \in Point, NEW q \in Point PROVE step(p, q) \in Seq(Point)
  <2>1. cut(p, q) \in Seq(Point)
    <3>1. CASE inside(p) # inside(q)
      <4>1. p[axis] # q[axis]
        BY <3>1
      <4>2. Crossing(p, q, axis, bound) \in Point
        BY <4>1, CrossingFacts
      <4> HIDE DEF Point, inside
      <4>3. QED
        BY <3>1, <4>2
    <3>2. CASE ~(inside(p) # inside(q))
      <4> HIDE DEF Point, inside
      <4>1. cut(p, q) = <<>>
        BY <3>2
      <4> HIDE DEF cut
      <4>2. QED
        BY <4>1
    <3>3. QED
      BY <3>1, <3>2
  <2> HIDE DEF Point, inside, cut
  <2>2. kept(q) \in Seq(Point)
    OBVIOUS
  <2> HIDE DEF kept
  <2>3. QED
    BY <2>1, <2>2
<1> HIDE DEF Point
<1>2. \A i \in DOMAIN w : Previous(w, i) \in Point /\ w[i] \in Point
  BY NeighborFacts DEF Point
<1> HIDE DEF step
<1>3. pieces \in Seq(Seq(Point))
  <2>1. \A i \in DOMAIN w : pieces[i] \in Seq(Point)
    BY <1>1, <1>2
  <2>2. DOMAIN pieces = 1..Len(w) /\ Len(w) \in Nat /\ pieces = [i \in DOMAIN pieces |-> pieces[i]]
    OBVIOUS
  <2>3. DOMAIN w = 1..Len(w)
    OBVIOUS
  <2> DEFINE Target == Seq(Point)
             n == Len(w)
  <2> HIDE DEF pieces, Target
  <2>4. pieces \in [1..n -> Target]
    BY <2>1, <2>2, <2>3 DEF Target
  <2>5. n \in Nat
    BY <2>2
  <2> HIDE DEF n
  <2>6. pieces \in Seq(Target)
    BY <2>4, <2>5
  <2>7. QED
    BY <2>6 DEF Target
<1>4. FlattenSeq(pieces) \in Seq(Point)
  <2> HIDE DEF pieces
  <2>1. QED
    BY <1>3, FlattenFacts
<1>5. ClipAxis(w, axis, bound, greater) = FlattenSeq(pieces)
  BY DEF ClipAxis, step, cut, kept, inside
<1>6. QED
  BY <1>4, <1>5 DEF Point

(* clip_to_rectangle: a triangle clipped to a cell is a polygon.           *)
LEMMA ClippedFacts ==
  ASSUME NEW triangle \in Seq(Int \X Int), NEW corner \in Int \X Int
  PROVE  Clipped(triangle, corner) \in Seq(Int \X Int)
<1> DEFINE left == ClipAxis(triangle, 1, corner[1], TRUE)
           right == ClipAxis(left, 1, corner[1] + CellSize, FALSE)
           lower == ClipAxis(right, 2, corner[2], TRUE)
<1>1. /\ corner[1] \in Int /\ corner[1] + CellSize \in Int
      /\ corner[2] \in Int /\ corner[2] + CellSize \in Int
  BY GridAssumption
<1>2. 1 \in {1, 2} /\ 2 \in {1, 2} /\ TRUE \in BOOLEAN /\ FALSE \in BOOLEAN
  OBVIOUS
<1>3. left \in Seq(Int \X Int)
  BY <1>1, <1>2, ClipAxisFacts
<1> HIDE DEF left
<1>4. right \in Seq(Int \X Int)
  BY <1>1, <1>2, <1>3, ClipAxisFacts
<1> HIDE DEF right
<1>5. lower \in Seq(Int \X Int)
  BY <1>1, <1>2, <1>4, ClipAxisFacts
<1> HIDE DEF lower
<1>6. ClipAxis(lower, 2, corner[2] + CellSize, FALSE) \in Seq(Int \X Int)
  BY <1>1, <1>2, <1>5, ClipAxisFacts
<1>7. QED
  BY <1>6 DEF Clipped, left, right, lower

(* A sum of finitely many integers is one. *)
LEMMA TotalIsWhole ==
  ASSUME NEW S, IsFiniteSet(S), NEW f \in [S -> Int]
  PROVE  Total(f) \in Int
<1>1. \A x \in S : f[x] \in Int
  OBVIOUS
<1>2. Part(f, S) \in Int
  BY <1>1, PartFacts
<1>3. Total(f) = Part(f, S)
  BY SumIsPart
<1>4. QED
  BY <1>2, <1>3

(* bilinear_weights: the weights of a clipped cell are whole, in the unit  *)
(* the grid counts them in.                                                *)
LEMMA BilinearFacts ==
  ASSUME NEW clipped \in Seq(Int \X Int), NEW corner \in Int \X Int,
         NEW at \in {0, 1} \X {0, 1}
  PROVE  BilinearWeights(clipped, corner)[at] \in Int
<1> DEFINE n == Len(clipped)
           S == DOMAIN clipped
           w == [i \in S |-> <<clipped[i][1] - corner[1], clipped[i][2] - corner[2]>>]
           next == [i \in DOMAIN w |-> Following(w, i)]
           crosses == [i \in DOMAIN w |-> SignedCross(w, i)]
           total(value) == Total([i \in DOMAIN w |-> value[i] * SignedCross(w, i)])
           sum(axis) == [i \in DOMAIN w |-> w[i][axis] + next[i][axis]]
           mixed == [i \in DOMAIN w |-> 2 * w[i][1] * w[i][2] + w[i][1] * next[i][2]
                                  + next[i][1] * w[i][2] + 2 * next[i][1] * next[i][2]]
           area == 12 * CellSize * CellSize * Total(crosses)
           x == 4 * CellSize * total(sum(1))
           y == 4 * CellSize * total(sum(2))
           xy == total(mixed)
<1>1. n \in Nat /\ S = 1..n /\ DOMAIN w = S
  OBVIOUS
<1>2. IsFiniteSet(S)
  BY <1>1, FS_Interval
<1>3. \A i \in S : clipped[i] \in Int \X Int
  OBVIOUS
<1>4. w \in Seq(Int \X Int)
  <2>1. \A i \in S : w[i] \in Int \X Int
    BY <1>3
  <2>2. w = [i \in S |-> w[i]]
    OBVIOUS
  <2> HIDE DEF w
  <2>3. w \in [1..n -> Int \X Int]
    BY <1>1, <2>1, <2>2
  <2> HIDE DEF n
  <2>4. QED
    BY <1>1, <2>3
<1>5. BilinearWeights(clipped, corner) =
         IF Len(w) < 3 \/ area <= 0 THEN [c \in {0, 1} \X {0, 1} |-> 0]
         ELSE [c \in {0, 1} \X {0, 1} |->
                 IF c = <<0, 0>> THEN area - x - y + xy
                 ELSE IF c = <<1, 1>> THEN xy
                 ELSE (IF c = <<1, 0>> THEN x ELSE y) - xy]
  BY Zenon DEF BilinearWeights, DoubledArea
<1> HIDE DEF w, n
<1>6. \A i \in S : w[i] \in Int \X Int /\ Following(w, i) \in Int \X Int
  BY <1>1, <1>4, NeighborFacts
<1>7. \A i \in S : /\ w[i][1] \in Int /\ w[i][2] \in Int
                   /\ Following(w, i)[1] \in Int /\ Following(w, i)[2] \in Int
  BY <1>6
<1>8. \A i \in S : /\ w[i][1] \in Int /\ w[i][2] \in Int
                   /\ next[i][1] \in Int /\ next[i][2] \in Int
  BY <1>1, <1>7
<1>9. crosses \in [S -> Int] /\ \A i \in S : SignedCross(w, i) \in Int
  <2>1. ASSUME NEW i \in S PROVE SignedCross(w, i) \in Int
    <3> DEFINE a == w[i][1] * Following(w, i)[2]
               b == Following(w, i)[1] * w[i][2]
    <3>1. a \in Int /\ b \in Int
      BY <1>7, ProductsAreIntegers
    <3>2. SignedCross(w, i) = a - b
      BY DEF SignedCross
    <3> HIDE DEF a, b
    <3>3. QED
      BY <3>1, <3>2
  <2>2. QED
    BY <1>1, <2>1
<1> HIDE DEF next, S
<1>10. sum(1) \in [S -> Int] /\ sum(2) \in [S -> Int]
  BY <1>1, <1>8
<1>11. mixed \in [S -> Int]
  <2>1. \A a, b, c, d \in Int : 2 * a * b + a * d + c * b + 2 * c * d \in Int
    <3>1. TAKE a, b, c, d \in Int
    <3> DEFINE ab == a * b
               ad == a * d
               cb == c * b
               cd == c * d
    <3>2. ab \in Int /\ ad \in Int /\ cb \in Int /\ cd \in Int
      OBVIOUS
    <3>3. 2 * a * b = 2 * ab /\ 2 * c * d = 2 * cd
      OBVIOUS
    <3> HIDE DEF ab, ad, cb, cd
    <3>4. 2 * ab + ad + cb + 2 * cd \in Int
      BY <3>2
    <3>5. QED
      BY <3>3, <3>4 DEF ad, cb
  <2>2. \A i \in S : mixed[i] \in Int
    <3>1. TAKE i \in S
    <3>2. mixed[i] = 2 * w[i][1] * w[i][2] + w[i][1] * next[i][2]
                       + next[i][1] * w[i][2] + 2 * next[i][1] * next[i][2]
      BY <1>1
    <3> DEFINE a == w[i][1]
               b == w[i][2]
               c == next[i][1]
               d == next[i][2]
    <3>3. a \in Int /\ b \in Int /\ c \in Int /\ d \in Int
      BY <1>8
    <3>4. mixed[i] = 2 * a * b + a * d + c * b + 2 * c * d
      BY <3>2
    <3> HIDE DEF a, b, c, d, mixed
    <3>5. QED
      BY <2>1, <3>3, <3>4
  <2>3. mixed = [i \in S |-> mixed[i]]
    BY <1>1
  <2> HIDE DEF mixed
  <2>4. QED
    BY <2>2, <2>3
<1>12. ASSUME NEW value \in [S -> Int] PROVE total(value) \in Int
  <2> DEFINE products == [i \in DOMAIN w |-> value[i] * SignedCross(w, i)]
  <2>1. \A i \in S : value[i] \in Int /\ SignedCross(w, i) \in Int
    BY <1>9
  <2>2. products \in [S -> Int]
    BY <1>1, <2>1
  <2> HIDE DEF products
  <2>3. Total(products) \in Int
    BY <1>1, <1>2, <2>2, TotalIsWhole
  <2>4. QED
    BY <2>3 DEF products
<1> HIDE DEF sum, mixed, total, crosses
<1>13. total(sum(1)) \in Int /\ total(sum(2)) \in Int /\ total(mixed) \in Int
  BY <1>10, <1>11, <1>12
<1>14. Total(crosses) \in Int
  BY <1>2, <1>9, TotalIsWhole
<1>15. area \in Int /\ x \in Int /\ y \in Int /\ xy \in Int
  <2> DEFINE scale == 12 * CellSize * CellSize
             part == 4 * CellSize
             whole == Total(crosses)
             left == total(sum(1))
             right == total(sum(2))
  <2>1. scale \in Int /\ part \in Int
    <3>1. CellSize \in Int /\ 12 * CellSize \in Int
      BY GridAssumption
    <3>2. (12 * CellSize) * CellSize \in Int
      BY Zenon, <3>1, ProductsAreIntegers
    <3>3. QED
      BY <3>1, <3>2
  <2>2. whole \in Int /\ left \in Int /\ right \in Int
    BY Zenon, <1>13, <1>14
  <2> HIDE DEF scale, part, whole, left, right
  <2>3. scale * whole \in Int /\ part * left \in Int /\ part * right \in Int
    BY Zenon, <2>1, <2>2, ProductsAreIntegers
  <2>4. area = scale * whole /\ x = part * left /\ y = part * right
    BY Zenon DEF scale, part, whole, left, right
  <2>5. xy \in Int
    BY Zenon, <1>13
  <2> HIDE DEF area, x, y, xy
  <2>6. QED
    BY Zenon, <2>3, <2>4, <2>5
<1> HIDE DEF area, x, y, xy
<1>16. at = <<0, 0>> \/ at = <<1, 0>> \/ at = <<0, 1>> \/ at = <<1, 1>>
  OBVIOUS
<1>17. area - x - y + xy \in Int /\ x - xy \in Int /\ y - xy \in Int
  BY <1>15
<1>18. QED
  BY <1>5, <1>15, <1>16, <1>17

(* A finite set of integers has a k-th element.                            *)
LEMMA RankedElement ==
  ASSUME NEW S \in SUBSET Int, IsFiniteSet(S), NEW k \in 1..Cardinality(S)
  PROVE  \E i \in S : Cardinality({j \in S : j < i}) = k - 1
<1> DEFINE order == {pair \in S \X S : pair[1] < pair[2]}
           Below(x) == {j \in S : j < x}
           count(x) == Cardinality(Below(x))
           n == Cardinality(S)
<1>1. /\ \A x, y \in S : <<x, y>> \in order <=> x < y
      /\ \A x \in S : x \in Int
  OBVIOUS
<1>2. StrictOrder(S, order)
  <2> HIDE DEF order
  <2>1. QED
    BY <1>1 DEF StrictOrder
<1>3. n \in Nat /\ k \in 0..n /\ k - 1 \in 0..n
  <2>1. n \in Nat
    BY FS_CardinalityType
  <2> HIDE DEF n
  <2>2. k \in 1..n
    BY DEF n
  <2>3. QED
    BY <2>1, <2>2
<1>4. \A x \in S : {y \in S : <<y, x>> \in order} = Below(x)
  <2> HIDE DEF order
  <2>1. QED
    BY <1>1
<1>5. \A m : Ranked(S, order, m) = {x \in S : count(x) < m}
  <2> HIDE DEF order
  <2>1. QED
    BY <1>4 DEF Ranked
<1>6. \A m \in 0..n : Cardinality(Ranked(S, order, m)) = m
  <2> HIDE DEF order
  <2>1. QED
    BY <1>2, RankedCount
<1>7. \A x \in S : count(x) \in Nat
  <2>1. \A x \in S : Below(x) \in SUBSET S
    OBVIOUS
  <2> HIDE DEF Below
  <2>2. QED
    BY <2>1, FS_Subset, FS_CardinalityType
<1> HIDE DEF order, count, n
<1>8. \E i \in S : count(i) = k - 1
  <2>1. SUFFICES ASSUME \A i \in S : count(i) # k - 1 PROVE FALSE
    OBVIOUS
  <2>2. \A i \in S : count(i) < k <=> count(i) < k - 1
    BY <1>3, <1>7, <2>1
  <2>3. {x \in S : count(x) < k} = {x \in S : count(x) < k - 1}
    BY <2>2
  <2>4. Ranked(S, order, k) = Ranked(S, order, k - 1)
    BY <1>5, <2>3
  <2>5. k = k - 1
    BY <1>3, <1>6, <2>4
  <2>6. QED
    BY <1>3, <2>5
<1>9. QED
  BY <1>8 DEF count

(* A function on the first n numbers is a sequence of that length.         *)
LEMMA SequenceOf ==
  ASSUME NEW A, NEW n \in Nat, NEW s \in [1..n -> A]
  PROVE  s \in Seq(A) /\ Len(s) = n
OBVIOUS

(* Some points of a ring, in its order.                                    *)
LEMMA FewerFacts ==
  ASSUME NEW P, NEW u \in Seq(P), NEW bends \in SUBSET (DOMAIN u), NEW v,
         v = [k \in 1..Cardinality(bends) |->
                u[CHOOSE i \in bends : Cardinality({j \in bends : j < i}) = k - 1]]
  PROVE  /\ v \in Seq(P)
         /\ bends # DOMAIN u => Len(v) < Len(u)
<1> DEFINE n == Cardinality(bends)
           bend(k) == CHOOSE i \in bends : Cardinality({j \in bends : j < i}) = k - 1
<1>1. DOMAIN u = 1..Len(u) /\ Len(u) \in Nat /\ \A i \in DOMAIN u : u[i] \in P
  OBVIOUS
<1>2. IsFiniteSet(DOMAIN u) /\ Cardinality(DOMAIN u) = Len(u)
  <2> DEFINE m == Len(u)
  <2>1. m \in Nat /\ DOMAIN u = 1..m
    BY <1>1
  <2> HIDE DEF m
  <2>2. IsFiniteSet(1..m) /\ Cardinality(1..m) = IF 1 > m THEN 0 ELSE m - 1 + 1
    BY <2>1, FS_Interval
  <2>3. Cardinality(1..m) = m
    BY <2>1, <2>2
  <2>4. QED
    BY <2>1, <2>2, <2>3 DEF m
<1>3. IsFiniteSet(bends) /\ n \in Nat /\ n <= Len(u) /\ (n = Len(u) => bends = DOMAIN u)
  BY <1>2, FS_Subset, FS_CardinalityType
<1>4. bends \in SUBSET Int
  BY <1>1
<1>5. \A k \in 1..n : bend(k) \in bends
  <2>1. \A k \in 1..n : \E i \in bends : Cardinality({j \in bends : j < i}) = k - 1
    BY <1>3, <1>4, RankedElement
  <2>2. QED
    BY <2>1
<1>6. v = [k \in 1..n |-> u[bend(k)]]
  OBVIOUS
<1> HIDE DEF n, bend
<1>7. \A k \in 1..n : u[bend(k)] \in P
  BY <1>1, <1>5
<1>8. v \in [1..n -> P]
  BY <1>6, <1>7
<1>9. v \in Seq(P) /\ Len(v) = n
  BY <1>3, <1>8, SequenceOf
<1>10. bends # DOMAIN u => n < Len(u)
  <2> DEFINE m == Len(u)
  <2>1. n \in Nat /\ m \in Nat /\ n <= m /\ (n = m => bends = DOMAIN u)
    BY <1>1, <1>3
  <2> HIDE DEF m
  <2>2. bends # DOMAIN u => n < m
    BY <2>1
  <2>3. QED
    BY <2>2 DEF m
<1>11. QED
  BY <1>9, <1>10

(* triangulate first leaves out the vertices on straight lines: a ring of  *)
(* points is left.                                                         *)
LEMMA SimplifiedFacts ==
  ASSUME NEW w \in Seq(Int \X Int)
  PROVE  Simplified(w) \in Seq(Int \X Int)
<1> DEFINE S == Seq(Int \X Int)
           bends(u) == {i \in DOMAIN u : Cross(Previous(u, i), u[i], Following(u, i)) # 0}
           bend(u, k) == CHOOSE i \in bends(u) : Cardinality({j \in bends(u) : j < i}) = k - 1
           fewer(u) == [k \in 1..Cardinality(bends(u)) |-> u[bend(u, k)]]
           Rule(f, u) == IF Len(u) <= 3 \/ bends(u) = DOMAIN u THEN u ELSE f[fewer(u)]
           Solves(f) == f = [u \in S |-> Rule(f, u)]
           stop == {u \in S : Len(u) <= 3 \/ bends(u) = DOMAIN u}
           len == [u \in S |-> Len(u)]
           next == [u \in S |-> fewer(u)]
           base == [u \in S |-> u]
           combine(V) == [x \in S \X V |-> x[2]]
           Good(c, V) == Descends(c, S, stop, base, next, combine(V))
           start == IF DoubledArea(w) < 0 THEN Reverse(w) ELSE w
           f == CHOOSE c : Solves(c)
<1>1. Simplified(w) = f[start]
  BY Zenon DEF Simplified
<1>2. \A u \in S : fewer(u) \in S /\ (u \notin stop => Len(fewer(u)) < Len(u))
  <2>1. TAKE u \in S
  <2> DEFINE B == bends(u)
             v == fewer(u)
             P == Int \X Int
  <2>2. B \in SUBSET (DOMAIN u)
    OBVIOUS
  <2>3. v = [k \in 1..Cardinality(B) |->
               u[CHOOSE i \in B : Cardinality({j \in B : j < i}) = k - 1]]
    BY Zenon
  <2>4. u \in Seq(P) /\ (u \notin stop => B # DOMAIN u)
    OBVIOUS
  <2> HIDE DEF B, v, P
  <2>5. v \in Seq(P) /\ (B # DOMAIN u => Len(v) < Len(u))
    BY <2>2, <2>3, <2>4, FewerFacts
  <2>6. QED
    BY <2>4, <2>5 DEF v, P
<1>3. \A u \in S : Len(u) \in Nat
  OBVIOUS
<1>4. \A u \in S : u \in stop <=> (Len(u) <= 3 \/ bends(u) = DOMAIN u)
  OBVIOUS
<1> HIDE DEF fewer, bends, stop
<1>5. /\ len \in [S -> Nat] /\ next \in [S -> S] /\ base \in [S -> S]
      /\ \A u \in S \ stop : len[next[u]] < len[u]
      /\ \A u \in S : next[u] = fewer(u) /\ base[u] = u
  BY <1>2, <1>3
<1>6. \A V : \A u \in S, x \in V : combine(V)[<<u, x>>] = x
  OBVIOUS
<1> HIDE DEF len, next, base, combine, S
<1>7. ASSUME NEW V, S \subseteq V
      PROVE  /\ \E c : Good(c, V)
             /\ \A c : Good(c, V) => c \in [S -> S]
  <2> DEFINE g == combine(V)
  <2>1. \A u \in S, x \in S : g[<<u, x>>] \in S
    BY <1>6, <1>7
  <2> HIDE DEF g
  <2>2. /\ \E c : Descends(c, S, stop, base, next, g)
        /\ \A c : Descends(c, S, stop, base, next, g) => c \in [S -> S]
    BY <1>5, <2>1, Descent
  <2>3. QED
    BY <2>2 DEF g
<1>8. ASSUME NEW V, NEW c, DOMAIN c = S, \A u \in S : c[u] \in V
      PROVE  Good(c, V) <=> Solves(c)
  <2> DEFINE Step(u) == IF u \in stop THEN base[u] ELSE combine(V)[<<u, c[next[u]]>>]
  <2>1. ASSUME NEW u \in S PROVE Step(u) = Rule(c, u)
    <3>1. next[u] \in S /\ next[u] = fewer(u) /\ base[u] = u
      BY <1>5
    <3>2. combine(V)[<<u, c[next[u]]>>] = c[next[u]]
      BY <1>6, <1>8, <3>1
    <3>3. QED
      BY <1>4, <3>1, <3>2
  <2>2. Good(c, V) <=> c = [u \in S |-> Step(u)]
    BY DEF Descends
  <2> HIDE DEF Step, Rule
  <2>3. [u \in S |-> Step(u)] = [u \in S |-> Rule(c, u)]
    BY <2>1
  <2>4. QED
    BY <2>2, <2>3
<1>9. \E c : Solves(c)
  <2>1. PICK c : Good(c, S)
    BY <1>7
  <2>2. c \in [S -> S]
    BY <1>7, <2>1
  <2>3. DOMAIN c = S /\ \A u \in S : c[u] \in S
    BY <2>2
  <2> HIDE DEF Good, Solves
  <2>4. QED
    BY <1>8, <2>1, <2>3
<1>10. Solves(f)
  BY <1>9
<1>11. f \in [S -> S]
  <2> DEFINE V == S \cup {f[u] : u \in S}
  <2>1. S \subseteq V /\ \A u \in S : f[u] \in V
    OBVIOUS
  <2>2. DOMAIN f = S
    <3> HIDE DEF f, Rule
    <3>1. QED
      BY <1>10
  <2> HIDE DEF V, f, Good, Solves
  <2>3. Good(f, V)
    BY <1>8, <1>10, <2>1, <2>2
  <2>4. QED
    BY <1>7, <2>1, <2>3
<1>12. start \in S
  <2>1. Reverse(w) \in Seq(Int \X Int)
    <3> DEFINE P == Int \X Int
               n == Len(w)
               r == [i \in 1..n |-> w[(n - i) + 1]]
    <3>1. n \in Nat /\ \A i \in 1..n : w[i] \in P
      OBVIOUS
    <3> HIDE DEF n, P
    <3>2. \A i \in 1..n : (n - i) + 1 \in 1..n
      BY <3>1
    <3>3. r \in [1..n -> P]
      BY <3>1, <3>2
    <3> HIDE DEF r
    <3>4. r \in Seq(P)
      BY <3>1, <3>3
    <3>5. QED
      BY <3>4 DEF r, n, P, Reverse
  <2>2. QED
    BY <2>1 DEF S
<1> HIDE DEF f, start
<1>13. f[start] \in S
  BY <1>11, <1>12
<1>14. QED
  BY <1>1, <1>13 DEF S

(* A ring without one of its points.                                       *)
LEMMA RemoveAtFacts ==
  ASSUME NEW P, NEW w \in Seq(P), NEW i \in DOMAIN w
  PROVE  RemoveAt(w, i) \in Seq(P) /\ Len(RemoveAt(w, i)) < Len(w)
<1> DEFINE n == Len(w)
           before == SubSeq(w, 1, i - 1)
           after == SubSeq(w, i + 1, n)
<1>1. n \in Nat /\ i \in 1..n
  OBVIOUS
<1>2. before \in Seq(P) /\ Len(before) = i - 1
  BY <1>1
<1>3. after \in Seq(P) /\ Len(after) = n - i
  BY <1>1
<1>4. RemoveAt(w, i) = before \o after
  BY DEF RemoveAt
<1> HIDE DEF before, after
<1>5. before \o after \in Seq(P) /\ Len(before \o after) = Len(before) + Len(after)
  <2>1. before \in Seq(P) /\ after \in Seq(P)
    BY Zenon, <1>2, <1>3
  <2>2. QED
    BY Zenon, <2>1, ConcatProperties
<1> HIDE DEF n
<1>6. (i - 1) + (n - i) < n
  BY <1>1
<1>7. QED
  BY <1>2, <1>3, <1>4, <1>5, <1>6 DEF n

(* triangulate: finitely many triangles, of points of the boundary's plane.*)
LEMMA TrianglesFacts ==
  ASSUME NEW boundary \in Seq(Int \X Int)
  PROVE  IsFiniteSet(Triangles(boundary)) /\ Triangles(boundary) \subseteq Seq(Int \X Int)
<1> DEFINE P == Int \X Int
           S == Seq(P)
           A == {T \in SUBSET S : IsFiniteSet(T)}
           ears(w) == {i \in DOMAIN w : Ear(w, i)}
           ear(w) == Min(ears(w))
           cutOff(w) == <<Previous(w, ear(w)), w[ear(w)], Following(w, ear(w))>>
           left(w) == RemoveAt(w, ear(w))
           Rule(f, w) ==
             IF Len(w) = 3 THEN {w}
             ELSE IF Len(w) < 3 \/ ears(w) = {} THEN {}
             ELSE IF f[left(w)] = {} THEN {}
             ELSE {cutOff(w)} \cup f[left(w)]
           Solves(f) == f = [w \in S |-> Rule(f, w)]
           stop == {w \in S : Len(w) <= 3 \/ ears(w) = {}}
           len == [w \in S |-> Len(w)]
           next == [w \in S |-> IF w \in stop THEN w ELSE left(w)]
           base == [w \in S |-> IF Len(w) = 3 THEN {w} ELSE {}]
           combine(V) == [x \in S \X V |-> IF x[2] = {} THEN {} ELSE {cutOff(x[1])} \cup x[2]]
           Good(c, V) == Descends(c, S, stop, base, next, combine(V))
           start == Simplified(boundary)
           f == CHOOSE c : Solves(c)
<1>1. Triangles(boundary) = f[start]
  BY Zenon DEF Triangles
<1>2. \A w \in S : Len(w) \in Nat /\ DOMAIN w \subseteq Nat
  OBVIOUS
<1>3. \A w \in S : w \notin stop => /\ left(w) \in S /\ Len(left(w)) < Len(w)
                                    /\ cutOff(w) \in S
  <2>1. SUFFICES ASSUME NEW w \in S, w \notin stop
                 PROVE  left(w) \in S /\ Len(left(w)) < Len(w) /\ cutOff(w) \in S
    BY Zenon
  <2> DEFINE i == ear(w)
  <2>2. ears(w) # {} /\ ears(w) \subseteq Nat /\ ears(w) \subseteq DOMAIN w
    BY <1>2, <2>1
  <2>3. i \in DOMAIN w
    <3> HIDE DEF ears
    <3>1. Min(ears(w)) \in ears(w)
      BY <2>2, LeastNumber
    <3>2. QED
      BY <2>2, <3>1
  <2>4. w \in Seq(P) /\ left(w) = RemoveAt(w, i)
        /\ cutOff(w) = <<Previous(w, i), w[i], Following(w, i)>>
    BY Zenon, <2>1
  <2> HIDE DEF i, P, left, cutOff
  <2>5. left(w) \in Seq(P) /\ Len(left(w)) < Len(w)
    BY <2>3, <2>4, RemoveAtFacts
  <2>6. Previous(w, i) \in P /\ w[i] \in P /\ Following(w, i) \in P
    BY <2>3, <2>4, NeighborFacts
  <2>7. cutOff(w) \in Seq(P)
    BY <2>4, <2>6
  <2>8. QED
    BY <2>5, <2>7
<1>4. \A w \in S : w \in stop <=> (Len(w) <= 3 \/ ears(w) = {})
  OBVIOUS
<1>5. /\ {} \in A /\ \A w \in S : {w} \in A
      /\ \A w \in S, T \in A : {w} \cup T \in A
  <2>1. IsFiniteSet({}) /\ \A w : IsFiniteSet({w})
    BY FS_EmptySet, FS_Singleton
  <2> HIDE DEF S
  <2>2. \A w \in S, T \in A : IsFiniteSet({w} \cup T)
    BY <2>1, FS_Union
  <2>3. QED
    BY <2>1, <2>2
<1> HIDE DEF left, cutOff, ears, stop, A
<1>6. /\ len \in [S -> Nat] /\ next \in [S -> S] /\ base \in [S -> A]
      /\ \A w \in S \ stop : len[next[w]] < len[w]
      /\ \A w \in S : /\ w \notin stop => next[w] = left(w)
                      /\ base[w] = IF Len(w) = 3 THEN {w} ELSE {}
  <2> HIDE DEF S
  <2>1. len \in [S -> Nat] /\ \A w \in S : len[w] = Len(w)
    BY <1>2
  <2>2. next \in [S -> S] /\ \A w \in S : w \notin stop => next[w] = left(w)
    BY <1>3
  <2>3. base \in [S -> A] /\ \A w \in S : base[w] = IF Len(w) = 3 THEN {w} ELSE {}
    BY <1>5
  <2> HIDE DEF len, next, base
  <2>4. \A w \in S \ stop : len[next[w]] < len[w]
    BY <1>3, <2>1, <2>2
  <2>5. QED
    BY <2>1, <2>2, <2>3, <2>4
<1>7. \A V : \A w \in S, x \in V :
        combine(V)[<<w, x>>] = IF x = {} THEN {} ELSE {cutOff(w)} \cup x
  OBVIOUS
<1> HIDE DEF len, next, base, combine, S
<1>8. ASSUME NEW V, A \subseteq V
      PROVE  /\ \E c : Good(c, V)
             /\ \A c : Good(c, V) => c \in [S -> A]
  <2> DEFINE g == combine(V)
  <2>1. \A w \in S \ stop, x \in A : g[<<w, x>>] \in A
    <3>1. TAKE w \in S \ stop, x \in A
    <3>2. g[<<w, x>>] = IF x = {} THEN {} ELSE {cutOff(w)} \cup x
      <4>1. w \in S /\ x \in V
        BY <1>8
      <4> HIDE DEF g
      <4>2. QED
        BY <4>1 DEF g, combine
    <3>3. cutOff(w) \in S
      BY <1>3
    <3>4. {} \in A /\ {cutOff(w)} \cup x \in A
      BY <1>5, <3>3
    <3> HIDE DEF g
    <3>5. QED
      BY <3>2, <3>4
  <2> HIDE DEF g
  <2>2. /\ \E c : Descends(c, S, stop, base, next, g)
        /\ \A c : Descends(c, S, stop, base, next, g) => c \in [S -> A]
    BY <1>6, <2>1, Descent
  <2>3. QED
    BY <2>2 DEF g
<1>9. ASSUME NEW V, NEW c, DOMAIN c = S, \A w \in S : c[w] \in V
      PROVE  Good(c, V) <=> Solves(c)
  <2> DEFINE Step(w) == IF w \in stop THEN base[w] ELSE combine(V)[<<w, c[next[w]]>>]
  <2>1. ASSUME NEW w \in S PROVE Step(w) = Rule(c, w)
    <3>1. CASE w \in stop
      <4>1. base[w] = IF Len(w) = 3 THEN {w} ELSE {}
        BY <1>6
      <4>2. Len(w) # 3 => Len(w) < 3 \/ ears(w) = {}
        <5> DEFINE n == Len(w)
                   none == ears(w) = {}
        <5>1. n \in Nat /\ (n <= 3 \/ none)
          BY <1>2, <1>4, <3>1
        <5> HIDE DEF n, none
        <5>2. n # 3 => n < 3 \/ none
          BY <5>1
        <5>3. QED
          BY <5>2 DEF n, none
      <4>3. QED
        BY <3>1, <4>1, <4>2
    <3>2. CASE w \notin stop
      <4>1. next[w] \in S /\ next[w] = left(w)
        BY <1>6, <3>2
      <4>2. combine(V)[<<w, c[next[w]]>>]
              = IF c[next[w]] = {} THEN {} ELSE {cutOff(w)} \cup c[next[w]]
        <5> DEFINE x == c[next[w]]
        <5>1. x \in V /\ w \in S
          BY <1>9, <4>1
        <5> HIDE DEF x
        <5>2. combine(V)[<<w, x>>] = IF x = {} THEN {} ELSE {cutOff(w)} \cup x
          BY <5>1 DEF combine
        <5>3. QED
          BY <5>2 DEF x
      <4>3. Len(w) # 3 /\ ~(Len(w) < 3 \/ ears(w) = {})
        <5> DEFINE n == Len(w)
                   none == ears(w) = {}
        <5>1. n \in Nat /\ ~(n <= 3 \/ none)
          BY <1>2, <1>4, <3>2
        <5> HIDE DEF n, none
        <5>2. n # 3 /\ ~(n < 3 \/ none)
          BY <5>1
        <5>3. QED
          BY <5>2 DEF n, none
      <4>4. QED
        BY <3>2, <4>1, <4>2, <4>3
    <3>3. QED
      BY <3>1, <3>2
  <2>2. Good(c, V) <=> c = [w \in S |-> Step(w)]
    BY DEF Descends
  <2> HIDE DEF Step, Rule
  <2>3. [w \in S |-> Step(w)] = [w \in S |-> Rule(c, w)]
    BY <2>1
  <2>4. QED
    BY <2>2, <2>3
<1>10. \E c : Solves(c)
  <2>1. PICK c : Good(c, A)
    BY <1>8
  <2>2. c \in [S -> A]
    BY <1>8, <2>1
  <2>3. DOMAIN c = S /\ \A w \in S : c[w] \in A
    BY <2>2
  <2> HIDE DEF Good, Solves
  <2>4. QED
    BY <1>9, <2>1, <2>3
<1>11. Solves(f)
  BY <1>10
<1>12. f \in [S -> A]
  <2> DEFINE V == A \cup {f[w] : w \in S}
  <2>1. A \subseteq V /\ \A w \in S : f[w] \in V
    OBVIOUS
  <2>2. DOMAIN f = S
    <3> HIDE DEF f, Rule
    <3>1. QED
      BY <1>11
  <2> HIDE DEF V, f, Good, Solves
  <2>3. Good(f, V)
    BY <1>9, <1>11, <2>1, <2>2
  <2>4. QED
    BY <1>8, <2>1, <2>3
<1>13. start \in S
  BY SimplifiedFacts DEF S
<1> HIDE DEF f, start
<1>14. f[start] \in A
  BY <1>12, <1>13
<1>15. QED
  BY <1>1, <1>14 DEF A, S

(* volume_weights: a node's weight is a whole number, in the unit the grid *)
(* counts the weights in, whatever the boundary.                           *)
THEOREM WeightsAreWhole ==
  ASSUME NEW boundary \in Seq(Int \X Int), Len(boundary) > 0, NEW node \in Nodes(boundary)
  PROVE  NodeWeight(boundary, node) \in Int
<1> DEFINE corners == {0, 1} \X {0, 1}
           cells == {<<node[1] - at[1], node[2] - at[2]>> : at \in corners}
           jobs == Triangles(boundary) \X cells
           corner(cell) == Position(boundary, cell)
           away(cell) == <<node[1] - cell[1], node[2] - cell[2]>>
           part(triangle, cell) ==
             BilinearWeights(Clipped(triangle, corner(cell)), corner(cell))[away(cell)]
           parts == [job \in jobs |-> part(job[1], job[2])]
<1>1. node[1] \in Int /\ node[2] \in Int
  <2>1. node \in Int \X Int
    BY NodesFacts
  <2>2. QED
    BY <2>1
<1>2. /\ IsFiniteSet(cells)
      /\ \A cell \in cells : cell \in Int \X Int /\ away(cell) \in corners
  <2>1. cells = {<<node[1] - 0, node[2] - 0>>, <<node[1] - 0, node[2] - 1>>,
                 <<node[1] - 1, node[2] - 0>>, <<node[1] - 1, node[2] - 1>>}
    <3> DEFINE move(at) == <<node[1] - at[1], node[2] - at[2]>>
    <3>1. corners = {<<0, 0>>, <<0, 1>>, <<1, 0>>, <<1, 1>>}
      OBVIOUS
    <3>2. /\ move(<<0, 0>>) = <<node[1] - 0, node[2] - 0>>
          /\ move(<<0, 1>>) = <<node[1] - 0, node[2] - 1>>
          /\ move(<<1, 0>>) = <<node[1] - 1, node[2] - 0>>
          /\ move(<<1, 1>>) = <<node[1] - 1, node[2] - 1>>
      OBVIOUS
    <3> HIDE DEF move, corners
    <3>3. {move(at) : at \in corners}
            = {move(<<0, 0>>), move(<<0, 1>>), move(<<1, 0>>), move(<<1, 1>>)}
      BY <3>1
    <3>4. QED
      BY <3>2, <3>3 DEF move
  <2> DEFINE a == <<node[1] - 0, node[2] - 0>>
             b == <<node[1] - 0, node[2] - 1>>
             c == <<node[1] - 1, node[2] - 0>>
             d == <<node[1] - 1, node[2] - 1>>
  <2>2. IsFiniteSet(cells)
    <3>1. cells = ({a} \cup {b}) \cup ({c} \cup {d})
      BY <2>1
    <3> HIDE DEF a, b, c, d, cells
    <3>2. \A x : IsFiniteSet({x})
      BY FS_Singleton
    <3>3. QED
      BY <3>1, <3>2, FS_Union
  <2>3. \A cell \in cells : cell \in Int \X Int
    BY <1>1
  <2>4. ASSUME NEW cell \in cells PROVE away(cell) \in corners
    <3>1. PICK at \in corners : cell = <<node[1] - at[1], node[2] - at[2]>>
      OBVIOUS
    <3>2. at[1] \in {0, 1} /\ at[2] \in {0, 1}
      OBVIOUS
    <3>3. cell[1] = node[1] - at[1] /\ cell[2] = node[2] - at[2]
      BY <3>1
    <3>4. node[1] - cell[1] = at[1] /\ node[2] - cell[2] = at[2]
      BY <1>1, <3>2, <3>3
    <3>5. QED
      BY <3>2, <3>4
  <2>5. QED
    BY <2>2, <2>3, <2>4
<1>3. \A cell \in cells : corner(cell) \in Int \X Int
  BY <1>2, NodesFacts
<1>4. IsFiniteSet(jobs) /\ \A job \in jobs : job[1] \in Seq(Int \X Int) /\ job[2] \in cells
  <2> DEFINE T == Triangles(boundary)
  <2>1. IsFiniteSet(T) /\ T \subseteq Seq(Int \X Int)
    BY TrianglesFacts
  <2> HIDE DEF T, cells
  <2>2. IsFiniteSet(T \X cells)
    BY <1>2, <2>1, FS_Product
  <2>3. \A job \in T \X cells : job[1] \in Seq(Int \X Int) /\ job[2] \in cells
    BY <2>1
  <2>4. QED
    BY <2>2, <2>3 DEF T
<1> HIDE DEF jobs, cells, corner, away, corners
<1>5. \A job \in jobs : part(job[1], job[2]) \in Int
  <2>1. TAKE job \in jobs
  <2> DEFINE triangle == job[1]
             cell == job[2]
             clipped == Clipped(triangle, corner(cell))
  <2>2. triangle \in Seq(Int \X Int) /\ cell \in cells
    BY <1>4
  <2> HIDE DEF triangle, cell
  <2>3. corner(cell) \in Int \X Int /\ away(cell) \in {0, 1} \X {0, 1}
    BY <1>2, <1>3, <2>2 DEF corners
  <2>4. clipped \in Seq(Int \X Int)
    BY <2>2, <2>3, ClippedFacts
  <2> HIDE DEF clipped
  <2>5. BilinearWeights(clipped, corner(cell))[away(cell)] \in Int
    BY <2>3, <2>4, BilinearFacts
  <2>6. QED
    BY <2>5 DEF clipped, triangle, cell
<1>6. NodeWeight(boundary, node) = Total(parts)
  BY Zenon DEF NodeWeight, jobs, cells, corners, corner, away
<1>7. parts \in [jobs -> Int]
  <2> HIDE DEF part
  <2>1. QED
    BY <1>5
<1> HIDE DEF parts
<1>8. Total(parts) \in Int
  BY <1>4, <1>7, TotalIsWhole
<1>9. QED
  BY <1>6, <1>8
=============================================================================
