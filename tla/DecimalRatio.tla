---------------------------- MODULE DecimalRatio ----------------------------
(***************************************************************************)
(* decimal_ratio.rs: the ratio of two decimal numbers, kept exactly, and   *)
(* its multiples, rounded once to simulation time.  A decimal number is    *)
(* the integer of its rendered digits and the power of ten they stand for; *)
(* a tick stands for the distance of two neighbouring values of f64.       *)
(***************************************************************************)
EXTENDS Integers

TenTo[n \in Nat] == IF n = 0 THEN 1 ELSE 10 * TenTo[n - 1]
Power(exponent) == IF exponent > 0 THEN TenTo[exponent] ELSE 1

(* decimal_parts: trailing zeros move to the exponent; zero has no parts,  *)
(* and the callers below are only given numbers other than zero.           *)
TrailingZeros(digits) ==
  CHOOSE n \in 0..digits : digits % TenTo[n] = 0 /\ digits % TenTo[n + 1] # 0
DecimalParts(d) ==
  LET zeros == TrailingZeros(d.digits)
  IN [digits |-> d.digits \div TenTo[zeros], exponent |-> d.exponent + zeros]

(* gcd. *)
Gcd(left, right) ==
  LET common == {c \in 1..left : left % c = 0 /\ right % c = 0}
  IN CHOOSE c \in common : \A other \in common : other <= c

(* from_decimal_f64s. *)
PositiveRatio(numerator, denominator) ==
  LET n == DecimalParts(numerator)
      d == DecimalParts(denominator)
      common == Gcd(n.digits, d.digits)
      exponent == n.exponent - d.exponent
  IN [numerator |-> (n.digits \div common) * Power(exponent),
      denominator |-> (d.digits \div common) * Power(-exponent)]

(* multiple_to_f64: the multiple is formed exactly and rounded once, half  *)
(* to even (rounded_scaled_quotient).                                      *)
RoundedMultiple(ratio, multiplier) ==
  LET product == ratio.numerator * multiplier
      quotient == product \div ratio.denominator
      twice == 2 * (product % ratio.denominator)
  IN IF twice > ratio.denominator \/ (twice = ratio.denominator /\ quotient % 2 = 1)
     THEN quotient + 1 ELSE quotient
=============================================================================
