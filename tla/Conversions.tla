---------------------------- MODULE Conversions ----------------------------
(***************************************************************************)
(* What the code makes of an amount or a phone number on its way out: the  *)
(* fee it shows to a donor, the shillings it asks of M-Pesa, the number it *)
(* pushes the payment to.  Amounts are in minor units.  The module has no  *)
(* state.                                                                  *)
(***************************************************************************)
EXTENDS Integers, Sequences, SequenceTheorems, TLAPS

\* Python's round of n / d: to the nearest integer, to the even one of two.  The
\* code divides floating-point numbers; for an amount that fits the Integer
\* columns the error is too small to matter, and in a tie the quotient is exact.
Round(n, d) ==
  LET q == n \div d
      r == n % d
  IN IF 2 * r < d \/ (2 * r = d /\ q % 2 = 0) THEN q ELSE q + 1

FeeFixedMinor(currency) ==
  IF currency = "KES" THEN 0 ELSE IF currency = "GBP" THEN 25 ELSE 30

\* 3.9 % of the amount.
FeeShare(amount) == Round(39 * amount, 1000)

EstimateCoverFee(amount, currency) == FeeShare(amount) + FeeFixedMinor(currency)

\* "Amount" of an STK push.
Shillings(amount) == Round(amount, 100)

Digits == 0..9

Refused == "ValueError"

\* normalize_phone of a number that is left with these digits.
NormalizePhone(digits) ==
  IF Len(digits) = 12 /\ digits[1] = 2 /\ digits[2] = 5 /\ digits[3] = 4 THEN digits
  ELSE IF Len(digits) = 10 /\ digits[1] = 0 /\ digits[2] \in {1, 7}
  THEN <<2, 5, 4>> \o Tail(digits)
  ELSE IF Len(digits) = 9 /\ digits[1] \in {1, 7} THEN <<2, 5, 4>> \o digits
  ELSE Refused

-----------------------------------------------------------------------------
(***************************************************************************)
(* Theorems.                                                               *)
(***************************************************************************)

\* The quotient and the remainder by a divisor of this module.
LEMMA Division ==
  ASSUME NEW n \in Nat, NEW d \in {100, 1000}
  PROVE  /\ n \div d \in Nat /\ n % d \in 0..(d - 1)
         /\ n = d * (n \div d) + (n % d)
<1>1. CASE d = 100
  BY <1>1, SMT
<1>2. CASE d = 1000
  BY <1>2, SMT
<1> QED BY <1>1, <1>2

LEMMA Rounding ==
  ASSUME NEW n \in Nat, NEW d \in {100, 1000}
  PROVE  /\ Round(n, d) \in Nat
         /\ 2 * (d * Round(n, d)) <= 2 * n + d
         /\ 2 * n <= 2 * (d * Round(n, d)) + d
<1> DEFINE q == n \div d
<1> DEFINE r == n % d
<1>1. q \in Nat /\ r \in 0..(d - 1) /\ n = d * q + r
  BY Division
<1>2. Round(n, d) = IF 2 * r < d \/ (2 * r = d /\ q % 2 = 0) THEN q ELSE q + 1
  BY DEF Round
<1> HIDE DEF q, r
<1>3. \/ Round(n, d) = q /\ 2 * r <= d
      \/ Round(n, d) = q + 1 /\ 2 * r >= d
  BY <1>1, <1>2, SMT
<1>4. CASE d = 100
  BY <1>1, <1>3, <1>4, SMT
<1>5. CASE d = 1000
  BY <1>1, <1>3, <1>5, SMT
<1> QED BY <1>4, <1>5

\* The fee shown is the fixed part and what is within half a cent of 3.9 %
\* (services/fx.py).
THEOREM FeeIsNearest ==
  ASSUME NEW amount \in Nat
  PROVE  /\ FeeShare(amount) \in Nat
         /\ 1000 * FeeShare(amount) <= 39 * amount + 500
         /\ 39 * amount <= 1000 * FeeShare(amount) + 500
<1> DEFINE n == 39 * amount
<1>1. n \in Nat
  BY SMT
<1>2. FeeShare(amount) = Round(n, 1000)
  BY DEF FeeShare
<1> HIDE DEF n
<1>3. /\ FeeShare(amount) \in Nat
      /\ 2 * (1000 * FeeShare(amount)) <= 2 * n + 1000
      /\ 2 * n <= 2 * (1000 * FeeShare(amount)) + 1000
  BY <1>1, <1>2, Rounding
<1>4. 1000 * FeeShare(amount) <= n + 500 /\ n <= 1000 * FeeShare(amount) + 500
  BY <1>1, <1>3, SMT
<1> QED BY <1>3, <1>4 DEF n

\* A larger gift is never shown a smaller fee.
THEOREM FeeGrows ==
  ASSUME NEW a \in Nat, NEW b \in Nat, a <= b, NEW currency
  PROVE  EstimateCoverFee(a, currency) <= EstimateCoverFee(b, currency)
<1>1. FeeFixedMinor(currency) \in Nat
  BY DEF FeeFixedMinor
<1>2. /\ FeeShare(a) \in Nat /\ 1000 * FeeShare(a) <= 39 * a + 500
      /\ FeeShare(b) \in Nat /\ 39 * b <= 1000 * FeeShare(b) + 500
  BY FeeIsNearest
<1>3. CASE a = b
  BY <1>1, <1>2, <1>3, SMT DEF EstimateCoverFee
<1>4. CASE a < b
  BY <1>1, <1>2, <1>4, SMT DEF EstimateCoverFee
<1> QED BY <1>3, <1>4, SMT

\* M-Pesa is asked for an amount within fifty cents of the gift that is written
\* to the ledger, and for nothing at all exactly when the gift is of fifty cents
\* or less, which the schema of the request accepts (mpesa_provider.py:102).
THEOREM ShillingsAreNearest ==
  ASSUME NEW amount \in Nat
  PROVE  /\ Shillings(amount) \in Nat
         /\ 100 * Shillings(amount) <= amount + 50
         /\ amount <= 100 * Shillings(amount) + 50
         /\ Shillings(amount) = 0 <=> amount <= 50
BY Division, SMT DEF Shillings, Round

\* A number that is accepted becomes twelve digits behind 254, and is accepted
\* unchanged the next time: the number kept of a donor may be normalised again.
THEOREM PhoneIsNormal ==
  ASSUME NEW digits \in Seq(Digits), NormalizePhone(digits) # Refused
  PROVE  /\ NormalizePhone(digits) \in Seq(Digits)
         /\ Len(NormalizePhone(digits)) = 12
         /\ NormalizePhone(NormalizePhone(digits)) = NormalizePhone(digits)
<1> DEFINE full == Len(digits) = 12 /\ digits[1] = 2 /\ digits[2] = 5 /\ digits[3] = 4
<1> DEFINE normal == NormalizePhone(digits)
<1>1. /\ normal \in Seq(Digits) /\ Len(normal) = 12
      /\ normal[1] = 2 /\ normal[2] = 5 /\ normal[3] = 4
  <2>1. ASSUME NEW rest \in Seq(Digits), Len(rest) = 9, normal = <<2, 5, 4>> \o rest
        PROVE  /\ normal \in Seq(Digits) /\ Len(normal) = 12
               /\ normal[1] = 2 /\ normal[2] = 5 /\ normal[3] = 4
    <3> DEFINE code == <<2, 5, 4>>
    <3>1. /\ code \in Seq(Digits) /\ Len(code) = 3
          /\ code[1] = 2 /\ code[2] = 5 /\ code[3] = 4
      BY SMT DEF Digits
    <3> HIDE DEF code
    <3> DEFINE whole == code \o rest
    <3>2. /\ whole \in Seq(Digits) /\ Len(whole) = Len(code) + Len(rest)
          /\ \A i \in 1..(Len(code) + Len(rest)) :
               whole[i] = IF i <= Len(code) THEN code[i] ELSE rest[i - Len(code)]
      BY <2>1, <3>1, ConcatProperties, Zenon
    <3>3. normal = whole
      BY <2>1 DEF code
    <3> HIDE DEF whole
    <3>4. Len(whole) = 12 /\ whole[1] = 2 /\ whole[2] = 5 /\ whole[3] = 4
      BY <2>1, <3>1, <3>2, SMT
    <3> QED BY <3>2, <3>3, <3>4
  <2>2. CASE full
    BY <2>2 DEF NormalizePhone
  <2>3. CASE ~full /\ Len(digits) = 10 /\ digits[1] = 0 /\ digits[2] \in {1, 7}
    <3>1. normal = <<2, 5, 4>> \o Tail(digits)
      BY <2>3 DEF NormalizePhone
    <3>2. Tail(digits) \in Seq(Digits) /\ Len(Tail(digits)) = 9
      <4>1. digits # << >>
        BY <2>3, Len(<< >>) = 0, 0 # 10
      <4> QED BY <2>3, <4>1, HeadTailProperties, SMT
    <3> QED BY <2>1, <3>1, <3>2
  <2>4. CASE ~full /\ Len(digits) = 9 /\ digits[1] \in {1, 7}
    <3>1. normal = <<2, 5, 4>> \o digits
      BY <2>4, SMT DEF NormalizePhone
    <3> QED BY <2>1, <2>4, <3>1
  <2> QED BY <2>2, <2>3, <2>4 DEF NormalizePhone
<1>2. NormalizePhone(normal) = normal
  BY <1>1 DEF NormalizePhone
<1> QED BY <1>1, <1>2
=============================================================================
