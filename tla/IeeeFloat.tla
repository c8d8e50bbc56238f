----------------------------- MODULE IeeeFloat -----------------------------
(***************************************************************************)
(* What IEEE 754 asks of arithmetic on binary numbers of any size: the     *)
(* exact result, rounded once.  An exact magnitude is a root of a quotient *)
(* num / den * 2^e, and is only ever compared with a number, never         *)
(* computed; magnitudes of numbers are ordered as their bits are, with     *)
(* infinity next to the last.                                              *)
(***************************************************************************)
LOCAL INSTANCE Integers

CONSTANTS MantSize, ExpSize

LOCAL Bias == 2 ^ (ExpSize - 1) - 1
LOCAL Stored(a) == a % (2 ^ MantSize)
Exponent(a) == (a \div (2 ^ MantSize)) % (2 ^ ExpSize)
Negative(a) == IF a >= 2 ^ (MantSize + ExpSize) THEN 1 ELSE 0
Magnitude(a) == a % (2 ^ (MantSize + ExpSize))
Inf == (2 ^ ExpSize - 1) * 2 ^ MantSize
NotANumber(a) == Magnitude(a) > Inf
Finite(a) == Magnitude(a) < Inf

\* A magnitude is Significand * 2 ^ Place.
Significand(a) == IF Exponent(a) = 0 THEN Stored(a) ELSE Stored(a) + 2 ^ MantSize
Place(a) == (IF Exponent(a) = 0 THEN 1 ELSE Exponent(a)) - Bias - MantSize

LOCAL Length(n) == CHOOSE k \in 0 .. 31 : n < 2 ^ k /\ (k = 0 \/ 2 ^ (k - 1) <= n)

\* Whether x * 2^e < y * 2^f, without the powers where the lengths tell.
Less(x, e, y, f) ==
    CASE y = 0 -> FALSE
      [] x = 0 /\ y # 0 -> TRUE
      [] x # 0 /\ y # 0 ->
           LET lx == Length(x) + e
               ly == Length(y) + f
           IN lx < ly \/ (lx = ly /\ IF e >= f THEN x * 2 ^ (e - f) < y ELSE x < y * 2 ^ (f - e))

Exact(num, den, e, root) == [num |-> num, den |-> den, e |-> e, root |-> root]

Below(m, e, x) == Less(m ^ x.root * x.den, x.root * e, x.num, x.e)
Above(m, e, x) == Less(x.num, x.e, m ^ x.root * x.den, x.root * e)

BelowExact(c, x) == Below(Significand(c), Place(c), x)
AboveExact(c, x) == c = Inf \/ Above(Significand(c), Place(c), x)

\* Half way from c to the next.
MidBelow(c, x) == Below(2 * Significand(c) + 1, Place(c) - 1, x)
MidAbove(c, x) == Above(2 * Significand(c) + 1, Place(c) - 1, x)

\* c is what the exact magnitude x of that sign rounds to.
RoundsTo(x, sign, c, mode) ==
    LET away == (mode = "RUP" /\ sign = 0) \/ (mode = "RDN" /\ sign = 1)
        even == c % 2 = 0
    IN CASE mode \in {"RNE", "RMM"} ->
              /\ c > 0 => IF even \/ mode = "RMM" THEN ~MidAbove(c - 1, x) ELSE MidBelow(c - 1, x)
              /\ c < Inf => IF even /\ mode = "RNE" THEN ~MidBelow(c, x) ELSE MidAbove(c, x)
         [] mode \notin {"RNE", "RMM"} /\ away ->
              ~(c < Inf /\ BelowExact(c, x)) /\ (c > 0 => BelowExact(c - 1, x))
         [] mode \notin {"RNE", "RMM"} /\ ~away ->
              c < Inf /\ ~AboveExact(c, x) /\ AboveExact(c + 1, x)

\* r is the rounded result of that sign.
IsRounded(r, x, sign, mode) ==
    /\ Magnitude(r) <= Inf /\ Negative(r) = sign
    /\ RoundsTo(x, sign, Magnitude(r), mode)

SignOfProduct(a, b) == IF Negative(a) = Negative(b) THEN 0 ELSE 1
IsInf(r, sign) == Magnitude(r) = Inf /\ Negative(r) = sign
IsNil(r, sign) == Magnitude(r) = 0 /\ Negative(r) = sign

Signed(a, low) == (1 - 2 * Negative(a)) * Significand(a) * 2 ^ (Place(a) - low)

IsSum(r, a, b, mode) ==
    LET low == IF Place(a) < Place(b) THEN Place(a) ELSE Place(b)
        n == Signed(a, low) + Signed(b, low)
    IN IF ~Finite(a) \/ ~Finite(b)
       THEN IF \/ NotANumber(a) \/ NotANumber(b)
               \/ ~Finite(a) /\ ~Finite(b) /\ Negative(a) # Negative(b)
            THEN NotANumber(r)
            ELSE IsInf(r, IF Finite(a) THEN Negative(b) ELSE Negative(a))
       ELSE IF n = 0
       THEN IsNil(r, IF Negative(a) = Negative(b) THEN Negative(a)
                     ELSE IF mode = "RDN" THEN 1 ELSE 0)
       ELSE IsRounded(r, Exact(IF n < 0 THEN -n ELSE n, 1, low, 1), IF n < 0 THEN 1 ELSE 0, mode)

IsProduct(r, a, b, mode) ==
    IF NotANumber(a) \/ NotANumber(b) THEN NotANumber(r)
    ELSE IF ~Finite(a) \/ ~Finite(b)
    THEN IF 0 \in {Magnitude(a), Magnitude(b)} THEN NotANumber(r)
         ELSE IsInf(r, SignOfProduct(a, b))
    ELSE IsRounded(r, Exact(Significand(a) * Significand(b), 1, Place(a) + Place(b), 1),
                   SignOfProduct(a, b), mode)

IsQuotient(r, a, b, mode) ==
    IF NotANumber(a) \/ NotANumber(b) \/ (~Finite(a) /\ ~Finite(b)) \/
       (Magnitude(a) = 0 /\ Magnitude(b) = 0) THEN NotANumber(r)
    ELSE IF ~Finite(a) \/ Magnitude(b) = 0 THEN IsInf(r, SignOfProduct(a, b))
    ELSE IF ~Finite(b) THEN IsNil(r, SignOfProduct(a, b))
    ELSE IsRounded(r, Exact(Significand(a), Significand(b), Place(a) - Place(b), 1),
                   SignOfProduct(a, b), mode)

IsSqrt(r, a, mode) ==
    IF NotANumber(a) \/ (Negative(a) = 1 /\ Magnitude(a) # 0) THEN NotANumber(r)
    ELSE IF ~Finite(a) \/ Magnitude(a) = 0 THEN r = a
    ELSE IsRounded(r, Exact(Significand(a), 1, Place(a), 2), 0, mode)

\* a times 2 ^ n.
IsScaled(r, a, n, mode) ==
    IF NotANumber(a) THEN NotANumber(r)
    ELSE IF ~Finite(a) THEN r = a
    ELSE IsRounded(r, Exact(Significand(a), 1, Place(a) + n, 1), Negative(a), mode)

\* The integer n of that sign is what a rounds to; ties as mode says, RMMUP's go up.
IsInteger(n, a, mode) ==
    LET x == Exact(Significand(a), 1, Place(a), 1)
        away == (mode = "RUP" /\ Negative(a) = 0) \/ (mode = "RDN" /\ Negative(a) = 1)
        up == CASE mode = "RNE" -> n % 2 = 0 [] mode = "RMM" -> TRUE
                [] mode = "RMMUP" -> Negative(a) = 0 [] OTHER -> FALSE
        down == CASE mode = "RNE" -> n % 2 = 0 [] mode = "RMM" -> FALSE
                  [] mode = "RMMUP" -> Negative(a) = 1 [] OTHER -> FALSE
    IN IF mode \in {"RNE", "RMM", "RMMUP"}
       THEN /\ n > 0 => IF up THEN ~Above(2 * n - 1, -1, x) ELSE Below(2 * n - 1, -1, x)
            /\ IF down THEN ~Below(2 * n + 1, -1, x) ELSE Above(2 * n + 1, -1, x)
       ELSE IF away THEN ~Below(n, 0, x) /\ (n > 0 => Below(n - 1, 0, x))
       ELSE ~Above(n, 0, x) /\ Above(n + 1, 0, x)
=============================================================================
