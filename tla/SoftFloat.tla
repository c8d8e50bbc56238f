----------------------------- MODULE SoftFloat -----------------------------
(***************************************************************************)
(* Binary floating point in integers (mquickjs/softfp_template.h): numbers *)
(* are FSize bits, a sign, ExpSize bits of exponent and MantSize bits of   *)
(* mantissa, and an instance of this module is one inclusion of the        *)
(* template.  A signed integer of a conversion has its own width.          *)
(***************************************************************************)
EXTENDS Integers

CONSTANTS FSize, MantSize, ExpSize

ASSUME SoftFloatAssumption ==
    /\ {FSize, MantSize, ExpSize} \subseteq Nat
    /\ FSize = 1 + ExpSize + MantSize
    /\ ExpSize >= 5                        \* room for add_sf's three extra bits

ExpMask == 2 ^ ExpSize - 1
MantMask == 2 ^ MantSize - 1
SignMask == 2 ^ (FSize - 1)
IMantSize == FSize - 2
RndSize == IMantSize - MantSize
ExpBias == 2 ^ (ExpSize - 1) - 1
QNaN == ExpMask * 2 ^ MantSize + 2 ^ (MantSize - 1)
Numbers == 0 .. 2 ^ FSize - 1

Modes == {"RNE", "RTZ", "RDN", "RUP", "RMM"}

Pack(sign, exp, mant) == sign * SignMask + exp * 2 ^ MantSize + (mant % (2 ^ MantSize))
Sign(a) == a \div SignMask
Exp(a) == (a \div (2 ^ MantSize)) % (2 ^ ExpSize)
Mant(a) == a % (2 ^ MantSize)
Abs(a) == a % SignMask
Infinite(sign) == Pack(sign, ExpMask, 0)
IsNaN(a) == Exp(a) = ExpMask /\ Mant(a) # 0
IsZero(a) == Abs(a) = 0

\* The zeros before the first bit of a, in size bits: of 0, what the processor's
\* instruction gives.
Clz(size, a) == size - (CHOOSE n \in 0 .. size : a < 2 ^ n /\ (n = 0 \/ 2 ^ (n - 1) <= a))

\* Faulty variant of Sticky: bits shifted out are forgotten.
Truncated(a, d) == a \div (2 ^ d)

\* a shifted right, its last bit set if a bit that is set was shifted out.
Sticky(a, d) ==
    LET q == a \div (2 ^ d) IN IF a % (2 ^ d) # 0 /\ q % 2 = 0 THEN q + 1 ELSE q

\* rshift_rnd
RShiftRnd(a, d) ==
    IF d < FSize THEN Sticky(a, d) ELSE IF a # 0 THEN 1 ELSE 0

\* What rounding adds to the bits it drops.
Addend(sign, rm) ==
    CASE rm \in {"RNE", "RMM"} -> 2 ^ (RndSize - 1)
      [] rm = "RTZ" -> 0
      [] rm = "RDN" -> IF sign = 1 THEN 2 ^ RndSize - 1 ELSE 0
      [] rm = "RUP" -> IF sign = 0 THEN 2 ^ RndSize - 1 ELSE 0

\* A mantissa without its rounding bits; half way, to even.
Rounded(sign, mant, rm) ==
    LET m == (mant + Addend(sign, rm)) \div (2 ^ RndSize)
    IN IF rm = "RNE" /\ mant % (2 ^ RndSize) = 2 ^ (RndSize - 1) THEN m - (m % 2) ELSE m

\* round_pack_sf: mant has its first bit at FSize - 2.
RoundPack(sign, exp, mant, rm) ==
    LET m == Rounded(sign, IF exp <= 0 THEN RShiftRnd(mant, 1 - exp) ELSE mant, rm)
        e == (IF exp <= 0 THEN 1 ELSE exp) + m \div (2 ^ (MantSize + 1))
    IN CASE m <= MantMask -> Pack(sign, 0, m)
         [] m > MantMask /\ e < ExpMask -> Pack(sign, e, m)
         [] m > MantMask /\ e >= ExpMask ->
              IF Addend(sign, rm) = 0 THEN Pack(sign, ExpMask - 1, MantMask) ELSE Infinite(sign)

\* normalize_sf: mant has at most FSize - 1 bits.
Normalize(sign, exp, mant, rm) ==
    LET shift == Clz(FSize, mant) - (FSize - 1 - IMantSize)
    IN RoundPack(sign, exp - shift, mant * 2 ^ shift, rm)

\* The exponent and the mantissa of a number that is not 0, the mantissa with its
\* first bit: normalize_subnormal_sf, or the bit that is not stored.
Unpacked(a) ==
    LET shift == MantSize - (FSize - 1 - Clz(FSize, Mant(a)))
    IN IF Exp(a) = 0 THEN [exp |-> 1 - shift, mant |-> Mant(a) * 2 ^ shift]
       ELSE [exp |-> Exp(a), mant |-> Mant(a) + 2 ^ MantSize]

\* The mantissa as it is: that of a subnormal has no bit that is not stored.
Whole(a) == IF Exp(a) = 0 THEN Mant(a) ELSE Mant(a) + 2 ^ MantSize
Scale(a) == IF Exp(a) = 0 THEN 1 ELSE Exp(a)

\* add_sf of |x| >= |y|.
AddOrdered(x, y, rm) ==
    LET my == RShiftRnd(Whole(y) * 8, Scale(x) - Scale(y))
        m == IF Sign(x) = Sign(y) THEN Whole(x) * 8 + my ELSE Whole(x) * 8 - my
        sign == IF m = 0 /\ Sign(x) # Sign(y) THEN IF rm = "RDN" THEN 1 ELSE 0 ELSE Sign(x)
    IN IF Exp(x) = ExpMask
       THEN IF Mant(x) # 0 \/ (Exp(y) = ExpMask /\ Sign(x) # Sign(y)) THEN QNaN ELSE x
       ELSE Normalize(sign, Scale(x) + RndSize - 3, m, rm)

Add(a, b, rm) == IF Abs(a) < Abs(b) THEN AddOrdered(b, a, rm) ELSE AddOrdered(a, b, rm)

Negated(a) == (a + SignMask) % (2 ^ FSize)

Sub(a, b, rm) == Add(a, Negated(b), rm)

SignOf(a, b) == (Sign(a) + Sign(b)) % 2

\* mul_sf; mul_u's two words are one product, whose low word is only sticky.
Mul(a, b, rm) ==
    LET sign == SignOf(a, b)
        ua == Unpacked(a)
        ub == Unpacked(b)
        m == Sticky(ua.mant * 2 ^ RndSize * (ub.mant * 2 ^ (RndSize + 1)), FSize)
    IN CASE IsNaN(a) \/ IsNaN(b) -> QNaN
         [] ~(IsNaN(a) \/ IsNaN(b)) /\ ExpMask \in {Exp(a), Exp(b)} ->
              IF IsZero(a) \/ IsZero(b) THEN QNaN ELSE Infinite(sign)
         [] ExpMask \notin {Exp(a), Exp(b)} ->
              IF IsZero(a) \/ IsZero(b) THEN Pack(sign, 0, 0)
              ELSE Normalize(sign, ua.exp + ub.exp - 2 ^ (ExpSize - 1) + 2, m, rm)

\* div_sf
Div(a, b, rm) ==
    LET sign == SignOf(a, b)
        ua == Unpacked(a)
        ub == Unpacked(b)
        q == (ua.mant * 2 ^ FSize) \div (ub.mant * 4)
        rest == (ua.mant * 2 ^ FSize) % (ub.mant * 4)
        m == IF rest # 0 /\ q % 2 = 0 THEN q + 1 ELSE q
    IN CASE Exp(a) = ExpMask ->
              IF Mant(a) # 0 \/ Exp(b) = ExpMask THEN QNaN ELSE Infinite(sign)
         [] Exp(a) # ExpMask /\ Exp(b) = ExpMask -> IF IsNaN(b) THEN QNaN ELSE Pack(sign, 0, 0)
         [] ExpMask \notin {Exp(a), Exp(b)} ->
              CASE IsZero(b) -> IF IsZero(a) THEN QNaN ELSE Infinite(sign)
                [] IsZero(a) /\ ~IsZero(b) -> Pack(sign, 0, 0)
                [] ~IsZero(a) /\ ~IsZero(b) ->
                     Normalize(sign, ua.exp - ub.exp + 2 ^ (ExpSize - 1) - 1, m, rm)

\* sqrtrem_u: Newton's method from above, until it no longer falls.
RECURSIVE Newton(_, _)
Newton(a, u) == LET v == (a \div u + u) \div 2 IN IF v >= u THEN u ELSE Newton(a, v)

SqrtRem(a) ==
    LET s == Newton(a, 2 ^ ((2 * FSize - Clz(2 * FSize, a - 1) + 1) \div 2))
    IN IF a = 0 THEN 0 ELSE IF s * s # a /\ s % 2 = 0 THEN s + 1 ELSE s

\* sqrt_sf
Sqrt(a, rm) ==
    LET u == Unpacked(a)
        e == u.exp - ExpMask \div 2
        odd == e % 2
        m == u.mant * 2 ^ odd * 2 ^ (FSize - 4 - MantSize)
    IN CASE IsNaN(a) -> QNaN
         [] IsZero(a) -> a
         [] ~IsNaN(a) /\ ~IsZero(a) /\ Sign(a) = 1 -> QNaN
         [] a = Infinite(0) -> a
         [] Abs(a) \in 1 .. Infinite(0) - 1 /\ Sign(a) = 0 ->
              Normalize(0, (e - odd) \div 2 + ExpMask \div 2, SqrtRem(m * 2 ^ FSize), rm)

\* cmp_sf
Cmp(a, b) ==
    LET s == Sign(a)
    IN IF IsNaN(a) \/ IsNaN(b) THEN 2
       ELSE IF s # Sign(b) THEN IF IsZero(a) /\ IsZero(b) THEN 0 ELSE 1 - 2 * s
       ELSE IF a < b THEN 2 * s - 1 ELSE IF a > b THEN 1 - 2 * s ELSE 0

EqQuiet(a, b) == ~IsNaN(a) /\ ~IsNaN(b) /\ ((IsZero(a) /\ IsZero(b)) \/ a = b)

Le(a, b) ==
    /\ ~IsNaN(a) /\ ~IsNaN(b)
    /\ IF Sign(a) # Sign(b) THEN Sign(a) = 1 \/ (IsZero(a) /\ IsZero(b))
       ELSE IF Sign(a) = 1 THEN a >= b ELSE a <= b

Lt(a, b) ==
    /\ ~IsNaN(a) /\ ~IsNaN(b)
    /\ IF Sign(a) # Sign(b) THEN Sign(a) = 1 /\ ~(IsZero(a) /\ IsZero(b))
       ELSE IF Sign(a) = 1 THEN a > b ELSE a < b

\* internal_cvt_sf_i: the integer of size bits, or the bound that is nearest.
ToInt(a, rm, size, unsigned) ==
    LET sign == IF IsNaN(a) THEN 0 ELSE Sign(a)
        exp == Scale(a) - ExpMask \div 2 - MantSize
        max == IF unsigned THEN IF sign = 1 THEN 0 ELSE 2 ^ size - 1
               ELSE 2 ^ (size - 1) - (1 - sign)
        shifted == Whole(a) * 2 ^ exp
        m == Rounded(sign, RShiftRnd(Whole(a) * 2 ^ RndSize, -exp), rm)
        r == IF exp >= 0 THEN IF exp <= size - 1 - MantSize THEN shifted ELSE max + 1 ELSE m
    IN IF r > max THEN IF sign = 1 THEN -max ELSE max ELSE IF sign = 1 THEN -r ELSE r

\* internal_cvt_i_sf, of a in the range of the integers of size bits.
OfInt(a, rm, size) ==
    LET r == IF a < 0 THEN -a ELSE a
        l == size - Clz(size, r) - (FSize - 1)
        extra == IF l > 0 THEN l ELSE 0
    IN Normalize(IF a < 0 THEN 1 ELSE 0, ExpMask \div 2 + FSize - 2 + extra, Sticky(r, extra), rm)

\* The loop of fmod_sf: the remainder of mant * 2^n.
RECURSIVE Remainder(_, _, _)
Remainder(mant, by, n) ==
    LET m == IF mant >= by THEN mant - by ELSE mant
    IN IF n = 0 THEN m ELSE Remainder(2 * m, by, n - 1)

\* fmod_sf
Fmod(a, b) ==
    LET ua == Unpacked(a)
        ub == Unpacked(b)
    IN IF IsZero(b) \/ Abs(a) >= Infinite(0) \/ Abs(b) > Infinite(0) THEN QNaN
       ELSE IF Abs(a) < Abs(b) THEN a
       ELSE IF Abs(a) = Abs(b) THEN Sign(a) * SignMask
       ELSE Normalize(Sign(a), ub.exp,
                      Remainder(ua.mant, ub.mant, ua.exp - ub.exp) * 2 ^ RndSize, "RNE")
=============================================================================
