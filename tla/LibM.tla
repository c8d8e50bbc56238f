------------------------------- MODULE LibM --------------------------------
(***************************************************************************)
(* The number library of the engine where it is more than a polynomial     *)
(* (mquickjs/libm.c, and JS_NewFloat64 of mquickjs.c): conversions,        *)
(* rounding to integers, scaling and the bit by bit square root, for any   *)
(* format.  The format extended from SoftFloat stands for the double of    *)
(* every function but the conversions between formats, where it is the     *)
(* float and Wide the double.                                              *)
(***************************************************************************)
EXTENDS SoftFloat

CONSTANTS WideFSize, WideMantSize, WideExpSize,
          WordSize,     \* 32: what EXTRACT_WORDS splits a double into
          ShortIntBits, \* 30: short integers are -2^30 .. 2^30 - 1
          Tiny, Huge    \* numbers whose squares underflow and overflow

Wide == INSTANCE SoftFloat WITH
            FSize <- WideFSize, MantSize <- WideMantSize, ExpSize <- WideExpSize

ASSUME LibMAssumption ==
    /\ Wide!SoftFloatAssumption
    /\ WideExpSize > ExpSize /\ WideMantSize > MantSize
    /\ WordSize \in Nat /\ WordSize > MantSize + 3
    /\ ShortIntBits \in Nat /\ ShortIntBits < WideMantSize
    /\ Tiny \in Numbers /\ Huge \in Numbers

-----------------------------------------------------------------------------
(* Between formats.                                                        *)

\* cvt_sf32_sf64: a subnormal becomes a normal number.
Widened(a) ==
    LET u == Unpacked(a)
    IN IF Exp(a) = ExpMask THEN IF Mant(a) # 0 THEN Wide!QNaN ELSE Wide!Infinite(Sign(a))
       ELSE IF IsZero(a) THEN Wide!Pack(Sign(a), 0, 0)
       ELSE Wide!Pack(Sign(a), u.exp - ExpBias + Wide!ExpBias,
                      u.mant * 2 ^ (WideMantSize - MantSize))

\* Faulty variant of Narrowed: the mantissa is cut to the room it has.
NarrowedCut(a, rm) ==
    LET mant == IF Wide!Exp(a) = 0 THEN Wide!Mant(a) ELSE Wide!Mant(a) + 2 ^ WideMantSize
    IN IF Wide!Exp(a) = Wide!ExpMask
       THEN IF Wide!Mant(a) # 0 THEN QNaN ELSE Infinite(Wide!Sign(a))
       ELSE IF Wide!IsZero(a) THEN Pack(Wide!Sign(a), 0, 0)
       ELSE Normalize(Wide!Sign(a), Wide!Unpacked(a).exp - Wide!ExpBias + ExpBias,
                      mant \div (2 ^ (WideMantSize - (FSize - 2))), rm)

\* cvt_sf64_sf32: the mantissa is shifted to the width that is rounded from, and the
\* bits it loses leave their trace; that of a subnormal is not normalized, its
\* exponent is.
Narrowed(a, rm) ==
    LET mant == IF Wide!Exp(a) = 0 THEN Wide!Mant(a) ELSE Wide!Mant(a) + 2 ^ WideMantSize
    IN IF Wide!Exp(a) = Wide!ExpMask
       THEN IF Wide!Mant(a) # 0 THEN QNaN ELSE Infinite(Wide!Sign(a))
       ELSE IF Wide!IsZero(a) THEN Pack(Wide!Sign(a), 0, 0)
       ELSE Normalize(Wide!Sign(a), Wide!Unpacked(a).exp - Wide!ExpBias + ExpBias,
                      Sticky(mant, WideMantSize - (FSize - 2)), rm)

-----------------------------------------------------------------------------
(* To integers.                                                            *)

One == ExpBias * 2 ^ MantSize

\* js_lrint, of an int of size bits.
Lrint(a, size) == ToInt(a, "RNE", size, FALSE)

AwayFromZero(sign, rm) == (rm = "RDN" /\ sign = 1) \/ (rm = "RUP" /\ sign = 0)

\* rint_sf64 of |a| < 1 that is not 0, without the sign.
RintOfSmall(sign, e, mant, rm) ==
    IF \/ AwayFromZero(sign, rm)
       \/ /\ rm \in {"RMM", "RMMUP"} /\ e = -1
          /\ mant # 0 \/ sign = 0 \/ rm = "RMM"
    THEN One ELSE 0

\* What is added before the bits below unit are cut.
RintAddend(sign, unit, rm) ==
    CASE rm = "RMMUP" -> unit \div 2 - sign
      [] rm = "RMM" -> unit \div 2
      [] rm = "RTZ" -> 0
      [] rm \in {"RUP", "RDN"} -> IF AwayFromZero(sign, rm) THEN unit - 1 ELSE 0

\* rint_sf64; js_floor is RDN, js_ceil RUP, js_trunc RTZ and js_round_inf RMMUP.
Rint(a, rm) ==
    LET e == Exp(a) - ExpBias
        unit == 2 ^ (MantSize - e)
        u == a + RintAddend(Sign(a), unit, rm)
    IN CASE e < 0 -> IF IsZero(a) THEN a
                     ELSE Sign(a) * SignMask + RintOfSmall(Sign(a), e, Mant(a), rm)
         [] e >= MantSize -> a
         [] e >= 0 /\ e < MantSize -> u - (u % unit)

\* JS_NewFloat64 with USE_SOFTFLOAT: <<TRUE, n>> is the short integer n, <<FALSE, a>>
\* a boxed number.
NewFloat64Soft(a) ==
    LET e == Wide!Exp(a) - Wide!ExpBias
        m == Wide!Mant(a) + 2 ^ WideMantSize
        unit == 2 ^ (WideMantSize - e)
        least == Wide!Pack(1, Wide!ExpBias + ShortIntBits, 0)
    IN CASE a = 0 -> <<TRUE, 0>>
         [] e \in 0 .. ShortIntBits - 1 /\ (m % unit) = 0 ->
              <<TRUE, (IF Wide!Sign(a) = 1 THEN -1 ELSE 1) * (m \div unit)>>
         [] a = least -> <<TRUE, -(2 ^ ShortIntBits)>>
         [] OTHER -> <<FALSE, a>>

\* And without: the cast truncates, and bits are compared so that -0 stays boxed.
NewFloat64(a) ==
    LET int(n) == Wide!OfInt(n, "RNE", WordSize)
        val == Wide!ToInt(a, "RTZ", WordSize, FALSE)
    IN IF /\ Wide!Le(int(-(2 ^ ShortIntBits)), a) /\ Wide!Le(a, int(2 ^ ShortIntBits - 1))
          /\ int(val) = a
       THEN <<TRUE, val>> ELSE <<FALSE, a>>

-----------------------------------------------------------------------------
(* Scaling, remainder and square root.                                     *)

PowerOf2(n) == (ExpBias + n) * 2 ^ MantSize
WithExp(a, k) == Pack(Sign(a), k, Mant(a))
CopySign(a, b) == Abs(a) + Sign(b) * SignMask
Far == 50000

\* js_scalbn
Scalbn(a, n) ==
    LET two54 == MantSize + 2
        up == Mul(a, PowerOf2(two54), "RNE")
        x == IF Exp(a) = 0 THEN up ELSE a
        k == (IF Exp(a) = 0 THEN Exp(up) - two54 ELSE Exp(a)) + n
    IN CASE IsZero(a) -> a
         [] ~IsZero(a) /\ Exp(a) = 0 /\ n < -Far -> Mul(Tiny, x, "RNE")
         [] ~IsZero(a) /\ Exp(a) = ExpMask -> Add(a, a, "RNE")
         [] OTHER ->
              CASE k >= ExpMask -> Mul(Huge, CopySign(Huge, x), "RNE")
                [] k \in 1 .. ExpMask - 1 -> WithExp(x, k)
                [] k <= -two54 -> IF n > Far THEN Mul(Huge, CopySign(Huge, x), "RNE")
                                  ELSE Mul(Tiny, CopySign(Tiny, x), "RNE")
                [] k <= 0 /\ k > -two54 ->
                     Mul(WithExp(x, k + two54), PowerOf2(-two54), "RNE")

-----------------------------------------------------------------------------
(* js_sqrt where the processor has none: on the two words of a double, the *)
(* root bit by bit, high word first.                                       *)

Word == 2 ^ WordSize
TopBit == 2 ^ (WordSize - 1)
HighMant == WideMantSize - WordSize
Hidden == 2 ^ HighMant

\* Both words one to the left.
Doubled(x) ==
    [x EXCEPT !.ix0 = 2 * @ + (x.ix1 \div TopBit), !.ix1 = (2 * @) % Word]

\* The loop over the high word's bits, from r on.
RECURSIVE HighRoot(_, _)
HighRoot(x, r) ==
    LET t == x.s0 + r
        y == IF t <= x.ix0 THEN [x EXCEPT !.s0 = t + r, !.ix0 = @ - t, !.q = @ + r] ELSE x
    IN IF r = 0 THEN x ELSE HighRoot(Doubled(y), r \div 2)

LowStep(x, r) ==
    LET t1 == (x.s1 + r) % Word
        s1 == (t1 + r) % Word
    IN IF x.s0 < x.ix0 \/ (x.s0 = x.ix0 /\ t1 <= x.ix1)
       THEN [x EXCEPT !.s1 = s1,
                      !.s0 = @ + (IF t1 >= TopBit /\ s1 < TopBit THEN 1 ELSE 0),
                      !.ix0 = @ - x.s0 - (IF x.ix1 < t1 THEN 1 ELSE 0),
                      !.ix1 = (@ - t1) % Word, !.q1 = @ + r]
       ELSE x

RECURSIVE LowRoot(_, _)
LowRoot(x, r) == IF r = 0 THEN x ELSE LowRoot(Doubled(LowStep(x, r)), r \div 2)

\* The words of a subnormal, with m its exponent, shifted until the hidden bit is
\* there: first whole mantissas of the high word at a time.  If that is enough (i is
\* 0) the code shifts by a whole word, and what it gets is masked out later.
RECURSIVE Raised(_, _, _)
Raised(ix0, ix1, m) ==
    IF ix0 = 0
    THEN Raised(ix1 \div (2 ^ (WordSize - HighMant - 1)), (ix1 * 2 ^ (HighMant + 1)) % Word,
                m - (HighMant + 1))
    ELSE LET i == CHOOSE k \in 0 .. HighMant : (ix0 * 2 ^ k) \div Hidden = 1
         IN [ix0 |-> ix0 * 2 ^ i + ix1 \div (2 ^ (WordSize - i)), ix1 |-> (ix1 * 2 ^ i) % Word,
             m |-> m - (i - 1)]

BitSqrt(a) ==
    LET high == a \div Word
        exp == Wide!Exp(a)
        x == IF exp = 0 THEN Raised(high, a % Word, 0)
             ELSE [ix0 |-> high, ix1 |-> a % Word, m |-> exp]
        m == x.m - Wide!ExpBias
        y == [ix0 |-> (x.ix0 % Hidden) + Hidden, ix1 |-> x.ix1, s0 |-> 0, s1 |-> 0, q |-> 0, q1 |-> 0]
        root == LowRoot(HighRoot(Doubled(IF m % 2 = 1 THEN Doubled(y) ELSE y), 2 * Hidden), TopBit)
        inexact == root.ix0 # 0 \/ root.ix1 # 0
        up == inexact /\ root.q1 = Word - 1
        q == IF up THEN root.q + 1 ELSE root.q
        q1 == IF up THEN 0 ELSE IF inexact THEN root.q1 + (root.q1 % 2) ELSE root.q1
        word0 == q \div 2 + (Wide!ExpBias - 1) * Hidden + (m \div 2) * Hidden
        word1 == q1 \div 2 + (IF q % 2 = 1 THEN TopBit ELSE 0)
    IN CASE exp = Wide!ExpMask -> Wide!Add(Wide!Mul(a, a, "RNE"), a, "RNE")
         [] exp # Wide!ExpMask /\ Wide!IsZero(a) -> a
         [] exp # Wide!ExpMask /\ ~Wide!IsZero(a) /\ Wide!Sign(a) = 1 -> Wide!QNaN
         [] OTHER -> word0 * Word + word1
=============================================================================
