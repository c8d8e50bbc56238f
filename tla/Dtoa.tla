-------------------------------- MODULE Dtoa --------------------------------
(***************************************************************************)
(* Numbers to text and back (mquickjs/dtoa.c).  A number is its sign, Prec *)
(* bits of mantissa and an exponent; a large integer is the sequence of    *)
(* its limbs of LimbBits bits, the low one first; a text is a sequence of  *)
(* letters and digits, each its value as a digit, and of signs below 0.    *)
(***************************************************************************)
EXTENDS Integers, SequencesExt

CONSTANTS MantissaBits,      \* 53
          ExponentBits,      \* 11
          LimbBits,          \* 32
          IntBits            \* of an int, 32

Base == 2 ^ LimbBits
Prec == MantissaBits
EMax == 2 ^ (ExponentBits - 1)
EMin == 3 - EMax

Minus == -1
Plus == -2
Dot == -3
At == -4
Underscore == -5
InfinityText == -6
NaNText == -7
EndOfText == -8
LetterB == 11
LetterE == 14
LetterO == 24
LetterP == 25
LetterX == 33

-----------------------------------------------------------------------------
(* The tables.                                                             *)

Log2Exact(n) == CHOOSE k \in 0 .. 31 : 2 ^ k <= n /\ n < 2 * 2 ^ k
IsPower2(radix) == 2 ^ Log2Exact(radix) = radix

MulLog2Table == <<0, 10585245, 0, 7225554, 6490313, 5976165, 0, 5292622, 5050445, 4849703, 4679886,
    4533844, 4406528, 4294263, 0, 4104555, 4023386, 3949506, 3881882, 3819673, 3762187,
    3708851, 3659183, 3612777, 3569286, 3528415, 3489906, 3453537, 3419114, 3386466, 0,
    3325913, 3297757, 3270870, 3245157>>

\* mul_log2_radix: floor(a / log2(radix)).
MulLog2Radix(a, radix) ==
    IF IsPower2(radix) THEN a \div Log2Exact(radix)
    ELSE (a * MulLog2Table[radix - 1]) \div (2 ^ 24)

\* The most digits whose numbers stay below bound.
DigitsBelow(bound, radix) == CHOOSE n \in 1 .. 31 : radix ^ n <= bound /\ radix ^ n > bound \div radix
DigitsPerLimb(radix) == DigitsBelow(Base, radix)
\* Faulty variant of DtoaMaxDigits: the digits that the mantissa's bits fill.
DtoaFullDigits(radix) == -MulLog2Radix(-Prec, radix)
DtoaMaxDigits(radix) == 1 - MulLog2Radix(-Prec, radix)
AtodMaxDigits(radix) == MulLog2Radix((IF IsPower2(radix) THEN 2 ELSE 4) * LimbBits, radix)
MaxExponent(radix) == -MulLog2Radix(-EMax, radix)
MinExponent(radix) == MulLog2Radix(EMin - Prec - 1, radix)

-----------------------------------------------------------------------------
(* Limbs.                                                                  *)

\* FoldLeft, and FoldRight over the sequence reversed, as one recursive function.
LOCAL Folded(op(_, _), base, s) ==
    LET f[i \in 0 .. Len(s)] == IF i = 0 THEN base ELSE op(f[i - 1], s[i]) IN f[Len(s)]
LOCAL FoldedDown(op(_, _), base, s) ==
    LET f[i \in 1 .. Len(s) + 1] == IF i > Len(s) THEN base ELSE op(f[i + 1], s[i]) IN f[1]

\* mp_mul1, and with b = 1 or a power of two mp_add_ui and mp_shl: a * b + l, as
\* limbs and the carry out.
MpMul1(a, b, l) ==
    Folded(LAMBDA acc, x : [tab |-> Append(acc.tab, (x * b + acc.carry) % Base),
                            carry |-> (x * b + acc.carry) \div Base],
           [tab |-> <<>>, carry |-> l], a)

\* mp_div1, and with b a power of two mp_shr: (a + r * Base^Len(a)) / b and the remainder.
MpDiv1(a, b, r) ==
    FoldedDown(LAMBDA acc, x : [tab |-> <<(acc.rem * Base + x) \div b>> \o acc.tab,
                                rem |-> (acc.rem * Base + x) % b],
               [tab |-> <<>>, rem |-> r], a)

UDiv1NormInit(d) == ((Base - d - 1) * Base + Base - 1) \div d

\* udiv1norm: the quotient and remainder of a1 * Base + a0 by d >= Base / 2, from
\* d's inverse.
UDiv1Norm(a1, a0, d, inv) ==
    LET high == a0 \div (Base \div 2)            \* n1m, 0 or -1 in the code
        adj == (a0 + high * d) % Base
        q == ((inv * (a1 + high) + adj) \div Base + a1) % Base
        a == (a1 * Base + a0 - q * d - d) % (Base * Base)
        ah == a \div Base                        \* 0 or all ones
    IN [q |-> (q + 1 + ah) % Base, r |-> (a + (IF ah = 0 THEN 0 ELSE d)) % Base]

\* mp_div1norm: a divided by b, which is d shifted left to have its first bit.
MpDiv1Norm(a, b, inv, shift) ==
    LET put(u, tab) == [tab |-> <<u.q>> \o tab, rem |-> u.r]
        down(up) == FoldedDown(LAMBDA acc, x : put(UDiv1Norm(acc.rem, x, b, inv), acc.tab),
                               [tab |-> <<>>, rem |-> up.carry], up.tab)
    IN [down(MpMul1(a, 2 ^ shift, 0)) EXCEPT !.rem = @ \div (2 ^ shift)]

\* mpb_renorm
Trimmed(a) ==
    SubSeq(a, 1, CHOOSE n \in DOMAIN a : (n = 1 \/ a[n] # 0) /\ \A i \in n + 1 .. Len(a) : a[i] = 0)

WithCarry(r) == IF r.carry = 0 THEN r.tab ELSE Append(r.tab, r.carry)

GetBit(a, k) ==
    LET l == k \div LimbBits
    IN IF l >= Len(a) THEN 0 ELSE (a[l + 1] \div (2 ^ (k % LimbBits))) % 2

\* Whether a has a bit below its bit k.
StickyBelow(a, k) ==
    LET l == k \div LimbBits
    IN \/ \E i \in DOMAIN a : i <= l /\ a[i] # 0
       \/ l < Len(a) /\ a[l + 1] % (2 ^ (k % LimbBits)) # 0

\* What rounding adds to a shifted right.
AddOne(a, shift, mode) ==
    IF /\ mode # "RNDZ"
       /\ GetBit(a, shift - 1) = 1
       /\ mode = "RNDNA" \/ StickyBelow(a, shift - 1) \/ GetBit(a, shift) = 1
    THEN 1 ELSE 0

\* mpb_shr_round: round(a / 2^shift), of a negative shift too.
ShrRound(a, shift, mode) ==
    LET l == shift \div LimbBits
        s == shift % LimbBits
        up == (-shift) \div LimbBits
        high == SubSeq(a, l + 1, Len(a))
        kept == IF s = 0 THEN high ELSE Trimmed(MpDiv1(high, 2 ^ s, 0).tab)
        added(add) == IF l >= Len(a) THEN <<add>> ELSE WithCarry(MpMul1(kept, 1, add))
    IN IF shift <= 0
       THEN [i \in 1 .. up |-> 0] \o WithCarry(MpMul1(a, 2 ^ ((-shift) % LimbBits), 0))
       ELSE added(AddOne(a, shift, mode))

\* mpb_cmp
LimbsBelow(a, b) ==
    \/ Len(a) < Len(b)
    \/ Len(a) = Len(b) /\ \E i \in DOMAIN a : a[i] < b[i] /\ \A j \in i + 1 .. Len(a) : a[j] = b[j]

SetU64(m) == IF m < Base THEN <<m>> ELSE <<m % Base, m \div Base>>
GetU64(a) == IF Len(a) = 1 THEN a[1] ELSE a[1] + a[2] * Base
FloorLog2(a) == IF Last(a) = 0 THEN -1 ELSE (Len(a) - 1) * LimbBits + Log2Exact(Last(a))

-----------------------------------------------------------------------------
(* Times a power of the radix, radix1 * 2^radix_shift with radix1 odd.     *)

RadixShift(radix) == CHOOSE k \in 0 .. 5 : radix % (2 ^ k) = 0 /\ (radix \div (2 ^ k)) % 2 = 1
Radix1(radix) == radix \div (2 ^ RadixShift(radix))
Chunk(f, radix1) == IF f < DigitsPerLimb(radix1) THEN f ELSE DigitsPerLimb(radix1)

RECURSIVE MulChunks(_, _, _), DivChunks(_, _, _, _)

\* The loop of mul_pow that multiplies, a power that fits a limb at a time.
MulChunks(a, radix1, f) ==
    IF f = 0 THEN a
    ELSE LET n == Chunk(f, radix1)
         IN MulChunks(WithCarry(MpMul1(a, radix1 ^ n, 0)), radix1, f - n)

\* The loop that divides; a remainder that is lost sets the last bit.
DivChunks(a, radix1, f, rem) ==
    IF f = 0 THEN [a EXCEPT ![1] = IF rem /\ @ % 2 = 0 THEN @ + 1 ELSE @]
    ELSE LET n == Chunk(f, radix1)
             shift == LimbBits - 1 - Log2Exact(radix1 ^ n)
             b == radix1 ^ n * 2 ^ shift
             next(d) == DivChunks(Trimmed(d.tab), radix1, f - n, rem \/ d.rem # 0)
         IN next(MpDiv1Norm(a, b, UDiv1NormInit(b), shift))

Larger(a, b) == IF a > b THEN a ELSE b
Smaller(a, b) == IF a < b THEN a ELSE b

\* mul_pow: a and e_offset with a * 2^-e_offset the product, up to bits that only
\* matter for rounding: e of an integer result is its exponent, of another the bits needed.
MulPow(a, radix, f, isInt, e) ==
    LET radix1 == Radix1(radix)
        l == (-f + DigitsPerLimb(radix1) - 1) \div DigitsPerLimb(radix1)
        offset == -f * RadixShift(radix) + l * LimbBits
        extra == IF isInt THEN Larger(2 + e - offset, 0) ELSE Larger(e - FloorLog2(a), 0)
    IN IF radix1 = 1 THEN [a |-> a, offset |-> -f * RadixShift(radix)]
       ELSE IF f >= 0
       THEN [a |-> MulChunks(a, radix1, f), offset |-> -f * RadixShift(radix)]
       ELSE [a |-> DivChunks(ShrRound(a, -(l * LimbBits + extra), "RNDZ"), radix1, -f, FALSE),
             offset |-> offset + extra]

\* mul_pow_round: round(m * 2^e * radix^f)
MulPowRound(m, e, radix, f, mode) ==
    LET round(p) == ShrRound(p.a, p.offset - e, mode) IN round(MulPow(SetU64(m), radix, f, TRUE, e))

\* round_to_d: the mantissa and the exponent of a * 2^-offset, rounded.
RoundToD(a, offset, mode) ==
    LET e == FloorLog2(a) + 1 - offset
        prec == IF e < EMin THEN Prec - (EMin - e) ELSE Prec
        carried(m) == IF m >= 2 ^ Prec THEN [m |-> m \div 2, e |-> e + 1] ELSE [m |-> m, e |-> e]
    IN IF a = <<0>> THEN [m |-> 0, e |-> 0]
       ELSE carried(GetU64(ShrRound(a, e + offset - prec, mode)) * 2 ^ (Prec - prec))

MulPowRoundToD(a, radix, f, mode) ==
    LET round(p) == RoundToD(p.a, p.offset, mode) IN round(MulPow(a, radix, f, FALSE, Prec + 2))

-----------------------------------------------------------------------------
(* js_dtoa                                                                 *)

RECURSIVE LastDigits(_, _, _), IntegerText(_, _)

\* The last n digits of a, as output_digits writes them, a limb's worth at a time.
LastDigits(a, radix, n) ==
    LET k == Smaller(n, DigitsPerLimb(radix))
        split(d) == LastDigits(Trimmed(d.tab), radix, n - k)
                    \o [i \in 1 .. k |-> (d.rem \div (radix ^ (k - i))) % radix]
    IN IF n = 0 THEN <<>> ELSE split(MpDiv1(a, radix ^ DigitsPerLimb(radix), 0))

\* output_digits; a dot at the end is not shown.
OutputDigits(a, radix, n, dot) ==
    LET dotted(s) == IF dot = n THEN s ELSE SubSeq(s, 1, dot) \o <<Dot>> \o SubSeq(s, dot + 1, n)
    IN dotted(LastDigits(a, radix, n))

\* u64toa_radix
IntegerText(n, radix) ==
    IF n < radix THEN <<n>> ELSE Append(IntegerText(n \div radix, radix), n % radix)

RECURSIVE WithinDigits(_, _, _, _, _), WithoutZeros(_, _, _), Fewest(_, _, _, _)

\* The mantissa of P digits and its E: at most one digit too many.
WithinDigits(x, radix, P, E, mode) ==
    LET checked(a) ==
            IF LimbsBelow(a, MulPowRound(1, 0, radix, P, "RNDZ")) THEN [a |-> a, P |-> P, E |-> E]
            ELSE WithinDigits(x, radix, P, E + 1, mode)
    IN checked(MulPowRound(x.m, x.e - Prec, radix, P - E, mode))

WithoutZeros(mant, P, radix) ==
    IF mant % radix # 0 THEN <<mant, P>> ELSE WithoutZeros(mant \div radix, P - 1, radix)

\* Fewer and fewer digits, until they no longer read back as x.
Fewest(x, radix, P, found) ==
    LET bare(z, E) == [a |-> SetU64(z[1]), P |-> z[2], E |-> E]
        cut(r) == bare(WithoutZeros(GetU64(r.a), P, radix), r.E)
        same(r) == MulPowRoundToD(r.a, radix, r.E - r.P, "RNDN") = x
        tried(r) == IF found # <<>> /\ ~same(r) THEN found[1]
                    ELSE IF r.P = 1 THEN r ELSE Fewest(x, radix, r.P - 1, <<r>>)
    IN tried(cut(WithinDigits(x, radix, P, 1 + MulLog2Radix(x.e - 1, radix), "RNDN")))

\* A number apart, its mantissa with its first bit.
Apart(d) ==
    LET field == (d \div (2 ^ (Prec - 1))) % (2 ^ ExponentBits)
        stored == d % (2 ^ (Prec - 1))
        l == Prec - 1 - Log2Exact(stored)
    IN IF field = 0 THEN [m |-> stored * 2 ^ l, e |-> 1 - l - (EMax - 2)]
       ELSE [m |-> stored + 2 ^ (Prec - 1), e |-> field - (EMax - 2)]

SignBit == 2 ^ (Prec - 1 + ExponentBits)
InfinityBits == (2 ^ ExponentBits - 1) * 2 ^ (Prec - 1)

\* Digits, P of them with the dot after E, as they are shown.
Shown(r, radix, limit, exponent) ==
    LET E == IF RadixShift(radix) <= 4 /\ Radix1(radix) = 1 THEN (r.E - 1) * RadixShift(radix)
             ELSE r.E - 1
        mark == IF radix = 10 THEN LetterE
                ELSE IF RadixShift(radix) <= 4 /\ Radix1(radix) = 1 THEN LetterP ELSE At
    IN IF exponent = "enabled" \/ (exponent = "auto" /\ (r.E <= -6 \/ r.E > limit))
       THEN OutputDigits(r.a, radix, r.P, 1)
            \o <<mark, IF E < 0 THEN Minus ELSE Plus>> \o IntegerText(IF E < 0 THEN -E ELSE E, 10)
       ELSE IF r.E <= 0
       THEN <<0, Dot>> \o [i \in 1 .. -r.E |-> 0] \o OutputDigits(r.a, radix, r.P, r.P)
       ELSE OutputDigits(r.a, radix, r.P, Smaller(r.P, r.E)) \o [i \in 1 .. r.E - r.P |-> 0]

Fractional(x, radix, n) ==
    LET before == Larger(2 + MulLog2Radix(x.e - 1, radix), 1)
        shortened(s) == IF s[1] = 0 /\ Len(s) >= 2 /\ s[2] # Dot THEN Tail(s) ELSE s
    IN shortened(OutputDigits(MulPowRound(x.m, x.e - Prec, radix, n, "RNDNA"), radix,
                              before + n, before))

\* js_dtoa of d that is not 0, in one of the formats free, fixed and frac.
Positive(x, radix, n, format, exponent) ==
    LET limit == IF format = "fixed" THEN n ELSE DtoaMaxDigits(radix) + 4
        integral == x.e \in 1 .. Prec /\ x.m % (2 ^ (Prec - x.e)) = 0
    IN CASE format = "free" /\ integral /\ exponent # "enabled" ->
              IntegerText(x.m \div (2 ^ (Prec - x.e)), radix)
         [] format = "free" /\ (~integral \/ exponent = "enabled") ->
              Shown(Fewest(x, radix, DtoaMaxDigits(radix), <<>>), radix, limit, exponent)
         [] format = "frac" -> Fractional(x, radix, n)
         [] format = "fixed" ->
              Shown(WithinDigits(x, radix, n, 1 + MulLog2Radix(x.e - 1, radix), "RNDNA"),
                    radix, limit, exponent)

\* js_dtoa; -0 keeps its sign when asked to.
JsDtoa(d, radix, n, format, exponent, minusZero) ==
    LET abs == d % SignBit
        sign == IF d >= SignBit THEN <<Minus>> ELSE <<>>
        P == CASE format = "free" -> 1 [] format = "frac" -> n + 1 [] format = "fixed" -> n
        limit == IF format = "fixed" THEN n ELSE DtoaMaxDigits(radix) + 4
    IN CASE abs > InfinityBits -> <<NaNText>>
         [] abs = InfinityBits -> Append(sign, InfinityText)
         [] abs = 0 -> (IF minusZero THEN sign ELSE <<>>)
                       \o Shown([a |-> <<0>>, P |-> P, E |-> 1], radix, limit, exponent)
         [] abs \in 1 .. InfinityBits - 1 -> sign \o Positive(Apart(abs), radix, n, format, exponent)

\* js_dtoa_max_len
MaxLen(d, radix, n, format, exponent) ==
    LET field == (d \div (2 ^ (Prec - 1))) % (2 ^ ExponentBits)
        e == field - (EMax - 1)
        digits == IF format = "free" THEN DtoaMaxDigits(radix) ELSE n
        log == MulLog2Radix(e - 1, radix)
        len == CASE field = 2 ^ ExponentBits - 1 -> 0
                 [] format = "frac" -> (IF e < 0 THEN 1 ELSE 2 + log) + 3 + n
                 [] format # "frac" /\ exponent = "disabled" ->
                      digits + 10 + (IF log < 0 THEN -log ELSE log)
                 [] OTHER -> digits + 8
    IN Larger(len, 9)

-----------------------------------------------------------------------------
(* js_atod: what it reads of s, with pos the cells it has consumed.        *)

At1(s, p) == IF p < Len(s) THEN s[p + 1] ELSE EndOfText
ToDigit(c) == IF c >= 0 THEN c ELSE 36

\* mpb_mul1_base: r * base + a.
MulBase(r, base, a) == IF r = <<0>> THEN <<a>> ELSE WithCarry(MpMul1(r, base, a))

\* The radix and the place of the first digit; or no digit after a prefix.
Prefix(s, p, radix, flags) ==
    LET c == At1(s, p + 1)
        r == CASE At1(s, p) # 0 -> 0
               [] At1(s, p) = 0 /\ c = LetterX /\ radix \in {0, 16} -> 16
               [] At1(s, p) = 0 /\ c = LetterO /\ radix = 0 /\ "bin_oct" \in flags -> 8
               [] At1(s, p) = 0 /\ c = LetterB /\ radix = 0 /\ "bin_oct" \in flags -> 2
               [] OTHER -> 0
    IN IF r = 0 THEN [p |-> p, radix |-> IF radix = 0 THEN 10 ELSE radix, fails |-> FALSE]
       ELSE [p |-> p + 2, radix |-> r, fails |-> ToDigit(At1(s, p + 2)) >= r]

\* The dot, where it may stand, and the separator, which a digit must follow.
IsDot(s, st, env) ==
    /\ At1(s, st.p) = Dot /\ ~env.intOnly
    /\ st.p > env.start \/ ToDigit(At1(s, st.p + 1)) < env.radix
IsSeparator(s, p, env, limit) ==
    /\ env.sep /\ At1(s, p) = Underscore /\ p > env.start
    /\ ToDigit(At1(s, p + 1)) < limit
AfterDot(s, st, env) == IF IsDot(s, st, env) THEN [st EXCEPT !.p = @ + 1, !.dot = st.pos] ELSE st

RECURSIVE SkipZeros(_, _, _), ReadDigits(_, _, _), ReadExponent(_, _, _, _)

SkipZeros(s, st, env) ==
    LET next(u, p) == IF At1(s, p) # 0 THEN [u EXCEPT !.p = p, !.first = u.pos]
                      ELSE SkipZeros(s, [u EXCEPT !.p = p + 1, !.pos = @ + 1], env)
        after(u) == next(u, IF IsSeparator(s, u.p, env, 1) THEN u.p + 1 ELSE u.p)
    IN IF IsDot(s, st, env) /\ st.dot >= 0 THEN [st EXCEPT !.first = st.pos]
       ELSE after(AfterDot(s, st, env))

\* Digits past the most there may be are left out, and remembered.
Taken(st, c, env) ==
    LET limb == st.limb * env.radix + c
        full == st.inLimb + 1 = DigitsPerLimb(env.radix)
    IN IF st.count >= AtodMaxDigits(env.radix) THEN [st EXCEPT !.extra = @ \/ c # 0]
       ELSE IF full
       THEN [st EXCEPT !.a = MulBase(@, env.radix ^ DigitsPerLimb(env.radix), limb), !.limb = 0,
                       !.inLimb = 0, !.count = @ + 1]
       ELSE [st EXCEPT !.limb = limb, !.inLimb = @ + 1, !.count = @ + 1]

ReadDigits(s, st, env) ==
    LET next(u, p, c) ==
            IF c >= env.radix THEN [u EXCEPT !.p = p]
            ELSE ReadDigits(s, Taken([u EXCEPT !.p = p + 1, !.pos = @ + 1], c, env), env)
        at(u, p) == next(u, p, ToDigit(At1(s, p)))
        after(u) == at(u, IF IsSeparator(s, u.p, env, env.radix) THEN u.p + 1 ELSE u.p)
    IN IF IsDot(s, st, env) /\ st.dot >= 0 THEN st ELSE after(AfterDot(s, st, env))

IntMax == 2 ^ (IntBits - 1) - 1
AsInt(n) == ((n + IntMax + 1) % (2 ^ IntBits)) - IntMax - 1

\* The exponent's digits: expn stops growing before another would overflow it.
ReadExponent(s, p, expn, env) ==
    LET q == IF env.sep /\ At1(s, p) = Underscore /\ ToDigit(At1(s, p + 1)) < 10 THEN p + 1 ELSE p
        c == ToDigit(At1(s, q))
    IN IF c >= 10 THEN [p |-> q, expn |-> expn, overflow |-> FALSE]
       ELSE IF expn > (IntMax - 2 - 9) \div 10
       THEN [ReadExponent(s, q + 1, expn, env) EXCEPT !.overflow = TRUE]
       ELSE ReadExponent(s, q + 1, expn * 10 + c, env)

\* The number of mantissa m and exponent e, rounded already.
Packed(m, e) ==
    CASE m = 0 \/ e < EMin - Prec + 1 -> 0
      [] m # 0 /\ e > EMax -> InfinityBits
      [] m # 0 /\ e >= EMin - Prec + 1 /\ e < EMin -> m \div (2 ^ (EMin - e))
      [] m # 0 /\ e \in EMin .. EMax -> (e + EMax - 2) * 2 ^ (Prec - 1) + (m % (2 ^ (Prec - 1)))

\* All the digits that were taken, as one large integer.
WholeOf(st, radix) ==
    IF st.inLimb = 0 THEN st.a ELSE MulBase(st.a, radix ^ st.inLimb, st.limb)
WithSticky(a, extra) == IF extra /\ a[1] % 2 = 0 THEN [a EXCEPT ![1] = @ + 1] ELSE a

\* The digits st of a number, with the exponent it was written with.
Converted(st, expn, binary, radix) ==
    LET bits == IF IsPower2(radix) THEN Log2Exact(radix) ELSE 0
        scale == Larger(bits, 1)
        offset == st.first + st.count - (IF st.dot < 0 THEN st.pos ELSE st.dot)
        shift == AsInt((IF binary THEN expn ELSE expn * scale) - offset * scale)
        top == AsInt(shift + st.count * scale)
        packed(d) == Packed(d.m, d.e)
    IN IF top >= (IF bits # 0 THEN EMax + bits ELSE MaxExponent(radix) + 1) THEN InfinityBits
       ELSE IF top <= (IF bits # 0 THEN EMin - Prec - 1 ELSE MinExponent(radix)) THEN 0
       ELSE packed(IF bits # 0
                   THEN RoundToD(WithSticky(WholeOf(st, radix), st.extra), -shift, "RNDN")
                   ELSE MulPowRoundToD(WholeOf(st, radix), radix, shift, "RNDN"))

NotRead(p) == [nan |-> TRUE, d |-> 0, p |-> p]
Read(p, d) == [nan |-> FALSE, d |-> d, p |-> p]

\* The rest of js_atod, with the exponent x read, if there is one.
AfterExponent(s, st, env, x, hasExp) ==
    LET mark == At1(s, st.p)
        negative == At1(s, st.p + 1) = Minus
        expn == IF ~hasExp THEN 0 ELSE IF negative THEN -x.expn ELSE x.expn
        end == IF hasExp THEN x.p ELSE st.p
    IN IF st.count = 0 THEN Read(end, 0)
       ELSE IF hasExp /\ x.overflow THEN Read(end, IF negative THEN 0 ELSE InfinityBits)
       ELSE Read(end, Converted(st, expn, hasExp /\ mark = LetterP, env.radix))

\* An exponent, of a power of two after a p; what follows the mark must be one.
AfterDigits(s, st, env) ==
    LET mark == At1(s, st.p)
        allowed == IF env.radix = 10 THEN {LetterE}
                   ELSE IF IsPower2(env.radix) /\ env.radix <= 16 THEN {At, LetterP} ELSE {At}
        hasExp == ~env.intOnly /\ mark \in allowed /\ st.p > env.start
        p == IF At1(s, st.p + 1) \in {Plus, Minus} THEN st.p + 2 ELSE st.p + 1
    IN IF hasExp /\ ToDigit(At1(s, p)) >= 10 THEN NotRead(p)
       ELSE IF ~hasExp /\ st.p = env.start THEN NotRead(env.start)
       ELSE AfterExponent(s, st, env, ReadExponent(s, p + 1, ToDigit(At1(s, p)), env), hasExp)

NoDigits(p) == [p |-> p, pos |-> 0, dot |-> -1, first |-> 0, a |-> <<0>>, limb |-> 0,
                inLimb |-> 0, count |-> 0, extra |-> FALSE]

\* js_atod
JsAtod(s, radix, flags) ==
    LET start == IF At1(s, 0) \in {Plus, Minus} THEN 1 ELSE 0
        signed(r) == IF At1(s, 0) = Minus THEN [r EXCEPT !.d = @ + SignBit] ELSE r
        read(env, p) == AfterDigits(s, ReadDigits(s, SkipZeros(s, NoDigits(p), env), env), env)
        after(pre) ==
            IF pre.fails THEN NotRead(pre.p)
            ELSE read([radix |-> pre.radix, start |-> start, intOnly |-> "int_only" \in flags,
                       sep |-> "underscores" \in flags], pre.p)
    IN signed(IF At1(s, start) = InfinityText /\ "int_only" \notin flags
              THEN Read(start + 1, InfinityBits) ELSE after(Prefix(s, start, radix, flags)))
=============================================================================
