------------------------------ MODULE MCJsData ------------------------------
(* The data of scripts on small instances, a part at a time: arrays under  *)
(* any calls, the position cache of strings, operations on strings, sorts, *)
(* and numbers as texts.                                                   *)
EXTENDS JsArray, RqSort

CONSTANTS DataParts, CacheSize, CacheMinLen, Places, StringLength, SortLength, Radixes
VARIABLES part, strings, cache, counter, text
data == <<part, strings, cache, counter, text, sortVars>>

MCArgs == {<<>>, <<1>>, <<0, 1>>}
MCIndexes == {-2, -1, 0, 1, 4}

\* What the heap sort promises is enough for js_array_sort.
MCSortedBy(by, pairs) == CHOOSE t \in [DOMAIN pairs -> ToSet(pairs)] : IsSortOf(by, pairs, t)

MCItems == (1 .. 3) \X (0 .. SortLength - 1)
MCTables == UNION {{[k \in DOMAIN f |-> <<f[k], k>>] : f \in [0 .. n - 1 -> 1 .. 3]} : n \in 0 .. SortLength}
SortIdle ==
    /\ given = <<>> /\ heap = <<>> /\ order = "none" /\ stage = "none" /\ turn = 0
    /\ sinking = FALSE /\ node = 0

A == 97
BigA == 65
EAcute == 233
LeadUnit == 55357
TrailUnit == 56832
BeyondTrail == 57344
Smile == 128512
Space == 32
Long == {<<EAcute, Smile, A>>, <<Smile, LeadUnit, Smile>>, <<A, EAcute, Smile, EAcute>>}

Wtf == INSTANCE JsString WITH
    PosCacheSize <- CacheSize, MinLen <- CacheMinLen, LongStrings <- Long, Addresses <- Places

-----------------------------------------------------------------------------
(* Strings as ECMAScript has them: sequences of UTF-16 units.              *)

Units(s) ==
    FlattenSeq([k \in DOMAIN s.cps |-> IF s.cps[k] < Wtf!Astral THEN <<s.cps[k]>>
                                      ELSE <<Wtf!Lead(s.cps[k]), Wtf!Trail(s.cps[k])>>])
UnitsBefore(s, p) ==
    LET before == {k \in DOMAIN s.cps : Wtf!BytesOf(s.cps, k) <= p \div 2}
    IN Len(Units([cps |-> SubSeq(s.cps, 1, Cardinality(before))])) + (p % 2)

\* Whatever the cache holds, a position of a string becomes the one that names
\* the same unit (js_string_convert_pos and its cache, which the collector keeps).
PositionsExact ==
    \A a \in DOMAIN strings, type \in {"u8", "u16"} :
        \A pos \in Wtf!Positions(strings[a], type) :
            LET to == Wtf!CachedPos(a, pos, type)
            IN IF type = "u8" THEN to = UnitsBefore(strings[a], pos)
               ELSE to \in Wtf!Positions(strings[a], "u8") /\ UnitsBefore(strings[a], to) = pos

Letters == {A, BigA, EAcute, LeadUnit, TrailUnit, BeyondTrail, Smile, Space}
Others == {<<>>, <<TrailUnit>>, <<TrailUnit, A>>, <<LeadUnit>>, <<A>>, <<Smile>>, <<LeadUnit, BeyondTrail>>, <<EAcute, LeadUnit>>}
Bounds == {-1, 0, 1, 2, 5}

RelativeTo(n, len) == IF n < 0 THEN Larger(0, len + n) ELSE Smaller(n, len)
Within(n, len) == Smaller(Larger(n, 0), len)
IsAt(u, v, i) == i + Len(v) <= Len(u) /\ SubSeq(u, i + 1, i + Len(v)) = v
IsSpace(c) == c \in {9, 10, 11, 12, 13, 32, 160, 65279}
SameCase(u, lower) ==
    [i \in DOMAIN u |-> CASE lower /\ u[i] \in 65 .. 90 -> u[i] + 32
                          [] ~lower /\ u[i] \in 97 .. 122 -> u[i] - 32
                          [] OTHER -> u[i]]
CodePointAt(u, i) ==
    IF i + 2 <= Len(u) /\ Wtf!IsLead(u[i + 1]) /\ Wtf!IsTrail(u[i + 2])
    THEN Wtf!Contracted(u[i + 1], u[i + 2]) ELSE u[i + 1]
Below(u, v) ==
    \E n \in 0 .. Smaller(Len(u), Len(v)) :
        /\ SubSeq(u, 1, n) = SubSeq(v, 1, n)
        /\ n < Len(v) /\ (n < Len(u) => u[n + 1] < v[n + 1])
\* The engine takes a lone lead surrogate for less than the same lead in a pair,
\* and for less than what follows it in the string.
Unordered(s, t) ==
    \E k \in 1 .. Smaller(Len(s.cps), Len(t.cps)) :
        s.cps[k] < Wtf!Astral /\ t.cps[k] >= Wtf!Astral /\ s.cps[k] = Wtf!Lead(t.cps[k])

WellFormed(s) ==
    /\ s.is_ascii = \A k \in DOMAIN s.cps : s.cps[k] < 128
    /\ \A k \in 1 .. Len(s.cps) - 1 : ~(Wtf!IsLead(s.cps[k]) /\ Wtf!IsTrail(s.cps[k + 1]))
Means(s, u) == WellFormed(s) /\ Units(s) = u

PartsAgree(s, u) ==
    /\ Wtf!js_string_len(s) = Len(u)
    /\ \A i, j \in Bounds :
        /\ Means(Wtf!js_string_slice(s, i, j), SubSeq(u, RelativeTo(i, Len(u)) + 1, RelativeTo(j, Len(u))))
        /\ Means(Wtf!js_string_substring(s, i, j),
                 SubSeq(u, Smaller(Within(i, Len(u)), Within(j, Len(u))) + 1,
                        Larger(Within(i, Len(u)), Within(j, Len(u)))))
    /\ \A i \in Bounds :
        /\ Wtf!js_string_charAt(s, i, FALSE) = IF i \in 0 .. Len(u) - 1 THEN u[i + 1] ELSE -1
        /\ Wtf!js_string_charAt(s, i, TRUE) = IF i \in 0 .. Len(u) - 1 THEN CodePointAt(u, i) ELSE -1
WholesAgree(s, u) ==
    /\ \A lower \in BOOLEAN : Means(Wtf!js_string_toLowerCase(s, lower), SameCase(u, lower))
    /\ Means(Wtf!js_string_repeat(s, 0), <<>>) /\ Means(Wtf!js_string_repeat(s, 3), u \o u \o u)
    /\ Means(Wtf!js_string_fromCharCode(u), u) /\ Means(Wtf!js_string_fromCodePoint(s.cps), u)
    /\ LET trimmed == Units(Wtf!js_string_trim(s))
       IN /\ trimmed # <<>> => ~IsSpace(Head(trimmed)) /\ ~IsSpace(Last(trimmed))
          /\ \E i, j \in 0 .. Len(u) : /\ trimmed = SubSeq(u, i + 1, j)
                                       /\ \A k \in (1 .. i) \cup (j + 1 .. Len(u)) : IsSpace(u[k])
PairsAgree(s, u, t, v) ==
    /\ Means(Wtf!js_string_concat(s, t), u \o v)
    /\ Wtf!js_string_eq(s, t) <=> (u = v)
    /\ Unordered(s, t) \/ Unordered(t, s)
       \/ Wtf!js_string_compare(s, t) = IF Below(u, v) THEN -1 ELSE IF u = v THEN 0 ELSE 1
    /\ \A n \in Bounds :
        LET after == {i \in Within(n, Len(u)) .. Len(u) : IsAt(u, v, i)}
            before == {i \in 0 .. Larger(n, 0) : IsAt(u, v, i)}
        IN /\ Wtf!js_string_indexOf(s, t, n) = IF after = {} THEN -1 ELSE Min(after)
           /\ Wtf!js_string_lastIndexOf(s, t, n) = IF before = {} THEN -1 ELSE Max(before)

\* The methods of strings give what they give for the UTF-16 units of the same
\* strings, and keep surrogates contracted and the ASCII flag true to the text.
StringsAsUnits ==
    part = "string" =>
        LET s == Wtf!Str(text)
            u == Units(s)
        IN /\ PartsAgree(s, u) /\ WholesAgree(s, u)
           /\ \A other \in Others : PairsAgree(s, u, Wtf!Str(other), Units(Wtf!Str(other)))

-----------------------------------------------------------------------------
(* Numbers as texts, of 5 bits of mantissa and 5 of exponent, and limbs of *)
(* 7 bits.                                                                 *)

Text == INSTANCE Dtoa WITH MantissaBits <- 5, ExponentBits <- 5, LimbBits <- 7, IntBits <- 8
TextIeee == INSTANCE IeeeFloat WITH MantSize <- 4, ExpSize <- 5

\* n * radix^k in digits, with the dot after j of them; spaced, with a zero and
\* separators too.
Written(n, k, radix, j, spaced) ==
    LET mark == IF radix = 10 THEN Text!LetterE ELSE Text!At
        signed(e) == IF e < 0 THEN <<mark, Text!Minus>> \o Text!IntegerText(-e, 10)
                     ELSE <<mark>> \o Text!IntegerText(e, 10)
        dotted(s) == SubSeq(s, 1, j) \o <<Text!Dot>> \o SubSeq(s, j + 1, Len(s))
                     \o signed(k + Len(s) - j)
    IN IF spaced THEN <<0, Text!Underscore>> \o dotted(Text!IntegerText(n, radix))
       ELSE dotted(Text!IntegerText(n, radix))
PowerExact(n, k, radix) ==
    IF k >= 0 THEN TextIeee!Exact(n * radix ^ k, 1, 0, 1) ELSE TextIeee!Exact(n, radix ^ (-k), 0, 1)

\* The integer that the digits of a text write.
DigitsOf(cs, radix) ==
    FoldLeft(LAMBDA acc, c : IF c < 0 THEN acc ELSE acc * radix + c, 0, cs)
\* x rounds to n, halves away from 0.
IsNearest(n, x) == (n > 0 => ~TextIeee!Above(2 * n - 1, -1, x)) /\ TextIeee!Above(2 * n + 1, -1, x)

\* However n * radix^k is written, the dot and the exponent anywhere, zeros and
\* separators in between, js_atod reads the number nearest to it, though it keeps
\* few of its digits; and toFixed's digits are the nearest to the number.
TextRounds(number, base) ==
    /\ \A k \in -5 .. 4 : \A j \in {1, Len(Text!IntegerText(number, base))}, spaced \in BOOLEAN :
        LET read(r) == ~r.nan /\ TextIeee!RoundsTo(PowerExact(number, k, base), 0, r.d, "RNE")
        IN read(Text!JsAtod(Written(number, k, base, j, spaced), base, {"underscores"}))
    /\ \A places \in 0 .. 2 :
        IsNearest(DigitsOf(Text!JsDtoa(number, base, places, "frac", "auto", FALSE), base),
                  TextIeee!Exact(TextIeee!Significand(number) * base ^ places, 1,
                                 TextIeee!Place(number), 1))

\* What js_dtoa writes of a number js_atod reads back as the same number, in every
\* radix, with an exponent or without; and the buffer js_dtoa_max_len asks for holds it.
\* A text that js_dtoa did not write is rounded.
TextReadsBack ==
    part = "number" =>
    LET number == text[1]
        base == text[2]
    IN
    /\ TextRounds(number, base)
    /\ \A exponent \in {"auto", "enabled", "disabled"}, minus \in BOOLEAN :
        LET d == IF minus THEN number + Text!SignBit ELSE number
            back(cs) == /\ Text!JsAtod(cs, base, {}) = Text!Read(Len(cs), d)
                        /\ Len(cs) <= Text!MaxLen(d, base, 0, "free", exponent)
        IN back(Text!JsDtoa(d, base, 0, "free", exponent, FALSE))

-----------------------------------------------------------------------------

DataInit == Init /\ part \in DataParts /\ Wtf!Init /\ (IF part = "sort" THEN SortInit ELSE SortIdle)
            /\ text \in IF part = "number" THEN {<<1, radix>> : radix \in Radixes} ELSE {<<>>}
TypesChar ==
    /\ part = "string" /\ Len(text) < StringLength
    /\ \E c \in Letters :
        /\ text # <<>> => ~(Wtf!IsLead(Last(text)) /\ Wtf!IsTrail(c))
        /\ text' = Append(text, c)
    /\ UNCHANGED <<part, strings, cache, counter, sortVars, vars>>
\* The next number, written in the radix chosen at the start.
NextNumber ==
    /\ part = "number" /\ text[1] < TextIeee!Inf - 1
    /\ text' = [text EXCEPT ![1] = @ + 1]
    /\ UNCHANGED <<part, strings, cache, counter, sortVars, vars>>
DataNext ==
    \/ part = "array" /\ Next /\ UNCHANGED data
    \/ part = "cache" /\ Wtf!Next /\ UNCHANGED <<part, text, sortVars, vars>>
    \/ part = "sort" /\ SortNext /\ UNCHANGED <<part, strings, cache, counter, text, vars>>
    \/ TypesChar \/ NextNumber
DataSpec == DataInit /\ [][DataNext]_<<vars, data>>
=============================================================================
