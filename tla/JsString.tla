------------------------------ MODULE JsString ------------------------------
(***************************************************************************)
(* Strings of the engine (mquickjs.c).  Scripts count in UTF-16 units; the *)
(* engine keeps WTF-8, UTF-8 with lone surrogates of three bytes.  Here a  *)
(* string is its code points, of which a position names the first byte,    *)
(* doubled, plus one for the second unit of a code point of two.  Long     *)
(* strings that are not ASCII remember the last positions converted, in a  *)
(* cache that names them by address and that the collector maintains.      *)
(***************************************************************************)
EXTENDS Integers, SequencesExt

CONSTANTS PosCacheSize, MinLen,     \* JS_STRING_POS_CACHE_SIZE and _MIN_LEN
          LongStrings, Addresses    \* strings to allocate, and where

VARIABLES strings,                  \* the string at each address in use
          cache, counter            \* string_pos_cache[] and its next victim
vars == <<strings, cache, counter>>

Larger(a, b) == IF a > b THEN a ELSE b
Smaller(a, b) == IF a < b THEN a ELSE b

-----------------------------------------------------------------------------
(* WTF-8.                                                                  *)

Astral == 65536
IsLead(c) == c \in 55296 .. 56319
IsTrail(c) == c \in 56320 .. 57343
Lead(c) == 55296 + (c - Astral) \div 1024
Trail(c) == 56320 + ((c - Astral) % 1024)
Contracted(lead, trail) == ((lead % 1024) * 1024) + (trail % 1024) + Astral

\* utf8_char_len
CharLen(c) == IF c < 128 THEN 1 ELSE IF c < 2048 THEN 2 ELSE IF c < Astral THEN 3 ELSE 4

Str(cps) == [cps |-> cps, is_ascii |-> \A i \in DOMAIN cps : cps[i] < 128]
EmptyString == Str(<<>>)

RECURSIVE BytesOf(_, _), Index(_, _, _)
BytesOf(cps, k) == IF k = 0 THEN 0 ELSE BytesOf(cps, k - 1) + CharLen(cps[k])
ByteLen(s) == BytesOf(s.cps, Len(s.cps))
\* The number of code points before byte i, counted on from k.
Index(cps, i, k) == IF i <= 0 THEN k ELSE Index(cps, i - CharLen(cps[k + 1]), k + 1)
CpAt(s, i) == s.cps[Index(s.cps, i, 0) + 1]
CpBefore(s, i) == s.cps[Index(s.cps, i, 0)]

-----------------------------------------------------------------------------
(* js_string_convert_pos: from byte i, which is unit j, to a unit or byte. *)

Stop(i, j, flag) == [u8 |-> i, u16 |-> j, flag |-> flag]

RECURSIVE Forward(_, _, _, _, _), Backward(_, _, _, _, _)
Forward(s, i, j, len, limit) ==
    IF i >= len \/ j = limit THEN Stop(i, j, 0)
    ELSE IF CpAt(s, i) < Astral THEN Forward(s, i + CharLen(CpAt(s, i)), j + 1, len, limit)
    ELSE IF j + 1 = limit THEN Stop(i, j, 1)
    ELSE Forward(s, i + 4, j + 2, len, limit)
Backward(s, i, j, start, limit) ==
    IF i <= start THEN Stop(i, j, 0)
    ELSE IF CpBefore(s, i) >= Astral THEN
        IF j - 1 = limit THEN Stop(i - 4, j - 2, 1)
        ELSE IF j - 2 = limit THEN Stop(i - 4, j - 2, 0)
        ELSE Backward(s, i - 4, j - 2, start, limit)
    ELSE IF j - 1 = limit THEN Stop(i - CharLen(CpBefore(s, i)), j - 1, 0)
    ELSE Backward(s, i - CharLen(CpBefore(s, i)), j - 1, start, limit)

NoLimit == -1
Ahead(s, from, pos, type) ==
    IF type = "u8" THEN Forward(s, from.u8, from.u16, pos, NoLimit)
    ELSE Forward(s, from.u8, from.u16, ByteLen(s), pos)
\* Faulty variant of Back: a stop inside of a code point is not noticed.
BackPast(s, from, pos, type) ==
    [Backward(s, from.u8, from.u16, IF type = "u8" THEN pos ELSE 0, IF type = "u8" THEN NoLimit ELSE pos)
        EXCEPT !.flag = 0]
Back(s, from, pos, type) ==
    IF type = "u8" THEN Backward(s, from.u8, from.u16, pos, NoLimit)
    ELSE Backward(s, from.u8, from.u16, 0, pos)

\* From the nearer of the start and a cached position of the string.
From(s, entry, pos, type) ==
    IF entry[type] <= pos THEN Ahead(s, entry, pos, type) ELSE Back(s, entry, pos, type)

Start == [u8 |-> 0, u16 |-> 0]
Unit(to, pos, type) == IF type = "u8" THEN to.u16 + (pos % 2) ELSE to.u8 * 2 + to.flag
Wanted(pos, type) == IF type = "u8" THEN pos \div 2 ELSE pos
AsciiPos(s, pos, type) ==
    IF type = "u8" THEN Smaller(Len(s.cps), pos \div 2) ELSE Smaller(Len(s.cps), pos) * 2
IsCached(s) == ~s.is_ascii /\ ByteLen(s) >= MinLen

\* Of a string that the cache does not serve.
ConvertPos(s, pos, type) ==
    IF s.is_ascii THEN AsciiPos(s, pos, type)
    ELSE Unit(Ahead(s, Start, Wanted(pos, type), type), pos, type)
Utf8Pos(s, pos) == ConvertPos(s, pos, "u16")

Distance(a, b) == IF a > b THEN a - b ELSE b - a
\* The entries worth starting from, and among them the first of the nearest.
Nearer(a, w, type) == {e \in 1 .. PosCacheSize : cache[e].str = a /\ Distance(cache[e][type], w) < w}
Nearest(a, w, type) ==
    CHOOSE e \in Nearer(a, w, type) : \A f \in Nearer(a, w, type) :
        LET de == Distance(cache[e][type], w)
            df == Distance(cache[f][type], w)
        IN de < df \/ (de = df /\ e <= f)
Entry(a, w, type) == IF Nearer(a, w, type) = {} THEN Start ELSE cache[Nearest(a, w, type)]
CachedPos(a, pos, type) ==
    LET w == Wanted(pos, type)
    IN Unit(From(strings[a], Entry(a, w, type), w, type), pos, type)

-----------------------------------------------------------------------------
(* The strings of a running script, converted and collected.               *)

NoEntry == [str |-> 0, u8 |-> 0, u16 |-> 0]

Allocate ==
    \E cps \in LongStrings, a \in Addresses \ DOMAIN strings :
        /\ \A b \in Addresses \ DOMAIN strings : a <= b
        /\ strings' = [b \in DOMAIN strings \cup {a} |-> IF b = a THEN Str(cps) ELSE strings[b]]
        /\ UNCHANGED <<cache, counter>>

Positions(s, type) == 
    IF type = "u8" THEN {2 * BytesOf(s.cps, k) : k \in 0 .. Len(s.cps)}
                        \cup {2 * BytesOf(s.cps, k - 1) + 1 : k \in {k \in DOMAIN s.cps : s.cps[k] >= Astral}}
    ELSE 0 .. Unit(Ahead(s, Start, ByteLen(s), "u8"), 0, "u8")

js_string_convert_pos ==
    \E a \in DOMAIN strings, type \in {"u8", "u16"} :
        \E pos \in Positions(strings[a], type) :
            LET w == Wanted(pos, type)
                hit == Nearer(a, w, type) # {}
                e == IF hit THEN Nearest(a, w, type) ELSE counter
                to == From(strings[a], Entry(a, w, type), w, type)
            IN /\ IsCached(strings[a])
               /\ cache' = [cache EXCEPT ![e] = [str |-> a, u8 |-> to.u8, u16 |-> to.u16]]
               /\ counter' = IF hit THEN counter ELSE (counter % PosCacheSize) + 1
               /\ UNCHANGED strings

\* JS_GC2: an entry of a string that is gone is emptied, what is left moves down.
LosesDead(live) == [e \in DOMAIN cache |-> IF cache[e].str \in live THEN cache[e] ELSE NoEntry]

JS_GC ==
    \E live \in SUBSET DOMAIN strings :
        LET place(a) == Cardinality({b \in live : b <= a})
            moved(e) == IF e.str \in live THEN [e EXCEPT !.str = place(e.str)] ELSE e
        IN /\ strings' = [n \in 1 .. Cardinality(live) |-> strings[CHOOSE a \in live : place(a) = n]]
           /\ cache' = [e \in DOMAIN cache |-> moved(LosesDead(live)[e])]
           /\ UNCHANGED counter

Init == strings = <<>> /\ cache = [e \in 1 .. PosCacheSize |-> NoEntry] /\ counter = 1
Next == Allocate \/ js_string_convert_pos \/ JS_GC
Spec == Init /\ [][Next]_vars

-----------------------------------------------------------------------------
(* Operations on strings, by UTF-16 units.                                 *)

js_string_len(s) == IF s.is_ascii THEN Len(s.cps) ELSE ConvertPos(s, 2 * ByteLen(s), "u8")

\* js_sub_string_utf8: half a code point at either end becomes a lone surrogate.
SubStringUtf8(s, start, end) ==
    LET from == Index(s.cps, start \div 2, 0)
        upto == Index(s.cps, end \div 2, 0)
        first == IF start % 2 = 1 THEN <<Trail(s.cps[from + 1])>> ELSE <<>>
        last == IF end % 2 = 1 THEN <<Lead(s.cps[upto + 1])>> ELSE <<>>
    IN IF start = end THEN EmptyString
       ELSE Str(first \o SubSeq(s.cps, from + Len(first) + 1, upto) \o last)
\* js_sub_string
SubString(s, start, end) ==
    IF end <= start THEN EmptyString ELSE SubStringUtf8(s, Utf8Pos(s, start), Utf8Pos(s, end))

\* string_getcp, at a UTF-8 position
CodeAt(s, p, is_codepoint) ==
    LET c == CpAt(s, p \div 2)
    IN IF p \div 2 >= ByteLen(s) THEN -1
       ELSE IF c < Astral \/ (p % 2 = 0 /\ is_codepoint) THEN c
       ELSE IF p % 2 = 0 THEN Lead(c) ELSE Trail(c)
string_getcp(s, pos, is_codepoint) == CodeAt(s, Utf8Pos(s, pos), is_codepoint)
string_getc(s, pos) == string_getcp(s, pos, FALSE)

\* string_buffer_concat_str: surrogates that meet become the code point they spell.
Contracts(s, t) == IsLead(Last(s.cps)) /\ IsTrail(Head(t.cps))
\* Faulty variant of Joined: the string may be shorter, but not by a contraction.
JoinedApart(s, t) == Str(s.cps \o t.cps)
Joined(s, t) ==
    IF t.cps = <<>> THEN s ELSE IF s.cps = <<>> THEN t
    ELSE IF Contracts(s, t) THEN
        [cps |-> Front(s.cps) \o <<Contracted(Last(s.cps), Head(t.cps))>> \o Tail(t.cps), is_ascii |-> FALSE]
    ELSE [cps |-> s.cps \o t.cps, is_ascii |-> s.is_ascii /\ t.is_ascii]

RECURSIVE JoinedAll(_)
JoinedAll(ss) == IF ss = <<>> THEN EmptyString ELSE Joined(JoinedAll(Front(ss)), Last(ss))

js_string_concat(s, t) == JoinedAll(<<s, t>>)
js_string_repeat(s, n) ==
    IF s.cps = <<>> \/ n = 1 THEN s ELSE JoinedAll([i \in 1 .. n |-> s])
js_string_fromCharCode(codes) == JoinedAll([i \in DOMAIN codes |-> Str(<<codes[i] % Astral>>)])
js_string_fromCodePoint(codes) == JoinedAll([i \in DOMAIN codes |-> Str(<<codes[i]>>)])

InCase(c, to_lower) ==
    IF to_lower /\ c \in 65 .. 90 THEN c + 32 ELSE IF ~to_lower /\ c \in 97 .. 122 THEN c - 32 ELSE c
js_string_toLowerCase(s, to_lower) ==
    JoinedAll([i \in 1 .. js_string_len(s) |-> Str(<<InCase(string_getc(s, i - 1), to_lower)>>)])

\* JS_ToInt32Clamp
Clamp(n, min, max, offset) == IF n < min THEN Larger(n + offset, min) ELSE Smaller(n, max)

Slice(s, a, b, len) ==
    SubString(s, Clamp(a, 0, len, len), Larger(Clamp(b, 0, len, len), Clamp(a, 0, len, len)))
js_string_slice(s, a, b) == Slice(s, a, b, js_string_len(s))
Span(s, a, b) == SubString(s, Smaller(a, b), Larger(a, b))
js_string_substring(s, a, b) ==
    Span(s, Clamp(a, 0, js_string_len(s), 0), Clamp(b, 0, js_string_len(s), 0))
js_string_charAt(s, i, is_codepoint) == IF i < 0 THEN -1 ELSE string_getcp(s, i, is_codepoint)

\* js_string_indexOf: from start towards stop.
MatchesAt(s, v, i, v_len) == \A j \in 0 .. v_len - 1 : string_getc(s, i + j) = string_getc(v, j)
FirstMatch(s, v, start, stop, v_len) ==
    LET found == {i \in start .. stop : MatchesAt(s, v, i, v_len)}
    IN IF found = {} THEN -1 ELSE Min(found)
LastMatch(s, v, start, v_len) ==
    LET found == {i \in 0 .. start : MatchesAt(s, v, i, v_len)}
    IN IF found = {} THEN -1 ELSE Max(found)
js_string_indexOf(s, v, n) ==
    FirstMatch(s, v, Clamp(n, 0, js_string_len(s), 0), js_string_len(s) - js_string_len(v), js_string_len(v))
\* Beyond the last place, and where there is none, the search starts from the last place.
LastStart(n, pos) == IF n <= 0 THEN 0 ELSE Smaller(n, pos)
js_string_lastIndexOf(s, v, n) ==
    IF js_string_len(s) < js_string_len(v) THEN -1
    ELSE LastMatch(s, v, LastStart(n, js_string_len(s) - js_string_len(v)), js_string_len(v))

unicode_is_space(c) ==
    c \in (9 .. 13) \cup {32, 160, 5760, 8239, 8287, 12288, 65279} \cup (8192 .. 8202) \cup {8232, 8233}
RECURSIVE TrimStart(_, _, _), TrimEnd(_, _, _)
TrimStart(s, a, len) == IF a < len /\ unicode_is_space(string_getc(s, a)) THEN TrimStart(s, a + 1, len) ELSE a
TrimEnd(s, a, b) == IF b > a /\ unicode_is_space(string_getc(s, b - 1)) THEN TrimEnd(s, a, b - 1) ELSE b
Trimmed(s, a, len) == SubString(s, a, TrimEnd(s, a, len))
js_string_trim(s) == Trimmed(s, TrimStart(s, 0, js_string_len(s)), js_string_len(s))

js_string_eq(s, t) == s.cps = t.cps

\* js_string_compare: by the first code points that differ, in the order of UTF-16.
CompareCp(c, d) ==
    IF (c < Astral) = (d < Astral) THEN (IF c < d THEN -1 ELSE 1)
    ELSE IF c < Astral THEN (IF c <= Lead(d) THEN -1 ELSE 1)
    ELSE IF Lead(c) < d THEN -1 ELSE 1
SignOf(n) == IF n > 0 THEN 1 ELSE IF n < 0 THEN -1 ELSE 0
js_string_compare(s, t) ==
    LET differ == {k \in 1 .. Smaller(Len(s.cps), Len(t.cps)) : s.cps[k] # t.cps[k]}
    IN IF differ = {} THEN SignOf(Len(s.cps) - Len(t.cps))
       ELSE CompareCp(s.cps[Min(differ)], t.cps[Min(differ)])
=============================================================================
