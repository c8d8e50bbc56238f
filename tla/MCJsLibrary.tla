---------------------------- MODULE MCJsLibrary -----------------------------
(* The algorithms of the engine on every small input, a part at a time. *)
EXTENDS JsRegExp, LibM

CONSTANTS Parts,        \* the parts of the library to check
          MaxSteps, TextLength,
          SmallArray, MaxStepBits, Families, MaxDepth, MaxOutcomes
VARIABLES input,
          family, tree, depth, at, outcomes, calls, machine     \* of the scripts
Scripts == INSTANCE JsScripts
scripts == <<family, tree, depth, at, outcomes, calls, machine>>
vars == <<input, scripts>>

-----------------------------------------------------------------------------
(* Patterns, term by term, and classes of characters.                      *)

Newline == 0
BigA == 1
BigB == 2
SmallA == 3
SmallB == 4
Five == 5
Dash == 6
Wide7 == 7                       \* beyond the 8-bit characters
MCDigits == <<5, 6>>
MCWords == <<1, 6>>
MCSpaces == <<0, 1>>
MCNewlines == {Newline}
Alphabet == Newline .. Wide7

Ecma == INSTANCE EcmaRegExp WITH
    Chars <- Alphabet, Endless <- Infinity, UpperCase <- <<BigA, BigB>>,
    LowerCase <- <<SmallA, SmallB>>, DigitChars <- {Five}, WordChars <- BigA .. Five,
    SpaceChars <- {Newline}, NewlineChars <- {Newline}

Times(min, max, greedy) == [min |-> min, max |-> max, greedy |-> greedy, none |-> FALSE]
Quantifiers == {Times(0, Infinity, TRUE), Times(0, 1, FALSE), Times(1, 2, TRUE),
                Times(2, Infinity, FALSE), Times(1, Infinity, TRUE)}

Plain(kind) == [kind |-> kind, q |-> NoQuantifier]
CharT(c) == [kind |-> "char", c |-> c, q |-> NoQuantifier]
Ref(n) == [kind |-> "backref", n |-> n, q |-> NoQuantifier]
Boundary(neg) == [kind |-> "boundary", neg |-> neg, q |-> NoQuantifier]
EscapeT(name, inverted) ==
    [kind |-> "escape", name |-> name, inverted |-> inverted, q |-> NoQuantifier]
ClassT(items, inverted) ==
    [kind |-> "class", items |-> items, inverted |-> inverted, q |-> NoQuantifier]
Wrapped(kind, p) == [kind |-> kind, body |-> p, q |-> NoQuantifier]
LookAt(neg, p) == [kind |-> "look", neg |-> neg, body |-> p, q |-> NoQuantifier]

LastAlt(p) == p[Len(p)]
AddTerm(p, t) == [p EXCEPT ![Len(p)] = Append(@, t)]
PatternInput(fam, p, flags) ==
    [part |-> "pattern", family |-> fam, pattern |-> p, flags |-> flags, steps |-> 0]

Items ==
    {[kind |-> "range", from |-> r[1], upto |-> r[2]] :
        r \in {<<BigA, SmallA>>, <<SmallA, SmallA>>, <<SmallB, Dash>>, <<Five, Wide7>>, <<BigB, Five>>}}
    \cup {[kind |-> "class", name |-> n, inverted |-> i] : n \in {"d", "w", "s"}, i \in BOOLEAN}
ClassTerms == {ClassT(items, inverted) : items \in UNION {[1 .. n -> Items] : n \in 1 .. 2},
                                         inverted \in BOOLEAN}
PlaceTerms == {Plain("dot"), Plain("start"), Plain("end"), CharT(Newline), CharT(BigA),
               Boundary(TRUE), Boundary(FALSE)}
              \cup {EscapeT(n, i) : n \in {"d", "w", "s"}, i \in BOOLEAN}

Classes == {PatternInput("class", <<<<t>>>>, flags) : t \in ClassTerms, flags \in {{}, {"i"}}}
Places == {PatternInput("place", <<p>>, flags) :
             p \in (PlaceTerms \X PlaceTerms)
                   \cup {<<Wrapped("capture", <<<<t>>>>), Ref(1)>> : t \in PlaceTerms},
             flags \in {{}, {"g", "i", "m"}, {"s", "y"}}}

GrowPattern(p) ==
    LET t == LastAlt(LastAlt(p)) IN
    \* What is not worth another pair of brackets.
    LET bare == p \in {<<<<>>>>} \cup
            {<<<<u>>>> : u \in {v \in ToSet(p[1]) : v.q.none /\ v.kind \in {"group", "capture", "look"}}}
    IN  {AddTerm(p, u) : u \in {CharT(SmallA), CharT(SmallB)}
                               \cup {Ref(n) : n \in 1 .. Smaller(1, Ecma!Captures(p))}}
        \cup (IF LastAlt(p) # <<>> /\ t.q.none /\ t.kind # "look"
              THEN {[p EXCEPT ![Len(p)][Len(LastAlt(p))].q = q] : q \in Quantifiers} ELSE {})
        \cup (IF Len(p) < 2 THEN {Append(p, <<>>)} ELSE {})
        \cup (IF bare THEN {}
              ELSE {<<<<Wrapped(kind, p)>>>> : kind \in {"capture", "group"}}
                   \cup {<<<<LookAt(neg, p)>>>> : neg \in BOOLEAN})

NoPattern == PatternInput("shape", <<<<>>>>, {})
\* Patterns that are long to build: (?=(a))b, (?:(a)|b)* and (a?)?
Seeds ==
    LET capture(p) == Wrapped("capture", <<<<p>>>>)
        q(t, n) == [t EXCEPT !.q = Times(0, n, TRUE)]
    IN {[PatternInput("shape", <<p>>, {}) EXCEPT !.steps = 2] : p \in
          {<<LookAt(FALSE, <<<<capture(CharT(SmallA))>>>>), CharT(SmallB)>>,
           <<q(Wrapped("group", <<<<capture(CharT(SmallA))>>, <<CharT(SmallB)>>>>), Infinity)>>,
           <<q(capture(q(CharT(SmallA), 1)), 1)>>}}
AnotherPattern == input = NoPattern /\ input' \in Classes \cup Places \cup Seeds
ExtendPattern ==
    /\ input.part = "pattern" /\ input.family = "shape" /\ input.steps < MaxSteps
    /\ \E p \in GrowPattern(input.pattern) :
           input' = [input EXCEPT !.pattern = p, !.steps = @ + 1]

-----------------------------------------------------------------------------
(* Numbers, bits by bits.                                                  *)

Ieee == INSTANCE IeeeFloat
WideIeee == INSTANCE IeeeFloat WITH MantSize <- WideMantSize, ExpSize <- WideExpSize

NumberInput(a) == [part |-> "number", a |-> a]
NextNumber ==
    /\ input.part = "number"
    /\ \E a \in {input.a + 256} \cup (IF input.a < 255 THEN {input.a + 1} ELSE {}) :
           a \in Wide!Numbers /\ input' = NumberInput(a)

-----------------------------------------------------------------------------

ScriptInput == [part |-> "script"]
NoScript ==
    /\ family = "none" /\ tree = <<>> /\ depth = 0 /\ at = "none"
    /\ outcomes = <<>> /\ calls = <<>> /\ machine = Scripts!Idle
Init ==
    /\ input \in {i \in {NoPattern, NumberInput(0), ScriptInput} : i.part \in Parts}
    /\ IF input = ScriptInput THEN Scripts!Init ELSE NoScript
Next ==
    \/ (AnotherPattern \/ ExtendPattern \/ NextNumber) /\ UNCHANGED scripts
    \/ input = ScriptInput /\ Scripts!Next /\ UNCHANGED input
Spec == Init /\ [][Next]_vars

Texts(cs, n) == UNION {[1 .. k -> cs] : k \in 0 .. n}
TextsOf(fam) ==
    CASE fam = "shape" -> Texts({SmallA, SmallB}, TextLength)
      [] fam = "class" -> Texts(Alphabet, 1)
      [] fam = "place" -> Texts({Newline, BigA, SmallA, Five, Dash}, 2)

\* The captures inside the terms that are repeated, counted from n on.
RECURSIVE Repeats(_, _)
CapturesFrom(n, p) == n .. n + Ecma!Captures(p) - 1
RepeatsInTerm(t, n) ==
    CASE ~t.q.none -> CapturesFrom(n, <<<<t>>>>)
      [] t.q.none /\ t.kind = "capture" -> Repeats(t.body, n + 1)
      [] t.q.none /\ t.kind \in {"group", "look"} -> Repeats(t.body, n)
      [] OTHER -> {}
Repeats(alternatives, n) ==
    LET terms == FlattenSeq(alternatives)
    IN UNION {RepeatsInTerm(terms[k], n + Ecma!Captures(<<SubSeq(terms, 1, k - 1)>>)) : k \in DOMAIN terms}

\* What exec of the pattern finds in a text, and what ECMAScript says it is to find.
\* The engine forgets what a repeated term captured by making it empty, at the start
\* of the text, where ECMAScript makes it undefined (save_reset).
SameCapture(piece, c, repeated) == piece = c \/ (repeated /\ c = Ecma!Undefined /\ piece = <<0, 0>>)
SameMatch(r, c, repeated) ==
    /\ r.matched <=> c # <<>>
    /\ r.matched => \A n \in DOMAIN c : SameCapture(Captured(r.caps, n), c[n], n \in repeated)
\* Where exec may be told to start, and, if the flags say it counts, where it does: what
\* lies past the end is taken for the end, where ECMAScript finds no match.
LastIndexes(moving, text) == IF moving THEN {-1, 0, 1, Len(text) + 1} ELSE {1}
MatchesFrom(text, last, moving, repeated, re) ==
    LET from == IF moving THEN Smaller(Larger(last, 0), Len(text)) ELSE 0
        r == RegExpExec(re, text, last, "exec")
        c == Ecma!Match(input.pattern, text, from, input.flags)
    IN /\ SameMatch(r, c, repeated)
       /\ r.lastIndex = IF ~moving THEN last ELSE IF c = <<>> THEN 0 ELSE c[0][2]
MatchesIn(texts, re) ==
    LET moving == input.flags \cap {"g", "y"} # {}
        repeated == Repeats(input.pattern, 1)
    IN \A text \in texts : \A last \in LastIndexes(moving, text) :
            MatchesFrom(text, last, moving, repeated, re)

\* A compiled pattern matches where ECMAScript says, captures the same places of the
\* text, leaves the same captures undefined and moves lastIndex alike, for every
\* combination of quantifiers, alternatives, lookaheads and back references, but for
\* the captures that save_reset empties and a lastIndex past the end: lre_exec's
\* backtracking and its undo log against the definition.
MatchesAsSpecified ==
    input.part = "pattern" => MatchesIn(TextsOf(input.family), Compile(input.pattern, input.flags))

KeepsText(texts, re, wrapped, flat) ==
    \A text \in texts :
        /\ ReplaceText([re EXCEPT !.flags = @ \cup {"g"}], text, <<[kind |-> "match"]>>, 0).text = text
        /\ LET pieces == SplitText(wrapped, text, Infinity)
           IN flat => FlattenSeq([k \in DOMAIN pieces |-> Said(pieces[k], text)]) = text

\* Nothing is lost or said twice: replacing every match by itself gives the text
\* back, and so do the pieces of a split together with what they were split at.
RewriteKeepsText ==
    input.part = "pattern" =>
        KeepsText(TextsOf(input.family), Compile(input.pattern, input.flags),
                  Compile(<<<<Wrapped("capture", input.pattern)>>>>, input.flags),
                  Ecma!Captures(input.pattern) = 0)

\* Numbers too far apart to write them as integers of one scale.
FarApart(a, b) == LET d == Ieee!Place(a) - Ieee!Place(b) IN d > 24 \/ d < -24
AtScale(a, low) == Ieee!Significand(a) * 2 ^ (Ieee!Place(a) - low)
IsRemainder(r, a, b) ==
    LET low == Smaller(Ieee!Place(a), Ieee!Place(b))
        rlow == Smaller(low, Ieee!Place(r))
    IN IF ~Ieee!Finite(a) \/ Ieee!NotANumber(b) \/ Ieee!Magnitude(b) = 0 THEN Ieee!NotANumber(r)
       ELSE IF ~Ieee!Finite(b) THEN r = a
       ELSE /\ Ieee!Finite(r) /\ Ieee!Negative(r) = Ieee!Negative(a)
            /\ AtScale(r, rlow) = (AtScale(a, low) % AtScale(b, low)) * 2 ^ (low - rlow)

\* The exact value of a wide number, and of an integral one.
ExactWide(a) == WideIeee!Exact(WideIeee!Significand(a), 1, WideIeee!Place(a), 1)
Value(s, p) == IF p >= 0 THEN s * 2 ^ p ELSE IF p > -29 THEN s \div (2 ^ (-p)) ELSE 0
Integral(s, p) == s = 0 \/ p >= 0 \/ (p > -29 /\ s % (2 ^ (-p)) = 0)
ShortBound == 2 ^ ShortIntBits

\* Each operation gives the number nearest to its exact result, rounded as asked,
\* with the zeros, infinities and not-a-numbers of IEEE 754: what add_sf, mul_sf,
\* div_sf and sqrt_sf shift out must be remembered until it is rounded.  A remainder
\* is exact, and the comparisons order all of it.  (The second operand is positive:
\* the sign of a product or a quotient is that of the first, and a sum has "Sub".)
ArithmeticRounds ==
    (input.part = "number" /\ input.a \in Numbers) =>
    LET a == input.a IN
    /\ \A rm \in {"RNE", "RDN", "RMM"} : Ieee!IsSqrt(Sqrt(a, rm), a, rm)
    /\ \A b \in Numbers \cap 0 .. SignMask - 1, rm \in {"RNE", "RDN"} :
        /\ FarApart(a, b) \/ /\ Ieee!IsSum(Add(a, b, rm), a, b, rm)
                             /\ Ieee!IsSum(Sub(a, b, rm), a, Negated(b), rm)
        /\ Ieee!IsProduct(Mul(a, b, rm), a, b, rm)
        /\ Ieee!IsQuotient(Div(a, b, rm), a, b, rm)
    /\ \A b \in Numbers :
        LET d == Sub(a, b, "RNE")
            nan == Ieee!NotANumber(a) \/ Ieee!NotANumber(b)
        IN /\ FarApart(a, b) \/ IsRemainder(Fmod(a, b), a, b)
           /\ Lt(a, b) <=> ~nan /\ (IF Ieee!NotANumber(d) THEN a > b
                                    ELSE Ieee!Negative(d) = 1 /\ Ieee!Magnitude(d) # 0)
           /\ EqQuiet(a, b) <=> ~nan /\ ~Lt(a, b) /\ ~Lt(b, a)
           /\ Le(a, b) <=> Lt(a, b) \/ EqQuiet(a, b)
           /\ Cmp(a, b) = IF nan THEN 2 ELSE IF Lt(a, b) THEN -1 ELSE IF Lt(b, a) THEN 1 ELSE 0

\* js_scalbn rounds once, however far its exponent goes out of range, and js_sqrt's
\* bits are those of the root, rounded, down to the smallest subnormal.
ScalesAndRoots(a) ==
    /\ WideIeee!IsSqrt(BitSqrt(a), a, "RNE")
    /\ a \in Numbers =>
        \A n \in -45 .. 45 \cup {60000, -60000} :
            Ieee!IsScaled(Scalbn(a, n), a, IF n > 100 THEN 100 ELSE IF n < -100 THEN -100 ELSE n, "RNE")

\* A number that changes its format is rounded once, and none changes on the way to
\* the wider format and back; one that becomes an integer is rounded as asked or
\* gives the nearest bound; and just the numbers that are short integers, but not
\* -0, are stored as such, with and without a floating point unit; and so are numbers
\* scaled by a power of 2 and roots.
ConversionsRound ==
    input.part = "number" =>
    LET a == input.a
        sign == IF WideIeee!Negative(a) = 1 THEN -1 ELSE 1
        s == WideIeee!Significand(a)
        p == WideIeee!Place(a)
        n == sign * Value(s, Smaller(p, 9))
        short == WideIeee!Finite(a) /\ p <= 9 /\ Integral(s, p) /\ a # Wide!SignMask
                 /\ n \in -ShortBound .. ShortBound - 1
    IN /\ ScalesAndRoots(a)
       /\ \A rm \in Modes :
            LET r == Narrowed(a, rm) IN
            IF WideIeee!NotANumber(a) THEN Ieee!NotANumber(r)
            ELSE IF ~WideIeee!Finite(a) \/ WideIeee!Magnitude(a) = 0 THEN Widened(r) = a
            ELSE Ieee!IsRounded(r, ExactWide(a), WideIeee!Negative(a), rm)
       /\ \A f \in {NewFloat64(a), NewFloat64Soft(a)} :
            f = IF short THEN <<TRUE, n>> ELSE <<FALSE, a>>
       /\ a \in Numbers =>
            /\ IF IsNaN(a) THEN WideIeee!NotANumber(Widened(a))
               ELSE Narrowed(Widened(a), "RTZ") = a
            /\ \A rm \in {"RUP", "RDN", "RTZ", "RMM", "RMMUP"} :
                LET r == Rint(a, rm) IN
                IF ~Ieee!Finite(a) THEN r = a
                ELSE /\ Integral(Ieee!Significand(r), Ieee!Place(r)) /\ Sign(r) = Sign(a)
                     /\ Ieee!IsInteger(Value(Ieee!Significand(r), Ieee!Place(r)), a, rm)
            /\ \A rm \in Modes, size \in {5, 8} :
                LET r == ToInt(a, rm, size, FALSE)
                    top == 2 ^ (size - 1) - 1
                    m == IF r < 0 THEN -r ELSE r
                IN IF IsNaN(a) THEN r = top
                   ELSE \/ r \in -top .. top /\ (r < 0 => Sign(a) = 1) /\ (r > 0 => Sign(a) = 0)
                           /\ Ieee!IsInteger(m, a, rm)
                        \/ r = top /\ Sign(a) = 0 /\ Le(OfInt(top, "RDN", 8), a)
                        \/ r = -top - 1 /\ Sign(a) = 1 /\ Le(a, OfInt(-top, "RUP", 8))
            /\ \A rm \in Modes : \A k \in {a, -a} \ {0} :
                Ieee!IsRounded(OfInt(k, rm, 9), Ieee!Exact(a, 1, 0, 1), IF k < 0 THEN 1 ELSE 0, rm)

\* A script is refused when it is no legal one, and otherwise calls the host with
\* the same values in the same order and ends in the same way as ECMAScript has it:
\* the compiler's one pass over the text, and the interpreter, against the tree.
ProgramsRunAsSpecified == Scripts!ProgramsRunAsSpecified

\* Wherever the compiler computed the height of the stack, it has that height when
\* the script runs: compute_stack_size, whose result a call reserves room for.
StackAsComputed == Scripts!StackAsComputed

=============================================================================
