----------------------------- MODULE EcmaRegExp -----------------------------
(***************************************************************************)
(* What a regular expression means, as ECMAScript defines it: a pattern    *)
(* takes a state (an end index and the captures so far) to the states it   *)
(* may go on from, the ones it prefers first.  The first that reaches the  *)
(* end of the pattern is the match.                                        *)
(*                                                                         *)
(* A pattern is a sequence of alternatives, an alternative a sequence of   *)
(* terms, and a term a record with its kind and its quantifier q.          *)
(***************************************************************************)
LOCAL INSTANCE Integers
LOCAL INSTANCE Sequences
LOCAL INSTANCE SequencesExt

CONSTANTS
    Chars, Endless,                            \* the characters; the max of a * or +
    UpperCase, LowerCase,                      \* sequences, letter by letter
    DigitChars, WordChars, SpaceChars, NewlineChars  \* \d, \w, \s, the ends of lines

Undefined == <<>>

\* The case of a letter does not count with the flag i.
Folded(c, flags) ==
    IF "i" \in flags /\ \E k \in DOMAIN UpperCase : UpperCase[k] = c
    THEN LowerCase[CHOOSE k \in DOMAIN UpperCase : UpperCase[k] = c] ELSE c

Escaped(name, inverted) ==
    LET cs == CASE name = "d" -> DigitChars [] name = "w" -> WordChars [] name = "s" -> SpaceChars
    IN IF inverted THEN Chars \ cs ELSE cs

Members(item) ==
    IF item.kind = "class" THEN Escaped(item.name, item.inverted)
    ELSE {c \in Chars : item.from <= c /\ c <= item.upto}

\* Whether the term, which stands for one character, stands for c.
StandsFor(t, c, flags) ==
    CASE t.kind = "char" -> Folded(t.c, flags) = Folded(c, flags)
      [] t.kind = "dot" -> "s" \in flags \/ c \notin NewlineChars
      [] t.kind = "escape" -> c \in Escaped(t.name, t.inverted)
      [] t.kind = "class" ->
           LET found == \E k \in DOMAIN t.items : \E d \in Members(t.items[k]) :
                            Folded(d, flags) = Folded(c, flags)
           IN found # t.inverted

\* Whether the assertion holds at the index.
True(t, text, at, flags) ==
    LET word(k) == k \in DOMAIN text /\ text[k] \in WordChars
    IN CASE t.kind = "start" -> at = 0 \/ ("m" \in flags /\ text[at] \in NewlineChars)
         [] t.kind = "end" -> at = Len(text) \/ ("m" \in flags /\ text[at + 1] \in NewlineChars)
         [] t.kind = "boundary" -> (word(at) # word(at + 1)) # t.neg

RECURSIVE Captures(_)
Captures(alternatives) ==
    LET inTerm(t) == CASE t.kind = "capture" -> 1 + Captures(t.body)
                       [] t.kind \in {"group", "look"} -> Captures(t.body)
                       [] OTHER -> 0
    IN FoldLeft(LAMBDA n, t : n + inTerm(t), 0, FlattenSeq(alternatives))

Concat(f(_), states) == FlattenSeq([k \in DOMAIN states |-> f(states[k])])

RECURSIVE Disjunct(_, _, _, _, _), Terms(_, _, _, _, _), Repeat(_, _, _, _, _, _, _)

\* The states after one run of the term; n captures open before it.
Once(t, n, st, text, flags) ==
    CASE t.kind \in {"char", "dot", "escape", "class"} ->
           IF st.at < Len(text) /\ StandsFor(t, text[st.at + 1], flags)
           THEN <<[st EXCEPT !.at = @ + 1]>> ELSE <<>>
      [] t.kind \in {"start", "end", "boundary"} ->
           IF True(t, text, st.at, flags) THEN <<st>> ELSE <<>>
      [] t.kind = "backref" ->
           LET c == st.caps[t.n]
               said == IF c = Undefined THEN <<>> ELSE SubSeq(text, c[1] + 1, c[2])
           IN IF /\ st.at + Len(said) <= Len(text)
                 /\ \A k \in DOMAIN said :
                        Folded(said[k], flags) = Folded(text[st.at + k], flags)
              THEN <<[st EXCEPT !.at = @ + Len(said)]>> ELSE <<>>
      [] t.kind = "group" -> Disjunct(t.body, n, st, text, flags)
      [] t.kind = "capture" ->
           Concat(LAMBDA r : <<[r EXCEPT !.caps[n] = <<st.at, r.at>>]>>,
                  Disjunct(t.body, n + 1, st, text, flags))
      [] t.kind = "look" ->
           LET rs == Disjunct(t.body, n, st, text, flags)
           IN IF t.neg THEN IF rs = <<>> THEN <<st>> ELSE <<>>
              ELSE IF rs = <<>> THEN <<>> ELSE <<[rs[1] EXCEPT !.at = st.at]>>

\* The term from min to max times: each run forgets the captures of the one
\* before, and one that is not needed must advance.
Repeat(t, n, min, max, st, text, flags) ==
    LET upto == n + Captures(<<<<t>>>>) - 1
        cleared == [st EXCEPT !.caps =
                        [k \in DOMAIN @ |-> IF k \in n .. upto THEN Undefined ELSE @[k]]]
        again(r) == IF min = 0 /\ r.at = st.at THEN <<>>
                    ELSE Repeat(t, n, IF min = 0 THEN 0 ELSE min - 1,
                                IF max = Endless THEN max ELSE max - 1, r, text, flags)
        more == Concat(again, Once(t, n, cleared, text, flags))
    IN IF max = 0 THEN <<st>>
       ELSE IF min > 0 THEN more
       ELSE IF t.q.greedy THEN Append(more, st) ELSE <<st>> \o more

Terms(terms, n, st, text, flags) ==
    IF terms = <<>> THEN <<st>>
    ELSE LET t == Head(terms)
         IN Concat(LAMBDA r : Terms(Tail(terms), n + Captures(<<<<t>>>>), r, text, flags),
                   Repeat(t, n, t.q.min, t.q.max, st, text, flags))

Disjunct(alternatives, n, st, text, flags) ==
    IF alternatives = <<>> THEN <<>>
    ELSE Terms(Head(alternatives), n, st, text, flags)
         \o Disjunct(Tail(alternatives), n + Captures(<<Head(alternatives)>>), st, text, flags)

\* The captures of the match at from or, unless the flags say it must be there,
\* of the first one behind; <<>> when there is none.  The whole match is capture 0.
RECURSIVE Match(_, _, _, _)
Match(pattern, text, from, flags) ==
    LET none == [k \in 0 .. Captures(pattern) |-> Undefined]
        rs == Disjunct(pattern, 1, [at |-> from, caps |-> none], text, flags)
    IN IF from > Len(text) THEN <<>>
       ELSE IF rs # <<>> THEN [rs[1].caps EXCEPT ![0] = <<from, rs[1].at>>]
       ELSE IF "y" \in flags THEN <<>> ELSE Match(pattern, text, from + 1, flags)
=============================================================================
