------------------------------ MODULE JsRegExp ------------------------------
(***************************************************************************)
(* The regular expressions of the engine (mquickjs/mquickjs.c): how a      *)
(* pattern becomes byte code, and how lre_exec runs it with a stack of     *)
(* choices and a log of what to undo.                                      *)
(*                                                                         *)
(* A pattern is its syntax tree, and a character its code point in a small *)
(* alphabet, one cell long.  Instructions keep their sizes: one is a cell  *)
(* with its operands in it, followed by as many operand cells, so all      *)
(* jumps are those of the code.                                            *)
(***************************************************************************)
EXTENDS Integers, Sequences, SequencesExt, FiniteSetsExt, TLC

CONSTANTS
    CharEnd,      \* 0x110000, the end of the last range
    ByteEnd,      \* 254: what range8 can end with, next to its 0xff for CharEnd
    Upper, Lower, \* 'A' and 'a'
    Letters,      \* 26, how many follow them
    Digits, Words, Spaces,  \* the ranges of \d, \w and \s, as sorted bounds
    Newlines      \* is_line_terminator

ASSUME RegExpAssumption ==
    /\ {CharEnd, ByteEnd, Upper, Lower, Letters} \subseteq Nat
    /\ Upper + Letters <= Lower /\ Lower + Letters <= CharEnd /\ ByteEnd < CharEnd

Infinity == CharEnd + 1000                \* JS_SHORTINT_MAX, of a quantifier

-----------------------------------------------------------------------------
(* Byte code.                                                              *)

\* FoldLeft, as one recursive function.
FoldedUp(op(_, _), base, s) ==
    LET f[i \in 0 .. Len(s)] == IF i = 0 THEN base ELSE op(f[i - 1], s[i]) IN f[Len(s)]

Operand == [op |-> "operand"]

\* An instruction of size cells.
Cells(size, ins) == <<ins @@ [size |-> size]>> \o [k \in 1 .. size - 1 |-> Operand]

Simple(op) == Cells(1, [op |-> op])
Goto(to) == Cells(5, [op |-> "goto", to |-> to])
\* split_goto_first and split_next_first
Split(first, to) == Cells(5, [op |-> "split", first |-> first, to |-> to])
Save(op, n) == Cells(2, [op |-> op, n |-> n])
SaveReset(from, upto) == Cells(3, [op |-> "save_reset", n |-> from, upto |-> upto])
Char(cs) == Cells(1 + Len(cs), [op |-> "char", chars |-> cs])
RangeOp(tab) == Cells(3 + 8 * Len(tab), [op |-> "range", tab |-> tab])
Range8Op(tab) == Cells(2 + 2 * Len(tab), [op |-> "range8", tab |-> tab])
SetCount(n) == Cells(6, [op |-> "set_i32", reg |-> 0, n |-> n])
SetCharPos == Cells(2, [op |-> "set_char_pos", reg |-> 0])
CheckAdvance == Cells(2, [op |-> "check_advance", reg |-> 0])
Loop(to) == Cells(6, [op |-> "loop", reg |-> 0, to |-> to])
\* loop_split_* and loop_check_adv_split_*
LoopSplit(first, adv, limit, to) ==
    Cells(10, [op |-> "loop_split", first |-> first, adv |-> adv, reg |-> 0,
               limit |-> limit, to |-> to])

\* emit_insert, of the cells ins at offset at.
InsertCells(code, at, ins) == SubSeq(code, 1, at) \o ins \o SubSeq(code, at + 1, Len(code))

\* The offset a jump from its instruction to a place of the code has.
Back(code, size, at) == at - (Len(code) + size)

-----------------------------------------------------------------------------
(* Classes.  A table is a sequence of intervals <<start, end>>.            *)

Pairs(bounds) == [k \in 1 .. Len(bounds) \div 2 |-> <<bounds[2 * k - 1], bounds[2 * k]>>]
Bounds(tab) == FlattenSeq(tab)

Larger(x, y) == IF x > y THEN x ELSE y
Smaller(x, y) == IF x < y THEN x ELSE y

\* re_emit_range_base
ClassBounds(name, inverted) ==
    LET base == CASE name = "d" -> Digits [] name = "w" -> Words [] name = "s" -> Spaces
    IN IF inverted THEN <<0>> \o base \o <<CharEnd>> ELSE base

\* range_compress: empty intervals go, those that meet are united.
RECURSIVE RangeCompress(_)
RangeCompress(tab) ==
    IF tab = <<>> THEN <<>>
    ELSE IF tab[1][1] = tab[1][2] THEN RangeCompress(Tail(tab))
    ELSE IF Len(tab) = 1 \/ tab[1][2] < tab[2][1] THEN <<tab[1]>> \o RangeCompress(Tail(tab))
    ELSE RangeCompress(<<<<tab[1][1], Larger(tab[1][2], tab[2][2])>>>> \o Tail(Tail(tab)))

\* re_range_optimize: sorted, compressed, inverted, and with 8-bit bounds if they fit.
RangeOptimize(bounds, inverted) ==
    LET emitted(tab) ==
            LET last == tab[Len(tab)]
            IN IF /\ Len(tab) \in 1 .. 15
                  /\ last[2] < ByteEnd \/ (last[2] = CharEnd /\ last[1] < ByteEnd)
               THEN Range8Op([k \in DOMAIN tab |->
                       IF tab[k][2] = CharEnd THEN <<tab[k][1], ByteEnd + 1>> ELSE tab[k]])
               ELSE RangeOp(tab)
        inOrder(tab) == emitted(IF inverted
                                THEN RangeCompress(Pairs(<<0>> \o Bounds(tab) \o <<CharEnd>>))
                                ELSE tab)
    IN inOrder(RangeCompress(SortSeq(Pairs(bounds), LAMBDA i, j : i[1] < j[1])))

\* add_interval_intersect
Intersect(start, end, start1, end1, offset) ==
    LET s == Larger(start, start1)
        e == Smaller(end, end1)
    IN IF s >= e THEN <<>>
       ELSE IF offset = 0 THEN <<s, e>> ELSE <<s, e, s + offset, e + offset>>

\* An item of a class: a range of characters, which may be one, or \d, \w, \s.
ItemBounds(item, ignoreCase) ==
    IF item.kind = "class" THEN ClassBounds(item.name, item.inverted)
    ELSE LET from == item.from
             end == item.upto + 1
         IN IF ~ignoreCase THEN <<from, end>>
            ELSE Intersect(from, end, 0, Upper, 0)
                 \o Intersect(from, end, Upper + Letters, Lower, 0)
                 \o Intersect(from, end, Lower + Letters, CharEnd, 0)
                 \o Intersect(from, end, Upper, Upper + Letters, Lower - Upper)
                 \o Intersect(from, end, Lower, Lower + Letters, Upper - Lower)

-----------------------------------------------------------------------------
(* The compiler.                                                           *)

\* re_need_check_adv_and_capture_init: instructions are looked at until one
\* whose outcome is unknown.
AlwaysAdvance == {"range", "range8", "char", "dot", "any", "space", "not_space"}
NoEffect == {"line_start", "line_start_m", "line_end", "line_end_m", "set_i32",
             "set_char_pos", "word_boundary", "not_word_boundary",
             "save_start", "save_end", "save_reset", "operand"}

Looked(atom) ==
    LET known == AlwaysAdvance \cup NoEffect
        stop == SelectInSeq(atom, LAMBDA ins : ins.op \notin known)
    IN IF stop = 0 THEN atom ELSE SubSeq(atom, 1, stop - 1)

NeedCheckAdv(atom) == \A ins \in ToSet(Looked(atom)) : ins.op \notin AlwaysAdvance
NeedCaptureInit(atom) == Looked(atom) # atom

First(greedy) == IF greedy THEN "next" ELSE "goto"       \* before the atom
FirstBack(greedy) == IF greedy THEN "goto" ELSE "next"   \* after it

\* The code of a loop with a counter, whose body starts at offset at.
CountedLoop(code, at, q, adv) ==
    LET start == at + 6
        closed(body) ==
            IF q.min = q.max THEN body \o Loop(Back(body, 6, start))
            ELSE body \o LoopSplit(FirstBack(q.greedy), adv, q.max - q.min, Back(body, 10, start))
    IN closed(InsertCells(code, at, SetCount(q.max) \o (IF adv THEN SetCharPos ELSE <<>>)))

\* A loop without a counter, or a choice to go past the atom; split has its head.
OpenLoop(split, start, check, endless) ==
    LET body == split \o (IF check THEN CheckAdvance ELSE <<>>)
    IN IF endless THEN body \o Goto(Back(body, 5, start)) ELSE body

\* The code of a quantifier: from offset at on, code is the atom that is run at
\* least once, and set, from offset start on, the one that may not be.
Repeated(code, at, set, start, check, q) ==
    LET len == Len(code) - at
        adv == IF check THEN 1 ELSE 0
        endless == q.max = Infinity
        ahead(n, more) == InsertCells(set, start, Split(First(q.greedy), n) \o more)
    IN CASE q.min = 0 /\ q.max = 0 -> SubSeq(set, 1, start)
         [] q.min = 0 /\ q.max \in {1, Infinity} ->
              OpenLoop(ahead(len + (IF endless THEN 5 ELSE 0) + 4 * adv,
                             IF check THEN SetCharPos ELSE <<>>), start, check, endless)
         [] q.min = 0 /\ q.max \notin {0, 1, Infinity} ->
              CountedLoop(ahead(6 + 2 * adv + len + 10, <<>>), start + 5, q, check)
         [] q.min = 1 /\ endless /\ ~check ->
              code \o Split(FirstBack(q.greedy), Back(code, 5, at))
         [] OTHER -> CountedLoop(code, at, q, check /\ q.min # q.max)

\* re_parse_quantifier: code from offset at on is the atom; before was the number
\* of captures ahead of it and captures is the number now.
Quantified(code, at, before, captures, q) ==
    LET reset == IF before # captures THEN SaveReset(before, captures - 1) ELSE <<>>
        after(inited, init, check) ==
            Repeated(inited, at, IF init THEN inited ELSE InsertCells(inited, at, reset),
                     IF init THEN at ELSE at + Len(reset), check, q)
        known(atom, init) == after(IF init THEN InsertCells(code, at, reset) ELSE code,
                                   init, NeedCheckAdv(atom))
        of(atom) == known(atom, NeedCaptureInit(atom))
    IN of(SubSeq(code, at + 1, Len(code)))

\* re_is_char: the characters of code, if it is one char instruction.
CharsOf(code) ==
    IF code # <<>> /\ code[1].op = "char" /\ Len(code) = 1 + Len(code[1].chars)
    THEN code[1].chars ELSE <<>>

\* Characters in a row are combined, up to four bytes.
Combined(code, lastTerm, term) ==
    LET c1 == CharsOf(SubSeq(code, lastTerm + 1, term))
        c2 == CharsOf(SubSeq(code, term + 1, Len(code)))
    IN IF lastTerm >= 0 /\ c1 # <<>> /\ c2 # <<>> /\ Len(c1) + Len(c2) <= 4
       THEN [code |-> SubSeq(code, 1, lastTerm) \o Char(c1 \o c2), term |-> lastTerm]
       ELSE [code |-> code, term |-> term]

\* A character by itself: both its cases, or a char instruction.
Literal(c, ignoreCase) ==
    LET up == IF c >= Lower THEN c - (Lower - Upper) ELSE c
    IN IF /\ ignoreCase
          /\ c \in Upper .. Upper + Letters - 1 \cup Lower .. Lower + Letters - 1
       THEN LET low == up + (Lower - Upper) IN Range8Op(<<<<up, up + 1>>, <<low, low + 1>>>>)
       ELSE Char(<<c>>)

\* The terms without sub-patterns, at the head of re_parse_alternative.
Atom(t, flags) ==
    CASE t.kind = "char" -> Literal(t.c, "i" \in flags)
      [] t.kind = "dot" -> Simple(IF "s" \in flags THEN "any" ELSE "dot")
      [] t.kind = "start" -> Simple(IF "m" \in flags THEN "line_start_m" ELSE "line_start")
      [] t.kind = "end" -> Simple(IF "m" \in flags THEN "line_end_m" ELSE "line_end")
      [] t.kind = "boundary" -> Simple(IF t.neg THEN "not_word_boundary" ELSE "word_boundary")
      [] t.kind = "backref" ->
           Cells(2, [op |-> IF "i" \in flags THEN "back_reference_i" ELSE "back_reference",
                     n |-> t.n])
      [] t.kind = "escape" ->
           IF t.name = "s" THEN Simple(IF t.inverted THEN "not_space" ELSE "space")
           ELSE RangeOptimize(ClassBounds(t.name, t.inverted), FALSE)
      [] t.kind = "class" ->
           RangeOptimize(FlattenSeq([k \in DOMAIN t.items |->
               ItemBounds(t.items[k], "i" \in flags)]), t.inverted)

\* The five cells of a jump at offset at, which goes to the end of the code.
JumpTo(code, at, jump(_)) ==
    SubSeq(code, 1, at) \o jump(Len(code) - (at + 5)) \o SubSeq(code, at + 6, Len(code))

RECURSIVE Disjunction(_, _, _), Alternative(_, _, _, _, _)

\* A term with its sub-pattern: the state s is the code and the number of captures.
Term(s, t, flags) ==
    LET at == Len(s.code)
        n == s.captures
        look(to) == Cells(5, [op |-> "lookahead", neg |-> t.neg, to |-> to])
        head == CASE t.kind = "group" -> s
                  [] t.kind = "capture" -> [code |-> s.code \o Save("save_start", n), captures |-> n + 1]
                  [] t.kind = "look" -> [s EXCEPT !.code = @ \o look(0)]
        matched == Simple(IF t.neg THEN "negative_lookahead_match" ELSE "lookahead_match")
        closed(body) ==
            CASE t.kind = "group" -> body
              [] t.kind = "capture" -> [body EXCEPT !.code = @ \o Save("save_end", n)]
              [] t.kind = "look" -> [body EXCEPT !.code = JumpTo(@ \o matched, at, look)]
    IN IF t.kind \in {"group", "capture", "look"} THEN closed(Disjunction(head, t.body, flags))
       ELSE [s EXCEPT !.code = @ \o Atom(t, flags)]

NoQuantifier == [min |-> 1, max |-> 1, greedy |-> TRUE, none |-> TRUE]

\* re_parse_alternative, from term k on.
Alternative(s, terms, k, lastTerm, flags) ==
    LET at == Len(s.code)
        q == terms[k].q
        repeated(term) ==
            IF q.none THEN term
            ELSE [term EXCEPT !.code = Quantified(@, at, s.captures, term.captures, q)]
        next(combined, captures) ==
            Alternative([code |-> combined.code, captures |-> captures], terms, k + 1,
                        combined.term, flags)
        after(term) == next(Combined(term.code, lastTerm, at), term.captures)
    IN IF k > Len(terms) THEN s ELSE after(repeated(Term(s, terms[k], flags)))

\* re_parse_disjunction: before each further alternative a split goes in front of
\* all that is there, and a goto behind it.
Disjunction(s, alternatives, flags) ==
    LET start == Len(s.code)
        ahead(d) == [d EXCEPT !.code = InsertCells(@, start, Split("next", Len(@) - start + 5))]
        add(d, alt) ==
            IF d = <<>> THEN <<Alternative(s, alt, 1, -1, flags)>>
            ELSE LET split == ahead(d[1])
                     more == Alternative([split EXCEPT !.code = @ \o Goto(0)], alt, 1, -1, flags)
                 IN <<[more EXCEPT !.code = JumpTo(@, Len(split.code), Goto)]>>
    IN FoldedUp(add, <<>>, alternatives)[1]

\* re_compute_register_count: registers are allocated as a stack.
Registers(code) ==
    LET step(acc, ins) ==
            LET push == ins.op \in {"set_i32", "set_char_pos"}
                pop == CASE ins.op \in {"check_advance", "loop"} -> 1
                         [] ins.op = "loop_split" -> IF ins.adv THEN 2 ELSE 1
                         [] OTHER -> 0
                top == acc.top - pop
                reg == IF push THEN [ins EXCEPT !.reg = acc.top]
                       ELSE IF pop > 0 THEN [ins EXCEPT !.reg = top] ELSE ins
            IN [code |-> Append(acc.code, reg), top |-> IF push THEN top + 1 ELSE top,
                max |-> Larger(acc.max, IF push THEN top + 1 ELSE top)]
    IN FoldedUp(step, [code |-> <<>>, top |-> 0, max |-> 0], code)

\* js_parse_regexp
Compile(pattern, flags) ==
    LET search == IF "y" \in flags THEN <<>>
                  ELSE Split("goto", 1 + 5) \o Simple("any") \o Goto(-(5 + 1 + 5))
        program(regs, n) ==
            [code |-> regs.code, captures |-> n, registers |-> regs.max, flags |-> flags]
        ended(s) == program(Registers(s.code \o Save("save_end", 0) \o Simple("match")), s.captures)
    IN ended(Disjunction([code |-> search \o Save("save_start", 0), captures |-> 1],
                         pattern, flags))

-----------------------------------------------------------------------------
(* lre_exec.  The stack is a sequence of frames, the last on top; undo are *)
(* the <<index, old value>> pairs pushed since the frame was.              *)

Unset == -1

\* Undone in the order they are popped, the newest first.
Undo(caps, undo) == FoldedUp(LAMBDA acc, u : [acc EXCEPT ![u[1]] = u[2]], caps, Reverse(undo))

TopFrame(m) == m.frames[Len(m.frames)]

\* SAVE_CAPTURE, and with once SAVE_CAPTURE_CHECK: one old value is enough.
SaveCapture(m, idx, value, once) ==
    LET saved == [m EXCEPT !.caps[idx] = value]
        n == Len(m.frames)
    IN IF n = 0 \/ (once /\ \E k \in DOMAIN TopFrame(m).undo : TopFrame(m).undo[k][1] = idx)
       THEN saved
       ELSE [saved EXCEPT !.frames[n].undo = Append(@, <<idx, m.caps[idx]>>)]

PushFrame(m, pc, type) ==
    [m EXCEPT !.frames = Append(@, [pc |-> pc, type |-> type, cptr |-> m.cptr, undo |-> <<>>])]

\* no_match: back to the last choice; a lookahead that fails is none.
RECURSIVE NoMatch(_)
NoMatch(m) ==
    IF m.frames = <<>> THEN [m EXCEPT !.status = "failed"]
    ELSE LET f == TopFrame(m)
             popped == [m EXCEPT !.caps = Undo(@, f.undo), !.frames = Front(@),
                                 !.pc = f.pc, !.cptr = f.cptr]
         IN IF f.type = "lookahead" THEN NoMatch(popped) ELSE popped

\* Faulty variant of LookaheadMatch: what the lookahead set is not undone later.
LookaheadMatchForgets(m) ==
    LET k == SelectLastInSeq(m.frames, LAMBDA f : f.type = "lookahead")
        f == m.frames[k]
    IN [m EXCEPT !.pc = f.pc, !.cptr = f.cptr, !.frames = SubSeq(@, 1, k - 1)]

\* The choices made since the lookahead go, but what they would undo is kept.
LookaheadMatch(m) ==
    LET k == SelectLastInSeq(m.frames, LAMBDA f : f.type = "lookahead")
        f == m.frames[k]
        kept == FlattenSeq([j \in 1 .. Len(m.frames) - k + 1 |-> m.frames[k + j - 1].undo])
        back == [m EXCEPT !.pc = f.pc, !.cptr = f.cptr, !.frames = SubSeq(@, 1, k - 1)]
    IN IF k = 1 THEN back ELSE [back EXCEPT !.frames[k - 1].undo = @ \o kept]

RECURSIVE NegativeLookaheadMatch(_)
NegativeLookaheadMatch(m) ==
    LET f == TopFrame(m)
        popped == [m EXCEPT !.caps = Undo(@, f.undo), !.frames = Front(@)]
    IN IF f.type = "negative" THEN NoMatch(popped) ELSE NegativeLookaheadMatch(popped)

InBounds(tab, c, last8) ==
    \E k \in DOMAIN tab : /\ c >= tab[k][1]
                          /\ c < tab[k][2] \/ (last8 /\ k = Len(tab) /\ tab[k][2] = ByteEnd + 1)

IsWord(c) == InBounds(Pairs(Words), c, FALSE)
IsSpace(c) == InBounds(Pairs(Spaces), c, FALSE)

Canonicalize(c) == IF c \in Upper .. Upper + Letters - 1 THEN c - Upper + Lower ELSE c

\* REOP_range looks for the interval by bisection.
RECURSIVE Bisect(_, _, _, _)
Bisect(tab, c, min, max) ==
    IF min > max THEN FALSE
    ELSE LET idx == (min + max) \div 2
         IN CASE c < tab[idx][1] -> Bisect(tab, c, min, idx - 1)
              [] c >= tab[idx][2] -> Bisect(tab, c, idx + 1, max)
              [] OTHER -> TRUE

\* Whether the characters at cptr are what the instruction asks for.
Accepts(ins, text, cptr) ==
    IF ins.op = "char"
    THEN /\ cptr + Len(ins.chars) <= Len(text)
         /\ SubSeq(text, cptr + 1, cptr + Len(ins.chars)) = ins.chars
    ELSE /\ cptr < Len(text)
         /\ LET c == text[cptr + 1] IN
            CASE ins.op = "dot" -> c \notin Newlines
              [] ins.op = "any" -> TRUE
              [] ins.op = "space" -> IsSpace(c)
              [] ins.op = "not_space" -> ~IsSpace(c)
              [] ins.op = "range8" -> InBounds(ins.tab, c, TRUE)
              [] ins.op = "range" ->
                   /\ ins.tab # <<>>
                   /\ c >= ins.tab[1][1] /\ c < ins.tab[Len(ins.tab)][2]
                   /\ Bisect(ins.tab, c, 1, Len(ins.tab))

\* The assertions about the place.
Holds(op, text, cptr) ==
    LET before == cptr > 0 /\ IsWord(text[cptr])
        after == cptr < Len(text) /\ IsWord(text[cptr + 1])
    IN CASE op = "line_start" -> cptr = 0
         [] op = "line_start_m" -> cptr = 0 \/ text[cptr] \in Newlines
         [] op = "line_end" -> cptr = Len(text)
         [] op = "line_end_m" -> cptr = Len(text) \/ text[cptr + 1] \in Newlines
         [] op = "word_boundary" -> before # after
         [] op = "not_word_boundary" -> before = after

\* A back reference to a capture that is not set matches the empty text.
Referred(ins, text, caps) ==
    LET s == caps[2 * ins.n]
        e == caps[2 * ins.n + 1]
    IN IF s = Unset \/ e = Unset \/ s >= e THEN <<>> ELSE SubSeq(text, s + 1, e)

Same(op, c1, c2) ==
    IF op = "back_reference_i" THEN Canonicalize(c1) = Canonicalize(c2) ELSE c1 = c2

\* save_reset, which leaves its captures empty at the start of the text.
ResetCaptures(m, from, upto) ==
    FoldedUp(LAMBDA acc, idx : SaveCapture(acc, idx, 0, FALSE), m,
             [k \in 1 .. 2 * (upto - from + 1) |-> 2 * from + k - 1])

\* loop_split_* and loop_check_adv_split_*; pc is behind the instruction.
LoopSplits(m, ins, text, reg) ==
    LET left == m.caps[reg] - 1
        counted == SaveCapture(m, reg, left, TRUE)
        again == counted.pc + ins.to
        still == ins.adv /\ m.caps[reg + 1] = m.cptr /\ left # ins.limit
    IN CASE left > ins.limit -> [counted EXCEPT !.pc = again]
         [] left <= ins.limit /\ still -> NoMatch(counted)
         [] left <= ins.limit /\ ~still ->
              IF left = 0 THEN counted
              ELSE IF ins.first = "next" THEN PushFrame(counted, again, "split")
              ELSE [PushFrame(counted, counted.pc, "split") EXCEPT !.pc = again]

\* One instruction: m has its pc, as an offset, behind it.
Execute(m, ins, re, text) ==
    LET reg == 2 * re.captures + ins.reg IN
    CASE ins.op = "match" -> [m EXCEPT !.status = "matched"]
      [] ins.op \in AlwaysAdvance ->
           IF ~Accepts(ins, text, m.cptr) THEN NoMatch(m)
           ELSE [m EXCEPT !.cptr = @ + (IF ins.op = "char" THEN Len(ins.chars) ELSE 1)]
      [] ins.op \in {"line_start", "line_start_m", "line_end", "line_end_m",
                     "word_boundary", "not_word_boundary"} ->
           IF Holds(ins.op, text, m.cptr) THEN m ELSE NoMatch(m)
      [] ins.op = "goto" -> [m EXCEPT !.pc = @ + ins.to]
      [] ins.op = "split" ->
           IF ins.first = "next" THEN PushFrame(m, m.pc + ins.to, "split")
           ELSE [PushFrame(m, m.pc, "split") EXCEPT !.pc = @ + ins.to]
      [] ins.op = "lookahead" ->
           PushFrame(m, m.pc + ins.to, IF ins.neg THEN "negative" ELSE "lookahead")
      [] ins.op = "lookahead_match" -> LookaheadMatch(m)
      [] ins.op = "negative_lookahead_match" -> NegativeLookaheadMatch(m)
      [] ins.op = "save_start" -> SaveCapture(m, 2 * ins.n, m.cptr, FALSE)
      [] ins.op = "save_end" -> SaveCapture(m, 2 * ins.n + 1, m.cptr, FALSE)
      [] ins.op = "save_reset" -> ResetCaptures(m, ins.n, ins.upto)
      [] ins.op = "set_i32" -> SaveCapture(m, reg, ins.n, TRUE)
      [] ins.op = "set_char_pos" -> SaveCapture(m, reg, m.cptr, TRUE)
      [] ins.op = "check_advance" -> IF m.caps[reg] = m.cptr THEN NoMatch(m) ELSE m
      [] ins.op = "loop" ->
           LET left == m.caps[reg] - 1
               counted == SaveCapture(m, reg, left, TRUE)
           IN IF left # 0 THEN [counted EXCEPT !.pc = @ + ins.to] ELSE counted
      [] ins.op = "loop_split" -> LoopSplits(m, ins, text, reg)
      [] ins.op \in {"back_reference", "back_reference_i"} ->
           LET r == Referred(ins, text, m.caps)
           IN IF /\ m.cptr + Len(r) <= Len(text)
                 /\ \A k \in DOMAIN r : Same(ins.op, r[k], text[m.cptr + k])
              THEN [m EXCEPT !.cptr = @ + Len(r)] ELSE NoMatch(m)

RECURSIVE Run(_, _, _)
Run(m, re, text) ==
    IF m.status # "running" THEN m
    ELSE LET ins == re.code[m.pc + 1]
         IN Run(Execute([m EXCEPT !.pc = @ + ins.size], ins, re, text), re, text)

\* The captures lre_exec leaves, from those it is given, and whether it matched.
Exec(re, text, from, caps) ==
    Run([pc |-> 0, cptr |-> from, frames |-> <<>>, status |-> "running", caps |-> caps], re, text)

NoCaptures(re) == [k \in 0 .. 2 * re.captures + re.registers - 1 |-> Unset]

-----------------------------------------------------------------------------
(* The interface.  re is what Compile gives, with its flags.               *)

\* js_regexp_exec, in its uses "exec", "search" and "force_global": the captures,
\* if there is a match, and the lastIndex it leaves.  A lastIndex outside the text is
\* taken to be its nearest end (js_string_utf16_to_utf8_pos).
RegExpExec(re, text, lastIndex, magic) ==
    LET moving == "g" \in re.flags \/ "y" \in re.flags \/ magic = "force_global"
        from == IF moving /\ magic # "search" THEN Smaller(Larger(lastIndex, 0), Len(text)) ELSE 0
        outcome(m, matched) ==
            [matched |-> matched, caps |-> IF matched THEN m.caps ELSE NoCaptures(re),
             lastIndex |-> CASE ~moving -> lastIndex
                             [] moving /\ ~matched -> 0
                             [] moving /\ matched -> IF magic = "search" THEN lastIndex
                                                     ELSE m.caps[1]]
        ran(m) == outcome(m, m.status = "matched")
    IN ran(Exec(re, text, from, NoCaptures(re)))

Between(text, from, upto) == SubSeq(text, from + 1, upto)

\* A piece of a text is the places it lies between, and so is a capture; Undefined
\* is a capture that is not set, and other than an empty one.
Undefined == <<>>
Captured(caps, n) ==
    IF caps[2 * n] = Unset \/ caps[2 * n + 1] = Unset THEN Undefined
    ELSE <<caps[2 * n], caps[2 * n + 1]>>
Said(piece, text) == IF piece = Undefined THEN <<>> ELSE Between(text, piece[1], piece[2])

\* js_string_concat_subst: a replacement is a sequence of texts and of $&, $`, $'
\* and $n, which is left as it is if there is no such capture.
Substituted(rep, re, text, caps) ==
    LET part(r) == CASE r.kind = "text" -> r.text
                     [] r.kind = "match" -> Between(text, caps[0], caps[1])
                     [] r.kind = "before" -> Between(text, 0, caps[0])
                     [] r.kind = "after" -> Between(text, caps[1], Len(text))
                     [] r.kind = "capture" -> IF r.n < re.captures THEN Said(Captured(caps, r.n), text)
                                              ELSE r.text
    IN FlattenSeq([k \in DOMAIN rep |-> part(rep[k])])

\* Faulty variant of AfterMatch: the character stepped over is not copied.
AfterMatchSkips(start, stop) ==
    LET at == IF stop = start THEN stop + 1 ELSE stop IN [at |-> at, end |-> at]

\* Where to look for the next match, and from where to copy: an empty match is
\* stepped over.
AfterMatch(start, stop) == [at |-> IF stop = start THEN stop + 1 ELSE stop, end |-> stop]

\* js_string_replace, from the match m, or none, on; end is the end of the last
\* match, and the captures of a match are what the next one starts with.
RECURSIVE ReplaceFrom(_, _, _, _, _, _)
ReplaceFrom(re, text, rep, m, end, out) ==
    LET start == m.caps[0]
        stop == m.caps[1]
        go(next, more) ==
            IF next.at > Len(text)
            THEN [text |-> more \o Between(text, next.end, Len(text)), lastIndex |-> 0]
            ELSE ReplaceFrom(re, text, rep, Exec(re, text, next.at, m.caps), next.end, more)
        replaced(more) ==
            IF "g" \in re.flags THEN go(AfterMatch(start, stop), more)
            ELSE [text |-> more \o Between(text, stop, Len(text)), lastIndex |-> stop]
    IN IF m.status # "matched"
       THEN [text |-> out \o Between(text, end, Len(text)), lastIndex |-> 0]
       ELSE replaced(out \o Between(text, end, start) \o Substituted(rep, re, text, m.caps))

ReplaceText(re, text, rep, lastIndex) ==
    LET from == IF "g" \notin re.flags /\ "y" \in re.flags THEN Larger(lastIndex, 0) ELSE 0
        kept(r) == IF re.flags \cap {"g", "y"} = {} THEN [r EXCEPT !.lastIndex = lastIndex] ELSE r
    IN IF from > Len(text) THEN kept([text |-> text, lastIndex |-> 0])
       ELSE kept(ReplaceFrom(re, text, rep, Exec(re, text, from, NoCaptures(re)), 0, <<>>))

\* js_string_split, from q on: the pieces, the last of which begins at p and is not
\* closed yet, with the captures between them.
RECURSIVE SplitFrom(_, _, _, _, _, _)
SplitFrom(re, text, limit, p, q, out) ==
    LET sticky == "y" \in re.flags
        captures(z) == [n \in 1 .. re.captures - 1 |-> Captured(z.caps, n)]
        next(z, found, e) ==
            IF z.matched /\ e # p
            THEN LET piece == Append(out, <<p, found>>)
                 IN IF Len(piece) = limit THEN piece
                    ELSE SplitFrom(re, text, limit, e, e, piece \o captures(z))
            ELSE SplitFrom(re, text, limit, p, IF z.matched THEN found + 1 ELSE q + 1, out)
        tried(z) ==
            IF ~z.matched /\ ~sticky THEN Append(out, <<p, Len(text)>>)
            ELSE next(z, IF sticky THEN q ELSE z.caps[0], Smaller(z.lastIndex, Len(text)))
    IN IF q >= Len(text) THEN Append(out, <<p, Len(text)>>)
       ELSE tried(RegExpExec(re, text, q, "force_global"))

SplitText(re, text, limit) ==
    IF limit = 0 THEN <<>>
    ELSE IF text = <<>>
    THEN IF RegExpExec(re, text, 0, "force_global").matched THEN <<>> ELSE <<<<0, 0>>>>
    ELSE SplitFrom(re, text, limit, 0, 0, <<>>)
=============================================================================
