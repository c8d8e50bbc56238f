------------------------------- MODULE JsArray -------------------------------
(***************************************************************************)
(* Arrays of the engine (mquickjs.c): the elements of an array are the     *)
(* first len slots of a table that grows ahead of them, shrinks behind     *)
(* them, and keeps what was popped.  A call that runs a script's function  *)
(* (a callback, a comparison, a conversion of an argument) holds what it   *)
(* has read of the array while that function edits the same array.         *)
(***************************************************************************)
EXTENDS Integers, SequencesExt

CONSTANTS Values,          \* what scripts store, numbers above 0
          ShortIntMax,     \* the most elements of an array
          Indexes, Args,   \* numbers and sequences of values to call with
          MaxEdits,        \* edits of the functions a call runs (a bound)
          SortedBy(_, _)   \* rqsort_idx: by an order, elements with their places

VARIABLES array,           \* its table (NULL is <<>>) and its length
          call,            \* the call that runs a script's function, or none
          result           \* of the last operation
vars == <<array, call, result>>

Undefined == 0
Elements == Values \cup {Undefined}
Thrown == <<-1>>
Searches == {"indexOf", "lastIndexOf"}
Copies == {"slice", "splice"}
Reductions == {"reduce", "reduceRight"}
Loops == {"every", "some", "map", "filter"} \cup Reductions

NoCall == [op |-> "none", phase |-> "none", len |-> 0, k |-> 0, val |-> Undefined,
           ret |-> <<>>, edits |-> 0]
NoResult == [op |-> "none", value |-> <<>>]

Larger(a, b) == IF a > b THEN a ELSE b
Smaller(a, b) == IF a < b THEN a ELSE b
UndefinedTimes(n) == [i \in 1 .. n |-> Undefined]

-----------------------------------------------------------------------------
(* Sorting.                                                                *)

Orders == {"value", "parity", "throws"}
SignOf(n) == IF n > 0 THEN 1 ELSE IF n < 0 THEN -1 ELSE 0
\* js_array_sort_cmp: an exception of the function counts as "greater" and is lost.
SortCmp(by, p, q) ==
    LET cmp == CASE by = "value" -> SignOf(p[1] - q[1])
                 [] by = "parity" -> SignOf((p[1] % 2) - (q[1] % 2))
                 [] by = "throws" -> IF p[1] = q[1] THEN 0 ELSE 1
    IN IF cmp # 0 THEN cmp ELSE SignOf(p[2] - q[2])

\* What js_array_sort sorts: what is not undefined, each with its place.
PairsOf(s) == SelectSeq([i \in 1 .. Len(s) |-> <<s[i], i>>], LAMBDA p : p[1] # Undefined)

ASSUME ArrayAssumption ==
    /\ Values \subseteq Nat \ {0} /\ ShortIntMax \in Nat
    /\ Indexes \subseteq Int /\ Args \subseteq Seq(Elements) /\ MaxEdits \in Nat

\* A sort keeps what it is given, in order if the comparison is one.
IsSortOf(by, p, t) ==
    /\ t \in Seq(Values \X Nat) /\ t \in [DOMAIN p -> ToSet(p)] /\ ToSet(t) = ToSet(p)
    /\ by # "throws" => \A i \in 1 .. Len(t) - 1 : SortCmp(by, t[i], t[i + 1]) < 0

ASSUME SortAssumption ==
    \A n \in 0 .. ShortIntMax : \A s \in [1 .. n -> Elements], by \in Orders :
        IsSortOf(by, PairsOf(s), SortedBy(by, PairsOf(s)))

-----------------------------------------------------------------------------
(* Tables.                                                                 *)

\* js_resize_value_array
Resized(t, n) ==
    IF n <= Len(t) THEN t ELSE t \o UndefinedTimes(Larger(n, Len(t) + Len(t) \div 2) - Len(t))
Allocates(t, n) == n > Len(t)

Cleared(t, from, upto) == [i \in DOMAIN t |-> IF i \in from + 1 .. upto THEN Undefined ELSE t[i]]
Moved(t, to, from, n) == [i \in DOMAIN t |-> IF i - to \in 1 .. n THEN t[i - to + from] ELSE t[i]]
Put(t, at, items) == [i \in DOMAIN t |-> IF i - at \in DOMAIN items THEN items[i - at] ELSE t[i]]

\* js_array_resize: a table that would be more than half empty is cut.
Shortened(a, n) ==
    [tab |-> IF n < Len(a.tab) \div 2 /\ Len(a.tab) >= 4 THEN SubSeq(a.tab, 1, n)
             ELSE Cleared(a.tab, n, a.len),
     len |-> n]
\* Faulty variant of Lengthened: what was popped comes back.
LengthenedOnly(a, n) == [tab |-> Resized(a.tab, n), len |-> n]
Lengthened(a, n) == [tab |-> Cleared(Resized(a.tab, n), a.len, n), len |-> n]
ArrayResize(a, n) ==
    IF n < a.len THEN Shortened(a, n) ELSE IF n > a.len THEN Lengthened(a, n) ELSE a

\* js_array_push; unshift moves the elements up first.
Pushed(a, args) == [tab |-> Put(Resized(a.tab, a.len + Len(args)), a.len, args), len |-> a.len + Len(args)]
Unshifted(a, args) ==
    [tab |-> Put(Moved(Resized(a.tab, a.len + Len(args)), Len(args), 0, a.len), 0, args),
     len |-> a.len + Len(args)]
Shifted(a) == [tab |-> Moved(a.tab, 0, 1, a.len - 1), len |-> a.len - 1]

\* js_array_splice: the rest moves down before the table shrinks, or up after it grew.
Spliced(a, start, del, items) ==
    LET rest(t) == Moved(t, start + Len(items), start + del, a.len - (start + del))
        n == a.len + Len(items) - del
        room == IF del > Len(items) THEN ArrayResize([a EXCEPT !.tab = rest(@)], n)
                ELSE IF del < Len(items) THEN [ArrayResize(a, n) EXCEPT !.tab = rest(@)]
                ELSE a
    IN [room EXCEPT !.tab = Put(@, start, items)]

\* JS_ToInt32Clamp
Clamp(n, min, max, offset) == IF n < min THEN Larger(n + offset, min) ELSE Smaller(n, max)

-----------------------------------------------------------------------------
(* Operations that run to their end, of a script or of a function it is    *)
(* called back with.                                                       *)

MayRun == call.phase \in {"none", "callback"} /\ (call.phase = "callback" => call.edits < MaxEdits)
Edited == call' = IF call.phase = "none" THEN call ELSE [call EXCEPT !.edits = @ + 1]
Returns(op, a, value) ==
    MayRun /\ Edited /\ array' = a /\ result' = [op |-> op, value |-> value]
Throws(op) == Returns(op, array, Thrown)

Visible(a) == SubSeq(a.tab, 1, a.len)

\* js_array_push and unshift: a range error, or no memory, before anything is done.
js_array_push(op) ==
    \E args \in Args :
        LET n == array.len + Len(args) IN
        \/ /\ n <= ShortIntMax
           /\ Returns(op, IF op = "push" THEN Pushed(array, args) ELSE Unshifted(array, args), <<n>>)
        \/ (n > ShortIntMax \/ Allocates(array.tab, n)) /\ Throws(op)

js_array_pop ==
    IF array.len = 0 THEN Returns("pop", array, <<Undefined>>)
    ELSE Returns("pop", [array EXCEPT !.len = @ - 1], <<array.tab[array.len]>>)
js_array_shift ==
    IF array.len = 0 THEN Returns("shift", array, <<Undefined>>)
    ELSE Returns("shift", Shifted(array), <<array.tab[1]>>)
js_array_reverse ==
    Returns("reverse", [array EXCEPT !.tab =
                            [i \in DOMAIN @ |-> IF i <= array.len THEN @[array.len + 1 - i] ELSE @[i]]], <<>>)

js_array_set_length ==
    \E n \in Indexes :
        \/ n \in 0 .. ShortIntMax /\ Returns("length", ArrayResize(array, n), <<>>)
        \/ (n \notin 0 .. ShortIntMax \/ Allocates(array.tab, n)) /\ Throws("length")

\* JS_SetPropertyInternal of an index: there are no holes, so only the next one is new.
\* Memory ends long before an index of ShortIntMax.
JS_SetProperty ==
    \E i \in 0 .. ShortIntMax - 1, v \in Elements :
        \/ i < array.len /\ Returns("set", [array EXCEPT !.tab[i + 1] = v], <<i, v>>)
        \/ i = array.len /\ Returns("set", Pushed(array, <<v>>), <<i, v>>)
        \/ (i > array.len \/ Allocates(array.tab, i + 1)) /\ Throws("set")

\* js_array_concat, with a value or with the array itself.
js_array_concat ==
    \E items \in {<<v>> : v \in Values} \cup {Visible(array)} :
        LET n == array.len + Len(items)
            copied == Put(UndefinedTimes(n), 0, Visible(array))
        IN \/ n <= ShortIntMax /\ Returns("concat", array, Put(copied, array.len, items))
           \/ Throws("concat")

-----------------------------------------------------------------------------
(* Calls that run a script's function.                                     *)

Calls(op, phase, ret, k) ==
    /\ call = NoCall
    /\ call' = [NoCall EXCEPT !.op = op, !.phase = phase, !.len = array.len, !.k = k, !.ret = ret]
    /\ result' = NoResult
    /\ UNCHANGED array
Done(value) ==
    /\ call' = NoCall
    /\ result' = [op |-> call.op, value |-> value]
    /\ UNCHANGED array

\* The length is read before the last argument is converted to a number.
ConvertsArgument == \E op \in Searches \cup Copies : Calls(op, "callback", <<>>, 0)
\* So may the function, the conversion of what it returned, or the check of the stack.
FunctionThrows == call.phase = "callback" /\ Done(Thrown)

\* SelectInSubSeq counts from 1 and answers 0 for none.
FirstFrom(v, n) == SelectInSubSeq(array.tab, n + 1, array.len, LAMBDA e : e = v) - 1
LastFrom(v, n) == SelectLastInSubSeq(array.tab, 1, Smaller(n + 1, array.len), LAMBDA e : e = v) - 1

\* The second half of js_array_indexOf.
js_array_indexOf ==
    /\ call.phase = "callback" /\ call.op \in Searches
    /\ \E v \in Elements, n \in Indexes :
        Done(<<v, n, IF call.op = "indexOf" THEN FirstFrom(v, Clamp(n, 0, call.len, call.len))
                     ELSE LastFrom(v, Clamp(n, -1, call.len - 1, call.len))>>)

\* The second half of js_array_slice.
js_array_slice ==
    /\ call.phase = "callback" /\ call.op = "slice"
    /\ \E from, upto \in Indexes :
        LET start == Clamp(from, 0, call.len, call.len)
            final == Smaller(Clamp(upto, 0, call.len, call.len), array.len)
        IN Done(<<from, upto>> \o SubSeq(array.tab, start + 1, Larger(start, final))) \/ Done(Thrown)

\* The second half of js_array_splice, refused if the length is not what it was.
js_array_splice ==
    /\ call.phase = "callback" /\ call.op = "splice"
    /\ \E from, count \in Indexes, items \in Args :
        LET start == Clamp(from, 0, call.len, call.len)
            del == Clamp(count, 0, call.len - start, 0)
            n == call.len + Len(items) - del
        IN IF call.len # array.len \/ n > ShortIntMax THEN Done(Thrown)
           ELSE \/ /\ array' = Spliced(array, start, del, items)
                   /\ call' = NoCall
                   /\ result' = [op |-> "splice",
                                 value |-> <<from, count>> \o SubSeq(array.tab, start + 1, start + del)]
                \/ Done(Thrown)

\* Nothing is begun: no function, no memory for what is built or sorted, nothing to reduce.
Refused == call = NoCall /\ \E op \in Loops \cup {"sort"} : Throws(op)

Index == IF call.op = "reduceRight" THEN call.len - call.k - 1 ELSE call.k

\* js_array_every and js_array_reduce: ret is the array they build, or their value,
\* which is the first element they come to unless a first value is given.
StartsLoop ==
    \/ \E op \in {"every", "some", "map", "filter"} :
        Calls(op, "loop", CASE op = "every" -> <<1>> [] op = "some" -> <<0>>
                            [] op = "map" -> UndefinedTimes(array.len) [] op = "filter" -> <<>>, 0)
    \/ \E op \in Reductions, v \in Values : Calls(op, "loop", <<v>>, 0)
    \/ \E op \in Reductions :
        /\ array.len > 0
        /\ Calls(op, "loop", <<array.tab[IF op = "reduceRight" THEN array.len ELSE 1]>>, 1)

CallsBack ==
    /\ call.phase = "loop" /\ call.k < call.len /\ Index < array.len
    /\ call' = [call EXCEPT !.phase = "callback", !.val = array.tab[Index + 1]]
    /\ UNCHANGED <<array, result>>

\* What the loop does with what the function returned for an element.
Taken(r) ==
    CASE call.op \in {"every", "some", "reduce", "reduceRight"} -> <<r>>
      [] call.op = "map" -> [call.ret EXCEPT ![call.k + 1] = r]
      [] call.op = "filter" -> IF r = 1 THEN Append(call.ret, call.val) ELSE call.ret

Ends(r) == (call.op = "every" /\ r = 0) \/ (call.op = "some" /\ r = 1)
FunctionReturns ==
    /\ call.phase = "callback" /\ call.op \in Loops
    /\ \E r \in {0, 1} :
        call' = [call EXCEPT !.phase = "loop", !.ret = Taken(r),
                             !.k = IF Ends(r) THEN call.len ELSE @ + 1, !.val = Undefined]
    /\ result' = NoResult
    /\ UNCHANGED array
LoopEnds == call.phase = "loop" /\ (call.k = call.len \/ Index >= array.len) /\ Done(call.ret)

\* js_array_sort: what is sorted comes back first, and then the undefined ones.
StartsSort == Calls("sort", "callback", PairsOf(Visible(array)), 0)
js_array_sort ==
    /\ call.phase = "callback" /\ call.op = "sort"
    /\ \E by \in Orders :
        LET s == SortedBy(by, call.ret)
            n == Smaller(call.len, array.len)
        IN /\ array' = [array EXCEPT !.tab = Put(@, 0, [i \in 1 .. n |-> IF i <= Len(s) THEN s[i][1] ELSE Undefined])]
           /\ call' = NoCall
           /\ result' = [op |-> by, value |-> <<>>]

-----------------------------------------------------------------------------

Init == array = [tab |-> <<>>, len |-> 0] /\ call = NoCall /\ result = NoResult
Next ==
    \/ js_array_push("push") \/ js_array_push("unshift")
    \/ js_array_pop \/ js_array_shift \/ js_array_reverse \/ js_array_set_length \/ JS_SetProperty
    \/ js_array_concat \/ ConvertsArgument \/ FunctionThrows \/ js_array_indexOf \/ js_array_slice
    \/ js_array_splice \/ Refused \/ StartsLoop \/ CallsBack \/ FunctionReturns \/ LoopEnds \/ StartsSort \/ js_array_sort
Spec == Init /\ [][Next]_vars

\* What these methods do in their own way (EcmaArray says what each name means).
Divergences == {"indexOf", "lastIndexOf", "slice", "splice", "reduceRight", "sort", "sortThrows"}

\* Whatever scripts and the functions they call back do, an array is the sequence
\* of ECMAScript, but for what Divergences names and for holes, which it has none of:
\* its table, with what it keeps of elements popped, is not seen.
Ecma == INSTANCE EcmaArray WITH arr <- Visible(array), Own <- Divergences
ImplementsArray == Ecma!Spec
=============================================================================
