------------------------------ MODULE EcmaArray ------------------------------
(***************************************************************************)
(* What scripts are promised of arrays: a sequence of elements and calls   *)
(* on it, as ECMAScript defines them for arrays without holes.  Like any   *)
(* engine, one may refuse a call for want of memory, and an array of more  *)
(* than ShortIntMax elements; with no holes, an element that is not there  *)
(* is undefined, and an index past the end cannot be set.                  *)
(*                                                                         *)
(* Own names what an engine does its own way; without names, this is       *)
(* ECMAScript:                                                             *)
(*   "indexOf"     searches up to the length after its argument is         *)
(*                 converted, not before                                   *)
(*   "lastIndexOf" finds nothing from -1, the last element                 *)
(*   "slice"       stops where the conversion of its arguments cut the     *)
(*                 array, and does not go on with undefined                *)
(*   "splice"      refuses an array whose length that conversion changed   *)
(*   "reduceRight" stops at an element that its function took away, and    *)
(*                 does not look for one before it                         *)
(*   "sort"        does not put back what its comparison cut off           *)
(*   "sortThrows"  ignores what its comparison throws, and leaves the      *)
(*                 elements in some order                                  *)
(***************************************************************************)
EXTENDS Integers, SequencesExt

CONSTANTS Values, ShortIntMax, Indexes, Args, MaxEdits, Undefined, Thrown,
          Own          \* what the engine does its own way
VARIABLES arr,        \* the elements
          call, result
vars == <<arr, call, result>>

Nothing == [op |-> "none", value |-> <<>>]
Idle == [op |-> "none", phase |-> "none", len |-> 0, k |-> 0, val |-> Undefined, ret |-> <<>>, edits |-> 0]

Undefineds(n) == [i \in 1 .. n |-> Undefined]
Fits(n) == n <= ShortIntMax
Relative(n, len) == IF n < 0 THEN (IF n + len < 0 THEN 0 ELSE n + len) ELSE IF n > len THEN len ELSE n
Padded(s, n) == [i \in 1 .. n |-> IF i <= Len(s) THEN s[i] ELSE Undefined]
Slice(s, from, upto) == SubSeq(s, from, IF upto < Len(s) THEN upto ELSE Len(s))

Reductions == {"reduce", "reduceRight"}
Iterations == {"every", "some", "map", "filter"} \cup Reductions

-----------------------------------------------------------------------------

Operates(op, a, value) ==
    /\ call = Idle \/ (call.phase = "callback" /\ call.edits < MaxEdits)
    /\ call' = IF call = Idle THEN call ELSE [call EXCEPT !.edits = @ + 1]
    /\ arr' = a
    /\ result' = [op |-> op, value |-> value]
\* A call that throws leaves the array as it was.
Fails ==
    \E op \in {"push", "unshift", "length", "set", "concat", "sort"} \cup Iterations : Operates(op, arr, Thrown)

Push == \E s \in Args : Fits(Len(arr \o s)) /\ Operates("push", arr \o s, <<Len(arr \o s)>>)
Unshift == \E s \in Args : Fits(Len(s \o arr)) /\ Operates("unshift", s \o arr, <<Len(s \o arr)>>)
Pop == IF arr = <<>> THEN Operates("pop", arr, <<Undefined>>) ELSE Operates("pop", Front(arr), <<Last(arr)>>)
Shift == IF arr = <<>> THEN Operates("shift", arr, <<Undefined>>) ELSE Operates("shift", Tail(arr), <<Head(arr)>>)
ReverseInPlace == Operates("reverse", Reverse(arr), <<>>)
SetLength ==
    \E n \in Indexes \cap 0 .. ShortIntMax :
        Operates("length", IF n <= Len(arr) THEN SubSeq(arr, 1, n) ELSE arr \o Undefineds(n - Len(arr)), <<>>)
Set ==
    \E i \in 0 .. ShortIntMax - 1, v \in Values \cup {Undefined} :
        /\ i <= Len(arr)
        /\ Operates("set", IF i = Len(arr) THEN Append(arr, v) ELSE ReplaceAt(arr, i + 1, v), <<i, v>>)
Concat == \E s \in {<<v>> : v \in Values} \cup {arr} : Fits(Len(arr \o s)) /\ Operates("concat", arr, arr \o s)

-----------------------------------------------------------------------------

Begins(op, phase, ret, k) ==
    /\ call = Idle
    /\ call' = [Idle EXCEPT !.op = op, !.phase = phase, !.len = Len(arr), !.k = k, !.ret = ret]
    /\ result' = Nothing
    /\ UNCHANGED arr
Returns(a, op, value) == call' = Idle /\ arr' = a /\ result' = [op |-> op, value |-> value]
Ends(a, value) == Returns(a, call.op, value)

Asks == \E op \in {"indexOf", "lastIndexOf", "slice", "splice"} : Begins(op, "callback", <<>>, 0)
Gives == call.phase = "callback" /\ Ends(arr, Thrown)

Found(v, from, upto) == {i \in from .. upto : i < Len(arr) /\ arr[i + 1] = v}
Finds ==
    /\ call.phase = "callback"
    /\ \E v \in Values \cup {Undefined}, n \in Indexes :
        LET upto == IF "indexOf" \in Own THEN Len(arr) ELSE call.len
            after == Found(v, Relative(n, call.len), upto - 1)
            before == IF n = -1 /\ "lastIndexOf" \in Own THEN {}
                      ELSE {i \in Found(v, 0, call.len - 1) : i <= n \/ (n < 0 /\ i <= call.len + n)}
        IN \/ /\ call.op = "indexOf"
              /\ Ends(arr, <<v, n, IF after = {} THEN -1 ELSE Min(after)>>)
           \/ /\ call.op = "lastIndexOf"
              /\ Ends(arr, <<v, n, IF before = {} THEN -1 ELSE Max(before)>>)

\* The elements that slice and splice take: as many as there were, what is gone is undefined.
Read == Padded(arr, call.len)
TakesSlice ==
    /\ call.phase = "callback" /\ call.op = "slice"
    /\ \E from, upto \in Indexes :
        Ends(arr, <<from, upto>> \o Slice(IF "slice" \in Own THEN arr ELSE Read,
                                          Relative(from, call.len) + 1, Relative(upto, call.len)))
Splices ==
    /\ call.phase = "callback" /\ call.op = "splice" /\ ("splice" \in Own => Len(arr) = call.len)
    /\ \E from, count \in Indexes, items \in Args :
        LET start == Relative(from, call.len)
            end == start + (IF count < 0 THEN 0 ELSE Relative(count, call.len - start))
            spliced == Slice(Read, 1, start) \o items \o Slice(Read, end + 1, call.len)
        IN Fits(Len(spliced)) /\ Ends(spliced, <<from, count>> \o Slice(Read, start + 1, end))

\* Without a first value, a reduction starts from the first element, and of nothing it fails.
Loops ==
    \/ Begins("every", "loop", <<1>>, 0) \/ Begins("some", "loop", <<0>>, 0) \/ Begins("filter", "loop", <<>>, 0)
    \/ Begins("map", "loop", Undefineds(Len(arr)), 0)
    \/ \E op \in Reductions, v \in Values : Begins(op, "loop", <<v>>, 0)
    \/ arr # <<>> /\ (Begins("reduce", "loop", <<Head(arr)>>, 1) \/ Begins("reduceRight", "loop", <<Last(arr)>>, 1))
At(k) == IF call.op = "reduceRight" THEN call.len - 1 - k ELSE k
Ahead == {j \in call.k .. call.len - 1 : At(j) < Len(arr)}
Visits ==
    /\ call.phase = "loop"
    /\ \E j \in Ahead :
        /\ \A i \in Ahead : j <= i
        /\ "reduceRight" \in Own => j = call.k
        /\ call' = [call EXCEPT !.phase = "callback", !.k = j, !.val = arr[At(j) + 1]]
    /\ UNCHANGED <<arr, result>>
\* filter keeps the element its function was called with, whatever became of the array.
Hears ==
    /\ call.phase = "callback" /\ call.op \in Iterations
    /\ \E r \in {0, 1} :
        LET settled == (call.op = "every" /\ r = 0) \/ (call.op = "some" /\ r = 1)
            kept == IF r = 1 THEN <<call.val>> ELSE <<>>
            answer == CASE call.op = "map" -> ReplaceAt(call.ret, call.k + 1, r)
                        [] call.op = "filter" -> call.ret \o kept
                        [] OTHER -> <<r>>
        IN call' = [call EXCEPT !.phase = "loop", !.val = Undefined, !.ret = answer,
                                !.k = IF settled THEN call.len ELSE @ + 1]
    /\ result' = Nothing
    /\ UNCHANGED arr
Answers ==
    /\ call.phase = "loop" /\ (Ahead = {} \/ ("reduceRight" \in Own /\ call.k \notin Ahead))
    /\ Ends(arr, call.ret)

\* A sort remembers the elements and their order, and puts them back sorted.
BeginsSort ==
    Begins("sort", "callback",
           SelectSeq([i \in 1 .. Len(arr) |-> <<arr[i], i>>], LAMBDA p : p[1] # Undefined), 0)
Before(by, p, q) ==
    LET rank(e) == IF by = "parity" THEN e[1] % 2 ELSE e[1]
    IN rank(p) < rank(q) \/ (rank(p) = rank(q) /\ p[2] < q[2])
Arrangements(by) ==
    {s \in [DOMAIN call.ret -> ToSet(call.ret)] :
        /\ ToSet(s) = ToSet(call.ret)
        /\ by # "throws" => \A i \in 1 .. Len(s) - 1 : Before(by, s[i], s[i + 1])}
Sorts ==
    /\ call.phase = "callback" /\ call.op = "sort"
    /\ \E by \in {"value", "parity", "throws"} : \E s \in Arrangements(by) :
        LET all == [i \in 1 .. call.len |-> IF i <= Len(s) THEN s[i][1] ELSE Undefined]
            back == IF "sort" \in Own THEN Len(arr) ELSE IF call.len < Len(arr) THEN Len(arr) ELSE call.len
        IN /\ by = "throws" => "sortThrows" \in Own
           /\ Returns([i \in 1 .. back |-> IF i <= call.len THEN all[i] ELSE arr[i]], by, <<>>)

Init == arr = <<>> /\ call = Idle /\ result = Nothing
Next ==
    \/ Fails \/ Push \/ Unshift \/ Pop \/ Shift \/ ReverseInPlace \/ SetLength \/ Set \/ Concat
    \/ Asks \/ Gives \/ Finds \/ TakesSlice \/ Splices \/ Loops \/ Visits \/ Hears \/ Answers
    \/ BeginsSort \/ Sorts
Spec == Init /\ [][Next]_vars
=============================================================================
