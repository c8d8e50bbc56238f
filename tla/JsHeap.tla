------------------------------- MODULE JsHeap -------------------------------
(***************************************************************************)
(* The memory of the JavaScript engine (mquickjs/mquickjs.c): one arena in *)
(* which blocks are allocated upwards and the value stack grows downwards, *)
(* a collector that marks with a stack of its own in the space between     *)
(* them and slides the live blocks together by threading pointers          *)
(* (Jonkers), and the table of unique strings, which holds them weakly.    *)
(*                                                                         *)
(* The arena is modelled word by word.  A word is a pointer, a block       *)
(* header, or anything else the collector ignores.                         *)
(***************************************************************************)
EXTENDS Integers, Sequences, FiniteSets, SequencesExt, TLC

CONSTANTS
    Size,      \* words of the arena
    MinFree,   \* JS_MIN_FREE_SIZE, in words
    Critical,  \* JS_MIN_CRITICAL_FREE_SIZE, in words
    Slack,     \* JS_STACK_SLACK
    TempWords, \* words of the block in which js_is_numeric_string converts
    Pushed,    \* words ai_js_dispatch pushes without a check
    Chars,     \* the contents of strings, which compare as numbers
    Numeric,   \* those of them that start like a number
    MaxRefs,   \* bound on the values C code keeps in GC references
    MaxStack,  \* bound on the words of the value stack
    MaxFields  \* bound on the words of a block

ASSUME HeapAssumption ==
    /\ Size \in Nat /\ Chars \subseteq Nat /\ Numeric \subseteq Chars
    /\ Slack \in Nat \ {0} /\ TempWords \in Nat \ {0} /\ MinFree > Critical
    /\ Critical >= Pushed + 2

VARIABLES
    mem,       \* the arena
    heapFree,  \* heap_free: the first word that no block holds
    sp,        \* the value stack is in sp .. Size - 1
    bottom,    \* stack_bottom: the words promised to the value stack
    root,      \* the context's own values
    refs,      \* the values of top_gc_ref's list
    len,       \* unique_strings_len
    interning, \* a call of JS_MakeUniqueString: where it is, and its index a
    collected  \* nothing has happened since the last collection

vars == <<mem, heapFree, sp, bottom, root, refs, len, interning, collected>>

Nothing == <<"nothing">>             \* integers, special values, pointers to ROM
Ptr(a) == <<"ptr", a>>
Header(tag, n) == <<"header", tag, n>>
String(c) == <<"header", "string", 0, c>>  \* with its text, whatever its length

IsPtr(w) == w[1] = "ptr"
Target(w) == w[2]
Tag(m, a) == m[a][2]
Words(m, a) == m[a][3]               \* of a block, without its header
BlockSize(m, a) == Words(m, a) + 1   \* get_mblock_size
HasReferences(tag) == tag \in {"object", "array"}
Fields(m, a) == IF HasReferences(Tag(m, a)) THEN [k \in 1 .. Words(m, a) |-> a + k] ELSE <<>>

\* The blocks from the start of the heap to limit, in order.
RECURSIVE BlocksFrom(_, _, _)
BlocksFrom(m, a, limit) ==
    IF a >= limit THEN <<>> ELSE <<a>> \o BlocksFrom(m, a + BlockSize(m, a), limit)

Blocks(m, limit) == BlocksFrom(m, 0, limit)

-----------------------------------------------------------------------------
(* Marking.  The mark stack has the words between the heap and the value   *)
(* stack; a value array takes two, its position and itself, all else one.  *)

\* gc_mark
Mark(m, room, s, w) ==
    IF ~IsPtr(w) \/ Target(w) \in s.marked THEN s
    ELSE LET a == Target(w)
             item == IF Tag(m, a) = "array" THEN <<a, 0>> ELSE <<a>>
         IN IF ~HasReferences(Tag(m, a)) THEN [s EXCEPT !.marked = @ \cup {a}]
            ELSE IF room - Len(s.stack) < Len(item)
                 THEN [s EXCEPT !.marked = @ \cup {a}, !.overflow = TRUE]
                 ELSE [s EXCEPT !.marked = @ \cup {a}, !.stack = item \o @]

\* The first pointer in an array from position pos on, or its end.
NextPtr(m, a, pos) ==
    LET ptrs == {k \in pos .. Words(m, a) - 1 : IsPtr(m[a + 1 + k])}
    IN IF ptrs = {} THEN Words(m, a) ELSE CHOOSE k \in ptrs : \A j \in ptrs : k <= j

\* gc_mark_flush
RECURSIVE Flush(_, _, _)
Flush(m, room, s) ==
    IF s.stack = <<>> THEN s
    ELSE LET a == Head(s.stack) IN
         IF Tag(m, a) = "array"
         THEN LET pos == NextPtr(m, a, s.stack[2])
                  rest == SubSeq(s.stack, 3, Len(s.stack))
                  again == IF pos + 1 < Words(m, a) THEN <<a, pos + 1>> ELSE <<>>
                  popped == [s EXCEPT !.stack = again \o rest]
              IN Flush(m, room, IF pos < Words(m, a) THEN Mark(m, room, popped, m[a + 1 + pos])
                                                     ELSE [s EXCEPT !.stack = rest])
         ELSE Flush(m, room,
                FoldLeft(LAMBDA t, f : Mark(m, room, t, m[f]),
                         [s EXCEPT !.stack = Tail(@)], Fields(m, a)))

MarkRoot(m, room, s, w) == Flush(m, room, Mark(m, room, s, w))

\* One pass over the heap: the blocks that are marked by now are scanned again.
RescanOnce(m, limit, room, s) ==
    FoldLeft(LAMBDA t, a :
                IF a \in t.marked /\ HasReferences(Tag(m, a))
                THEN Flush(m, room, [t EXCEPT !.stack = IF Tag(m, a) = "array" THEN <<a, 0>> ELSE <<a>>])
                ELSE t,
             [s EXCEPT !.overflow = FALSE], Blocks(m, limit))

\* Faulty variant of Rescan: what overflowed is not scanned again.
NoRescan(m, limit, room, s) == s

\* After an overflow every marked block is scanned again, until none overflows.
RECURSIVE Rescan(_, _, _, _)
Rescan(m, limit, room, s) ==
    IF ~s.overflow THEN s ELSE Rescan(m, limit, room, RescanOnce(m, limit, room, s))

\* The blocks gc_mark_all keeps: those reached from the values in strong.
Marked(m, limit, room, strong) ==
    LET start == [marked |-> {}, stack |-> <<>>, overflow |-> FALSE]
        first == FoldLeft(LAMBDA s, w : MarkRoot(m, room, s, w), start, strong)
    IN Rescan(m, limit, room, first).marked

\* Faulty variant of KeptStrings: the table keeps its strings, marked or not.
AllStrings(m, table, live) ==
    SelectSeq([k \in 1 .. Words(m, table) |-> m[table + k]], IsPtr)

\* The elements of the unique string table that are kept, in their order.
KeptStrings(m, table, live) ==
    SelectSeq([k \in 1 .. Words(m, table) |-> m[table + k]],
              LAMBDA w : IsPtr(w) /\ Target(w) \in live)

\* What is left of the table: cut to its kept strings, its tail a free block.
CutTable(m, table, strings) ==
    LET n == Len(strings)
        cut == (table :> Header("array", n)) @@ [a \in table + 1 .. table + n |-> strings[a - table]] @@ m
    IN IF n = Words(m, table) THEN cut
       ELSE (table + n + 1 :> Header("free", Words(m, table) - n - 1)) @@ cut

\* The blocks that are not live become free blocks.  The code merges neighbours,
\* which the compaction below does not tell apart.
Sweep(m, limit, live) ==
    [a \in Range(Blocks(m, limit)) \ live |-> Header("free", Words(m, a))] @@ m

-----------------------------------------------------------------------------
(* Compaction.  m spans the arena and the values outside it (the slots),   *)
(* which have addresses of their own.                                      *)

\* gc_thread_pointer: the slot joins the list that starts in its block's header.
Thread(m, slot) ==
    IF ~IsPtr(m[slot]) THEN m
    ELSE LET a == Target(m[slot]) IN [m EXCEPT ![slot] = m[a], ![a] = Ptr(slot)]

\* gc_update_threaded_pointers: every slot of the list gets the block's new
\* address, and the block its header.
RECURSIVE Unthread(_, _, _)
Unthread(m, a, new) ==
    IF ~IsPtr(m[a]) THEN m
    ELSE LET slot == Target(m[a]) IN Unthread([m EXCEPT ![a] = m[slot], ![slot] = Ptr(new)], a, new)

ThreadAll(m, slots) == FoldLeft(Thread, m, slots)

\* What a pass does with a block that is kept.
ThreadBlock(m, a, new) == ThreadAll(m, Fields(m, a))
MoveBlock(m, a, new) == [b \in new .. new + Words(m, a) |-> m[a + b - new]] @@ m

\* One pass over the heap: at a block all pointers to it from before are known.
Pass(m, limit, moves) ==
    LET RECURSIVE From(_, _, _)
        From(n, a, new) ==
            IF a >= limit THEN [mem |-> n, free |-> new]
            ELSE LET u == Unthread(n, a, new)
                     next == a + BlockSize(u, a)
                 IN IF Tag(u, a) = "free" THEN From(u, next, new)
                    ELSE From(IF moves THEN MoveBlock(u, a, new) ELSE ThreadBlock(u, a, new),
                              next, new + BlockSize(u, a))
    IN From(m, 0, 0)

\* gc_compact_heap: the first pass threads the pointers of each block, the second
\* moves the blocks.
Compact(m, limit, slots) == Pass(Pass(ThreadAll(m, slots), limit, FALSE).mem, limit, TRUE)

-----------------------------------------------------------------------------
(* A collection.  An allocation that does not fit collects first; what     *)
(* follows is then either the allocation or the failure.                   *)

FreeBelow(limit) == limit - heapFree

\* Faulty variant of Fits: no words are left free.
FitsExactly(words, limit, least) == FreeBelow(limit) >= words

\* check_free_mem
Fits(words, limit, least) == FreeBelow(limit) >= words + least

Calling == interning.stage # "none"

Idle == ~Calling

HasTable == IsPtr(root["unique"])
Table == Target(root["unique"])
Capacity == IF HasTable THEN Words(mem, Table) ELSE 0

\* js_resize_value_array adds half of what it had.
Grown == IF len + 1 > Capacity + Capacity \div 2 THEN len + 1 ELSE Capacity + Capacity \div 2

\* What the call of JS_MakeUniqueString allocates next.
Wanted == CASE interning.stage = "numeric" -> TempWords
            [] interning.stage = "resize" -> IF len + 1 > Capacity THEN Grown + 1 ELSE 0
            [] OTHER -> 0

\* JS_GC may be called between operations; inside one, only its allocation does.
MayCollect == Idle \/ (Wanted > 0 /\ ~Fits(Wanted, bottom, MinFree))

RootNames == <<"unique", "exception", "global", "cache">>

RootSlot(k) == -k
RefSlot(k) == -Len(RootNames) - k

Stack == [k \in 1 .. Size - sp |-> mem[sp + k - 1]]

\* A call of js_resize_value_array keeps the table itself as a reference.
Held == refs \o (IF interning.stage = "resize" THEN <<root["unique"]>> ELSE <<>>)

Strong == <<root["exception"], root["global"]>> \o Stack \o Held

\* Everything that compaction must update.
Slots ==
    [k \in 1 .. Len(RootNames) |-> RootSlot(k)]
    \o [k \in 1 .. Size - sp |-> sp + k - 1]
    \o [k \in 1 .. Len(refs) |-> RefSlot(k)]

Everything ==
    mem @@ [a \in -Len(RootNames) .. -1 |-> root[RootNames[-a]]]
        @@ [a \in {RefSlot(k) : k \in DOMAIN refs} |-> refs[-a - Len(RootNames)]]

Live == Marked(mem, heapFree, sp - heapFree, Strong)

\* The table is marked only now, if a string is left in it; the weak cache entry
\* goes if its string does.
Swept(live, kept) ==
    LET keeps == kept # <<>>
        cut == IF keeps THEN CutTable(Everything, Table, kept) ELSE Everything
        swept == Sweep(cut, heapFree, live \cup (IF keeps THEN {Table} ELSE {}))
        lost(w) == IsPtr(w) /\ Target(w) \notin live
    IN [swept EXCEPT ![RootSlot(1)] = IF keeps THEN @ ELSE Nothing,
                     ![RootSlot(4)] = IF lost(@) THEN Nothing ELSE @]

\* Each \E names one value, which TLC then computes once.
GC ==
    /\ ~collected /\ MayCollect
    /\ \E live \in {Live} :
       \E kept \in {IF HasTable THEN KeptStrings(mem, Table, live) ELSE <<>>} :
       \E done \in {Compact(Swept(live, kept), heapFree, Slots)} :
        /\ heapFree' = done.free
        /\ mem' = [a \in 0 .. Size - 1 |->
                    IF a < done.free \/ a >= sp THEN done.mem[a] ELSE Nothing]
        /\ root' = [n \in Range(RootNames) |->
                     done.mem[CHOOSE s \in -4 .. -1 : RootNames[-s] = n]]
        /\ refs' = [k \in DOMAIN refs |-> done.mem[RefSlot(k)]]
        /\ len' = Len(kept)
        /\ collected' = TRUE
        /\ UNCHANGED <<sp, bottom, interning>>

-----------------------------------------------------------------------------
(* Allocation.                                                             *)

Block(tag, words) == <<Header(tag, Len(words))>> \o words

\* The block is put at the end of the heap, in the words of b.
Put(m, b) == [a \in heapFree .. heapFree + Len(b) - 1 |-> b[a - heapFree + 1]] @@ m

\* js_malloc, and JS_PUSH_VALUE of what it returns.
Alloc(block) ==
    /\ Idle /\ Len(refs) < MaxRefs
    /\ Fits(Len(block), bottom, MinFree)
    /\ mem' = Put(mem, block)
    /\ heapFree' = heapFree + Len(block)
    /\ refs' = Append(refs, Ptr(heapFree))
    /\ collected' = FALSE
    /\ UNCHANGED <<sp, bottom, root, len, interning>>

NewString(c) == Alloc(<<String(c)>>)

\* An object has a prototype and properties; an array, any number of values.
NewBlock(tag, n) == Alloc(Block(tag, [k \in 1 .. n |-> Nothing]))

ErrorObject == Block("object", <<Nothing, Nothing>>)

\* JS_ThrowOutOfMemory: the error object may use space that others may not; without
\* it the exception is a null.
ThrowOutOfMemory ==
    /\ IF Fits(Len(ErrorObject), bottom, Critical)
       THEN /\ mem' = Put(mem, ErrorObject)
            /\ heapFree' = heapFree + Len(ErrorObject)
            /\ root' = [root EXCEPT !["exception"] = Ptr(heapFree)]
            /\ collected' = FALSE
       ELSE /\ root' = [root EXCEPT !["exception"] = Nothing]
            /\ collected' = FALSE
            /\ UNCHANGED <<mem, heapFree>>
    /\ interning' = [stage |-> "none", at |-> 0]
    /\ UNCHANGED <<sp, bottom, refs, len>>

AllocFails(n) ==
    /\ Idle /\ collected
    /\ ~Fits(n + 1, bottom, MinFree)
    /\ ThrowOutOfMemory

\* JS_GetException takes the exception.
TakeException ==
    /\ Idle /\ IsPtr(root["exception"]) /\ Len(refs) < MaxRefs
    /\ refs' = Append(refs, root["exception"])
    /\ root' = [root EXCEPT !["exception"] = Nothing]
    /\ collected' = FALSE
    /\ UNCHANGED <<mem, heapFree, sp, bottom, len, interning>>

-----------------------------------------------------------------------------
(* What C code does with the values it has: each ref is one of its locals. *)

Unallocated == UNCHANGED <<heapFree, sp, bottom, root, len, interning>>

Pointers(words) == {w \in Range(words) : IsPtr(w)}

\* The fields of the blocks that C code can name: the global object is always one.
NamedFields ==
    UNION {Range(Fields(mem, Target(w))) : w \in Pointers(refs) \cup {root["global"]}}

Globals == Fields(mem, Target(root["global"]))

Values == Pointers(refs) \cup Pointers([k \in DOMAIN Globals |-> mem[Globals[k]]])

SetField(f, w) ==
    /\ Idle /\ mem[f] # w
    /\ mem' = [mem EXCEPT ![f] = w]
    /\ collected' = FALSE
    /\ UNCHANGED refs /\ Unallocated

Push(w) ==
    /\ Idle /\ Len(refs) < MaxRefs
    /\ IsPtr(w)
    /\ refs' = Append(refs, w)
    /\ UNCHANGED mem /\ collected' = FALSE /\ Unallocated

\* JS_PopGCRef
PopRef ==
    /\ Idle /\ refs # <<>>
    /\ refs' = Front(refs)
    /\ UNCHANGED mem /\ collected' = FALSE /\ Unallocated

Referenced(a) ==
    \/ \E w \in Range(Stack \o Front(refs)) \cup {root[n] : n \in Range(RootNames)} : w = Ptr(a)
    \/ \E b \in Range(Blocks(mem, heapFree)) : \E f \in Range(Fields(mem, b)) : mem[f] = Ptr(a)

\* js_free: of a block its caller alone has, and only if it is the last one.
FreeLast ==
    /\ Idle /\ refs # <<>> /\ IsPtr(Last(refs))
    /\ LET a == Target(Last(refs)) IN
        /\ a + BlockSize(mem, a) = heapFree
        /\ ~Referenced(a)
        /\ heapFree' = a
        /\ mem' = [b \in DOMAIN mem |-> IF b \in a .. a + Words(mem, a) THEN Nothing ELSE mem[b]]
    /\ refs' = Front(refs)
    /\ collected' = FALSE
    /\ UNCHANGED <<sp, bottom, root, len, interning>>

\* js_shrink of an array: its tail becomes a free block.
Shrink(k, n) ==
    /\ Idle /\ IsPtr(refs[k])
    /\ LET a == Target(refs[k]) IN
        /\ Tag(mem, a) = "array" /\ n < Words(mem, a)
        /\ mem' = [mem EXCEPT ![a] = Header("array", n),
                              ![a + n + 1] = Header("free", Words(mem, a) - n - 1)]
    /\ collected' = FALSE
    /\ UNCHANGED refs /\ Unallocated

-----------------------------------------------------------------------------
(* The value stack.                                                        *)

\* JS_StackCheck
StackCheck(n) ==
    LET new == sp - n - Slack IN
    /\ Idle /\ sp - n >= Size - MaxStack
    /\ \/ /\ Fits(n + Slack, new, MinFree)
          /\ bottom' = new
          /\ UNCHANGED <<mem, heapFree, sp, root, refs, len, interning, collected>>
       \/ /\ collected /\ ~Fits(n + Slack, new, MinFree)
          /\ ThrowOutOfMemory

\* JS_PushArg
PushArg(w) ==
    /\ Idle /\ sp - 1 >= bottom /\ sp > Size - MaxStack
    /\ sp' = sp - 1 /\ mem' = [mem EXCEPT ![sp - 1] = w]
    /\ collected' = FALSE
    /\ UNCHANGED <<heapFree, bottom, root, refs, len, interning>>

\* ai_js_dispatch has nothing else on the stack, and pushes arguments, the handler
\* and the global object without JS_StackCheck.  All are reached from the last.
DispatchPushes ==
    /\ Idle /\ sp = Size /\ bottom = Size /\ MaxStack >= Pushed
    /\ sp' = sp - Pushed
    /\ mem' = [a \in sp - Pushed .. sp - 1 |-> root["global"]] @@ mem
    /\ collected' = FALSE
    /\ UNCHANGED <<heapFree, bottom, root, refs, len, interning>>

\* JS_Call and the functions it runs leave sp as it was before the arguments; what
\* was promised to the stack stays so, until the next evaluation.
PopStack(n) ==
    /\ Idle /\ n \in 1 .. Size - sp
    /\ sp' = sp + n
    /\ mem' = [a \in DOMAIN mem |-> IF a \in sp .. sp + n - 1 THEN Nothing ELSE mem[a]]
    /\ bottom' \in {bottom, sp'}
    /\ collected' = FALSE
    /\ UNCHANGED <<heapFree, root, refs, len, interning>>

-----------------------------------------------------------------------------
(* Unique strings: JS_MakeUniqueString of the last ref.                    *)

Text(w) == mem[Target(w)][4]
IsString(w) == IsPtr(w) /\ Tag(mem, Target(w)) = "string"
Unique == [k \in 1 .. len |-> mem[Table + k]]
IsUnique(w) == \E k \in 1 .. len : Unique[k] = w

\* find_atom: the same text in the table, or the index where it belongs.
IndexOf(c) == Cardinality({k \in 1 .. len : Text(Unique[k]) < c})

FindUnique ==
    /\ Idle /\ refs # <<>> /\ IsString(Last(refs)) /\ ~IsUnique(Last(refs))
    /\ IF \E k \in 1 .. len : Text(Unique[k]) = Text(Last(refs))
       THEN /\ refs' = Append(Front(refs),
                             CHOOSE w \in Range(Unique) : Text(w) = Text(Last(refs)))
            /\ UNCHANGED interning
       ELSE /\ interning' = [stage |-> IF Text(Last(refs)) \in Numeric THEN "numeric" ELSE "resize",
                             at |-> IndexOf(Text(Last(refs)))]
            /\ UNCHANGED refs
    /\ collected' = FALSE
    /\ UNCHANGED <<mem, heapFree, sp, bottom, root, len>>

\* js_is_numeric_string: a block for the conversion, freed at its end.
TestNumeric ==
    /\ interning.stage = "numeric"
    /\ \/ /\ Fits(TempWords, bottom, MinFree)
          /\ interning' = [interning EXCEPT !.stage = "resize"]
          /\ collected' = FALSE
          /\ UNCHANGED <<mem, heapFree, sp, bottom, root, refs, len>>
       \/ /\ collected /\ ~Fits(TempWords, bottom, MinFree)
          /\ ThrowOutOfMemory

\* The memmove and the assignment that put the string in.  An index beyond the
\* end would make the memmove's length negative.
Inserted(words) ==
    [k \in DOMAIN words |->
        IF k <= interning.at THEN words[k]
        ELSE IF k = interning.at + 1 THEN Last(refs)
        ELSE IF k <= len + 1 THEN words[k - 1] ELSE words[k]]

InsertUnique ==
    /\ interning.stage = "resize" /\ interning.at <= len
    /\ LET old == [k \in 1 .. Capacity |-> mem[Table + k]] IN
       IF len + 1 <= Capacity
       THEN /\ mem' = [a \in DOMAIN mem |->
                        IF a \in Table + 1 .. Table + Capacity
                        THEN Inserted(old)[a - Table] ELSE mem[a]]
            /\ UNCHANGED <<heapFree, root>>
       ELSE /\ Fits(Grown + 1, bottom, MinFree)
            /\ mem' = Put(mem, Block("array",
                        Inserted(old \o [k \in 1 .. Grown - Capacity |-> Nothing])))
            /\ heapFree' = heapFree + Grown + 1
            /\ root' = [root EXCEPT !["unique"] = Ptr(heapFree)]
    /\ len' = len + 1
    /\ interning' = [stage |-> "none", at |-> 0]
    /\ collected' = FALSE
    /\ UNCHANGED <<sp, bottom, refs>>

InsertFails ==
    /\ interning.stage = "resize" /\ collected
    /\ len + 1 > Capacity /\ ~Fits(Grown + 1, bottom, MinFree)
    /\ ThrowOutOfMemory

\* js_string_convert_pos takes a cache entry for its string.
CachePosition ==
    /\ Idle /\ refs # <<>> /\ IsString(Last(refs))
    /\ root' = [root EXCEPT !["cache"] = Last(refs)]
    /\ collected' = FALSE
    /\ UNCHANGED <<mem, heapFree, sp, bottom, refs, len, interning>>

-----------------------------------------------------------------------------
Init ==
    /\ mem = [a \in 0 .. Size - 1 |-> IF a = 0 THEN Header("object", 2) ELSE Nothing]
    /\ heapFree = 3
    /\ sp = Size /\ bottom = Size
    /\ root = [n \in Range(RootNames) |-> IF n = "global" THEN Ptr(0) ELSE Nothing]
    /\ refs = <<>> /\ len = 0
    /\ interning = [stage |-> "none", at |-> 0]
    /\ collected = FALSE

Allocate ==
    \/ \E c \in Chars : NewString(c)
    \/ MaxFields > 0 /\ NewBlock("object", 2)
    \/ \E n \in 1 .. MaxFields : NewBlock("array", n)
    \/ \E n \in 1 .. MaxFields : AllocFails(n)

UseValues ==
    \/ \E f \in NamedFields : Push(mem[f]) \/ \E w \in Values : SetField(f, w)
    \/ PopRef \/ FreeLast \/ TakeException
    \/ \E k \in DOMAIN refs, n \in 0 .. MaxFields - 1 : Shrink(k, n)

UseStack ==
    \/ \E n \in 1 .. MaxStack : StackCheck(n) \/ PopStack(n)
    \/ \E w \in Values : PushArg(w)
    \/ DispatchPushes

Intern == FindUnique \/ TestNumeric \/ InsertUnique \/ InsertFails

Next == Allocate \/ UseValues \/ UseStack \/ Intern \/ CachePosition \/ GC

Spec == Init /\ [][Next]_vars

-----------------------------------------------------------------------------
(* Properties.                                                             *)

\* What the program can reach, by the order of the blocks instead of addresses.
RECURSIVE ReachedFrom(_)
ReachedFrom(s) ==
    LET fields == UNION {Range(Fields(mem, a)) : a \in s}
        more == s \cup {Target(mem[f]) : f \in {g \in fields : IsPtr(mem[g])}}
    IN IF more = s THEN s ELSE ReachedFrom(more)

Reached == ReachedFrom({Target(w) : w \in Pointers(Strong)})

Seen(order) ==
    LET name(w) == IF \E k \in DOMAIN order : w = Ptr(order[k])
                   THEN Ptr(CHOOSE k \in DOMAIN order : w = Ptr(order[k]))
                   ELSE IF IsPtr(w) THEN Nothing ELSE w
    IN [blocks |-> [k \in DOMAIN order |->
                    [i \in 0 .. Words(mem, order[k]) |->
                        IF i = 0 THEN mem[order[k]] ELSE name(mem[order[k] + i])]],
        strong |-> [k \in DOMAIN Strong |-> name(Strong[k])],
        cache |-> name(root["cache"]),
        unique |-> SelectSeq([k \in 1 .. len |-> name(Unique[k])], IsPtr)]

\* In a singleton, which makes TLC compute what is reached once.
View ==
    {Seen(order) : order \in
        {SelectSeq(Blocks(mem, heapFree), LAMBDA a : a \in reached) : reached \in {Reached}}}

\* A collection changes nothing a program can tell: every block it can reach is
\* kept, whole, and every value still leads to it, also when the mark stack
\* overflows; what is gone from the weak tables was reachable from nowhere else.
CollectionUnnoticed == [][~collected /\ collected' => View' = View]_vars

\* The blocks tile the heap, every pointer leads to a block in use, and so do the
\* weak ones: nothing is left to a string that has been freed.
NoDangling ==
    LET blocks == Range(Blocks(mem, heapFree)) IN
    /\ \E a \in blocks : a + BlockSize(mem, a) = heapFree
    /\ \A a \in Reached : a \in blocks /\ Tag(mem, a) # "free"
    /\ IsPtr(root["cache"]) => Target(root["cache"]) \in blocks /\ IsString(root["cache"])
    /\ \A k \in 1 .. len : Target(Unique[k]) \in blocks /\ IsString(Unique[k])

\* The value stack never runs into the heap, and leaves the collector the two words
\* its mark stack needs: for checked pushes by the check, for the dispatch by the
\* free space every allocation leaves.
StackClearOfHeap == sp - heapFree >= 2

\* unique_strings is "sorted strings", says the comment on it, each text once.
UniqueSorted == \A j, k \in 1 .. len : j < k => Text(Unique[j]) < Text(Unique[k])
=============================================================================
