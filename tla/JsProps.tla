------------------------------ MODULE JsProps ------------------------------
(***************************************************************************)
(* The property table of an object (mquickjs/mquickjs.c): a value array    *)
(* with a hash table, whose entries and links are word offsets, and the    *)
(* properties in the order they were made.  Deleted ones leave holes until *)
(* the table is compacted; the first free place is kept in the last one.   *)
(* The tables of the standard library are in ROM and copied on a change.   *)
(*                                                                         *)
(* A key hashes by its address, and a collection moves strings: it may     *)
(* happen in any allocation, and rehashes every table.                     *)
(***************************************************************************)
EXTENDS Integers, Sequences, FiniteSets, SequencesExt

CONSTANTS
    Movable,     \* keys whose strings are in the heap
    Fixed,       \* keys that are ROM atoms, integers or single characters
    HashOfFixed, \* their hash values
    Values,
    Accessors,   \* the keys that are tried with a getter and a setter
    MaxAddr,     \* bound on the word addresses of strings
    MaxSlots,    \* bound on the properties a table has room for
    Starts       \* the tables an object may start with

Keys == Movable \cup Fixed

ASSUME PropsAssumption ==
    /\ Movable \cap Fixed = {}
    /\ HashOfFixed \in [Fixed -> Nat]
    /\ Accessors \subseteq Keys
    /\ MaxAddr \in Nat /\ MaxSlots \in Nat
    /\ {"undefined", "uninitialized"} \cap Keys = {}

VARIABLES
    table,   \* the object's props
    addr,    \* the word address of each movable key
    global   \* it is the global object, whose values are references

vars == <<table, addr, global>>

Undefined == "undefined"
Uninitialized == "uninitialized"

NextUp(w) == IF w % 2 = 0 THEN w + 1 ELSE w - 1

\* hash_prop: the word address with the pointer's tag, which is in its low bit.
Hash(a, k) == IF k \in Movable THEN NextUp(a[k]) ELSE HashOfFixed[k]

Bucket(a, k, mask) == Hash(a, k) % (mask + 1)

Base(mask) == 2 + mask + 1                   \* words before the properties
Offset(mask, i) == Base(mask) + 3 * (i - 1)  \* of the i-th property
Place(t, idx) == (idx - Base(t.mask)) \div 3 + 1
Words(t) == Base(t.mask) + 3 * Len(t.props)

Slot(key, kind, value) == [key |-> key, next |-> 0, kind |-> kind, value |-> value]

Empty == [rom |-> FALSE, count |-> 0, mask |-> 0, heads |-> [b \in {0} |-> 0], props |-> <<>>]

Greatest(s) == CHOOSE i \in s : \A j \in s : j <= i
Least(s) == CHOOSE i \in s : \A j \in s : i <= j

\* get_prop_hash_size_log2, as the mask of a table of that size: the buckets are the
\* greatest power of 2 below the count.
HashMask(count) ==
    Greatest({m \in 0 .. count : m = 0 \/ (m + 1 < count /\ \E e \in 1 .. 30 : m + 1 = 2 ^ e)})

-----------------------------------------------------------------------------
(* The table.                                                              *)

\* The offsets on the way from the bucket of key k, as many as there can be.
Chain(a, t, k) ==
    LET link[n \in 0 .. Len(t.props)] ==
            IF n = 0 THEN t.heads[Bucket(a, k, t.mask)]
            ELSE IF link[n - 1] = 0 THEN 0 ELSE t.props[Place(t, link[n - 1])].next
    IN link

\* find_own_property: the place of key k, or 0.
Find(a, t, k) ==
    LET link == Chain(a, t, k)
        found == {n \in 0 .. Len(t.props) : link[n] # 0 /\ t.props[Place(t, link[n])].key = k}
    IN IF found = {} THEN 0 ELSE Place(t, link[Least(found)])

\* The places in use, as walks over the properties see them, and the first of them,
\* as many as are counted.
Taken(t) == {i \in DOMAIN t.props : t.props[i].key # Uninitialized}
UpTo(s, i) == {j \in s : j <= i}
Rehashed(t) == LET taken == Taken(t) IN {i \in taken : Cardinality(UpTo(taken, i)) <= t.count}

Before(s, i) == {j \in s : j < i}
Latest(mask, s) == IF s = {} THEN 0 ELSE Offset(mask, Greatest(s))

\* js_rehash_props: each is put at the head of its chain, in their order.
Rehash(a, t) ==
    LET kept == Rehashed(t)
        bucket(i) == Bucket(a, t.props[i].key, t.mask)
        chain(b) == {i \in kept : bucket(i) = b}
    IN [t EXCEPT
         !.heads = [b \in 0 .. t.mask |-> Latest(t.mask, chain(b))],
         !.props = [i \in DOMAIN t.props |->
                     IF i \in kept THEN [t.props[i] EXCEPT !.next = Latest(t.mask, Before(chain(bucket(i)), i))]
                     ELSE t.props[i]]]

\* Faulty variant of RehashAfterGC: large tables are taken for tables in ROM.
RehashSmallOnly(a, t) == IF t.rom \/ t.mask > 0 THEN t ELSE Rehash(a, t)

\* js_rehash_props at the end of a collection
RehashAfterGC(a, t) == IF t.rom \/ t.mask = 0 THEN t ELSE Rehash(a, t)

LastFree(t) == t.props # <<>> /\ Last(t.props).key = Uninitialized

\* get_first_free
FirstFree(t) == IF LastFree(t) THEN Last(t.props).next ELSE Words(t)

\* The words of an array that must hold size words: half as many again at least,
\* in whole properties (js_resize_value_array2).
Resized(old, size, base) ==
    LET more == old + old \div 2
        extra == (more - base) % 3
    IN IF more > size THEN (IF extra = 0 THEN more ELSE more + 3 - extra) ELSE size

\* Faulty variant of Widened: the links keep the offsets of the smaller table.
WidenedOnly(a, t, mask) ==
    [t EXCEPT !.mask = mask, !.heads = [b \in 0 .. mask |-> IF b <= t.mask THEN @[b] ELSE 0]]

\* More buckets: the properties move up, so every link changes.
Widened(a, t, mask) ==
    IF mask = t.mask THEN t
    ELSE Rehash(a, [t EXCEPT !.mask = mask, !.heads = [b \in 0 .. mask |-> 0]])

\* The table with room for another property, when it has none.
Extended(a, t) ==
    IF t = Empty THEN [Empty EXCEPT !.props = <<Slot(Uninitialized, "normal", Undefined)>>]
    ELSE LET mask == IF t.count + 1 > 2 * (t.mask + 1) THEN 2 * (t.mask + 1) - 1 ELSE t.mask
             size == Resized(Words(t), Words(t) + 3 + mask - t.mask, Base(mask))
             n == (size - Base(mask)) \div 3
             fresh == [i \in 1 .. n - Len(t.props) |->
                        Slot(IF i = n - Len(t.props) THEN Uninitialized ELSE Undefined,
                             "normal", Undefined)]
             wide == Widened(a, t, mask)
         IN [wide EXCEPT !.props = @ \o fresh]

\* The rest of js_create_property: a table with room gets the property.
Created(a, t, idx, slot) ==
    LET i == Place(t, idx)
        b == Bucket(a, slot.key, t.mask)
        put == [t EXCEPT !.count = @ + 1,
                         !.heads[b] = idx,
                         !.props[i] = [slot EXCEPT !.next = t.heads[b]]]
    IN IF i < Len(t.props) THEN [put EXCEPT !.props[Len(t.props)].next = idx + 3] ELSE put

\* js_compact_props: the n-th place in use moves to the n-th place.
Nth(s, n) == CHOOSE i \in s : Cardinality(UpTo(s, i)) = n
Compacted(a, t) ==
    LET n == HashMask(t.count)
        mask == IF n < t.mask THEN n ELSE t.mask
        kept == [i \in 1 .. t.count |-> t.props[Nth(Taken(t), i)]]
    IN IF t.count = 0 THEN Empty
       ELSE IF Base(mask) + 3 * t.count >= Words(t) THEN t
       ELSE Rehash(a, [t EXCEPT !.mask = mask, !.props = kept,
                                !.heads = [b \in 0 .. mask |-> 0]])

\* The table without the property at place i, which follows last in the chain of
\* bucket b.  The link it leaves behind is not read again.
Unlinked(t, i, last, b) ==
    LET next == t.props[i].next
        gone == Slot(Uninitialized, "normal", Undefined)
    IN IF last = 0 THEN [t EXCEPT !.heads[b] = next, !.props[i] = gone]
       ELSE [t EXCEPT !.props[Place(t, last)].next = next, !.props[i] = gone]

\* The first free place after a removal: the holes before it are free too.
FreeAfter(t, idx) ==
    LET used == Before(Taken(t), Place(t, idx))
    IN IF used = {} THEN Base(t.mask) ELSE Offset(t.mask, 1 + Greatest(used))

\* The rest of JS_DeleteProperty, for bucket b and the offset idx found in it.
Deleted(a, t, idx, last, b) ==
    LET gone == [Unlinked(t, Place(t, idx), last, b) EXCEPT !.count = @ - 1]
        free == FreeAfter(gone, FirstFree(t))
        done == IF free < Words(t) THEN [gone EXCEPT !.props[Len(t.props)].next = free] ELSE gone
    IN IF Base(t.mask) + 3 * t.count < Words(t) \div 2 THEN Compacted(a, done) ELSE done

-----------------------------------------------------------------------------
(* When a table is in order.                                               *)

Property == [key : Keys \cup {Undefined, Uninitialized}, next : Nat,
             kind : {"normal", "special", "getset", "varref"}, value : Values \cup {Undefined}]
Typed(t) ==
    t \in [rom : BOOLEAN, count : Nat, mask : Nat, heads : [0 .. t.mask -> Nat], props : Seq(Property)]

Used(t) == {i \in DOMAIN t.props : t.props[i].key \in Keys}
InBucket(a, t, b) == {i \in Used(t) : Bucket(a, t.props[i].key, t.mask) = b}

\* A bucket has the last of its properties, and each the one before it.
Linked(a, t) ==
    /\ \A b \in 0 .. t.mask : t.heads[b] = Latest(t.mask, InBucket(a, t, b))
    /\ \A i \in Used(t) :
        t.props[i].next = Latest(t.mask, Before(InBucket(a, t, Bucket(a, t.props[i].key, t.mask)), i))

\* The first free place is behind all that are in use, and what was not cleared
\* when the array was resized is behind that.
FreeKnown(t) ==
    \E f \in 1 .. Len(t.props) + 1 :
        /\ FirstFree(t) = Offset(t.mask, f)
        /\ LastFree(t) => f <= Len(t.props)
        /\ \A i \in DOMAIN t.props : /\ t.props[i].key \in Keys => i < f
                                     /\ t.props[i].key = Undefined => f <= i

Distinct(t) == \A i, j \in Used(t) : t.props[i].key = t.props[j].key => i = j
Counted(t) == t.count = Cardinality(Used(t))
RomIsFixed(t) == t.rom => \A i \in Used(t) : t.props[i].key \in Fixed
Sound(t) == Typed(t) /\ FreeKnown(t) /\ Distinct(t) /\ Counted(t) /\ RomIsFixed(t)

\* The standard library's tables are built in order, by the addresses of atoms in ROM.
ASSUME StartsAssumption ==
    \A start \in Starts :
        /\ start.global \in BOOLEAN /\ Sound(start.table)
        /\ \A i \in Used(start.table) : start.table.props[i].value \in Values
        /\ \A a \in [Movable -> 0 .. MaxAddr] : Linked(a, start.table)

-----------------------------------------------------------------------------
(* Allocations.  What an operation makes of the table, with every          *)
(* collection there may be on the way, is a set of states.                 *)

Now == [addr |-> addr, table |-> table]

\* Compaction moves blocks down and keeps their order.
Moves(a) ==
    {b \in [Movable -> 0 .. MaxAddr] :
        /\ \A k \in Movable : b[k] <= a[k]
        /\ \A j, k \in Movable : a[j] < a[k] => b[j] < b[k]}

AfterAlloc(s) == {[addr |-> b, table |-> RehashAfterGC(b, s.table)] : b \in Moves(s.addr)} \cup {s}

\* js_update_props copies a table from ROM, with 'prototype' and 'constructor' as
\* ordinary properties.  Nothing is rehashed: atoms of ROM have not moved.
ToRam(s) ==
    LET t == s.table
        ordinary(p) == IF p.kind = "special" THEN [p EXCEPT !.kind = "normal"] ELSE p
    IN [s EXCEPT !.table = [t EXCEPT !.rom = FALSE,
                                     !.props = [i \in DOMAIN t.props |-> ordinary(t.props[i])]]]

Updated(s) == IF s.table.rom THEN {ToRam(x) : x \in AfterAlloc(s)} ELSE {s}

\* js_create_property; hash_mask and first_free are read before the allocation.
Create(s, slot) ==
    IF LastFree(s.table)
    THEN {[s EXCEPT !.table = Created(s.addr, s.table, FirstFree(s.table), slot)]}
    ELSE {[x EXCEPT !.table =
              LET t == Extended(x.addr, x.table)
                  idx == Offset(t.mask, Len(x.table.props) + 1)
              IN Created(x.addr, t, idx, slot)] : x \in AfterAlloc(s)}

Found(s, k) == Find(s.addr, s.table, k)

Become(s) == table' = s.table /\ addr' = s.addr /\ UNCHANGED global

\* An exception for want of memory leaves what was done before it.
OutOfMemory(s) == \E x \in AfterAlloc(s) : Become(x)

WithValue(s, i, v) == [s EXCEPT !.table.props[i].value = v]

KindOfValue == IF global THEN "varref" ELSE "normal"

-----------------------------------------------------------------------------
(* Operations.                                                             *)

\* JS_DefinePropertyInternal when there is no such property, for a definition, for
\* JS_SetPropertyInternal when no prototype has a setter either, and for
\* add_global_var.  The getter and setter, or the reference of a global, are
\* allocated before the property's place.
AddProperty(k, kind, v) ==
    /\ Found(Now, k) = 0
    /\ \E s \in Updated(Now) :
       \E x \in (IF kind = "normal" THEN {s} ELSE AfterAlloc(s)) :
       \E y \in Create(x, Slot(k, kind, v)) :
            Len(y.table.props) <= MaxSlots /\ Become(y)

\* JS_DefinePropertyValue of a property there is; a getter and setter are a type
\* error.
DefineValue(k, v) ==
    /\ Found(Now, k) # 0
    /\ \E s \in Updated(Now) :
        IF s.table.props[Found(s, k)].kind = "getset" THEN Become(s)
        ELSE Become(WithValue(s, Found(s, k), v))

\* JS_DefinePropertyGetSet of a property there is; a value is a type error.  A pair
\* of functions in ROM is copied first.
DefineGetSet(k, v) ==
    /\ Found(Now, k) # 0
    /\ \E s \in Updated(Now) :
        IF s.table.props[Found(s, k)].kind # "getset" THEN Become(s)
        ELSE \E x \in AfterAlloc(s) : Become(WithValue(x, Found(x, k), v))

\* JS_SetPropertyInternal of an object's own property, unless it is a setter, which
\* is called.
SetOwn(k, v) ==
    /\ Found(Now, k) # 0
    /\ table.props[Found(Now, k)].kind # "getset"
    /\ IF table.rom
       THEN \E s \in Updated(Now) : Become(WithValue(s, Found(s, k), v))
       ELSE Become(WithValue(Now, Found(Now, k), v))

\* JS_DeleteProperty: the bucket and the place are found before a table in ROM is
\* copied.
JS_DeleteProperty(k) ==
    LET b == Bucket(addr, k, table.mask)
        link == Chain(addr, table, k)
    IN \E n \in 0 .. Len(table.props) :
        /\ link[n] # 0 /\ Place(table, link[n]) = Found(Now, k)
        /\ \E s \in Updated(Now) :
             Become([s EXCEPT !.table =
                        Deleted(s.addr, @, link[n], IF n = 0 THEN 0 ELSE link[n - 1], b)])

Fails == \E s \in {Now} \cup Updated(Now) : OutOfMemory(s)

\* A string that is no key here may be freed, and made again after the others.
NewString(k) ==
    /\ Found(Now, k) = 0
    /\ \E w \in 0 .. MaxAddr :
        /\ \A j \in Movable \ {k} : addr[j] < w
        /\ addr' = [addr EXCEPT ![k] = w]
    /\ UNCHANGED <<table, global>>

-----------------------------------------------------------------------------
Init ==
    /\ addr \in [Movable -> 0 .. MaxAddr]
    /\ \A j, k \in Movable : addr[j] = addr[k] => j = k
    /\ \E start \in Starts : table = start.table /\ global = start.global

Next ==
    \/ \E k \in Keys, v \in Values :
        \/ AddProperty(k, KindOfValue, v) \/ DefineValue(k, v) \/ SetOwn(k, v)
    \/ \E k \in Accessors, v \in Values :
        \/ AddProperty(k, "getset", v) \/ DefineGetSet(k, v)
    \/ \E k \in Keys : JS_DeleteProperty(k)
    \/ Fails
    \/ \E k \in Movable : NewString(k)

Spec == Init /\ [][Next]_vars

-----------------------------------------------------------------------------
(* Properties.                                                             *)

\* The inductive invariant.
IInv == addr \in [Movable -> Nat] /\ global \in BOOLEAN /\ Sound(table) /\ Linked(addr, table)

\* The properties in their order, whatever the hash table says.
Entry(p) == [key |-> p.key, kind |-> IF p.kind = "special" THEN "normal" ELSE p.kind, value |-> p.value]
Entries(t) ==
    LET used == Used(t) IN [n \in 1 .. Cardinality(used) |-> Entry(t.props[Nth(used, n)])]

List == INSTANCE JsPropList
        WITH list <- Entries(table), Kinds <- {"normal", "getset", "varref"}

\* Through its hash table, its holes and its copies, with collections at any
\* allocation, the table is a list of properties without a key twice.
ImplementsPropList == List!Spec

\* Every property is found under its key, and nothing else is: the links hold after
\* every growth, compaction, removal and collection.
FoundByHash ==
    /\ Cardinality(Used(table)) = table.count
    /\ \A k \in Keys :
        LET place == Find(addr, table, k) IN
        IF \E i \in Used(table) : table.props[i].key = k
        THEN place \in Used(table) /\ table.props[place].key = k
        ELSE place = 0
=============================================================================
