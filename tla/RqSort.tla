-------------------------------- MODULE RqSort --------------------------------
(***************************************************************************)
(* The engine's in place sort (rqsort_idx of mquickjs.c): a heap sort that *)
(* only ever compares and swaps two elements by their index, a step for    *)
(* each comparison with a child.  Indexes count from 0, as there.          *)
(***************************************************************************)
EXTENDS Integers, FiniteSets

CONSTANTS Items,           \* what is sorted
          Tables,          \* tables to sort: functions on 0 .. n - 1
          Comparisons,     \* names of comparison functions
          Cmp(_, _, _)     \* of a comparison: below, at or above 0

\* js_array_sort gives each element its place, so no two are the same.
ASSUME TablesAssumption ==
    \A t \in Tables :
        /\ IsFiniteSet(DOMAIN t) /\ t \in [0 .. Cardinality(DOMAIN t) - 1 -> Items]
        /\ \A j, k \in DOMAIN t : t[j] = t[k] => j = k

VARIABLES given, order,    \* what is to be sorted, and by which comparison
          heap,            \* the table
          stage,           \* which of the two loops runs: "build", "drain", or "done"
          turn,            \* i of both loops
          sinking, node    \* whether the inner loop runs, and its r
sortVars == <<given, order, heap, stage, turn, sinking, node>>

nmemb == Cardinality(DOMAIN given)
End == IF stage = "build" THEN nmemb ELSE turn     \* the elements that are in the heap
Child == 2 * node + 1
Swapped(t, j, k) == [t EXCEPT ![j] = t[k], ![k] = t[j]]

\* A comparison puts items into one order, in which no two are the same.
Above(o, p, q) == Cmp(o, p, q) > 0
Consistent(o, items) ==
    /\ \A p, q \in items : (p = q \/ Above(o, p, q)) <=> ~Above(o, q, p)
    /\ \A p, q, s \in items : Above(o, p, q) /\ Above(o, q, s) => Above(o, p, s)
ItemsOf(t) == {t[k] : k \in DOMAIN t}

-----------------------------------------------------------------------------

SortInit ==
    /\ given \in Tables /\ order \in Comparisons /\ heap = given
    /\ stage = IF nmemb > 1 THEN "build" ELSE "done"
    /\ turn = nmemb \div 2
    /\ sinking = FALSE /\ node = 0

\* The next subtree, from the last one that has a child back to the root.
SinksNext ==
    /\ stage = "build" /\ ~sinking /\ turn > 0
    /\ turn' = turn - 1 /\ node' = turn - 1 /\ sinking' = TRUE
    /\ UNCHANGED <<given, order, heap, stage>>
IsBuilt ==
    /\ stage = "build" /\ ~sinking /\ turn = 0
    /\ stage' = "drain" /\ turn' = nmemb - 1
    /\ UNCHANGED <<given, order, heap, sinking, node>>

\* The root goes behind the rest of the heap.
TakesRoot ==
    /\ stage = "drain" /\ ~sinking /\ turn > 0
    /\ heap' = Swapped(heap, 0, turn) /\ node' = 0 /\ sinking' = TRUE
    /\ UNCHANGED <<given, order, stage, turn>>
IsDrained ==
    /\ stage = "drain" /\ ~sinking /\ turn = 0
    /\ stage' = "done" /\ UNCHANGED <<given, order, heap, turn, sinking, node>>

\* Faulty variant of LargerChild: an element that has left the heap is taken for a child.
LargerOrTaken(c) == IF c < nmemb - 1 /\ ~Above(order, heap[c], heap[c + 1]) THEN c + 1 ELSE c
\* The child of node, at or after c, that the element there is compared with.
LargerChild(c) == IF c < End - 1 /\ ~Above(order, heap[c], heap[c + 1]) THEN c + 1 ELSE c

Rests == sinking' = FALSE /\ turn' = IF stage = "drain" THEN turn - 1 ELSE turn
Sinks ==
    /\ sinking /\ Child < End
    /\ ~Above(order, heap[node], heap[LargerChild(Child)])
    /\ heap' = Swapped(heap, node, LargerChild(Child)) /\ node' = LargerChild(Child)
    /\ UNCHANGED <<given, order, stage, turn, sinking>>
\* An element above its children, or without any, stays.
Stays ==
    /\ sinking /\ (Child < End => Above(order, heap[node], heap[LargerChild(Child)]))
    /\ Rests /\ UNCHANGED <<given, order, heap, stage, node>>

SortNext == SinksNext \/ IsBuilt \/ TakesRoot \/ IsDrained \/ Sinks \/ Stays
SortSpec == SortInit /\ [][SortNext]_sortVars

\* A sort ends with the elements it was given, whatever the comparison says, and
\* with each below the next one if the comparison orders them: what rqsort_idx is
\* to do, by whose use of places js_array_sort is stable.
SortsStably ==
    stage = "done" =>
        /\ DOMAIN heap = DOMAIN given /\ ItemsOf(heap) = ItemsOf(given)
        /\ Consistent(order, ItemsOf(given)) =>
               \A k \in 0 .. nmemb - 2 : Above(order, heap[k + 1], heap[k])
=============================================================================
